-------------------------- MODULE MediaStoreProofs --------------------------
(***************************************************************************)
(* Theorems about MediaStore, for every value of its constants: the caps,  *)
(* what an eviction takes, and what joins the index to the files.          *)
(***************************************************************************)
EXTENDS MediaStore, NaturalsInduction, WellFoundedInduction, FiniteSetTheorems,
        SequenceTheorems, TLAPS

-----------------------------------------------------------------------------
(* Functions defined by recursion on 0 .. n. *)

LEMMA LeastElement ==
    ASSUME NEW T \in SUBSET Nat, T # {}
    PROVE  \E x \in T : \A y \in T : x <= y
<1>1. IsWellFoundedOn(OpToRel(<, Nat), Nat)
  BY NatLessThanWellFounded
<1>2. PICK x \in T : \A y \in T : <<y, x>> \notin OpToRel(<, Nat)
  BY <1>1, WFMin
<1>3. \A y \in T : ~(y < x)
  BY <1>2 DEF OpToRel
<1>. QED BY <1>3

\* f is iterated from first by the n steps of next.
Iterates(f, first, next, n) ==
    f[0] = first /\ \A i \in 1 .. n : f[i] = next[i][f[i - 1]]

\* The same of h, which is not known to stay in A.
Recurs(h, A, first, next, n) ==
    h[0] = first /\ \A i \in 1 .. n : h[i - 1] \in A => h[i] = next[i][h[i - 1]]

LEMMA IterationExists ==
    ASSUME NEW n \in Nat, NEW A, NEW first \in A, NEW next \in [1 .. n -> [A -> A]]
    PROVE  \E f \in [0 .. n -> A] : Iterates(f, first, next, n)
<1>. DEFINE Bad == {k \in 0 .. n : ~\E f \in [0 .. k -> A] : Iterates(f, first, next, k)}
<1>1. SUFFICES Bad = {}
  OBVIOUS
<1>2. SUFFICES ASSUME Bad # {} PROVE FALSE
  OBVIOUS
<1>3. PICK k \in Bad : \A j \in Bad : k <= j
  <2>1. Bad \in SUBSET Nat
    OBVIOUS
  <2>. HIDE DEF Bad
  <2>. QED BY <2>1, <1>2, LeastElement
<1>4. k # 0
  <2>1. ASSUME k = 0 PROVE FALSE
    <3>. DEFINE f == [i \in 0 .. 0 |-> first]
    <3>1. f \in [0 .. 0 -> A] /\ Iterates(f, first, next, 0)
      BY DEF Iterates
    <3>. QED BY <3>1, <2>1
  <2>. QED BY <2>1
<1>5. k - 1 \in 0 .. n /\ k - 1 \notin Bad
  BY <1>3, <1>4
<1>6. PICK f \in [0 .. k - 1 -> A] : Iterates(f, first, next, k - 1)
  BY <1>5
<1>. DEFINE g == [i \in 0 .. k |-> IF i = k THEN next[k][f[k - 1]] ELSE f[i]]
<1>7. k \in 1 .. n /\ next[k] \in [A -> A] /\ f[k - 1] \in A
  BY <1>4, <1>6
<1>8. g \in [0 .. k -> A]
  BY <1>6, <1>7
<1>9. Iterates(g, first, next, k)
  BY <1>6, <1>7 DEF Iterates
<1>. QED BY <1>8, <1>9

\* Whatever satisfies the recursion, of its own domain, is that function.
LEMMA IterationUnique ==
    ASSUME NEW n \in Nat, NEW A, NEW first \in A, NEW next \in [1 .. n -> [A -> A]],
           NEW f \in [0 .. n -> A], Iterates(f, first, next, n),
           NEW h, Recurs(h, A, first, next, n)
    PROVE  \A i \in 0 .. n : h[i] = f[i]
<1>. DEFINE Bad == {i \in 0 .. n : h[i] # f[i]}
<1>1. SUFFICES ASSUME Bad # {} PROVE FALSE
  OBVIOUS
<1>2. PICK k \in Bad : \A j \in Bad : k <= j
  <2>1. Bad \in SUBSET Nat
    OBVIOUS
  <2>. HIDE DEF Bad
  <2>. QED BY <2>1, <1>1, LeastElement
<1>3. k # 0
  BY DEF Iterates, Recurs
<1>4. k - 1 \in 0 .. n /\ k - 1 \notin Bad /\ k \in 1 .. n
  BY <1>2, <1>3
<1>. QED BY <1>4 DEF Iterates, Recurs

\* The same, in one hypothesis and one conclusion.
Iteration(f, A, first, next, n) ==
    /\ n \in Nat /\ first \in A /\ next \in [1 .. n -> [A -> A]]
    /\ f \in [0 .. n -> A] /\ Iterates(f, first, next, n)
AgreeUpTo(n, h, f) == \A i \in 0 .. n : h[i] = f[i]
LEMMA IterationsAgree ==
    ASSUME NEW n, NEW A, NEW first, NEW next, NEW f, NEW h,
           Iteration(f, A, first, next, n), Recurs(h, A, first, next, n)
    PROVE  AgreeUpTo(n, h, f)
BY IterationUnique DEF Iteration, AgreeUpTo

\* What holds of 0, and passes from each number to the next, holds up to n.
LEMMA UpTo ==
    ASSUME NEW n \in Nat, NEW Good \in SUBSET Nat, 0 \in Good,
           \A i \in 1 .. n : i - 1 \in Good => i \in Good
    PROVE  n \in Good
<1>. DEFINE Bad == (0 .. n) \ Good
<1>1. SUFFICES ASSUME Bad # {} PROVE FALSE
  OBVIOUS
<1>2. PICK k \in Bad : \A j \in Bad : k <= j
  <2>1. Bad \in SUBSET Nat
    OBVIOUS
  <2>. HIDE DEF Bad
  <2>. QED BY <2>1, <1>1, LeastElement
<1>3. k # 0 /\ k - 1 \notin Bad /\ k \in 1 .. n
  BY <1>2
<1>. QED BY <1>3

-----------------------------------------------------------------------------
(* The rows of some messages. *)

\* One step of Only.
Picks(rows, ms) ==
    [i \in 1 .. Len(rows) |->
        [s \in Seq(Messages) |-> IF rows[i] \in ms THEN Append(s, rows[i]) ELSE s]]

LEMMA OnlyIterates ==
    ASSUME NEW rows \in Seq(Messages), NEW ms
    PROVE  \E f \in [0 .. Len(rows) -> Seq(Messages)] :
              Iterates(f, <<>>, Picks(rows, ms), Len(rows)) /\ Only(rows, ms) = f[Len(rows)]
<1>. DEFINE n == Len(rows)
            A == Seq(Messages)
            next == Picks(rows, ms)
            Rec(h) == [i \in 0 .. n |->
                         CASE i = 0 -> <<>>
                           [] i > 0 /\ rows[i] \in ms -> Append(h[i - 1], rows[i])
                           [] OTHER -> h[i - 1]]
            up == CHOOSE h : h = Rec(h)
<1>1. n \in Nat /\ \A i \in 1 .. n : rows[i] \in Messages
  OBVIOUS
<1>2. <<>> \in A /\ next \in [1 .. n -> [A -> A]]
  BY <1>1 DEF Picks
<1>3. PICK f \in [0 .. n -> A] : Iterates(f, <<>>, next, n)
  BY <1>1, <1>2, IterationExists
<1>4. f = Rec(f)
  <2>1. \A i \in 0 .. n : f[i] = Rec(f)[i]
    <3>1. TAKE i \in 0 .. n
    <3>2. CASE i = 0
      BY <3>2, <1>3 DEF Iterates
    <3>3. CASE i # 0
      <4>1. i \in 1 .. n /\ i - 1 \in 0 .. n /\ f[i - 1] \in A
        BY <3>3, <1>1, <1>3
      <4>2. f[i] = IF rows[i] \in ms THEN Append(f[i - 1], rows[i]) ELSE f[i - 1]
        BY <4>1, <1>3 DEF Iterates, Picks
      <4>. QED BY <4>1, <4>2
    <3>. QED BY <3>2, <3>3
  <2>. QED BY <2>1
<1>5. up = Rec(up)
  BY <1>4
<1>. HIDE DEF up
<1>6. up[0] = <<>> /\ \A i \in 1 .. n : up[i - 1] \in A => up[i] = next[i][up[i - 1]]
  <2>1. up[0] = Rec(up)[0]
    BY <1>5
  <2>2. up[0] = <<>>
    BY <2>1, <1>1
  <2>3. ASSUME NEW i \in 1 .. n, up[i - 1] \in A
        PROVE  up[i] = next[i][up[i - 1]]
    <3>1. up[i] = Rec(up)[i]
      BY <1>5
    <3>2. up[i] = IF rows[i] \in ms THEN Append(up[i - 1], rows[i]) ELSE up[i - 1]
      BY <3>1, <1>1
    <3>. QED BY <3>2, <2>3 DEF Picks
  <2>. QED BY <2>2, <2>3
<1>7. \A i \in 0 .. n : up[i] = f[i]
  <2>1. Iterates(f, <<>>, next, n) /\ f \in [0 .. n -> A] /\ n \in Nat
    BY <1>1, <1>3
  <2>2. Recurs(up, A, <<>>, next, n)
    BY <1>6 DEF Recurs
  <2>. HIDE DEF next, n, A, Rec
  <2>3. Iteration(f, A, <<>>, next, n)
    BY <2>1, <1>2 DEF Iteration
  <2>4. AgreeUpTo(n, up, f)
    BY ONLY <2>2, <2>3, IterationsAgree
  <2>. QED BY ONLY <2>4 DEF AgreeUpTo
<1>8. Only(rows, ms) = up[n]
  BY DEF Only, up
<1>. QED BY <1>3, <1>7, <1>8, <1>1
\* What Only(rows, ms) is.
LEMMA OnlyIs ==
    ASSUME NEW rows \in Seq(Messages), NEW ms
    PROVE  /\ Only(rows, ms) \in Seq(Messages)
           /\ Range(Only(rows, ms)) = Range(rows) \cap ms
           /\ IsInjective(rows) => IsInjective(Only(rows, ms))
<1>. DEFINE n == Len(rows)
            Before(i) == {rows[j] : j \in 1 .. i}
<1>1. PICK f \in [0 .. n -> Seq(Messages)] :
         Iterates(f, <<>>, Picks(rows, ms), n) /\ Only(rows, ms) = f[n]
  BY OnlyIterates
<1>2. n \in Nat /\ rows \in [1 .. n -> Messages]
  OBVIOUS
<1>3. f[0] = <<>> /\ \A i \in 1 .. n :
         f[i] = IF rows[i] \in ms THEN Append(f[i - 1], rows[i]) ELSE f[i - 1]
  <2>1. \A i \in 1 .. n : f[i - 1] \in Seq(Messages) /\ f[i] = Picks(rows, ms)[i][f[i - 1]]
    BY <1>1, <1>2 DEF Iterates
  <2>. QED BY <2>1, <1>1 DEF Iterates, Picks
<1>. DEFINE Good == {i \in 0 .. n :
                       /\ Range(f[i]) = Before(i) \cap ms
                       /\ IsInjective(rows) => IsInjective(f[i])}
<1>4. 0 \in Good
  BY <1>3, <1>2 DEF Range, IsInjective
<1>5. ASSUME NEW i \in 1 .. n, i - 1 \in Good PROVE i \in Good
  <2>1. i - 1 \in 0 .. n /\ f[i - 1] \in Seq(Messages) /\ rows[i] \in Messages
    BY <1>2
  <2>2. Before(i) = Before(i - 1) \cup {rows[i]}
    BY <1>2
  <2>3. CASE rows[i] \notin ms
    <3>1. f[i] = f[i - 1]
      BY <2>3, <1>3
    <3>2. Before(i) \cap ms = Before(i - 1) \cap ms
      BY <2>2, <2>3
    <3>. QED BY <3>1, <3>2, <1>5
  <2>4. CASE rows[i] \in ms
    <3>1. f[i] = Append(f[i - 1], rows[i])
      BY <2>4, <1>3
    <3>2. PICK l \in Nat :
             /\ DOMAIN f[i - 1] = 1 .. l /\ DOMAIN f[i] = 1 .. l + 1
             /\ \A j \in 1 .. l : f[i][j] = f[i - 1][j]
             /\ f[i][l + 1] = rows[i]
      <4>. WITNESS Len(f[i - 1]) \in Nat
      <4>. QED BY <3>1, <2>1
    <3>3. Range(f[i]) = Range(f[i - 1]) \cup {rows[i]}
      <4>1. \A j \in 1 .. l + 1 : j \in 1 .. l \/ j = l + 1
        OBVIOUS
      <4>2. \A j \in 1 .. l : j \in 1 .. l + 1
        OBVIOUS
      <4>3. l + 1 \in 1 .. l + 1
        OBVIOUS
      <4>. QED BY <3>2, <4>1, <4>2, <4>3 DEF Range
    <3>4. ASSUME IsInjective(rows) PROVE IsInjective(f[i])
      <4>1. rows[i] \notin Before(i - 1)
        BY <1>2, <3>4 DEF IsInjective
      <4>2. rows[i] \notin Range(f[i - 1])
        BY <4>1, <1>5
      <4>3. \A j \in 1 .. l : f[i - 1][j] # rows[i]
        BY <4>2, <3>2 DEF Range
      <4>4. \A j, k \in 1 .. l : f[i - 1][j] = f[i - 1][k] => j = k
        BY <3>2, <3>4, <1>5 DEF IsInjective
      <4>. QED BY <4>3, <4>4, <3>2 DEF IsInjective
    <3>. QED BY <3>3, <3>4, <2>2, <2>4, <1>5
  <2>. QED BY <2>3, <2>4
<1>6. n \in Good
  <2>1. Good \in SUBSET Nat
    BY <1>2
  <2>. HIDE DEF Good
  <2>. QED BY <1>2, <1>4, <1>5, <2>1, UpTo
<1>7. Before(n) = Range(rows)
  BY <1>2 DEF Range
<1>. QED BY <1>1, <1>2, <1>6, <1>7

-----------------------------------------------------------------------------
(* Sizes. *)

\* The bytes of some messages, one element each.
Heap(ms) == UNION {{m} \X (1 .. Size[m]) : m \in ms}
Bounded(ms) == IsFiniteSet(ms) /\ IsFiniteSet(Heap(ms))

LEMMA NoBytes == Bounded({}) /\ Bytes({}) = 0 /\ Fits({})
<1>1. Heap({}) = {}
  BY DEF Heap
<1>2. IsFiniteSet({}) /\ Cardinality({}) = 0
  BY FS_EmptySet
<1>3. Bytes({}) = Cardinality(Heap({}))
  BY DEF Bytes, Heap
<1>. QED BY <1>1, <1>2, <1>3, CapsAssumption DEF Fits, Bounded

LEMMA OneMoreMessage ==
    ASSUME NEW ms, Bounded(ms), NEW m \in Messages, m \notin ms
    PROVE  /\ Bounded(ms \cup {m})
           /\ Cardinality(ms) \in Nat /\ Bytes(ms) \in Nat
           /\ Cardinality(ms \cup {m}) = Cardinality(ms) + 1
           /\ Bytes(ms \cup {m}) = Bytes(ms) + Size[m]
<1>1. PICK s \in Nat : s = Size[m]
  BY MessagesAssumption
<1>. DEFINE new == {m} \X (1 .. s)
<1>2. IsFiniteSet(1 .. s) /\ Cardinality(1 .. s) = s
  <2>1. 1 \in Int /\ s \in Int
    OBVIOUS
  <2>2. /\ IsFiniteSet(1 .. s)
        /\ Cardinality(1 .. s) = IF 1 > s THEN 0 ELSE s - 1 + 1
    BY <2>1, FS_Interval
  <2>. QED BY <2>2
<1>3. IsFiniteSet({m}) /\ Cardinality({m}) = 1
  BY FS_Singleton
<1>4. IsFiniteSet(new) /\ Cardinality(new) = s
  <2>1. IsFiniteSet(new) /\ Cardinality(new) = Cardinality({m}) * Cardinality(1 .. s)
    BY <1>2, <1>3, FS_Product
  <2>. HIDE DEF new
  <2>. QED BY <2>1, <1>2, <1>3
<1>5. Heap(ms \cup {m}) = Heap(ms) \cup new
  BY <1>1 DEF Heap
<1>6. Heap(ms) \cap new = {}
  BY DEF Heap
<1>7. PICK h \in Nat : IsFiniteSet(Heap(ms)) /\ Cardinality(Heap(ms)) = h
  BY FS_CardinalityType DEF Bounded
<1>8. /\ IsFiniteSet(Heap(ms) \cup new)
      /\ Cardinality(Heap(ms) \cup new) = h + s
  <2>1. /\ IsFiniteSet(Heap(ms) \cup new)
        /\ Cardinality(Heap(ms) \cup new)
             = Cardinality(Heap(ms)) + Cardinality(new) - Cardinality(Heap(ms) \cap new)
    BY <1>4, <1>7, FS_Union
  <2>2. Cardinality(Heap(ms) \cap new) = 0
    BY <1>6, FS_EmptySet
  <2>. HIDE DEF new
  <2>. QED BY <2>1, <2>2, <1>4, <1>7
<1>9. Bytes(ms) = Cardinality(Heap(ms)) /\ Bytes(ms \cup {m}) = Cardinality(Heap(ms \cup {m}))
  BY DEF Bytes, Heap
<1>10. Bytes(ms \cup {m}) = Bytes(ms) + Size[m] /\ Bytes(ms) \in Nat
  BY <1>1, <1>5, <1>7, <1>8, <1>9
<1>11. /\ IsFiniteSet(ms \cup {m}) /\ Cardinality(ms) \in Nat
       /\ Cardinality(ms \cup {m}) = IF m \in ms THEN Cardinality(ms) ELSE Cardinality(ms) + 1
  BY FS_AddElement, FS_CardinalityType DEF Bounded
<1>. QED BY <1>5, <1>8, <1>10, <1>11 DEF Bounded

LEMMA BoundedPart ==
    ASSUME NEW all, Bounded(all), NEW some \in SUBSET all
    PROVE  Bounded(some)
<1>1. Heap(some) \subseteq Heap(all)
  BY DEF Heap
<1>. QED BY <1>1, FS_Subset DEF Bounded

\* What fits still fits when some of it is gone.
LEMMA FewerFit ==
    ASSUME NEW all, Bounded(all), Fits(all), NEW some \in SUBSET all
    PROVE  Fits(some) /\ Bounded(some)
<1>1. Heap(some) \subseteq Heap(all)
  BY DEF Heap
<1>2. IsFiniteSet(some) /\ Cardinality(some) <= Cardinality(all)
  BY FS_Subset DEF Bounded
<1>3. IsFiniteSet(Heap(some)) /\ Cardinality(Heap(some)) <= Cardinality(Heap(all))
  BY <1>1, FS_Subset DEF Bounded
<1>4. /\ Cardinality(some) \in Nat /\ Cardinality(all) \in Nat
      /\ Cardinality(Heap(some)) \in Nat /\ Cardinality(Heap(all)) \in Nat
  BY <1>2, <1>3, FS_CardinalityType DEF Bounded
<1>5. Bytes(some) = Cardinality(Heap(some)) /\ Bytes(all) = Cardinality(Heap(all))
  BY DEF Bytes, Heap
<1>. QED BY <1>2, <1>3, <1>4, <1>5, CapsAssumption DEF Fits, Bounded

-----------------------------------------------------------------------------
(* What an eviction dooms. *)

\* The k newest of these rows.
Newest(rows, k) == {rows[j] : j \in Len(rows) + 1 - k .. Len(rows)}

LEMMA NewestAdds ==
    ASSUME NEW rows \in Seq(Messages), IsInjective(rows), NEW k \in 0 .. Len(rows) - 1
    PROVE  /\ Len(rows) - k \in 1 .. Len(rows) /\ rows[Len(rows) - k] \in Messages
           /\ Newest(rows, k + 1) = Newest(rows, k) \cup {rows[Len(rows) - k]}
           /\ rows[Len(rows) - k] \notin Newest(rows, k)
<1>1. PICK n \in Nat : n = Len(rows) /\ rows \in [1 .. n -> Messages]
  OBVIOUS
<1>2. n - k \in 1 .. n /\ k \in Nat /\ k <= n - 1
  BY <1>1
<1>3. rows[n - k] \in Messages
  BY <1>1, <1>2
<1>4. n + 1 - (k + 1) .. n = (n + 1 - k .. n) \cup {n - k}
  BY <1>1, <1>2
<1>5. Newest(rows, k + 1) = Newest(rows, k) \cup {rows[n - k]}
  BY <1>1, <1>4 DEF Newest
<1>6. \A j \in n + 1 - k .. n : j \in 1 .. n /\ j # n - k
  BY ONLY n \in Nat, <1>2
<1>7. \A j \in n + 1 - k .. n : rows[j] # rows[n - k]
  BY <1>1, <1>2, <1>6 DEF IsInjective
<1>8. rows[n - k] \notin Newest(rows, k)
  BY <1>1, <1>7 DEF Newest
<1>. QED BY <1>1, <1>2, <1>3, <1>5, <1>8

LEMMA NewestBounded ==
    ASSUME NEW rows \in Seq(Messages), IsInjective(rows)
    PROVE  \A k \in 0 .. Len(rows) : Bounded(Newest(rows, k))
<1>1. SUFFICES ASSUME NEW k \in 0 .. Len(rows) PROVE Bounded(Newest(rows, k))
  OBVIOUS
<1>. DEFINE Good == {i \in 0 .. k : Bounded(Newest(rows, i))}
<1>2. Newest(rows, 0) = {} /\ k \in Nat /\ Len(rows) \in Nat
  BY DEF Newest
<1>3. 0 \in Good
  <2>1. 0 \in 0 .. k
    BY <1>2
  <2>. QED BY <2>1, <1>2, NoBytes
<1>4. ASSUME NEW i \in 1 .. k, i - 1 \in Good PROVE i \in Good
  <2>1. i - 1 \in 0 .. Len(rows) - 1 /\ (i - 1) + 1 = i
    BY <1>2
  <2>2. /\ Newest(rows, i) = Newest(rows, i - 1) \cup {rows[Len(rows) - (i - 1)]}
        /\ rows[Len(rows) - (i - 1)] \in Messages \ Newest(rows, i - 1)
    BY <2>1, NewestAdds
  <2>. QED BY <2>2, <1>4, OneMoreMessage
<1>5. k \in Good
  <2>1. Good \in SUBSET Nat
    OBVIOUS
  <2>. HIDE DEF Good
  <2>. QED BY <1>2, <1>3, <1>4, <2>1, UpTo
<1>. QED BY <1>5

\* What _evict's loop keeps.
Tally == [kept : Nat, total : Nat, doomed : Seq(Messages)]
Start == [kept |-> 0, total |-> 0, doomed |-> <<>>]
Dooms(acc, m) == acc.doomed # <<>> \/ Over(acc, m)
Visits(rows) ==
    [i \in 1 .. Len(rows) |->
        [acc \in Tally |-> Visit(acc, rows[Len(rows) + 1 - i], Dooms(acc, rows[Len(rows) + 1 - i]))]]

LEMMA VisitIs ==
    ASSUME NEW acc \in Tally, NEW m \in Messages, NEW doom \in BOOLEAN
    PROVE  LET new == Visit(acc, m, doom) IN
           /\ new \in Tally
           /\ doom => /\ new.kept = acc.kept /\ new.total = acc.total
                      /\ new.doomed = Append(acc.doomed, m)
           /\ ~doom => /\ new.kept = acc.kept + 1 /\ new.total = acc.total + Size[m]
                       /\ new.doomed = acc.doomed
<1>1. Size[m] \in Nat
  BY MessagesAssumption
<1>2. /\ acc.kept + 1 \in Nat /\ acc.total + Size[m] \in Nat
      /\ Append(acc.doomed, m) \in Seq(Messages)
  BY <1>1 DEF Tally
<1>3. CASE doom
  BY <1>2, <1>3 DEF Visit, Tally
<1>4. CASE ~doom
  <2>. DEFINE one == [acc EXCEPT !.kept = acc.kept + 1]
              two == [one EXCEPT !.total = acc.total + Size[m]]
  <2>1. Visit(acc, m, doom) = two
    BY <1>4 DEF Visit, Tally
  <2>2. one \in Tally /\ one.kept = acc.kept + 1 /\ one.total = acc.total /\ one.doomed = acc.doomed
    BY <1>2 DEF Tally
  <2>. HIDE DEF one
  <2>3. /\ two \in Tally /\ two.kept = acc.kept + 1 /\ two.total = acc.total + Size[m]
        /\ two.doomed = acc.doomed
    BY <1>2, <2>2 DEF Tally
  <2>. QED BY <2>1, <2>3, <1>4
<1>. QED BY <1>3, <1>4

LEMMA DoomedIterates ==
    ASSUME NEW rows \in Seq(Messages)
    PROVE  \E f \in [0 .. Len(rows) -> Tally] :
              Iterates(f, Start, Visits(rows), Len(rows)) /\ Doomed(rows) = f[Len(rows)].doomed
<1>. DEFINE n == Len(rows)
            next == Visits(rows)
            Row(i) == rows[n + 1 - i]
            Rec(h) == [i \in 0 .. n |->
                         IF i = 0 THEN Start
                         ELSE Visit(h[i - 1], Row(i), h[i - 1].doomed # <<>> \/ Over(h[i - 1], Row(i)))]
            pass == CHOOSE h : h = Rec(h)
<1>1. n \in Nat /\ \A i \in 1 .. n : Row(i) \in Messages
  OBVIOUS
<1>2. Start \in Tally /\ next \in [1 .. n -> [Tally -> Tally]]
  <2>1. Start \in Tally
    BY DEF Start, Tally
  <2>2. ASSUME NEW i \in 1 .. n, NEW acc \in Tally
        PROVE  Visit(acc, Row(i), Dooms(acc, Row(i))) \in Tally
    <3>1. Dooms(acc, Row(i)) \in BOOLEAN
      BY DEF Dooms, Over
    <3>. QED BY <3>1, <1>1, VisitIs
  <2>. QED BY <2>1, <2>2 DEF Visits
<1>3. PICK f \in [0 .. n -> Tally] : Iterates(f, Start, next, n)
  BY <1>1, <1>2, IterationExists
<1>4. ASSUME NEW h, NEW i \in 1 .. n, h[i - 1] \in Tally
      PROVE  Rec(h)[i] = next[i][h[i - 1]]
  <2>1. Rec(h)[i] = Visit(h[i - 1], Row(i), Dooms(h[i - 1], Row(i)))
    BY <1>1 DEF Dooms
  <2>2. next[i][h[i - 1]] = Visit(h[i - 1], Row(i), Dooms(h[i - 1], Row(i)))
    BY <1>4 DEF Visits
  <2>. QED BY <2>1, <2>2
<1>5. f = Rec(f)
  <2>1. \A i \in 0 .. n : f[i] = Rec(f)[i]
    <3>1. TAKE i \in 0 .. n
    <3>2. CASE i = 0
      BY <3>2, <1>3 DEF Iterates
    <3>3. CASE i # 0
      <4>1. i \in 1 .. n /\ i - 1 \in 0 .. n /\ f[i - 1] \in Tally
        BY <3>3, <1>1, <1>3
      <4>2. f[i] = next[i][f[i - 1]]
        BY <4>1, <1>3 DEF Iterates
      <4>3. Rec(f)[i] = next[i][f[i - 1]]
        BY <4>1, <1>4
      <4>. QED BY <4>2, <4>3
    <3>. QED BY <3>2, <3>3
  <2>2. f = [i \in 0 .. n |-> f[i]]
    OBVIOUS
  <2>. QED BY <2>1, <2>2
<1>6. pass = Rec(pass)
  BY <1>5
<1>7. Doomed(rows) = pass[n].doomed
  BY DEF Doomed, Start
<1>. HIDE DEF pass
<1>8. Recurs(pass, Tally, Start, next, n)
  <2>1. pass[0] = Rec(pass)[0] /\ \A i \in 1 .. n : pass[i] = Rec(pass)[i]
    BY <1>6
  <2>2. pass[0] = Start
    BY <2>1, <1>1
  <2>3. ASSUME NEW i \in 1 .. n, pass[i - 1] \in Tally PROVE pass[i] = next[i][pass[i - 1]]
    BY <2>1, <2>3, <1>4
  <2>. QED BY <2>2, <2>3 DEF Recurs
<1>9. \A i \in 0 .. n : pass[i] = f[i]
  <2>1. Iterates(f, Start, next, n) /\ f \in [0 .. n -> Tally] /\ n \in Nat
    BY <1>1, <1>3
  <2>. HIDE DEF next, n, Rec
  <2>2. Iteration(f, Tally, Start, next, n)
    BY <2>1, <1>2 DEF Iteration
  <2>3. AgreeUpTo(n, pass, f)
    BY ONLY <1>8, <2>2, IterationsAgree
  <2>. QED BY ONLY <2>3 DEF AgreeUpTo
<1>. QED BY <1>3, <1>7, <1>9, <1>1

\* After i rows, newest first: the k newest are kept and fit; the rest are
\* doomed, the first of them because it did not.
Tallied(rows, acc, i, k) ==
    /\ acc.kept = k /\ acc.total = Bytes(Newest(rows, k))
    /\ Cardinality(Newest(rows, k)) = k
    /\ k <= MaxCount /\ acc.total <= MaxBytes
    /\ Len(acc.doomed) = i - k
    /\ \A j \in 1 .. i - k : acc.doomed[j] = rows[Len(rows) - k + 1 - j]
    /\ k < i => Over(acc, rows[Len(rows) - k])

LEMMA TallyStep ==
    ASSUME NEW rows \in Seq(Messages), IsInjective(rows), NEW i \in 1 .. Len(rows),
           NEW acc \in Tally, NEW k \in 0 .. i - 1, Tallied(rows, acc, i - 1, k),
           NEW new, new = Visits(rows)[i][acc]
    PROVE  \E l \in 0 .. i : Tallied(rows, new, i, l)
<1>. DEFINE m == rows[Len(rows) + 1 - i]
<1>1. PICK n \in Nat : n = Len(rows) /\ rows \in [1 .. n -> Messages] /\ i \in 1 .. n /\ k \in Nat
  OBVIOUS
<1>2. m \in Messages /\ Size[m] \in Nat
  BY <1>1, MessagesAssumption
<1>3. Dooms(acc, m) \in BOOLEAN
  BY DEF Dooms, Over
<1>4. new = Visit(acc, m, Dooms(acc, m))
  BY DEF Visits
<1>5. /\ new \in Tally
      /\ Dooms(acc, m) => /\ new.kept = acc.kept /\ new.total = acc.total
                          /\ new.doomed = Append(acc.doomed, m)
      /\ ~Dooms(acc, m) => /\ new.kept = acc.kept + 1 /\ new.total = acc.total + Size[m]
                           /\ new.doomed = acc.doomed
  <2>. HIDE DEF m
  <2>. QED BY <1>2, <1>3, <1>4, VisitIs
<1>6. acc.doomed \in Seq(Messages) /\ Len(acc.doomed) = i - 1 - k /\ acc.kept \in Nat /\ acc.total \in Nat
  BY DEF Tallied, Tally
<1>7. CASE Dooms(acc, m)
  <2>1. /\ new.kept = acc.kept /\ new.total = acc.total /\ new.doomed = Append(acc.doomed, m)
    BY <1>5, <1>7
  <2>2. /\ Len(new.doomed) = i - k
        /\ \A j \in 1 .. i - 1 - k : new.doomed[j] = acc.doomed[j]
        /\ new.doomed[i - k] = m
    BY <2>1, <1>6, <1>2, <1>1
  <2>3. \A j \in 1 .. i - k : new.doomed[j] = rows[n - k + 1 - j]
    <3>1. TAKE j \in 1 .. i - k
    <3>2. CASE j = i - k
      <4>1. n - k + 1 - j = n + 1 - i
        BY <3>2, <1>1
      <4>. QED BY <4>1, <3>2, <2>2, <1>1
    <3>3. CASE j # i - k
      <4>1. j \in 1 .. i - 1 - k
        BY <3>3, <1>1
      <4>. QED BY <4>1, <2>2, <1>1 DEF Tallied
    <3>. QED BY <3>2, <3>3
  <2>4. Over(new, rows[n - k])
    <3>1. CASE k < i - 1
      BY <3>1, <2>1, <1>1 DEF Tallied, Over
    <3>2. CASE k = i - 1
      <4>1. acc.doomed = <<>> /\ n - k = n + 1 - i
        BY <3>2, <1>6, <1>1
      <4>. QED BY <4>1, <2>1, <1>1, <1>7 DEF Dooms, Over
    <3>. QED BY <3>1, <3>2, <1>1
  <2>5. Tallied(rows, new, i, k)
    BY <2>1, <2>2, <2>3, <2>4, <1>1 DEF Tallied
  <2>. QED BY <2>5, <1>1
<1>8. CASE ~Dooms(acc, m)
  <2>1. acc.doomed = <<>> /\ ~Over(acc, m)
    BY <1>8 DEF Dooms
  <2>2. k = i - 1
    <3>1. Len(acc.doomed) = 0
      BY <2>1
    <3>. QED BY <3>1, <1>6, <1>1
  <2>3. k \in 0 .. Len(rows) - 1 /\ Len(rows) - k = Len(rows) + 1 - i /\ k + 1 = i
    BY <2>2, <1>1
  <2>4. Newest(rows, i) = Newest(rows, k) \cup {m} /\ m \notin Newest(rows, k)
    BY <2>3, NewestAdds
  <2>5. Bounded(Newest(rows, k))
    BY <2>3, NewestBounded, <1>1
  <2>6. /\ Cardinality(Newest(rows, i)) = Cardinality(Newest(rows, k)) + 1
        /\ Bytes(Newest(rows, i)) = Bytes(Newest(rows, k)) + Size[m]
    <3>. HIDE DEF m
    <3>. QED BY <2>4, <2>5, <1>2, OneMoreMessage
  <2>7. new.kept = k + 1 /\ new.total = acc.total + Size[m] /\ new.doomed = <<>>
    BY <1>5, <1>8, <2>1 DEF Tallied
  <2>8. i <= MaxCount /\ acc.total + Size[m] <= MaxBytes
    <3>1. ~(k + 1 > MaxCount) /\ ~(acc.total + Size[m] > MaxBytes)
      BY <2>1 DEF Over, Tallied
    <3>2. i \in Nat /\ k + 1 = i /\ acc.total \in Nat /\ Size[m] \in Nat
      BY <2>3, <1>1, <1>2, <1>6
    <3>. HIDE DEF m
    <3>. QED BY ONLY <3>1, <3>2, CapsAssumption
  <2>9. Tallied(rows, new, i, i)
    BY <2>3, <2>6, <2>7, <2>8, <1>1 DEF Tallied
  <2>. QED BY <2>9, <1>1
<1>. QED BY <1>7, <1>8

\* _evict keeps the longest stretch of newest rows that fits, and dooms the
\* others, newest first.
LEMMA DoomedIs ==
    ASSUME NEW rows \in Seq(Messages), IsInjective(rows)
    PROVE  \E k \in 0 .. Len(rows) :
              /\ Doomed(rows) = [j \in 1 .. Len(rows) - k |-> rows[Len(rows) - k + 1 - j]]
              /\ Fits(Newest(rows, k))
              /\ k < Len(rows) => ~Fits(Newest(rows, k + 1))
<1>. DEFINE n == Len(rows)
<1>1. PICK f \in [0 .. n -> Tally] :
         Iterates(f, Start, Visits(rows), n) /\ Doomed(rows) = f[n].doomed
  BY DoomedIterates
<1>2. n \in Nat
  OBVIOUS
<1>. DEFINE Good == {i \in 0 .. n : \E k \in 0 .. i : Tallied(rows, f[i], i, k)}
<1>3. 0 \in Good
  <2>1. f[0] = Start /\ Newest(rows, 0) = {}
    BY <1>1, <1>2 DEF Iterates, Newest
  <2>2. Bytes({}) = 0 /\ Cardinality({}) = 0
    BY NoBytes, FS_EmptySet
  <2>3. Tallied(rows, f[0], 0, 0)
    BY <2>1, <2>2, CapsAssumption DEF Tallied, Start
  <2>. QED BY <2>3, <1>2
<1>4. ASSUME NEW i \in 1 .. n, i - 1 \in Good PROVE i \in Good
  <2>1. i - 1 \in 0 .. n /\ f[i - 1] \in Tally /\ i \in 0 .. n
    BY <1>2
  <2>2. PICK k \in 0 .. i - 1 : Tallied(rows, f[i - 1], i - 1, k)
    BY <1>4
  <2>3. f[i] = Visits(rows)[i][f[i - 1]]
    BY <1>1 DEF Iterates
  <2>4. \E l \in 0 .. i : Tallied(rows, f[i], i, l)
    BY <2>1, <2>2, <2>3, TallyStep
  <2>. QED BY <2>4, <2>1
<1>5. n \in Good
  <2>1. Good \in SUBSET Nat
    OBVIOUS
  <2>. HIDE DEF Good
  <2>. QED BY <1>2, <1>3, <1>4, <2>1, UpTo
<1>6. PICK k \in 0 .. n : Tallied(rows, f[n], n, k)
  BY <1>5
<1>7. f[n] \in Tally /\ f[n].doomed \in Seq(Messages) /\ k \in Nat
  <2>1. n \in 0 .. n
    BY <1>2
  <2>2. f[n] \in Tally
    BY <2>1
  <2>. QED BY <2>2 DEF Tally
<1>8. Doomed(rows) = [j \in 1 .. n - k |-> rows[n - k + 1 - j]]
  <2>1. f[n].doomed = [j \in 1 .. Len(f[n].doomed) |-> f[n].doomed[j]]
    BY <1>7
  <2>2. Len(f[n].doomed) = n - k
    BY <1>6 DEF Tallied
  <2>. QED BY <2>1, <2>2, <1>1, <1>6 DEF Tallied
<1>9. Fits(Newest(rows, k))
  BY <1>6 DEF Tallied, Fits
<1>10. ASSUME k < n PROVE ~Fits(Newest(rows, k + 1))
  <2>. DEFINE m == rows[n - k]
  <2>1. k \in 0 .. Len(rows) - 1
    BY <1>10, <1>2
  <2>2. /\ Newest(rows, k + 1) = Newest(rows, k) \cup {m} /\ m \notin Newest(rows, k)
        /\ m \in Messages
    BY <2>1, NewestAdds
  <2>3. Bounded(Newest(rows, k))
    BY NewestBounded
  <2>4. /\ Cardinality(Newest(rows, k + 1)) = Cardinality(Newest(rows, k)) + 1
        /\ Bytes(Newest(rows, k + 1)) = Bytes(Newest(rows, k)) + Size[m]
    <3>. HIDE DEF m
    <3>. QED BY <2>2, <2>3, OneMoreMessage
  <2>5. k + 1 > MaxCount \/ Bytes(Newest(rows, k)) + Size[m] > MaxBytes
    BY <1>6, <1>10 DEF Tallied, Over
  <2>6. Cardinality(Newest(rows, k)) = k
    BY <1>6 DEF Tallied
  <2>7. Bytes(Newest(rows, k)) \in Nat /\ Size[m] \in Nat
    <3>. HIDE DEF m
    <3>. QED BY <2>2, <2>3, OneMoreMessage, MessagesAssumption
  <2>. QED BY <2>4, <2>5, <2>6, <2>7, <1>7, CapsAssumption DEF Fits
<1>. QED BY <1>8, <1>9, <1>10

LEMMA AllBounded ==
    ASSUME NEW rows \in Seq(Messages), IsInjective(rows)
    PROVE  Bounded(Range(rows))
<1>1. Len(rows) \in Nat /\ Newest(rows, Len(rows)) = Range(rows)
  BY DEF Newest, Range
<1>2. Len(rows) \in 0 .. Len(rows)
  BY <1>1
<1>. QED BY <1>1, <1>2, NewestBounded

\* An eviction of these rows would give up those that, with all newer ones,
\* exceed a cap, and no other.
Overflow(rows, doomed) ==
    \A i \in DOMAIN rows :
        rows[i] \in Range(doomed) <=> ~Fits({rows[j] : j \in i .. Len(rows)})

LEMMA EvictionIs ==
    ASSUME NEW rows \in Seq(Messages), IsInjective(rows)
    PROVE  /\ Doomed(rows) \in Seq(Messages) /\ IsInjective(Doomed(rows))
           /\ Range(Doomed(rows)) \subseteq Range(rows)
           /\ Fits(Range(rows) \ Range(Doomed(rows)))
           /\ Overflow(rows, Doomed(rows))
<1>1. PICK k \in 0 .. Len(rows) :
         /\ Doomed(rows) = [j \in 1 .. Len(rows) - k |-> rows[Len(rows) - k + 1 - j]]
         /\ Fits(Newest(rows, k))
         /\ k < Len(rows) => ~Fits(Newest(rows, k + 1))
  BY DoomedIs
<1>2. PICK n \in Nat : n = Len(rows) /\ rows \in [1 .. n -> Messages] /\ k \in Nat /\ k <= n
  OBVIOUS
<1>. DEFINE d == Doomed(rows)
<1>3. d = [j \in 1 .. n - k |-> rows[n - k + 1 - j]] /\ n - k \in Nat
  BY <1>1, <1>2
<1>4. \A j \in 1 .. n - k : n - k + 1 - j \in 1 .. n - k /\ n - k + 1 - j \in 1 .. n
  BY <1>2
<1>. HIDE DEF d
<1>5. d \in Seq(Messages)
  <2>1. \A j \in 1 .. n - k : rows[n - k + 1 - j] \in Messages
    BY <1>2, <1>4
  <2>. QED BY <1>3, <2>1
<1>6. IsInjective(d)
  <2>1. \A i, j \in 1 .. n - k : n - k + 1 - i = n - k + 1 - j => i = j
    BY <1>2
  <2>2. \A i, j \in 1 .. n : rows[i] = rows[j] => i = j
    BY <1>2 DEF IsInjective
  <2>3. \A i, j \in 1 .. n - k : d[i] = d[j] => i = j
    BY <1>3, <1>4, <2>1, <2>2
  <2>. QED BY <1>3, <2>3 DEF IsInjective
<1>7. Range(d) = {rows[j] : j \in 1 .. n - k}
  <2>1. \A j \in 1 .. n - k : n - k + 1 - (n - k + 1 - j) = j
    BY <1>2
  <2>. QED BY <1>3, <1>4, <2>1 DEF Range
<1>8. \A i \in 1 .. n : rows[i] \in Range(d) <=> i <= n - k
  <2>1. \A i \in 1 .. n, j \in 1 .. n - k : rows[i] = rows[j] => i = j
    <3>1. \A j \in 1 .. n - k : j \in 1 .. n
      BY <1>2
    <3>. QED BY <3>1, <1>2 DEF IsInjective
  <2>2. \A i \in 1 .. n : i <= n - k <=> i \in 1 .. n - k
    BY <1>2
  <2>. QED BY <1>7, <2>1, <2>2
<1>9. Range(rows) \ Range(d) = Newest(rows, k)
  <2>1. \A i \in 1 .. n : i \in n + 1 - k .. n <=> ~(i <= n - k)
    BY <1>2
  <2>2. \A i \in n + 1 - k .. n : i \in 1 .. n
    BY <1>2
  <2>. QED BY <1>2, <1>8, <2>1, <2>2 DEF Range, Newest
<1>10. ASSUME NEW i \in 1 .. n
       PROVE  i <= n - k <=> ~Fits({rows[j] : j \in i .. n})
  <2>. DEFINE rest == {rows[j] : j \in i .. n}
  <2>1. CASE i <= n - k
    <3>1. k < n /\ n + 1 - (k + 1) = n - k /\ k + 1 \in 0 .. n
      <4>1. n \in Nat /\ k \in Nat /\ i \in Nat /\ i >= 1
        BY <1>2
      <4>. QED BY ONLY <4>1, <2>1
    <3>2. Newest(rows, k + 1) \subseteq rest
      <4>1. \A j \in n - k .. n : j \in i .. n
        BY <2>1, <1>2
      <4>. QED BY <3>1, <4>1, <1>2 DEF Newest
    <3>3. rest \subseteq Range(rows)
      <4>1. \A j \in i .. n : j \in 1 .. n
        BY <1>2
      <4>. QED BY <4>1, <1>2 DEF Range
    <3>4. Bounded(rest)
      <4>. HIDE DEF rest
      <4>1. Bounded(Range(rows))
        BY AllBounded
      <4>. QED BY <4>1, <3>3, BoundedPart
    <3>5. ~Fits(Newest(rows, k + 1))
      BY <3>1, <1>1, <1>2
    <3>6. ~Fits(rest)
      <4>. HIDE DEF rest
      <4>. QED BY <3>2, <3>4, <3>5, FewerFit
    <3>. QED BY <3>6, <2>1
  <2>2. CASE ~(i <= n - k)
    <3>1. rest \subseteq Newest(rows, k)
      <4>1. \A j \in i .. n : j \in n + 1 - k .. n
        BY <2>2, <1>2
      <4>. QED BY <4>1, <1>2 DEF Newest
    <3>2. Bounded(Newest(rows, k))
      BY NewestBounded
    <3>3. Fits(rest)
      <4>. HIDE DEF rest
      <4>. QED BY <3>1, <3>2, <1>1, FewerFit
    <3>. QED BY <3>3, <2>2
  <2>. QED BY <2>1, <2>2
<1>11. Overflow(rows, d)
  <2>1. \A i \in 1 .. n : rows[i] \in Range(d) <=> ~Fits({rows[j] : j \in i .. n})
    BY <1>8, <1>10
  <2>. QED BY <2>1, <1>2 DEF Overflow
<1>12. Range(d) \subseteq Range(rows)
  BY <1>4, <1>2, <1>3 DEF Range
<1>. QED BY <1>1, <1>5, <1>6, <1>9, <1>11, <1>12 DEF d

-----------------------------------------------------------------------------
(* The inductive invariant. *)

Job == [pc : {"idle", "writing", "indexing", "evicting", "unlinking"},
        msg : Messages \cup {NoMessage},
        rows : Seq(Messages), paths : Seq(Messages)]

\* Held, of a thread that is doing j.
HeldBy(j) ==
    CASE j.pc \in {"writing", "indexing"} -> {j.msg}
      [] j.pc = "evicting"  -> Range(j.paths) \ Range(j.rows)
      [] j.pc = "unlinking" -> Range(j.paths)
      [] OTHER -> {}

Typed ==
    /\ index \in Seq(Messages) /\ IsInjective(index) /\ files \subseteq Messages
    /\ thread \in [Threads -> Job] /\ lock \in Threads \cup {NoThread}
    /\ enabled \in BOOLEAN
    /\ saves \in [Messages -> Nat] /\ clears \in 0 .. MaxClears
    /\ errors \in 0 .. MaxErrors /\ restarts \in 0 .. MaxRestarts
    /\ leaked \subseteq Messages /\ overdue \subseteq Messages

\* An evicting thread has the lock; what it has yet to delete is in the index
\* and in its paths, and the rest of the index fits.
Evicts(t, j) ==
    /\ lock = t
    /\ IsInjective(j.rows) /\ Len(j.rows) <= Len(j.paths)
    /\ Range(j.rows) \subseteq Range(index) \cap Range(j.paths)
    /\ Fits(Range(index) \ Range(j.rows))
    /\ j.rows = j.paths => Overflow(index, j.rows)
WorksOn(t, j) ==
    /\ j.pc \in {"writing", "indexing"} => j.msg \in Messages
    /\ j.pc = "unlinking" => j.paths # <<>>
    /\ j.pc # "evicting" => j.rows = <<>>
    /\ j.pc = "evicting" => Evicts(t, j)
AllWork == \A t \in Threads : WorksOn(t, thread[t])

\* Each save of a message is in one place at a time: with its thread, in the
\* index, or in the hands of a thread that will unlink it; a message in two
\* places was saved twice.
Counted ==
    \A m \in Messages :
        /\ m \in Range(index) => saves[m] > 0
        /\ \A t \in Threads : m \in HeldBy(thread[t]) =>
             /\ saves[m] > 0
             /\ m \in Range(index) => saves[m] > 1
             /\ \A u \in Threads : u # t /\ m \in HeldBy(thread[u]) => saves[m] > 1

\* A message that is, or is about to be, in the index has its file, or was
\* saved twice.
Expected(m) ==
    \/ m \in Range(index)
    \/ \E t \in Threads : thread[t].pc = "indexing" /\ thread[t].msg = m
Present == \A m \in Messages : Expected(m) => m \in files \/ saves[m] > 1

Explained ==
    \A m \in files : \/ m \in Range(index) \/ m \in leaked
                     \/ \E t \in Threads : m \in HeldBy(thread[t])

\* Without the rows that an eviction has doomed, the index fits.
Condemned(m) == m \in overdue \/ \E t \in Threads : m \in Range(thread[t].rows)
Spared == Fits({m \in Range(index) : ~Condemned(m)})

StoreInv == Typed /\ AllWork /\ Counted /\ Present /\ Explained /\ Spared

-----------------------------------------------------------------------------
(* What a thread does next. *)

LEMMA IdleIs ==
    /\ Idle \in Job /\ Idle.pc = "idle" /\ Idle.rows = <<>> /\ Idle.paths = <<>>
    /\ HeldBy(Idle) = {}
<1>1. Idle \in Job /\ Idle.pc = "idle" /\ Idle.rows = <<>> /\ Idle.paths = <<>>
  BY DEF Idle, Job
<1>2. HeldBy(Idle) = {}
  BY <1>1 DEF HeldBy
<1>. QED BY <1>1, <1>2

LEMMA HeldByIs ==
    ASSUME NEW j \in Job
    PROVE  /\ j.pc \in {"writing", "indexing"} => HeldBy(j) = {j.msg}
           /\ j.pc = "evicting" => HeldBy(j) = Range(j.paths) \ Range(j.rows)
           /\ j.pc = "unlinking" => HeldBy(j) = Range(j.paths)
           /\ j.pc = "idle" => HeldBy(j) = {}
BY DEF HeldBy

LEMMA UnlinkingIs ==
    ASSUME NEW paths \in Seq(Messages)
    PROVE  LET j == Unlinking(paths) IN
           /\ j \in Job /\ j.rows = <<>> /\ j.paths = paths
           /\ j.pc = IF paths = <<>> THEN "idle" ELSE "unlinking"
           /\ HeldBy(j) = Range(paths)
<1>1. CASE paths = <<>>
  <2>1. Range(paths) = {}
    BY <1>1 DEF Range
  <2>. QED BY <1>1, <2>1, IdleIs DEF Unlinking
<1>2. CASE paths # <<>>
  <2>. DEFINE j == [Idle EXCEPT !.pc = "unlinking", !.paths = paths]
              one == [Idle EXCEPT !.pc = "unlinking"]
              two == [one EXCEPT !.paths = paths]
  <2>1. one \in Job /\ one.pc = "unlinking" /\ one.rows = <<>>
    BY IdleIs DEF Job
  <2>2. j = two
    BY DEF Idle, Job
  <2>. HIDE DEF one
  <2>3. two \in Job /\ two.pc = "unlinking" /\ two.rows = <<>> /\ two.paths = paths
    BY <2>1 DEF Job
  <2>4. HeldBy(two) = Range(paths)
    BY <2>3 DEF HeldBy
  <2>. QED BY <1>2, <2>2, <2>3, <2>4 DEF Unlinking
<1>. QED BY <1>1, <1>2

\* Thread t goes over to j.
Turns(t, j) == j \in Job /\ thread' = [thread EXCEPT ![t] = j]

LEMMA TurnIs ==
    ASSUME Typed, NEW t \in Threads, NEW j, Turns(t, j)
    PROVE  /\ thread' \in [Threads -> Job] /\ thread'[t] = j
           /\ \A u \in Threads : u # t => thread'[u] = thread[u]
BY DEF Typed, Turns

\* The other threads are not disturbed, as an evicting one has the lock.
LEMMA OthersWork ==
    ASSUME Typed, AllWork, NEW t \in Threads, NEW j, Turns(t, j),
           lock' = lock \/ lock \in {t, NoThread},
           index' = index \/ lock \in {t, NoThread},
           NEW u \in Threads, u # t
    PROVE  WorksOn(u, thread[u])'
<1>1. thread'[u] = thread[u]
  BY TurnIs
<1>2. WorksOn(u, thread[u]) /\ u # NoThread
  BY MessagesAssumption DEF AllWork
<1>. QED BY <1>1, <1>2 DEF WorksOn, Evicts

LEMMA WorkStep ==
    ASSUME Typed, AllWork, NEW t \in Threads, NEW j, Turns(t, j),
           lock' = lock \/ lock \in {t, NoThread},
           index' = index \/ lock \in {t, NoThread},
           WorksOn(t, thread[t])'
    PROVE  AllWork'
BY OthersWork DEF AllWork

\* A step that takes rows out of the index into the hands of t, or gives up what
\* a thread holds.
LEMMA CountedStep ==
    ASSUME Typed, Counted, saves' = saves, NEW t \in Threads, NEW gone \in SUBSET Range(index),
           Range(index)' \subseteq Range(index) \ gone,
           HeldBy(thread[t])' \subseteq HeldBy(thread[t]) \cup gone,
           \A u \in Threads : u # t => HeldBy(thread[u])' \subseteq HeldBy(thread[u])
    PROVE  Counted'
<1>1. SUFFICES ASSUME NEW m \in Messages
               PROVE  /\ m \in Range(index)' => saves'[m] > 0
                      /\ \A v \in Threads : m \in HeldBy(thread[v])' =>
                           /\ saves'[m] > 0
                           /\ m \in Range(index)' => saves'[m] > 1
                           /\ \A u \in Threads : u # v /\ m \in HeldBy(thread[u])' => saves'[m] > 1
  BY DEF Counted
<1>2. saves[m] \in Nat
  BY DEF Typed
<1>3. /\ m \in Range(index) => saves[m] > 0
      /\ \A v \in Threads : m \in HeldBy(thread[v]) =>
           /\ saves[m] > 0
           /\ m \in Range(index) => saves[m] > 1
           /\ \A u \in Threads : u # v /\ m \in HeldBy(thread[u]) => saves[m] > 1
  BY DEF Counted
<1>. QED BY <1>2, <1>3

\* The index loses rows, no new one is condemned less.
LEMMA SparedStep ==
    ASSUME Typed, Spared, Range(index)' \subseteq Range(index),
           \A m \in Range(index)' : Condemned(m) => Condemned(m)'
    PROVE  Spared'
<1>. DEFINE now == {m \in Range(index) : ~Condemned(m)}
<1>1. Bounded(now)
  <2>1. Bounded(Range(index))
    BY AllBounded DEF Typed
  <2>. QED BY <2>1, BoundedPart
<1>2. {m \in Range(index)' : ~Condemned(m)'} \in SUBSET now
  OBVIOUS
<1>3. Fits(now)
  BY DEF Spared
<1>4. Fits({m \in Range(index)' : ~Condemned(m)'})
  <2>. HIDE DEF now
  <2>. QED BY <1>1, <1>2, <1>3, FewerFit
<1>. QED BY <1>4 DEF Spared, Fits, Bytes

-----------------------------------------------------------------------------
(* One lemma for each action. *)

LEMMA BeginSaveStep ==
    ASSUME StoreInv, NEW t \in Threads, NEW m \in Messages, BeginSave(t, m)
    PROVE  StoreInv'
<1>. DEFINE j == [Idle EXCEPT !.pc = "writing", !.msg = m]
<1>1. /\ thread[t] = Idle
      /\ saves' = [saves EXCEPT ![m] = @ + 1] /\ thread' = [thread EXCEPT ![t] = j]
      /\ UNCHANGED <<index, files, lock, enabled, clears, errors, restarts, leaked, overdue>>
  BY DEF BeginSave, tables
<1>2. j \in Job /\ j.pc = "writing" /\ j.msg = m /\ j.rows = <<>> /\ HeldBy(j) = {m}
  <2>. DEFINE one == [Idle EXCEPT !.pc = "writing"]
              two == [one EXCEPT !.msg = m]
  <2>1. one \in Job /\ one.pc = "writing" /\ one.rows = <<>>
    BY IdleIs DEF Job
  <2>2. j = two
    BY DEF Idle, Job
  <2>. HIDE DEF one
  <2>3. two \in Job /\ two.pc = "writing" /\ two.msg = m /\ two.rows = <<>>
    BY <2>1 DEF Job
  <2>. HIDE DEF two
  <2>4. HeldBy(two) = {m}
    BY <2>3, HeldByIs
  <2>. QED BY <2>2, <2>3, <2>4
<1>. HIDE DEF j
<1>3. Turns(t, j)
  BY <1>1, <1>2 DEF Turns
<1>4. /\ thread' \in [Threads -> Job] /\ thread'[t] = j
      /\ \A u \in Threads : u # t => thread'[u] = thread[u]
  BY <1>3, TurnIs DEF StoreInv
<1>5. /\ saves' \in [Messages -> Nat] /\ saves'[m] = saves[m] + 1 /\ saves[m] \in Nat
      /\ \A n \in Messages : n # m => saves'[n] = saves[n]
  BY <1>1 DEF StoreInv, Typed
<1>6. Typed'
  BY <1>1, <1>4, <1>5 DEF StoreInv, Typed
<1>7. WorksOn(t, thread[t])'
  BY <1>2, <1>4 DEF WorksOn
<1>8. AllWork'
  BY <1>1, <1>3, <1>7, WorkStep DEF StoreInv
<1>9. Counted'
  <2>1. ASSUME NEW n \in Messages, NEW v \in Threads, n \in HeldBy(thread'[v]), n # m \/ v # t
        PROVE  n \in HeldBy(thread[v])
    BY <2>1, <1>2, <1>4
  <2>2. SUFFICES ASSUME NEW n \in Messages
                 PROVE  /\ n \in Range(index)' => saves'[n] > 0
                        /\ \A v \in Threads : n \in HeldBy(thread'[v]) =>
                             /\ saves'[n] > 0
                             /\ n \in Range(index)' => saves'[n] > 1
                             /\ \A u \in Threads : u # v /\ n \in HeldBy(thread'[u]) => saves'[n] > 1
    BY DEF Counted
  <2>3. /\ n \in Range(index) => saves[n] > 0
        /\ \A v \in Threads : n \in HeldBy(thread[v]) =>
             /\ saves[n] > 0
             /\ n \in Range(index) => saves[n] > 1
             /\ \A u \in Threads : u # v /\ n \in HeldBy(thread[u]) => saves[n] > 1
    BY DEF StoreInv, Counted
  <2>4. Range(index)' = Range(index)
    BY <1>1
  <2>5. CASE n # m
    <3>1. saves'[n] = saves[n] /\ \A v \in Threads : n \in HeldBy(thread'[v]) => n \in HeldBy(thread[v])
      BY <2>1, <2>5, <1>5
    <3>. QED BY ONLY <2>3, <2>4, <3>1
  <2>6. CASE n = m
    <3>1. saves'[n] > 0 /\ (saves[n] > 0 => saves'[n] > 1)
      BY <2>6, <1>5
    <3>2. n \in Range(index) => saves[n] > 0
      BY <2>3
    <3>3. \A v \in Threads : v # t /\ n \in HeldBy(thread'[v]) => saves[n] > 0
      BY <2>1, <2>3
    <3>. QED BY <3>1, <3>2, <3>3, <2>4
  <2>. QED BY <2>5, <2>6
<1>10. Present'
  <2>1. ASSUME NEW n \in Messages, Expected(n)' PROVE Expected(n)
    BY <2>1, <1>1, <1>2, <1>4 DEF Expected
  <2>2. \A n \in Messages : saves[n] > 1 => saves'[n] > 1
    <3>1. saves \in [Messages -> Nat]
      BY DEF StoreInv, Typed
    <3>2. ASSUME NEW n \in Messages, saves[n] > 1 PROVE saves'[n] > 1
      <4>1. saves[n] \in Nat
        BY <3>1
      <4>2. saves'[n] = saves[n] \/ saves'[n] = saves[n] + 1
        BY <1>5, <3>1
      <4>. QED BY ONLY <3>2, <4>1, <4>2
    <3>. QED BY <3>2
  <2>. QED BY <2>1, <2>2, <1>1 DEF StoreInv, Present
<1>11. Explained'
  <2>1. HeldBy(thread[t]) = {}
    BY <1>1, IdleIs
  <2>. QED BY <2>1, <1>1, <1>4 DEF StoreInv, Explained
<1>12. Spared'
  <2>1. Range(index)' \subseteq Range(index)
    BY <1>1
  <2>2. thread[t].rows = <<>> /\ Range(<<>>) = {}
    BY <1>1, IdleIs DEF Range
  <2>3. ASSUME NEW n \in Range(index)', Condemned(n) PROVE Condemned(n)'
    BY <2>2, <2>3, <1>1, <1>4 DEF Condemned
  <2>. QED BY <2>1, <2>3, SparedStep DEF StoreInv
<1>. QED BY <1>6, <1>8, <1>9, <1>10, <1>11, <1>12 DEF StoreInv

LEMMA WriteFileStep ==
    ASSUME StoreInv, NEW t \in Threads, WriteFile(t)
    PROVE  StoreInv'
<1>. DEFINE m == thread[t].msg
            j == [thread[t] EXCEPT !.pc = "indexing"]
<1>1. /\ thread[t].pc = "writing"
      /\ files' = files \cup {m} /\ leaked' = leaked \ {m}
      /\ thread' = [thread EXCEPT ![t].pc = "indexing"]
      /\ UNCHANGED <<index, lock, enabled, saves, clears, errors, restarts, overdue>>
  BY DEF WriteFile, bounds
<1>2. thread[t] \in Job /\ m \in Messages /\ thread[t].rows = <<>>
  BY <1>1 DEF StoreInv, Typed, AllWork, WorksOn
<1>3. j \in Job /\ j.pc = "indexing" /\ j.msg = m /\ j.rows = <<>>
  BY <1>2 DEF Job
<1>4. HeldBy(j) = {m} /\ HeldBy(thread[t]) = {m}
  <2>. HIDE DEF j
  <2>. QED BY <1>1, <1>2, <1>3, HeldByIs
<1>5. Turns(t, j)
  BY <1>1, <1>3 DEF Turns, StoreInv, Typed
<1>. HIDE DEF j, m
<1>6. /\ thread' \in [Threads -> Job] /\ thread'[t] = j
      /\ \A u \in Threads : u # t => thread'[u] = thread[u]
  BY <1>5, TurnIs DEF StoreInv
<1>7. Typed'
  BY <1>1, <1>2, <1>6 DEF StoreInv, Typed
<1>8. WorksOn(t, thread[t])'
  BY <1>2, <1>3, <1>6 DEF WorksOn
<1>9. AllWork'
  BY <1>1, <1>5, <1>8, WorkStep DEF StoreInv
<1>10. \A u \in Threads : HeldBy(thread[u])' = HeldBy(thread[u])
  BY <1>4, <1>6
<1>11. Range(index)' = Range(index)
  BY <1>1
<1>12. Counted'
  BY <1>1, <1>10, <1>11, CountedStep DEF StoreInv
<1>13. Present'
  <2>1. ASSUME NEW n \in Messages, n # m, Expected(n)' PROVE Expected(n)
    BY <2>1, <1>1, <1>3, <1>6 DEF Expected
  <2>. QED BY <2>1, <1>1 DEF StoreInv, Present
<1>14. Explained'
  BY <1>1, <1>4, <1>10, <1>11 DEF StoreInv, Explained
<1>15. Spared'
  <2>1. \A n \in Range(index)' : Condemned(n) => Condemned(n)'
    BY <1>1, <1>2, <1>3, <1>6 DEF Condemned
  <2>. QED BY <2>1, <1>11, SparedStep DEF StoreInv
<1>. QED BY <1>7, <1>9, <1>12, <1>13, <1>14, <1>15 DEF StoreInv

LEMMA InsertedIs ==
    ASSUME Typed, NEW m \in Messages
    PROVE  /\ Inserted(m) \in Seq(Messages) /\ IsInjective(Inserted(m))
           /\ Range(Inserted(m)) = Range(index) \cup {m}
<1>. DEFINE rest == Without(index, m)
<1>1. /\ rest \in Seq(Messages) /\ IsInjective(rest)
      /\ Range(rest) = Range(index) \cap (Messages \ {m})
  BY OnlyIs DEF Typed, Without
<1>2. Range(index) \subseteq Messages
  BY DEF Typed, Range
<1>. HIDE DEF rest
<1>3. PICK l \in Nat :
         /\ DOMAIN rest = 1 .. l /\ DOMAIN Append(rest, m) = 1 .. l + 1
         /\ \A i \in 1 .. l : Append(rest, m)[i] = rest[i]
         /\ Append(rest, m)[l + 1] = m
  <2>. WITNESS Len(rest) \in Nat
  <2>. QED BY <1>1
<1>. DEFINE new == Append(rest, m)
<1>4. \A i \in 1 .. l + 1 : i \in 1 .. l \/ i = l + 1
  OBVIOUS
<1>5. \A i \in 1 .. l : i \in 1 .. l + 1 /\ i # l + 1
  OBVIOUS
<1>6. l + 1 \in 1 .. l + 1
  OBVIOUS
<1>7. new \in Seq(Messages)
  BY <1>1
<1>. HIDE DEF new
<1>8. Range(new) = Range(rest) \cup {m}
  BY <1>3, <1>4, <1>5, <1>6 DEF Range, new
<1>9. IsInjective(new)
  <2>1. \A i \in 1 .. l : rest[i] # m
    BY <1>1, <1>3 DEF Range
  <2>2. \A i, k \in 1 .. l : rest[i] = rest[k] => i = k
    BY <1>1, <1>3 DEF IsInjective
  <2>. QED BY <1>3, <1>4, <2>1, <2>2 DEF IsInjective, new
<1>. QED BY <1>1, <1>2, <1>7, <1>8, <1>9 DEF Inserted, new, rest

LEMMA InsertRowStep ==
    ASSUME StoreInv, NEW t \in Threads, InsertRow(t)
    PROVE  StoreInv'
<1>. DEFINE m == thread[t].msg
            doomed == Doomed(Inserted(m))
            j == [thread[t] EXCEPT !.pc = "evicting", !.rows = doomed, !.paths = doomed]
<1>1. /\ thread[t].pc = "indexing" /\ lock = NoThread
      /\ index' = Inserted(m) /\ lock' = t
      /\ thread' = [thread EXCEPT ![t].pc = "evicting", ![t].rows = doomed, ![t].paths = doomed]
      /\ UNCHANGED <<files, enabled, saves, clears, errors, restarts, leaked, overdue>>
  BY DEF InsertRow, bounds
<1>2. thread[t] \in Job /\ m \in Messages
  BY <1>1 DEF StoreInv, Typed, AllWork, WorksOn
<1>3. /\ Inserted(m) \in Seq(Messages) /\ IsInjective(Inserted(m))
      /\ Range(Inserted(m)) = Range(index) \cup {m}
  BY <1>2, InsertedIs DEF StoreInv
<1>. HIDE DEF m
<1>4. /\ doomed \in Seq(Messages) /\ IsInjective(doomed)
      /\ Range(doomed) \subseteq Range(Inserted(m))
      /\ Fits(Range(Inserted(m)) \ Range(doomed))
      /\ Overflow(Inserted(m), doomed)
  BY <1>3, EvictionIs
<1>. HIDE DEF doomed
<1>5. j \in Job /\ j.pc = "evicting" /\ j.rows = doomed /\ j.paths = doomed
  <2>. DEFINE one == [thread[t] EXCEPT !.pc = "evicting"]
              two == [one EXCEPT !.rows = doomed]
              three == [two EXCEPT !.paths = doomed]
  <2>1. one \in Job /\ one.pc = "evicting"
    BY <1>2 DEF Job
  <2>2. j = three
    BY <1>2 DEF Job
  <2>. HIDE DEF one
  <2>3. two \in Job /\ two.pc = "evicting" /\ two.rows = doomed
    BY <2>1, <1>4 DEF Job
  <2>. HIDE DEF two
  <2>4. three \in Job /\ three.pc = "evicting" /\ three.rows = doomed /\ three.paths = doomed
    BY <2>3, <1>4 DEF Job
  <2>. QED BY <2>2, <2>4
<1>6. thread' = [thread EXCEPT ![t] = j]
  BY <1>1, <1>2 DEF StoreInv, Typed
<1>. HIDE DEF j
<1>7. HeldBy(j) = {} /\ HeldBy(thread[t]) = {m}
  <2>1. HeldBy(thread[t]) = {m}
    BY <1>1, <1>2, HeldByIs DEF m
  <2>. QED BY <2>1, <1>5, HeldByIs
<1>8. Turns(t, j)
  BY <1>5, <1>6 DEF Turns
<1>9. /\ thread' \in [Threads -> Job] /\ thread'[t] = j
      /\ \A u \in Threads : u # t => thread'[u] = thread[u]
  BY <1>8, TurnIs DEF StoreInv
<1>10. Range(index') = Range(index) \cup {m} /\ Range(index)' = Range(index')
  BY <1>1, <1>3
<1>11. Typed'
  BY <1>1, <1>3, <1>9 DEF StoreInv, Typed
<1>12. WorksOn(t, thread[t])'
  <2>1. Len(doomed) \in Nat
    BY <1>4
  <2>2. Fits(Range(index') \ Range(doomed)) /\ Overflow(index', doomed)
        /\ Range(doomed) \subseteq Range(index')
    BY <1>1, <1>4
  <2>. QED BY <2>1, <2>2, <1>1, <1>4, <1>5, <1>9 DEF WorksOn, Evicts, Fits, Bytes
<1>13. AllWork'
  BY <1>1, <1>8, <1>12, WorkStep DEF StoreInv
<1>14. Counted'
  <2>1. SUFFICES ASSUME NEW n \in Messages
                 PROVE  /\ n \in Range(index)' => saves'[n] > 0
                        /\ \A v \in Threads : n \in HeldBy(thread'[v]) =>
                             /\ saves'[n] > 0
                             /\ n \in Range(index)' => saves'[n] > 1
                             /\ \A u \in Threads : u # v /\ n \in HeldBy(thread'[u]) => saves'[n] > 1
    BY DEF Counted
  <2>2. /\ n \in Range(index) => saves[n] > 0
        /\ \A v \in Threads : n \in HeldBy(thread[v]) =>
             /\ saves[n] > 0
             /\ n \in Range(index) => saves[n] > 1
             /\ \A u \in Threads : u # v /\ n \in HeldBy(thread[u]) => saves[n] > 1
    BY DEF StoreInv, Counted
  <2>3. \A v \in Threads : n \in HeldBy(thread'[v]) => v # t /\ n \in HeldBy(thread[v])
    BY <1>7, <1>9
  <2>4. n \in Range(index)' => n \in Range(index) \/ n \in HeldBy(thread[t])
    BY <1>7, <1>10
  <2>. QED BY <2>2, <2>3, <2>4, <1>1
<1>15. Present'
  <2>1. ASSUME NEW n \in Messages, Expected(n)' PROVE Expected(n)
    <3>1. n \in Range(index)' => n \in Range(index) \/ n = m
      BY <1>10
    <3>. QED BY <2>1, <3>1, <1>1, <1>5, <1>9 DEF Expected, m
  <2>. QED BY <2>1, <1>1 DEF StoreInv, Present
<1>16. Explained'
  <2>1. \A n \in Range(index) : n \in Range(index)'
    BY <1>10
  <2>2. \A u \in Threads : \A n \in HeldBy(thread[u]) : n \in Range(index)' \/ n \in HeldBy(thread'[u])
    BY <1>7, <1>9, <1>10
  <2>. QED BY <2>1, <2>2, <1>1 DEF StoreInv, Explained
<1>17. Spared'
  <2>. DEFINE kept == Range(index') \ Range(doomed)
              now  == {n \in Range(index') : ~Condemned(n)'}
  <2>1. Bounded(kept)
    <3>1. Bounded(Range(index'))
      BY <1>1, <1>3, AllBounded
    <3>. QED BY <3>1, BoundedPart
  <2>2. now \subseteq kept
    BY <1>5, <1>9 DEF Condemned
  <2>3. Fits(kept)
    BY <1>1, <1>4
  <2>4. Fits(now)
    <3>. HIDE DEF now, kept
    <3>. QED BY <2>1, <2>2, <2>3, FewerFit
  <2>. QED BY <2>4, <1>10 DEF Spared, Fits, Bytes
<1>. QED BY <1>11, <1>13, <1>14, <1>15, <1>16, <1>17 DEF StoreInv

\* What a thread has yet to delete is a list without its first element.
LEMMA TailIs ==
    ASSUME NEW s \in Seq(Messages), s # <<>>, IsInjective(s)
    PROVE  /\ Head(s) \in Messages /\ Tail(s) \in Seq(Messages) /\ IsInjective(Tail(s))
           /\ Len(Tail(s)) < Len(s)
           /\ Range(Tail(s)) = Range(s) \ {Head(s)} /\ Head(s) \in Range(s)
<1>1. PICK n \in Nat : n = Len(s) /\ s \in [1 .. n -> Messages] /\ n >= 1
  BY EmptySeq
<1>2. /\ Head(s) = s[1] /\ Tail(s) \in Seq(Messages)
      /\ DOMAIN Tail(s) = 1 .. n - 1 /\ Len(Tail(s)) = n - 1
      /\ \A i \in 1 .. n - 1 : Tail(s)[i] = s[i + 1]
  BY <1>1
<1>. DEFINE tail == Tail(s)
<1>. HIDE DEF tail
<1>3. \A i \in 1 .. n - 1 : i + 1 \in 1 .. n /\ i + 1 # 1 /\ tail[i] = s[i + 1]
  BY <1>1, <1>2 DEF tail
<1>4. \A i \in 1 .. n : i = 1 \/ (i - 1 \in 1 .. n - 1 /\ (i - 1) + 1 = i)
  BY <1>1
<1>5. 1 \in 1 .. n
  BY <1>1
<1>6. \A i, k \in 1 .. n : s[i] = s[k] => i = k
  BY <1>1 DEF IsInjective
<1>7. Range(s) = {s[i] : i \in 1 .. n} /\ Range(tail) = {tail[i] : i \in 1 .. n - 1}
  BY <1>1, <1>2 DEF Range, tail
<1>8. Range(tail) = Range(s) \ {s[1]}
  <2>1. ASSUME NEW x \in Range(tail) PROVE x \in Range(s) /\ x # s[1]
    <3>1. PICK i \in 1 .. n - 1 : x = s[i + 1]
      BY <2>1, <1>3, <1>7
    <3>. QED BY <3>1, <1>3, <1>5, <1>6, <1>7
  <2>2. ASSUME NEW x \in Range(s), x # s[1] PROVE x \in Range(tail)
    <3>1. PICK i \in 1 .. n : x = s[i] /\ i # 1
      BY <2>2, <1>7
    <3>2. i - 1 \in 1 .. n - 1 /\ tail[i - 1] = s[i]
      BY <3>1, <1>3, <1>4
    <3>. QED BY <3>1, <3>2, <1>7
  <2>. QED BY <2>1, <2>2
<1>9. \A i, k \in 1 .. n - 1 : i + 1 = k + 1 => i = k
  BY <1>1
<1>10. \A i, k \in 1 .. n - 1 : tail[i] = tail[k] => i = k
  BY <1>3, <1>6, <1>9
<1>11. IsInjective(tail)
  BY <1>2, <1>10 DEF IsInjective, tail
<1>. QED BY <1>1, <1>2, <1>5, <1>7, <1>8, <1>11 DEF tail

LEMMA DeleteRowStep ==
    ASSUME StoreInv, NEW t \in Threads, DeleteRow(t)
    PROVE  StoreInv'
<1>. DEFINE rows == thread[t].rows
            h == Head(rows)
            j == [thread[t] EXCEPT !.rows = Tail(rows)]
<1>1. /\ thread[t].pc = "evicting" /\ rows # <<>>
      /\ index' = Without(index, h)
      /\ thread' = [thread EXCEPT ![t].rows = Tail(@)]
      /\ UNCHANGED <<files, lock, enabled, saves, clears, errors, restarts, leaked, overdue>>
  BY DEF DeleteRow, bounds
<1>2. /\ thread[t] \in Job /\ Evicts(t, thread[t])
      /\ rows \in Seq(Messages) /\ thread[t].paths \in Seq(Messages)
  BY <1>1 DEF StoreInv, Typed, AllWork, WorksOn, Job
<1>3. /\ h \in Messages /\ Tail(rows) \in Seq(Messages) /\ IsInjective(Tail(rows))
      /\ Len(Tail(rows)) < Len(rows)
      /\ Range(Tail(rows)) = Range(rows) \ {h} /\ h \in Range(rows)
  <2>1. IsInjective(rows)
    BY <1>2 DEF Evicts
  <2>. HIDE DEF rows
  <2>. QED BY <1>1, <1>2, <2>1, TailIs
<1>4. /\ index' \in Seq(Messages) /\ IsInjective(index')
      /\ Range(index') = Range(index) \cap (Messages \ {h})
  BY <1>1, <1>3, OnlyIs DEF StoreInv, Typed, Without
<1>5. Range(index) \subseteq Messages /\ Range(index)' = Range(index')
  BY DEF StoreInv, Typed, Range
<1>6. Range(index') = Range(index) \ {h}
  BY <1>4, <1>5
<1>7. /\ j \in Job /\ j.pc = "evicting" /\ j.rows = Tail(rows) /\ j.paths = thread[t].paths
      /\ j.msg = thread[t].msg
  BY <1>1, <1>2, <1>3 DEF Job
<1>8. thread' = [thread EXCEPT ![t] = j]
  BY <1>1 DEF StoreInv, Typed
<1>. HIDE DEF j, h
<1>9. /\ HeldBy(j) = Range(j.paths) \ Range(Tail(rows))
      /\ HeldBy(thread[t]) = Range(thread[t].paths) \ Range(rows)
  BY <1>1, <1>2, <1>7, HeldByIs
<1>10. HeldBy(j) = HeldBy(thread[t]) \cup {h}
  <2>1. Range(rows) \subseteq Range(thread[t].paths)
    BY <1>2 DEF Evicts
  <2>. QED BY <2>1, <1>3, <1>7, <1>9
<1>11. Turns(t, j)
  BY <1>7, <1>8 DEF Turns
<1>12. /\ thread' \in [Threads -> Job] /\ thread'[t] = j
       /\ \A u \in Threads : u # t => thread'[u] = thread[u]
  BY <1>11, TurnIs DEF StoreInv
<1>13. lock = t /\ lock' = lock
  BY <1>1, <1>2 DEF Evicts
<1>14. Typed'
  BY <1>1, <1>4, <1>12 DEF StoreInv, Typed
<1>15. WorksOn(t, thread[t])'
  <2>1. Len(rows) \in Nat /\ Len(Tail(rows)) \in Nat /\ Len(j.paths) \in Nat
    BY <1>2, <1>3, <1>7
  <2>2. Len(rows) <= Len(j.paths)
    BY <1>2, <1>7 DEF Evicts
  <2>3. Len(j.rows) < Len(j.paths)
    BY <2>1, <2>2, <1>3, <1>7
  <2>4. Range(rows) \subseteq Range(index) \cap Range(j.paths)
    BY <1>2, <1>7 DEF Evicts
  <2>5. Range(j.rows) \subseteq Range(index') \cap Range(j.paths)
    BY <2>4, <1>3, <1>6, <1>7
  <2>6. Range(index') \ Range(j.rows) = Range(index) \ Range(rows)
    BY <2>4, <1>3, <1>6, <1>7
  <2>7. Fits(Range(index') \ Range(j.rows))
    BY <2>6, <1>2 DEF Evicts
  <2>8. j.rows # j.paths /\ Len(j.rows) <= Len(j.paths)
    <3>1. Len(j.rows) \in Nat
      BY <2>1, <1>7
    <3>2. Len(j.rows) # Len(j.paths) /\ Len(j.rows) <= Len(j.paths)
      BY ONLY <3>1, <2>1, <2>3
    <3>. QED BY <3>2
  <2>. QED BY <2>5, <2>7, <2>8, <1>3, <1>7, <1>12, <1>13 DEF WorksOn, Evicts, Fits, Bytes
<1>16. AllWork'
  BY <1>11, <1>13, <1>15, WorkStep DEF StoreInv
<1>17. Counted'
  <2>1. {h} \in SUBSET Range(index)
    BY <1>2, <1>3 DEF Evicts
  <2>2. Range(index)' \subseteq Range(index) \ {h}
    BY <1>5, <1>6
  <2>3. HeldBy(thread[t])' \subseteq HeldBy(thread[t]) \cup {h}
    BY <1>10, <1>12
  <2>4. \A u \in Threads : u # t => HeldBy(thread[u])' \subseteq HeldBy(thread[u])
    BY <1>12
  <2>. QED BY <2>1, <2>2, <2>3, <2>4, <1>1, CountedStep DEF StoreInv
<1>18. Present'
  <2>1. ASSUME NEW n \in Messages, Expected(n)' PROVE Expected(n)
    BY <2>1, <1>1, <1>5, <1>6, <1>7, <1>12 DEF Expected
  <2>. QED BY <2>1, <1>1 DEF StoreInv, Present
<1>19. Explained'
  <2>1. \A n \in Range(index) : n \in Range(index)' \/ n \in HeldBy(thread'[t])
    BY <1>5, <1>6, <1>10, <1>12
  <2>2. \A u \in Threads : HeldBy(thread[u]) \subseteq HeldBy(thread'[u])
    BY <1>10, <1>12
  <2>. QED BY <2>1, <2>2, <1>1 DEF StoreInv, Explained
<1>20. Spared'
  <2>1. Range(index)' \subseteq Range(index)
    BY <1>5, <1>6
  <2>2. ASSUME NEW n \in Range(index)', Condemned(n) PROVE Condemned(n)'
    <3>1. n # h
      BY <1>5, <1>6
    <3>. QED BY <2>2, <3>1, <1>1, <1>3, <1>7, <1>12 DEF Condemned
  <2>. QED BY <2>1, <2>2, SparedStep DEF StoreInv
<1>. QED BY <1>14, <1>16, <1>17, <1>18, <1>19, <1>20 DEF StoreInv

LEMMA EvictDoneStep ==
    ASSUME StoreInv, NEW t \in Threads, EvictDone(t)
    PROVE  StoreInv'
<1>. DEFINE j == Unlinking(thread[t].paths)
<1>1. /\ thread[t].pc = "evicting" /\ thread[t].rows = <<>>
      /\ lock' = NoThread /\ overdue' = {}
      /\ thread' = [thread EXCEPT ![t] = j]
      /\ UNCHANGED <<index, files, enabled, saves, clears, errors, restarts, leaked>>
  BY DEF EvictDone, bounds, tables
<1>2. thread[t] \in Job /\ thread[t].paths \in Seq(Messages) /\ Evicts(t, thread[t])
  BY <1>1 DEF StoreInv, Typed, AllWork, WorksOn, Job
<1>3. /\ j \in Job /\ j.rows = <<>> /\ j.paths = thread[t].paths
      /\ j.pc = IF thread[t].paths = <<>> THEN "idle" ELSE "unlinking"
      /\ HeldBy(j) = Range(thread[t].paths)
  BY <1>2, UnlinkingIs
<1>. HIDE DEF j
<1>4. Range(<<>>) = {}
  BY DEF Range
<1>5. HeldBy(thread[t]) = Range(thread[t].paths)
  BY <1>1, <1>2, <1>4, HeldByIs
<1>6. Turns(t, j)
  BY <1>1, <1>3 DEF Turns
<1>7. /\ thread' \in [Threads -> Job] /\ thread'[t] = j
      /\ \A u \in Threads : u # t => thread'[u] = thread[u]
  BY <1>6, TurnIs DEF StoreInv
<1>8. lock = t
  BY <1>2 DEF Evicts
<1>9. Typed'
  BY <1>1, <1>7 DEF StoreInv, Typed
<1>10. WorksOn(t, thread[t])'
  BY <1>3, <1>7 DEF WorksOn
<1>11. AllWork'
  BY <1>1, <1>6, <1>8, <1>10, WorkStep DEF StoreInv
<1>12. \A u \in Threads : HeldBy(thread[u])' = HeldBy(thread[u])
  BY <1>3, <1>5, <1>7
<1>13. Range(index)' = Range(index)
  BY <1>1
<1>14. Counted'
  BY <1>1, <1>12, <1>13, CountedStep DEF StoreInv
<1>15. Present'
  <2>1. ASSUME NEW n \in Messages, Expected(n)' PROVE Expected(n)
    BY <2>1, <1>1, <1>3, <1>7 DEF Expected
  <2>. QED BY <2>1, <1>1 DEF StoreInv, Present
<1>16. Explained'
  BY <1>1, <1>12, <1>13 DEF StoreInv, Explained
<1>17. Spared'
  <2>1. \A u \in Threads : thread'[u].rows = <<>>
    <3>1. \A u \in Threads : u # t => thread[u].rows = <<>>
      BY <1>8 DEF StoreInv, AllWork, WorksOn, Evicts
    <3>. QED BY <3>1, <1>3, <1>7
  <2>2. {n \in Range(index)' : ~Condemned(n)'} = Range(index)
    BY <2>1, <1>1, <1>4, <1>13 DEF Condemned
  <2>3. Range(index) \ Range(thread[t].rows) = Range(index)
    BY <1>1, <1>4
  <2>4. Fits(Range(index))
    BY <2>3, <1>2 DEF Evicts
  <2>. QED BY <2>2, <2>4 DEF Spared, Fits, Bytes
<1>. QED BY <1>9, <1>11, <1>14, <1>15, <1>16, <1>17 DEF StoreInv

LEMMA UnlinkStep ==
    ASSUME StoreInv, NEW t \in Threads, Unlink(t)
    PROVE  StoreInv'
<1>. DEFINE paths == thread[t].paths
            m == Head(paths)
            j == Unlinking(Tail(paths))
<1>1. /\ thread[t].pc = "unlinking"
      /\ files' = files \ {m} /\ leaked' = leaked \ {m}
      /\ thread' = [thread EXCEPT ![t] = j]
      /\ UNCHANGED <<index, lock, enabled, saves, clears, errors, restarts, overdue>>
  BY DEF Unlink, bounds
<1>2. /\ thread[t] \in Job /\ paths \in Seq(Messages) /\ paths # <<>>
      /\ thread[t].rows = <<>>
  BY <1>1 DEF StoreInv, Typed, AllWork, WorksOn, Job
<1>3. /\ Tail(paths) \in Seq(Messages) /\ m \in Messages
      /\ Range(paths) \subseteq Range(Tail(paths)) \cup {m}
      /\ Range(Tail(paths)) \subseteq Range(paths) /\ m \in Range(paths)
  <2>1. PICK n \in Nat : n = Len(paths) /\ paths \in [1 .. n -> Messages] /\ n >= 1
    BY <1>2, EmptySeq
  <2>2. /\ Tail(paths) \in Seq(Messages) /\ DOMAIN Tail(paths) = 1 .. n - 1 /\ m = paths[1]
        /\ \A i \in 1 .. n - 1 : Tail(paths)[i] = paths[i + 1]
    BY <1>2, <2>1
  <2>3. \A i \in 1 .. n : i = 1 \/ (i - 1 \in 1 .. n - 1 /\ (i - 1) + 1 = i)
    BY <2>1
  <2>4. \A i \in 1 .. n - 1 : i + 1 \in 1 .. n
    BY <2>1
  <2>5. 1 \in 1 .. n
    BY <2>1
  <2>6. Range(paths) = {paths[i] : i \in 1 .. n}
    BY <2>1 DEF Range
  <2>7. Range(Tail(paths)) = {paths[i + 1] : i \in 1 .. n - 1}
    BY <2>2 DEF Range
  <2>8. Range(paths) \subseteq Range(Tail(paths)) \cup {m}
    BY <2>2, <2>3, <2>6, <2>7
  <2>9. Range(Tail(paths)) \subseteq Range(paths) /\ m \in Range(paths)
    BY <2>2, <2>4, <2>5, <2>6, <2>7
  <2>. QED BY <2>1, <2>2, <2>5, <2>8, <2>9
<1>4. /\ j \in Job /\ j.rows = <<>> /\ HeldBy(j) = Range(Tail(paths))
      /\ j.pc \in {"idle", "unlinking"}
      /\ j.pc = "unlinking" => j.paths # <<>>
  <2>. DEFINE rest == Tail(paths)
  <2>1. rest \in Seq(Messages)
    BY <1>3
  <2>. HIDE DEF rest
  <2>2. LET k == Unlinking(rest) IN
        /\ k \in Job /\ k.rows = <<>> /\ k.paths = rest
        /\ k.pc = IF rest = <<>> THEN "idle" ELSE "unlinking"
        /\ HeldBy(k) = Range(rest)
    BY <2>1, UnlinkingIs
  <2>. QED BY <2>2 DEF rest
<1>. HIDE DEF j
<1>5. HeldBy(thread[t]) = Range(paths)
  BY <1>1, <1>2, HeldByIs
<1>. HIDE DEF m
<1>6. Turns(t, j)
  BY <1>1, <1>4 DEF Turns
<1>7. /\ thread' \in [Threads -> Job] /\ thread'[t] = j
      /\ \A u \in Threads : u # t => thread'[u] = thread[u]
  BY <1>6, TurnIs DEF StoreInv
<1>8. Typed'
  BY <1>1, <1>7 DEF StoreInv, Typed
<1>9. WorksOn(t, thread[t])'
  BY <1>4, <1>7 DEF WorksOn
<1>10. AllWork'
  BY <1>1, <1>6, <1>9, WorkStep DEF StoreInv
<1>11. Range(index)' = Range(index)
  BY <1>1
<1>12. /\ HeldBy(thread'[t]) \subseteq HeldBy(thread[t])
       /\ HeldBy(thread[t]) \subseteq HeldBy(thread'[t]) \cup {m}
       /\ \A u \in Threads : u # t => HeldBy(thread'[u]) = HeldBy(thread[u])
  BY <1>3, <1>4, <1>5, <1>7
<1>13. Counted'
  BY <1>1, <1>11, <1>12, CountedStep DEF StoreInv
<1>14. Present'
  <2>1. ASSUME NEW n \in Messages, Expected(n)' PROVE Expected(n)
    BY <2>1, <1>1, <1>4, <1>7 DEF Expected
  <2>2. m \in HeldBy(thread[t])
    BY <1>3, <1>5
  <2>3. ASSUME NEW n \in Messages, n = m, Expected(n)' PROVE saves[n] > 1
    <3>1. CASE n \in Range(index)
      BY <3>1, <2>2, <2>3 DEF StoreInv, Counted
    <3>2. CASE \E u \in Threads : thread'[u].pc = "indexing" /\ thread'[u].msg = n
      <4>1. PICK u \in Threads : thread'[u].pc = "indexing" /\ thread'[u].msg = n
        BY <3>2
      <4>2. u # t /\ thread[u] = thread'[u] /\ thread[u] \in Job
        BY <4>1, <1>4, <1>7 DEF StoreInv, Typed
      <4>3. n \in HeldBy(thread[u])
        BY <4>1, <4>2, HeldByIs
      <4>. QED BY <4>2, <4>3, <2>2, <2>3 DEF StoreInv, Counted
    <3>. QED BY <2>3, <3>1, <3>2, <1>11 DEF Expected
  <2>. QED BY <2>1, <2>3, <1>1 DEF StoreInv, Present
<1>15. Explained'
  BY <1>1, <1>11, <1>12 DEF StoreInv, Explained
<1>16. Spared'
  <2>1. \A n \in Range(index)' : Condemned(n) => Condemned(n)'
    BY <1>1, <1>2, <1>4, <1>7 DEF Condemned
  <2>. QED BY <2>1, <1>11, SparedStep DEF StoreInv
<1>. QED BY <1>8, <1>10, <1>13, <1>14, <1>15, <1>16 DEF StoreInv

\* PathsOf and what Clear leaves share out the index.
LEMMA ClearedIs ==
    ASSUME Typed, NEW chats
    PROVE  LET paths == PathsOf(chats)
               rest  == Only(index, {m \in Messages : ChatOf[m] \notin chats}) IN
           /\ paths \in Seq(Messages) /\ rest \in Seq(Messages) /\ IsInjective(rest)
           /\ Range(paths) \subseteq Range(index)
           /\ Range(rest) = Range(index) \ Range(paths)
<1>. DEFINE of  == {m \in Messages : ChatOf[m] \in chats}
            not == {m \in Messages : ChatOf[m] \notin chats}
<1>1. Range(index) \subseteq of \cup not /\ of \cap not = {}
  BY DEF Typed, Range
<1>2. index \in Seq(Messages) /\ IsInjective(index)
  BY DEF Typed
<1>3. PathsOf(chats) = Only(index, of)
  BY DEF PathsOf
<1>. HIDE DEF of, not
<1>4. Only(index, of) \in Seq(Messages) /\ Range(Only(index, of)) = Range(index) \cap of
  BY <1>2, OnlyIs
<1>5. /\ Only(index, not) \in Seq(Messages) /\ Range(Only(index, not)) = Range(index) \cap not
      /\ IsInjective(Only(index, not))
  BY <1>2, OnlyIs
<1>6. Range(Only(index, not)) = Range(index) \ Range(Only(index, of))
  BY <1>1, <1>4, <1>5
<1>. QED BY <1>3, <1>4, <1>5, <1>6 DEF not

LEMMA ClearStep ==
    ASSUME StoreInv, NEW t \in Threads, NEW chats, Clear(t, chats)
    PROVE  StoreInv'
<1>. DEFINE paths == PathsOf(chats)
            rest  == Only(index, {m \in Messages : ChatOf[m] \notin chats})
            j     == IF enabled THEN Unlinking(paths) ELSE Idle
<1>1. /\ clears < MaxClears /\ thread[t] = Idle /\ lock = NoThread
      /\ clears' = clears + 1 /\ index' = rest
      /\ leaked' = IF enabled THEN leaked ELSE leaked \cup Range(paths)
      /\ enabled => thread' = [thread EXCEPT ![t] = j]
      /\ ~enabled => thread' = thread
      /\ UNCHANGED <<files, lock, enabled, saves, errors, restarts, overdue>>
  BY DEF Clear
<1>2. /\ paths \in Seq(Messages) /\ rest \in Seq(Messages) /\ IsInjective(rest)
      /\ Range(paths) \subseteq Range(index)
      /\ Range(rest) = Range(index) \ Range(paths)
  BY ClearedIs DEF StoreInv
<1>. HIDE DEF paths, rest
<1>3. /\ j \in Job /\ j.rows = <<>>
      /\ HeldBy(j) = IF enabled THEN Range(paths) ELSE {}
      /\ j.pc \in {"idle", "unlinking"}
      /\ j.pc = "unlinking" => j.paths # <<>>
  BY <1>2, UnlinkingIs, IdleIs
<1>4. thread' = [thread EXCEPT ![t] = j]
  <2>1. CASE enabled
    BY <2>1, <1>1
  <2>2. CASE ~enabled
    <3>1. j = thread[t]
      BY <2>2, <1>1
    <3>. QED BY <2>2, <3>1, <1>1 DEF StoreInv, Typed
  <2>. QED BY <2>1, <2>2
<1>. HIDE DEF j
<1>5. HeldBy(thread[t]) = {} /\ thread[t].rows = <<>>
  BY <1>1, IdleIs
<1>6. Turns(t, j)
  BY <1>3, <1>4 DEF Turns
<1>7. /\ thread' \in [Threads -> Job] /\ thread'[t] = j
      /\ \A u \in Threads : u # t => thread'[u] = thread[u]
  BY <1>6, TurnIs DEF StoreInv
<1>8. Range(index)' = Range(index) \ Range(paths) /\ Range(index) \subseteq Messages
  <2>1. Range(index)' = Range(index')
    OBVIOUS
  <2>2. Range(index) \subseteq Messages
    BY DEF StoreInv, Typed, Range
  <2>. QED BY <2>1, <2>2, <1>1, <1>2
<1>9. Typed'
  <2>1. clears' \in 0 .. MaxClears
    BY <1>1, BoundsAssumption DEF StoreInv, Typed
  <2>2. leaked' \subseteq Messages
    BY <1>1, <1>2, <1>8 DEF StoreInv, Typed
  <2>. QED BY <2>1, <2>2, <1>1, <1>2, <1>7 DEF StoreInv, Typed
<1>10. WorksOn(t, thread[t])'
  BY <1>3, <1>7 DEF WorksOn
<1>11. AllWork'
  BY <1>1, <1>6, <1>10, WorkStep DEF StoreInv
<1>12. Counted'
  <2>1. HeldBy(thread[t])' \subseteq HeldBy(thread[t]) \cup Range(paths)
    BY <1>3, <1>7
  <2>2. \A u \in Threads : u # t => HeldBy(thread[u])' \subseteq HeldBy(thread[u])
    BY <1>7
  <2>. QED BY <2>1, <2>2, <1>1, <1>2, <1>8, CountedStep DEF StoreInv
<1>13. Present'
  <2>1. ASSUME NEW n \in Messages, Expected(n)' PROVE Expected(n)
    BY <2>1, <1>3, <1>7, <1>8 DEF Expected
  <2>. QED BY <2>1, <1>1 DEF StoreInv, Present
<1>14. Explained'
  <2>1. \A n \in Range(paths) : n \in leaked' \/ n \in HeldBy(thread'[t])
    BY <1>1, <1>3, <1>7
  <2>2. \A n \in leaked : n \in leaked'
    BY <1>1
  <2>3. \A u \in Threads : HeldBy(thread[u]) \subseteq HeldBy(thread'[u])
    BY <1>5, <1>7
  <2>. QED BY <2>1, <2>2, <2>3, <1>1, <1>8 DEF StoreInv, Explained
<1>15. Spared'
  <2>1. Range(index)' \subseteq Range(index)
    BY <1>8
  <2>2. \A n \in Range(index)' : Condemned(n) => Condemned(n)'
    BY <1>1, <1>3, <1>5, <1>7 DEF Condemned
  <2>. QED BY <2>1, <2>2, SparedStep DEF StoreInv
<1>. QED BY <1>9, <1>11, <1>12, <1>13, <1>14, <1>15 DEF StoreInv

LEMMA ThreadFailsStep ==
    ASSUME StoreInv, NEW t \in Threads, ThreadFails(t)
    PROVE  StoreInv'
<1>1. /\ errors < MaxErrors /\ errors' = errors + 1
      /\ files' = files \/ (thread[t].pc = "writing" /\ files' = files \cup {thread[t].msg})
      /\ leaked' = leaked \cup (HeldBy(thread[t]) \cap files')
      /\ overdue' = overdue \cup Range(thread[t].rows)
      /\ lock' = IF lock = t THEN NoThread ELSE lock
      /\ thread' = [thread EXCEPT ![t] = Idle]
      /\ UNCHANGED <<index, enabled, saves, clears, restarts>>
  BY DEF ThreadFails, Held, HeldBy
<1>2. thread[t] \in Job /\ (thread[t].pc = "writing" => thread[t].msg \in Messages)
  BY DEF StoreInv, Typed, AllWork, WorksOn
<1>3. thread[t].pc = "writing" => HeldBy(thread[t]) = {thread[t].msg}
  BY <1>2, HeldByIs
<1>4. Turns(t, Idle)
  BY <1>1, IdleIs DEF Turns
<1>5. /\ thread' \in [Threads -> Job] /\ thread'[t] = Idle
      /\ \A u \in Threads : u # t => thread'[u] = thread[u]
  BY <1>4, TurnIs DEF StoreInv
<1>6. Range(index)' = Range(index)
  BY <1>1
<1>7. files \subseteq files' /\ files' \subseteq files \cup HeldBy(thread[t])
  BY <1>1, <1>3
<1>8. Typed'
  <2>1. errors' \in 0 .. MaxErrors
    BY <1>1, BoundsAssumption DEF StoreInv, Typed
  <2>2. files' \subseteq Messages
    BY <1>1, <1>2 DEF StoreInv, Typed
  <2>3. leaked' \subseteq Messages
    BY <1>1, <2>2 DEF StoreInv, Typed
  <2>4. overdue' \subseteq Messages
    <3>1. Range(thread[t].rows) \subseteq Messages
      BY <1>2 DEF Job, Range
    <3>. QED BY <1>1, <3>1 DEF StoreInv, Typed
  <2>. QED BY <2>1, <2>2, <2>3, <2>4, <1>1, <1>5 DEF StoreInv, Typed
<1>9. WorksOn(t, thread[t])'
  BY <1>5, IdleIs DEF WorksOn
<1>10. AllWork'
  BY <1>1, <1>4, <1>9, WorkStep DEF StoreInv
<1>11. Counted'
  <2>1. HeldBy(thread[t])' \subseteq HeldBy(thread[t])
    BY <1>5, IdleIs
  <2>2. \A u \in Threads : u # t => HeldBy(thread[u])' \subseteq HeldBy(thread[u])
    BY <1>5
  <2>. QED BY <2>1, <2>2, <1>1, <1>6, CountedStep DEF StoreInv
<1>12. Present'
  <2>1. ASSUME NEW n \in Messages, Expected(n)' PROVE Expected(n)
    BY <2>1, <1>5, <1>6, IdleIs DEF Expected
  <2>. QED BY <2>1, <1>1, <1>7 DEF StoreInv, Present
<1>13. Explained'
  <2>1. ASSUME NEW n \in files'
        PROVE  \/ n \in Range(index)' \/ n \in leaked'
               \/ \E u \in Threads : n \in HeldBy(thread[u])'
    <3>1. CASE n \in HeldBy(thread[t])
      BY <3>1, <2>1, <1>1
    <3>2. CASE n \notin HeldBy(thread[t])
      <4>1. n \in files
        BY <3>2, <2>1, <1>7
      <4>. QED BY <4>1, <3>2, <1>1, <1>5, <1>6 DEF StoreInv, Explained
    <3>. QED BY <3>1, <3>2
  <2>. QED BY <2>1 DEF Explained
<1>14. Spared'
  <2>1. \A n \in Range(index)' : Condemned(n) => Condemned(n)'
    BY <1>1, <1>5 DEF Condemned
  <2>. QED BY <2>1, <1>6, SparedStep DEF StoreInv
<1>. QED BY <1>8, <1>10, <1>11, <1>12, <1>13, <1>14 DEF StoreInv

LEMMA RestartStep ==
    ASSUME StoreInv, Restart
    PROVE  StoreInv'
<1>1. /\ restarts < MaxRestarts /\ restarts' = restarts + 1
      /\ leaked' = leaked \cup {n \in files : \E t \in Threads : n \in HeldBy(thread[t])}
      /\ overdue' = overdue \cup UNION {Range(thread[t].rows) : t \in Threads}
      /\ lock' = NoThread /\ thread' = [t \in Threads |-> Idle]
      /\ enabled' \in BOOLEAN
      /\ UNCHANGED <<index, files, saves, clears, errors>>
  BY DEF Restart, Held, HeldBy, tables
<1>2. thread' \in [Threads -> Job] /\ \A t \in Threads : thread'[t] = Idle
  BY <1>1, IdleIs
<1>3. Range(index)' = Range(index)
  BY <1>1
<1>4. \A t \in Threads : thread[t] \in Job /\ Range(thread[t].rows) \subseteq Messages
  BY DEF StoreInv, Typed, Job, Range
<1>5. Typed'
  <2>1. restarts' \in 0 .. MaxRestarts
    BY <1>1, BoundsAssumption DEF StoreInv, Typed
  <2>2. leaked' \subseteq leaked \cup files
    BY <1>1
  <2>3. UNION {Range(thread[t].rows) : t \in Threads} \subseteq Messages
    BY <1>4
  <2>4. leaked' \subseteq Messages /\ overdue' \subseteq Messages
    BY <2>2, <2>3, <1>1 DEF StoreInv, Typed
  <2>. QED BY <2>1, <2>4, <1>1, <1>2 DEF StoreInv, Typed
<1>6. AllWork'
  BY <1>2, IdleIs DEF AllWork, WorksOn
<1>7. \A t \in Threads : HeldBy(thread'[t]) = {}
  BY <1>2, IdleIs
<1>8. Counted'
  BY <1>1, <1>3, <1>7 DEF StoreInv, Counted
<1>9. Present'
  <2>1. ASSUME NEW n \in Messages, Expected(n)' PROVE Expected(n)
    BY <2>1, <1>2, <1>3, IdleIs DEF Expected
  <2>. QED BY <2>1, <1>1 DEF StoreInv, Present
<1>10. Explained'
  <2>1. \A t \in Threads : \A n \in HeldBy(thread[t]) : n \in files => n \in leaked'
    BY <1>1
  <2>2. leaked \subseteq leaked'
    BY <1>1
  <2>. QED BY <2>1, <2>2, <1>1, <1>3 DEF StoreInv, Explained
<1>11. Spared'
  <2>1. \A n \in Range(index)' : Condemned(n) => Condemned(n)'
    BY <1>1 DEF Condemned
  <2>. QED BY <2>1, <1>3, SparedStep DEF StoreInv
<1>. QED BY <1>5, <1>6, <1>8, <1>9, <1>10, <1>11 DEF StoreInv

LEMMA StoreInit == Init => StoreInv
<1>. SUFFICES ASSUME Init PROVE StoreInv
  OBVIOUS
<1>1. index = <<>> /\ Range(index) = {} /\ files = {} /\ \A t \in Threads : thread[t] = Idle
  BY DEF Init, Range
<1>2. Typed
  BY IdleIs, BoundsAssumption DEF Init, Typed, IsInjective
<1>3. AllWork
  BY <1>1, IdleIs DEF AllWork, WorksOn
<1>4. Counted /\ Present /\ Explained
  BY <1>1, IdleIs DEF Counted, Present, Expected, Explained
<1>5. Spared
  <2>1. {m \in Range(index) : ~Condemned(m)} = {}
    BY <1>1
  <2>. QED BY <2>1, NoBytes DEF Spared
<1>. QED BY <1>2, <1>3, <1>4, <1>5 DEF StoreInv

LEMMA StoreStep == StoreInv /\ [Next]_vars => StoreInv'
<1>. SUFFICES ASSUME StoreInv, [Next]_vars PROVE StoreInv'
  OBVIOUS
<1>1. ASSUME NEW t \in Threads, Step(t) PROVE StoreInv'
  BY <1>1, WriteFileStep, InsertRowStep, DeleteRowStep, EvictDoneStep, UnlinkStep DEF Step
<1>2. ASSUME NEW t \in Threads, ThreadFails(t) PROVE StoreInv'
  BY <1>2, ThreadFailsStep
<1>3. ASSUME NEW t \in Threads, NEW m \in Messages, BeginSave(t, m) PROVE StoreInv'
  BY <1>3, BeginSaveStep
<1>4. ASSUME NEW t \in Threads, NEW chats, Clear(t, chats) PROVE StoreInv'
  BY <1>4, ClearStep
<1>5. ASSUME Restart PROVE StoreInv'
  BY <1>5, RestartStep
<1>6. ASSUME UNCHANGED vars PROVE StoreInv'
  <2>1. UNCHANGED <<index, files, thread, lock, enabled, saves, clears, errors, restarts,
                    leaked, overdue>>
    BY <1>6 DEF vars, tables, bounds
  <2>2. Typed' /\ Counted' /\ Present' /\ Explained'
    BY <2>1 DEF StoreInv, Typed, Counted, Present, Expected, Explained
  <2>3. AllWork'
    BY <2>1 DEF StoreInv, AllWork, WorksOn, Evicts, Fits, Bytes
  <2>4. Spared'
    BY <2>1 DEF StoreInv, Spared, Condemned, Fits, Bytes
  <2>. QED BY <2>2, <2>3, <2>4 DEF StoreInv
<1>. QED BY <1>1, <1>2, <1>3, <1>4, <1>5, <1>6 DEF Next

-----------------------------------------------------------------------------
(* The theorems. *)

LEMMA AlwaysStoreInv == Spec => []StoreInv
BY StoreInit, StoreStep, PTL DEF Spec

\* The index holds one row per message, in Seq(Messages); a thread that holds no
\* lock dooms no row.
THEOREM StoreTypeCorrect == Spec => []TypeOK
<1>1. StoreInv => TypeOK
  BY DEF StoreInv, Typed, AllWork, WorksOn, Evicts, Job, TypeOK
<1>. QED BY <1>1, AlwaysStoreInv, PTL

\* Both caps hold whenever no save is in the database, but for the rows that an
\* eviction that was cut short has left.
THEOREM CapsAreHeld == Spec => []CapsHold
<1>1. ASSUME StoreInv PROVE CapsHold
  <2>1. SUFFICES ASSUME lock = NoThread PROVE Fits(Range(index) \ overdue)
    BY DEF CapsHold
  <2>2. \A t \in Threads : thread[t].rows = <<>>
    BY <1>1, <2>1, MessagesAssumption DEF StoreInv, AllWork, WorksOn, Evicts
  <2>3. {m \in Range(index) : ~Condemned(m)} = Range(index) \ overdue
    BY <2>2 DEF Condemned, Range
  <2>. QED BY <1>1, <2>3 DEF StoreInv, Spared
<1>. QED BY <1>1, AlwaysStoreInv, PTL

\* _evict gives up the rows that, with all newer ones, exceed a cap, and no other.
THEOREM EvictionIsExact == Spec => []DoomsOnlyOverflow
<1>1. StoreInv => DoomsOnlyOverflow
  BY DEF StoreInv, AllWork, WorksOn, Evicts, Overflow, DoomsOnlyOverflow
<1>. QED BY <1>1, AlwaysStoreInv, PTL

\* A file without a row is in the hands of a thread or was dropped by one that
\* failed or was killed, or by a clear with the store switched off.
THEOREM OrphansAreExplained == Spec => []OrphansExplained
<1>1. StoreInv => OrphansExplained
  BY DEF StoreInv, Explained, OrphansExplained, Held, HeldBy
<1>. QED BY <1>1, AlwaysStoreInv, PTL

\* An indexed message whose file is gone was saved twice.
THEOREM MissingWasResaved == Spec => []MissingOnlyIfResaved
<1>1. ASSUME StoreInv PROVE MissingOnlyIfResaved
  <2>1. Range(index) \subseteq Messages
    BY <1>1 DEF StoreInv, Typed, Range
  <2>. QED BY <2>1, <1>1 DEF StoreInv, Present, Expected, MissingOnlyIfResaved, Resolves
<1>. QED BY <1>1, AlwaysStoreInv, PTL
=============================================================================
