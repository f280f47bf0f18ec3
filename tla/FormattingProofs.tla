-------------------------- MODULE FormattingProofs --------------------------
(***************************************************************************)
(* Theorems about Formatting, for every set of lines and every limit.      *)
(***************************************************************************)
EXTENDS Formatting, NaturalsInduction, WellFoundedInduction, FiniteSetTheorems,
        SequenceTheorems, TLAPS

-----------------------------------------------------------------------------
(* Induction over sets of numbers and of sequences. *)

LEMMA LeastElement ==
    ASSUME NEW T \in SUBSET Nat, T # {}
    PROVE  \E x \in T : \A y \in T : x <= y
<1>1. IsWellFoundedOn(OpToRel(<, Nat), Nat)
  BY NatLessThanWellFounded
<1>2. PICK x \in T : \A y \in T : <<y, x>> \notin OpToRel(<, Nat)
  BY <1>1, WFMin
<1>3. \A y \in T : ~(y < x)
  BY <1>2 DEF OpToRel
<1>. QED BY <1>3

LEMMA UpTo ==
    ASSUME NEW n \in Nat, NEW Good \in SUBSET Nat, 0 \in Good,
           \A i \in 1 .. n : i - 1 \in Good => i \in Good
    PROVE  0 .. n \subseteq Good
<1>. DEFINE Bad == (0 .. n) \ Good
<1>1. SUFFICES ASSUME Bad # {} PROVE FALSE
  OBVIOUS
<1>2. PICK k \in Bad : \A j \in Bad : k <= j
  <2>1. Bad \in SUBSET Nat
    OBVIOUS
  <2>. HIDE DEF Bad
  <2>. QED BY <2>1, <1>1, LeastElement
<1>3. k # 0 /\ k - 1 \notin Bad /\ k \in 1 .. n
  BY <1>2
<1>. QED BY <1>3

\* What holds of the empty sequence, and of a longer one if of its front.
LEMMA Appending ==
    ASSUME NEW A, NEW Good \in SUBSET Seq(A), <<>> \in Good,
           \A s \in Good : \A e \in A : Append(s, e) \in Good
    PROVE  Seq(A) \subseteq Good
<1>. SUFFICES ASSUME NEW seq \in Seq(A) PROVE seq \in Good
  OBVIOUS
<1>. DEFINE All == {k \in Nat : \A s \in Seq(A) : Len(s) = k => s \in Good}
<1>1. 0 \in All
  BY EmptySeq
<1>2. ASSUME NEW i \in 1 .. Len(seq), i - 1 \in All PROVE i \in All
  <2>1. ASSUME NEW s \in Seq(A), Len(s) = i PROVE s \in Good
    <3>1. s # <<>>
      BY <2>1
    <3>2. PICK t \in Seq(A), e \in A : s = Append(t, e)
      BY <3>1, SequenceEmptyOrAppend
    <3>3. Len(t) = i - 1
      BY <2>1, <3>2
    <3>. QED BY <1>2, <3>2, <3>3
  <2>. QED BY <2>1
<1>3. 0 .. Len(seq) \subseteq All
  <2>1. Len(seq) \in Nat /\ All \in SUBSET Nat
    OBVIOUS
  <2>. HIDE DEF All
  <2>. QED BY <2>1, <1>1, <1>2, UpTo
<1>4. Len(seq) \in All
  <2>1. Len(seq) \in 0 .. Len(seq)
    OBVIOUS
  <2>. HIDE DEF All
  <2>. QED BY <1>3, <2>1
<1>. QED BY <1>4

-----------------------------------------------------------------------------
(* FlattenSeq. *)

Flattens(f, ss) ==
    f[0] = <<>> /\ \A i \in 1 .. Len(ss) : f[i] = f[i - 1] \o ss[i]

LEMMA FlattenExists ==
    ASSUME NEW A
    PROVE  \A ss \in Seq(Seq(A)) : \E f \in [0 .. Len(ss) -> Seq(A)] : Flattens(f, ss)
<1>. DEFINE Good == {ss \in Seq(Seq(A)) : \E f \in [0 .. Len(ss) -> Seq(A)] : Flattens(f, ss)}
<1>1. <<>> \in Good
  <2>. DEFINE f == [i \in 0 .. 0 |-> <<>>]
  <2>1. f \in [0 .. Len(<<>>) -> Seq(A)] /\ Flattens(f, <<>>)
    BY DEF Flattens
  <2>. QED BY <2>1
<1>2. ASSUME NEW ss \in Good, NEW s \in Seq(A) PROVE Append(ss, s) \in Good
  <2>1. PICK f \in [0 .. Len(ss) -> Seq(A)] : Flattens(f, ss)
    OBVIOUS
  <2>. DEFINE n == Len(ss)
              tt == Append(ss, s)
              g == [i \in 0 .. n + 1 |-> IF i = n + 1 THEN f[n] \o s ELSE f[i]]
  <2>2. /\ tt \in Seq(Seq(A)) /\ Len(tt) = n + 1 /\ n \in Nat
        /\ \A i \in 1 .. n : tt[i] = ss[i]
        /\ tt[n + 1] = s
    OBVIOUS
  <2>. HIDE DEF tt
  <2>a. f[n] \o s \in Seq(A) /\ \A i \in 0 .. n : f[i] \in Seq(A)
    <3>1. n \in 0 .. n /\ f \in [0 .. n -> Seq(A)]
      BY <2>1, <2>2
    <3>. HIDE DEF n
    <3>. QED BY <3>1, ConcatProperties
  <2>3. g \in [0 .. n + 1 -> Seq(A)]
    BY <2>2, <2>a
  <2>4. Flattens(g, tt)
    <3>1. f[0] = <<>> /\ \A i \in 1 .. n : f[i] = f[i - 1] \o ss[i]
      BY <2>1 DEF Flattens
    <3>2. ASSUME NEW i \in 1 .. n PROVE g[i] = g[i - 1] \o tt[i]
      <4>1. g[i] = f[i] /\ g[i - 1] = f[i - 1] /\ tt[i] = ss[i]
        BY <2>2, SMTT(20)
      <4>. QED BY <3>1, <4>1
    <3>3. g[n + 1] = g[(n + 1) - 1] \o tt[n + 1] /\ g[0] = <<>>
      BY <2>2, <3>1, SMTT(20)
    <3>4. \A i \in 1 .. n + 1 : i \in 1 .. n \/ i = n + 1
      BY <2>2
    <3>. HIDE DEF g
    <3>. QED BY <2>2, <3>2, <3>3, <3>4 DEF Flattens
  <2>. HIDE DEF g, n
  <2>5. tt \in Good
    BY <2>2, <2>3, <2>4
  <2>. QED BY <2>5 DEF tt
<1>3. Seq(Seq(A)) \subseteq Good
  <2>1. Good \in SUBSET Seq(Seq(A))
    OBVIOUS
  <2>. HIDE DEF Good
  <2>. QED BY <2>1, <1>1, <1>2, Appending
<1>. QED BY <1>3

LEMMA FlattenIs ==
    ASSUME NEW A, NEW ss \in Seq(Seq(A)), NEW f \in [0 .. Len(ss) -> Seq(A)],
           Flattens(f, ss)
    PROVE  FlattenSeq(ss) = f[Len(ss)]
<1>. DEFINE n == Len(ss)
            Rec(g) == [i \in 1 .. n |-> IF i = 1 THEN ss[i] ELSE g[i - 1] \o ss[i]]
            up == CHOOSE g : g = Rec(g)
            part == [i \in 1 .. n |-> f[i]]
<1>0. n \in Nat /\ \A i \in 1 .. n : ss[i] \in Seq(A)
  OBVIOUS
<1>a. f[0] = <<>> /\ \A i \in 1 .. n : f[i] = f[i - 1] \o ss[i]
  BY DEF Flattens
<1>b. n # 0 => f[1] = ss[1]
  <2>. HAVE n # 0
  <2>1. 1 \in 1 .. n /\ 1 - 1 = 0
    BY <1>0
  <2>2. f[1] = f[0] \o ss[1]
    BY <1>a, <2>1
  <2>. QED BY <1>0, <1>a, <2>1, <2>2, ConcatEmptySeq
<1>1. part = Rec(part)
  <2>. SUFFICES ASSUME NEW i \in 1 .. n PROVE part[i] = Rec(part)[i]
    OBVIOUS
  <2>1. CASE i = 1
    BY <1>0, <1>b, <2>1
  <2>2. CASE i # 1
    <3>1. i - 1 \in 1 .. n
      BY <1>0, <2>2
    <3>. QED BY <1>a, <2>2, <3>1
  <2>. QED BY <2>1, <2>2
<1>2. up = Rec(up)
  BY <1>1
<1>. HIDE DEF up
<1>3. up = [i \in 1 .. n |-> IF i = 1 THEN ss[i] ELSE up[i - 1] \o ss[i]]
  BY <1>2
<1>4. CASE n = 0
  <2>1. ss = <<>>
    BY <1>4, EmptySeq
  <2>. QED BY <2>1, <1>4 DEF FlattenSeq, Flattens
<1>5. CASE n # 0
  <2>1. FlattenSeq(ss) = up[n]
    BY <1>5 DEF FlattenSeq, up
  <2>. DEFINE Same == {k \in Nat : k \in 1 .. n => up[k] = f[k]}
  <2>2. 0 \in Same
    OBVIOUS
  <2>3. ASSUME NEW i \in 1 .. n, i - 1 \in Same PROVE i \in Same
    <3>1. CASE i = 1
      BY <1>3, <1>b, <1>5, <3>1
    <3>2. CASE i # 1
      <4>1. up[i] = up[i - 1] \o ss[i]
        BY <1>3, <3>2
      <4>2. f[i] = f[i - 1] \o ss[i]
        BY <1>a
      <4>3. up[i - 1] = f[i - 1]
        <5>1. i - 1 \in 1 .. n
          BY <1>0, <3>2
        <5>. QED BY <2>3, <5>1
      <4>4. up[i] = f[i]
        BY <4>1, <4>2, <4>3
      <4>. QED BY <4>4
    <3>. QED BY <3>1, <3>2
  <2>4. 0 .. n \subseteq Same
    <3>. HIDE DEF Same
    <3>1. Same \in SUBSET Nat
      BY DEF Same
    <3>. QED BY <1>0, <2>2, <2>3, <3>1, UpTo
  <2>5. n \in Same
    <3>. HIDE DEF Same
    <3>. QED BY <1>0, <2>4
  <2>. QED BY <2>1, <2>5, <1>0, <1>5
<1>. QED BY <1>4, <1>5

LEMMA FlattenAppend ==
    ASSUME NEW A
    PROVE  /\ FlattenSeq(<<>>) = <<>>
           /\ \A ss \in Seq(Seq(A)) :
                /\ FlattenSeq(ss) \in Seq(A)
                /\ \A s \in Seq(A) : FlattenSeq(Append(ss, s)) = FlattenSeq(ss) \o s
<1>1. FlattenSeq(<<>>) = <<>>
  <2>1. Len(<<>>) = 0
    OBVIOUS
  <2>. QED BY <2>1 DEF FlattenSeq
<1>2. ASSUME NEW ss \in Seq(Seq(A))
      PROVE  /\ FlattenSeq(ss) \in Seq(A)
             /\ \A s \in Seq(A) : FlattenSeq(Append(ss, s)) = FlattenSeq(ss) \o s
  <2>. DEFINE n == Len(ss)
  <2>1. n \in Nat
    OBVIOUS
  <2>2. FlattenSeq(ss) \in Seq(A)
    <3>1. PICK f \in [0 .. n -> Seq(A)] : Flattens(f, ss)
      BY FlattenExists
    <3>2. FlattenSeq(ss) = f[n]
      BY <3>1, FlattenIs
    <3>. QED BY <2>1, <3>2
  <2>3. ASSUME NEW s \in Seq(A) PROVE FlattenSeq(Append(ss, s)) = FlattenSeq(ss) \o s
    <3>. DEFINE tt == Append(ss, s)
    <3>1. /\ tt \in Seq(Seq(A)) /\ Len(tt) = n + 1 /\ tt[n + 1] = s
          /\ \A i \in 1 .. n : tt[i] = ss[i]
      OBVIOUS
    <3>. HIDE DEF tt
    <3>2. PICK f \in [0 .. Len(tt) -> Seq(A)] : Flattens(f, tt)
      BY <3>1, FlattenExists
    <3>3. FlattenSeq(tt) = f[Len(tt)]
      BY <3>1, <3>2, FlattenIs
    <3>4. f[0] = <<>> /\ \A i \in 1 .. n + 1 : f[i] = f[i - 1] \o tt[i]
      BY <3>1, <3>2 DEF Flattens
    <3>. DEFINE g == [i \in 0 .. n |-> f[i]]
    <3>5. g \in [0 .. n -> Seq(A)]
      BY <2>1, <3>1, <3>2
    <3>6. Flattens(g, ss)
      <4>1. g[0] = <<>>
        BY <2>1, <3>4
      <4>2. ASSUME NEW i \in 1 .. n PROVE g[i] = g[i - 1] \o ss[i]
        <5>1. g[i] = f[i] /\ g[i - 1] = f[i - 1] /\ i \in 1 .. n + 1
          BY <2>1
        <5>. QED BY <3>1, <3>4, <5>1
      <4>. QED BY <4>1, <4>2 DEF Flattens
    <3>7. FlattenSeq(ss) = g[n]
      <4>. HIDE DEF g
      <4>. QED BY <3>5, <3>6, FlattenIs
    <3>8. f[n + 1] = f[n] \o s
      <4>1. n + 1 \in 1 .. n + 1 /\ (n + 1) - 1 = n
        BY <2>1
      <4>. QED BY <3>1, <3>4, <4>1
    <3>9. g[n] = f[n]
      BY <2>1
    <3>10. FlattenSeq(tt) = FlattenSeq(ss) \o s
      <4>. HIDE DEF g, n
      <4>. QED BY <3>1, <3>3, <3>7, <3>8, <3>9
    <3>. QED BY <3>10 DEF tt
  <2>. QED BY <2>2, <2>3
<1>. QED BY <1>1, <1>2

LEMMA FlattenConcat ==
    ASSUME NEW A, NEW ss \in Seq(Seq(A))
    PROVE  \A tt \in Seq(Seq(A)) : FlattenSeq(ss \o tt) = FlattenSeq(ss) \o FlattenSeq(tt)
<1>. DEFINE Good == {tt \in Seq(Seq(A)) :
                        FlattenSeq(ss \o tt) = FlattenSeq(ss) \o FlattenSeq(tt)}
<1>1. <<>> \in Good
  <2>1. <<>> \in Seq(Seq(A)) /\ ss \o <<>> = ss
    BY ConcatEmptySeq
  <2>2. FlattenSeq(<<>>) = <<>> /\ FlattenSeq(ss) \in Seq(A)
    BY FlattenAppend
  <2>3. FlattenSeq(ss) \o <<>> = FlattenSeq(ss)
    BY <2>2, ConcatEmptySeq
  <2>. QED BY <2>1, <2>2, <2>3
<1>2. ASSUME NEW tt \in Good, NEW s \in Seq(A) PROVE Append(tt, s) \in Good
  <2>1. /\ ss \o tt \in Seq(Seq(A)) /\ Append(tt, s) \in Seq(Seq(A))
        /\ ss \o Append(tt, s) = Append(ss \o tt, s)
    BY SMTT(20)
  <2>2. /\ FlattenSeq(Append(ss \o tt, s)) = FlattenSeq(ss \o tt) \o s
        /\ FlattenSeq(Append(tt, s)) = FlattenSeq(tt) \o s
        /\ FlattenSeq(ss) \in Seq(A) /\ FlattenSeq(tt) \in Seq(A)
    BY <2>1, FlattenAppend
  <2>3. (FlattenSeq(ss) \o FlattenSeq(tt)) \o s = FlattenSeq(ss) \o (FlattenSeq(tt) \o s)
    <3>. DEFINE a == FlattenSeq(ss)
                b == FlattenSeq(tt)
    <3>1. a \in Seq(A) /\ b \in Seq(A)
      BY <2>2
    <3>. HIDE DEF a, b, Good
    <3>2. (a \o b) \o s = a \o (b \o s)
      BY <3>1, ConcatAssociative
    <3>. QED BY <3>2 DEF a, b
  <2>4. FlattenSeq(ss \o tt) = FlattenSeq(ss) \o FlattenSeq(tt)
    OBVIOUS
  <2>5. FlattenSeq(ss \o Append(tt, s)) = FlattenSeq(ss) \o FlattenSeq(Append(tt, s))
    BY <2>1, <2>2, <2>3, <2>4
  <2>. QED BY <2>1, <2>5
<1>3. Seq(Seq(A)) \subseteq Good
  <2>1. Good \in SUBSET Seq(Seq(A))
    OBVIOUS
  <2>. HIDE DEF Good
  <2>. QED BY <2>1, <1>1, <1>2, Appending
<1>. QED BY <1>3

LEMMA FlattenFirst ==
    ASSUME NEW A, NEW s \in Seq(A), NEW tt \in Seq(Seq(A))
    PROVE  /\ FlattenSeq(<<s>>) = s
           /\ FlattenSeq(<<s>> \o tt) = s \o FlattenSeq(tt)
<1>1. /\ <<>> \in Seq(Seq(A)) /\ <<s>> \in Seq(Seq(A))
      /\ <<s>> = Append(<<>>, s)
  OBVIOUS
<1>2. FlattenSeq(<<s>>) = <<>> \o s
  BY <1>1, FlattenAppend
<1>3. <<>> \o s = s
  BY ConcatEmptySeq
<1>4. FlattenSeq(<<s>> \o tt) = FlattenSeq(<<s>>) \o FlattenSeq(tt)
  BY <1>1, FlattenConcat
<1>. QED BY <1>2, <1>3, <1>4

-----------------------------------------------------------------------------
(* Pick and Without. *)

Parts(s, ns) == [n \in DOMAIN s |-> IF n \in ns THEN <<s[n]>> ELSE <<>>]

LEMMA PickEmpty == \A ns : Pick(<<>>, ns) = <<>>
<1>. TAKE ns
<1>1. Parts(<<>>, ns) = <<>>
  BY DEF Parts
<1>. QED BY <1>1, FlattenAppend DEF Pick, Parts

LEMMA PartsAre ==
    ASSUME NEW A, NEW s \in Seq(A), NEW ns
    PROVE  Parts(s, ns) \in Seq(Seq(A))
<1>1. DOMAIN s = 1 .. Len(s) /\ Len(s) \in Nat
  OBVIOUS
<1>2. ASSUME NEW n \in 1 .. Len(s)
      PROVE  (IF n \in ns THEN <<s[n]>> ELSE <<>>) \in Seq(A)
  <2>1. s[n] \in A
    OBVIOUS
  <2>. QED BY <2>1
<1>3. Parts(s, ns) \in [1 .. Len(s) -> Seq(A)]
  BY <1>1, <1>2 DEF Parts
<1>. QED BY <1>1, <1>3, SeqDef

LEMMA PickType ==
    ASSUME NEW A, NEW s \in Seq(A), NEW ns
    PROVE  Pick(s, ns) \in Seq(A)
<1>1. FlattenSeq(Parts(s, ns)) \in Seq(A)
  BY PartsAre, FlattenAppend
<1>. QED BY <1>1 DEF Pick, Parts

LEMMA PickAppend ==
    ASSUME NEW A, NEW s \in Seq(A), NEW e \in A, NEW ns
    PROVE  Pick(Append(s, e), ns) = IF Len(s) + 1 \in ns THEN Append(Pick(s, ns), e)
                                                        ELSE Pick(s, ns)
<1>. DEFINE p == IF Len(s) + 1 \in ns THEN <<e>> ELSE <<>>
            t == Append(s, e)
            l == Parts(t, ns)
            r == Append(Parts(s, ns), p)
<1>1. /\ p \in Seq(A) /\ t \in Seq(A) /\ Len(t) = Len(s) + 1 /\ Len(s) \in Nat
      /\ t[Len(s) + 1] = e /\ \A i \in 1 .. Len(s) : t[i] = s[i]
      /\ DOMAIN s = 1 .. Len(s) /\ DOMAIN t = 1 .. Len(s) + 1
  OBVIOUS
<1>. HIDE DEF t
<1>2. l \in Seq(Seq(A)) /\ Parts(s, ns) \in Seq(Seq(A))
  BY <1>1, PartsAre
<1>3. Len(l) = Len(s) + 1 /\ Len(Parts(s, ns)) = Len(s)
  BY <1>1, <1>2 DEF Parts
<1>4. r \in Seq(Seq(A)) /\ Len(r) = Len(s) + 1
  BY <1>1, <1>2, <1>3, AppendProperties
<1>5. ASSUME NEW i \in 1 .. Len(s) + 1 PROVE l[i] = r[i]
  <2>1. CASE i = Len(s) + 1
    BY <1>1, <1>2, <1>3, <2>1 DEF Parts
  <2>2. CASE i \in 1 .. Len(s)
    BY <1>1, <1>2, <1>3, <2>2 DEF Parts
  <2>3. i = Len(s) + 1 \/ i \in 1 .. Len(s)
    BY <1>1
  <2>. QED BY <2>1, <2>2, <2>3
<1>6. l = r
  <2>. HIDE DEF l, r
  <2>. QED BY <1>2, <1>3, <1>4, <1>5, SeqEqual
<1>7. FlattenSeq(r) = FlattenSeq(Parts(s, ns)) \o p
  <2>. HIDE DEF p
  <2>. QED BY <1>1, <1>2, FlattenAppend
<1>8. FlattenSeq(l) = Pick(t, ns) /\ FlattenSeq(Parts(s, ns)) = Pick(s, ns)
  BY DEF Pick, Parts
<1>9. Pick(t, ns) = Pick(s, ns) \o p /\ Pick(s, ns) \in Seq(A)
  BY <1>6, <1>7, <1>8, PickType
<1>. HIDE DEF l, r
<1>. QED BY <1>9, ConcatEmptySeq, AppendIsConcat DEF t

LEMMA PickSame ==
    ASSUME NEW s, NEW ns, NEW ms, ns \cap DOMAIN s = ms \cap DOMAIN s
    PROVE  Pick(s, ns) = Pick(s, ms)
<1>1. \A n \in DOMAIN s : n \in ns <=> n \in ms
  OBVIOUS
<1>2. [n \in DOMAIN s |-> IF n \in ns THEN <<s[n]>> ELSE <<>>]
        = [n \in DOMAIN s |-> IF n \in ms THEN <<s[n]>> ELSE <<>>]
  BY <1>1
<1>. QED BY <1>2 DEF Pick

LEMMA WithoutEmpty == \A K : Without(<<>>, K) = <<>>
BY PickEmpty DEF Without

LEMMA WithoutType ==
    ASSUME NEW A, NEW s \in Seq(A), NEW K
    PROVE  Without(s, K) \in Seq(A)
BY PickType DEF Without

LEMMA WithoutAppend ==
    ASSUME NEW A, NEW s \in Seq(A), NEW e \in A, NEW K
    PROVE  Without(Append(s, e), K) = IF e \in K THEN Without(s, K)
                                                 ELSE Append(Without(s, K), e)
<1>. DEFINE t == Append(s, e)
            ns == {n \in DOMAIN t : t[n] \notin K}
            ms == {n \in DOMAIN s : s[n] \notin K}
<1>1. /\ ns \cap DOMAIN s = ms \cap DOMAIN s
      /\ Len(s) + 1 \in ns <=> e \notin K
  OBVIOUS
<1>2. Without(t, K) = Pick(t, ns) /\ Without(s, K) = Pick(s, ms)
  BY DEF Without
<1>. HIDE DEF ns, ms
<1>3. Pick(s, ns) = Pick(s, ms)
  BY <1>1, PickSame
<1>4. Pick(t, ns) = IF Len(s) + 1 \in ns THEN Append(Pick(s, ns), e) ELSE Pick(s, ns)
  BY PickAppend
<1>. QED BY <1>1, <1>2, <1>3, <1>4

LEMMA AppendIs ==
    ASSUME NEW A, NEW s \in Seq(A), NEW e \in A
    PROVE  /\ Append(s, e) \in Seq(A) /\ Len(Append(s, e)) = Len(s) + 1
           /\ Append(s, e)[Len(s) + 1] = e
           /\ \A i \in 1 .. Len(s) : Append(s, e)[i] = s[i]
BY AppendProperties

AppendsTo(a, b, e) == Append(a \o b, e) = a \o Append(b, e)
LEMMA AppendToConcat ==
    ASSUME NEW A, NEW a \in Seq(A), NEW b \in Seq(A), NEW e \in A
    PROVE  AppendsTo(a, b, e)
<1>. DEFINE l == Append(a \o b, e)
            r == a \o Append(b, e)
<1>. HIDE DEF l, r
<1>1. /\ a \o b \in Seq(A) /\ Len(a \o b) = Len(a) + Len(b)
      /\ \A i \in 1 .. Len(a) + Len(b) :
           (a \o b)[i] = IF i <= Len(a) THEN a[i] ELSE b[i - Len(a)]
  BY ConcatProperties
<1>2. /\ Append(b, e) \in Seq(A) /\ Len(Append(b, e)) = Len(b) + 1
      /\ Append(b, e)[Len(b) + 1] = e
      /\ \A i \in 1 .. Len(b) : Append(b, e)[i] = b[i]
  BY AppendProperties
<1>3. Len(a) \in Nat /\ Len(b) \in Nat
  OBVIOUS
<1>4. /\ l \in Seq(A) /\ Len(l) = Len(a) + Len(b) + 1 /\ l[Len(a) + Len(b) + 1] = e
      /\ \A i \in 1 .. Len(a) + Len(b) : l[i] = (a \o b)[i]
  <2>. DEFINE u == a \o b
  <2>. HIDE DEF u
  <2>1. u \in Seq(A) /\ Len(u) = Len(a) + Len(b)
    BY <1>1 DEF u
  <2>2. /\ Append(u, e) \in Seq(A) /\ Len(Append(u, e)) = Len(a) + Len(b) + 1
        /\ Append(u, e)[Len(a) + Len(b) + 1] = e
        /\ \A i \in 1 .. Len(a) + Len(b) : Append(u, e)[i] = u[i]
    <3>1. /\ Append(u, e) \in Seq(A) /\ Len(Append(u, e)) = Len(u) + 1
          /\ Append(u, e)[Len(u) + 1] = e
          /\ \A i \in 1 .. Len(u) : Append(u, e)[i] = u[i]
      BY <2>1, AppendIs
    <3>. DEFINE w == Append(u, e)
                n == Len(a) + Len(b)
    <3>2. Len(u) = n /\ n \in Nat
      BY <1>3, <2>1
    <3>. HIDE DEF w, n
    <3>3. /\ w \in Seq(A) /\ Len(w) = n + 1 /\ w[n + 1] = e
          /\ \A i \in 1 .. n : w[i] = u[i]
      BY <3>1, <3>2 DEF w
    <3>. QED BY <3>3 DEF w, n
  <2>. QED BY <2>2 DEF u, l
<1>5. /\ r \in Seq(A) /\ Len(r) = Len(a) + Len(b) + 1
      /\ \A i \in 1 .. Len(a) + Len(b) + 1 :
           r[i] = IF i <= Len(a) THEN a[i] ELSE Append(b, e)[i - Len(a)]
  <2>. DEFINE v == Append(b, e)
  <2>. HIDE DEF v
  <2>1. v \in Seq(A) /\ Len(a) + Len(v) = Len(a) + Len(b) + 1
    BY <1>2, <1>3 DEF v
  <2>2. /\ a \o v \in Seq(A) /\ Len(a \o v) = Len(a) + Len(v)
        /\ \A i \in 1 .. Len(a) + Len(v) :
             (a \o v)[i] = IF i <= Len(a) THEN a[i] ELSE v[i - Len(a)]
    BY <2>1, ConcatProperties
  <2>. QED BY <2>1, <2>2 DEF v, r
<1>6. ASSUME NEW i \in 1 .. Len(l) PROVE l[i] = r[i]
  <2>1. i \in Nat /\ i >= 1 /\ i <= Len(a) + Len(b) + 1
    BY <1>3, <1>4
  <2>2. CASE i <= Len(a)
    <3>1. i \in 1 .. Len(a) + Len(b) /\ i \in 1 .. Len(a) + Len(b) + 1
      BY ONLY <1>3, <2>1, <2>2
    <3>. QED BY ONLY <1>1, <1>4, <1>5, <2>2, <3>1
  <2>3. CASE i > Len(a) /\ i <= Len(a) + Len(b)
    <3>1. /\ i \in 1 .. Len(a) + Len(b) /\ i \in 1 .. Len(a) + Len(b) + 1
          /\ i - Len(a) \in 1 .. Len(b) /\ ~(i <= Len(a))
      BY ONLY <1>3, <2>1, <2>3
    <3>. QED BY ONLY <1>1, <1>2, <1>4, <1>5, <3>1
  <2>4. CASE i = Len(a) + Len(b) + 1
    <3>1. /\ i \in 1 .. Len(a) + Len(b) + 1 /\ i - Len(a) = Len(b) + 1 /\ ~(i <= Len(a))
      BY ONLY <1>3, <2>1, <2>4
    <3>. QED BY ONLY <1>2, <1>4, <1>5, <2>4, <3>1
  <2>. QED BY <1>3, <2>1, <2>2, <2>3, <2>4
<1>7. l = r
  BY <1>4, <1>5, <1>6, SeqEqual
<1>. QED BY <1>7 DEF AppendsTo, l, r

LEMMA WithoutConcat ==
    ASSUME NEW A, NEW K, NEW s \in Seq(A)
    PROVE  \A t \in Seq(A) : Without(s \o t, K) = Without(s, K) \o Without(t, K)
<1>. DEFINE Good == {t \in Seq(A) : Without(s \o t, K) = Without(s, K) \o Without(t, K)}
<1>1. <<>> \in Good
  <2>1. <<>> \in Seq(A) /\ s \o <<>> = s
    BY ConcatEmptySeq
  <2>2. Without(<<>>, K) = <<>> /\ Without(s, K) \in Seq(A)
    BY WithoutEmpty, WithoutType
  <2>3. Without(s, K) \o <<>> = Without(s, K)
    BY <2>2, ConcatEmptySeq
  <2>. QED BY <2>1, <2>2, <2>3
<1>2. ASSUME NEW t \in Good, NEW e \in A PROVE Append(t, e) \in Good
  <2>1. /\ t \in Seq(A) /\ s \o t \in Seq(A) /\ Append(t, e) \in Seq(A)
        /\ s \o Append(t, e) = Append(s \o t, e)
        /\ Without(s \o t, K) = Without(s, K) \o Without(t, K)
    OBVIOUS
  <2>2. /\ Without(Append(s \o t, e), K) = IF e \in K THEN Without(s \o t, K)
                                             ELSE Append(Without(s \o t, K), e)
        /\ Without(Append(t, e), K) = IF e \in K THEN Without(t, K)
                                             ELSE Append(Without(t, K), e)
        /\ Without(s, K) \in Seq(A) /\ Without(t, K) \in Seq(A)
    <3>. HIDE DEF Good
    <3>1. Without(Append(s \o t, e), K) = IF e \in K THEN Without(s \o t, K)
                                             ELSE Append(Without(s \o t, K), e)
      <4>. DEFINE u == s \o t
      <4>1. u \in Seq(A)
        BY <2>1
      <4>. HIDE DEF u
      <4>2. Without(Append(u, e), K) = IF e \in K THEN Without(u, K)
                                                 ELSE Append(Without(u, K), e)
        BY <4>1, WithoutAppend
      <4>. QED BY <4>2 DEF u
    <3>2. Without(Append(t, e), K) = IF e \in K THEN Without(t, K)
                                               ELSE Append(Without(t, K), e)
      BY <2>1, WithoutAppend
    <3>. QED BY <2>1, <3>1, <3>2, WithoutType
  <2>3. Without(s \o Append(t, e), K) = Without(s, K) \o Without(Append(t, e), K)
    <3>. DEFINE a == Without(s, K)
                b == Without(t, K)
    <3>1. a \in Seq(A) /\ b \in Seq(A)
      BY <2>2
    <3>. HIDE DEF a, b, Good
    <3>2. Append(a \o b, e) = a \o Append(b, e)
      <4>1. AppendsTo(a, b, e)
        BY <3>1, AppendToConcat
      <4>. QED BY ONLY <4>1 DEF AppendsTo
    <3>3. CASE e \in K
      BY <2>1, <2>2, <3>3
    <3>4. CASE e \notin K
      BY <2>1, <2>2, <3>2, <3>4 DEF a, b
    <3>. QED BY <3>3, <3>4
  <2>. QED BY <2>1, <2>3
<1>3. Seq(A) \subseteq Good
  <2>1. Good \in SUBSET Seq(A)
    OBVIOUS
  <2>. HIDE DEF Good
  <2>. QED BY <2>1, <1>1, <1>2, Appending
<1>. QED BY <1>3

WithoutSplits(s, t, K) == Without(s \o t, K) = Without(s, K) \o Without(t, K)
LEMMA WithoutConcatIs ==
    ASSUME NEW A, NEW K, NEW s \in Seq(A), NEW t \in Seq(A)
    PROVE  WithoutSplits(s, t, K)
BY WithoutConcat DEF WithoutSplits

\* What is left is of s and not of K, and nothing is if all of s is of K.
LEMMA WithoutIs ==
    ASSUME NEW A, NEW K
    PROVE  \A s \in Seq(A) :
             /\ Len(Without(s, K)) <= Len(s)
             /\ \A n \in 1 .. Len(Without(s, K)) :
                  /\ Without(s, K)[n] \notin K
                  /\ \E m \in 1 .. Len(s) : s[m] = Without(s, K)[n]
             /\ Without(s, K) = <<>> <=> \A n \in 1 .. Len(s) : s[n] \in K
<1>. DEFINE Good ==
       {s \in Seq(A) :
          /\ Len(Without(s, K)) <= Len(s)
          /\ \A n \in 1 .. Len(Without(s, K)) :
               /\ Without(s, K)[n] \notin K
               /\ \E m \in 1 .. Len(s) : s[m] = Without(s, K)[n]
          /\ Without(s, K) = <<>> <=> \A n \in 1 .. Len(s) : s[n] \in K}
<1>1. <<>> \in Good
  BY WithoutEmpty
<1>2. ASSUME NEW s \in Good, NEW e \in A PROVE Append(s, e) \in Good
  <2>. DEFINE t == Append(s, e)
              v == Without(s, K)
              w == Without(t, K)
  <2>1. /\ s \in Seq(A) /\ v \in Seq(A) /\ w \in Seq(A)
        /\ w = IF e \in K THEN v ELSE Append(v, e)
    <3>1. s \in Seq(A) /\ t \in Seq(A)
      OBVIOUS
    <3>. HIDE DEF Good
    <3>2. v \in Seq(A) /\ w \in Seq(A)
      BY <3>1, WithoutType
    <3>. QED BY <3>1, <3>2, WithoutAppend
  <2>2. /\ t \in Seq(A) /\ Len(t) = Len(s) + 1 /\ t[Len(t)] = e
        /\ \A n \in 1 .. Len(s) : t[n] = s[n]
        /\ Len(s) \in Nat
    OBVIOUS
  <2>3. /\ Len(v) <= Len(s)
        /\ \A n \in 1 .. Len(v) : v[n] \notin K /\ \E m \in 1 .. Len(s) : s[m] = v[n]
        /\ v = <<>> <=> \A n \in 1 .. Len(s) : s[n] \in K
    OBVIOUS
  <2>. HIDE DEF t, v, w
  <2>4. CASE e \in K
    <3>1. w = v
      BY <2>1, <2>4
    <3>2. \A n \in 1 .. Len(v) : v[n] \notin K /\ \E m \in 1 .. Len(t) : t[m] = v[n]
      BY <2>2, <2>3
    <3>3. (\A n \in 1 .. Len(t) : t[n] \in K) <=> \A n \in 1 .. Len(s) : s[n] \in K
      BY <2>2, <2>4
    <3>4. Len(v) <= Len(t)
      BY <2>1, <2>2, <2>3
    <3>5. /\ Len(w) <= Len(t)
          /\ \A n \in 1 .. Len(w) : w[n] \notin K /\ \E m \in 1 .. Len(t) : t[m] = w[n]
          /\ w = <<>> <=> \A n \in 1 .. Len(t) : t[n] \in K
      BY <2>3, <3>1, <3>2, <3>3, <3>4
    <3>. QED BY <2>2, <3>5 DEF w, t
  <2>5. CASE e \notin K
    <3>1. /\ Len(w) = Len(v) + 1 /\ w[Len(w)] = e /\ w # <<>> /\ Len(v) \in Nat
          /\ \A n \in 1 .. Len(v) : w[n] = v[n]
      BY <2>1, <2>5
    <3>2. \A n \in 1 .. Len(v) : v[n] \notin K /\ \E m \in 1 .. Len(t) : t[m] = v[n]
      BY <2>2, <2>3
    <3>3. \A n \in 1 .. Len(w) : w[n] \notin K /\ \E m \in 1 .. Len(t) : t[m] = w[n]
      BY <2>2, <2>5, <3>1, <3>2
    <3>4. ~\A n \in 1 .. Len(t) : t[n] \in K
      BY <2>2, <2>5
    <3>5. Len(w) <= Len(t)
      BY <2>2, <2>3, <3>1
    <3>. QED BY <2>2, <3>1, <3>3, <3>4, <3>5 DEF w, t
  <2>. QED BY <2>4, <2>5
<1>3. Seq(A) \subseteq Good
  <2>1. Good \in SUBSET Seq(A)
    OBVIOUS
  <2>. HIDE DEF Good
  <2>. QED BY <2>1, <1>1, <1>2, Appending
<1>. QED
  <2>. SUFFICES ASSUME NEW s \in Seq(A)
                PROVE  /\ Len(Without(s, K)) <= Len(s)
                       /\ \A n \in 1 .. Len(Without(s, K)) :
                            /\ Without(s, K)[n] \notin K
                            /\ \E m \in 1 .. Len(s) : s[m] = Without(s, K)[n]
                       /\ Without(s, K) = <<>> <=> \A n \in 1 .. Len(s) : s[n] \in K
    OBVIOUS
  <2>. QED BY <1>3

\* What is not of K is left.
LEMMA InkStays ==
    ASSUME NEW A, NEW K, NEW s \in Seq(A), NEW n \in 1 .. Len(s)
    PROVE  s[n] \in K \/ \E m \in 1 .. Len(Without(s, K)) : Without(s, K)[m] = s[n]
<1>. DEFINE Stays(t) == \A k \in 1 .. Len(t) :
               t[k] \in K \/ \E m \in 1 .. Len(Without(t, K)) : Without(t, K)[m] = t[k]
            Good == {t \in Seq(A) : Stays(t)}
<1>1. <<>> \in Good
  OBVIOUS
<1>2. ASSUME NEW t \in Good, NEW e \in A PROVE Append(t, e) \in Good
  <2>. DEFINE u == Append(t, e)
              v == Without(t, K)
              w == Without(u, K)
  <2>1. t \in Seq(A) /\ u \in Seq(A) /\ Stays(t)
    OBVIOUS
  <2>2. /\ Len(u) = Len(t) + 1 /\ u[Len(t) + 1] = e /\ Len(t) \in Nat
        /\ \A k \in 1 .. Len(t) : u[k] = t[k]
    OBVIOUS
  <2>3. v \in Seq(A) /\ w = IF e \in K THEN v ELSE Append(v, e)
    <3>. HIDE DEF Good
    <3>. QED BY <2>1, WithoutType, WithoutAppend
  <2>4. \A k \in 1 .. Len(t) : t[k] \in K \/ \E m \in 1 .. Len(v) : v[m] = t[k]
    BY <2>1
  <2>. HIDE DEF u, v, w, Good, Stays
  <2>5. /\ \A m \in 1 .. Len(v) : m \in 1 .. Len(w) /\ w[m] = v[m]
        /\ e \notin K => Len(w) \in 1 .. Len(w) /\ w[Len(w)] = e
    <3>1. CASE e \in K
      BY <2>3, <3>1
    <3>2. CASE e \notin K
      <4>1. /\ Len(w) = Len(v) + 1 /\ w[Len(v) + 1] = e /\ Len(v) \in Nat
            /\ \A m \in 1 .. Len(v) : w[m] = v[m]
        BY <2>3, <3>2
      <4>. QED BY <4>1
    <3>. QED BY <3>1, <3>2
  <2>6. ASSUME NEW k \in 1 .. Len(u)
        PROVE  u[k] \in K \/ \E m \in 1 .. Len(w) : w[m] = u[k]
    <3>1. CASE k = Len(t) + 1
      BY <2>2, <2>5, <3>1
    <3>2. CASE k # Len(t) + 1
      <4>1. k \in 1 .. Len(t) /\ u[k] = t[k]
        BY <2>2, <3>2
      <4>. QED BY <2>4, <2>5, <4>1
    <3>. QED BY <3>1, <3>2
  <2>7. Stays(u)
    BY <2>6 DEF Stays, w
  <2>. QED BY <2>1, <2>7 DEF Good, u
<1>3. Seq(A) \subseteq Good
  <2>1. Good \in SUBSET Seq(A)
    OBVIOUS
  <2>. HIDE DEF Good
  <2>. QED BY <2>1, <1>1, <1>2, Appending
<1>4. Stays(s)
  <2>. HIDE DEF Stays
  <2>. QED BY <1>3
<1>. QED BY <1>4

-----------------------------------------------------------------------------
(* Loops that go on from a later position. *)

LEMMA MinIs ==
    ASSUME NEW T \in SUBSET Nat, T # {}
    PROVE  Min(T) \in T /\ \A y \in T : Min(T) <= y
<1>1. \E x \in T : \A y \in T : x <= y
  BY LeastElement
<1>. QED BY <1>1 DEF Min

LEMMA MaxIs ==
    ASSUME NEW n \in Nat, NEW T \in SUBSET (0 .. n), T # {}
    PROVE  Max(T) \in T /\ \A y \in T : y <= Max(T)
<1>. DEFINE U == {n - x : x \in T}
<1>1. U \in SUBSET Nat /\ U # {}
  <2>1. ASSUME NEW x \in T PROVE n - x \in Nat
    BY <2>1
  <2>2. PICK x \in T : TRUE
    OBVIOUS
  <2>3. n - x \in U
    OBVIOUS
  <2>. QED BY <2>1, <2>3
<1>2. PICK u \in U : \A v \in U : u <= v
  <2>. HIDE DEF U
  <2>. QED BY <1>1, LeastElement
<1>3. PICK x \in T : u = n - x
  OBVIOUS
<1>4. \A y \in T : x >= y
  <2>. TAKE y \in T
  <2>1. n - y \in U
    OBVIOUS
  <2>2. n - x <= n - y
    BY <1>2, <1>3, <2>1
  <2>. QED BY <2>2
<1>5. Max(T) \in T /\ \A y \in T : Max(T) >= y
  BY <1>4 DEF Max
<1>6. \A x1, y1 \in Int : x1 >= y1 <=> y1 <= x1
  OBVIOUS
<1>. QED BY <1>5, <1>6

LEMMA Downwards ==
    ASSUME NEW n \in Nat, NEW Good, n + 1 \in Good,
           \A i \in 1 .. n : (\A j \in i + 1 .. n + 1 : j \in Good) => i \in Good
    PROVE  1 .. n + 1 \subseteq Good
<1>. DEFINE All == {k \in Nat : \A j \in 1 .. n + 1 : n + 1 - k <= j => j \in Good}
<1>1. 0 \in All
  OBVIOUS
<1>2. ASSUME NEW k \in 1 .. n, k - 1 \in All PROVE k \in All
  <2>. SUFFICES ASSUME NEW j \in 1 .. n + 1, n + 1 - k <= j PROVE j \in Good
    OBVIOUS
  <2>1. \A m \in j + 1 .. n + 1 : m \in Good
    BY <1>2
  <2>. QED BY <2>1
<1>3. n \in All
  <2>1. All \in SUBSET Nat /\ n \in 0 .. n
    OBVIOUS
  <2>. HIDE DEF All
  <2>. QED BY <1>1, <1>2, <2>1, UpTo
<1>. QED BY <1>3

\* f[i] is what position i adds, and all from the next position on.
Jumps(f, n, head, next) ==
    f[n + 1] = <<>> /\ \A i \in 1 .. n : f[i] = head[i] \o f[next[i]]

LEMMA JumpsExist ==
    ASSUME NEW A, NEW n \in Nat, NEW head \in [1 .. n -> Seq(A)], NEW next \in [1 .. n -> Int],
           \A i \in 1 .. n : i < next[i] /\ next[i] <= n + 1
    PROVE  \E f \in [1 .. n + 1 -> Seq(A)] : Jumps(f, n, head, next)
<1>. DEFINE From(f, m) == /\ f \in [m .. n + 1 -> Seq(A)]
                          /\ f[n + 1] = <<>>
                          /\ \A i \in m .. n : f[i] = head[i] \o f[next[i]]
            Good == {k \in Nat : k <= n => \E f : From(f, n + 1 - k)}
<1>1. 0 \in Good
  <2>. DEFINE f == [i \in n + 1 .. n + 1 |-> <<>>]
  <2>1. From(f, n + 1)
    <3>1. n + 1 .. n + 1 = {n + 1} /\ n + 1 .. n = {}
      OBVIOUS
    <3>2. <<>> \in Seq(A)
      OBVIOUS
    <3>. QED BY <3>1, <3>2
  <2>2. n + 1 - 0 = n + 1
    OBVIOUS
  <2>. HIDE DEF From, f
  <2>. QED BY <2>1, <2>2
<1>2. ASSUME NEW k \in 1 .. n, k - 1 \in Good PROVE k \in Good
  <2>. DEFINE m == n + 1 - k
  <2>1. m \in 1 .. n /\ n + 1 - (k - 1) = m + 1 /\ k - 1 <= n
    OBVIOUS
  <2>2. PICK f : From(f, m + 1)
    <3>. HIDE DEF From
    <3>. QED BY <1>2, <2>1
  <2>. DEFINE g == [i \in m .. n + 1 |-> IF i = m THEN head[m] \o f[next[m]] ELSE f[i]]
  <2>3. head[m] \in Seq(A) /\ next[m] \in m + 1 .. n + 1
    BY <2>1
  <2>4. f[next[m]] \in Seq(A)
    BY <2>2, <2>3
  <2>5. head[m] \o f[next[m]] \in Seq(A)
    BY <2>3, <2>4
  <2>. HIDE DEF m
  <2>6. g \in [m .. n + 1 -> Seq(A)]
    BY <2>1, <2>2, <2>5
  <2>7. g[n + 1] = <<>>
    BY <2>1, <2>2
  <2>8. ASSUME NEW i \in m .. n PROVE g[i] = head[i] \o g[next[i]]
    <3>1. next[i] \in m + 1 .. n + 1 /\ i \in 1 .. n
      BY <2>1
    <3>2. g[next[i]] = f[next[i]]
      BY <2>1, <3>1
    <3>3. CASE i = m
      BY <2>1, <3>2, <3>3
    <3>4. CASE i # m
      <4>1. i \in m + 1 .. n
        BY <2>1, <3>4
      <4>2. f[i] = head[i] \o f[next[i]] /\ g[i] = f[i]
        <5>1. \A j \in m + 1 .. n : f[j] = head[j] \o f[next[j]]
          BY <2>2
        <5>2. i \in m .. n + 1 /\ i # m
          BY <2>1, <3>4
        <5>3. g[i] = f[i]
          BY <5>2
        <5>. QED BY <4>1, <5>1, <5>3
      <4>. QED BY <3>2, <4>2
    <3>. QED BY <3>3, <3>4
  <2>9. From(g, m)
    <3>. HIDE DEF g
    <3>. QED BY <2>6, <2>7, <2>8
  <2>. HIDE DEF From, g
  <2>. QED BY <2>9 DEF m
<1>3. n \in Good
  <2>. HIDE DEF From
  <2>1. Good \in SUBSET Nat /\ n \in 0 .. n
    OBVIOUS
  <2>. HIDE DEF Good
  <2>. QED BY <1>1, <1>2, <2>1, UpTo
<1>4. PICK f : From(f, 1)
  <2>1. n + 1 - n = 1
    OBVIOUS
  <2>. HIDE DEF From
  <2>. QED BY <1>3, <2>1
<1>. QED BY <1>4 DEF Jumps

-----------------------------------------------------------------------------
(* Strip, and where the chunks of a text begin and end. *)

LEMMA PieceIs ==
    ASSUME NEW A, NEW t \in Seq(A), NEW i \in Nat \ {0}, NEW j \in Nat, j <= Len(t)
    PROVE  /\ SubSeq(t, i, j) \in Seq(A)
           /\ Len(SubSeq(t, i, j)) = IF i <= j THEN j - i + 1 ELSE 0
           /\ i <= j => SubSeq(t, i, j)[1] = t[i] /\ SubSeq(t, i, j)[j - i + 1] = t[j]
<1>1. \A k \in i .. j : t[k] \in A
  BY ElementOfSeq
<1>2. /\ SubSeq(t, i, j) \in Seq(A)
      /\ Len(SubSeq(t, i, j)) = IF i <= j THEN j - i + 1 ELSE 0
      /\ \A k \in 1 .. j - i + 1 : SubSeq(t, i, j)[k] = t[i + k - 1]
  BY <1>1, SubSeqProperties
<1>3. i <= j => /\ 1 \in 1 .. j - i + 1 /\ i + 1 - 1 = i
                /\ j - i + 1 \in 1 .. j - i + 1 /\ i + (j - i + 1) - 1 = j
  OBVIOUS
<1>. QED BY <1>2, <1>3

\* Strip leaves a stretch without blanks at its ends, and nothing but blanks out.
LEMMA StripIs ==
    ASSUME NEW A, NEW t \in Seq(A)
    PROVE  /\ Strip(t) \in Seq(A)
           /\ Strip(t) # <<>> => /\ Strip(t)[1] \notin Blanks
                                 /\ Strip(t)[Len(Strip(t))] \notin Blanks
           /\ \A n \in 1 .. Len(t) :
                t[n] \in Blanks \/ \E m \in 1 .. Len(Strip(t)) : Strip(t)[m] = t[n]
<1>. DEFINE ink == {n \in DOMAIN t : t[n] \notin Blanks}
<1>1. DOMAIN t = 1 .. Len(t) /\ Len(t) \in Nat
  OBVIOUS
<1>2. CASE ink = {}
  <2>1. Strip(t) = <<>>
    BY <1>2 DEF Strip
  <2>. QED BY <1>1, <1>2, <2>1
<1>3. CASE ink # {}
  <2>1. ink \in SUBSET (0 .. Len(t)) /\ ink \in SUBSET Nat
    BY <1>1
  <2>2. /\ Min(ink) \in ink /\ Max(ink) \in ink
        /\ \A y \in ink : Min(ink) <= y /\ y <= Max(ink)
    <3>. HIDE DEF ink
    <3>1. Min(ink) \in ink /\ \A y \in ink : Min(ink) <= y
      BY <1>3, <2>1, MinIs
    <3>2. Max(ink) \in ink /\ \A y \in ink : y <= Max(ink)
      BY <1>1, <1>3, <2>1, MaxIs
    <3>. QED BY <3>1, <3>2
  <2>3. Strip(t) = SubSeq(t, Min(ink), Max(ink))
    BY <1>3 DEF Strip
  <2>. DEFINE m == Min(ink)
              k == Max(ink)
              p == SubSeq(t, m, k)
  <2>4. /\ m \in Nat \ {0} /\ k \in Nat /\ m <= k /\ k <= Len(t)
        /\ t[m] \notin Blanks /\ t[k] \notin Blanks
    BY <1>1, <2>2
  <2>5. ASSUME NEW n \in 1 .. Len(t) PROVE t[n] \in Blanks \/ (m <= n /\ n <= k)
    BY <1>1, <2>2
  <2>6. Strip(t) = p
    BY <2>3
  <2>. HIDE DEF m, k, ink
  <2>7. /\ p \in Seq(A) /\ Len(p) = k - m + 1
        /\ p[1] = t[m] /\ p[k - m + 1] = t[k]
        /\ \A n \in 1 .. k - m + 1 : p[n] = t[m + n - 1]
    <3>1. \A n \in m .. k : t[n] \in A
      BY <2>4, ElementOfSeq
    <3>2. \A n \in 1 .. k - m + 1 : p[n] = t[m + n - 1]
      BY <2>4, <3>1, SubSeqProperties
    <3>3. /\ p \in Seq(A) /\ Len(p) = k - m + 1
          /\ p[1] = t[m] /\ p[k - m + 1] = t[k]
      BY <2>4, PieceIs
    <3>. QED BY <3>2, <3>3
  <2>. HIDE DEF p
  <2>8. ASSUME NEW n \in 1 .. Len(t) PROVE t[n] \in Blanks \/ \E x \in 1 .. Len(p) : p[x] = t[n]
    <3>1. CASE m <= n /\ n <= k
      <4>1. n - m + 1 \in 1 .. k - m + 1 /\ m + (n - m + 1) - 1 = n
        BY <2>4, <3>1
      <4>2. p[n - m + 1] = t[n]
        BY <2>7, <4>1
      <4>. QED BY <2>7, <4>1, <4>2
    <3>. QED BY <2>5, <3>1
  <2>. QED BY <2>4, <2>6, <2>7, <2>8
<1>. QED BY <1>2, <1>3

LEMMA ChunkEndIs ==
    ASSUME NEW A, NEW t \in Seq(A), NEW i \in 1 .. Len(t), ~(Len(t) - i < MaxText)
    PROVE  /\ ChunkEnd(t, i) \in i .. i + MaxText - 1
           /\ ChunkEnd(t, i) \in 1 .. Len(t) - 1
           /\ ChunkEnd(t, i) = i + MaxText - 1 \/ t[ChunkEnd(t, i) + 1] = "nl"
<1>. DEFINE breaks == {n \in i + 1 .. i + MaxText - 1 : t[n] = "nl"}
<1>1. MaxText \in Nat \ {0, 1} /\ Len(t) \in Nat
  BY LimitsAssumption
<1>2. CASE breaks = {}
  <2>1. ChunkEnd(t, i) = i + MaxText - 1
    BY <1>2 DEF ChunkEnd
  <2>. QED BY <1>1, <2>1
<1>3. CASE breaks # {}
  <2>1. breaks \in SUBSET (0 .. i + MaxText - 1) /\ i + MaxText - 1 \in Nat
    BY <1>1
  <2>2. Max(breaks) \in breaks
    <3>. HIDE DEF breaks
    <3>. QED BY <1>3, <2>1, MaxIs
  <2>3. ChunkEnd(t, i) = Max(breaks) - 1
    BY <1>3 DEF ChunkEnd
  <2>4. Max(breaks) \in i + 1 .. i + MaxText - 1 /\ t[Max(breaks)] = "nl"
    BY <2>2
  <2>. HIDE DEF breaks
  <2>5. ChunkEnd(t, i) + 1 = Max(breaks)
    BY <1>1, <2>3, <2>4
  <2>. QED BY <1>1, <2>3, <2>4, <2>5
<1>. QED BY <1>2, <1>3

LEMMA RestFromIs ==
    ASSUME NEW A, NEW t \in Seq(A), NEW end \in 0 .. Len(t)
    PROVE  /\ RestFrom(t, end) \in end + 1 .. Len(t) + 1
           /\ RestFrom(t, end) <= Len(t) => t[RestFrom(t, end)] # "nl"
           /\ \A k \in end + 1 .. RestFrom(t, end) - 1 : t[k] = "nl"
<1>. DEFINE ink == {n \in end + 1 .. Len(t) : t[n] # "nl"}
<1>1. Len(t) \in Nat
  OBVIOUS
<1>2. CASE ink = {}
  <2>1. RestFrom(t, end) = Len(t) + 1
    BY <1>2 DEF RestFrom
  <2>. QED BY <1>1, <1>2, <2>1
<1>3. CASE ink # {}
  <2>1. ink \in SUBSET Nat
    BY <1>1
  <2>2. Min(ink) \in ink /\ \A y \in ink : Min(ink) <= y
    <3>. HIDE DEF ink
    <3>. QED BY <1>3, <2>1, MinIs
  <2>3. RestFrom(t, end) = Min(ink)
    BY <1>3 DEF RestFrom
  <2>. DEFINE r == Min(ink)
  <2>4. r \in end + 1 .. Len(t) /\ t[r] # "nl"
    BY <2>2
  <2>5. ASSUME NEW k \in end + 1 .. r - 1 PROVE t[k] = "nl"
    <3>1. k \in end + 1 .. Len(t) /\ ~(r <= k)
      <4>. HIDE DEF r
      <4>. QED BY <1>1, <2>4
    <3>2. k \notin ink
      BY <2>2, <3>1
    <3>. QED BY <3>1, <3>2
  <2>6. RestFrom(t, end) = r
    BY <2>3
  <2>. HIDE DEF r, ink
  <2>. QED BY <1>1, <2>4, <2>5, <2>6
<1>. QED BY <1>2, <1>3

-----------------------------------------------------------------------------
(* split_text: every chunk is short enough and begins with ink, and nothing but *)
(* line breaks is lost between them.                                            *)

SplitHead(t, i) == IF Len(t) - i < MaxText THEN <<SubSeq(t, i, Len(t))>>
                                           ELSE <<SubSeq(t, i, ChunkEnd(t, i))>>
SplitNext(t, i) == IF Len(t) - i < MaxText THEN Len(t) + 1 ELSE RestFrom(t, ChunkEnd(t, i))
SplitRec(t, g) ==
    [i \in 1 .. Len(t) + 1 |->
       CASE i > Len(t) -> <<>>
         [] i \in Len(t) - MaxText + 1 .. Len(t) -> <<SubSeq(t, i, Len(t))>>
         [] OTHER -> <<SubSeq(t, i, ChunkEnd(t, i))>> \o g[RestFrom(t, ChunkEnd(t, i))]]
SplitFrom(t) == CHOOSE g : g = SplitRec(t, g)

LEMMA SplitIsFrom ==
    ASSUME NEW t, t # <<>>
    PROVE  SplitText(t) = SplitFrom(t)[1]
BY DEF SplitText, SplitFrom, SplitRec

LEMMA SplitHeadIs ==
    ASSUME NEW A, NEW t \in Seq(A), NEW i \in 1 .. Len(t)
    PROVE  /\ SplitNext(t, i) \in i + 1 .. Len(t) + 1
           /\ SplitNext(t, i) <= Len(t) => t[SplitNext(t, i)] # "nl"
           /\ \E k \in i .. Len(t) :
                /\ SplitHead(t, i) = <<SubSeq(t, i, k)>>
                /\ k - i < MaxText /\ k < SplitNext(t, i)
                /\ k = Len(t) \/ k - i + 1 = MaxText \/ t[k + 1] = "nl"
                /\ \A m \in k + 1 .. SplitNext(t, i) - 1 : t[m] = "nl"
<1>1. Len(t) \in Nat /\ MaxText \in Nat
  BY LimitsAssumption
<1>2. CASE Len(t) - i < MaxText
  <2>1. SplitHead(t, i) = <<SubSeq(t, i, Len(t))>> /\ SplitNext(t, i) = Len(t) + 1
    BY <1>2 DEF SplitHead, SplitNext
  <2>2. /\ Len(t) \in i .. Len(t) /\ Len(t) < Len(t) + 1
        /\ Len(t) + 1 \in i + 1 .. Len(t) + 1 /\ ~(Len(t) + 1 <= Len(t))
        /\ Len(t) + 1 .. (Len(t) + 1) - 1 = {}
    BY <1>1
  <2>3. \E k \in i .. Len(t) :
          /\ SplitHead(t, i) = <<SubSeq(t, i, k)>>
          /\ k - i < MaxText /\ k < SplitNext(t, i)
          /\ k = Len(t) \/ k - i + 1 = MaxText \/ t[k + 1] = "nl"
          /\ \A m \in k + 1 .. SplitNext(t, i) - 1 : t[m] = "nl"
    <3>. WITNESS Len(t) \in i .. Len(t)
    <3>. QED BY <1>2, <2>1, <2>2
  <2>. QED BY <2>1, <2>2, <2>3
<1>3. CASE ~(Len(t) - i < MaxText)
  <2>. DEFINE e == ChunkEnd(t, i)
              r == RestFrom(t, e)
  <2>1. SplitHead(t, i) = <<SubSeq(t, i, e)>> /\ SplitNext(t, i) = r
    BY <1>3 DEF SplitHead, SplitNext
  <2>2. /\ e \in i .. i + MaxText - 1 /\ e \in 1 .. Len(t) - 1
        /\ e = i + MaxText - 1 \/ t[e + 1] = "nl"
    BY <1>3, ChunkEndIs
  <2>. HIDE DEF e
  <2>3. /\ e \in 0 .. Len(t) /\ e \in i .. Len(t) /\ e - i < MaxText
        /\ e = Len(t) \/ e - i + 1 = MaxText \/ t[e + 1] = "nl"
    BY <1>1, <2>2
  <2>4. /\ r \in e + 1 .. Len(t) + 1
        /\ r <= Len(t) => t[r] # "nl"
        /\ \A k \in e + 1 .. r - 1 : t[k] = "nl"
    BY <2>3, RestFromIs
  <2>. HIDE DEF r
  <2>5. r \in i + 1 .. Len(t) + 1 /\ e < r
    BY <1>1, <2>2, <2>4
  <2>. QED BY <2>1, <2>3, <2>4, <2>5
<1>. QED BY <1>2, <1>3

LEMMA SplitFromIs ==
    ASSUME NEW A, NEW t \in Seq(A)
    PROVE  SplitFrom(t) = SplitRec(t, SplitFrom(t))
<1>. DEFINE n == Len(t)
            head == [i \in 1 .. n |-> SplitHead(t, i)]
            next == [i \in 1 .. n |-> SplitNext(t, i)]
<1>1. n \in Nat
  OBVIOUS
<1>2. ASSUME NEW i \in 1 .. n PROVE head[i] \in Seq(Seq(A))
  <2>1. PICK k \in i .. n : SplitHead(t, i) = <<SubSeq(t, i, k)>>
    BY SplitHeadIs
  <2>2. i \in Nat \ {0} /\ k \in Nat /\ k <= Len(t)
    BY <1>1
  <2>3. SubSeq(t, i, k) \in Seq(A)
    BY <2>2, PieceIs
  <2>4. ASSUME NEW s \in Seq(A) PROVE <<s>> \in Seq(Seq(A))
    OBVIOUS
  <2>5. <<SubSeq(t, i, k)>> \in Seq(Seq(A))
    BY <2>3, <2>4
  <2>. QED BY <2>1, <2>5
<1>3. ASSUME NEW i \in 1 .. n PROVE next[i] \in Int /\ i < next[i] /\ next[i] <= n + 1
  <2>1. SplitNext(t, i) \in i + 1 .. n + 1
    BY SplitHeadIs
  <2>. QED BY <1>1, <2>1
<1>4. head \in [1 .. n -> Seq(Seq(A))] /\ next \in [1 .. n -> Int]
  BY <1>2, <1>3
<1>5. PICK f \in [1 .. n + 1 -> Seq(Seq(A))] : Jumps(f, n, head, next)
  <2>. HIDE DEF head, next, n
  <2>. QED BY <1>1, <1>3, <1>4, JumpsExist
<1>6. f = SplitRec(t, f)
  <2>1. f[n + 1] = <<>> /\ \A i \in 1 .. n : f[i] = SplitHead(t, i) \o f[SplitNext(t, i)]
    BY <1>5 DEF Jumps
  <2>2. ASSUME NEW i \in 1 .. n + 1 PROVE f[i] = SplitRec(t, f)[i]
    <3>1. CASE i = n + 1
      <4>1. i > n /\ ~(i \in n - MaxText + 1 .. n)
        BY <1>1, <3>1
      <4>. QED BY <2>1, <3>1, <4>1 DEF SplitRec
    <3>2. CASE i # n + 1
      <4>1. i \in 1 .. n /\ ~(i > n) /\ (n - i < MaxText <=> i \in n - MaxText + 1 .. n)
        BY <1>1, <3>2, LimitsAssumption
      <4>2. SplitHead(t, i) \o <<>> = SplitHead(t, i)
        <5>1. SplitHead(t, i) \in Seq(Seq(A))
          BY <1>2, <4>1
        <5>. QED BY <5>1, ConcatEmptySeq
      <4>3. SplitRec(t, f)[i] = IF n - i < MaxText THEN SplitHead(t, i)
                                ELSE SplitHead(t, i) \o f[SplitNext(t, i)]
        BY <4>1 DEF SplitRec, SplitHead, SplitNext
      <4>4. n - i < MaxText => SplitNext(t, i) = n + 1
        BY DEF SplitNext
      <4>. QED BY <2>1, <4>1, <4>2, <4>3, <4>4
    <3>. QED BY <3>1, <3>2
  <2>3. DOMAIN f = 1 .. n + 1 /\ f = [i \in 1 .. n + 1 |-> f[i]]
    BY <1>5
  <2>4. SplitRec(t, f) = [i \in 1 .. n + 1 |-> SplitRec(t, f)[i]]
    BY DEF SplitRec
  <2>. QED BY <2>2, <2>3, <2>4
<1>. QED BY <1>6 DEF SplitFrom

LEMMA SplitStep ==
    ASSUME NEW A, NEW t \in Seq(A)
    PROVE  /\ SplitFrom(t)[Len(t) + 1] = <<>>
           /\ \A i \in 1 .. Len(t) :
                SplitFrom(t)[i] = SplitHead(t, i) \o SplitFrom(t)[SplitNext(t, i)]
<1>. DEFINE g == SplitFrom(t)
<1>1. g = SplitRec(t, g) /\ Len(t) \in Nat
  BY SplitFromIs
<1>. HIDE DEF g
<1>2. g[Len(t) + 1] = <<>>
  <2>1. Len(t) + 1 > Len(t) /\ Len(t) + 1 \in 1 .. Len(t) + 1
        /\ ~(Len(t) + 1 \in Len(t) - MaxText + 1 .. Len(t))
    BY <1>1
  <2>2. SplitRec(t, g)[Len(t) + 1] = <<>>
    BY <2>1 DEF SplitRec
  <2>. QED BY <1>1, <2>2
<1>3. ASSUME NEW i \in 1 .. Len(t)
      PROVE  g[i] = SplitHead(t, i) \o g[SplitNext(t, i)]
  <2>1. /\ ~(i > Len(t)) /\ i \in 1 .. Len(t) + 1
        /\ (Len(t) - i < MaxText <=> i \in Len(t) - MaxText + 1 .. Len(t))
    BY <1>1, LimitsAssumption
  <2>2. SplitRec(t, g)[i] = IF Len(t) - i < MaxText THEN SplitHead(t, i)
                            ELSE SplitHead(t, i) \o g[SplitNext(t, i)]
    BY <2>1 DEF SplitRec, SplitHead, SplitNext
  <2>3. Len(t) - i < MaxText => SplitNext(t, i) = Len(t) + 1
    BY DEF SplitNext
  <2>4. SplitHead(t, i) \o <<>> = SplitHead(t, i)
    <3>1. PICK k \in i .. Len(t) : SplitHead(t, i) = <<SubSeq(t, i, k)>>
      BY SplitHeadIs
    <3>2. SplitHead(t, i) \in Seq({SubSeq(t, i, k)})
      BY <3>1
    <3>. QED BY <3>2, ConcatEmptySeq
  <2>. QED BY <1>1, <1>2, <2>2, <2>3, <2>4
<1>. QED BY <1>2, <1>3 DEF g

Ink(s) == Without(s, {"nl"})

ChunksOf(A, c, s) ==
    /\ c \in Seq(Seq(A))
    /\ \A k \in 1 .. Len(c) : /\ Len(c[k]) \in 1 .. MaxText
                              /\ c[k][1] # "nl"
    /\ Ink(FlattenSeq(c)) = Ink(s)
    /\ s # <<>> => c # <<>>

LEMMA OneMoreChunk ==
    ASSUME NEW A, NEW c, NEW s \in Seq(A), NEW p \in Seq(A), NEW u \in Seq(A),
           ChunksOf(A, c, s), Len(p) \in 1 .. MaxText, p[1] # "nl",
           Ink(u) = Ink(p) \o Ink(s)
    PROVE  ChunksOf(A, <<p>> \o c, u)
<1>. DEFINE d == <<p>> \o c
<1>1. c \in Seq(Seq(A)) /\ <<p>> \in Seq(Seq(A)) /\ Len(<<p>>) = 1 /\ <<p>>[1] = p
  <2>1. ASSUME NEW q \in Seq(A) PROVE <<q>> \in Seq(Seq(A)) /\ Len(<<q>>) = 1 /\ <<q>>[1] = q
    OBVIOUS
  <2>. QED BY <2>1 DEF ChunksOf
<1>2. /\ d \in Seq(Seq(A)) /\ Len(d) = 1 + Len(c)
      /\ d[1] = p /\ \A k \in 2 .. Len(d) : d[k] = c[k - 1]
  <2>. DEFINE o == <<p>>
  <2>1. o \in Seq(Seq(A)) /\ Len(o) = 1 /\ o[1] = p
    BY <1>1
  <2>. HIDE DEF o
  <2>2. /\ o \o c \in Seq(Seq(A)) /\ Len(o \o c) = 1 + Len(c)
        /\ \A k \in 1 .. Len(o) + Len(c) : (o \o c)[k] = IF k <= Len(o) THEN o[k]
                                                         ELSE c[k - Len(o)]
    <3>. DEFINE B == Seq(A)
    <3>1. o \in Seq(B) /\ c \in Seq(B)
      BY <1>1, <2>1
    <3>. HIDE DEF B
    <3>2. /\ o \o c \in Seq(B) /\ Len(o \o c) = Len(o) + Len(c)
          /\ \A k \in 1 .. Len(o) + Len(c) : (o \o c)[k] = IF k <= Len(o) THEN o[k]
                                                           ELSE c[k - Len(o)]
      BY <3>1, ConcatProperties
    <3>. QED BY <2>1, <3>2 DEF B
  <2>3. Len(c) \in Nat
    BY <1>1
  <2>4. (o \o c)[1] = p /\ \A k \in 2 .. Len(o \o c) : (o \o c)[k] = c[k - 1]
    BY <2>1, <2>2, <2>3
  <2>. QED BY <2>2, <2>4 DEF o
<1>3. \A k \in 1 .. Len(c) : Len(c[k]) \in 1 .. MaxText /\ c[k][1] # "nl"
  BY DEF ChunksOf
<1>4. Len(c) \in Nat
  BY <1>1
<1>5. Ink(FlattenSeq(d)) = Ink(u)
  <2>1. FlattenSeq(d) = p \o FlattenSeq(c)
    BY <1>1, FlattenFirst
  <2>2. FlattenSeq(c) \in Seq(A)
    BY <1>1, FlattenAppend
  <2>3. Ink(p \o FlattenSeq(c)) = Ink(p) \o Ink(FlattenSeq(c))
    BY <2>2, WithoutConcat DEF Ink
  <2>4. Ink(FlattenSeq(c)) = Ink(s)
    BY DEF ChunksOf
  <2>. QED BY <2>1, <2>3, <2>4
<1>. HIDE DEF d
<1>6. ASSUME NEW k \in 1 .. Len(d) PROVE Len(d[k]) \in 1 .. MaxText /\ d[k][1] # "nl"
  <2>1. CASE k = 1
    BY <1>2, <2>1
  <2>2. CASE k # 1
    <3>1. k \in 2 .. Len(d) /\ k - 1 \in 1 .. Len(c)
      BY <1>2, <1>4, <2>2
    <3>. QED BY <1>2, <1>3, <3>1
  <2>. QED BY <2>1, <2>2
<1>7. d # <<>>
  BY <1>2, <1>4
<1>8. ChunksOf(A, d, u)
  BY <1>2, <1>5, <1>6, <1>7 DEF ChunksOf
<1>. QED BY <1>8 DEF d

\* Line breaks between two pieces do not count.
LEMMA InkOfPieces ==
    ASSUME NEW A, NEW t \in Seq(A), NEW i \in 1 .. Len(t), NEW k \in i .. Len(t),
           NEW r \in k + 1 .. Len(t) + 1, \A m \in k + 1 .. r - 1 : t[m] = "nl"
    PROVE  Ink(SubSeq(t, i, Len(t))) = Ink(SubSeq(t, i, k)) \o Ink(SubSeq(t, r, Len(t)))
<1>. DEFINE n == Len(t)
            a == SubSeq(t, i, k)
            b == SubSeq(t, k + 1, r - 1)
            c == SubSeq(t, r, n)
            bc == SubSeq(t, k + 1, n)
<1>1. n \in Nat /\ r - 1 \in Nat /\ k \in Nat /\ k + 1 \in Nat \ {0} /\ i \in Nat \ {0}
      /\ r \in Nat \ {0} /\ r - 1 <= n /\ k <= n
  OBVIOUS
<1>2. a \in Seq(A) /\ b \in Seq(A) /\ c \in Seq(A) /\ bc \in Seq(A)
  BY <1>1, PieceIs
<1>3. SubSeq(t, i, n) = a \o bc
  <2>1. i \in 1 .. n + 1 /\ k \in i - 1 .. n /\ n \in k .. n
    BY <1>1
  <2>. QED BY <2>1, ConcatAdjacentSubSeq
<1>4. bc = b \o c
  <2>. DEFINE m == k + 1
              e == r - 1
  <2>1. m \in 1 .. n + 1 /\ e \in m - 1 .. n /\ n \in e .. n /\ e + 1 = r
    BY <1>1
  <2>. HIDE DEF m, e
  <2>2. SubSeq(t, m, e) \o SubSeq(t, e + 1, n) = SubSeq(t, m, n)
    BY <2>1, ConcatAdjacentSubSeq
  <2>. QED BY <2>1, <2>2 DEF m, e
<1>5. Ink(b) = <<>>
  <2>1. \A m \in k + 1 .. r - 1 : t[m] \in {"nl"}
    OBVIOUS
  <2>2. ASSUME NEW m \in 1 .. Len(b) PROVE b[m] \in {"nl"}
    <3>. DEFINE f == k + 1
                e == r - 1
    <3>1. /\ SubSeq(t, f, e) \in Seq({"nl"})
      <4>1. f \in Int /\ e \in Int /\ \A x \in f .. e : t[x] \in {"nl"}
        BY <1>1, <2>1
      <4>. HIDE DEF f, e
      <4>. QED BY <4>1, SubSeqProperties
    <3>. QED BY <3>1, ElementOfSeq
  <2>. HIDE DEF b
  <2>. QED BY <1>2, <2>2, WithoutIs DEF Ink
<1>. HIDE DEF a, b, c, bc
<1>6. Ink(a \o bc) = Ink(a) \o Ink(bc) /\ Ink(b \o c) = Ink(b) \o Ink(c)
  <2>1. WithoutSplits(a, bc, {"nl"}) /\ WithoutSplits(b, c, {"nl"})
    BY <1>2, WithoutConcatIs
  <2>. QED BY <2>1 DEF WithoutSplits, Ink
<1>7. <<>> \o Ink(c) = Ink(c)
  <2>1. Ink(c) \in Seq(A)
    BY <1>2, WithoutType DEF Ink
  <2>. QED BY <2>1, ConcatEmptySeq
<1>8. Ink(SubSeq(t, i, n)) = Ink(a) \o Ink(c)
  BY <1>3, <1>4, <1>5, <1>6, <1>7
<1>. QED BY <1>8 DEF a, c

LEMMA ChunksFrom ==
    ASSUME NEW A, NEW t \in Seq(A)
    PROVE  \A i \in 1 .. Len(t) :
             t[i] # "nl" => ChunksOf(A, SplitFrom(t)[i], SubSeq(t, i, Len(t)))
<1>. DEFINE n == Len(t)
            g == SplitFrom(t)
            Good == {i \in 1 .. n + 1 :
                       i = n + 1 \/ t[i] # "nl" => ChunksOf(A, g[i], SubSeq(t, i, n))}
<1>1. n \in Nat
  OBVIOUS
<1>2. n + 1 \in Good
  <2>1. SubSeq(t, n + 1, n) = <<>>
    BY <1>1, SubSeqEmpty
  <2>2. g[n + 1] = <<>>
    BY SplitStep
  <2>3. ChunksOf(A, <<>>, <<>>)
    <3>1. FlattenSeq(<<>>) = <<>>
      BY FlattenAppend
    <3>2. <<>> \in Seq(Seq(A)) /\ Len(<<>>) = 0 /\ 1 .. 0 = {}
      OBVIOUS
    <3>. QED BY <3>1, <3>2 DEF ChunksOf
  <2>4. n + 1 \in 1 .. n + 1
    BY <1>1
  <2>. HIDE DEF n, g
  <2>5. ChunksOf(A, g[n + 1], SubSeq(t, n + 1, n))
    BY <2>1, <2>2, <2>3
  <2>. QED BY <2>4, <2>5
<1>3. ASSUME NEW i \in 1 .. n, \A j \in i + 1 .. n + 1 : j \in Good PROVE i \in Good
  <2>. SUFFICES ASSUME t[i] # "nl" PROVE ChunksOf(A, g[i], SubSeq(t, i, n))
    BY <1>1
  <2>. DEFINE r == SplitNext(t, i)
  <2>1. r \in i + 1 .. n + 1 /\ (r <= n => t[r] # "nl")
    BY SplitHeadIs
  <2>2. PICK k \in i .. n : /\ SplitHead(t, i) = <<SubSeq(t, i, k)>>
                            /\ k - i < MaxText /\ k < r
                            /\ \A m \in k + 1 .. r - 1 : t[m] = "nl"
    BY SplitHeadIs
  <2>3. g[i] = SplitHead(t, i) \o g[r]
    BY SplitStep
  <2>. HIDE DEF r
  <2>4. ChunksOf(A, g[r], SubSeq(t, r, n))
    <3>1. r \in Good /\ (r = n + 1 \/ t[r] # "nl")
      BY <1>1, <1>3, <2>1
    <3>. QED BY <3>1
  <2>. DEFINE p == SubSeq(t, i, k)
              u == SubSeq(t, i, n)
              s == SubSeq(t, r, n)
  <2>5. i \in Nat \ {0} /\ k \in Nat /\ k <= n /\ r \in Nat \ {0} /\ i <= k /\ i <= n
        /\ r \in k + 1 .. n + 1
    BY <1>1, <2>1, <2>2
  <2>6. p \in Seq(A) /\ Len(p) = k - i + 1 /\ p[1] = t[i]
    BY <2>5, PieceIs
  <2>7. u \in Seq(A) /\ s \in Seq(A)
    BY <1>1, <2>5, PieceIs
  <2>8. Ink(u) = Ink(p) \o Ink(s)
    BY <2>2, <2>5, InkOfPieces
  <2>9. Len(p) \in 1 .. MaxText
    <3>1. MaxText \in Nat
      BY LimitsAssumption
    <3>. HIDE DEF p
    <3>. QED BY <2>2, <2>5, <2>6, <3>1
  <2>10. ChunksOf(A, <<p>> \o g[r], u)
    <3>. HIDE DEF p, u, g, n, Good
    <3>1. ChunksOf(A, g[r], s)
      BY <2>4
    <3>. HIDE DEF s
    <3>. QED BY <2>6, <2>7, <2>8, <2>9, <3>1, OneMoreChunk
  <2>. QED BY <2>2, <2>3, <2>10
<1>4. 1 .. n + 1 \subseteq Good
  <2>. HIDE DEF Good, n
  <2>. QED BY <1>1, <1>2, <1>3, Downwards
<1>5. \A i \in 1 .. n : i \in Good
  <2>. HIDE DEF Good
  <2>. QED BY <1>1, <1>4
<1>. QED BY <1>5

LEMMA SplitIs ==
    ASSUME NEW A, NEW t \in Seq(A), t # <<>>, t[1] # "nl"
    PROVE  ChunksOf(A, SplitText(t), t)
<1>1. 1 \in 1 .. Len(t)
  OBVIOUS
<1>2. ChunksOf(A, SplitFrom(t)[1], SubSeq(t, 1, Len(t)))
  BY <1>1, ChunksFrom
<1>3. SubSeq(t, 1, Len(t)) = t
  BY SubSeqFull
<1>. QED BY <1>2, <1>3, SplitIsFrom

\* Where split_text may cut: at the end of the text or of a line, or where a
\* message is full.
ChunkAt(t, m) ==
    \E i, j \in 1 .. Len(t) :
        /\ i <= j /\ m = SubSeq(t, i, j) /\ t[i] # "nl"
        /\ j = Len(t) \/ j - i + 1 = MaxText \/ t[j + 1] = "nl"
CutFrom(t, c) == \A n \in 1 .. Len(c) : ChunkAt(t, c[n])

LEMMA ChunksCut ==
    ASSUME NEW A, NEW t \in Seq(A)
    PROVE  \A i \in 1 .. Len(t) : t[i] # "nl" => CutFrom(t, SplitFrom(t)[i])
<1>. DEFINE n == Len(t)
            g == SplitFrom(t)
            Good == {i \in 1 .. n + 1 :
                       i = n + 1 \/ t[i] # "nl" => g[i] \in Seq(Seq(A)) /\ CutFrom(t, g[i])}
<1>1. n \in Nat
  OBVIOUS
<1>2. n + 1 \in Good
  <2>1. g[n + 1] = <<>> /\ n + 1 \in 1 .. n + 1
    BY <1>1, SplitStep
  <2>2. <<>> \in Seq(Seq(A)) /\ CutFrom(t, <<>>)
    BY DEF CutFrom
  <2>. HIDE DEF n, g
  <2>. QED BY <2>1, <2>2
<1>3. ASSUME NEW i \in 1 .. n, \A j \in i + 1 .. n + 1 : j \in Good PROVE i \in Good
  <2>. SUFFICES ASSUME t[i] # "nl" PROVE g[i] \in Seq(Seq(A)) /\ CutFrom(t, g[i])
    BY <1>1
  <2>. DEFINE r == SplitNext(t, i)
  <2>1. r \in i + 1 .. n + 1 /\ (r <= n => t[r] # "nl")
    BY SplitHeadIs
  <2>2. PICK k \in i .. n : /\ SplitHead(t, i) = <<SubSeq(t, i, k)>>
                            /\ k = n \/ k - i + 1 = MaxText \/ t[k + 1] = "nl"
    BY SplitHeadIs
  <2>3. g[i] = SplitHead(t, i) \o g[r]
    BY SplitStep
  <2>. HIDE DEF r
  <2>4. g[r] \in Seq(Seq(A)) /\ CutFrom(t, g[r])
    <3>1. r \in Good
      <4>. HIDE DEF Good
      <4>. QED BY <1>3, <2>1
    <3>. HIDE DEF g, n
    <3>2. r = n + 1 \/ t[r] # "nl"
      BY <1>1, <2>1
    <3>. QED BY <3>1, <3>2
  <2>. DEFINE p == SubSeq(t, i, k)
              c == g[r]
  <2>5. p \in Seq(A)
    <3>1. i \in Nat \ {0} /\ k \in Nat /\ k <= n
      BY <1>1, <2>2
    <3>. QED BY <3>1, PieceIs
  <2>6. ChunkAt(t, p)
    <3>1. i \in 1 .. n /\ k \in 1 .. n /\ i <= k
      BY <1>1, <2>2
    <3>. QED BY <2>2, <3>1 DEF ChunkAt
  <2>. HIDE DEF p, c, g, n, Good
  <2>7. c \in Seq(Seq(A)) /\ CutFrom(t, c)
    BY <2>4 DEF c
  <2>8. <<p>> \o c \in Seq(Seq(A)) /\ CutFrom(t, <<p>> \o c)
    <3>. DEFINE B == Seq(A)
                o == <<p>>
    <3>1. o \in Seq(B) /\ Len(o) = 1 /\ o[1] = p /\ c \in Seq(B)
      BY <2>5, <2>7
    <3>. HIDE DEF B, o
    <3>2. /\ o \o c \in Seq(B) /\ Len(o \o c) = Len(o) + Len(c)
          /\ \A m \in 1 .. Len(o) + Len(c) : (o \o c)[m] = IF m <= Len(o) THEN o[m]
                                                           ELSE c[m - Len(o)]
      BY <3>1, ConcatProperties
    <3>3. Len(c) \in Nat
      BY <3>1
    <3>4. ASSUME NEW m \in 1 .. Len(o \o c) PROVE ChunkAt(t, (o \o c)[m])
      <4>1. CASE m = 1
        BY <2>6, <3>1, <3>2, <3>3, <4>1
      <4>2. CASE m # 1
        <5>1. m - 1 \in 1 .. Len(c) /\ (o \o c)[m] = c[m - 1]
          BY <3>1, <3>2, <3>3, <4>2
        <5>. QED BY <2>7, <5>1 DEF CutFrom
      <4>. QED BY <4>1, <4>2
    <3>. QED BY <3>2, <3>4 DEF CutFrom, B, o
  <2>9. SplitHead(t, i) = <<p>>
    BY <2>2 DEF p
  <2>. QED BY <2>3, <2>8, <2>9 DEF c
<1>4. 1 .. n + 1 \subseteq Good
  <2>. HIDE DEF Good, n
  <2>. QED BY <1>1, <1>2, <1>3, Downwards
<1>5. \A i \in 1 .. n : i \in Good
  <2>. HIDE DEF Good
  <2>. QED BY <1>1, <1>4
<1>. QED BY <1>5

LEMMA SplitCuts ==
    ASSUME NEW A, NEW t \in Seq(A), t # <<>>, t[1] # "nl"
    PROVE  CutFrom(t, SplitText(t))
<1>1. 1 \in 1 .. Len(t)
  OBVIOUS
<1>. QED BY <1>1, ChunksCut, SplitIsFrom

\* What a text m may be: it has ink, or it is cut out of a line of blanks.
Honest(t, m) == Strip(m) # <<>> \/ BlankStretch(t, m)

LEMMA ChunksAreHonest ==
    ASSUME NEW A, NEW t \in Seq(A), NEW m, ChunkAt(t, m), t[Len(t)] \notin Blanks
    PROVE  Honest(t, m)
<1>. SUFFICES ASSUME Strip(m) = <<>> PROVE BlankStretch(t, m)
  BY DEF Honest
<1>1. Len(t) \in Nat /\ DOMAIN t = 1 .. Len(t)
  OBVIOUS
<1>2. PICK i \in 1 .. Len(t), j \in 1 .. Len(t) :
        /\ i <= j /\ m = SubSeq(t, i, j) /\ t[i] # "nl"
        /\ j = Len(t) \/ j - i + 1 = MaxText \/ t[j + 1] = "nl"
  BY DEF ChunkAt
<1>3. /\ m \in Seq(A) /\ Len(m) = j - i + 1
      /\ m[1] = t[i] /\ m[j - i + 1] = t[j]
  <2>1. i \in Nat \ {0} /\ j \in Nat /\ j <= Len(t)
    BY <1>1
  <2>. QED BY <1>2, <2>1, PieceIs
<1>4. 1 \in 1 .. Len(m) /\ j - i + 1 \in 1 .. Len(m)
  <2>. DEFINE l == Len(m)
  <2>1. l = j - i + 1 /\ i <= j
    BY <1>2, <1>3
  <2>2. i \in Nat /\ j \in Nat
    BY <1>1
  <2>. HIDE DEF l
  <2>3. 1 \in 1 .. l /\ j - i + 1 \in 1 .. l
    BY ONLY <2>1, <2>2
  <2>. QED BY <2>3 DEF l
<1>5. \A n \in 1 .. Len(m) : m[n] \in Blanks
  <2>1. ~\E n \in 1 .. Len(Strip(m)) : TRUE
    OBVIOUS
  <2>. QED BY <1>3, <2>1, StripIs
<1>6. t[i] = "sp"
  <2>1. t[i] \in Blanks
    BY <1>3, <1>4, <1>5
  <2>. QED BY <1>2, <2>1 DEF Blanks
<1>7. j < Len(t)
  <2>1. t[j] \in Blanks
    BY <1>3, <1>4, <1>5
  <2>2. j # Len(t)
    BY <2>1
  <2>. DEFINE l == Len(t)
  <2>3. l \in Nat /\ j \in 1 .. l /\ j # l
    BY <1>1, <1>2, <2>2
  <2>. HIDE DEF l
  <2>4. j < l
    BY ONLY <2>3
  <2>. QED BY <2>4 DEF l
<1>8. Len(m) = MaxText \/ t[j + 1] = "nl"
  BY <1>2, <1>3, <1>7
<1>. QED BY <1>1, <1>2, <1>6, <1>7, <1>8 DEF BlankStretch

-----------------------------------------------------------------------------
(* What a plain reply is made of: TextChunks and then images. *)

Chars == Tokens \cup {"nl"}
Wide == Chars \cup {Notice}

LEMMA JoinedType ==
    ASSUME NEW lines \in Seq(Lines)
    PROVE  Joined(lines) \in Seq(Chars)
<1>. DEFINE ss == [n \in DOMAIN lines |->
                     IF n = Len(lines) THEN lines[n] ELSE Append(lines[n], "nl")]
<1>1. Lines \subseteq Seq(Chars) /\ "nl" \in Chars
  BY LinesAssumption DEF Chars
<1>2. DOMAIN lines = 1 .. Len(lines) /\ Len(lines) \in Nat
  OBVIOUS
<1>3. ASSUME NEW n \in 1 .. Len(lines) PROVE ss[n] \in Seq(Chars)
  <2>1. lines[n] \in Seq(Chars)
    BY <1>1, ElementOfSeq
  <2>2. Append(lines[n], "nl") \in Seq(Chars)
    BY <1>1, <2>1
  <2>. QED BY <2>1, <2>2
<1>4. ss \in [1 .. Len(lines) -> Seq(Chars)]
  BY <1>2, <1>3
<1>5. ss \in Seq(Seq(Chars))
  <2>. HIDE DEF ss
  <2>. QED BY <1>2, <1>4, SeqDef
<1>6. FlattenSeq(ss) \in Seq(Chars)
  <2>. HIDE DEF ss
  <2>. QED BY <1>5, FlattenAppend
<1>. QED BY <1>6 DEF Joined

LEMMA PlainTextIs ==
    ASSUME NEW lines \in Seq(Lines), NEW strip \in BOOLEAN
    PROVE  /\ PlainText(lines, strip) \in Seq(Chars)
           /\ PlainText(lines, strip) # <<>> =>
                /\ PlainText(lines, strip)[1] # "nl"
                /\ PlainText(lines, strip)[Len(PlainText(lines, strip))] \notin Blanks
<1>. DEFINE text == Without(Joined(lines), {"img"})
            kept == IF strip THEN StripMarkdown(text) ELSE text
<1>1. text \in Seq(Chars)
  BY JoinedType, WithoutType
<1>2. kept \in Seq(Chars)
  <2>. HIDE DEF text
  <2>. DEFINE mark(n) == n \in DOMAIN text /\ text[n] = "quote"
              ns == {n \in DOMAIN text : ~(mark(n) \/ (mark(n - 1) /\ text[n] \in Blanks))}
              bare == Pick(text, ns)
              ms == {n \in DOMAIN bare : ~(n > 2 /\ \A k \in n - 2 .. n : bare[k] = "nl")}
  <2>1. StripMarkdown(text) = Pick(bare, ms)
    BY DEF StripMarkdown
  <2>. HIDE DEF ns, ms
  <2>2. bare \in Seq(Chars)
    BY <1>1, PickType
  <2>. HIDE DEF bare
  <2>3. StripMarkdown(text) \in Seq(Chars)
    BY <2>1, <2>2, PickType
  <2>. QED BY <1>1, <2>3
<1>3. PlainText(lines, strip) = Strip(kept)
  BY DEF PlainText
<1>. HIDE DEF kept
<1>4. Strip(kept) # <<>> => Strip(kept)[1] # "nl"
  BY <1>2, StripIs DEF Blanks
<1>. QED BY <1>2, <1>3, <1>4, StripIs

LEMMA CountIs ==
    ASSUME NEW A, NEW s \in Seq(A), NEW e
    PROVE  CountOf(s, e) \in Nat
<1>1. {n \in DOMAIN s : s[n] = e} \subseteq 1 .. Len(s) /\ Len(s) \in Nat
  OBVIOUS
<1>2. IsFiniteSet(1 .. Len(s))
  BY <1>1, FS_Interval
<1>3. IsFiniteSet({n \in DOMAIN s : s[n] = e})
  BY <1>1, <1>2, FS_Subset
<1>. QED BY <1>3, FS_CardinalityType DEF CountOf

TextsOf(c) == [n \in DOMAIN c |-> Text(c[n])]
Plain(c, k) == TextsOf(c) \o Images(k)
CutChunks(c) ==
    [n \in 1 .. MaxMessages |->
       IF n = MaxMessages THEN Append(SubSeq(c[n], 1, Least(Len(c[n]), MaxText - 1)), Notice)
                          ELSE c[n]]
TextChunks(lines, strip) ==
    LET raw    == Joined(lines)
        text   == PlainText(lines, strip)
        chunks == SplitText(text) IN
    IF text = <<>>
    THEN IF CountOf(raw, "img") = 0 THEN <<SubSeq(raw, 1, Least(Len(raw), MaxText))>> ELSE <<>>
    ELSE IF Len(chunks) <= MaxMessages THEN chunks ELSE CutChunks(chunks)
ImageCount(lines, n) == Least(CountOf(Joined(lines), "img"), MaxMessages - n)

Sent == [type : {"text"}, text : Seq(Wide)] \cup [type : {"image"}, url : Nat]

LEMMA PlainIs ==
    ASSUME NEW c \in Seq(Seq(Wide)), NEW k \in Nat
    PROVE  /\ TextsOf(c) \in Seq(Sent) /\ Images(k) \in Seq(Sent)
           /\ Len(TextsOf(c)) = Len(c) /\ Len(Images(k)) = k
           /\ Plain(c, k) \in Seq(Sent) /\ Len(Plain(c, k)) = Len(c) + k
           /\ \A n \in 1 .. Len(c) : Plain(c, k)[n] = Text(c[n])
           /\ \A n \in Len(c) + 1 .. Len(c) + k : Plain(c, k)[n] = Image(n - Len(c))
<1>. DEFINE s == TextsOf(c)
            t == Images(k)
<1>1. Len(c) \in Nat /\ DOMAIN c = 1 .. Len(c) /\ \A n \in 1 .. Len(c) : c[n] \in Seq(Wide)
  OBVIOUS
<1>2. s \in [1 .. Len(c) -> Sent] /\ \A n \in 1 .. Len(c) : s[n] = Text(c[n])
  BY <1>1 DEF TextsOf, Text, Sent
<1>3. t \in [1 .. k -> Sent] /\ \A n \in 1 .. k : t[n] = Image(n)
  BY DEF Images, Image, Sent
<1>. HIDE DEF s, t
<1>4. s \in Seq(Sent) /\ t \in Seq(Sent) /\ Len(s) = Len(c) /\ Len(t) = k
  <2>1. ASSUME NEW f, NEW m \in Nat, f \in [1 .. m -> Sent]
        PROVE  f \in Seq(Sent) /\ Len(f) = m
    BY <2>1, SeqDef
  <2>2. s \in Seq(Sent) /\ Len(s) = Len(c)
    BY <1>1, <1>2, <2>1
  <2>3. t \in Seq(Sent) /\ Len(t) = k
    BY <1>3, <2>1
  <2>. QED BY <2>2, <2>3
<1>5. /\ s \o t \in Seq(Sent) /\ Len(s \o t) = Len(s) + Len(t)
      /\ \A n \in 1 .. Len(s) + Len(t) : (s \o t)[n] = IF n <= Len(s) THEN s[n] ELSE t[n - Len(s)]
  BY <1>4, ConcatProperties
<1>6. ASSUME NEW n \in 1 .. Len(c) PROVE (s \o t)[n] = Text(c[n])
  BY <1>1, <1>2, <1>4, <1>5
<1>7. ASSUME NEW n \in Len(c) + 1 .. Len(c) + k PROVE (s \o t)[n] = Image(n - Len(c))
  <2>1. n - Len(c) \in 1 .. k /\ n \in 1 .. Len(s) + Len(t) /\ ~(n <= Len(s))
    BY <1>1, <1>4
  <2>. QED BY <1>3, <1>4, <1>5, <2>1
<1>. QED BY <1>4, <1>5, <1>6, <1>7 DEF s, t, Plain

GoodTexts(c) == \A n \in 1 .. Len(c) : c[n] # <<>> /\ c[n][1] # "nl"
ShortTexts(c) == \A n \in 1 .. Len(c) : Len(c[n]) <= MaxText

LEMMA CutChunksIs ==
    ASSUME NEW c \in Seq(Seq(Chars)), Len(c) > MaxMessages,
           GoodTexts(c), ShortTexts(c)
    PROVE  /\ CutChunks(c) \in Seq(Seq(Wide)) /\ Len(CutChunks(c)) = MaxMessages
           /\ GoodTexts(CutChunks(c)) /\ ShortTexts(CutChunks(c))
           /\ \A n \in 1 .. MaxMessages :
                \/ Strip(CutChunks(c)[n]) # <<>>
                \/ n \in 1 .. Len(c) /\ CutChunks(c)[n] = c[n]
<1>. DEFINE d == CutChunks(c)
            M == MaxMessages
            l == c[M]
            cut == SubSeq(l, 1, Least(Len(l), MaxText - 1))
<1>1. M \in Nat \ {0} /\ MaxText \in Nat \ {0, 1} /\ Len(c) \in Nat
      /\ Seq(Chars) \subseteq Seq(Wide) /\ Notice \in Wide
  BY LimitsAssumption DEF Wide
<1>2. M \in 1 .. Len(c)
  BY <1>1
<1>3. l \in Seq(Chars) /\ l # <<>> /\ l[1] # "nl"
  BY <1>2 DEF GoodTexts
<1>. HIDE DEF l
<1>. DEFINE k == Least(Len(l), MaxText - 1)
<1>4. k \in Nat \ {0} /\ k <= Len(l) /\ k <= MaxText - 1
  <2>1. Len(l) \in Nat \ {0}
    BY <1>3
  <2>. QED BY <1>1, <2>1 DEF Least
<1>5. cut \in Seq(Chars) /\ Len(cut) = k /\ cut[1] = l[1]
  <2>. HIDE DEF k
  <2>1. 1 \in Nat \ {0} /\ k \in Nat /\ 1 <= k
    BY <1>4
  <2>. QED BY <1>3, <1>4, <2>1, PieceIs DEF k
<1>. DEFINE e == Append(cut, Notice)
<1>. HIDE DEF k, cut
<1>6. /\ e \in Seq(Wide) /\ Len(e) = k + 1 /\ e # <<>> /\ e[1] = l[1]
      /\ Strip(e) # <<>>
  <2>1. cut \in Seq(Wide) /\ 1 \in 1 .. Len(cut)
    BY <1>1, <1>4, <1>5
  <2>2. e \in Seq(Wide) /\ Len(e) = k + 1 /\ e # <<>> /\ e[1] = l[1] /\ e[k + 1] = Notice
    BY <1>1, <1>5, <2>1
  <2>. HIDE DEF e
  <2>3. Strip(e) # <<>>
    <3>1. k + 1 \in 1 .. Len(e) /\ e[k + 1] \notin Blanks
      BY <1>4, <2>2 DEF Notice, Blanks
    <3>2. \E m \in 1 .. Len(Strip(e)) : Strip(e)[m] = e[k + 1]
      BY <2>2, <3>1, StripIs
    <3>. QED BY <3>2
  <2>. QED BY <2>2, <2>3
<1>7. d = [n \in 1 .. M |-> IF n = M THEN e ELSE c[n]]
  BY DEF CutChunks, k, cut, l
<1>. HIDE DEF d, e
<1>8. ASSUME NEW n \in 1 .. M
      PROVE  /\ d[n] \in Seq(Wide) /\ d[n] # <<>> /\ d[n][1] # "nl" /\ Len(d[n]) <= MaxText
  <2>1. CASE n = M
    BY <1>1, <1>3, <1>4, <1>6, <1>7, <2>1
  <2>2. CASE n # M
    <3>1. n \in 1 .. Len(c)
      BY <1>1
    <3>2. d[n] = c[n]
      BY <1>7, <2>2
    <3>3. c[n] \in Seq(Chars)
      BY <3>1, ElementOfSeq
    <3>. QED BY <1>1, <3>1, <3>2, <3>3 DEF GoodTexts, ShortTexts
  <2>. QED BY <2>1, <2>2
<1>9. d \in [1 .. M -> Seq(Wide)]
  BY <1>7, <1>8
<1>10. d \in Seq(Seq(Wide)) /\ Len(d) = M
  BY <1>1, <1>9, SeqDef
<1>11. ASSUME NEW n \in 1 .. M PROVE Strip(d[n]) # <<>> \/ (n \in 1 .. Len(c) /\ d[n] = c[n])
  <2>1. n \in 1 .. Len(c)
    BY <1>1
  <2>. QED BY <1>6, <1>7, <2>1
<1>. QED BY <1>8, <1>10, <1>11 DEF GoodTexts, ShortTexts, d

AllHonest(t, c) == \A n \in 1 .. Len(c) : Honest(t, c[n])

LEMMA SplitsWell ==
    ASSUME NEW lines \in Seq(Lines), NEW strip \in BOOLEAN, PlainText(lines, strip) # <<>>
    PROVE  /\ ChunksOf(Chars, SplitText(PlainText(lines, strip)), PlainText(lines, strip))
           /\ SplitText(PlainText(lines, strip)) \in Seq(Seq(Chars))
           /\ SplitText(PlainText(lines, strip)) # <<>>
           /\ GoodTexts(SplitText(PlainText(lines, strip)))
           /\ ShortTexts(SplitText(PlainText(lines, strip)))
           /\ AllHonest(PlainText(lines, strip), SplitText(PlainText(lines, strip)))
<1>. DEFINE t == PlainText(lines, strip)
            c == SplitText(t)
<1>1. t \in Seq(Chars) /\ t # <<>> /\ t[1] # "nl" /\ t[Len(t)] \notin Blanks
  BY PlainTextIs
<1>. HIDE DEF t
<1>2. ChunksOf(Chars, c, t)
  BY <1>1, SplitIs
<1>. HIDE DEF c
<1>3. c \in Seq(Seq(Chars)) /\ c # <<>>
      /\ \A n \in 1 .. Len(c) : Len(c[n]) \in 1 .. MaxText /\ c[n][1] # "nl"
  BY <1>1, <1>2 DEF ChunksOf
<1>4. ASSUME NEW n \in 1 .. Len(c) PROVE c[n] # <<>> /\ Len(c[n]) <= MaxText
  <2>1. MaxText \in Nat
    BY LimitsAssumption
  <2>2. Len(c[n]) \in 1 .. MaxText
    BY <1>3
  <2>. QED BY <2>1, <2>2
<1>5. GoodTexts(c) /\ ShortTexts(c)
  BY <1>3, <1>4 DEF GoodTexts, ShortTexts
<1>6. AllHonest(t, c)
  <2>1. CutFrom(t, c)
    BY <1>1, SplitCuts DEF c
  <2>2. ASSUME NEW n \in 1 .. Len(c) PROVE Honest(t, c[n])
    <3>1. ChunkAt(t, c[n])
      BY <2>1 DEF CutFrom
    <3>. QED BY <1>1, <3>1, ChunksAreHonest
  <2>. QED BY <2>2 DEF AllHonest
<1>. QED BY <1>2, <1>3, <1>5, <1>6 DEF c, t

LEMMA TextChunksIs ==
    ASSUME NEW lines \in Seq(Lines), NEW strip \in BOOLEAN
    PROVE  /\ TextChunks(lines, strip) \in Seq(Seq(Wide))
           /\ Len(TextChunks(lines, strip)) \in 0 .. MaxMessages
           /\ ShortTexts(TextChunks(lines, strip))
           /\ PlainText(lines, strip) # <<>> =>
                /\ GoodTexts(TextChunks(lines, strip))
                /\ AllHonest(PlainText(lines, strip), TextChunks(lines, strip))
<1>. DEFINE raw == Joined(lines)
            t == PlainText(lines, strip)
            c == SplitText(t)
            r == TextChunks(lines, strip)
<1>1. MaxMessages \in Nat \ {0} /\ MaxText \in Nat \ {0, 1}
  BY LimitsAssumption
<1>2. Seq(Chars) \subseteq Seq(Wide) /\ Seq(Seq(Chars)) \subseteq Seq(Seq(Wide))
  BY DEF Wide
<1>3. CASE t = <<>> /\ CountOf(raw, "img") = 0
  <2>. DEFINE k == Least(Len(raw), MaxText)
              p == SubSeq(raw, 1, k)
  <2>1. r = <<p>>
    BY <1>3 DEF TextChunks
  <2>2. raw \in Seq(Chars)
    BY JoinedType
  <2>3. k \in Nat /\ k <= Len(raw) /\ k <= MaxText
    <3>1. Len(raw) \in Nat
      BY <2>2
    <3>. QED BY <1>1, <3>1 DEF Least
  <2>4. p \in Seq(Chars) /\ Len(p) <= MaxText
    <3>. HIDE DEF k
    <3>1. 1 \in Nat \ {0}
      OBVIOUS
    <3>2. p \in Seq(Chars) /\ Len(p) = IF 1 <= k THEN k - 1 + 1 ELSE 0
      <4>. HIDE DEF raw
      <4>. QED BY <2>2, <2>3, <3>1, PieceIs
    <3>. QED BY <1>1, <2>3, <3>2
  <2>. HIDE DEF p, r
  <2>5. r \in Seq(Seq(Wide)) /\ Len(r) = 1 /\ r[1] = p
    BY <1>2, <2>1, <2>4
  <2>6. Len(r) \in 0 .. MaxMessages /\ ShortTexts(r)
    BY <1>1, <2>4, <2>5 DEF ShortTexts
  <2>. QED BY <1>3, <2>5, <2>6 DEF r
<1>4. CASE t = <<>> /\ CountOf(raw, "img") # 0
  <2>1. r = <<>>
    BY <1>4 DEF TextChunks
  <2>. QED BY <1>1, <1>4, <2>1 DEF ShortTexts
<1>5. CASE t # <<>> /\ Len(c) <= MaxMessages
  <2>1. r = c
    BY <1>5 DEF TextChunks
  <2>2. c \in Seq(Seq(Chars)) /\ GoodTexts(c) /\ ShortTexts(c) /\ AllHonest(t, c)
    BY <1>5, SplitsWell
  <2>. HIDE DEF c
  <2>3. c \in Seq(Seq(Wide)) /\ Len(c) \in 0 .. MaxMessages
    BY <1>1, <1>2, <1>5, <2>2
  <2>. QED BY <2>1, <2>2, <2>3
<1>6. CASE t # <<>> /\ ~(Len(c) <= MaxMessages)
  <2>1. r = CutChunks(c)
    BY <1>6 DEF TextChunks
  <2>2. c \in Seq(Seq(Chars)) /\ GoodTexts(c) /\ ShortTexts(c) /\ AllHonest(t, c)
    BY <1>6, SplitsWell
  <2>. HIDE DEF c
  <2>3. Len(c) > MaxMessages
    BY <1>1, <1>6, <2>2
  <2>4. /\ CutChunks(c) \in Seq(Seq(Wide)) /\ Len(CutChunks(c)) = MaxMessages
        /\ GoodTexts(CutChunks(c)) /\ ShortTexts(CutChunks(c))
        /\ \A n \in 1 .. MaxMessages :
             \/ Strip(CutChunks(c)[n]) # <<>>
             \/ n \in 1 .. Len(c) /\ CutChunks(c)[n] = c[n]
    BY <2>2, <2>3, CutChunksIs
  <2>5. AllHonest(t, CutChunks(c))
    BY <2>2, <2>4 DEF AllHonest, Honest
  <2>. QED BY <1>1, <2>1, <2>4, <2>5
<1>. QED BY <1>3, <1>4, <1>5, <1>6

LEMMA ImageCountIs ==
    ASSUME NEW lines \in Seq(Lines), NEW n \in 0 .. MaxMessages
    PROVE  /\ CountOf(Joined(lines), "img") \in Nat
           /\ ImageCount(lines, n) \in 0 .. MaxMessages - n
<1>1. CountOf(Joined(lines), "img") \in Nat
  BY JoinedType, CountIs
<1>2. MaxMessages \in Nat
  BY LimitsAssumption
<1>. QED BY <1>1, <1>2 DEF ImageCount, Least

LEMMA NothingToTruncate ==
    ASSUME NEW r \in Seq(Sent), Len(r) <= MaxMessages
    PROVE  TruncateWithNotice(r) = r
BY DEF TruncateWithNotice

LEMMA Truncated ==
    ASSUME NEW c \in Seq(Seq(Chars)), Len(c) > MaxMessages, GoodTexts(c), ShortTexts(c)
    PROVE  TruncateWithNotice(Plain(c, 0)) = Plain(CutChunks(c), 0)
<1>. DEFINE r == Plain(c, 0)
            q == Plain(CutChunks(c), 0)
            M == MaxMessages
            s == SubSeq(r, 1, M)
            cut == Append(SubSeq(c[M], 1, Least(Len(c[M]), MaxText - 1)), Notice)
            d == CutChunks(c)
            u == TruncateWithNotice(r)
<1>1. M \in Nat \ {0} /\ Len(c) \in Nat
  BY LimitsAssumption
<1>2. c \in Seq(Seq(Wide)) /\ 0 \in Nat
  BY DEF Wide
<1>3. r \in Seq(Sent) /\ Len(r) = Len(c) /\ \A n \in 1 .. Len(c) : r[n] = Text(c[n])
  <2>1. Len(c) + 0 = Len(c)
    BY <1>1
  <2>. HIDE DEF r
  <2>. QED BY <1>2, <2>1, PlainIs DEF r
<1>4. d \in Seq(Seq(Wide)) /\ Len(d) = M
      /\ \A n \in 1 .. M : d[n] = IF n = M THEN cut ELSE c[n]
  BY CutChunksIs DEF CutChunks
<1>. HIDE DEF d
<1>5. q \in Seq(Sent) /\ Len(q) = M /\ \A n \in 1 .. M : q[n] = Text(d[n])
  <2>1. Len(d) + 0 = Len(d)
    BY <1>1, <1>4
  <2>2. /\ Plain(d, 0) \in Seq(Sent) /\ Len(Plain(d, 0)) = Len(d) + 0
        /\ \A n \in 1 .. Len(d) : Plain(d, 0)[n] = Text(d[n])
    BY <1>2, <1>4, PlainIs
  <2>. QED BY <1>4, <2>1, <2>2 DEF d
<1>. HIDE DEF r, q, cut
<1>6. s \in Seq(Sent) /\ Len(s) = M /\ \A n \in 1 .. M : s[n] = r[n]
  <2>1. \A n \in 1 .. M : r[n] \in Sent
    BY <1>1, <1>3
  <2>2. /\ s \in Seq(Sent) /\ Len(s) = IF 1 <= M THEN M - 1 + 1 ELSE 0
        /\ \A n \in 1 .. M - 1 + 1 : s[n] = r[1 + n - 1]
    <3>. HIDE DEF M
    <3>1. 1 \in Int /\ M \in Int
      BY <1>1
    <3>. QED BY <2>1, <3>1, SubSeqProperties
  <2>. HIDE DEF s
  <2>3. \A n \in 1 .. M : 1 + n - 1 = n /\ n \in 1 .. M - 1 + 1
    BY <1>1
  <2>. QED BY <1>1, <2>2, <2>3
<1>7. s[M] = Text(c[M]) /\ s[M].type = "text" /\ s[M].text = c[M]
  <2>1. M \in 1 .. M /\ M \in 1 .. Len(c)
    BY <1>1
  <2>. HIDE DEF s
  <2>2. s[M] = Text(c[M])
    BY <1>3, <1>6, <2>1
  <2>. QED BY <2>2 DEF Text
<1>8. u = [s EXCEPT ![M] = Text(cut)]
  <2>1. ~(Len(r) <= M)
    BY <1>1, <1>3
  <2>2. u = [s EXCEPT ![M] = IF s[M].type = "text"
               THEN Text(Append(SubSeq(s[M].text, 1, Least(Len(s[M].text), MaxText - 1)), Notice))
               ELSE Text(<<Notice>>)]
    BY <2>1 DEF TruncateWithNotice
  <2>. HIDE DEF s, u
  <2>. QED BY <1>7, <2>2 DEF cut
<1>. HIDE DEF s, u
<1>9. u = [n \in 1 .. M |-> IF n = M THEN Text(cut) ELSE s[n]]
  <2>1. s = [n \in 1 .. M |-> s[n]]
    BY <1>6
  <2>. DEFINE v == [n \in 1 .. M |-> s[n]]
  <2>2. [v EXCEPT ![M] = Text(cut)] = [n \in 1 .. M |-> IF n = M THEN Text(cut) ELSE s[n]]
    BY <1>1
  <2>. QED BY <1>8, <2>1, <2>2
<1>10. ASSUME NEW n \in 1 .. M PROVE u[n] = q[n]
  <2>1. CASE n = M
    BY <1>4, <1>5, <1>9, <2>1
  <2>2. CASE n # M
    <3>1. n \in 1 .. Len(c)
      BY <1>1
    <3>. QED BY <1>3, <1>4, <1>5, <1>6, <1>9, <2>2, <3>1
  <2>. QED BY <2>1, <2>2
<1>11. q = [n \in 1 .. M |-> q[n]]
  BY <1>1, <1>5
<1>12. u = [n \in 1 .. M |-> u[n]]
  BY <1>9
<1>13. u = q
  BY <1>10, <1>11, <1>12
<1>. QED BY <1>13 DEF u, q, r, d

LEMMA FormatPlainReplyIs ==
    ASSUME NEW lines \in Seq(Lines), NEW strip \in BOOLEAN
    PROVE  FormatPlainReply(lines, strip)
             = Plain(TextChunks(lines, strip), ImageCount(lines, Len(TextChunks(lines, strip))))
<1>. DEFINE raw == Joined(lines)
            count == CountOf(raw, "img")
            text == PlainText(lines, strip)
            split == SplitText(text)
            chunks == IF text = <<>> THEN <<>> ELSE split
            k == Least(count, Room(Len(TextsOf(chunks))))
            all == Plain(chunks, k)
            p == SubSeq(raw, 1, Least(Len(raw), MaxText))
            tc == TextChunks(lines, strip)
            M == MaxMessages
            f == FormatPlainReply(lines, strip)
<1>1. f = TruncateWithNotice(IF all = <<>> THEN <<Text(p)>> ELSE all)
  BY DEF FormatPlainReply, Plain, TextsOf
<1>2. M \in Nat \ {0} /\ count \in Nat
  <2>1. 0 \in 0 .. M
    BY LimitsAssumption
  <2>. QED BY <2>1, LimitsAssumption, ImageCountIs
<1>3. tc \in Seq(Seq(Wide)) /\ Len(tc) \in 0 .. M
  BY TextChunksIs
<1>4. \A n \in Nat : ImageCount(lines, n) = Least(count, M - n)
  BY DEF ImageCount
<1>5. text = <<>> => chunks = <<>> /\ Len(chunks) = 0 /\ <<>> \in Seq(Seq(Wide))
  OBVIOUS
<1>6. text # <<>> => /\ chunks = split /\ chunks \in Seq(Seq(Chars)) /\ chunks # <<>>
                     /\ GoodTexts(split) /\ ShortTexts(split) /\ chunks \in Seq(Seq(Wide))
  BY SplitsWell DEF Wide
<1>7. chunks \in Seq(Seq(Wide)) /\ Len(chunks) \in Nat
  <2>. HIDE DEF chunks
  <2>1. chunks \in Seq(Seq(Wide))
    BY <1>5, <1>6
  <2>. QED BY <2>1
<1>8. tc = IF text = <<>> THEN IF count = 0 THEN <<p>> ELSE <<>>
           ELSE IF Len(chunks) <= M THEN chunks ELSE CutChunks(chunks)
  BY <1>6 DEF TextChunks
<1>. HIDE DEF f, count, text, split, chunks, tc, p
<1>9. k = Least(count, Room(Len(chunks)))
  <2>1. Len(TextsOf(chunks)) = Len(chunks)
    BY <1>7, PlainIs
  <2>. QED BY <2>1
<1>10. k \in Nat /\ (Len(chunks) <= M => k = Least(count, M - Len(chunks)))
       /\ (Len(chunks) > M => k = 0) /\ (Len(chunks) <= M => k + Len(chunks) <= M)
  <2>. HIDE DEF k
  <2>. QED BY <1>2, <1>7, <1>9 DEF Room, Least
<1>. HIDE DEF k
<1>11. all \in Seq(Sent) /\ Len(all) = Len(chunks) + k
  BY <1>7, <1>10, PlainIs
<1>. HIDE DEF all
<1>12. CASE text = <<>> /\ count = 0
  <2>1. Len(all) = 0 /\ k = 0
    BY <1>2, <1>5, <1>10, <1>11, <1>12 DEF Least
  <2>2. all = <<>>
    BY <1>11, <2>1, EmptySeq
  <2>3. tc = <<p>>
    BY <1>8, <1>12
  <2>4. Len(tc) = 1 /\ tc[1] = p
    BY <2>3
  <2>5. Plain(tc, 0) = <<Text(p)>>
    <3>1. /\ Plain(tc, 0) \in Seq(Sent) /\ Len(Plain(tc, 0)) = Len(tc) + 0
          /\ \A n \in 1 .. Len(tc) : Plain(tc, 0)[n] = Text(tc[n])
      <4>1. 0 \in Nat
        OBVIOUS
      <4>. QED BY <1>3, <4>1, PlainIs
    <3>2. Len(Plain(tc, 0)) = 1 /\ Plain(tc, 0)[1] = Text(p)
      BY <2>4, <3>1
    <3>. QED BY <3>1, <3>2
  <2>6. ImageCount(lines, Len(tc)) = 0
    BY <1>2, <1>4, <1>12, <2>4 DEF Least
  <2>7. TruncateWithNotice(<<Text(p)>>) = <<Text(p)>>
    <3>1. Len(<<Text(p)>>) = 1 /\ 1 <= M
      BY <1>2
    <3>. QED BY <3>1 DEF TruncateWithNotice
  <2>. QED BY <1>1, <2>2, <2>5, <2>6, <2>7 DEF f, tc
<1>13. CASE ~(text = <<>> /\ count = 0) /\ Len(chunks) <= M
  <2>1. Len(all) # 0 /\ Len(all) <= M
    BY <1>2, <1>5, <1>6, <1>7, <1>10, <1>11, <1>13 DEF Least
  <2>2. all # <<>>
    BY <2>1
  <2>3. tc = chunks
    BY <1>5, <1>8, <1>13
  <2>4. k = ImageCount(lines, Len(tc))
    BY <1>4, <1>7, <1>10, <1>13, <2>3
  <2>5. f = all
    BY <1>1, <1>11, <2>1, <2>2, NothingToTruncate
  <2>6. all = Plain(chunks, k)
    BY DEF all
  <2>. QED BY <2>3, <2>4, <2>5, <2>6 DEF f, tc
<1>14. CASE Len(chunks) > M
  <2>1. text # <<>>
    BY <1>2, <1>5, <1>14
  <2>2. chunks \in Seq(Seq(Chars)) /\ GoodTexts(chunks) /\ ShortTexts(chunks)
    BY <1>6, <2>1
  <2>3. all # <<>> /\ k = 0
    BY <1>2, <1>10, <1>11, <1>14
  <2>4. f = TruncateWithNotice(Plain(chunks, 0))
    BY <1>1, <2>3 DEF all
  <2>5. f = Plain(CutChunks(chunks), 0)
    BY <1>14, <2>2, <2>4, Truncated
  <2>6. tc = CutChunks(chunks) /\ Len(tc) = M
    <3>1. tc = CutChunks(chunks)
      BY <1>2, <1>7, <1>8, <1>14, <2>1
    <3>2. Len(CutChunks(chunks)) = M
      BY <1>14, <2>2, CutChunksIs
    <3>. QED BY <3>1, <3>2
  <2>7. ImageCount(lines, Len(tc)) = 0
    BY <1>2, <1>4, <2>6 DEF Least
  <2>. QED BY <2>5, <2>6, <2>7 DEF f, tc
<1>. QED BY <1>2, <1>7, <1>12, <1>13, <1>14

-----------------------------------------------------------------------------
(* md_to_flex_contents. *)

\* What is picked comes from a position that is picked.
LEMMA PickIs ==
    ASSUME NEW A, NEW ns
    PROVE  \A s \in Seq(A) : \A n \in 1 .. Len(Pick(s, ns)) :
             \E m \in 1 .. Len(s) : m \in ns /\ Pick(s, ns)[n] = s[m]
<1>. DEFINE Good == {s \in Seq(A) : \A n \in 1 .. Len(Pick(s, ns)) :
                       \E m \in 1 .. Len(s) : m \in ns /\ Pick(s, ns)[n] = s[m]}
<1>1. <<>> \in Good
  BY PickEmpty
<1>2. ASSUME NEW s \in Good, NEW e \in A PROVE Append(s, e) \in Good
  <2>. DEFINE t == Append(s, e)
              v == Pick(s, ns)
              w == Pick(t, ns)
  <2>1. /\ s \in Seq(A) /\ t \in Seq(A) /\ Len(t) = Len(s) + 1 /\ t[Len(t)] = e
        /\ \A n \in 1 .. Len(s) : t[n] = s[n]
        /\ Len(s) \in Nat
    OBVIOUS
  <2>2. v \in Seq(A) /\ w = IF Len(s) + 1 \in ns THEN Append(v, e) ELSE v
    BY <2>1, PickType, PickAppend
  <2>3. \A n \in 1 .. Len(v) : \E m \in 1 .. Len(s) : m \in ns /\ v[n] = s[m]
    OBVIOUS
  <2>. HIDE DEF t, v, w
  <2>4. \A n \in 1 .. Len(v) : \E m \in 1 .. Len(t) : m \in ns /\ v[n] = t[m]
    BY <2>1, <2>3
  <2>5. \A n \in 1 .. Len(w) : \E m \in 1 .. Len(t) : m \in ns /\ w[n] = t[m]
    <3>1. CASE Len(s) + 1 \in ns
      <4>1. /\ Len(w) = Len(v) + 1 /\ w[Len(v) + 1] = e /\ Len(v) \in Nat
            /\ \A n \in 1 .. Len(v) : w[n] = v[n]
        BY <2>2, <3>1
      <4>2. Len(t) \in 1 .. Len(t) /\ Len(t) \in ns
        BY <2>1, <3>1
      <4>. QED BY <2>1, <2>4, <4>1, <4>2
    <3>2. CASE Len(s) + 1 \notin ns
      BY <2>2, <2>4, <3>2
    <3>. QED BY <3>1, <3>2
  <2>. QED BY <2>1, <2>5 DEF t, w
<1>3. Seq(A) \subseteq Good
  <2>1. Good \in SUBSET Seq(A)
    OBVIOUS
  <2>. HIDE DEF Good
  <2>. QED BY <2>1, <1>1, <1>2, Appending
<1>. QED BY <1>3

\* The last line of the table that begins at line i.
TableEnd(lines, i) == Max({j \in i .. Len(lines) : \A k \in i .. j : Bar(lines[k])})
TableAt(lines, i) == i < Len(lines) /\ Bar(lines[i]) /\ IsSep(lines[i + 1])
FlexHead(lines, i) ==
    IF lines[i] = <<>> THEN <<>>
    ELSE IF TableAt(lines, i) THEN FlexTable(SubSeq(lines, i, TableEnd(lines, i)))
    ELSE <<RichText(lines[i])>>
FlexNext(lines, i) == IF TableAt(lines, i) THEN TableEnd(lines, i) + 1 ELSE i + 1
FlexRec(lines, g) ==
    [i \in 1 .. Len(lines) + 1 |->
       CASE i > Len(lines) -> <<>>
         [] i <= Len(lines) /\ lines[i] = <<>> -> g[i + 1]
         [] i < Len(lines) /\ Bar(lines[i]) /\ IsSep(lines[i + 1]) ->
              FlexTable(SubSeq(lines, i, TableEnd(lines, i))) \o g[TableEnd(lines, i) + 1]
         [] OTHER -> <<RichText(lines[i])>> \o g[i + 1]]
FlexFrom(lines) == CHOOSE g : g = FlexRec(lines, g)

LEMMA FlexIsFrom ==
    ASSUME NEW lines
    PROVE  MdToFlexContents(lines) = FlexFrom(lines)[1]
BY DEF MdToFlexContents, FlexFrom, FlexRec, TableEnd

LEMMA BarIsNotEmpty ==
    ASSUME NEW line, Bar(line)
    PROVE  line # <<>>
BY DEF Bar

LEMMA TableEndIs ==
    ASSUME NEW lines \in Seq(Seq(Tokens)), NEW i \in 1 .. Len(lines), TableAt(lines, i)
    PROVE  /\ TableEnd(lines, i) \in i + 1 .. Len(lines)
           /\ \A k \in i .. TableEnd(lines, i) : Bar(lines[k])
           /\ TableEnd(lines, i) < Len(lines) => ~Bar(lines[TableEnd(lines, i) + 1])
<1>. DEFINE T == {j \in i .. Len(lines) : \A k \in i .. j : Bar(lines[k])}
            e == TableEnd(lines, i)
<1>1. Len(lines) \in Nat
  OBVIOUS
<1>2. i + 1 \in T
  <2>1. i < Len(lines) /\ Bar(lines[i]) /\ IsSep(lines[i + 1])
    BY DEF TableAt
  <2>2. lines[i + 1] \in Seq(Tokens)
    BY <1>1, <2>1
  <2>3. Bar(lines[i + 1])
    <3>1. 1 \in DOMAIN lines[i + 1]
      BY <2>1, <2>2 DEF IsSep
    <3>. QED BY <2>1, <3>1 DEF IsSep, Bar
  <2>4. \A k \in i .. i + 1 : k = i \/ k = i + 1
    OBVIOUS
  <2>5. \A k \in i .. i + 1 : Bar(lines[k])
    BY <2>1, <2>3, <2>4
  <2>6. i + 1 \in i .. Len(lines)
    BY <1>1, <2>1
  <2>. QED BY <2>5, <2>6
<1>3. T \in SUBSET (0 .. Len(lines)) /\ T # {}
  <2>1. T \subseteq i .. Len(lines) /\ i .. Len(lines) \subseteq 0 .. Len(lines)
    BY <1>1
  <2>. HIDE DEF T
  <2>. QED BY <1>2, <2>1
<1>4. e \in T /\ \A y \in T : y <= e
  <2>1. e = Max(T)
    BY DEF TableEnd
  <2>. HIDE DEF T, e
  <2>. QED BY <1>1, <1>3, <2>1, MaxIs
<1>5. e \in i .. Len(lines) /\ i + 1 <= e /\ \A k \in i .. e : Bar(lines[k])
  BY <1>2, <1>4
<1>6. e < Len(lines) => ~Bar(lines[e + 1])
  <2>. HIDE DEF e
  <2>. SUFFICES ASSUME e < Len(lines), Bar(lines[e + 1]) PROVE FALSE
    OBVIOUS
  <2>1. \A k \in i .. e + 1 : k \in i .. e \/ k = e + 1
    BY <1>1, <1>5
  <2>2. e + 1 \in i .. Len(lines) /\ \A k \in i .. e + 1 : Bar(lines[k])
    BY <1>1, <1>5, <2>1
  <2>3. e + 1 \in T
    BY <2>2
  <2>. HIDE DEF T
  <2>. QED BY <1>1, <1>4, <1>5, <2>3
<1>. HIDE DEF T, e
<1>. QED BY <1>1, <1>5, <1>6 DEF e

LEMMA FlexNextIs ==
    ASSUME NEW lines \in Seq(Seq(Tokens)), NEW i \in 1 .. Len(lines)
    PROVE  FlexNext(lines, i) \in i + 1 .. Len(lines) + 1
<1>1. Len(lines) \in Nat
  OBVIOUS
<1>2. CASE TableAt(lines, i)
  <2>1. TableEnd(lines, i) \in i + 1 .. Len(lines)
    BY <1>2, TableEndIs
  <2>. QED BY <1>1, <1>2, <2>1 DEF FlexNext
<1>3. CASE ~TableAt(lines, i)
  BY <1>1, <1>3 DEF FlexNext
<1>. QED BY <1>2, <1>3

LEMMA FlexTableIs ==
    ASSUME NEW t \in Seq(Seq(Tokens)), \A k \in 1 .. Len(t) : Bar(t[k])
    PROVE  /\ FlexTable(t) \in Seq(Seq(Tokens))
           /\ \A n \in 1 .. Len(FlexTable(t)) : FlexTable(t)[n] # <<>>
<1>. DEFINE rest == SubSeq(t, 3, Len(t))
            rows == WithoutSeps(rest)
            short == [n \in DOMAIN rows |-> SubSeq(rows[n], 1, Least(Len(rows[n]), Len(t[1])))]
            S == {line \in Seq(Tokens) : line # <<>>}
<1>1. Len(t) \in Nat /\ S \subseteq Seq(Tokens)
  OBVIOUS
<1>2. CASE Len(t) < 3
  BY <1>2 DEF FlexTable
<1>3. CASE ~(Len(t) < 3)
  <2>1. FlexTable(t) = <<t[1]>> \o short
    BY <1>3 DEF FlexTable
  <2>2. \A k \in 1 .. Len(t) : t[k] \in S
    BY BarIsNotEmpty
  <2>3. rest \in Seq(S)
    <3>1. \A k \in 3 .. Len(t) : t[k] \in S
      BY <2>2
    <3>. HIDE DEF S
    <3>. QED BY <1>1, <3>1, SubSeqProperties
  <2>4. rows \in Seq(S)
    <3>. HIDE DEF rest, S
    <3>. QED BY <2>3, PickType DEF WithoutSeps
  <2>5. t[1] \in S /\ Len(t[1]) \in Nat \ {0}
    BY <1>1, <1>3, <2>2
  <2>. HIDE DEF rest, rows
  <2>6. ASSUME NEW n \in DOMAIN rows PROVE short[n] \in S
    <3>. DEFINE r == rows[n]
                k == Least(Len(r), Len(t[1]))
    <3>1. r \in S
      BY <2>4
    <3>. HIDE DEF r
    <3>2. r \in Seq(Tokens) /\ Len(r) \in Nat \ {0}
      BY <3>1
    <3>3. k \in Nat /\ 1 <= k /\ k <= Len(r)
      BY <2>5, <3>2 DEF Least
    <3>. HIDE DEF k
    <3>4. 1 \in Nat \ {0}
      OBVIOUS
    <3>5. SubSeq(r, 1, k) \in Seq(Tokens) /\ Len(SubSeq(r, 1, k)) = k - 1 + 1
      BY <3>2, <3>3, <3>4, PieceIs
    <3>6. SubSeq(r, 1, k) # <<>>
      <4>1. Len(SubSeq(r, 1, k)) # 0
        BY <3>3, <3>5
      <4>. QED BY <3>5, <4>1, EmptySeq
    <3>7. short[n] = SubSeq(r, 1, k)
      BY DEF r, k
    <3>. QED BY <3>5, <3>6, <3>7
  <2>7. short \in Seq(S)
    <3>1. DOMAIN rows = 1 .. Len(rows) /\ Len(rows) \in Nat
      BY <2>4
    <3>2. short \in [1 .. Len(rows) -> S]
      <4>. HIDE DEF S
      <4>. QED BY <2>6, <3>1
    <3>. HIDE DEF short, S
    <3>. QED BY <3>1, <3>2, SeqDef
  <2>8. <<t[1]>> \o short \in Seq(S)
    <3>. HIDE DEF short, S
    <3>. QED BY <2>5, <2>7
  <2>. HIDE DEF short
  <2>. QED BY <2>1, <2>8
<1>. QED BY <1>2, <1>3

\* What rich text shows nothing of.
Textless == {"quote", "void", "sp"}

LEMMA RichTextIs ==
    ASSUME NEW line \in Seq(Tokens)
    PROVE  /\ RichText(line) \in Seq(Tokens)
           /\ RichText(line) = <<>> => ToSet(line) \subseteq Textless
<1>. DEFINE w == Without(line, {"quote"})
            t == Strip(w)
<1>1. RichText(line) = Without(t, {"void"})
  BY DEF RichText
<1>2. w \in Seq(Tokens)
  BY WithoutType
<1>3. t \in Seq(Tokens)
  <2>. HIDE DEF w
  <2>. QED BY <1>2, StripIs
<1>4. Without(t, {"void"}) \in Seq(Tokens)
  <2>. HIDE DEF t
  <2>. QED BY <1>3, WithoutType
<1>5. ASSUME RichText(line) = <<>>, NEW n \in 1 .. Len(line) PROVE line[n] \in Textless
  <2>1. \A m \in 1 .. Len(t) : t[m] \in {"void"}
    <3>1. Without(t, {"void"}) = <<>>
      BY <1>1, <1>5
    <3>. HIDE DEF t
    <3>. QED BY <1>3, <3>1, WithoutIs
  <2>2. \A m \in 1 .. Len(w) : w[m] \in Blanks \/ \E k \in 1 .. Len(t) : t[k] = w[m]
    <3>. HIDE DEF w
    <3>. QED BY <1>2, StripIs
  <2>3. line[n] \in Tokens
    BY ElementOfSeq
  <2>4. line[n] = "quote" \/ \E m \in 1 .. Len(w) : w[m] = line[n]
    BY InkStays
  <2>. HIDE DEF t, w
  <2>5. line[n] = "quote" \/ line[n] \in Blanks \/ line[n] = "void"
    BY <2>1, <2>2, <2>4
  <2>6. line[n] # "nl"
    BY <2>3 DEF Tokens
  <2>. QED BY <2>5, <2>6 DEF Blanks, Textless
<1>6. ToSet(line) = {line[n] : n \in 1 .. Len(line)}
  BY DEF ToSet
<1>. QED BY <1>1, <1>4, <1>5, <1>6

LEMMA FlexHeadType ==
    ASSUME NEW lines \in Seq(Seq(Tokens)), NEW i \in 1 .. Len(lines)
    PROVE  /\ FlexHead(lines, i) \in Seq(Seq(Tokens))
           /\ (lines[i] = <<>> \/ RichText(lines[i]) # <<>>)
                => \A n \in 1 .. Len(FlexHead(lines, i)) : FlexHead(lines, i)[n] # <<>>
<1>1. Len(lines) \in Nat /\ lines[i] \in Seq(Tokens)
  OBVIOUS
<1>2. CASE lines[i] = <<>>
  <2>1. FlexHead(lines, i) = <<>>
    BY <1>2 DEF FlexHead
  <2>. QED BY <2>1
<1>3. CASE lines[i] # <<>> /\ TableAt(lines, i)
  <2>. DEFINE e == TableEnd(lines, i)
              t == SubSeq(lines, i, e)
  <2>1. FlexHead(lines, i) = FlexTable(t)
    BY <1>3 DEF FlexHead
  <2>2. e \in i + 1 .. Len(lines) /\ \A k \in i .. e : Bar(lines[k])
    BY <1>3, TableEndIs
  <2>. HIDE DEF e
  <2>3. /\ t \in Seq(Seq(Tokens)) /\ Len(t) = e - i + 1
        /\ \A k \in 1 .. e - i + 1 : t[k] = lines[i + k - 1]
    <3>1. i \in Int /\ e \in Int /\ i <= e /\ \A k \in i .. e : lines[k] \in Seq(Tokens)
      BY <1>1, <2>2
    <3>. QED BY <3>1, SubSeqProperties
  <2>4. \A k \in 1 .. Len(t) : Bar(t[k])
    <3>. HIDE DEF t
    <3>1. ASSUME NEW k \in 1 .. Len(t) PROVE Bar(t[k])
      <4>1. t[k] = lines[i + k - 1] /\ i + k - 1 \in i .. e
        BY <1>1, <2>2, <2>3
      <4>. QED BY <2>2, <4>1
    <3>. QED BY <3>1
  <2>. HIDE DEF t
  <2>. QED BY <2>1, <2>3, <2>4, FlexTableIs
<1>4. CASE lines[i] # <<>> /\ ~TableAt(lines, i)
  <2>. DEFINE w == RichText(lines[i])
  <2>1. FlexHead(lines, i) = <<w>>
    BY <1>4 DEF FlexHead
  <2>2. w \in Seq(Tokens)
    BY <1>1, RichTextIs
  <2>. HIDE DEF w
  <2>3. <<w>> \in Seq(Seq(Tokens)) /\ Len(<<w>>) = 1 /\ <<w>>[1] = w
    BY <2>2
  <2>. QED BY <1>4, <2>1, <2>3 DEF w
<1>. QED BY <1>2, <1>3, <1>4

LEMMA FlexFromIs ==
    ASSUME NEW lines \in Seq(Seq(Tokens))
    PROVE  FlexFrom(lines) = FlexRec(lines, FlexFrom(lines))
<1>. DEFINE n == Len(lines)
            head == [i \in 1 .. n |-> FlexHead(lines, i)]
            next == [i \in 1 .. n |-> FlexNext(lines, i)]
            B == Seq(Tokens)
<1>1. n \in Nat
  OBVIOUS
<1>2. ASSUME NEW i \in 1 .. n PROVE next[i] \in Int /\ i < next[i] /\ next[i] <= n + 1
  <2>1. FlexNext(lines, i) \in i + 1 .. n + 1
    BY FlexNextIs
  <2>. QED BY <1>1, <2>1
<1>3. head \in [1 .. n -> Seq(B)] /\ next \in [1 .. n -> Int]
  BY <1>2, FlexHeadType
<1>4. PICK f \in [1 .. n + 1 -> Seq(B)] : Jumps(f, n, head, next)
  <2>. HIDE DEF head, next, n, B
  <2>. QED BY <1>1, <1>2, <1>3, JumpsExist
<1>5. f = FlexRec(lines, f)
  <2>1. f[n + 1] = <<>> /\ \A i \in 1 .. n : f[i] = FlexHead(lines, i) \o f[FlexNext(lines, i)]
    BY <1>4 DEF Jumps
  <2>2. ASSUME NEW i \in 1 .. n + 1 PROVE f[i] = FlexRec(lines, f)[i]
    <3>1. CASE i = n + 1
      <4>1. i > n /\ ~(i <= n) /\ ~(i < n)
        BY <1>1, <3>1
      <4>. QED BY <2>1, <3>1, <4>1 DEF FlexRec
    <3>2. CASE i # n + 1 /\ lines[i] = <<>>
      <4>1. i \in 1 .. n /\ ~(i > n) /\ i <= n
        BY <1>1, <3>2
      <4>2. ~Bar(lines[i])
        BY <3>2 DEF Bar
      <4>3. FlexHead(lines, i) = <<>> /\ FlexNext(lines, i) = i + 1
        BY <3>2, <4>2 DEF FlexHead, FlexNext, TableAt
      <4>4. <<>> \o f[i + 1] = f[i + 1]
        <5>1. f[i + 1] \in Seq(B)
          <6>1. i + 1 \in 1 .. n + 1
            BY <1>1, <4>1
          <6>. HIDE DEF n, B
          <6>. QED BY <1>4, <6>1
        <5>. QED BY <5>1, ConcatEmptySeq
      <4>5. FlexRec(lines, f)[i] = f[i + 1]
        BY <3>2, <4>1, <4>2 DEF FlexRec
      <4>. QED BY <2>1, <4>1, <4>3, <4>4, <4>5
    <3>3. CASE i # n + 1 /\ lines[i] # <<>>
      <4>1. i \in 1 .. n /\ ~(i > n) /\ i <= n
        BY <1>1, <3>3
      <4>2. FlexRec(lines, f)[i] = FlexHead(lines, i) \o f[FlexNext(lines, i)]
        <5>1. CASE TableAt(lines, i)
          BY <3>3, <4>1, <5>1 DEF FlexRec, FlexHead, FlexNext, TableAt
        <5>2. CASE ~TableAt(lines, i)
          BY <3>3, <4>1, <5>2 DEF FlexRec, FlexHead, FlexNext, TableAt
        <5>. QED BY <5>1, <5>2
      <4>. QED BY <2>1, <4>1, <4>2
    <3>. QED BY <3>1, <3>2, <3>3
  <2>3. f = [i \in 1 .. n + 1 |-> f[i]]
    BY <1>4
  <2>4. FlexRec(lines, f) = [i \in 1 .. n + 1 |-> FlexRec(lines, f)[i]]
    BY DEF FlexRec
  <2>. QED BY <2>2, <2>3, <2>4
<1>. QED BY <1>5 DEF FlexFrom

\* What the loop adds at each line, and where it goes on.
LEMMA FlexStep ==
    ASSUME NEW lines \in Seq(Seq(Tokens))
    PROVE  /\ FlexFrom(lines)[Len(lines) + 1] = <<>>
           /\ \A i \in 1 .. Len(lines) :
                /\ lines[i] = <<>> => FlexFrom(lines)[i] = FlexFrom(lines)[i + 1]
                /\ lines[i] # <<>> =>
                     FlexFrom(lines)[i] = FlexHead(lines, i) \o FlexFrom(lines)[FlexNext(lines, i)]
<1>. DEFINE g == FlexFrom(lines)
            n == Len(lines)
<1>1. g = FlexRec(lines, g) /\ n \in Nat
  BY FlexFromIs
<1>. HIDE DEF g
<1>2. g[n + 1] = <<>>
  <2>1. n + 1 > n /\ n + 1 \in 1 .. n + 1 /\ ~(n + 1 <= n) /\ ~(n + 1 < n)
    BY <1>1
  <2>2. FlexRec(lines, g)[n + 1] = <<>>
    BY <2>1 DEF FlexRec
  <2>. QED BY <1>1, <2>2
<1>3. ASSUME NEW i \in 1 .. n
      PROVE  /\ lines[i] = <<>> => g[i] = g[i + 1]
             /\ lines[i] # <<>> => g[i] = FlexHead(lines, i) \o g[FlexNext(lines, i)]
  <2>1. i \in 1 .. n + 1 /\ ~(i > n) /\ i <= n
    BY <1>1
  <2>2. CASE lines[i] = <<>>
    <3>1. ~Bar(lines[i])
      BY <2>2 DEF Bar
    <3>2. FlexRec(lines, g)[i] = g[i + 1]
      BY <2>1, <2>2, <3>1 DEF FlexRec
    <3>. QED BY <1>1, <2>2, <3>2
  <2>3. CASE lines[i] # <<>>
    <3>1. FlexRec(lines, g)[i] = FlexHead(lines, i) \o g[FlexNext(lines, i)]
      <4>1. CASE TableAt(lines, i)
        BY <2>1, <2>3, <4>1 DEF FlexRec, FlexHead, FlexNext, TableAt
      <4>2. CASE ~TableAt(lines, i)
        BY <2>1, <2>3, <4>2 DEF FlexRec, FlexHead, FlexNext, TableAt
      <4>. QED BY <4>1, <4>2
    <3>. QED BY <1>1, <2>3, <3>1
  <2>. QED BY <2>2, <2>3
<1>. QED BY <1>2, <1>3 DEF g

LEMMA ContentsAre ==
    ASSUME NEW lines \in Seq(Seq(Tokens))
    PROVE  /\ MdToFlexContents(lines) \in Seq(Seq(Tokens))
           /\ (\A i \in 1 .. Len(lines) :
                 lines[i] = <<>> \/ RichText(lines[i]) # <<>>)
                => \A n \in 1 .. Len(MdToFlexContents(lines)) : MdToFlexContents(lines)[n] # <<>>
<1>. DEFINE n == Len(lines)
            g == FlexFrom(lines)
            Full == \A i \in 1 .. n : lines[i] = <<>> \/ RichText(lines[i]) # <<>>
            B == IF Full THEN {line \in Seq(Tokens) : line # <<>>} ELSE Seq(Tokens)
            Good == {i \in 1 .. n + 1 : g[i] \in Seq(B)}
<1>1. n \in Nat /\ B \subseteq Seq(Tokens)
  OBVIOUS
<1>2. n + 1 \in Good
  <2>1. g[n + 1] = <<>>
    BY FlexStep
  <2>2. n + 1 \in 1 .. n + 1
    BY <1>1
  <2>. HIDE DEF g, n, B
  <2>3. g[n + 1] \in Seq(B)
    BY <2>1, EmptySeq
  <2>. QED BY <2>2, <2>3
<1>3. ASSUME NEW i \in 1 .. n, \A j \in i + 1 .. n + 1 : j \in Good PROVE i \in Good
  <2>1. i + 1 \in i + 1 .. n + 1 /\ i \in 1 .. n + 1
    BY <1>1
  <2>2. CASE lines[i] = <<>>
    <3>1. g[i] = g[i + 1]
      BY <2>2, FlexStep
    <3>2. g[i + 1] \in Seq(B)
      <4>. HIDE DEF g, n, B
      <4>. QED BY <1>3, <2>1
    <3>. HIDE DEF g, n, B
    <3>. QED BY <2>1, <3>1, <3>2
  <2>3. CASE lines[i] # <<>>
    <3>. DEFINE r == FlexNext(lines, i)
                h == FlexHead(lines, i)
    <3>1. g[i] = h \o g[r]
      BY <2>3, FlexStep
    <3>2. g[r] \in Seq(B)
      <4>1. r \in i + 1 .. n + 1
        BY FlexNextIs
      <4>. HIDE DEF g, n, B, r
      <4>. QED BY <1>3, <4>1
    <3>3. h \in Seq(B)
      <4>1. h \in Seq(Seq(Tokens)) /\ (Full => \A k \in 1 .. Len(h) : h[k] # <<>>)
        BY FlexHeadType
      <4>. HIDE DEF h, Full, n
      <4>2. CASE Full
        <5>1. \A k \in 1 .. Len(h) : h[k] \in B
          BY <4>1, <4>2
        <5>2. Len(h) \in Nat /\ h = [k \in 1 .. Len(h) |-> h[k]]
          BY <4>1
        <5>. DEFINE l == Len(h)
        <5>. HIDE DEF B
        <5>3. h \in [1 .. l -> B] /\ l \in Nat
          BY <5>1, <5>2
        <5>. HIDE DEF l
        <5>. QED BY <5>3, SeqDef
      <4>3. CASE ~Full
        BY <4>1, <4>3
      <4>. QED BY <4>2, <4>3
    <3>4. h \o g[r] \in Seq(B)
      <4>. HIDE DEF g, n, B, r, h
      <4>. QED BY <3>2, <3>3, ConcatProperties
    <3>. HIDE DEF g, n, B, r, h
    <3>. QED BY <2>1, <3>1, <3>4
  <2>. QED BY <2>2, <2>3
<1>4. 1 \in Good
  <2>1. 1 \in 1 .. n + 1
    BY <1>1
  <2>. HIDE DEF Good, n
  <2>2. 1 .. n + 1 \subseteq Good
    BY <1>1, <1>2, <1>3, Downwards
  <2>. QED BY <2>1, <2>2
<1>5. g[1] \in Seq(B)
  BY <1>4
<1>6. MdToFlexContents(lines) = g[1]
  BY FlexIsFrom
<1>7. Full => \A m \in 1 .. Len(g[1]) : g[1][m] # <<>>
  <2>. HIDE DEF g, Full
  <2>. QED BY <1>5
<1>8. g[1] \in Seq(Seq(Tokens))
  <2>. HIDE DEF g, B
  <2>. QED BY <1>1, <1>5
<1>. QED BY <1>6, <1>7, <1>8

LEMMA FlexLinesAre ==
    ASSUME NEW lines \in Seq(Lines)
    PROVE  FlexLines(lines) \in Seq(Seq(Tokens)) /\ Len(FlexLines(lines)) = Len(lines)
<1>. DEFINE clean == FlexLines(lines)
            K == {"img", "bad"}
<1>1. Len(lines) \in Nat /\ DOMAIN lines = 1 .. Len(lines)
  OBVIOUS
<1>2. ASSUME NEW i \in 1 .. Len(lines) PROVE clean[i] \in Seq(Tokens)
  <2>1. lines[i] \in Lines
    BY ElementOfSeq
  <2>2. lines[i] \in Seq(Tokens)
    BY <2>1, LinesAssumption
  <2>3. clean[i] = Strip(Without(lines[i], K))
    BY <1>1 DEF FlexLines
  <2>. HIDE DEF K, clean
  <2>4. Without(lines[i], K) \in Seq(Tokens)
    BY <2>2, WithoutType
  <2>. QED BY <2>3, <2>4, StripIs
<1>3. clean \in [1 .. Len(lines) -> Seq(Tokens)]
  <2>1. clean = [i \in 1 .. Len(lines) |-> clean[i]]
    BY <1>1 DEF FlexLines
  <2>. HIDE DEF clean
  <2>. QED BY <1>2, <2>1
<1>. HIDE DEF clean
<1>4. clean \in Seq(Seq(Tokens)) /\ Len(clean) = Len(lines)
  <2>. DEFINE n == Len(lines)
  <2>1. n \in Nat /\ clean \in [1 .. n -> Seq(Tokens)]
    BY <1>1, <1>3
  <2>. HIDE DEF n
  <2>2. clean \in Seq(Seq(Tokens)) /\ Len(clean) = n
    BY <2>1, SeqDef
  <2>. QED BY <2>2 DEF n
<1>. QED BY <1>4 DEF clean

-----------------------------------------------------------------------------
(* The reply. *)

Contents(lines) == MdToFlexContents(FlexLines(lines))
Bubble(c, k) == <<Flex(c)>> \o Images(k)

LEMMA BubbleIs ==
    ASSUME NEW c, NEW k \in Nat
    PROVE  /\ Len(Bubble(c, k)) = k + 1 /\ Bubble(c, k)[1] = Flex(c)
           /\ \A n \in 2 .. k + 1 : Bubble(c, k)[n] = Image(n - 1)
           /\ Bubble(c, k) \in Seq({Flex(c)} \cup {Image(n) : n \in 1 .. k})
<1>. DEFINE S == {Flex(c)} \cup {Image(n) : n \in 1 .. k}
            o == <<Flex(c)>>
            t == Images(k)
<1>1. o \in Seq(S) /\ Len(o) = 1 /\ o[1] = Flex(c)
  OBVIOUS
<1>2. t \in [1 .. k -> S] /\ \A n \in 1 .. k : t[n] = Image(n)
  BY DEF Images
<1>. HIDE DEF o, t, S
<1>3. t \in Seq(S) /\ Len(t) = k
  BY <1>2, SeqDef
<1>4. /\ o \o t \in Seq(S) /\ Len(o \o t) = Len(o) + Len(t)
      /\ \A n \in 1 .. Len(o) + Len(t) : (o \o t)[n] = IF n <= Len(o) THEN o[n] ELSE t[n - Len(o)]
  BY <1>1, <1>3, ConcatProperties
<1>5. \A n \in 2 .. k + 1 : (o \o t)[n] = Image(n - 1)
  BY <1>1, <1>2, <1>3, <1>4
<1>6. (o \o t)[1] = Flex(c) /\ Len(o \o t) = k + 1
  BY <1>1, <1>3, <1>4
<1>. QED BY <1>4, <1>5, <1>6 DEF Bubble, o, t, S

LEMMA BuildReplyIs ==
    ASSUME NEW lines \in Seq(Lines), NEW flex \in BOOLEAN, NEW strip \in BOOLEAN
    PROVE  \/ BuildReply(lines, flex, strip)
                = Plain(TextChunks(lines, strip),
                        ImageCount(lines, Len(TextChunks(lines, strip))))
           \/ BuildReply(lines, flex, strip) = Plain(<<>>, ImageCount(lines, 0))
           \/ /\ BuildReply(lines, flex, strip) = Bubble(Contents(lines), ImageCount(lines, 1))
              /\ Contents(lines) # <<>>
<1>. DEFINE clean == FlexLines(lines)
            contents == Contents(lines)
            blank == \A n \in DOMAIN clean : clean[n] = <<>>
            images == CountOf(Joined(lines), "img")
            big == contents = <<>> \/ Len(FlattenSeq(contents)) > MaxBubble
            f == FormatFlexReply(lines)
<1>1. f = CASE blank -> Images(Least(images, MaxMessages))
            [] ~blank /\ big -> <<>>
            [] OTHER -> <<Flex(contents)>> \o Images(Least(images, MaxMessages - 1))
  BY DEF FormatFlexReply, Contents
<1>2. BuildReply(lines, flex, strip) = IF flex /\ f # <<>> THEN f
                                       ELSE FormatPlainReply(lines, strip)
  BY DEF BuildReply
<1>. HIDE DEF f, clean
<1>3. CASE ~(flex /\ f # <<>>)
  BY <1>2, <1>3, FormatPlainReplyIs
<1>4. CASE flex /\ f # <<>> /\ blank
  <2>1. f = Images(ImageCount(lines, 0))
    <3>1. f = Images(Least(images, MaxMessages))
      BY <1>1, <1>4
    <3>2. MaxMessages - 0 = MaxMessages
      BY LimitsAssumption
    <3>. QED BY <3>1, <3>2 DEF ImageCount
  <2>2. Plain(<<>>, ImageCount(lines, 0)) = Images(ImageCount(lines, 0))
    <3>. DEFINE k == ImageCount(lines, 0)
    <3>1. k \in Nat
      <4>1. 0 \in 0 .. MaxMessages
        BY LimitsAssumption
      <4>2. k \in 0 .. MaxMessages - 0
        BY <4>1, ImageCountIs
      <4>. QED BY <4>2
    <3>. HIDE DEF k
    <3>2. <<>> \in Seq(Seq(Wide))
      OBVIOUS
    <3>3. Images(k) \in Seq(Sent)
      BY <3>1, <3>2, PlainIs
    <3>4. TextsOf(<<>>) = <<>>
      BY DEF TextsOf
    <3>5. <<>> \o Images(k) = Images(k)
      BY <3>3, ConcatEmptySeq
    <3>. QED BY <3>4, <3>5 DEF Plain, k
  <2>. QED BY <1>2, <1>4, <2>1, <2>2
<1>5. CASE flex /\ f # <<>> /\ ~blank
  <2>1. ~big
    BY <1>1, <1>5
  <2>2. f = <<Flex(contents)>> \o Images(Least(images, MaxMessages - 1)) /\ contents # <<>>
    BY <1>1, <1>5, <2>1
  <2>. QED BY <1>2, <1>5, <2>2 DEF Bubble, ImageCount
<1>. QED BY <1>3, <1>4, <1>5

-----------------------------------------------------------------------------
(* The inductive invariant: the reply is one that build_reply returns, whether *)
(* or not a conversion to Flex has raised.                                     *)

FormInv ==
    /\ answer \in Seq(Lines) /\ flex_enabled \in BOOLEAN /\ strip_md \in BOOLEAN
    /\ reply = <<>> \/ \E flex \in BOOLEAN : reply = BuildReply(answer, flex, strip_md)

LEMMA FormInvHolds == Spec => []FormInv
<1>1. Init => FormInv
  <2>. SUFFICES ASSUME Init PROVE FormInv
    OBVIOUS
  <2>1. PICK n \in 1 .. MaxLines : answer \in [1 .. n -> Lines]
    BY DEF Init
  <2>2. n \in Nat
    BY <2>1, LimitsAssumption
  <2>3. answer \in Seq(Lines)
    BY <2>1, <2>2, SeqDef
  <2>. QED BY <2>3 DEF Init, FormInv
<1>2. FormInv /\ [Reply]_vars => FormInv'
  BY DEF FormInv, Reply, vars
<1>. QED BY <1>1, <1>2, PTL DEF Spec

SendableAs(r, text, lines) ==
    /\ Len(r) <= MaxMessages
    /\ \A n \in DOMAIN r :
         /\ r[n].type = "text" =>
              /\ Len(r[n].text) <= MaxText
              /\ text # <<>> => Honest(text, r[n].text)
         /\ r[n].type = "flex" =>
              /\ n = 1 /\ r[n].contents # <<>>
              /\ \/ <<>> \notin ToSet(r[n].contents)
                 \/ \E line \in ToSet(FlexLines(lines)) :
                      line # <<>> /\ ToSet(line) \subseteq Textless
         /\ n > 1 /\ r[n].type = "text" => r[n - 1].type = "text"

LEMMA MessageFields ==
    /\ \A t : Text(t).type = "text" /\ Text(t).text = t
    /\ \A n : Image(n).type = "image" /\ Image(n).url = n
    /\ \A c : Flex(c).type = "flex" /\ Flex(c).contents = c
BY DEF Text, Image, Flex

LEMMA PlainSendable ==
    ASSUME NEW c \in Seq(Seq(Wide)), NEW k \in Nat, NEW text, NEW lines,
           Len(c) + k <= MaxMessages, ShortTexts(c), text # <<>> => AllHonest(text, c)
    PROVE  SendableAs(Plain(c, k), text, lines)
<1>. DEFINE r == Plain(c, k)
<1>1. /\ r \in Seq(Sent) /\ Len(r) = Len(c) + k
      /\ \A n \in 1 .. Len(c) : r[n] = Text(c[n])
      /\ \A n \in Len(c) + 1 .. Len(c) + k : r[n] = Image(n - Len(c))
  BY PlainIs
<1>2. Len(c) \in Nat /\ \A n \in 1 .. Len(c) : c[n] \in Seq(Wide)
  OBVIOUS
<1>. HIDE DEF r
<1>3. DOMAIN r = 1 .. Len(c) + k
  BY <1>1
<1>4. ASSUME NEW n \in 1 .. Len(c)
      PROVE  r[n].type = "text" /\ r[n].text = c[n]
  BY <1>1, MessageFields
<1>5. ASSUME NEW n \in Len(c) + 1 .. Len(c) + k PROVE r[n].type = "image"
  BY <1>1, MessageFields
<1>6. ASSUME NEW n \in DOMAIN r
      PROVE  /\ r[n].type = "text" =>
                  /\ Len(r[n].text) <= MaxText
                  /\ text # <<>> => Honest(text, r[n].text)
             /\ r[n].type # "flex"
             /\ n > 1 /\ r[n].type = "text" => r[n - 1].type = "text"
  <2>1. CASE n \in 1 .. Len(c)
    <3>1. Len(c[n]) <= MaxText
      BY <2>1 DEF ShortTexts
    <3>2. text # <<>> => Honest(text, c[n])
      BY <2>1 DEF AllHonest
    <3>3. n > 1 => n - 1 \in 1 .. Len(c)
      BY <2>1
    <3>. QED BY <1>4, <2>1, <3>1, <3>2, <3>3
  <2>2. CASE n \in Len(c) + 1 .. Len(c) + k
    BY <1>5, <2>2
  <2>. QED BY <1>2, <1>3, <2>1, <2>2
<1>7. SendableAs(r, text, lines)
  BY <1>1, <1>6 DEF SendableAs
<1>. QED BY <1>7 DEF r

LEMMA BubbleSendable ==
    ASSUME NEW lines \in Seq(Lines), NEW k \in Nat, NEW text, k + 1 <= MaxMessages,
           Contents(lines) # <<>>
    PROVE  SendableAs(Bubble(Contents(lines), k), text, lines)
<1>. DEFINE c == Contents(lines)
            r == Bubble(c, k)
            clean == FlexLines(lines)
<1>1. /\ Len(r) = k + 1 /\ r[1] = Flex(c)
      /\ \A n \in 2 .. k + 1 : r[n] = Image(n - 1)
      /\ DOMAIN r = 1 .. k + 1
  <2>. HIDE DEF c
  <2>1. /\ Len(r) = k + 1 /\ r[1] = Flex(c)
        /\ \A n \in 2 .. k + 1 : r[n] = Image(n - 1)
        /\ r \in Seq({Flex(c)} \cup {Image(n) : n \in 1 .. k})
    BY BubbleIs
  <2>2. DOMAIN r = 1 .. Len(r)
    <3>. DEFINE S == {Flex(c)} \cup {Image(n) : n \in 1 .. k}
    <3>1. r \in Seq(S)
      BY <2>1
    <3>. HIDE DEF S, r
    <3>. QED BY <3>1
  <2>. QED BY <2>1, <2>2
<1>2. clean \in Seq(Seq(Tokens))
  BY FlexLinesAre
<1>. DEFINE Vanishes == \E line \in ToSet(clean) :
                          line # <<>> /\ ToSet(line) \subseteq Textless
<1>3. <<>> \notin ToSet(c) \/ Vanishes
  <2>. SUFFICES ASSUME ~Vanishes PROVE <<>> \notin ToSet(c)
    OBVIOUS
  <2>. HIDE DEF clean
  <2>1. ASSUME NEW i \in 1 .. Len(clean)
        PROVE  clean[i] = <<>> \/ RichText(clean[i]) # <<>>
    <3>1. clean[i] \in Seq(Tokens) /\ i \in DOMAIN clean
      BY <1>2
    <3>2. clean[i] \in ToSet(clean)
      BY <3>1 DEF ToSet
    <3>3. clean[i] = <<>> \/ ~(ToSet(clean[i]) \subseteq Textless)
      BY <3>2
    <3>. QED BY <3>1, <3>3, RichTextIs
  <2>2. /\ MdToFlexContents(clean) \in Seq(Seq(Tokens))
        /\ \A n \in 1 .. Len(MdToFlexContents(clean)) : MdToFlexContents(clean)[n] # <<>>
    BY <1>2, <2>1, ContentsAre
  <2>3. c = MdToFlexContents(clean)
    BY DEF Contents, clean
  <2>. QED BY <2>2, <2>3 DEF ToSet
<1>. HIDE DEF c, r, clean
<1>4. ASSUME NEW n \in 1 .. k + 1
      PROVE  /\ r[n].type # "text"
             /\ r[n].type = "flex" => n = 1
  <2>1. CASE n = 1
    BY <1>1, <2>1, MessageFields
  <2>2. CASE n \in 2 .. k + 1
    BY <1>1, <2>2, MessageFields
  <2>. QED BY <2>1, <2>2
<1>5. r[1].contents = c
  BY <1>1, MessageFields
<1>6. SendableAs(r, text, lines)
  BY <1>1, <1>3, <1>4, <1>5 DEF SendableAs, c, clean
<1>. QED BY <1>6 DEF r, c

LEMMA ReplySendable ==
    ASSUME FormInv, Done
    PROVE  SendableAs(reply, PlainText(answer, strip_md), answer)
<1>. DEFINE c == TextChunks(answer, strip_md)
            text == PlainText(answer, strip_md)
<1>1. PICK flex \in BOOLEAN :
        /\ answer \in Seq(Lines) /\ strip_md \in BOOLEAN
        /\ reply = BuildReply(answer, flex, strip_md)
  BY DEF FormInv, Done
<1>2. /\ c \in Seq(Seq(Wide)) /\ Len(c) \in 0 .. MaxMessages /\ ShortTexts(c)
      /\ text # <<>> => AllHonest(text, c)
  BY <1>1, TextChunksIs
<1>3. \A n \in 0 .. MaxMessages : ImageCount(answer, n) \in 0 .. MaxMessages - n
  BY <1>1, ImageCountIs
<1>4. MaxMessages \in Nat \ {0} /\ MaxText \in Nat
  BY LimitsAssumption
<1>. HIDE DEF c, text
<1>5. CASE reply = Plain(c, ImageCount(answer, Len(c)))
  <2>. DEFINE k == ImageCount(answer, Len(c))
  <2>1. k \in Nat /\ Len(c) + k <= MaxMessages
    <3>1. k \in 0 .. MaxMessages - Len(c)
      BY <1>2, <1>3
    <3>. HIDE DEF k
    <3>. QED BY <1>2, <1>4, <3>1
  <2>. HIDE DEF k
  <2>2. SendableAs(Plain(c, k), text, answer)
    BY <1>2, <2>1, PlainSendable
  <2>. QED BY <1>5, <2>2 DEF k, text
<1>6. CASE reply = Plain(<<>>, ImageCount(answer, 0))
  <2>. DEFINE k == ImageCount(answer, 0)
              e == <<>>
  <2>1. k \in Nat /\ 0 + k <= MaxMessages
    <3>1. k \in 0 .. MaxMessages - 0
      <4>1. 0 \in 0 .. MaxMessages
        BY <1>4
      <4>. QED BY <1>3, <4>1
    <3>. HIDE DEF k
    <3>. QED BY <1>4, <3>1
  <2>2. e \in Seq(Seq(Wide)) /\ Len(e) = 0 /\ ShortTexts(e) /\ AllHonest(text, e)
    BY DEF ShortTexts, AllHonest
  <2>. HIDE DEF k, e
  <2>3. SendableAs(Plain(e, k), text, answer)
    BY <2>1, <2>2, PlainSendable
  <2>. QED BY <1>6, <2>3 DEF k, e, text
<1>7. CASE reply = Bubble(Contents(answer), ImageCount(answer, 1)) /\ Contents(answer) # <<>>
  <2>. DEFINE k == ImageCount(answer, 1)
  <2>1. k \in Nat /\ k + 1 <= MaxMessages
    <3>1. k \in 0 .. MaxMessages - 1
      <4>1. 1 \in 0 .. MaxMessages
        BY <1>4
      <4>. QED BY <1>3, <4>1
    <3>. HIDE DEF k
    <3>. QED BY <1>4, <3>1
  <2>. HIDE DEF k
  <2>2. SendableAs(Bubble(Contents(answer), k), text, answer)
    BY <1>1, <1>7, <2>1, BubbleSendable
  <2>. QED BY <1>7, <2>2 DEF k, text
<1>. QED BY <1>1, <1>5, <1>6, <1>7, BuildReplyIs DEF c

\* What build_reply returns for every answer, whether or not a conversion raises:
\* the number of messages and their order fit LINE, as does the length of each
\* text; a text is blank only if stripping left nothing of the answer or split_text
\* has cut it out of a line of blanks, and a bubble holds an empty text only for a
\* line that is a quote or markup without text.
THEOREM RepliesAreSendable == Spec => []Sendable
<1>1. FormInv => Sendable
  <2>. SUFFICES ASSUME FormInv, Done PROVE SendableAs(reply, PlainText(answer, strip_md), answer)
    BY DEF Sendable, SendableAs, Honest, Textless
  <2>. QED BY ReplySendable
<1>. QED BY <1>1, FormInvHolds, PTL

-----------------------------------------------------------------------------
(* Images. *)

LEMMA PickAll ==
    ASSUME NEW A, NEW ns
    PROVE  \A s \in Seq(A) : DOMAIN s \subseteq ns => Pick(s, ns) = s
<1>. DEFINE Good == {s \in Seq(A) : DOMAIN s \subseteq ns => Pick(s, ns) = s}
<1>1. <<>> \in Good
  BY PickEmpty
<1>2. ASSUME NEW s \in Good, NEW e \in A PROVE Append(s, e) \in Good
  <2>. DEFINE t == Append(s, e)
  <2>1. /\ s \in Seq(A) /\ t \in Seq(A) /\ DOMAIN t = 1 .. Len(s) + 1 /\ DOMAIN s = 1 .. Len(s)
        /\ Len(s) \in Nat /\ (DOMAIN s \subseteq ns => Pick(s, ns) = s)
    OBVIOUS
  <2>2. Pick(t, ns) = IF Len(s) + 1 \in ns THEN Append(Pick(s, ns), e) ELSE Pick(s, ns)
    BY <2>1, PickAppend
  <2>3. ASSUME DOMAIN t \subseteq ns PROVE Pick(t, ns) = t
    <3>1. Len(s) + 1 \in DOMAIN t /\ DOMAIN s \subseteq DOMAIN t
      BY <2>1
    <3>. QED BY <2>1, <2>2, <2>3, <3>1
  <2>. QED BY <2>1, <2>3
<1>3. Seq(A) \subseteq Good
  <2>1. Good \in SUBSET Seq(A)
    OBVIOUS
  <2>. HIDE DEF Good
  <2>. QED BY <2>1, <1>1, <1>2, Appending
<1>. QED BY <1>3

LEMMA PickNone ==
    ASSUME NEW A, NEW s \in Seq(A), NEW ns, ns \cap DOMAIN s = {}
    PROVE  Pick(s, ns) = <<>>
<1>1. Pick(s, ns) \in Seq(A)
  BY PickType
<1>2. ~\E n \in 1 .. Len(Pick(s, ns)) : TRUE
  <2>1. DOMAIN s = 1 .. Len(s)
    OBVIOUS
  <2>2. \A n \in 1 .. Len(Pick(s, ns)) : \E m \in 1 .. Len(s) : m \in ns
    BY PickIs
  <2>. QED BY <2>1, <2>2
<1>3. Len(Pick(s, ns)) = 0
  BY <1>1, <1>2
<1>. QED BY <1>1, <1>3, EmptySeq

Shifted(ns, k) == {n \in Nat : k + n \in ns}

LEMMA PickConcat ==
    ASSUME NEW A, NEW ns, NEW s \in Seq(A)
    PROVE  \A t \in Seq(A) : Pick(s \o t, ns) = Pick(s, ns) \o Pick(t, Shifted(ns, Len(s)))
<1>. DEFINE ms == Shifted(ns, Len(s))
            Good == {t \in Seq(A) : Pick(s \o t, ns) = Pick(s, ns) \o Pick(t, ms)}
<1>0. Pick(s, ns) \in Seq(A)
  BY PickType
<1>1. <<>> \in Good
  <2>1. <<>> \in Seq(A) /\ s \o <<>> = s /\ Pick(s, ns) \o <<>> = Pick(s, ns)
    BY <1>0, ConcatEmptySeq
  <2>2. Pick(<<>>, ms) = <<>>
    BY PickEmpty
  <2>. QED BY <2>1, <2>2
<1>2. ASSUME NEW t \in Good, NEW e \in A PROVE Append(t, e) \in Good
  <2>. DEFINE u == Append(t, e)
              st == s \o t
  <2>1. /\ t \in Seq(A) /\ u \in Seq(A) /\ st \in Seq(A)
        /\ s \o u = Append(st, e) /\ Len(st) = Len(s) + Len(t)
        /\ Len(s) \in Nat /\ Len(t) \in Nat
    OBVIOUS
  <2>2. Pick(st, ns) = Pick(s, ns) \o Pick(t, ms)
    OBVIOUS
  <2>3. Len(t) + 1 \in ms <=> Len(st) + 1 \in ns
    <3>1. Len(s) + (Len(t) + 1) = Len(st) + 1 /\ Len(t) + 1 \in Nat
      BY <2>1
    <3>. QED BY <3>1 DEF Shifted
  <2>. HIDE DEF st, ms, Good
  <2>4. Pick(Append(st, e), ns) = IF Len(st) + 1 \in ns THEN Append(Pick(st, ns), e)
                                                        ELSE Pick(st, ns)
    BY <2>1, PickAppend
  <2>5. Pick(u, ms) = IF Len(t) + 1 \in ms THEN Append(Pick(t, ms), e) ELSE Pick(t, ms)
    BY <2>1, PickAppend
  <2>6. Append(Pick(s, ns) \o Pick(t, ms), e) = Pick(s, ns) \o Append(Pick(t, ms), e)
    <3>. DEFINE a == Pick(s, ns)
                b == Pick(t, ms)
    <3>1. a \in Seq(A) /\ b \in Seq(A)
      BY <1>0, <2>1, PickType
    <3>. HIDE DEF a, b
    <3>2. Append(a \o b, e) = a \o Append(b, e)
      <4>1. AppendsTo(a, b, e)
        BY <3>1, AppendToConcat
      <4>. QED BY ONLY <4>1 DEF AppendsTo
    <3>. QED BY <3>2 DEF a, b
  <2>7. Pick(s \o u, ns) = Pick(s, ns) \o Pick(u, ms)
    BY <2>1, <2>2, <2>3, <2>4, <2>5, <2>6
  <2>. QED BY <2>1, <2>7 DEF Good
<1>3. Seq(A) \subseteq Good
  <2>1. Good \in SUBSET Seq(A)
    OBVIOUS
  <2>. HIDE DEF Good
  <2>. QED BY <2>1, <1>1, <1>2, Appending
<1>. QED BY <1>3

PickSplits(s, t, ns) ==
    Pick(s \o t, ns) = Pick(s, ns) \o Pick(t, Shifted(ns, Len(s)))
LEMMA PickConcatIs ==
    ASSUME NEW A, NEW ns, NEW s \in Seq(A), NEW t \in Seq(A)
    PROVE  PickSplits(s, t, ns)
BY PickConcat DEF PickSplits

TypePick(r, type) == Pick(r, {n \in DOMAIN r : r[n].type = type})
Others(r) == Cardinality({n \in DOMAIN r : r[n].type # "image"})

LEMMA PlainPicks ==
    ASSUME NEW c \in Seq(Seq(Wide)), NEW k \in Nat
    PROVE  /\ TypePick(Plain(c, k), "image") = Images(k)
           /\ TypePick(Plain(c, k), "text") = TextsOf(c)
           /\ Others(Plain(c, k)) = Len(c)
<1>. DEFINE r == Plain(c, k)
            s == TextsOf(c)
            t == Images(k)
            l == Len(c)
            img == {n \in DOMAIN r : r[n].type = "image"}
            txt == {n \in DOMAIN r : r[n].type = "text"}
            oth == {n \in DOMAIN r : r[n].type # "image"}
<1>1. /\ r \in Seq(Sent) /\ Len(r) = l + k
      /\ \A n \in 1 .. l : r[n] = Text(c[n])
      /\ \A n \in l + 1 .. l + k : r[n] = Image(n - l)
      /\ s \in Seq(Sent) /\ t \in Seq(Sent) /\ Len(s) = l /\ Len(t) = k
  BY PlainIs
<1>2. l \in Nat /\ r = s \o t
  BY DEF Plain
<1>. HIDE DEF r, s, t, l
<1>3. /\ \A n \in 1 .. l : r[n].type = "text"
      /\ \A n \in l + 1 .. l + k : r[n].type = "image"
      /\ DOMAIN r = 1 .. l + k /\ DOMAIN s = 1 .. l /\ DOMAIN t = 1 .. k
  BY <1>1, MessageFields
<1>4. \A n \in DOMAIN r : n \in 1 .. l \/ n \in l + 1 .. l + k
  BY <1>2, <1>3
<1>5. txt = 1 .. l /\ oth = 1 .. l
  <2>1. 1 .. l \subseteq DOMAIN r /\ \A n \in l + 1 .. l + k : n \notin 1 .. l
    BY <1>2, <1>3
  <2>. QED BY <1>3, <1>4, <2>1
<1>6. img = l + 1 .. l + k
  <2>1. l + 1 .. l + k \subseteq DOMAIN r
    BY <1>2, <1>3
  <2>. QED BY <1>3, <1>4, <2>1
<1>. HIDE DEF img, txt, oth
<1>7. Pick(r, img) = t
  <2>1. Pick(r, img) = Pick(s, img) \o Pick(t, Shifted(img, l))
    <3>1. PickSplits(s, t, img)
      BY <1>1, PickConcatIs
    <3>2. Len(s) = l
      BY <1>1
    <3>. QED BY ONLY <1>2, <3>1, <3>2 DEF PickSplits
  <2>2. Pick(s, img) = <<>>
    <3>1. img \cap DOMAIN s = {}
      BY <1>2, <1>3, <1>6
    <3>. QED BY <1>1, <3>1, PickNone
  <2>3. Pick(t, Shifted(img, l)) = t
    <3>1. DOMAIN t \subseteq Shifted(img, l)
      BY <1>2, <1>3, <1>6 DEF Shifted
    <3>. QED BY <1>1, <3>1, PickAll
  <2>. QED BY <1>1, <2>1, <2>2, <2>3, ConcatEmptySeq
<1>8. Pick(r, txt) = s
  <2>1. Pick(r, txt) = Pick(s, txt) \o Pick(t, Shifted(txt, l))
    <3>1. PickSplits(s, t, txt)
      BY <1>1, PickConcatIs
    <3>2. Len(s) = l
      BY <1>1
    <3>. QED BY ONLY <1>2, <3>1, <3>2 DEF PickSplits
  <2>2. Pick(s, txt) = s
    <3>1. DOMAIN s \subseteq txt
      BY <1>3, <1>5
    <3>. QED BY <1>1, <3>1, PickAll
  <2>3. Pick(t, Shifted(txt, l)) = <<>>
    <3>1. Shifted(txt, l) \cap DOMAIN t = {}
      BY <1>2, <1>3, <1>5 DEF Shifted
    <3>. QED BY <1>1, <3>1, PickNone
  <2>. QED BY <1>1, <2>1, <2>2, <2>3, ConcatEmptySeq
<1>9. Cardinality(oth) = l
  <2>1. Cardinality(1 .. l) = l
    <3>1. 1 \in Int /\ l \in Int
      BY <1>2
    <3>2. Cardinality(1 .. l) = IF 1 > l THEN 0 ELSE l - 1 + 1
      BY <3>1, FS_Interval
    <3>. QED BY <1>2, <3>2
  <2>. QED BY <1>5, <2>1
<1>. QED BY <1>7, <1>8, <1>9 DEF TypePick, Others, img, txt, oth, r, s, t, l

LEMMA BubblePicks ==
    ASSUME NEW c, NEW k \in Nat
    PROVE  /\ TypePick(Bubble(c, k), "image") = Images(k)
           /\ Others(Bubble(c, k)) = 1
<1>. DEFINE r == Bubble(c, k)
            S == {Flex(c)} \cup {Image(n) : n \in 1 .. k}
            s == <<Flex(c)>>
            t == Images(k)
            img == {n \in DOMAIN r : r[n].type = "image"}
            oth == {n \in DOMAIN r : r[n].type # "image"}
<1>1. /\ Len(r) = k + 1 /\ r[1] = Flex(c)
      /\ \A n \in 2 .. k + 1 : r[n] = Image(n - 1)
      /\ r \in Seq(S) /\ r = s \o t
  BY BubbleIs DEF Bubble
<1>2. s \in Seq(S) /\ Len(s) = 1 /\ DOMAIN s = {1}
  OBVIOUS
<1>3. t \in Seq(S) /\ Len(t) = k
  <2>1. t \in [1 .. k -> S]
    BY DEF Images
  <2>. HIDE DEF t, S
  <2>. QED BY <2>1, SeqDef
<1>. HIDE DEF r, s, t, S
<1>4. /\ r[1].type # "image" /\ \A n \in 2 .. k + 1 : r[n].type = "image"
      /\ DOMAIN r = 1 .. k + 1 /\ DOMAIN t = 1 .. k
  BY <1>1, <1>3, MessageFields
<1>5. \A n \in DOMAIN r : n = 1 \/ n \in 2 .. k + 1
  BY <1>4
<1>6. oth = {1}
  <2>1. 1 \in DOMAIN r
    BY <1>4
  <2>. QED BY <1>4, <1>5, <2>1
<1>7. img = 2 .. k + 1
  <2>1. 2 .. k + 1 \subseteq DOMAIN r
    BY <1>4
  <2>. QED BY <1>4, <1>5, <2>1
<1>. HIDE DEF img, oth
<1>8. Pick(r, img) = t
  <2>1. Pick(r, img) = Pick(s, img) \o Pick(t, Shifted(img, 1))
    <3>1. s \in Seq(S) /\ t \in Seq(S) /\ Len(s) = 1
      BY <1>2, <1>3
    <3>2. Pick(s \o t, img) = Pick(s, img) \o Pick(t, Shifted(img, 1))
      <4>1. PickSplits(s, t, img)
        BY <3>1, PickConcatIs
      <4>. QED BY <3>1, <4>1 DEF PickSplits
    <3>3. r = s \o t
      BY <1>1
    <3>. QED BY <3>2, <3>3
  <2>2. Pick(s, img) = <<>>
    <3>1. img \cap DOMAIN s = {}
      BY <1>2, <1>7
    <3>. QED BY <1>2, <3>1, PickNone
  <2>3. Pick(t, Shifted(img, 1)) = t
    <3>1. DOMAIN t \subseteq Shifted(img, 1)
      BY <1>4, <1>7 DEF Shifted
    <3>. QED BY <1>3, <3>1, PickAll
  <2>. QED BY <1>3, <2>1, <2>2, <2>3, ConcatEmptySeq
<1>9. Cardinality(oth) = 1
  BY <1>6, FS_Singleton
<1>. QED BY <1>8, <1>9 DEF TypePick, Others, img, oth, r, t

\* The images of a reply are the first of the answer, as many as there is room
\* for behind its texts or its bubble.
THEOREM ImagesAreInOrder == Spec => []ImagesInOrder
<1>1. ASSUME FormInv, Done
      PROVE  TypePick(reply, "image") = Images(ImageCount(answer, Others(reply)))
  <2>. DEFINE c == TextChunks(answer, strip_md)
  <2>1. PICK flex \in BOOLEAN :
          /\ answer \in Seq(Lines) /\ strip_md \in BOOLEAN
          /\ reply = BuildReply(answer, flex, strip_md)
    BY <1>1 DEF FormInv, Done
  <2>2. c \in Seq(Seq(Wide)) /\ Len(c) \in 0 .. MaxMessages
    BY <2>1, TextChunksIs
  <2>3. MaxMessages \in Nat \ {0}
    BY LimitsAssumption
  <2>4. \A n \in 0 .. MaxMessages : ImageCount(answer, n) \in Nat
    <3>1. ASSUME NEW n \in 0 .. MaxMessages PROVE ImageCount(answer, n) \in Nat
      <4>1. ImageCount(answer, n) \in 0 .. MaxMessages - n
        BY <2>1, ImageCountIs
      <4>. QED BY <4>1
    <3>. QED BY <3>1
  <2>. HIDE DEF c
  <2>5. CASE reply = Plain(c, ImageCount(answer, Len(c)))
    BY <2>2, <2>4, <2>5, PlainPicks
  <2>6. CASE reply = Plain(<<>>, ImageCount(answer, 0))
    <3>1. <<>> \in Seq(Seq(Wide)) /\ Len(<<>>) = 0 /\ 0 \in 0 .. MaxMessages
      BY <2>3
    <3>. QED BY <2>4, <2>6, <3>1, PlainPicks
  <2>7. CASE reply = Bubble(Contents(answer), ImageCount(answer, 1))
    <3>1. 1 \in 0 .. MaxMessages
      BY <2>3
    <3>. QED BY <2>4, <2>7, <3>1, BubblePicks
  <2>. QED BY <2>1, <2>5, <2>6, <2>7, BuildReplyIs DEF c
<1>2. FormInv => ImagesInOrder
  <2>. SUFFICES ASSUME FormInv, Done
                PROVE  OfType("image")
                         = Images(Least(CountOf(Joined(answer), "img"), MaxMessages - Others(reply)))
    BY DEF ImagesInOrder, Others
  <2>1. OfType("image") = TypePick(reply, "image")
    BY DEF OfType, TypePick
  <2>. QED BY <1>1, <2>1 DEF ImageCount
<1>. QED BY <1>2, FormInvHolds, PTL

-----------------------------------------------------------------------------
(* The text of a plain reply. *)

InkSplits(s, t) == Ink(s \o t) = Ink(s) \o Ink(t)
LEMMA InkConcat ==
    ASSUME NEW A, NEW s \in Seq(A), NEW t \in Seq(A)
    PROVE  InkSplits(s, t) /\ Ink(s) \in Seq(A) /\ Ink(t) \in Seq(A)
<1>1. WithoutSplits(s, t, {"nl"})
  BY WithoutConcatIs
<1>2. Ink(s) \in Seq(A) /\ Ink(t) \in Seq(A)
  BY WithoutType DEF Ink
<1>. QED BY <1>1, <1>2 DEF InkSplits, WithoutSplits, Ink

InkAppends(s, e) ==
    Ink(Append(s, e)) = IF e \in {"nl"} THEN Ink(s) ELSE Append(Ink(s), e)
LEMMA InkAppend ==
    ASSUME NEW A, NEW s \in Seq(A), NEW e \in A
    PROVE  InkAppends(s, e)
BY WithoutAppend DEF InkAppends, Ink

\* Chunks that begin with ink have some.
LEMMA ChunksHaveInk ==
    ASSUME NEW c \in Seq(Seq(Chars)), c # <<>>, GoodTexts(c)
    PROVE  FlattenSeq(c) \in Seq(Chars) /\ Ink(FlattenSeq(c)) # <<>>
<1>. DEFINE B == Seq(Chars)
            h == c[1]
            t == Tail(c)
<1>1. h \in Seq(Chars) /\ h # <<>> /\ h[1] # "nl" /\ Len(c) \in Nat \ {0}
  <2>1. 1 \in 1 .. Len(c) /\ Len(c) \in Nat \ {0}
    BY EmptySeq
  <2>. QED BY <2>1, ElementOfSeq DEF GoodTexts
<1>2. t \in Seq(Seq(Chars)) /\ c = <<h>> \o t
  <2>1. c \in Seq(B) /\ c # <<>>
    OBVIOUS
  <2>. HIDE DEF B
  <2>2. t \in Seq(B)
    BY <2>1, HeadTailProperties
  <2>3. c = <<h>> \o t
    <3>1. /\ <<h>> \in Seq(B) /\ Len(<<h>>) = 1 /\ <<h>>[1] = h
      BY <1>1 DEF B
    <3>2. Len(t) = Len(c) - 1 /\ \A i \in 1 .. Len(t) : t[i] = c[i + 1]
      BY <2>1, HeadTailProperties
    <3>. DEFINE o == <<h>>
    <3>. HIDE DEF t, h, o
    <3>3. /\ o \o t \in Seq(B) /\ Len(o \o t) = Len(o) + Len(t)
          /\ \A i \in 1 .. Len(o) + Len(t) : (o \o t)[i] = IF i <= Len(o) THEN o[i] ELSE t[i - Len(o)]
      BY <2>2, <3>1, ConcatProperties DEF o
    <3>4. Len(o) = 1 /\ o[1] = h /\ h = c[1]
      BY <3>1 DEF o, h
    <3>5. ASSUME NEW i \in 1 .. Len(c) PROVE c[i] = (o \o t)[i]
      <4>1. CASE i = 1
        BY <1>1, <3>2, <3>3, <3>4, <4>1
      <4>2. CASE i # 1
        <5>1. i - 1 \in 1 .. Len(t) /\ (i - 1) + 1 = i /\ ~(i <= 1) /\ i \in 1 .. 1 + Len(t)
          BY <1>1, <3>2, <4>2
        <5>. QED BY <3>2, <3>3, <3>4, <5>1
      <4>. QED BY <4>1, <4>2
    <3>6. Len(o \o t) = Len(c)
      BY <1>1, <3>2, <3>3, <3>4
    <3>7. c = o \o t
      BY <2>1, <3>3, <3>5, <3>6, SeqEqual
    <3>. QED BY <3>7 DEF o
  <2>. QED BY <2>2, <2>3 DEF B
<1>. HIDE DEF h, t
<1>3. FlattenSeq(c) = h \o FlattenSeq(t) /\ FlattenSeq(t) \in Seq(Chars)
  BY <1>1, <1>2, FlattenFirst, FlattenAppend
<1>4. /\ Ink(FlattenSeq(c)) = Ink(h) \o Ink(FlattenSeq(t))
      /\ Ink(h) \in Seq(Chars) /\ Ink(FlattenSeq(t)) \in Seq(Chars)
  <2>1. InkSplits(h, FlattenSeq(t)) /\ Ink(h) \in Seq(Chars) /\ Ink(FlattenSeq(t)) \in Seq(Chars)
    BY <1>1, <1>3, InkConcat
  <2>. QED BY <1>3, <2>1 DEF InkSplits
<1>5. Ink(h) # <<>>
  <2>1. 1 \in 1 .. Len(h)
    <3>1. Len(h) \in Nat \ {0}
      BY <1>1, EmptySeq
    <3>. QED BY <3>1
  <2>2. ~\A n \in 1 .. Len(h) : h[n] \in {"nl"}
    BY <1>1, <2>1
  <2>. QED BY <1>1, <2>2, WithoutIs DEF Ink
<1>6. FlattenSeq(c) \in Seq(Chars)
  BY <1>1, <1>3
<1>. QED BY <1>4, <1>5, <1>6, EmptySeq, ConcatProperties

FourAssociate(a, b, c, d) == a \o ((b \o c) \o d) = (a \o b) \o (c \o d)
Associates(a, b, c) == (a \o b) \o c = a \o (b \o c)

LEMMA ThreePieces ==
    ASSUME NEW A, NEW x \in Seq(A), NEW y \in Seq(A), NEW z \in Seq(A)
    PROVE  Associates(x, y, z)
BY ConcatAssociative DEF Associates

LEMMA FourPieces ==
    ASSUME NEW A, NEW x \in Seq(A), NEW y \in Seq(A), NEW z \in Seq(A), NEW w \in Seq(A)
    PROVE  FourAssociate(x, y, z, w)
<1>. DEFINE v == z \o w
<1>1. Associates(y, z, w)
  BY ThreePieces
<1>2. v \in Seq(A)
  BY ConcatProperties
<1>. HIDE DEF v
<1>3. Associates(x, y, v)
  BY <1>2, ThreePieces
<1>. QED BY <1>1, <1>3 DEF Associates, FourAssociate, v

\* A text that is cut: P is shown, and R is not.
CutAfter(shown, text) ==
    \E P \in Seq(Chars), R \in Seq(Chars) :
       R # <<>> /\ text = P \o R /\ shown = Append(P, Notice)

LEMMA CutIs ==
    ASSUME NEW c \in Seq(Seq(Chars)), Len(c) > MaxMessages, GoodTexts(c), ShortTexts(c)
    PROVE  CutAfter(Ink(FlattenSeq(CutChunks(c))), Ink(FlattenSeq(c)))
<1>. DEFINE M == MaxMessages
            B == Seq(Chars)
            W == Seq(Wide)
            n == Len(c)
            a == SubSeq(c, 1, M - 1)
            l == c[M]
            b == SubSeq(c, M + 1, n)
            k == Least(Len(l), MaxText - 1)
            cut == SubSeq(l, 1, k)
            rest == SubSeq(l, k + 1, Len(l))
            e == Append(cut, Notice)
            d == CutChunks(c)
<1>1. M \in Nat \ {0} /\ MaxText \in Nat \ {0, 1} /\ n \in Nat /\ M < n
      /\ Seq(Chars) \subseteq Seq(Wide) /\ Notice \in Wide /\ Notice # "nl"
      /\ Seq(Seq(Chars)) \subseteq Seq(Seq(Wide))
  BY LimitsAssumption DEF Wide, Notice
<1>2. l \in Seq(Chars) /\ l # <<>> /\ Len(l) \in Nat \ {0}
  <2>1. M \in 1 .. Len(c)
    BY <1>1
  <2>2. l \in Seq(Chars) /\ l # <<>>
    BY <2>1, ElementOfSeq DEF GoodTexts
  <2>. HIDE DEF l
  <2>. QED BY <2>2, EmptySeq
<1>3. /\ a \in Seq(B) /\ b \in Seq(B) /\ b # <<>> /\ GoodTexts(b)
      /\ Len(a) = M - 1 /\ \A i \in 1 .. M - 1 : a[i] = c[i]
      /\ c = a \o (<<l>> \o b)
  <2>0. c \in Seq(B)
    OBVIOUS
  <2>. HIDE DEF B, n, M
  <2>1. \A i \in 1 .. n : c[i] \in B
    BY <2>0, ElementOfSeq DEF n
  <2>2. a \in Seq(B) /\ Len(a) = M - 1 /\ \A i \in 1 .. M - 1 : a[i] = c[i]
    <3>. DEFINE m == M - 1
    <3>1. m \in Int /\ 1 \in Int /\ (\A i \in 1 .. m : c[i] \in B) /\ m \in Nat
      BY <1>1, <2>1
    <3>. HIDE DEF m
    <3>2. /\ SubSeq(c, 1, m) \in Seq(B)
          /\ Len(SubSeq(c, 1, m)) = IF 1 <= m THEN m - 1 + 1 ELSE 0
          /\ \A i \in 1 .. m - 1 + 1 : SubSeq(c, 1, m)[i] = c[1 + i - 1]
      BY <3>1, SubSeqProperties
    <3>. DEFINE q == SubSeq(c, 1, m)
    <3>. HIDE DEF q
    <3>3. Len(q) = m /\ \A i \in 1 .. m : q[i] = c[i]
      BY <3>1, <3>2 DEF q
    <3>. QED BY <3>2, <3>3 DEF q, m
  <2>3. b \in Seq(B) /\ Len(b) = n - M /\ \A i \in 1 .. n - M : b[i] = c[M + i]
    <3>. DEFINE m == M + 1
    <3>1. m \in Int /\ n \in Int /\ (\A i \in m .. n : c[i] \in B)
      BY <1>1, <2>1
    <3>. HIDE DEF m
    <3>2. /\ SubSeq(c, m, n) \in Seq(B)
          /\ Len(SubSeq(c, m, n)) = IF m <= n THEN n - m + 1 ELSE 0
          /\ \A i \in 1 .. n - m + 1 : SubSeq(c, m, n)[i] = c[m + i - 1]
      BY <3>1, SubSeqProperties
    <3>. DEFINE q == SubSeq(c, m, n)
    <3>. HIDE DEF q
    <3>3. Len(q) = n - M /\ \A i \in 1 .. n - M : q[i] = c[M + i]
      <4>1. \A i \in 1 .. n - M : i \in 1 .. n - m + 1 /\ m + i - 1 = M + i
        BY <1>1 DEF m
      <4>. QED BY <1>1, <3>2, <4>1 DEF q, m
    <3>. QED BY <3>2, <3>3 DEF q, m
  <2>4. b # <<>>
    <3>. HIDE DEF b
    <3>1. Len(b) # 0
      BY <1>1, <2>3
    <3>. QED BY <2>3, <3>1, EmptySeq
  <2>5. GoodTexts(b)
    <3>. HIDE DEF b
    <3>1. ASSUME NEW i \in 1 .. Len(b) PROVE b[i] # <<>> /\ b[i][1] # "nl"
      <4>1. M + i \in 1 .. Len(c) /\ b[i] = c[M + i]
        BY <1>1, <2>3 DEF n
      <4>. QED BY <4>1 DEF GoodTexts
    <3>. QED BY <3>1 DEF GoodTexts
  <2>6. c = a \o (<<l>> \o b)
    <3>1. <<l>> \o b = SubSeq(c, M, n)
      <4>1. M \in 1 .. Len(c) /\ n \in M .. Len(c)
        BY <1>1 DEF n
      <4>. QED BY <2>0, <4>1, SubSeqRecursiveFirst
    <3>2. a \o SubSeq(c, M, n) = SubSeq(c, 1, n)
      <4>. DEFINE m == M - 1
      <4>1. 1 \in 1 .. Len(c) + 1 /\ m \in 1 - 1 .. Len(c) /\ n \in m .. Len(c) /\ m + 1 = M
        BY <1>1 DEF n
      <4>. HIDE DEF m
      <4>2. SubSeq(c, 1, m) \o SubSeq(c, m + 1, n) = SubSeq(c, 1, n)
        BY <2>0, <4>1, ConcatAdjacentSubSeq
      <4>. QED BY <4>1, <4>2 DEF m
    <3>3. SubSeq(c, 1, n) = c
      BY <2>0, SubSeqFull DEF n
    <3>. QED BY <3>1, <3>2, <3>3
  <2>. QED BY <2>2, <2>3, <2>4, <2>5, <2>6
<1>. HIDE DEF a, b, l
<1>4. cut \in Seq(Chars) /\ rest \in Seq(Chars) /\ l = cut \o rest
  <2>1. k \in Nat \ {0} /\ k <= Len(l)
    BY <1>1, <1>2 DEF Least
  <2>. HIDE DEF k
  <2>2. cut \in Seq(Chars) /\ rest \in Seq(Chars)
    <3>. DEFINE m == k + 1
                j == Len(l)
    <3>1. 1 \in Nat \ {0} /\ m \in Nat \ {0} /\ k \in Nat /\ j \in Nat /\ j <= Len(l)
      BY <1>2, <2>1
    <3>. HIDE DEF m, j
    <3>2. SubSeq(l, 1, k) \in Seq(Chars) /\ SubSeq(l, m, j) \in Seq(Chars)
      BY <1>2, <2>1, <3>1, PieceIs
    <3>. QED BY <3>2 DEF m, j
  <2>3. l = cut \o rest
    <3>1. 1 \in 1 .. Len(l) + 1 /\ k \in 1 - 1 .. Len(l) /\ Len(l) \in k .. Len(l)
      BY <1>2, <2>1
    <3>2. SubSeq(l, 1, k) \o SubSeq(l, k + 1, Len(l)) = SubSeq(l, 1, Len(l))
      BY <1>2, <3>1, ConcatAdjacentSubSeq
    <3>. QED BY <1>2, <3>2, SubSeqFull
  <2>. QED BY <2>2, <2>3
<1>. HIDE DEF cut, rest
<1>5. e \in Seq(Wide) /\ d = a \o <<e>> /\ a \in Seq(Seq(Wide))
  <2>1. e \in Seq(Wide)
    BY <1>1, <1>4
  <2>2. d = [i \in 1 .. M |-> IF i = M THEN e ELSE c[i]]
    BY DEF CutChunks, e, cut, l, k
  <2>. HIDE DEF e, d
  <2>3. a \in Seq(W)
    BY <1>1, <1>3
  <2>. DEFINE o == <<e>>
  <2>4. o \in Seq(W) /\ Len(o) = 1 /\ o[1] = e
    BY <2>1
  <2>. HIDE DEF o, W
  <2>5. /\ a \o o \in Seq(W) /\ Len(a \o o) = Len(a) + Len(o)
        /\ \A i \in 1 .. Len(a) + Len(o) : (a \o o)[i] = IF i <= Len(a) THEN a[i] ELSE o[i - Len(a)]
    BY <2>3, <2>4, ConcatProperties
  <2>6. Len(a \o o) = M /\ Len(a) + Len(o) = M
    BY <1>1, <1>3, <2>4, <2>5
  <2>7. ASSUME NEW i \in 1 .. M PROVE (a \o o)[i] = d[i]
    <3>1. CASE i = M
      BY <1>1, <1>3, <2>2, <2>4, <2>5, <2>6, <3>1
    <3>2. CASE i # M
      <4>1. i \in 1 .. M - 1 /\ i <= Len(a)
        BY <1>1, <1>3, <3>2
      <4>. QED BY <1>3, <2>2, <2>5, <2>6, <3>2, <4>1
    <3>. QED BY <3>1, <3>2
  <2>8. a \o o = [i \in 1 .. M |-> (a \o o)[i]]
    <3>. DEFINE q == a \o o
    <3>1. q \in Seq(W) /\ Len(q) = M
      BY <2>5, <2>6
    <3>. HIDE DEF q
    <3>2. q = [i \in 1 .. M |-> q[i]]
      BY <3>1
    <3>. QED BY <3>2 DEF q
  <2>9. a \o o = d
    BY <2>2, <2>7, <2>8
  <2>. QED BY <2>1, <2>3, <2>9 DEF o, W
<1>. HIDE DEF d
<1>. DEFINE fa == FlattenSeq(a)
            fb == FlattenSeq(b)
            P == Ink(fa) \o Ink(cut)
            R == Ink(rest) \o Ink(fb)
<1>6. fa \in Seq(Chars) /\ fb \in Seq(Chars) /\ Ink(fb) # <<>>
  BY <1>3, FlattenAppend, ChunksHaveInk
<1>7. FlattenSeq(c) = fa \o ((cut \o rest) \o fb)
  <2>1. <<l>> \o b \in Seq(Seq(Chars)) /\ <<l>> \in Seq(Seq(Chars))
    <3>1. <<l>> \in Seq(B)
      BY <1>2
    <3>. HIDE DEF B
    <3>2. <<l>> \o b \in Seq(B)
      BY <1>3, <3>1
    <3>. QED BY <3>1, <3>2 DEF B
  <2>2. FlattenSeq(c) = fa \o FlattenSeq(<<l>> \o b)
    BY <1>3, <2>1, FlattenConcat
  <2>3. FlattenSeq(<<l>> \o b) = l \o fb
    BY <1>2, <1>3, FlattenFirst
  <2>. QED BY <1>4, <2>2, <2>3
<1>8. FlattenSeq(d) = fa \o e
  <2>1. <<e>> \in Seq(Seq(Wide))
    <3>1. ASSUME NEW x \in W PROVE <<x>> \in Seq(W)
      OBVIOUS
    <3>. QED BY <1>5, <3>1
  <2>2. FlattenSeq(d) = fa \o FlattenSeq(<<e>>)
    BY <1>5, <2>1, FlattenConcat
  <2>3. FlattenSeq(<<e>>) = e
    BY <1>5, FlattenAppend, FlattenFirst
  <2>. QED BY <2>2, <2>3
<1>. HIDE DEF fa, fb
<1>9. P \in Seq(Chars) /\ R \in Seq(Chars) /\ R # <<>>
      /\ Ink(fa) \in Seq(Chars) /\ Ink(cut) \in Seq(Chars) /\ Ink(rest) \in Seq(Chars)
      /\ Ink(fb) \in Seq(Chars)
  <2>1. /\ Ink(fa) \in Seq(Chars) /\ Ink(cut) \in Seq(Chars) /\ Ink(rest) \in Seq(Chars)
        /\ Ink(fb) \in Seq(Chars)
    BY <1>4, <1>6, InkConcat
  <2>. QED BY <1>6, <2>1, EmptySeq, ConcatProperties
<1>10. Ink(FlattenSeq(c)) = P \o R
  <2>1. Ink(fa \o ((cut \o rest) \o fb)) = Ink(fa) \o ((Ink(cut) \o Ink(rest)) \o Ink(fb))
    <3>1. cut \o rest \in Seq(Chars) /\ (cut \o rest) \o fb \in Seq(Chars)
      BY <1>4, <1>6
    <3>2. Ink(fa \o ((cut \o rest) \o fb)) = Ink(fa) \o Ink((cut \o rest) \o fb)
      <4>1. InkSplits(fa, (cut \o rest) \o fb)
        BY <1>6, <3>1, InkConcat
      <4>. QED BY ONLY <4>1 DEF InkSplits
    <3>3. Ink((cut \o rest) \o fb) = Ink(cut \o rest) \o Ink(fb)
      <4>1. InkSplits(cut \o rest, fb)
        BY <1>6, <3>1, InkConcat
      <4>. QED BY ONLY <4>1 DEF InkSplits
    <3>4. Ink(cut \o rest) = Ink(cut) \o Ink(rest)
      <4>1. InkSplits(cut, rest)
        BY <1>4, InkConcat
      <4>. QED BY ONLY <4>1 DEF InkSplits
    <3>. QED BY <3>2, <3>3, <3>4
  <2>. DEFINE x == Ink(fa)
              y == Ink(cut)
              z == Ink(rest)
              w == Ink(fb)
  <2>2. x \in Seq(Chars) /\ y \in Seq(Chars) /\ z \in Seq(Chars) /\ w \in Seq(Chars)
    BY <1>9
  <2>. HIDE DEF x, y, z, w
  <2>6. FourAssociate(x, y, z, w)
    BY <2>2, FourPieces
  <2>. QED BY <1>7, <2>1, <2>6 DEF FourAssociate, x, y, z, w
<1>11. Ink(FlattenSeq(d)) = Append(P, Notice)
  <2>1. fa \in Seq(Wide) /\ cut \in Seq(Wide)
    BY <1>1, <1>4, <1>6
  <2>2. Ink(fa \o e) = Ink(fa) \o Ink(e)
    <3>1. InkSplits(fa, e)
      BY <1>5, <2>1, InkConcat
    <3>. QED BY ONLY <3>1 DEF InkSplits
  <2>3. Ink(e) = Append(Ink(cut), Notice)
    <3>1. Ink(Append(cut, Notice)) = IF Notice \in {"nl"} THEN Ink(cut)
                                                          ELSE Append(Ink(cut), Notice)
      <4>1. InkAppends(cut, Notice)
        BY <1>1, <2>1, InkAppend
      <4>. QED BY ONLY <4>1 DEF InkAppends
    <3>. QED BY <1>1, <3>1
  <2>. DEFINE x == Ink(fa)
              y == Ink(cut)
  <2>4. x \in Seq(Wide) /\ y \in Seq(Wide)
    BY <1>1, <1>9
  <2>. HIDE DEF x, y
  <2>5. x \o Append(y, Notice) = Append(x \o y, Notice)
    BY <1>1, <2>4
  <2>. QED BY <1>8, <2>2, <2>3, <2>5 DEF x, y
<1>. HIDE DEF P, R
<1>. QED BY <1>9, <1>10, <1>11 DEF CutAfter, d

LEMMA TextChunksWhole ==
    ASSUME NEW lines \in Seq(Lines), NEW strip \in BOOLEAN, PlainText(lines, strip) # <<>>
    PROVE  \/ Ink(FlattenSeq(TextChunks(lines, strip))) = Ink(PlainText(lines, strip))
           \/ /\ Len(TextChunks(lines, strip)) = MaxMessages
              /\ CutAfter(Ink(FlattenSeq(TextChunks(lines, strip))), Ink(PlainText(lines, strip)))
<1>. DEFINE t == PlainText(lines, strip)
            c == SplitText(t)
            r == TextChunks(lines, strip)
<1>1. MaxMessages \in Nat \ {0}
  BY LimitsAssumption
<1>2. /\ ChunksOf(Chars, c, t) /\ c \in Seq(Seq(Chars)) /\ c # <<>>
      /\ GoodTexts(c) /\ ShortTexts(c)
  BY SplitsWell
<1>3. Ink(FlattenSeq(c)) = Ink(t)
  BY <1>2 DEF ChunksOf
<1>4. r = IF Len(c) <= MaxMessages THEN c ELSE CutChunks(c)
  BY DEF TextChunks
<1>5. ASSUME Len(c) > MaxMessages
      PROVE  Len(CutChunks(c)) = MaxMessages
             /\ CutAfter(Ink(FlattenSeq(CutChunks(c))), Ink(FlattenSeq(c)))
  <2>. HIDE DEF c
  <2>. QED BY <1>2, <1>5, CutIs, CutChunksIs
<1>. HIDE DEF r, c, t
<1>6. Len(c) \in Nat
  BY <1>2
<1>7. Len(c) <= MaxMessages \/ Len(c) > MaxMessages
  BY <1>1, <1>6
<1>8. CASE Len(c) <= MaxMessages
  BY <1>3, <1>4, <1>8 DEF r, t
<1>9. CASE Len(c) > MaxMessages
  <2>1. ~(Len(c) <= MaxMessages)
    BY <1>1, <1>6, <1>9
  <2>. QED BY <1>3, <1>4, <1>5, <1>9, <2>1 DEF r, t
<1>. QED BY <1>7, <1>8, <1>9

TextsShow(shown, n, text) ==
    \/ text = <<>>
    \/ shown = text
    \/ /\ n = MaxMessages /\ shown[Len(shown)] = Notice
       /\ Len(text) >= Len(shown)
       /\ \A m \in 1 .. Len(shown) - 1 : shown[m] = text[m]

LEMMA CutShows ==
    ASSUME NEW shown, NEW text, CutAfter(shown, text)
    PROVE  TextsShow(shown, MaxMessages, text)
<1>1. PICK P \in Seq(Chars), R \in Seq(Chars) :
        R # <<>> /\ text = P \o R /\ shown = Append(P, Notice)
  BY DEF CutAfter
<1>2. P \in Seq(Wide) /\ Notice \in Wide /\ Len(P) \in Nat /\ Len(R) \in Nat \ {0}
  BY <1>1, EmptySeq DEF Wide
<1>3. /\ Len(shown) = Len(P) + 1 /\ shown[Len(P) + 1] = Notice
      /\ \A m \in 1 .. Len(P) : shown[m] = P[m]
  BY <1>1, <1>2, AppendProperties
<1>4. /\ Len(text) = Len(P) + Len(R)
      /\ \A m \in 1 .. Len(P) + Len(R) : text[m] = IF m <= Len(P) THEN P[m] ELSE R[m - Len(P)]
  BY <1>1, ConcatProperties
<1>5. \A m \in 1 .. Len(shown) - 1 : shown[m] = text[m]
  <2>1. ASSUME NEW m \in 1 .. Len(shown) - 1 PROVE shown[m] = text[m]
    <3>1. m \in 1 .. Len(P) /\ m \in 1 .. Len(P) + Len(R) /\ m <= Len(P)
      BY <1>2, <1>3
    <3>. QED BY <1>3, <1>4, <3>1
  <2>. QED BY <2>1
<1>6. Len(text) >= Len(shown) /\ shown[Len(shown)] = Notice
  BY <1>2, <1>3, <1>4
<1>. QED BY <1>5, <1>6 DEF TextsShow

\* A plain reply shows all of the text but line breaks, in order; a text that is
\* too long fills every message, and its last one ends with the notice.
THEOREM PlainRepliesAreWhole == Spec => []TextIsWhole
<1>1. ASSUME FormInv, Done, ~IsFlex, Texts # <<>>
      PROVE  TextsShow(Ink(Shown), Len(Texts), Ink(PlainText(answer, strip_md)))
  <2>. DEFINE c == TextChunks(answer, strip_md)
              text == PlainText(answer, strip_md)
  <2>1. PICK flex \in BOOLEAN :
          /\ answer \in Seq(Lines) /\ strip_md \in BOOLEAN
          /\ reply = BuildReply(answer, flex, strip_md)
    BY <1>1 DEF FormInv, Done
  <2>2. c \in Seq(Seq(Wide)) /\ Len(c) \in 0 .. MaxMessages
    BY <2>1, TextChunksIs
  <2>3. MaxMessages \in Nat \ {0} /\ 0 \in 0 .. MaxMessages /\ 1 \in 0 .. MaxMessages
    BY LimitsAssumption
  <2>4. \A n \in 0 .. MaxMessages : ImageCount(answer, n) \in Nat
    <3>1. ASSUME NEW n \in 0 .. MaxMessages PROVE ImageCount(answer, n) \in Nat
      <4>1. ImageCount(answer, n) \in 0 .. MaxMessages - n
        BY <2>1, ImageCountIs
      <4>. QED BY <4>1
    <3>. QED BY <3>1
  <2>5. Texts = TypePick(reply, "text")
    BY DEF Texts, OfType, TypePick
  <2>6. CASE reply = Plain(c, ImageCount(answer, Len(c)))
    <3>1. Texts = TextsOf(c)
      <4>. HIDE DEF c
      <4>. QED BY <2>2, <2>4, <2>5, <2>6, PlainPicks
    <3>2. Len(Texts) = Len(c) /\ Shown = FlattenSeq(c)
      <4>. HIDE DEF c
      <4>1. DOMAIN Texts = DOMAIN c /\ \A n \in DOMAIN c : Texts[n].text = c[n]
        BY <3>1, MessageFields DEF TextsOf
      <4>2. [n \in DOMAIN Texts |-> Texts[n].text] = [n \in DOMAIN c |-> c[n]]
        BY <4>1
      <4>3. [n \in DOMAIN c |-> c[n]] = c
        BY <2>2
      <4>4. Len(TextsOf(c)) = Len(c)
        <5>1. 0 \in Nat
          OBVIOUS
        <5>. QED BY <2>2, <5>1, PlainIs
      <4>. QED BY <3>1, <4>2, <4>3, <4>4 DEF Shown
    <3>3. CASE text = <<>>
      <4>1. Ink(text) = <<>>
        BY <3>3, WithoutEmpty DEF Ink
      <4>. QED BY <4>1 DEF TextsShow
    <3>4. CASE text # <<>>
      <4>1. \/ Ink(FlattenSeq(c)) = Ink(text)
            \/ Len(c) = MaxMessages /\ CutAfter(Ink(FlattenSeq(c)), Ink(text))
        BY <2>1, <3>4, TextChunksWhole
      <4>2. CASE Ink(FlattenSeq(c)) = Ink(text)
        BY <3>2, <4>2 DEF TextsShow
      <4>3. CASE Len(c) = MaxMessages /\ CutAfter(Ink(FlattenSeq(c)), Ink(text))
        BY <3>2, <4>3, CutShows
      <4>. QED BY <4>1, <4>2, <4>3
    <3>. QED BY <3>3, <3>4
  <2>7. CASE reply = Plain(<<>>, ImageCount(answer, 0))
    <3>. DEFINE e == <<>>
    <3>1. e \in Seq(Seq(Wide)) /\ TextsOf(e) = <<>>
      BY DEF TextsOf
    <3>. HIDE DEF e
    <3>2. TypePick(Plain(e, ImageCount(answer, 0)), "text") = TextsOf(e)
      BY <2>3, <2>4, <3>1, PlainPicks
    <3>3. Texts = <<>>
      BY <2>5, <2>7, <3>1, <3>2 DEF e
    <3>. QED BY <1>1, <3>3
  <2>8. CASE reply = Bubble(Contents(answer), ImageCount(answer, 1))
    <3>1. reply[1] = Flex(Contents(answer))
      BY <2>3, <2>4, <2>8, BubbleIs
    <3>2. reply[1].type = "flex"
      BY <3>1, MessageFields
    <3>. QED BY <1>1, <3>2 DEF IsFlex, Done
  <2>. QED BY <2>1, <2>6, <2>7, <2>8, BuildReplyIs DEF c
<1>2. FormInv => TextIsWhole
  BY <1>1 DEF TextIsWhole, TextsShow, Ink
<1>. QED BY <1>2, FormInvHolds, PTL

-----------------------------------------------------------------------------
(* What a bubble shows. *)

Kept(s, d) ==
    \/ s = RichText(d)
    \/ Bar(d) /\ s # <<>> /\ IsPrefix(s, d)
Shows(shown, due) ==
    Len(shown) = Len(due) /\ \A n \in 1 .. Len(due) : Kept(shown[n], due[n])

LEMMA ShowsConcat ==
    ASSUME NEW A, NEW s \in Seq(A), NEW d \in Seq(A), NEW t \in Seq(A), NEW e \in Seq(A),
           Shows(s, d), Shows(t, e)
    PROVE  Shows(s \o t, d \o e)
<1>. DEFINE st == s \o t
            de == d \o e
<1>1. /\ Len(st) = Len(s) + Len(t) /\ Len(s) \in Nat /\ Len(t) \in Nat
      /\ \A i \in 1 .. Len(s) + Len(t) : st[i] = IF i <= Len(s) THEN s[i] ELSE t[i - Len(s)]
  BY ConcatProperties
<1>2. /\ Len(de) = Len(d) + Len(e)
      /\ \A i \in 1 .. Len(d) + Len(e) : de[i] = IF i <= Len(d) THEN d[i] ELSE e[i - Len(d)]
  BY ConcatProperties
<1>3. Len(s) = Len(d) /\ Len(t) = Len(e)
  BY DEF Shows
<1>. HIDE DEF st, de
<1>4. ASSUME NEW i \in 1 .. Len(de) PROVE Kept(st[i], de[i])
  <2>1. CASE i <= Len(d)
    <3>1. i \in 1 .. Len(d) /\ st[i] = s[i] /\ de[i] = d[i]
      BY <1>1, <1>2, <1>3, <2>1
    <3>. QED BY <3>1 DEF Shows
  <2>2. CASE ~(i <= Len(d))
    <3>1. i - Len(d) \in 1 .. Len(e) /\ st[i] = t[i - Len(d)] /\ de[i] = e[i - Len(d)]
      BY <1>1, <1>2, <1>3, <2>2
    <3>. QED BY <3>1 DEF Shows
  <2>. QED BY <2>1, <2>2
<1>5. Len(st) = Len(de)
  BY <1>1, <1>2, <1>3
<1>6. Shows(st, de)
  BY <1>4, <1>5 DEF Shows
<1>. QED BY <1>6 DEF st, de

\* The lines from i to j that are due.
Due(lines) == {k \in DOMAIN lines : ~LeftOut(lines, k)}
Segment(lines, i, j) == Pick(SubSeq(lines, i, j), Shifted(Due(lines), i - 1))

LEMMA SegmentType ==
    ASSUME NEW A, NEW lines \in Seq(A), NEW i \in Nat \ {0}, NEW j \in Nat, j <= Len(lines)
    PROVE  Segment(lines, i, j) \in Seq(A)
BY PieceIs, PickType DEF Segment

LEMMA SegmentConcat ==
    ASSUME NEW A, NEW lines \in Seq(A), NEW i \in 1 .. Len(lines) + 1,
           NEW j \in i - 1 .. Len(lines), NEW k \in j .. Len(lines)
    PROVE  Segment(lines, i, k) = Segment(lines, i, j) \o Segment(lines, j + 1, k)
<1>. DEFINE D == Shifted(Due(lines), i - 1)
            E == Shifted(Due(lines), (j + 1) - 1)
            s == SubSeq(lines, i, j)
            t == SubSeq(lines, j + 1, k)
<1>1. Len(lines) \in Nat /\ i \in Nat \ {0} /\ j \in Nat /\ k \in Nat /\ j <= Len(lines)
      /\ k <= Len(lines) /\ j + 1 \in Nat \ {0}
  OBVIOUS
<1>2. SubSeq(lines, i, k) = s \o t
  BY ConcatAdjacentSubSeq
<1>3. s \in Seq(A) /\ Len(s) = IF i <= j THEN j - i + 1 ELSE 0
  BY <1>1, PieceIs
<1>4. t \in Seq(A)
  <2>. DEFINE m == j + 1
  <2>1. m \in Nat \ {0}
    BY <1>1
  <2>. HIDE DEF m
  <2>2. SubSeq(lines, m, k) \in Seq(A)
    BY <1>1, <2>1, PieceIs
  <2>. QED BY <2>2 DEF m
<1>5. Shifted(D, Len(s)) = E
  <2>1. Len(s) = j - (i - 1)
    BY <1>1, <1>3
  <2>2. \A n \in Nat : Len(s) + n \in Nat /\ (i - 1) + (Len(s) + n) = ((j + 1) - 1) + n
    BY <1>1, <2>1
  <2>. HIDE DEF s
  <2>. QED BY <2>2 DEF Shifted
<1>. HIDE DEF s, t, D, E
<1>6. Pick(s \o t, D) = Pick(s, D) \o Pick(t, Shifted(D, Len(s)))
  <2>1. PickSplits(s, t, D)
    BY <1>3, <1>4, PickConcatIs
  <2>. QED BY <2>1 DEF PickSplits
<1>. QED BY <1>2, <1>5, <1>6 DEF Segment, s, t, D, E

LEMMA SegmentOfOne ==
    ASSUME NEW A, NEW lines \in Seq(A), NEW i \in 1 .. Len(lines)
    PROVE  Segment(lines, i, i) = IF i \in Due(lines) THEN <<lines[i]>> ELSE <<>>
<1>. DEFINE s == SubSeq(lines, i, i)
            D == Shifted(Due(lines), i - 1)
<1>1. i \in Nat \ {0} /\ i \in Nat /\ i <= Len(lines) /\ lines[i] \in A
  OBVIOUS
<1>2. s \in Seq(A) /\ Len(s) = 1 /\ s[1] = lines[i]
  <2>1. s \in Seq(A) /\ Len(s) = i - i + 1 /\ s[1] = lines[i]
    BY <1>1, PieceIs
  <2>. QED BY <1>1, <2>1
<1>3. 1 \in D <=> i \in Due(lines)
  <2>1. 1 \in Nat /\ (i - 1) + 1 = i
    BY <1>1
  <2>. QED BY <2>1 DEF Shifted
<1>. HIDE DEF s, D
<1>4. s = <<lines[i]>> /\ DOMAIN s = {1}
  BY <1>2
<1>5. CASE i \in Due(lines)
  <2>1. DOMAIN s \subseteq D
    BY <1>3, <1>4, <1>5
  <2>2. Pick(s, D) = s
    BY <1>2, <2>1, PickAll
  <2>. QED BY <1>4, <1>5, <2>2 DEF Segment, s, D
<1>6. CASE i \notin Due(lines)
  <2>1. D \cap DOMAIN s = {}
    BY <1>3, <1>4, <1>6
  <2>2. Pick(s, D) = <<>>
    BY <1>2, <2>1, PickNone
  <2>. QED BY <1>6, <2>2 DEF Segment, s, D
<1>. QED BY <1>5, <1>6

\* A line where the loop stands is in no table that began before.
LEMMA StillFresh ==
    ASSUME NEW lines \in Seq(Seq(Tokens)), NEW i \in 1 .. Len(lines), ~InTable(lines, i),
           FlexNext(lines, i) <= Len(lines)
    PROVE  ~InTable(lines, FlexNext(lines, i))
<1>1. Len(lines) \in Nat
  OBVIOUS
<1>2. CASE TableAt(lines, i)
  <2>. DEFINE e == TableEnd(lines, i)
  <2>1. e \in i + 1 .. Len(lines) /\ (e < Len(lines) => ~Bar(lines[e + 1]))
    BY <1>2, TableEndIs
  <2>2. FlexNext(lines, i) = e + 1
    BY <1>2 DEF FlexNext
  <2>. HIDE DEF e
  <2>3. ~Bar(lines[e + 1])
    BY <1>1, <2>1, <2>2
  <2>4. \A j \in 1 .. e : e + 1 \in j .. e + 1
    BY <1>1, <2>1
  <2>5. (e + 1) - 1 = e
    BY <2>1
  <2>. QED BY <2>2, <2>3, <2>4, <2>5 DEF InTable
<1>3. CASE ~TableAt(lines, i)
  <2>1. FlexNext(lines, i) = i + 1 /\ i < Len(lines) /\ (i + 1) - 1 = i
    BY <1>1, <1>3 DEF FlexNext
  <2>2. SUFFICES ASSUME InTable(lines, i + 1) PROVE FALSE
    BY <2>1
  <2>3. PICK j \in 1 .. i : IsSep(lines[j + 1]) /\ \A m \in j .. i + 1 : Bar(lines[m])
    BY <2>1, <2>2 DEF InTable
  <2>4. i \in j .. i + 1 /\ \A m \in j .. i : m \in j .. i + 1
    BY <2>3
  <2>5. CASE j = i
    BY <1>3, <2>1, <2>3, <2>4, <2>5 DEF TableAt
  <2>6. CASE j # i
    <3>1. j \in 1 .. i - 1
      BY <2>6
    <3>2. \A m \in j .. i : Bar(lines[m])
      BY <2>3, <2>4
    <3>. QED BY <2>3, <3>1, <3>2 DEF InTable
  <2>. QED BY <2>5, <2>6
<1>. QED BY <1>2, <1>3

LEMMA TableDue ==
    ASSUME NEW lines \in Seq(Seq(Tokens)), NEW i \in 1 .. Len(lines),
           TableAt(lines, i), ~InTable(lines, i)
    PROVE  /\ i + 1 \notin Due(lines)
           /\ i \in Due(lines) <=> i + 2 <= TableEnd(lines, i)
           /\ \A k \in i + 2 .. TableEnd(lines, i) : k \in Due(lines) <=> ~IsSep(lines[k])
<1>. DEFINE e == TableEnd(lines, i)
<1>1. Len(lines) \in Nat /\ DOMAIN lines = 1 .. Len(lines)
  OBVIOUS
<1>2. /\ e \in i + 1 .. Len(lines) /\ \A k \in i .. e : Bar(lines[k])
      /\ e < Len(lines) => ~Bar(lines[e + 1])
  BY TableEndIs
<1>3. i < Len(lines) /\ Bar(lines[i]) /\ IsSep(lines[i + 1])
  BY DEF TableAt
<1>. HIDE DEF e
<1>4. ASSUME NEW k \in i + 1 .. e PROVE InTable(lines, k)
  <2>1. i \in 1 .. k - 1 /\ \A m \in i .. k : m \in i .. e
    BY <1>1, <1>2
  <2>2. \A m \in i .. k : Bar(lines[m])
    BY <1>2, <2>1
  <2>. QED BY <1>3, <2>1, <2>2 DEF InTable
<1>5. i + 1 \notin Due(lines)
  <2>1. i + 1 \in i + 1 .. e
    BY <1>2
  <2>2. LeftOut(lines, i + 1)
    BY <1>3, <1>4, <2>1 DEF LeftOut
  <2>. QED BY <2>2 DEF Due
<1>6. i \in Due(lines) <=> i + 2 <= e
  <2>1. lines[i] # <<>> /\ i \in DOMAIN lines
    BY <1>1, <1>3, BarIsNotEmpty
  <2>2. LeftOut(lines, i) <=> HeaderOnly(lines, i)
    BY <2>1 DEF LeftOut
  <2>3. HeaderOnly(lines, i) <=> (i + 1 = Len(lines) \/ ~Bar(lines[i + 2]))
    BY <1>3 DEF HeaderOnly
  <2>4. CASE i + 2 <= e
    <3>1. i + 2 \in i .. e /\ i + 1 # Len(lines)
      <4>1. Len(lines) \in Nat /\ e \in i + 1 .. Len(lines)
        BY <1>1, <1>2
      <4>. QED BY ONLY <2>4, <4>1, i \in 1 .. Len(lines)
    <3>. QED BY <1>2, <2>1, <2>2, <2>3, <2>4, <3>1 DEF Due
  <2>5. CASE ~(i + 2 <= e)
    <3>1. e = i + 1 /\ (i + 1 = Len(lines) \/ e < Len(lines)) /\ e + 1 = i + 2
      <4>1. Len(lines) \in Nat /\ e \in i + 1 .. Len(lines)
        BY <1>1, <1>2
      <4>. QED BY ONLY <2>5, <4>1, i \in 1 .. Len(lines)
    <3>2. i + 1 = Len(lines) \/ ~Bar(lines[i + 2])
      BY <1>2, <3>1
    <3>. QED BY <2>2, <2>3, <2>5, <3>2 DEF Due
  <2>. QED BY <2>4, <2>5
<1>7. ASSUME NEW k \in i + 2 .. e PROVE k \in Due(lines) <=> ~IsSep(lines[k])
  <2>1. k \in i + 1 .. e /\ k \in i .. e /\ k \in DOMAIN lines
    BY <1>1, <1>2
  <2>2. InTable(lines, k) /\ lines[k] # <<>>
    BY <1>2, <1>4, <2>1, BarIsNotEmpty
  <2>3. LeftOut(lines, k) <=> IsSep(lines[k])
    BY <2>2 DEF LeftOut, HeaderOnly
  <2>. QED BY <2>1, <2>3 DEF Due
<1>. QED BY <1>5, <1>6, <1>7 DEF e

LEMMA RowsAre ==
    ASSUME NEW lines \in Seq(Seq(Tokens)), NEW i \in 1 .. Len(lines),
           TableAt(lines, i), ~InTable(lines, i), i + 2 <= TableEnd(lines, i)
    PROVE  Segment(lines, i + 2, TableEnd(lines, i))
             = WithoutSeps(SubSeq(lines, i + 2, TableEnd(lines, i)))
<1>. DEFINE e == TableEnd(lines, i)
            f == i + 2
            s == SubSeq(lines, f, e)
            D == Shifted(Due(lines), f - 1)
            E == {n \in DOMAIN s : ~IsSep(s[n])}
<1>1. Len(lines) \in Nat /\ f \in Nat \ {0} /\ f <= e
  OBVIOUS
<1>2. e \in i + 1 .. Len(lines) /\ \A k \in f .. e : k \in Due(lines) <=> ~IsSep(lines[k])
  BY TableEndIs, TableDue
<1>. HIDE DEF e, f
<1>3. s \in Seq(Seq(Tokens)) /\ Len(s) = e - f + 1
      /\ \A n \in 1 .. e - f + 1 : s[n] = lines[f + n - 1]
  <2>1. f \in Int /\ e \in Int /\ \A k \in f .. e : lines[k] \in Seq(Tokens)
    BY <1>1, <1>2
  <2>2. /\ SubSeq(lines, f, e) \in Seq(Seq(Tokens))
        /\ Len(SubSeq(lines, f, e)) = IF f <= e THEN e - f + 1 ELSE 0
        /\ \A n \in 1 .. e - f + 1 : SubSeq(lines, f, e)[n] = lines[f + n - 1]
    <3>. HIDE DEF s
    <3>. QED BY <2>1, SubSeqProperties
  <2>. QED BY <1>1, <2>2
<1>. HIDE DEF s
<1>4. ASSUME NEW n \in DOMAIN s PROVE n \in D <=> ~IsSep(s[n])
  <2>1. n \in 1 .. e - f + 1 /\ n \in Nat
    BY <1>1, <1>2, <1>3
  <2>2. (f - 1) + n = f + n - 1 /\ f + n - 1 \in f .. e
    <3>1. f \in Nat /\ e \in Nat
      BY <1>1, <1>2
    <3>. QED BY ONLY <2>1, <3>1
  <2>3. n \in D <=> f + n - 1 \in Due(lines)
    BY <2>1, <2>2 DEF Shifted
  <2>. QED BY <1>2, <1>3, <2>1, <2>2, <2>3
<1>5. D \cap DOMAIN s = E \cap DOMAIN s
  <2>. HIDE DEF D
  <2>. QED BY <1>4
<1>. HIDE DEF D, E
<1>6. Pick(s, D) = Pick(s, E)
  BY <1>5, PickSame
<1>. QED BY <1>6 DEF Segment, WithoutSeps, D, E, s, e, f

LEMMA PrefixKept ==
    ASSUME NEW A, NEW r \in Seq(A), NEW k \in 1 .. Len(r), Bar(r)
    PROVE  Kept(SubSeq(r, 1, k), r) /\ SubSeq(r, 1, k) \in Seq(A)
<1>. DEFINE p == SubSeq(r, 1, k)
<1>1. 1 \in Nat \ {0} /\ k \in Nat /\ k <= Len(r) /\ 1 <= k /\ k - 1 + 1 = k
  OBVIOUS
<1>2. p \in Seq(A) /\ Len(p) = k
  BY <1>1, PieceIs
<1>3. p # <<>>
  <2>. HIDE DEF p
  <2>. QED BY <1>1, <1>2
<1>4. SubSeq(p, 1, Len(p)) = p
  <2>. HIDE DEF p
  <2>. QED BY <1>2, SubSeqFull
<1>5. IsPrefix(p, r)
  <2>1. SubSeq(r, 1, Len(p)) = p
    BY <1>2
  <2>2. Len(p) <= Len(r)
    BY <1>1, <1>2
  <2>. HIDE DEF p
  <2>. QED BY <1>4, <2>1, <2>2 DEF IsPrefix
<1>. QED BY <1>2, <1>3, <1>5 DEF Kept

LEMMA TableShows ==
    ASSUME NEW lines \in Seq(Seq(Tokens)), NEW i \in 1 .. Len(lines),
           TableAt(lines, i), ~InTable(lines, i)
    PROVE  Shows(FlexHead(lines, i), Segment(lines, i, TableEnd(lines, i)))
<1>. DEFINE B == Seq(Tokens)
            e == TableEnd(lines, i)
            t == SubSeq(lines, i, e)
            one == Segment(lines, i, i)
            two == Segment(lines, i + 1, i + 1)
<1>1. Len(lines) \in Nat /\ i \in Nat \ {0} /\ i <= Len(lines) /\ lines \in Seq(B)
      /\ lines[i] \in Seq(Tokens)
  OBVIOUS
<1>2. e \in i + 1 .. Len(lines) /\ \A k \in i .. e : Bar(lines[k])
  BY TableEndIs
<1>3. FlexHead(lines, i) = FlexTable(t)
  <2>1. lines[i] # <<>>
    BY BarIsNotEmpty DEF TableAt
  <2>. QED BY <2>1 DEF FlexHead
<1>4. /\ i + 1 \notin Due(lines)
      /\ i \in Due(lines) <=> i + 2 <= e
  BY TableDue
<1>5. one = IF i + 2 <= e THEN <<lines[i]>> ELSE <<>>
  BY <1>1, <1>4, SegmentOfOne
<1>6. two = <<>>
  <2>. DEFINE j == i + 1
  <2>1. j \in 1 .. Len(lines) /\ j \notin Due(lines)
    BY <1>1, <1>2, <1>4
  <2>. HIDE DEF j
  <2>2. Segment(lines, j, j) = <<>>
    BY <1>1, <2>1, SegmentOfOne
  <2>. QED BY <2>2 DEF j
<1>. HIDE DEF e, B, one, two
<1>7. Segment(lines, i, e) = one \o Segment(lines, i + 1, e)
  <2>1. i \in 1 .. Len(lines) + 1 /\ i \in i - 1 .. Len(lines) /\ e \in i .. Len(lines)
    BY <1>1, <1>2
  <2>2. Segment(lines, i, e) = Segment(lines, i, i) \o Segment(lines, i + 1, e)
    BY <1>1, <2>1, SegmentConcat
  <2>. QED BY <2>2 DEF one
<1>8. Segment(lines, i + 1, e) = Segment(lines, i + 2, e)
  <2>. DEFINE j == i + 1
  <2>1. /\ j \in 1 .. Len(lines) + 1 /\ j \in j - 1 .. Len(lines) /\ e \in j .. Len(lines)
        /\ j + 1 = i + 2 /\ e \in Nat /\ e <= Len(lines) /\ j + 1 \in Nat \ {0}
    BY <1>1, <1>2
  <2>. HIDE DEF j
  <2>2. Segment(lines, j, e) = Segment(lines, j, j) \o Segment(lines, j + 1, e)
    BY <1>1, <2>1, SegmentConcat
  <2>3. Segment(lines, j, j) = <<>>
    BY <1>6 DEF two, j
  <2>. DEFINE m == j + 1
  <2>4. m \in Nat \ {0}
    BY <2>1
  <2>. HIDE DEF m
  <2>5. Segment(lines, m, e) \in Seq(B)
    BY <1>1, <2>1, <2>4, SegmentType
  <2>6. <<>> \o Segment(lines, m, e) = Segment(lines, m, e)
    BY <2>5, ConcatEmptySeq
  <2>. QED BY <2>1, <2>2, <2>3, <2>6 DEF m, j
<1>9. /\ t \in Seq(B) /\ Len(t) = e - i + 1 /\ t[1] = lines[i]
  BY <1>1, <1>2, PieceIs
<1>10. CASE ~(i + 2 <= e)
  <2>1. e = i + 1 /\ Len(t) = 2
    BY <1>1, <1>2, <1>9, <1>10
  <2>2. FlexTable(t) = <<>>
    BY <2>1 DEF FlexTable
  <2>3. Segment(lines, i + 2, e) = <<>>
    <3>1. SubSeq(lines, i + 2, e) = <<>>
      <4>. DEFINE m == i + 2
      <4>1. m \in Int /\ e \in Int /\ e < m
        BY <1>1, <2>1
      <4>. HIDE DEF m
      <4>2. SubSeq(lines, m, e) = <<>>
        BY <4>1, SubSeqEmpty
      <4>. QED BY <4>2 DEF m
    <3>. QED BY <3>1, PickEmpty DEF Segment
  <2>4. Segment(lines, i, e) = <<>>
    <3>1. one = <<>> /\ <<>> \o <<>> = <<>>
      BY <1>5, <1>10, ConcatEmptySeq, EmptySeq
    <3>. QED BY <1>7, <1>8, <2>3, <3>1
  <2>5. Shows(<<>>, <<>>)
    BY DEF Shows
  <2>. QED BY <1>3, <2>2, <2>4, <2>5 DEF e
<1>11. CASE i + 2 <= e
  <2>. DEFINE s == SubSeq(lines, i + 2, e)
              rows == WithoutSeps(s)
              short == [n \in DOMAIN rows |-> SubSeq(rows[n], 1, Least(Len(rows[n]), Len(t[1])))]
              S == {line \in Seq(Tokens) : Bar(line)}
  <2>1. SubSeq(t, 3, Len(t)) = s
    <3>1. \A k \in i .. e : lines[k] \in B
      BY <1>1, <1>2
    <3>. DEFINE a == SubSeq(t, 3, Len(t))
    <3>2. a \in Seq(B) /\ Len(a) = e - i - 1 /\ \A n \in 1 .. e - i - 1 : a[n] = lines[i + n + 1]
      <4>0. i \in Int /\ e \in Int /\ \A n \in 1 .. e - i + 1 : t[n] = lines[i + n - 1]
        BY <1>1, <1>2, <3>1, SubSeqProperties
      <4>. HIDE DEF t
      <4>. DEFINE l == Len(t)
      <4>1. 3 \in Int /\ l \in Int /\ 3 <= l /\ \A n \in 3 .. l : t[n] \in B
        BY <1>1, <1>2, <1>9, <1>11
      <4>2. l = e - i + 1 /\ l - 3 + 1 = e - i - 1
        BY <1>1, <1>2, <1>9
      <4>. HIDE DEF l
      <4>3. /\ SubSeq(t, 3, l) \in Seq(B) /\ Len(SubSeq(t, 3, l)) = l - 3 + 1
            /\ \A n \in 1 .. l - 3 + 1 : SubSeq(t, 3, l)[n] = t[3 + n - 1]
        BY <4>1, SubSeqProperties
      <4>4. ASSUME NEW n \in 1 .. e - i - 1 PROVE SubSeq(t, 3, l)[n] = lines[i + n + 1]
        <5>1. 3 + n - 1 \in 1 .. e - i + 1 /\ i + (3 + n - 1) - 1 = i + n + 1
          BY <1>1, <1>2
        <5>. QED BY <4>0, <4>2, <4>3, <5>1
      <4>. QED BY <4>2, <4>3, <4>4 DEF l
    <3>3. s \in Seq(B) /\ Len(s) = e - i - 1 /\ \A n \in 1 .. e - i - 1 : s[n] = lines[i + n + 1]
      <4>. DEFINE m == i + 2
      <4>1. m \in Int /\ e \in Int /\ m <= e /\ (\A n \in m .. e : lines[n] \in B)
            /\ e - m + 1 = e - i - 1
        BY <1>1, <1>2, <1>11, <3>1
      <4>2. \A n \in 1 .. e - i - 1 : m + n - 1 = i + n + 1
        BY <1>1, <1>2
      <4>. HIDE DEF m
      <4>3. /\ SubSeq(lines, m, e) \in Seq(B) /\ Len(SubSeq(lines, m, e)) = e - m + 1
            /\ \A n \in 1 .. e - m + 1 : SubSeq(lines, m, e)[n] = lines[m + n - 1]
        BY <4>1, SubSeqProperties
      <4>4. /\ SubSeq(lines, m, e) \in Seq(B) /\ Len(SubSeq(lines, m, e)) = e - i - 1
            /\ \A n \in 1 .. e - i - 1 : SubSeq(lines, m, e)[n] = lines[i + n + 1]
        BY <4>1, <4>2, <4>3
      <4>. QED BY <4>4 DEF m
    <3>. HIDE DEF a, s
    <3>4. \A n \in 1 .. Len(a) : a[n] = s[n]
      BY <3>2, <3>3
    <3>5. a = s
      BY <3>2, <3>3, <3>4, SeqEqual
    <3>. QED BY <3>5 DEF a
  <2>2. FlexTable(t) = <<lines[i]>> \o short
    <3>1. ~(Len(t) < 3)
      BY <1>1, <1>2, <1>9, <1>11
    <3>. QED BY <1>9, <2>1, <3>1 DEF FlexTable
  <2>3. Segment(lines, i, e) = <<lines[i]>> \o rows
    <3>1. Segment(lines, i + 2, e) = rows
      BY <1>11, RowsAre DEF e
    <3>. QED BY <1>5, <1>7, <1>8, <1>11, <3>1
  <2>4. \A k \in i .. e : lines[k] \in S
    BY <1>1, <1>2 DEF B
  <2>5. s \in Seq(S)
    <3>. DEFINE m == i + 2
    <3>1. m \in Int /\ e \in Int /\ \A k \in m .. e : lines[k] \in S
      BY <1>1, <1>2, <2>4
    <3>. HIDE DEF S, m
    <3>2. SubSeq(lines, m, e) \in Seq(S)
      BY <3>1, SubSeqProperties
    <3>. QED BY <3>2 DEF m
  <2>6. rows \in Seq(S)
    <3>. HIDE DEF s, S
    <3>. QED BY <2>5, PickType DEF WithoutSeps
  <2>7. Len(lines[i]) \in Nat \ {0} /\ lines[i] # <<>> /\ Bar(lines[i])
    <3>1. Bar(lines[i]) /\ lines[i] # <<>>
      BY BarIsNotEmpty DEF TableAt
    <3>. QED BY <1>1, <3>1, EmptySeq
  <2>. HIDE DEF s, rows
  <2>8. ASSUME NEW n \in DOMAIN rows
        PROVE  Kept(short[n], rows[n]) /\ short[n] \in Seq(Tokens)
    <3>. DEFINE r == rows[n]
                k == Least(Len(r), Len(t[1]))
    <3>1. r \in Seq(Tokens) /\ Bar(r)
      BY <2>6
    <3>2. short[n] = SubSeq(r, 1, k)
      OBVIOUS
    <3>. HIDE DEF r
    <3>3. k \in 1 .. Len(r)
      <4>1. Len(r) \in Nat \ {0}
        BY <3>1, BarIsNotEmpty, EmptySeq
      <4>2. Len(t[1]) = Len(lines[i])
        BY <1>9
      <4>3. Least(Len(r), Len(lines[i])) \in 1 .. Len(r)
        <5>. DEFINE x == Len(r)
                    y == Len(lines[i])
        <5>1. x \in Nat \ {0} /\ y \in Nat \ {0}
          BY <2>7, <4>1
        <5>. HIDE DEF x, y
        <5>2. Least(x, y) \in 1 .. x
          BY ONLY <5>1 DEF Least
        <5>. QED BY <5>2 DEF x, y
      <4>. QED BY <4>2, <4>3
    <3>. HIDE DEF k, short
    <3>4. Kept(SubSeq(r, 1, k), r) /\ SubSeq(r, 1, k) \in Seq(Tokens)
      BY <3>1, <3>3, PrefixKept
    <3>. QED BY <3>2, <3>4 DEF r
  <2>9. short \in Seq(B) /\ rows \in Seq(B) /\ Shows(short, rows)
    <3>1. DOMAIN rows = 1 .. Len(rows) /\ Len(rows) \in Nat /\ DOMAIN short = 1 .. Len(rows)
      <4>1. DOMAIN short = DOMAIN rows
        OBVIOUS
      <4>. HIDE DEF S, short
      <4>. QED BY <2>6, <4>1
    <3>2. short \in [1 .. Len(rows) -> B]
      BY <2>8, <3>1 DEF B
    <3>. DEFINE m == Len(rows)
    <3>3. m \in Nat /\ short \in [1 .. m -> B]
      BY <3>1, <3>2
    <3>4. rows \in Seq(B)
      BY <2>6 DEF B
    <3>. HIDE DEF short, m, S
    <3>5. short \in Seq(B) /\ Len(short) = m
      BY <3>3, SeqDef
    <3>6. \A n \in 1 .. Len(rows) : Kept(short[n], rows[n])
      BY <2>8, <3>1
    <3>. QED BY <3>4, <3>5, <3>6 DEF Shows, m
  <2>10. Shows(<<lines[i]>>, <<lines[i]>>) /\ <<lines[i]>> \in Seq(B)
    <3>. DEFINE l == lines[i]
    <3>1. l \in B /\ Len(l) \in 1 .. Len(l) /\ Bar(l) /\ l \in Seq(Tokens)
      BY <1>1, <2>7 DEF B
    <3>. HIDE DEF l, S, short
    <3>2. Kept(SubSeq(l, 1, Len(l)), l) /\ SubSeq(l, 1, Len(l)) = l
      BY <3>1, PrefixKept, SubSeqFull
    <3>3. <<l>> \in Seq(B) /\ Len(<<l>>) = 1 /\ <<l>>[1] = l
      BY <3>1
    <3>4. Shows(<<l>>, <<l>>)
      <4>. DEFINE o == <<l>>
      <4>1. Len(o) = 1 /\ o[1] = l /\ Kept(l, l)
        BY <3>2, <3>3
      <4>. HIDE DEF o
      <4>2. \A n \in 1 .. Len(o) : Kept(o[n], o[n])
        BY <4>1
      <4>. QED BY <4>2 DEF Shows, o
    <3>. QED BY <3>3, <3>4 DEF l
  <2>11. Shows(<<lines[i]>> \o short, <<lines[i]>> \o rows)
    <3>. HIDE DEF short, S
    <3>. DEFINE o == <<lines[i]>>
    <3>1. Shows(o, o) /\ o \in Seq(B)
      BY <2>10
    <3>. HIDE DEF o
    <3>2. Shows(o \o short, o \o rows)
      BY <2>9, <3>1, ShowsConcat
    <3>. QED BY <3>2 DEF o
  <2>. QED BY <1>3, <2>2, <2>3, <2>11 DEF e
<1>. QED BY <1>10, <1>11

LEMMA HeadShows ==
    ASSUME NEW lines \in Seq(Seq(Tokens)), NEW i \in 1 .. Len(lines), lines[i] # <<>>,
           ~InTable(lines, i)
    PROVE  Shows(FlexHead(lines, i), Segment(lines, i, FlexNext(lines, i) - 1))
<1>1. CASE TableAt(lines, i)
  <2>1. TableEnd(lines, i) \in i + 1 .. Len(lines)
    BY <1>1, TableEndIs
  <2>2. FlexNext(lines, i) - 1 = TableEnd(lines, i)
    BY <1>1, <2>1 DEF FlexNext
  <2>. QED BY <1>1, <2>2, TableShows
<1>2. CASE ~TableAt(lines, i)
  <2>. DEFINE l == lines[i]
              w == RichText(l)
  <2>1. FlexNext(lines, i) - 1 = i
    BY <1>2 DEF FlexNext
  <2>2. FlexHead(lines, i) = <<w>>
    BY <1>2 DEF FlexHead
  <2>3. i \in Due(lines)
    <3>1. ~HeaderOnly(lines, i)
      BY <1>2 DEF HeaderOnly, TableAt
    <3>2. ~LeftOut(lines, i)
      BY <3>1 DEF LeftOut
    <3>. QED BY <3>2 DEF Due
  <2>4. Segment(lines, i, i) = <<l>>
    BY <2>3, SegmentOfOne
  <2>5. Kept(w, l)
    BY DEF Kept
  <2>. HIDE DEF w, l
  <2>6. Shows(<<w>>, <<l>>)
    <3>. DEFINE o == <<w>>
                q == <<l>>
    <3>1. Len(o) = 1 /\ o[1] = w /\ Len(q) = 1 /\ q[1] = l
      OBVIOUS
    <3>. HIDE DEF o, q
    <3>2. \A n \in 1 .. Len(q) : Kept(o[n], q[n])
      BY <2>5, <3>1
    <3>3. Shows(o, q)
      BY <3>1, <3>2 DEF Shows
    <3>. QED BY <3>3 DEF o, q
  <2>. QED BY <2>1, <2>2, <2>4, <2>6
<1>. QED BY <1>1, <1>2

LEMMA FromShows ==
    ASSUME NEW lines \in Seq(Seq(Tokens))
    PROVE  Shows(MdToFlexContents(lines), Segment(lines, 1, Len(lines)))
<1>. DEFINE n == Len(lines)
            g == FlexFrom(lines)
            B == Seq(Tokens)
            Good == {i \in 1 .. n + 1 :
                       i = n + 1 \/ ~InTable(lines, i)
                         => g[i] \in Seq(B) /\ Shows(g[i], Segment(lines, i, n))}
<1>1. n \in Nat /\ lines \in Seq(B)
  OBVIOUS
<1>2. n + 1 \in Good
  <2>1. g[n + 1] = <<>>
    BY FlexStep
  <2>2. Segment(lines, n + 1, n) = <<>>
    <3>1. SubSeq(lines, n + 1, n) = <<>>
      <4>. DEFINE m == n + 1
      <4>1. m \in Int /\ n \in Int /\ n < m
        BY <1>1
      <4>. HIDE DEF m, n
      <4>2. SubSeq(lines, m, n) = <<>>
        BY <4>1, SubSeqEmpty
      <4>. QED BY <4>2 DEF m
    <3>. QED BY <3>1, PickEmpty DEF Segment
  <2>3. Shows(<<>>, <<>>)
    BY DEF Shows
  <2>4. n + 1 \in 1 .. n + 1 /\ <<>> \in Seq(B)
    BY <1>1
  <2>. HIDE DEF n, g, B
  <2>5. g[n + 1] \in Seq(B) /\ Shows(g[n + 1], Segment(lines, n + 1, n))
    BY <2>1, <2>2, <2>3, <2>4
  <2>. QED BY <2>4, <2>5
<1>3. ASSUME NEW i \in 1 .. n, \A j \in i + 1 .. n + 1 : j \in Good PROVE i \in Good
  <2>. SUFFICES ASSUME ~InTable(lines, i)
                PROVE  g[i] \in Seq(B) /\ Shows(g[i], Segment(lines, i, n))
    BY <1>1
  <2>. DEFINE r == FlexNext(lines, i)
              m == r - 1
              p == Segment(lines, i, m)
              q == Segment(lines, r, n)
  <2>1. r \in i + 1 .. n + 1
    BY FlexNextIs
  <2>2. r = n + 1 \/ ~InTable(lines, r)
    <3>1. r <= n => ~InTable(lines, r)
      BY StillFresh
    <3>. HIDE DEF r, n
    <3>2. r = n + 1 \/ r <= n
      BY <1>1, <2>1
    <3>. QED BY <3>1, <3>2
  <2>3. g[r] \in Seq(B) /\ Shows(g[r], q)
    <3>1. r \in Good
      <4>. HIDE DEF Good, r
      <4>. QED BY <1>3, <2>1
    <3>. HIDE DEF g, B, n, r
    <3>. QED BY <2>2, <3>1
  <2>4. Segment(lines, i, n) = p \o q /\ p \in Seq(B) /\ q \in Seq(B)
    <3>. HIDE DEF r, n, B
    <3>1. /\ i \in 1 .. Len(lines) + 1 /\ m \in i - 1 .. Len(lines) /\ n \in m .. Len(lines)
          /\ m + 1 = r /\ i \in Nat \ {0} /\ m \in Nat /\ m <= Len(lines) /\ r \in Nat \ {0}
          /\ n <= Len(lines) /\ n \in Nat
      BY <1>1, <2>1 DEF n
    <3>. HIDE DEF m
    <3>2. Segment(lines, i, n) = Segment(lines, i, m) \o Segment(lines, m + 1, n)
      BY <1>1, <3>1, SegmentConcat
    <3>3. Segment(lines, i, m) \in Seq(B) /\ Segment(lines, r, n) \in Seq(B)
      BY <1>1, <3>1, SegmentType
    <3>. QED BY <3>1, <3>2, <3>3
  <2>5. CASE lines[i] = <<>>
    <3>1. ~Bar(lines[i])
      BY <2>5 DEF Bar
    <3>2. r = i + 1 /\ m = i
      BY <3>1 DEF FlexNext, TableAt
    <3>3. g[i] = g[r]
      BY <2>5, <3>2, FlexStep
    <3>4. p = <<>>
      <4>1. i \notin Due(lines)
        BY <2>5 DEF Due, LeftOut
      <4>2. Segment(lines, i, i) = <<>>
        BY <4>1, SegmentOfOne
      <4>. QED BY <3>2, <4>2
    <3>. HIDE DEF p, q, g, r, m, B, n
    <3>5. Segment(lines, i, n) = q
      BY <2>4, <3>4, ConcatEmptySeq
    <3>. QED BY <2>3, <3>3, <3>5
  <2>6. CASE lines[i] # <<>>
    <3>. DEFINE h == FlexHead(lines, i)
    <3>1. g[i] = h \o g[r]
      BY <2>6, FlexStep
    <3>2. Shows(h, p)
      BY <2>6, HeadShows
    <3>3. h \in Seq(B)
      BY FlexHeadType
    <3>. HIDE DEF p, q, g, r, m, B, n, h
    <3>. DEFINE u == g[r]
    <3>4. u \in Seq(B) /\ Shows(u, q)
      BY <2>3
    <3>. HIDE DEF u
    <3>5. h \o u \in Seq(B)
      BY <3>3, <3>4, ConcatProperties
    <3>6. Shows(h \o u, p \o q)
      BY <2>4, <3>2, <3>3, <3>4, ShowsConcat
    <3>. QED BY <2>4, <3>1, <3>5, <3>6 DEF u
  <2>. QED BY <2>5, <2>6
<1>4. 1 \in Good
  <2>1. 1 \in 1 .. n + 1
    BY <1>1
  <2>. HIDE DEF Good, n
  <2>2. 1 .. n + 1 \subseteq Good
    BY <1>1, <1>2, <1>3, Downwards
  <2>. QED BY <2>1, <2>2
<1>5. ~InTable(lines, 1)
  BY DEF InTable
<1>6. Shows(g[1], Segment(lines, 1, n))
  <2>. HIDE DEF g, n, B
  <2>. QED BY <1>4, <1>5
<1>. QED BY <1>6, FlexIsFrom

LEMMA ContentsShow ==
    ASSUME NEW lines \in Seq(Seq(Tokens))
    PROVE  Shows(MdToFlexContents(lines), Pick(lines, Due(lines)))
<1>. DEFINE D == Shifted(Due(lines), 1 - 1)
<1>1. SubSeq(lines, 1, Len(lines)) = lines
  BY SubSeqFull
<1>2. D \cap DOMAIN lines = Due(lines) \cap DOMAIN lines
  <2>1. \A k \in DOMAIN lines : k \in Nat /\ (1 - 1) + k = k
    OBVIOUS
  <2>2. \A k \in DOMAIN lines : k \in D <=> k \in Due(lines)
    BY <2>1 DEF Shifted
  <2>. HIDE DEF D
  <2>. QED BY <2>2
<1>. HIDE DEF D
<1>3. Pick(lines, D) = Pick(lines, Due(lines))
  BY <1>2, PickSame
<1>4. Segment(lines, 1, Len(lines)) = Pick(lines, Due(lines))
  BY <1>1, <1>3 DEF Segment, D
<1>. QED BY <1>4, FromShows

\* A bubble (md_to_flex_contents) has every line of the answer, in order, but blank
\* ones, separators of tables and headers of tables without rows; each is shown as
\* its rich text, or as the first cells of a table row.
THEOREM BubblesShowAll == Spec => []FlexShowsAll
<1>. DEFINE due == Pick(FlexLines(answer), Due(FlexLines(answer)))
<1>1. ASSUME FormInv, IsFlex
      PROVE  Shows(reply[1].contents, due) /\ due \in Seq(Seq(Tokens))
  <2>. DEFINE c == TextChunks(answer, strip_md)
  <2>1. PICK flex \in BOOLEAN :
          /\ answer \in Seq(Lines) /\ strip_md \in BOOLEAN
          /\ reply # <<>> /\ reply[1].type = "flex"
          /\ reply = BuildReply(answer, flex, strip_md)
    BY <1>1 DEF FormInv, IsFlex
  <2>2. c \in Seq(Seq(Wide)) /\ Len(c) \in 0 .. MaxMessages
    BY <2>1, TextChunksIs
  <2>3. MaxMessages \in Nat \ {0} /\ 0 \in 0 .. MaxMessages /\ 1 \in 0 .. MaxMessages
    BY LimitsAssumption
  <2>4. \A n \in 0 .. MaxMessages : ImageCount(answer, n) \in Nat
    <3>1. ASSUME NEW n \in 0 .. MaxMessages PROVE ImageCount(answer, n) \in Nat
      <4>1. ImageCount(answer, n) \in 0 .. MaxMessages - n
        BY <2>1, ImageCountIs
      <4>. QED BY <4>1
    <3>. QED BY <3>1
  <2>5. ASSUME NEW d \in Seq(Seq(Wide)), NEW k \in Nat PROVE reply # Plain(d, k)
    <3>. SUFFICES ASSUME reply = Plain(d, k) PROVE FALSE
      OBVIOUS
    <3>1. /\ Len(reply) = Len(d) + k /\ reply \in Seq(Sent)
          /\ \A n \in 1 .. Len(d) : reply[n] = Text(d[n])
          /\ \A n \in Len(d) + 1 .. Len(d) + k : reply[n] = Image(n - Len(d))
      BY PlainIs
    <3>2. Len(d) \in Nat /\ Len(reply) # 0
      BY <2>1, <3>1, EmptySeq
    <3>3. 1 \in 1 .. Len(d) \/ 1 \in Len(d) + 1 .. Len(d) + k
      BY <3>1, <3>2
    <3>4. reply[1].type = "text" \/ reply[1].type = "image"
      BY <3>1, <3>3, MessageFields
    <3>. QED BY <2>1, <3>4
  <2>6. reply = Bubble(Contents(answer), ImageCount(answer, 1))
    <3>1. <<>> \in Seq(Seq(Wide))
      OBVIOUS
    <3>2. reply # Plain(<<>>, ImageCount(answer, 0))
      BY <2>3, <2>4, <2>5, <3>1
    <3>3. reply # Plain(c, ImageCount(answer, Len(c)))
      <4>. HIDE DEF c
      <4>. QED BY <2>2, <2>4, <2>5
    <3>. QED BY <2>1, <3>2, <3>3, BuildReplyIs
  <2>7. reply[1] = Flex(Contents(answer))
    BY <2>3, <2>4, <2>6, BubbleIs
  <2>8. reply[1].contents = Contents(answer)
    BY <2>7, MessageFields
  <2>9. FlexLines(answer) \in Seq(Seq(Tokens))
    BY <2>1, FlexLinesAre
  <2>10. due \in Seq(Seq(Tokens))
    BY <2>9, PickType
  <2>11. Shows(Contents(answer), due)
    BY <2>9, ContentsShow DEF Contents
  <2>. QED BY <2>8, <2>10, <2>11
<1>2. FormInv => FlexShowsAll
  <2>. SUFFICES ASSUME FormInv, IsFlex
                PROVE  /\ Len(reply[1].contents) = Len(due)
                       /\ \A n \in DOMAIN due :
                            \/ reply[1].contents[n] = RichText(due[n])
                            \/ /\ Bar(due[n]) /\ reply[1].contents[n] # <<>>
                               /\ IsPrefix(reply[1].contents[n], due[n])
    BY DEF FlexShowsAll, Due
  <2>1. Shows(reply[1].contents, due) /\ DOMAIN due = 1 .. Len(due)
    BY <1>1
  <2>. HIDE DEF due
  <2>. QED BY <2>1 DEF Shows, Kept
<1>. QED BY <1>2, FormInvHolds, PTL
=============================================================================
