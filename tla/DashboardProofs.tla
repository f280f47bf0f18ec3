--------------------------- MODULE DashboardProofs ---------------------------
(***************************************************************************)
(* Logins are throttled, sessions hold and are few, and tags on chats are  *)
(* on the list, for every number of attempts, lockout, lifetime, number of *)
(* rows kept, set of addresses, operators, chats and names.                *)
(***************************************************************************)
EXTENDS Dashboard, FiniteSetTheorems, NaturalsInduction, WellFoundedInduction, TLAPS

-----------------------------------------------------------------------------
(* The steps of the limiter and the sessions, without the pages. *)

AuthStep ==
    \/ Tick \/ AuthRestart
    \/ \E ip \in Ips : \/ WrongPassword(ip)
                       \/ \E cut \in Cuts : RightPassword(ip, cut)

-----------------------------------------------------------------------------
(* Types. *)

Entry == [count : Nat, locked_until : Nat, touched : Nat]

AuthTypes ==
    /\ now \in Nat /\ errors \in Nat
    /\ entries \in [Ips -> Entry]
    /\ failures \in [Ips -> Seq(Nat)]
    /\ logins \in Seq(Nat)
    /\ tokens \subseteq DOMAIN logins

LEMMA KeptTypes ==
    ASSUME AuthTypes PROVE Kept \in [Ips -> Entry]
BY DEF AuthTypes, Kept, Entry, NoAttempts

LEMMA RecordedSeq ==
    ASSUME NEW f \in Seq(Nat), now \in Nat PROVE Recorded(f) \in Seq(Nat)
<1> DEFINE all == Append(f, now)
<1>1. all \in Seq(Nat) /\ Len(all) = Len(f) + 1 /\ Len(f) \in Nat
  OBVIOUS
<1> HIDE DEF all
<1>2. Tail(all) \in Seq(Nat)
  BY <1>1
<1> QED
  BY <1>1, <1>2 DEF Recorded, all

LEMMA TypesStep ==
    ASSUME AuthTypes, [AuthStep]_authVars PROVE AuthTypes'
<1> USE DEF AuthTypes
<1> Kept \in [Ips -> Entry]
  BY KeptTypes
<1>1. CASE Tick
  BY <1>1 DEF Tick
<1>2. CASE AuthRestart
  BY <1>2 DEF AuthRestart, NoAttempts, Entry
<1>3. ASSUME NEW ip \in Ips, WrongPassword(ip) PROVE AuthTypes'
  <2>1. AfterFailure(Kept[ip]) \in Entry
    BY SettingsAssumption DEF AfterFailure, Entry
  <2>2. Recorded(failures[ip]) \in Seq(Nat)
    <3>1. failures[ip] \in Seq(Nat)
      OBVIOUS
    <3> QED
      BY <3>1, RecordedSeq
  <2> QED
    BY <1>3, <2>1, <2>2 DEF WrongPassword
<1>4. ASSUME NEW ip \in Ips, NEW cut \in Cuts, RightPassword(ip, cut) PROVE AuthTypes'
  <2>1. entries' \in [Ips -> Entry] /\ failures' \in [Ips -> Seq(Nat)]
    BY <1>4 DEF RightPassword, NoAttempts, Entry
  <2>2. now' \in Nat /\ errors' \in Nat
    BY <1>4 DEF RightPassword
  <2>3. logins' \in Seq(Nat) /\ tokens' \subseteq DOMAIN logins'
    <3>1. CASE cut = "insert"
      BY <1>4, <3>1 DEF RightPassword, CreateToken, Unexpired
    <3>2. CASE cut # "insert"
      <4> DEFINE new == Len(logins) + 1
      <4>1. logins' = Append(logins, now + TokenTtl) /\ now + TokenTtl \in Nat
        BY <1>4, <3>2, SettingsAssumption DEF RightPassword, CreateToken
      <4>2. logins' \in Seq(Nat) /\ DOMAIN logins' = 1 .. new
        BY <4>1
      <4>3. tokens' \subseteq Unexpired \cup {new}
        BY <1>4, <3>2 DEF RightPassword, CreateToken, Newest
      <4> QED
        BY <4>2, <4>3, SMTT(30) DEF Unexpired
    <3> QED
      BY <3>1, <3>2
  <2> QED
    BY <2>1, <2>2, <2>3
<1>5. CASE UNCHANGED authVars
  BY <1>5 DEF authVars
<1> QED
  BY <1>1, <1>2, <1>3, <1>4, <1>5 DEF AuthStep

-----------------------------------------------------------------------------
(* The counter of an address. *)

LEMMA Settings == MaxAttempts \in Nat /\ MaxAttempts > 0 /\ Lockout \in Nat /\ Lockout > 0
BY SettingsAssumption

\* How a counter e stands to the n failures f it counts: it counts the last ones;
\* those before it were a lockout earlier than the first of them, or than now if
\* it counts none; a full counter is a lockout from the last failure.
Counts(e, f, n, t) ==
    /\ n <= MaxAttempts + 1
    /\ \A i, j \in 1 .. n : i <= j => f[i] <= f[j]
    /\ n > 0 => f[n] <= t
    /\ e.count <= MaxAttempts /\ e.count <= n
    /\ e.count < MaxAttempts => e.locked_until = 0
    /\ e.count = MaxAttempts => e.locked_until = f[n] + Lockout
    /\ e.count > 0 => e.touched = f[n]
    /\ n > 0 /\ e.count = 0 => f[n] + Lockout <= t
    /\ n > e.count /\ e.count > 0 => f[n - e.count] + Lockout <= f[n - e.count + 1]
    /\ n > MaxAttempts => f[1] + Lockout <= f[n]

Throttled == \A ip \in Ips : Counts(entries[ip], failures[ip], Len(failures[ip]), now)

\* Evicting a stale counter.
LEMMA EvictionCounts ==
    ASSUME now \in Nat, NEW e \in Entry, NEW f \in Seq(Nat), Counts(e, f, Len(f), now), Stale(e)
    PROVE  Counts(NoAttempts, f, Len(f), now)
<1> USE SettingsAssumption
<1>1. Len(f) \in Nat /\ \A i \in 1 .. Len(f) : f[i] \in Nat
  OBVIOUS
<1>2. e.count \in Nat /\ e.touched \in Nat /\ e.locked_until \in Nat
  BY DEF Entry
<1>3. e.touched + Lockout <= now
  BY <1>2 DEF Stale
<1>4. Len(f) > 0 => f[Len(f)] + Lockout <= now
  BY <1>1, <1>2, <1>3 DEF Counts
<1> QED
  BY <1>1, <1>4 DEF Counts, NoAttempts

LEMMA KeptCounts ==
    ASSUME AuthTypes, Throttled, NEW ip \in Ips
    PROVE  Counts(Kept[ip], failures[ip], Len(failures[ip]), now)
<1>1. /\ entries[ip] \in Entry /\ failures[ip] \in Seq(Nat) /\ now \in Nat
      /\ Counts(entries[ip], failures[ip], Len(failures[ip]), now)
  BY DEF AuthTypes, Throttled
<1> QED
  BY <1>1, EvictionCounts DEF Kept

\* r, of length m, is f, of length n, with a failure at t more; the first is given
\* up when there are too many.
Shifted(r, m, f, n, k, t) ==
    /\ m = n + 1 - k /\ m <= MaxAttempts + 1
    /\ k = 1 => n = MaxAttempts + 1
    /\ \A i \in 1 .. m - 1 : r[i] = f[i + k]
    /\ r[m] = t

LEMMA RecordedIs ==
    ASSUME NEW f \in Seq(Nat), Len(f) <= MaxAttempts + 1, now \in Nat
    PROVE  /\ Recorded(f) \in Seq(Nat)
           /\ \E k \in 0 .. 1 : Shifted(Recorded(f), Len(Recorded(f)), f, Len(f), k, now)
<1> USE SettingsAssumption
<1> DEFINE all == Append(f, now)
<1>1. /\ all \in Seq(Nat) /\ Len(all) = Len(f) + 1 /\ Len(f) \in Nat
      /\ all[Len(f) + 1] = now /\ \A i \in 1 .. Len(f) : all[i] = f[i]
  OBVIOUS
<1>2. CASE Len(all) > MaxAttempts + 1
  <2>1. Recorded(f) = Tail(all) /\ Len(f) = MaxAttempts + 1
    BY <1>1, <1>2 DEF Recorded
  <2> HIDE DEF all
  <2>2. /\ Tail(all) \in Seq(Nat) /\ Len(Tail(all)) = Len(f)
        /\ \A i \in 1 .. Len(f) : Tail(all)[i] = all[i + 1]
    BY <1>1, <2>1
  <2>3. \A i \in 1 .. Len(f) - 1 : Tail(all)[i] = f[i + 1]
    BY <1>1, <2>2
  <2>4. Tail(all)[Len(f)] = now
    BY <1>1, <2>1, <2>2
  <2>5. Shifted(Tail(all), Len(Tail(all)), f, Len(f), 1, now)
    BY <1>1, <2>1, <2>2, <2>3, <2>4 DEF Shifted
  <2> QED
    BY <2>1, <2>2, <2>5
<1>3. CASE ~(Len(all) > MaxAttempts + 1)
  <2>1. Recorded(f) = all
    BY <1>3 DEF Recorded
  <2> HIDE DEF all
  <2>2. Shifted(all, Len(all), f, Len(f), 0, now)
    BY <1>1, <1>3 DEF Shifted
  <2> QED
    BY <1>1, <2>1, <2>2
<1> QED
  BY <1>2, <1>3

LEMMA NatElements == ASSUME NEW s \in Seq(Nat), NEW i \in 1 .. Len(s) PROVE s[i] \in Nat
OBVIOUS

LEMMA LenNat == ASSUME NEW s \in Seq(Nat) PROVE Len(s) \in Nat
OBVIOUS

\* Counter a goes on from e, or begins anew after a lockout's time.
GoesOn(a, e, f, n, t) ==
    /\ a.touched = t /\ a.count \in 1 .. MaxAttempts
    /\ a.locked_until = IF a.count = MaxAttempts THEN t + Lockout ELSE 0
    /\ a.count = 1 /\ n > 0 => f[n] + Lockout <= t
    /\ a.count > 1 => a.count = e.count + 1

LEMMA OneMoreCounts ==
    ASSUME NEW t \in Nat, NEW n \in Nat, NEW m \in Nat, NEW k \in 0 .. 1,
           NEW f, \A i \in 1 .. n : f[i] \in Nat,
           NEW r, \A i \in 1 .. m : r[i] \in Nat,
           NEW e, e.count \in Nat, NEW a, a.count \in Nat,
           Counts(e, f, n, t), GoesOn(a, e, f, n, t), Shifted(r, m, f, n, k, t)
    PROVE  Counts(a, r, m, t)
<1> USE Settings
<1>1. /\ m = n + 1 - k /\ m > 0 /\ r[m] = t
      /\ \A i \in 1 .. m - 1 : r[i] = f[i + k]
  BY DEF Shifted
<1>2. \A i \in 1 .. n : f[i] <= t
  <2> SUFFICES ASSUME NEW i \in 1 .. n PROVE f[i] <= t
    OBVIOUS
  <2>1. f[i] <= f[n] /\ f[n] <= t /\ f[n] \in Nat
    BY DEF Counts
  <2> QED
    BY <2>1
<1>3. \A i \in 1 .. m - 1 : i + k \in 1 .. n
  BY <1>1
<1>4. \A i, j \in 1 .. m : i <= j => r[i] <= r[j]
  <2> SUFFICES ASSUME NEW i \in 1 .. m, NEW j \in 1 .. m, i <= j
               PROVE r[i] <= r[j]
    OBVIOUS
  <2>1. CASE i = m
    BY <1>1, <2>1
  <2>2. CASE j = m /\ i < m
    BY <1>1, <1>2, <1>3, <2>2
  <2>3. CASE j < m
    <3>1. /\ i + k \in 1 .. n /\ j + k \in 1 .. n /\ i + k <= j + k
          /\ r[i] = f[i + k] /\ r[j] = f[j + k]
      BY <1>1, <1>3, <2>3
    <3> QED
      BY <3>1 DEF Counts
  <2> QED
    BY <2>1, <2>2, <2>3
<1>5. a.count <= m
  BY <1>1 DEF Counts, GoesOn, Shifted
<1>6. ASSUME m > a.count
      PROVE  r[m - a.count] + Lockout <= r[m - a.count + 1]
  <2>1. CASE a.count = 1
    <3>1. m - 1 \in 1 .. m - 1 /\ m - 1 + k = n /\ n > 0
      BY <1>1, <1>6, <2>1
    <3>2. r[m - 1] = f[n] /\ f[n] + Lockout <= t
      BY <1>1, <2>1, <3>1 DEF GoesOn
    <3> QED
      BY <1>1, <2>1, <3>2
  <2>2. CASE a.count > 1
    <3>1. a.count = e.count + 1
      BY <2>2 DEF GoesOn
    <3>2. PICK p \in Nat : p = m - a.count
      BY <1>6
    <3>3. /\ p \in 1 .. m - 1 /\ p + 1 \in 1 .. m - 1
          /\ p + k = n - e.count /\ p + 1 + k = n - e.count + 1
      BY <1>1, <1>6, <2>2, <3>1, <3>2
    <3>4. r[p] = f[n - e.count] /\ r[p + 1] = f[n - e.count + 1]
      BY <1>1, <3>3
    <3>5. n > e.count /\ e.count > 0
      BY <2>2, <3>1, <3>3
    <3>6. f[n - e.count] + Lockout <= f[n - e.count + 1]
      BY <3>5 DEF Counts
    <3> QED
      BY <3>2, <3>4, <3>6
  <2> QED
    BY <2>1, <2>2 DEF GoesOn
<1>7. ASSUME m > MaxAttempts PROVE r[1] + Lockout <= r[m]
  <2>1. PICK p \in Nat : p = m - a.count
    BY <1>5
  <2>2. p \in 1 .. m /\ p + 1 \in 1 .. m /\ m > a.count
    BY <1>7, <2>1 DEF GoesOn
  <2>3. r[p] + Lockout <= r[p + 1]
    BY <1>6, <2>1, <2>2
  <2>4. r[1] <= r[p] /\ r[p + 1] <= r[m]
    BY <1>4, <2>2
  <2> QED
    BY <2>2, <2>3, <2>4
<1> QED
  BY <1>1, <1>4, <1>5, <1>6, <1>7 DEF Counts, GoesOn, Shifted

\* A counter that is not locked counts one more failure.
LEMMA FailureCounts ==
    ASSUME now \in Nat, NEW e \in Entry, NEW f \in Seq(Nat), Counts(e, f, Len(f), now),
           e.locked_until <= now
    PROVE  Counts(AfterFailure(e), Recorded(f), Len(Recorded(f)), now)
<1> USE Settings
<1>1. /\ Len(f) \in Nat /\ (Len(f) > 0 => f[Len(f)] \in Nat)
      /\ e.count \in Nat /\ e.touched \in Nat /\ e.locked_until \in Nat
  BY LenNat, NatElements DEF Entry
<1>2. Served(e) <=> e.count = MaxAttempts
  BY <1>1, SMTT(30) DEF Served, Counts
<1>3. AfterFailure(e) \in Entry
  BY <1>1 DEF AfterFailure, Entry
<1>4. GoesOn(AfterFailure(e), e, f, Len(f), now)
  BY <1>1, <1>2, SMTT(60) DEF AfterFailure, Counts, GoesOn
<1>5. Len(f) <= MaxAttempts + 1
  BY DEF Counts
<1> DEFINE r == Recorded(f)
           a == AfterFailure(e)
<1>6. PICK k \in 0 .. 1 : Shifted(r, Len(r), f, Len(f), k, now)
  BY <1>5, RecordedIs
<1>7. r \in Seq(Nat) /\ Len(r) \in Nat /\ a.count \in Nat
  BY <1>3, <1>5, RecordedIs, LenNat DEF Entry
<1> HIDE DEF r, a
<1>8. /\ \A i \in 1 .. Len(f) : f[i] \in Nat
      /\ \A i \in 1 .. Len(r) : r[i] \in Nat
  BY <1>7, NatElements
<1>9. GoesOn(a, e, f, Len(f), now)
  BY <1>4 DEF a
<1>10. Counts(a, r, Len(r), now)
  BY <1>1, <1>6, <1>7, <1>8, <1>9, OneMoreCounts
<1> QED
  BY <1>10 DEF r, a

LEMMA ThrottledStep ==
    ASSUME AuthTypes, Throttled, [AuthStep]_authVars PROVE Throttled'
<1> USE SettingsAssumption
<1>1. CASE Tick
  <2> SUFFICES ASSUME NEW ip \in Ips PROVE Counts(entries[ip], failures[ip], Len(failures[ip]), now + 1)
    BY <1>1 DEF Tick, Throttled
  <2>1. failures[ip] \in Seq(Nat) /\ now \in Nat /\ Counts(entries[ip], failures[ip], Len(failures[ip]), now)
    BY DEF AuthTypes, Throttled
  <2>2. Len(failures[ip]) > 0 => failures[ip][Len(failures[ip])] \in Nat
    BY <2>1
  <2> QED
    BY <2>1, <2>2 DEF Counts
<1>2. CASE AuthRestart
  BY <1>2 DEF AuthRestart, Throttled, Counts, NoAttempts
<1>3. ASSUME NEW ip \in Ips, WrongPassword(ip) PROVE Throttled'
  <2> SUFFICES ASSUME NEW x \in Ips PROVE Counts(entries'[x], failures'[x], Len(failures'[x]), now)
    BY <1>3 DEF Throttled, WrongPassword
  <2>1. /\ Kept \in [Ips -> Entry] /\ failures \in [Ips -> Seq(Nat)] /\ now \in Nat
        /\ Counts(Kept[x], failures[x], Len(failures[x]), now)
    BY KeptTypes, KeptCounts DEF AuthTypes
  <2>2. CASE x = ip
    <3>1. Kept[ip].locked_until <= now
      BY <1>3, <2>1 DEF WrongPassword, Allowed, Kept, NoAttempts
    <3>2. Counts(AfterFailure(Kept[ip]), Recorded(failures[ip]), Len(Recorded(failures[ip])), now)
      BY <2>1, <2>2, <3>1, FailureCounts
    <3> QED
      BY <1>3, <2>1, <2>2, <3>2 DEF WrongPassword
  <2>3. CASE x # ip
    BY <1>3, <2>1, <2>3 DEF WrongPassword
  <2> QED
    BY <2>2, <2>3
<1>4. ASSUME NEW ip \in Ips, NEW cut \in Cuts, RightPassword(ip, cut) PROVE Throttled'
  <2> SUFFICES ASSUME NEW x \in Ips PROVE Counts(entries'[x], failures'[x], Len(failures'[x]), now)
    BY <1>4 DEF Throttled, RightPassword
  <2>1. /\ Kept \in [Ips -> Entry] /\ failures \in [Ips -> Seq(Nat)]
        /\ Counts(Kept[x], failures[x], Len(failures[x]), now)
    BY KeptTypes, KeptCounts DEF AuthTypes
  <2>2. CASE x = ip
    <3>1. entries'[x] = NoAttempts /\ failures'[x] = <<>>
      BY <1>4, <2>1, <2>2 DEF RightPassword
    <3> QED
      BY <3>1 DEF Counts, NoAttempts
  <2>3. CASE x # ip
    BY <1>4, <2>1, <2>3 DEF RightPassword
  <2> QED
    BY <2>2, <2>3
<1>5. CASE UNCHANGED authVars
  BY <1>5 DEF authVars, Throttled
<1> QED
  BY <1>1, <1>2, <1>3, <1>4, <1>5 DEF AuthStep

LEMMA ThrottledBounds ==
    ASSUME AuthTypes, Throttled PROVE FailuresBounded
<1> SUFFICES ASSUME NEW ip \in Ips
             PROVE  LET f == failures[ip] IN
                    /\ Len(f) > MaxAttempts => f[1] + Lockout <= f[Len(f)]
                    /\ ~Allowed(ip) => /\ Len(f) >= MaxAttempts
                                       /\ f[Len(f)] + Lockout = entries[ip].locked_until
  BY DEF FailuresBounded
<1>1. /\ entries[ip] \in Entry /\ failures[ip] \in Seq(Nat) /\ now \in Nat
      /\ Counts(entries[ip], failures[ip], Len(failures[ip]), now)
  BY DEF AuthTypes, Throttled
<1> QED
  BY <1>1, SettingsAssumption DEF Counts, Allowed, Entry

-----------------------------------------------------------------------------
(* The sessions. *)

\* The expiries rise; of the unexpired tokens the newest Keep are there, those
\* there are all newer than any one there, and each cut call left one too many.
\* n logins l, rows of admin_tokens, e cut calls, time t.
Held(l, n, rows, e, t) ==
    \A s \in 1 .. n : l[s] > t =>
        /\ n - s < Keep => s \in rows
        /\ s \in rows => n - s < Keep + e /\ s .. n \subseteq rows

Rising(l, n, t) ==
    /\ \A i \in 1 .. n : l[i] \in Nat /\ l[i] <= t + TokenTtl
    /\ \A i, j \in 1 .. n : i <= j => l[i] <= l[j]

Sessions ==
    /\ Rising(logins, Len(logins), now)
    /\ Held(logins, Len(logins), tokens, errors, now)

LEMMA TokenSettings == TokenTtl \in Nat /\ TokenTtl > 0 /\ Keep \in Nat /\ Keep > 0
BY SettingsAssumption

Newer(rows, x) == {r \in rows : r > x}

LEMMA NewestDef ==
    ASSUME NEW rows, NEW x \in rows
    PROVE  x \in Newest(rows) <=> Cardinality(Newer(rows, x)) < Keep
<1>. DEFINE Among(s) == Cardinality({r \in rows : r > s}) < Keep
<1>1. Newest(rows) = {s \in rows : Among(s)}
  BY DEF Newest
<1>. HIDE DEF Among
<1>2. x \in Newest(rows) <=> Among(x)
  BY <1>1
<1>. QED BY <1>2 DEF Among, Newer

\* What the trim of create_token leaves of the rows of n logins.
LEMMA NewestOnes ==
    ASSUME NEW n \in Nat, NEW rows \in SUBSET (1 .. n), NEW s \in rows
    PROVE  /\ n - s < Keep => s \in Newest(rows)
           /\ s \in Newest(rows) /\ s .. n \subseteq rows =>
                  n - s < Keep /\ s .. n \subseteq Newest(rows)
<1> USE TokenSettings
<1>0. \A x \in rows : x \in 1 .. n
  OBVIOUS
<1>1. ASSUME NEW x \in 1 .. n
      PROVE  /\ Cardinality(x + 1 .. n) = n - x
             /\ Cardinality(Newer(rows, x)) \in Nat /\ Cardinality(Newer(rows, x)) <= n - x
  <2>1. IsFiniteSet(x + 1 .. n) /\ Cardinality(x + 1 .. n) = n - x
    BY FS_Interval
  <2>2. Newer(rows, x) \in SUBSET (x + 1 .. n)
    <3> SUFFICES ASSUME NEW y \in Newer(rows, x) PROVE y \in x + 1 .. n
      OBVIOUS
    <3>1. y \in 1 .. n /\ y > x
      BY <1>0 DEF Newer
    <3> QED
      BY <3>1
  <2>3. /\ IsFiniteSet(Newer(rows, x))
        /\ Cardinality(Newer(rows, x)) <= Cardinality(x + 1 .. n)
    BY <2>1, <2>2, FS_Subset
  <2>4. Cardinality(Newer(rows, x)) \in Nat
    BY <2>3, FS_CardinalityType
  <2> QED
    BY <2>1, <2>3, <2>4
<1>2. \A x \in rows : x \in Newest(rows) <=> Cardinality(Newer(rows, x)) < Keep
  BY NewestDef
<1>3. ASSUME NEW x \in rows, n - x < Keep PROVE x \in Newest(rows)
  <2>1. Cardinality(Newer(rows, x)) \in Nat /\ Cardinality(Newer(rows, x)) <= n - x
    BY <1>1
  <2> QED
    BY <1>2, <1>3, <2>1
<1>4. ASSUME s \in Newest(rows), s .. n \subseteq rows
      PROVE  n - s < Keep /\ s .. n \subseteq Newest(rows)
  <2>1. Newer(rows, s) = s + 1 .. n
    <3>1. \A y \in Newer(rows, s) : y \in s + 1 .. n
      BY <1>0 DEF Newer
    <3>2. \A y \in s + 1 .. n : y \in s .. n /\ y > s
      BY <1>0
    <3>3. \A y \in s + 1 .. n : y \in Newer(rows, s)
      BY <1>4, <3>2 DEF Newer
    <3> QED
      BY <3>1, <3>3
  <2>2. n - s < Keep
    BY <1>1, <1>2, <1>4, <2>1
  <2>3. \A x \in s .. n : x \in rows /\ n - x < Keep
    BY <1>4, <2>2
  <2> QED
    BY <1>3, <2>2, <2>3
<1> QED
  BY <1>3, <1>4

\* The rows before the trim, of the logins m with one more.
LEMMA RowsHeld ==
    ASSUME NEW n \in Nat, NEW t \in Nat, NEW e \in Nat, NEW l, NEW m,
           NEW rows \in SUBSET (1 .. n), Rising(l, n, t), Held(l, n, rows, e, t),
           \A i \in 1 .. n : m[i] = l[i],
           m[n + 1] = t + TokenTtl
    PROVE  /\ Rising(m, n + 1, t)
           /\ Held(m, n + 1, {s \in rows : l[s] > t} \cup {n + 1}, e + 1, t)
<1> USE TokenSettings
<1> DEFINE left == {s \in rows : l[s] > t} \cup {n + 1}
<1>1. Rising(m, n + 1, t)
  BY DEF Rising
<1>2. ASSUME NEW s \in 1 .. n + 1, m[s] > t
      PROVE  /\ n + 1 - s < Keep => s \in left
             /\ s \in left => n + 1 - s < Keep + (e + 1) /\ s .. n + 1 \subseteq left
  <2>1. CASE s = n + 1
    BY <2>1
  <2>2. CASE s \in 1 .. n
    <3>1. l[s] > t
      BY <1>2, <2>2
    <3>2. /\ n - s < Keep => s \in rows
          /\ s \in rows => n - s < Keep + e /\ s .. n \subseteq rows
      BY <2>2, <3>1 DEF Held
    <3>3. n + 1 - s < Keep => s \in left
      BY <2>2, <3>1, <3>2
    <3>4. ASSUME s \in left PROVE n + 1 - s < Keep + (e + 1) /\ s .. n + 1 \subseteq left
      <4>1. s \in rows
        BY <2>2, <3>4
      <4>2. n - s < Keep + e /\ s .. n \subseteq rows
        BY <3>2, <4>1
      <4>3. \A j \in s .. n : l[j] > t
        BY <2>2, <3>1 DEF Rising
      <4>4. s .. n + 1 \subseteq left
        BY <2>2, <4>2, <4>3
      <4> QED
        BY <2>2, <4>2, <4>4
    <3> QED
      BY <3>3, <3>4
  <2> QED
    BY <2>1, <2>2
<1> HIDE DEF left
<1>3. Held(m, n + 1, left, e + 1, t)
  BY <1>2 DEF Held
<1> QED
  BY <1>1, <1>3 DEF left

\* Trimming the rows takes back what the cut may have left.
LEMMA NewestHeld ==
    ASSUME NEW n \in Nat, NEW t \in Nat, NEW e \in Nat, NEW l,
           NEW rows \in SUBSET (1 .. n), Held(l, n, rows, e + 1, t)
    PROVE  Held(l, n, Newest(rows), e, t)
<1> SUFFICES ASSUME NEW s \in 1 .. n, l[s] > t
             PROVE  /\ n - s < Keep => s \in Newest(rows)
                    /\ s \in Newest(rows) =>
                           n - s < Keep + e /\ s .. n \subseteq Newest(rows)
  BY DEF Held
<1>1. /\ n - s < Keep => s \in rows
      /\ s \in rows => s .. n \subseteq rows
  BY DEF Held
<1>2. Newest(rows) \subseteq rows
  BY DEF Newest
<1>3. n - s < Keep => s \in Newest(rows)
  BY <1>1, NewestOnes
<1>4. s \in Newest(rows) => n - s < Keep /\ s .. n \subseteq Newest(rows)
  BY <1>1, <1>2, NewestOnes
<1> QED
  BY <1>3, <1>4, TokenSettings

LEMMA SessionsStep ==
    ASSUME AuthTypes, Sessions, [AuthStep]_authVars PROVE Sessions'
<1> USE TokenSettings
<1> DEFINE n == Len(logins)
<1>1. /\ n \in Nat /\ now \in Nat /\ errors \in Nat /\ tokens \subseteq 1 .. n
      /\ logins \in Seq(Nat)
  BY DEF AuthTypes
<1>2. Rising(logins, n, now) /\ Held(logins, n, tokens, errors, now)
  BY DEF Sessions
<1>3. CASE Tick
  <2> HIDE DEF n
  <2>1. Rising(logins, n, now + 1)
    BY <1>1, <1>2 DEF Rising
  <2>2. Held(logins, n, tokens, errors, now + 1)
    <3> SUFFICES ASSUME NEW s \in 1 .. n, logins[s] > now + 1
                 PROVE  /\ n - s < Keep => s \in tokens
                        /\ s \in tokens =>
                               n - s < Keep + errors /\ s .. n \subseteq tokens
      BY DEF Held
    <3>1. logins[s] > now
      BY <1>1, <1>2 DEF Rising
    <3> QED
      BY <1>2, <3>1 DEF Held
  <2> QED
    BY <1>3, <2>1, <2>2 DEF Tick, Sessions, n
<1>4. CASE AuthRestart
  BY <1>4 DEF AuthRestart, Sessions
<1>5. ASSUME NEW ip \in Ips, WrongPassword(ip) PROVE Sessions'
  BY <1>5 DEF WrongPassword, Sessions
<1>6. ASSUME NEW ip \in Ips, NEW cut \in Cuts, RightPassword(ip, cut) PROVE Sessions'
  <2> DEFINE rows == Unexpired \cup {n + 1}
             longer == Append(logins, now + TokenTtl)
  <2>1. now' = now /\ errors' = IF cut = "none" THEN errors ELSE errors + 1
    BY <1>6 DEF RightPassword
  <2>2. CASE cut = "insert"
    <3>1. logins' = logins /\ tokens' = Unexpired
      BY <1>6, <2>2 DEF RightPassword, CreateToken
    <3> HIDE DEF n
    <3>2. Held(logins, n, Unexpired, errors + 1, now)
      <4> SUFFICES ASSUME NEW s \in 1 .. n, logins[s] > now
                   PROVE  /\ n - s < Keep => s \in Unexpired
                          /\ s \in Unexpired =>
                                 n - s < Keep + (errors + 1) /\ s .. n \subseteq Unexpired
        BY DEF Held
      <4>1. /\ n - s < Keep => s \in tokens
            /\ s \in tokens => n - s < Keep + errors /\ s .. n \subseteq tokens
        BY <1>2 DEF Held
      <4>2. \A j \in s .. n : logins[j] > now
        BY <1>1, <1>2 DEF Rising
      <4> QED
        BY <1>1, <4>1, <4>2 DEF Unexpired
    <3> QED
      BY <1>2, <2>1, <2>2, <3>1, <3>2 DEF Sessions, n
  <2>3. CASE cut # "insert"
    <3>1. logins' = longer /\ tokens' = IF cut = "none" THEN Newest(rows) ELSE rows
      BY <1>6, <2>3 DEF RightPassword, CreateToken, Cuts
    <3>2. /\ Len(longer) = n + 1 /\ longer[n + 1] = now + TokenTtl
          /\ \A i \in 1 .. n : longer[i] = logins[i]
      BY <1>1
    <3> HIDE DEF n, longer
    <3>3. rows \in SUBSET (1 .. n + 1)
      <4>1. Unexpired \subseteq 1 .. n
        BY <1>1 DEF Unexpired
      <4>2. 1 .. n \subseteq 1 .. n + 1 /\ n + 1 \in 1 .. n + 1
        BY <1>1
      <4> QED
        BY <4>1, <4>2
    <3>4. /\ Rising(longer, n + 1, now)
          /\ Held(longer, n + 1, rows, errors + 1, now)
      BY <1>1, <1>2, <3>2, RowsHeld DEF Unexpired
    <3> HIDE DEF rows
    <3>5. Held(longer, n + 1, Newest(rows), errors, now)
      BY <1>1, <3>3, <3>4, NewestHeld
    <3> QED
      BY <2>1, <3>1, <3>2, <3>4, <3>5 DEF Sessions
  <2> QED
    BY <2>2, <2>3
<1>7. CASE UNCHANGED authVars
  BY <1>7 DEF authVars, Sessions
<1> QED
  BY <1>3, <1>4, <1>5, <1>6, <1>7 DEF AuthStep

LEMMA SessionsBound ==
    ASSUME AuthTypes, Sessions PROVE SessionsHold
<1> SUFFICES ASSUME NEW s \in DOMAIN logins
             PROVE  /\ logins[s] > now /\ Len(logins) - s < Keep => Valid(s)
                    /\ Valid(s) => logins[s] > now /\ Len(logins) - s < Keep + errors
  BY DEF SessionsHold
<1>1. s \in 1 .. Len(logins)
  BY DEF AuthTypes
<1> QED
  BY <1>1 DEF Sessions, Held, Valid

LEMMA InitialAuth == AuthInit => AuthTypes /\ Throttled /\ Sessions
<1> SUFFICES ASSUME AuthInit PROVE AuthTypes /\ Throttled /\ Sessions
  OBVIOUS
<1>1. AuthTypes
  BY DEF AuthInit, AuthTypes, NoAttempts, Entry
<1>2. Throttled
  BY SettingsAssumption DEF AuthInit, Throttled, Counts, NoAttempts
<1>3. Sessions
  BY DEF AuthInit, Sessions, Rising, Held
<1> QED
  BY <1>1, <1>2, <1>3

-----------------------------------------------------------------------------
(* The dashboard: whatever its operators do to the tags is no step of this. *)

LEMMA StepsOfAuth == [Next]_vars => [AuthStep]_authVars
<1> SUFFICES ASSUME [Next]_vars PROVE [AuthStep]_authVars
  OBVIOUS
<1>1. CASE Clock
  BY <1>1 DEF Clock, AuthStep
<1>2. CASE Restart
  BY <1>2 DEF Restart, AuthStep
<1>3. ASSUME NEW o \in Operators, LogIn(o) PROVE AuthStep
  <2> Address[o] \in Ips
    BY AddressAssumption
  <2> QED
    BY <1>3 DEF LogIn, AuthStep
<1>4. ASSUME NEW o \in Operators, LogOut(o) \/ Dispatch(o) \/ Proceed(o)
      PROVE UNCHANGED authVars
  BY <1>4 DEF LogOut, Dispatch, Proceed
<1>5. CASE UNCHANGED vars
  BY <1>5 DEF vars
<1> QED
  BY <1>1, <1>2, <1>3, <1>4, <1>5 DEF Next

-----------------------------------------------------------------------------
\* Within the length of a lockout no address has more than MaxAttempts passwords
\* found wrong, and only such an address is locked out: whatever is evicted, and
\* whatever other addresses do (auth.py, LoginRateLimiter).
THEOREM LoginsAreThrottled == Spec => []FailuresBounded
<1>1. Init => AuthTypes /\ Throttled
  BY InitialAuth DEF Init
<1>2. AuthTypes /\ Throttled /\ [Next]_vars => (AuthTypes /\ Throttled)'
  BY StepsOfAuth, TypesStep, ThrottledStep
<1>3. AuthTypes /\ Throttled => FailuresBounded
  BY ThrottledBounds
<1> QED
  BY <1>1, <1>2, <1>3, PTL DEF Spec

\* A login holds until it expires or Keep newer ones are made, and no longer:
\* each cut create_token may leave one row too many (auth.py, create_token).
THEOREM SessionsAreHeld == Spec => []SessionsHold
<1>1. Init => AuthTypes /\ Sessions
  BY InitialAuth DEF Init
<1>2. AuthTypes /\ Sessions /\ [Next]_vars => (AuthTypes /\ Sessions)'
  BY StepsOfAuth, TypesStep, SessionsStep
<1>3. AuthTypes /\ Sessions => SessionsHold
  BY SessionsBound
<1> QED
  BY <1>1, <1>2, <1>3, PTL DEF Spec

-----------------------------------------------------------------------------
(* Picking elements of a list. *)

LEMMA LeastElement ==
    ASSUME NEW T \in SUBSET Nat, T # {}
    PROVE  \E x \in T : \A y \in T : x <= y
<1>1. IsWellFoundedOn(OpToRel(<, Nat), Nat)
  BY NatLessThanWellFounded
<1>2. PICK x \in T : \A y \in T : <<y, x>> \notin OpToRel(<, Nat)
  BY <1>1, WFMin
<1>3. \A y \in T : ~(y < x)
  BY <1>2 DEF OpToRel
<1>. QED BY <1>3

\* The positions of a list can be put in order.
Orders(p, positions) ==
    /\ p \in [1 .. Cardinality(positions) -> positions]
    /\ \A i, j \in DOMAIN p : i < j => p[i] < p[j]
Unordered == {n \in Nat : \E positions \in SUBSET (1 .. n) :
                            \A p : ~Orders(p, positions)}

LEMMA PositionsFinite ==
    ASSUME NEW n \in Nat, NEW P \in SUBSET (1 .. n)
    PROVE  IsFiniteSet(P) /\ Cardinality(P) \in Nat
<1>1. IsFiniteSet(1 .. n)
  BY FS_Interval
<1>. QED BY <1>1, FS_Subset, FS_CardinalityType

LEMMA OneMorePosition ==
    ASSUME NEW n \in Nat, NEW P \in SUBSET (1 .. n), NEW p, Orders(p, P)
    PROVE  \E q : Orders(q, P \cup {n + 1})
<1>. DEFINE k == Cardinality(P)
            q == [i \in 1 .. k + 1 |-> IF i <= k THEN p[i] ELSE n + 1]
<1>1. IsFiniteSet(P)
  BY PositionsFinite
<1>2. k \in Nat /\ Cardinality(P \cup {n + 1}) = k + 1
  BY <1>1, FS_CardinalityType, FS_AddElement
<1>3. p \in [1 .. k -> P] /\ \A i, j \in 1 .. k : i < j => p[i] < p[j]
  BY DEF Orders
<1>. HIDE DEF k
<1>4. \A i \in 1 .. k : p[i] \in P /\ p[i] < n + 1
  <2>1. \A x \in P : x \in Nat /\ x < n + 1
    OBVIOUS
  <2>. QED BY <1>3, <2>1
<1>5. \A i \in 1 .. k + 1 : i <= k => i \in 1 .. k
  BY <1>2
<1>6. q \in [1 .. k + 1 -> P \cup {n + 1}]
  BY <1>4, <1>5
<1>7. ASSUME NEW i \in 1 .. k + 1, NEW j \in 1 .. k + 1, i < j
      PROVE  q[i] < q[j]
  <2>1. i \in 1 .. k
    BY <1>2, <1>7
  <2>2. CASE j <= k
    BY <1>3, <1>5, <1>7, <2>1, <2>2
  <2>3. CASE ~(j <= k)
    BY <1>4, <2>1, <2>3
  <2>. QED BY <2>2, <2>3
<1>. HIDE DEF q
<1>. QED BY <1>2, <1>6, <1>7 DEF Orders

LEMMA PositionsOrdered ==
    ASSUME NEW n \in Nat, NEW positions \in SUBSET (1 .. n)
    PROVE  Orders(InOrder(positions), positions)
<1>1. Unordered = {}
  <2>1. SUFFICES ASSUME Unordered # {} PROVE FALSE
    OBVIOUS
  <2>2. PICK m \in Unordered : \A k \in Unordered : m <= k
    BY <2>1, LeastElement DEF Unordered
  <2>3. PICK P \in SUBSET (1 .. m) : \A p : ~Orders(p, P)
    BY <2>2 DEF Unordered
  <2>4. m \in Nat
    BY <2>2 DEF Unordered
  <2>5. m # 0
    <3>1. SUFFICES ASSUME m = 0 PROVE FALSE
      OBVIOUS
    <3>2. P = {}
      BY <2>3, <3>1
    <3>4. Cardinality({}) = 0
      BY FS_EmptySet
    <3>3. Orders([i \in 1 .. 0 |-> 0], P)
      BY <3>2, <3>4 DEF Orders
    <3>. QED BY <2>3, <3>3
  <2>6. m - 1 \in Nat /\ m - 1 \notin Unordered
    BY <2>2, <2>4, <2>5
  <2>7. PICK p : Orders(p, P \ {m})
    <3>1. P \ {m} \in SUBSET (1 .. m - 1)
      BY <2>3, <2>4
    <3>. QED BY <2>6, <3>1 DEF Unordered
  <2>8. CASE m \in P
    <3>1. P \ {m} \in SUBSET (1 .. m - 1) /\ (P \ {m}) \cup {m - 1 + 1} = P
      BY <2>3, <2>4, <2>8
    <3>2. \E q : Orders(q, (P \ {m}) \cup {m - 1 + 1})
      BY <2>6, <2>7, <3>1, OneMorePosition
    <3>. QED BY <2>3, <3>1, <3>2
  <2>9. CASE m \notin P
    <3>1. P \ {m} = P
      BY <2>9
    <3>. QED BY <2>3, <2>7, <3>1
  <2>. QED BY <2>8, <2>9
<1>2. \E p : Orders(p, positions)
  BY <1>1 DEF Unordered
<1>3. \E p \in [1 .. Cardinality(positions) -> positions] :
        \A i, j \in DOMAIN p : i < j => p[i] < p[j]
  BY <1>2 DEF Orders
<1>. QED BY <1>3 DEF Orders, InOrder

\* What At picks comes from the positions given; and without repetition, if the
\* list has none there.
LEMMA AtIs ==
    ASSUME NEW S, NEW list \in Seq(S), NEW positions \in SUBSET DOMAIN list
    PROVE  /\ At(list, positions) \in Seq({list[i] : i \in positions})
           /\ (\A i, j \in positions : list[i] = list[j] => i = j)
                => IsInjective(At(list, positions))
<1>. DEFINE k == Cardinality(positions)
            p == InOrder(positions)
<1>1. DOMAIN list = 1 .. Len(list) /\ Len(list) \in Nat
  OBVIOUS
<1>2. Orders(p, positions)
  BY <1>1, PositionsOrdered
<1>3. k \in Nat
  BY <1>1, PositionsFinite
<1>4. p \in [1 .. k -> positions] /\ \A i, j \in 1 .. k : i < j => p[i] < p[j]
  BY <1>2 DEF Orders
<1>5. At(list, positions) = [i \in 1 .. k |-> list[p[i]]]
  BY DEF At
<1>. HIDE DEF k, p
<1>6. At(list, positions) \in Seq({list[i] : i \in positions})
  <2>1. At(list, positions) \in [1 .. k -> {list[i] : i \in positions}]
    BY <1>4, <1>5
  <2>. QED BY <1>3, <2>1
<1>7. ASSUME \A i, j \in positions : list[i] = list[j] => i = j
      PROVE  IsInjective(At(list, positions))
  <2> SUFFICES ASSUME NEW i \in 1 .. k, NEW j \in 1 .. k, list[p[i]] = list[p[j]]
               PROVE  i = j
    BY <1>5 DEF IsInjective
  <2>1. p[i] \in positions /\ p[j] \in positions /\ p[i] = p[j]
    BY <1>4, <1>7
  <2>2. p[i] \in Nat
    BY <1>1, <2>1
  <2>3. ~(i < j) /\ ~(j < i)
    BY <1>4, <2>1, <2>2
  <2>. QED BY <1>3, <2>3
<1>. QED BY <1>6, <1>7

-----------------------------------------------------------------------------
(* The lists of tags. *)

ListOk(list) == list \in Seq(Names) /\ IsInjective(list)

OpOk(v) ==
    \/ v = Idle
    \/ v.kind = "rewriting" /\ v.old \in Names /\ v.new \in Names \cup {NoName}
    \/ /\ v.kind = "editing" /\ v.chat \in Chats /\ v.offered \subseteq Names
       /\ ListOk(v.view)

TagsTyped ==
    /\ known \subseteq Names /\ excused \subseteq Names
    /\ DOMAIN tags = Chats /\ \A c \in Chats : ListOk(tags[c])
    /\ DOMAIN op = Operators /\ \A o \in Operators : OpOk(op[o])
    /\ requests \in 0 .. MaxRequests

Leaving == {op[o].old : o \in {x \in Operators : op[x].kind = "rewriting"}}
Listed(c) == ToSet(tags[c]) \subseteq known \cup excused \cup Leaving \cup Escaped

\* _rewrite_chat_tags leaves nothing of the old name, unless it is the new one,
\* and no tag twice.
LEMMA RewrittenIs ==
    ASSUME NEW list, ListOk(list), NEW old \in Names, NEW new \in Names \cup {NoName}
    PROVE  /\ ListOk(Rewritten(list, old, new))
           /\ ToSet(Rewritten(list, old, new))
                \subseteq (ToSet(list) \ {old}) \cup ({new} \ {NoName})
<1>. DEFINE replaced == Replaced(list, old, new)
            P == {i \in DOMAIN replaced :
                    /\ replaced[i] # NoName
                    /\ \A j \in 1 .. i - 1 : replaced[j] # replaced[i]}
            left == (ToSet(list) \ {old}) \cup ({new} \ {NoName})
            result == At(replaced, P)
<1>1. /\ list \in Seq(Names) /\ Len(list) \in Nat /\ DOMAIN list = 1 .. Len(list)
      /\ DOMAIN replaced = 1 .. Len(list)
      /\ \A i \in DOMAIN list : replaced[i] = IF list[i] = old THEN new ELSE list[i]
  BY DEF ListOk, Replaced
<1>2. replaced \in Seq(Names \cup {NoName})
  BY <1>1 DEF Replaced
<1>3. Rewritten(list, old, new) = result
  BY DEF Rewritten
<1>4. {replaced[i] : i \in P} \subseteq left /\ left \subseteq Names
  <2>1. ToSet(list) = {list[i] : i \in DOMAIN list} /\ ToSet(list) \subseteq Names
    BY <1>1 DEF ToSet
  <2>. QED BY <1>1, <2>1
<1>5. \A i, j \in P : replaced[i] = replaced[j] => i = j
  <2> SUFFICES ASSUME NEW i \in P, NEW j \in P, replaced[i] = replaced[j]
               PROVE  i = j
    OBVIOUS
  <2>1. i \in Nat /\ j \in Nat /\ 1 <= i /\ 1 <= j
    BY <1>1
  <2>2. ~(i < j)
    BY <2>1
  <2>3. ~(j < i)
    BY <2>1
  <2>. QED BY <2>1, <2>2, <2>3
<1>6. P \in SUBSET DOMAIN replaced
  OBVIOUS
<1>. HIDE DEF replaced, P, result
<1>7. result \in Seq({replaced[i] : i \in P}) /\ IsInjective(result)
  BY <1>2, <1>5, <1>6, AtIs DEF result
<1>. HIDE DEF left
<1>8. result \in Seq(left)
  BY <1>4, <1>7
<1>9. result \in Seq(Names) /\ ToSet(result) \subseteq left
  BY <1>4, <1>8 DEF ToSet
<1>. QED BY <1>3, <1>7, <1>9 DEF ListOk, left

\* What the page sends.
LEMMA SavedIs ==
    ASSUME NEW view, ListOk(view), NEW offered \in SUBSET Names,
           NEW list \in {Append(view, n) : n \in offered \ ToSet(view)}
                        \cup {At(view, {i \in DOMAIN view : view[i] # n}) : n \in ToSet(view)}
    PROVE  ListOk(list)
<1>1. /\ view \in Seq(Names) /\ Len(view) \in Nat /\ DOMAIN view = 1 .. Len(view)
      /\ IsInjective(view)
  BY DEF ListOk
<1>2. CASE \E n \in offered \ ToSet(view) : list = Append(view, n)
  <2>1. PICK n \in offered \ ToSet(view) : list = Append(view, n)
    BY <1>2
  <2>2. list \in Seq(Names) /\ DOMAIN list = 1 .. Len(view) + 1
    BY <1>1, <2>1
  <2>3. /\ list[Len(view) + 1] = n
        /\ \A i \in 1 .. Len(view) : list[i] = view[i] /\ view[i] # n
    BY <1>1, <2>1 DEF ToSet
  <2>4. ASSUME NEW i \in DOMAIN list, NEW j \in DOMAIN list, list[i] = list[j]
        PROVE  i = j
    <3>1. \A k \in DOMAIN list : k \in 1 .. Len(view) \/ k = Len(view) + 1
      BY <1>1, <2>2
    <3>. QED BY <1>1, <2>3, <2>4, <3>1 DEF IsInjective
  <2>. QED BY <2>2, <2>4 DEF ListOk, IsInjective
<1>3. CASE \E n \in ToSet(view) : list = At(view, {i \in DOMAIN view : view[i] # n})
  <2>1. PICK n \in ToSet(view) : list = At(view, {i \in DOMAIN view : view[i] # n})
    BY <1>3
  <2>. DEFINE P == {i \in DOMAIN view : view[i] # n}
  <2>2. P \in SUBSET DOMAIN view /\ \A i, j \in P : view[i] = view[j] => i = j
    BY <1>1 DEF IsInjective
  <2>3. {view[i] : i \in P} \subseteq Names
    BY <1>1
  <2>. HIDE DEF P
  <2>4. At(view, P) \in Seq({view[i] : i \in P}) /\ IsInjective(At(view, P))
    BY <1>1, <2>2, AtIs
  <2>5. At(view, P) \in Seq(Names)
    BY <2>3, <2>4
  <2>. QED BY <2>1, <2>4, <2>5 DEF ListOk, P
<1>. QED BY <1>2, <1>3

-----------------------------------------------------------------------------
(* The steps of the tags. *)

LEMMA OpSet ==
    ASSUME TagsTyped, NEW o \in Operators, NEW v, OpOk(v), op' = [op EXCEPT ![o] = v]
    PROVE  /\ DOMAIN op' = Operators /\ \A x \in Operators : OpOk(op'[x])
           /\ op'[o] = v /\ \A x \in Operators \ {o} : op'[x] = op[x]
<1>1. DOMAIN op' = Operators
  BY DEF TagsTyped
<1>2. op'[o] = v /\ \A x \in Operators \ {o} : op'[x] = op[x]
  BY DEF TagsTyped
<1>. QED BY <1>1, <1>2 DEF TagsTyped

LEMMA OpForms ==
    /\ OpOk(Idle) /\ Idle.kind = "idle"
    /\ \A old \in Names, new \in Names \cup {NoName} :
         OpOk(Rewriting(old, new)) /\ Rewriting(old, new).kind = "rewriting"
         /\ Rewriting(old, new).old = old
    /\ \A c \in Chats : TagsTyped => OpOk(Editing(c)) /\ Editing(c).kind = "editing"
<1>1. OpOk(Idle) /\ Idle.kind = "idle"
  BY DEF OpOk, Idle
<1>2. \A old \in Names, new \in Names \cup {NoName} :
        OpOk(Rewriting(old, new)) /\ Rewriting(old, new).kind = "rewriting"
        /\ Rewriting(old, new).old = old
  BY DEF OpOk, Rewriting
<1>3. ASSUME NEW c \in Chats, TagsTyped
      PROVE  OpOk(Editing(c)) /\ Editing(c).kind = "editing"
  <2>1. /\ Editing(c).kind = "editing" /\ Editing(c).chat = c
        /\ Editing(c).view = tags[c] /\ Editing(c).offered = known
    BY DEF Editing
  <2>. QED BY <1>3, <2>1 DEF OpOk, TagsTyped
<1>. QED BY <1>1, <1>2, <1>3

TagsInv == TagsTyped /\ \A c \in Chats : Listed(c)

LEMMA ListedAll == TagsAreListed <=> \A c \in Chats : Listed(c)
BY DEF TagsAreListed, Listed, Leaving

LEMMA TagsInitial == TagsInit => TagsInv
<1> SUFFICES ASSUME TagsInit PROVE TagsInv
  OBVIOUS
<1>1. ASSUME NEW c \in Chats
      PROVE  ListOk(tags[c]) /\ ToSet(tags[c]) \subseteq known
  <2>1. tags[c] \in {list \in UNION {[1 .. n -> known] : n \in 0 .. Cardinality(known)} :
                       IsInjective(list)}
    BY DEF TagsInit
  <2>2. PICK n \in 0 .. Cardinality(known) : tags[c] \in [1 .. n -> known]
    BY <2>1
  <2>3. known \subseteq Names
    BY DEF TagsInit
  <2>4. n \in Nat
    BY <2>2
  <2>. QED BY <2>1, <2>2, <2>3, <2>4 DEF ListOk, ToSet
<1>2. TagsTyped
  <2>1. DOMAIN tags = Chats /\ known \subseteq Names
    BY DEF TagsInit
  <2>2. requests \in 0 .. MaxRequests
    BY RequestsAssumption DEF TagsInit
  <2>3. DOMAIN op = Operators /\ \A o \in Operators : OpOk(op[o])
    BY OpForms DEF TagsInit
  <2>. QED BY <1>1, <2>1, <2>2, <2>3 DEF TagsTyped, TagsInit
<1>. QED BY <1>1, <1>2 DEF TagsInv, Listed

LEMMA AskStep ==
    ASSUME TagsTyped, NEW o \in Operators, NEW kind, Asks(o, kind)
    PROVE  requests' \in 0 .. MaxRequests
BY RequestsAssumption DEF Asks, TagsTyped

LEMMA AddTagStep ==
    ASSUME TagsInv, NEW o \in Operators, NEW n \in Names, AddTag(o, n)
    PROVE  TagsInv'
<1>1. TagsTyped /\ \A c \in Chats : Listed(c)
  BY DEF TagsInv
<1>2. /\ known' = known \cup {n} /\ tags' = tags /\ op' = op /\ excused' = excused
      /\ requests' \in 0 .. MaxRequests
  BY <1>1, AskStep DEF AddTag
<1>3. TagsTyped'
  BY <1>1, <1>2 DEF TagsTyped
<1>4. \A c \in Chats : Listed(c)'
  BY <1>1, <1>2 DEF Listed, Leaving
<1>. QED BY <1>3, <1>4 DEF TagsInv

\* The first half of a removal or rename: the name leaves the list, and is leaving.
LEMMA BeginRewrite ==
    ASSUME TagsInv, NEW o \in Operators, NEW old \in Names, NEW new \in Names \cup {NoName},
           op[o].kind = "idle", op' = [op EXCEPT ![o] = Rewriting(old, new)],
           known' \subseteq Names, known \ {old} \subseteq known',
           requests' \in 0 .. MaxRequests, tags' = tags, excused' = excused
    PROVE  TagsInv'
<1>1. TagsTyped /\ \A c \in Chats : Listed(c)
  BY DEF TagsInv
<1>2. /\ OpOk(Rewriting(old, new)) /\ Rewriting(old, new).kind = "rewriting"
      /\ Rewriting(old, new).old = old
  BY OpForms
<1>3. /\ DOMAIN op' = Operators /\ \A x \in Operators : OpOk(op'[x])
      /\ op'[o] = Rewriting(old, new) /\ \A x \in Operators \ {o} : op'[x] = op[x]
  BY <1>1, <1>2, OpSet
<1>4. TagsTyped'
  BY <1>1, <1>3 DEF TagsTyped
<1>5. Leaving \subseteq Leaving' /\ old \in Leaving'
  BY <1>2, <1>3 DEF Leaving
<1>6. \A c \in Chats : Listed(c)'
  BY <1>1, <1>5 DEF Listed
<1>. QED BY <1>4, <1>6 DEF TagsInv

\* The second half: who had the old name has it no more, or is excused.
LEMMA RewriteStep ==
    ASSUME TagsInv, NEW o \in Operators, NEW done, Rewrite(o, done)
    PROVE  TagsInv'
<1>. DEFINE old == op[o].old
            new == op[o].new
<1>1. TagsTyped /\ \A c \in Chats : Listed(c)
  BY DEF TagsInv
<1>2. /\ op[o].kind = "rewriting" /\ done \subseteq Candidates(old)
      /\ tags' = [c \in Chats |-> IF c \in done THEN Rewritten(tags[c], old, new) ELSE tags[c]]
      /\ excused' = (IF done = Candidates(old) THEN excused \ {old} ELSE excused \cup {old})
                    \cup ({new} \ (known \cup {NoName}))
      /\ op' = [op EXCEPT ![o] = Idle] /\ known' = known /\ requests' = requests
  BY DEF Rewrite
<1>3. old \in Names /\ new \in Names \cup {NoName}
  BY <1>1, <1>2, OpForms DEF TagsTyped, OpOk
<1>4. /\ DOMAIN op' = Operators /\ \A x \in Operators : OpOk(op'[x])
      /\ op'[o] = Idle /\ \A x \in Operators \ {o} : op'[x] = op[x]
  BY <1>1, <1>2, OpForms, OpSet
<1>5. Leaving \ {old} \subseteq Leaving'
  BY <1>4 DEF Leaving
<1>. HIDE DEF old, new
<1>6. \A c \in done : /\ c \in Chats /\ ListOk(Rewritten(tags[c], old, new))
                      /\ ToSet(Rewritten(tags[c], old, new))
                           \subseteq (ToSet(tags[c]) \ {old}) \cup ({new} \ {NoName})
  BY <1>1, <1>2, <1>3, RewrittenIs DEF Candidates, TagsTyped
<1>7. TagsTyped'
  <2>1. DOMAIN tags' = Chats /\ \A c \in Chats : ListOk(tags'[c])
    BY <1>1, <1>2, <1>6 DEF TagsTyped
  <2>2. excused' \subseteq Names
    BY <1>1, <1>2, <1>3 DEF TagsTyped
  <2>. QED BY <1>1, <1>2, <1>4, <2>1, <2>2 DEF TagsTyped
<1>8. ASSUME NEW c \in Chats PROVE Listed(c)'
  <2>1. {new} \ {NoName} \subseteq known' \cup excused'
    BY <1>2
  <2>2. excused \ {old} \subseteq excused'
    BY <1>2
  <2>3. ToSet(tags[c]) \subseteq known \cup excused \cup Leaving \cup Escaped
    BY <1>1 DEF Listed
  <2>4. CASE c \in done
    <3>1. ToSet(tags'[c]) \subseteq (ToSet(tags[c]) \ {old}) \cup ({new} \ {NoName})
      BY <1>2, <1>6, <2>4
    <3>. QED BY <1>2, <1>5, <2>1, <2>2, <2>3, <3>1 DEF Listed
  <2>5. CASE c \notin done
    <3>1. tags'[c] = tags[c]
      BY <1>2, <2>5
    <3>2. CASE done = Candidates(old)
      <4>1. old \notin ToSet(tags[c]) \/ old \in Escaped
        BY <2>5, <3>2 DEF Candidates
      <4>. QED BY <1>2, <1>5, <2>2, <2>3, <3>1, <4>1 DEF Listed
    <3>3. CASE done # Candidates(old)
      <4>1. old \in excused'
        BY <1>2, <3>3
      <4>. QED BY <1>2, <1>5, <2>2, <2>3, <3>1, <4>1 DEF Listed
    <3>. QED BY <3>2, <3>3
  <2>. QED BY <2>4, <2>5
<1>. QED BY <1>7, <1>8 DEF TagsInv

LEMMA OpenChatStep ==
    ASSUME TagsInv, NEW o \in Operators, NEW c \in Chats, OpenChat(o, c)
    PROVE  TagsInv'
<1>1. TagsTyped /\ \A d \in Chats : Listed(d)
  BY DEF TagsInv
<1>2. /\ op[o].kind # "rewriting" /\ op' = [op EXCEPT ![o] = Editing(c)]
      /\ known' = known /\ tags' = tags /\ requests' = requests /\ excused' = excused
  BY DEF OpenChat
<1>3. /\ DOMAIN op' = Operators /\ \A x \in Operators : OpOk(op'[x])
      /\ \A x \in Operators \ {o} : op'[x] = op[x]
  BY <1>1, <1>2, OpForms, OpSet
<1>4. TagsTyped'
  BY <1>1, <1>2, <1>3 DEF TagsTyped
<1>5. Leaving \subseteq Leaving'
  BY <1>2, <1>3 DEF Leaving
<1>6. \A d \in Chats : Listed(d)'
  BY <1>1, <1>2, <1>5 DEF Listed
<1>. QED BY <1>4, <1>6 DEF TagsInv

LEMMA SaveTagsStep ==
    ASSUME TagsInv, NEW o \in Operators, SaveTags(o)
    PROVE  TagsInv'
<1>. DEFINE c == op[o].chat
            view == op[o].view
            offered == op[o].offered
<1>1. TagsTyped /\ \A d \in Chats : Listed(d)
  BY DEF TagsInv
<1>2. PICK list \in {Append(view, n) : n \in offered \ ToSet(view)}
                    \cup {At(view, {i \in DOMAIN view : view[i] # n}) : n \in ToSet(view)} :
        /\ tags' = [tags EXCEPT ![c] = list]
        /\ excused' = excused \cup (ToSet(list) \ known)
  BY DEF SaveTags
<1>3. /\ op[o].kind = "editing" /\ op' = [op EXCEPT ![o] = Idle] /\ known' = known
      /\ requests' \in 0 .. MaxRequests
  BY <1>1, AskStep DEF SaveTags, Asks
<1>4. c \in Chats /\ ListOk(view) /\ offered \in SUBSET Names
  BY <1>1, <1>3, OpForms DEF TagsTyped, OpOk
<1>5. /\ DOMAIN op' = Operators /\ \A x \in Operators : OpOk(op'[x])
      /\ \A x \in Operators \ {o} : op'[x] = op[x]
  BY <1>1, <1>3, OpForms, OpSet
<1>6. Leaving \subseteq Leaving'
  BY <1>3, <1>5 DEF Leaving
<1>. HIDE DEF c, view, offered
<1>7. ListOk(list)
  BY <1>2, <1>4, SavedIs
<1>8. ToSet(list) \subseteq Names
  BY <1>7 DEF ListOk, ToSet
<1>9. TagsTyped'
  BY <1>1, <1>2, <1>3, <1>4, <1>5, <1>7, <1>8 DEF TagsTyped
<1>10. \A d \in Chats : Listed(d)'
  <2> SUFFICES ASSUME NEW d \in Chats PROVE Listed(d)'
    OBVIOUS
  <2>1. CASE d = c
    <3>1. tags'[d] = list
      BY <1>1, <1>2, <2>1 DEF TagsTyped
    <3>. QED BY <1>2, <1>3, <3>1 DEF Listed
  <2>2. CASE d # c
    <3>1. tags'[d] = tags[d]
      BY <1>1, <1>2, <2>2 DEF TagsTyped
    <3>. QED BY <1>1, <1>2, <1>3, <1>6, <3>1 DEF Listed
  <2>. QED BY <2>1, <2>2
<1>. QED BY <1>9, <1>10 DEF TagsInv

LEMMA TagsRestartStep ==
    ASSUME TagsInv, TagsRestart
    PROVE  TagsInv'
<1>. DEFINE cut == {o \in Operators : op[o].kind = "rewriting"}
<1>1. TagsTyped /\ \A d \in Chats : Listed(d)
  BY DEF TagsInv
<1>2. /\ op' = [o \in Operators |-> IF o \in cut THEN Idle ELSE op[o]]
      /\ excused' = excused \cup {op[o].old : o \in cut}
      /\ known' = known /\ tags' = tags /\ requests' = requests
  BY DEF TagsRestart
<1>3. {op[o].old : o \in cut} = Leaving
  BY DEF Leaving
<1>4. Leaving \subseteq Names
  BY <1>1, OpForms DEF Leaving, TagsTyped, OpOk
<1>5. DOMAIN op' = Operators /\ \A o \in Operators : OpOk(op'[o])
  BY <1>1, <1>2, OpForms DEF TagsTyped
<1>6. TagsTyped'
  BY <1>1, <1>2, <1>3, <1>4, <1>5 DEF TagsTyped
<1>7. \A d \in Chats : Listed(d)'
  BY <1>1, <1>2, <1>3 DEF Listed
<1>. QED BY <1>6, <1>7 DEF TagsInv

-----------------------------------------------------------------------------
(* What the bounds bound. *)

\* The trim leaves Keep rows at most: the oldest left has fewer newer ones.
LEMMA NewestFew ==
    ASSUME NEW n \in Nat, NEW rows \in SUBSET (1 .. n)
    PROVE  Cardinality(Newest(rows)) <= Keep
<1>. DEFINE newest == Newest(rows)
<1>1. newest \in SUBSET (1 .. n) /\ newest \subseteq rows
  BY DEF Newest
<1>2. CASE newest = {}
  BY <1>2, FS_EmptySet, TokenSettings
<1>3. CASE newest # {}
  <2>1. newest \in SUBSET Nat
    BY <1>1
  <2>2. PICK s \in newest : \A r \in newest : s <= r
    <3>. HIDE DEF newest
    <3>. QED BY <1>3, <2>1, LeastElement
  <2>3. Cardinality(Newer(rows, s)) < Keep
    BY <1>1, <2>2, NewestDef
  <2>4. Newer(rows, s) \in SUBSET (1 .. n)
    BY DEF Newer
  <2>5. IsFiniteSet(Newer(rows, s)) /\ Cardinality(Newer(rows, s)) \in Nat
    BY <2>4, PositionsFinite
  <2>6. newest \subseteq Newer(rows, s) \cup {s}
    <3>. HIDE DEF newest
    <3>1. \A r \in newest : r \in rows /\ r \in Nat /\ s \in Nat /\ s <= r
      BY <1>1, <2>1, <2>2
    <3>. QED BY <3>1 DEF Newer
  <2>. DEFINE all == Newer(rows, s) \cup {s}
  <2>7. IsFiniteSet(all) /\ Cardinality(all) <= Cardinality(Newer(rows, s)) + 1
    <3>1. IsFiniteSet(all) /\ Cardinality(all) =
            IF s \in Newer(rows, s) THEN Cardinality(Newer(rows, s))
            ELSE Cardinality(Newer(rows, s)) + 1
      BY <2>5, FS_AddElement
    <3>. QED BY <2>5, <3>1
  <2>8. /\ Cardinality(newest) <= Cardinality(all)
        /\ Cardinality(newest) \in Nat /\ Cardinality(all) \in Nat
    <3>. HIDE DEF newest, all
    <3>1. newest \subseteq all
      BY <2>6 DEF all
    <3>2. IsFiniteSet(newest) /\ Cardinality(newest) <= Cardinality(all)
      BY <2>7, <3>1, FS_Subset
    <3>. QED BY <2>7, <3>2, FS_CardinalityType
  <2>. HIDE DEF newest, all
  <2>9. Cardinality(newest) <= Keep
    BY <2>3, <2>5, <2>7, <2>8, TokenSettings
  <2>. QED BY <2>9 DEF newest
<1>. QED BY <1>2, <1>3

AuthBounded ==
    /\ now <= MaxTime /\ errors <= MaxErrors /\ Len(logins) <= MaxLogins
    /\ \A ip \in Ips : entries[ip].touched <= now
    /\ Cardinality(tokens) <= Keep + errors

LEMMA BoundedStep ==
    ASSUME AuthTypes, AuthBounded, [AuthStep]_authVars PROVE AuthBounded'
<1>1. /\ now \in Nat /\ errors \in Nat /\ logins \in Seq(Nat) /\ Len(logins) \in Nat
      /\ tokens \in SUBSET (1 .. Len(logins))
      /\ \A ip \in Ips : entries[ip] \in Entry
  BY DEF AuthTypes
<1>2. \A ip \in Ips : Kept[ip].touched \in Nat /\ Kept[ip].touched <= now
  BY <1>1 DEF AuthBounded, Kept, NoAttempts, Entry
<1>3. IsFiniteSet(tokens) /\ Cardinality(tokens) \in Nat
  BY <1>1, PositionsFinite
<1>4. CASE Tick
  <2>1. \A ip \in Ips : entries[ip].touched \in Nat
    BY <1>1 DEF Entry
  <2>. QED BY <1>1, <1>4, <2>1, BoundsAssumption DEF Tick, AuthBounded
<1>5. CASE AuthRestart
  BY <1>1, <1>5 DEF AuthRestart, AuthBounded, NoAttempts
<1>6. ASSUME NEW ip \in Ips, WrongPassword(ip) PROVE AuthBounded'
  <2>1. entries' = [Kept EXCEPT ![ip] = AfterFailure(Kept[ip])]
    BY <1>6 DEF WrongPassword
  <2>2. AfterFailure(Kept[ip]).touched = now
    BY DEF AfterFailure
  <2>3. \A x \in Ips : entries'[x] = IF x = ip THEN AfterFailure(Kept[ip]) ELSE Kept[x]
    BY <2>1 DEF Kept
  <2>4. \A x \in Ips : entries'[x].touched <= now
    BY <1>1, <1>2, <2>2, <2>3
  <2>. QED BY <1>6, <2>4 DEF WrongPassword, AuthBounded
<1>7. ASSUME NEW ip \in Ips, NEW cut \in Cuts, RightPassword(ip, cut) PROVE AuthBounded'
  <2>. DEFINE n == Len(logins)
              rows == Unexpired \cup {n + 1}
  <2>1. /\ now' = now /\ n < MaxLogins
        /\ errors' = IF cut = "none" THEN errors ELSE errors + 1
        /\ cut # "none" => errors < MaxErrors
        /\ entries' = [Kept EXCEPT ![ip] = NoAttempts]
    BY <1>7 DEF RightPassword
  <2>2. /\ tokens' = IF cut = "insert" THEN Unexpired
                     ELSE IF cut = "trim" THEN rows ELSE Newest(rows)
        /\ logins' = IF cut = "insert" THEN logins ELSE Append(logins, now + TokenTtl)
    BY <1>7 DEF RightPassword, CreateToken
  <2>3. \A x \in Ips : entries'[x].touched <= now'
    <3>1. \A x \in Ips : entries'[x] = IF x = ip THEN NoAttempts ELSE Kept[x]
      BY <2>1 DEF Kept
    <3>. QED BY <1>1, <1>2, <2>1, <3>1 DEF NoAttempts
  <2>4. Len(logins') <= MaxLogins
    <3>1. Len(Append(logins, now + TokenTtl)) = n + 1
      BY <1>1, TokenSettings
    <3>. QED BY <1>1, <2>1, <2>2, <3>1, BoundsAssumption
  <2>5. now' <= MaxTime /\ errors' <= MaxErrors
    BY <1>1, <2>1, BoundsAssumption DEF AuthBounded
  <2>6. /\ Unexpired \subseteq tokens /\ IsFiniteSet(Unexpired)
        /\ Cardinality(Unexpired) \in Nat /\ Cardinality(Unexpired) <= Keep + errors
    <3>1. Unexpired \subseteq tokens
      BY DEF Unexpired
    <3>2. IsFiniteSet(Unexpired) /\ Cardinality(Unexpired) <= Cardinality(tokens)
      BY <1>3, <3>1, FS_Subset
    <3>3. Cardinality(Unexpired) \in Nat
      BY <3>2, FS_CardinalityType
    <3>. QED BY <1>1, <1>3, <3>1, <3>2, <3>3, TokenSettings DEF AuthBounded
  <2>7. Cardinality(rows) \in Nat /\ Cardinality(rows) <= Cardinality(Unexpired) + 1
    <3>1. IsFiniteSet(rows) /\ Cardinality(rows) =
            IF n + 1 \in Unexpired THEN Cardinality(Unexpired) ELSE Cardinality(Unexpired) + 1
      BY <2>6, FS_AddElement
    <3>. QED BY <2>6, <3>1
  <2>r. rows \in SUBSET (1 .. n + 1) /\ n + 1 \in Nat
    <3>1. Unexpired \subseteq 1 .. n
      BY <1>1, <2>6
    <3>2. n \in Nat /\ 1 .. n \subseteq 1 .. n + 1 /\ n + 1 \in 1 .. n + 1
      BY <1>1
    <3>. HIDE DEF n
    <3>. QED BY <3>1, <3>2
  <2>8. Cardinality(Newest(rows)) <= Keep
    <3>. HIDE DEF rows
    <3>. QED BY <2>r, NewestFew
  <2>9. Cardinality(tokens') <= Keep + errors'
    <3>1. CASE cut = "insert"
      <4>1. tokens' = Unexpired /\ errors' = errors + 1
        BY <2>1, <2>2, <3>1
      <4>. QED BY <1>1, <2>6, <4>1, TokenSettings
    <3>2. CASE cut = "trim"
      <4>1. tokens' = rows /\ errors' = errors + 1
        BY <2>1, <2>2, <3>2
      <4>. HIDE DEF rows
      <4>. QED BY <1>1, <2>6, <2>7, <4>1, TokenSettings
    <3>3. CASE cut = "none"
      <4>1. tokens' = Newest(rows) /\ errors' = errors
        BY <2>1, <2>2, <3>3
      <4>2. Cardinality(Newest(rows)) \in Nat
        <5>. HIDE DEF rows
        <5>1. Newest(rows) \in SUBSET (1 .. n + 1) /\ n + 1 \in Nat
          BY <2>r DEF Newest
        <5>. QED BY <5>1, PositionsFinite
      <4>. HIDE DEF rows
      <4>. QED BY <1>1, <2>8, <4>1, <4>2, TokenSettings
    <3>. QED BY <3>1, <3>2, <3>3 DEF Cuts
  <2>. QED BY <2>3, <2>4, <2>5, <2>9 DEF AuthBounded
<1>8. CASE UNCHANGED authVars
  BY <1>8 DEF authVars, AuthBounded
<1>. QED BY <1>4, <1>5, <1>6, <1>7, <1>8 DEF AuthStep

LEMMA BoundedTypes ==
    ASSUME AuthTypes, Throttled, Sessions, AuthBounded PROVE AuthTypeOK
<1>1. /\ now \in Nat /\ errors \in Nat /\ logins \in Seq(Nat) /\ Len(logins) \in Nat
      /\ tokens \subseteq DOMAIN logins /\ DOMAIN logins = 1 .. Len(logins)
      /\ entries \in [Ips -> Entry] /\ failures \in [Ips -> Seq(Nat)]
  BY DEF AuthTypes
<1>2. now \in 0 .. MaxTime /\ errors \in 0 .. MaxErrors
  BY <1>1, BoundsAssumption DEF AuthBounded
<1>3. entries \in [Ips -> [count : Nat, locked_until : Nat, touched : 0 .. MaxTime]]
  <2>1. ASSUME NEW ip \in Ips
        PROVE  entries[ip] \in [count : Nat, locked_until : Nat, touched : 0 .. MaxTime]
    <3>1. entries[ip] \in Entry
      BY <1>1
    <3>2. entries[ip].touched \in 0 .. MaxTime
      BY <1>1, <1>2, <3>1, BoundsAssumption DEF AuthBounded, Entry
    <3>. QED BY <3>1, <3>2 DEF Entry
  <2>. QED BY <1>1, <2>1
<1>4. ASSUME NEW s \in DOMAIN logins PROVE logins[s] \in 0 .. now + TokenTtl
  <2>1. logins[s] \in Nat /\ logins[s] <= now + TokenTtl
    BY <1>1 DEF Sessions, Rising
  <2>. QED BY <1>1, <2>1, TokenSettings
<1>5. ASSUME NEW ip \in Ips
      PROVE  /\ Len(failures[ip]) <= MaxAttempts + 1
             /\ \A n \in DOMAIN failures[ip] : failures[ip][n] \in 0 .. now
  <2>1. failures[ip] \in Seq(Nat) /\ Counts(entries[ip], failures[ip], Len(failures[ip]), now)
    BY <1>1 DEF Throttled
  <2>. DEFINE f == failures[ip]
              k == Len(f)
  <2>2. k \in Nat /\ DOMAIN f = 1 .. k /\ \A n \in 1 .. k : f[n] \in Nat
    BY <2>1
  <2>3. /\ k <= MaxAttempts + 1 /\ (k > 0 => f[k] <= now)
        /\ \A i, j \in 1 .. k : i <= j => f[i] <= f[j]
    BY <2>1 DEF Counts
  <2>. HIDE DEF f, k
  <2>4. \A n \in 1 .. k : f[n] <= now
    <3> SUFFICES ASSUME NEW n \in 1 .. k PROVE f[n] <= now
      OBVIOUS
    <3>1. k \in 1 .. k /\ n <= k /\ k > 0
      BY <2>2
    <3>2. f[n] <= f[k] /\ f[k] <= now
      BY <2>3, <3>1
    <3>3. f[n] \in Nat /\ f[k] \in Nat
      BY <2>2, <3>1
    <3>. QED BY <1>1, <3>2, <3>3
  <2>5. k <= MaxAttempts + 1 /\ \A n \in DOMAIN f : f[n] \in 0 .. now
    BY <1>1, <2>2, <2>3, <2>4
  <2>. QED BY <2>5 DEF f, k
<1>6. Cardinality(tokens) <= Keep + errors /\ Len(logins) <= MaxLogins
  BY DEF AuthBounded
<1>. QED BY <1>1, <1>2, <1>3, <1>4, <1>5, <1>6 DEF AuthTypeOK

-----------------------------------------------------------------------------
(* The pages. *)

PagesOk == /\ DOMAIN session = Operators
           /\ \A o \in Operators : session[o] \in DOMAIN logins \cup {NoSession}

AuthInv == AuthTypes /\ Throttled /\ Sessions /\ AuthBounded
BoardInv == AuthInv /\ TagsInv /\ PagesOk

LEMMA BoardInit == Init => BoardInv
<1> SUFFICES ASSUME Init PROVE BoardInv
  OBVIOUS
<1>1. AuthTypes /\ Throttled /\ Sessions
  BY InitialAuth DEF Init
<1>2. AuthBounded
  <2>1. Cardinality(tokens) = 0
    BY FS_EmptySet DEF Init, AuthInit
  <2>2. now = 0 /\ errors = 0 /\ logins = <<>> /\ \A ip \in Ips : entries[ip].touched = 0
    BY DEF Init, AuthInit, NoAttempts
  <2>. QED BY <2>1, <2>2, BoundsAssumption, TokenSettings DEF AuthBounded
<1>3. TagsInv
  BY TagsInitial DEF Init
<1>4. PagesOk
  BY DEF Init, PagesOk
<1>. QED BY <1>1, <1>2, <1>3, <1>4 DEF BoardInv, AuthInv

LEMMA TagsSame ==
    ASSUME TagsInv, UNCHANGED tagVars PROVE TagsInv'
BY DEF TagsInv, tagVars, TagsTyped, Listed, Leaving

LEMMA TagsStep == TagsInv /\ [Next]_vars => TagsInv'
<1> SUFFICES ASSUME TagsInv, [Next]_vars PROVE TagsInv'
  OBVIOUS
<1>1. CASE Clock
  BY <1>1, TagsSame DEF Clock
<1>2. CASE Restart
  BY <1>2, TagsRestartStep DEF Restart
<1>3. ASSUME NEW o \in Operators, LogIn(o) \/ LogOut(o) PROVE TagsInv'
  BY <1>3, TagsSame DEF LogIn, LogOut
<1>4. ASSUME NEW o \in Operators, Dispatch(o) PROVE TagsInv'
  <2>1. ASSUME NEW n \in Names, AddTag(o, n) PROVE TagsInv'
    BY <2>1, AddTagStep
  <2>2. ASSUME NEW n \in Names, RemoveTag(o, n) PROVE TagsInv'
    <3>1. requests' \in 0 .. MaxRequests /\ known \subseteq Names
      BY <2>2, AskStep DEF RemoveTag, TagsInv, TagsTyped
    <3>2. /\ op[o].kind = "idle" /\ op' = [op EXCEPT ![o] = Rewriting(n, NoName)]
          /\ known' = known \ {n} /\ tags' = tags /\ excused' = excused
      BY <2>2 DEF RemoveTag, Asks
    <3>. QED BY <3>1, <3>2, BeginRewrite
  <2>3. ASSUME NEW old \in Names, NEW new \in Names, RenameTag(o, old, new) PROVE TagsInv'
    <3>1. requests' \in 0 .. MaxRequests /\ known \subseteq Names
      BY <2>3, AskStep DEF RenameTag, TagsInv, TagsTyped
    <3>2. /\ op[o].kind = "idle" /\ op' = [op EXCEPT ![o] = Rewriting(old, new)]
          /\ known' \subseteq Names /\ known \ {old} \subseteq known'
          /\ tags' = tags /\ excused' = excused
      BY <2>3, <3>1 DEF RenameTag, Asks
    <3>. QED BY <3>1, <3>2, BeginRewrite
  <2>4. ASSUME NEW c \in Chats, OpenChat(o, c) PROVE TagsInv'
    BY <2>4, OpenChatStep
  <2>5. ASSUME SaveTags(o) PROVE TagsInv'
    BY <2>5, SaveTagsStep
  <2>. QED BY <1>4, <2>1, <2>2, <2>3, <2>4, <2>5 DEF Dispatch
<1>5. ASSUME NEW o \in Operators, Proceed(o) PROVE TagsInv'
  <2>1. PICK done : Rewrite(o, done)
    BY <1>5 DEF Proceed
  <2>. QED BY <2>1, RewriteStep
<1>6. CASE UNCHANGED vars
  BY <1>6, TagsSame DEF vars
<1>. QED BY <1>1, <1>2, <1>3, <1>4, <1>5, <1>6 DEF Next

LEMMA PagesStep == AuthTypes /\ PagesOk /\ [Next]_vars => PagesOk'
<1> SUFFICES ASSUME AuthTypes, PagesOk, [Next]_vars PROVE PagesOk'
  OBVIOUS
<1>1. logins \in Seq(Nat) /\ now \in Nat /\ Len(logins) \in Nat /\ DOMAIN logins = 1 .. Len(logins)
  BY DEF AuthTypes
<1>2. CASE Clock
  BY <1>2 DEF Clock, Tick, PagesOk
<1>3. CASE Restart
  BY <1>3 DEF Restart, AuthRestart, PagesOk
<1>4. ASSUME NEW o \in Operators, LogIn(o) PROVE PagesOk'
  <2>1. CASE WrongPassword(Address[o]) /\ UNCHANGED session
    BY <2>1 DEF WrongPassword, PagesOk
  <2>2. ASSUME NEW cut \in Cuts, RightPassword(Address[o], cut),
               session' = IF cut = "none" THEN [session EXCEPT ![o] = Len(logins')]
                                          ELSE session
        PROVE  PagesOk'
    <3>1. logins' = IF cut = "insert" THEN logins ELSE Append(logins, now + TokenTtl)
      BY <2>2 DEF RightPassword, CreateToken
    <3>2. LET longer == Append(logins, now + TokenTtl) IN
          Len(longer) = Len(logins) + 1 /\ DOMAIN longer = 1 .. Len(logins) + 1
      BY <1>1, TokenSettings
    <3>3. /\ DOMAIN logins \subseteq DOMAIN logins'
          /\ cut = "none" => Len(logins') \in DOMAIN logins'
      BY <1>1, <3>1, <3>2
    <3>. QED BY <2>2, <3>3 DEF PagesOk
  <2>. QED BY <1>4, <2>1, <2>2 DEF LogIn
<1>5. ASSUME NEW o \in Operators, LogOut(o) PROVE PagesOk'
  BY <1>5 DEF LogOut, PagesOk, authVars
<1>6. ASSUME NEW o \in Operators, Dispatch(o) \/ Proceed(o) PROVE PagesOk'
  BY <1>6 DEF Dispatch, Proceed, PagesOk, authVars
<1>7. CASE UNCHANGED vars
  BY <1>7 DEF vars, authVars, PagesOk
<1>. QED BY <1>2, <1>3, <1>4, <1>5, <1>6, <1>7 DEF Next

LEMMA BoardStep == BoardInv /\ [Next]_vars => BoardInv'
BY StepsOfAuth, TypesStep, ThrottledStep, SessionsStep, BoundedStep, TagsStep, PagesStep
   DEF BoardInv, AuthInv

\* The table of session tokens stays within the configured number and one row
\* for each cut create_token, no chat has a tag twice, and a page holds a session
\* that login made (auth.py; repository.py, create_token, _rewrite_chat_tags).
THEOREM DashboardTypeCorrect == Spec => []TypeOK
<1>1. BoardInv => TypeOK
  <2> SUFFICES ASSUME BoardInv PROVE TypeOK
    OBVIOUS
  <2>1. AuthTypeOK
    BY BoundedTypes DEF BoardInv, AuthInv
  <2>2. TagsTypeOK
    <3>1. \A c \in Chats : ToSet(tags[c]) \subseteq Names /\ IsInjective(tags[c])
      BY DEF BoardInv, TagsInv, TagsTyped, ListOk, ToSet
    <3>. QED BY <3>1 DEF BoardInv, TagsInv, TagsTyped, TagsTypeOK, OpOk
  <2>. QED BY <2>1, <2>2 DEF BoardInv, PagesOk, TypeOK
<1>. QED BY BoardInit, BoardStep, <1>1, PTL DEF Spec

\* Whatever operators add, remove, rename and save at once, and wherever a request
\* or the process ends, a tag on a chat is on the list or one of the exceptions
\* (repository.py, remove_tag, rename_tag, update_chat_meta).
THEOREM TagsStayListed == Spec => []TagsAreListed
<1>1. TagsInv => TagsAreListed
  BY ListedAll DEF TagsInv
<1>2. Init => TagsInv
  BY TagsInitial DEF Init
<1>. QED BY TagsStep, <1>1, <1>2, PTL DEF Spec
=============================================================================
