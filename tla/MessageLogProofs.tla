-------------------------- MODULE MessageLogProofs --------------------------
(***************************************************************************)
(* The columns of `conversations` follow the log they are derived from,    *)
(* for every set of chats, number of rows, retention and cut calls, and    *)
(* the panels computed from it agree for every length of a day and window. *)
(*                                                                         *)
(* The inductive invariant says what AUTOINCREMENT and the clock give: ids *)
(* rise with time (Ordered), so that of the rows of a chat the newest is   *)
(* the last to expire, and none is later than today.                       *)
(***************************************************************************)
EXTENDS MessageLog, FiniteSetTheorems, TLAPS

Roles == {"user", "bot", "admin"}
Row == [id : Nat, chat : Chats, role : Roles, at : Nat, latency : Latencies \cup {NoLatency}]
Columns == [exists : BOOLEAN, message_count : Nat, last : Nat]

Typed ==
    /\ now \in Nat /\ now <= MaxTime
    /\ nextId \in Nat /\ 0 < nextId /\ nextId <= MaxRows + 1
    /\ failures \in Nat /\ failures <= MaxFailures
    /\ log \subseteq Row /\ IsFiniteSet(log)
    /\ conv \in [Chats -> Columns]
    /\ asking \subseteq Chats /\ parked \subseteq Chats
    /\ torn \subseteq Chats /\ purged \subseteq Nat

\* A chat that is logged, or whose question is under way, has its row; and no
\* column is ahead of the log.
Ensured ==
    /\ \A r \in log : conv[r.chat].exists
    /\ \A c \in asking \cup parked : conv[c].exists
    /\ \A c \in Chats : conv[c].message_count < nextId /\ conv[c].last < nextId

Ordered ==
    /\ \A r \in log : /\ 0 < r.id /\ r.id < nextId /\ r.at <= now
                      /\ r.latency # NoLatency <=> r.role = "bot"
    /\ \A r, s \in log : r.id <= s.id => r.at <= s.at

\* The ids of the users' messages of a chat.
UserIds(c) == {r.id : r \in RowsOf(c, "user")}

\* The preview is of the newest user message; if there is none, of none or of
\* one that retention took.
Previewed(c) ==
    /\ UserIds(c) # {} => /\ conv[c].last \in UserIds(c)
                          /\ \A i \in UserIds(c) : i <= conv[c].last
    /\ UserIds(c) = {} => conv[c].last \in purged \cup {NoRow}
PreviewInv == \A c \in Chats \ torn : Previewed(c)

LogInv == Typed /\ Ensured /\ Ordered /\ PreviewInv /\ CountsEveryRow

-----------------------------------------------------------------------------
(* Logging. *)

LEMMA CountedIs ==
    ASSUME conv \in [Chats -> Columns], nextId \in Nat, NEW c \in Chats, conv[c].exists,
           NEW role
    PROVE  /\ Counted(c, role) \in [Chats -> Columns]
           /\ \A d \in Chats :
                /\ Counted(c, role)[d].exists = conv[d].exists
                /\ Counted(c, role)[d].message_count =
                     IF d = c THEN conv[d].message_count + 1 ELSE conv[d].message_count
                /\ Counted(c, role)[d].last =
                     IF d = c /\ role = "user" THEN nextId ELSE conv[d].last
<1>. DEFINE last == IF role = "user" THEN nextId ELSE conv[c].last
            new == [conv EXCEPT ![c].message_count = @ + 1, ![c].last = last]
<1>1. Counted(c, role) = new
  BY DEF Counted
<1>2. conv[c] \in Columns /\ last \in Nat /\ conv[c].message_count \in Nat
  BY DEF Columns
<1>3. \A d \in Chats \ {c} : new[d] = conv[d]
  OBVIOUS
<1>4. /\ new[c].exists = conv[c].exists /\ new[c].last = last
      /\ new[c].message_count = conv[c].message_count + 1
  BY DEF Columns
<1>5. new \in [Chats -> Columns]
  <2>. DEFINE one == [conv EXCEPT ![c].message_count = @ + 1]
  <2>. HIDE DEF last
  <2>1. one \in [Chats -> Columns]
    BY <1>2 DEF Columns
  <2>2. new = [one EXCEPT ![c].last = last]
    OBVIOUS
  <2>. HIDE DEF one, new
  <2>. QED BY <1>2, <2>1, <2>2 DEF Columns
<1>. HIDE DEF new
<1>. QED BY <1>1, <1>3, <1>4, <1>5

\* The row that LogMessage adds.
NewRow(c, role, latency) ==
    [id |-> nextId, chat |-> c, role |-> role, at |-> now, latency |-> latency]

LEMMA NewRowIs ==
    ASSUME NEW c, NEW role, NEW latency
    PROVE  LET r == NewRow(c, role, latency) IN
           r.id = nextId /\ r.chat = c /\ r.role = role /\ r.at = now /\ r.latency = latency
BY DEF NewRow

Logs(c, role, latency, cut) ==
    /\ role \in Roles /\ cut \in BOOLEAN
    /\ latency \in Latencies \cup {NoLatency}
    /\ latency # NoLatency <=> role = "bot"
    /\ conv[c].exists
    /\ LogMessage(c, role, latency, cut) /\ now' = now
    /\ asking' \subseteq asking \cup {c} /\ parked' \subseteq parked \cup {c}

LEMMA LogsIs ==
    ASSUME Typed, NEW c \in Chats, NEW role, NEW latency, NEW cut,
           Logs(c, role, latency, cut)
    PROVE  /\ log' = log \cup {NewRow(c, role, latency)}
           /\ NewRow(c, role, latency) \in Row
           /\ nextId <= MaxRows /\ nextId' = nextId + 1
           /\ conv' \in [Chats -> Columns]
           /\ \A d \in Chats : conv'[d].exists = conv[d].exists
           /\ \A d \in Chats \ {c} : conv'[d] = conv[d]
           /\ cut \in BOOLEAN
           /\ cut => /\ conv' = conv /\ torn' = torn \cup {c}
                     /\ failures < MaxFailures /\ failures' = failures + 1
           /\ ~cut => /\ failures' = failures
                      /\ torn' = IF role = "user" THEN torn \ {c} ELSE torn
                      /\ conv'[c].message_count = conv[c].message_count + 1
                      /\ conv'[c].last = IF role = "user" THEN nextId ELSE conv[c].last
           /\ purged' = purged
<1>. USE DEF Logs
<1>1. /\ log' = log \cup {NewRow(c, role, latency)}
      /\ nextId <= MaxRows /\ nextId' = nextId + 1
      /\ conv' = IF cut THEN conv ELSE Counted(c, role)
      /\ torn' = IF cut THEN torn \cup {c}
                 ELSE IF role = "user" THEN torn \ {c} ELSE torn
      /\ cut => failures < MaxFailures /\ failures' = failures + 1
      /\ ~cut => failures' = failures
      /\ purged' = purged
  BY DEF LogMessage, NewRow, Cut
<1>2. NewRow(c, role, latency) \in Row
  BY DEF NewRow, Row, Typed
<1>3. /\ Counted(c, role) \in [Chats -> Columns]
      /\ \A d \in Chats :
           /\ Counted(c, role)[d].exists = conv[d].exists
           /\ Counted(c, role)[d].message_count =
                IF d = c THEN conv[d].message_count + 1 ELSE conv[d].message_count
           /\ Counted(c, role)[d].last =
                IF d = c /\ role = "user" THEN nextId ELSE conv[d].last
  BY CountedIs DEF Typed
<1>4. \A d \in Chats \ {c} : Counted(c, role)[d] = conv[d]
  BY DEF Counted, Typed
<1>5. CASE cut
  BY <1>1, <1>2, <1>5 DEF Typed
<1>6. CASE ~cut
  <2>1. conv' = Counted(c, role)
    BY <1>1, <1>6
  <2>. QED BY <1>1, <1>2, <1>3, <1>4, <1>6, <2>1
<1>. QED BY <1>5, <1>6

LEMMA LogsStep ==
    ASSUME LogInv, NEW c \in Chats, NEW role, NEW latency, NEW cut,
           Logs(c, role, latency, cut)
    PROVE  LogInv'
<1>. DEFINE row == NewRow(c, role, latency)
<1>1. Typed /\ Ensured /\ Ordered /\ PreviewInv /\ CountsEveryRow
  BY DEF LogInv
<1>2. /\ log' = log \cup {row} /\ row \in Row
      /\ nextId <= MaxRows /\ nextId' = nextId + 1
      /\ conv' \in [Chats -> Columns]
      /\ \A d \in Chats : conv'[d].exists = conv[d].exists
      /\ \A d \in Chats \ {c} : conv'[d] = conv[d]
      /\ cut \in BOOLEAN
      /\ cut => /\ conv' = conv /\ torn' = torn \cup {c}
                /\ failures < MaxFailures /\ failures' = failures + 1
      /\ ~cut => /\ failures' = failures
                 /\ torn' = IF role = "user" THEN torn \ {c} ELSE torn
                 /\ conv'[c].message_count = conv[c].message_count + 1
                 /\ conv'[c].last = IF role = "user" THEN nextId ELSE conv[c].last
      /\ purged' = purged
  BY <1>1, LogsIs
<1>3. row.id = nextId /\ row.chat = c /\ row.role = role /\ row.at = now /\ row.latency = latency
  BY NewRowIs
<1>4. /\ role \in Roles /\ (latency # NoLatency <=> role = "bot") /\ conv[c].exists
      /\ now' = now /\ asking' \subseteq asking \cup {c} /\ parked' \subseteq parked \cup {c}
  BY DEF Logs
<1>. HIDE DEF row
<1>5. Typed'
  <2>1. IsFiniteSet(log')
    BY <1>1, <1>2, FS_AddElement DEF Typed
  <2>2. torn' \subseteq Chats /\ failures' \in Nat /\ failures' <= MaxFailures
    BY <1>1, <1>2, BoundsAssumption DEF Typed
  <2>. QED BY <1>1, <1>2, <1>4, <2>1, <2>2, BoundsAssumption DEF Typed
<1>6. Ensured'
  <2>1. \A r \in log' : conv'[r.chat].exists
    <3>1. \A r \in log : r.chat \in Chats
      BY <1>1 DEF Typed, Row
    <3>. QED BY <1>1, <1>2, <1>3, <1>4, <3>1 DEF Ensured
  <2>2. \A d \in asking' \cup parked' : conv'[d].exists
    BY <1>1, <1>2, <1>4 DEF Ensured, Typed
  <2>3. \A d \in Chats : conv'[d].message_count < nextId' /\ conv'[d].last < nextId'
    <3>1. nextId \in Nat /\ conv[c].message_count \in Nat /\ conv[c].last \in Nat
      BY <1>1 DEF Typed, Columns
    <3>2. conv'[c].message_count < nextId' /\ conv'[c].last < nextId'
      BY <1>1, <1>2, <3>1 DEF Ensured
    <3>3. ASSUME NEW d \in Chats \ {c}
          PROVE  conv'[d].message_count < nextId' /\ conv'[d].last < nextId'
      <4>1. conv[d].message_count \in Nat /\ conv[d].last \in Nat
        BY <1>1 DEF Typed, Columns
      <4>. QED BY <1>1, <1>2, <3>1, <4>1 DEF Ensured
    <3>. QED BY <3>2, <3>3
  <2>. QED BY <2>1, <2>2, <2>3 DEF Ensured
<1>7. Ordered'
  <2>1. \A r \in log : r.id \in Nat /\ r.at \in Nat
    BY <1>1 DEF Typed, Row
  <2>2. now \in Nat /\ nextId \in Nat /\ nextId > 0
    BY <1>1 DEF Typed
  <2>3. \A r \in log : 0 < r.id /\ r.id < nextId' /\ r.at <= now'
                       /\ (r.latency # NoLatency <=> r.role = "bot")
    BY <1>1, <1>2, <1>4, <2>1, <2>2 DEF Ordered
  <2>4. 0 < row.id /\ row.id < nextId' /\ row.at <= now'
        /\ (row.latency # NoLatency <=> row.role = "bot")
    BY <1>2, <1>3, <1>4, <2>2
  <2>5. \A r, s \in log' : r.id <= s.id => r.at <= s.at
    BY <1>1, <1>2, <1>3, <2>1, <2>2 DEF Ordered
  <2>. QED BY <1>2, <2>3, <2>4, <2>5 DEF Ordered
<1>8. PreviewInv'
  <2> SUFFICES ASSUME NEW d \in Chats, d \notin torn' PROVE Previewed(d)'
    BY DEF PreviewInv
  <2>1. CASE d = c /\ role = "user"
    <3>1. ~cut /\ conv'[d].last = nextId
      BY <1>2, <2>1
    <3>2. UserIds(d)' = UserIds(d) \cup {nextId}
      BY <1>2, <1>3, <2>1 DEF UserIds, RowsOf
    <3>3. \A i \in UserIds(d) : i <= nextId
      <4>1. \A r \in log : r.id \in Nat
        BY <1>1 DEF Typed, Row
      <4>. QED BY <1>1, <4>1 DEF Typed, Ordered, UserIds, RowsOf
    <3>4. nextId \in Nat
      BY <1>1 DEF Typed
    <3>. QED BY <3>1, <3>2, <3>3, <3>4 DEF Previewed
  <2>2. CASE ~(d = c /\ role = "user")
    <3>1. UserIds(d)' = UserIds(d)
      BY <1>2, <1>3, <2>2 DEF UserIds, RowsOf
    <3>2. d \notin torn
      BY <1>2, <2>2
    <3>3. conv'[d].last = conv[d].last
      BY <1>2, <2>2
    <3>4. Previewed(d)
      BY <1>1, <3>2 DEF PreviewInv
    <3>. QED BY <1>2, <3>1, <3>3, <3>4 DEF Previewed
  <2>. QED BY <2>1, <2>2
<1>9. CountsEveryRow'
  <2> SUFFICES ASSUME NEW d \in Chats
               PROVE  Cardinality({r \in log' : r.chat = d})
                        <= conv'[d].message_count + failures'
    BY DEF CountsEveryRow
  <2>. DEFINE rows == {r \in log : r.chat = d}
  <2>1. IsFiniteSet(rows) /\ Cardinality(rows) \in Nat
    BY <1>1, FS_Subset, FS_CardinalityType DEF Typed
  <2>2. Cardinality(rows) <= conv[d].message_count + failures
    BY <1>1 DEF CountsEveryRow
  <2>3. conv[d].message_count \in Nat /\ failures \in Nat
    BY <1>1 DEF Typed, Columns
  <2>4. CASE d = c
    <3>1. {r \in log' : r.chat = d} = rows \cup {row}
      BY <1>2, <1>3, <2>4
    <3>2. Cardinality(rows \cup {row}) <= Cardinality(rows) + 1
      <4>. HIDE DEF rows
      <4>1. Cardinality(rows \cup {row}) =
              IF row \in rows THEN Cardinality(rows) ELSE Cardinality(rows) + 1
        BY <2>1, FS_AddElement
      <4>. QED BY <2>1, <4>1
    <3>3. Cardinality(rows \cup {row}) \in Nat
      <4>. HIDE DEF rows
      <4>. QED BY <2>1, FS_AddElement, FS_CardinalityType
    <3>4. conv'[d].message_count + failures' = conv[d].message_count + failures + 1
      BY <1>2, <2>3, <2>4
    <3>. HIDE DEF rows
    <3>. QED BY <2>1, <2>2, <2>3, <3>1, <3>2, <3>3, <3>4
  <2>5. CASE d # c
    <3>1. {r \in log' : r.chat = d} = rows
      BY <1>2, <1>3, <2>5
    <3>2. conv'[d] = conv[d] /\ failures' \in Nat /\ failures <= failures'
      BY <1>2, <2>3, <2>5
    <3>. HIDE DEF rows
    <3>3. Cardinality(rows) <= conv'[d].message_count + failures'
      BY ONLY <2>1, <2>2, <2>3, <3>2
    <3>. QED BY <3>1, <3>3
  <2>. QED BY <2>4, <2>5
<1>. QED BY <1>5, <1>6, <1>7, <1>8, <1>9 DEF LogInv

-----------------------------------------------------------------------------
(* Deleting rows. *)

\* A log that loses rows counts no more of them, and keeps its order.
LEMMA FewerRows ==
    ASSUME Typed, Ordered, CountsEveryRow, log' \subseteq log,
           \A c \in Chats : conv'[c].message_count = conv[c].message_count,
           failures' \in Nat, failures <= failures', now' = now, nextId' = nextId
    PROVE  IsFiniteSet(log') /\ Ordered' /\ CountsEveryRow'
<1>1. IsFiniteSet(log')
  BY FS_Subset DEF Typed
<1>2. Ordered'
  BY DEF Ordered
<1>3. CountsEveryRow'
  <2> SUFFICES ASSUME NEW d \in Chats
               PROVE  Cardinality({r \in log' : r.chat = d})
                        <= conv'[d].message_count + failures'
    BY DEF CountsEveryRow
  <2>. DEFINE rows == {r \in log : r.chat = d}
              left == {r \in log' : r.chat = d}
  <2>1. IsFiniteSet(rows) /\ left \subseteq rows
    BY FS_Subset DEF Typed
  <2>2. Cardinality(rows) <= conv[d].message_count + failures
    BY DEF CountsEveryRow
  <2>3. conv[d].message_count \in Nat /\ failures \in Nat
    BY DEF Typed, Columns
  <2>4. conv'[d].message_count = conv[d].message_count
    OBVIOUS
  <2>. HIDE DEF rows, left
  <2>5. /\ Cardinality(left) <= Cardinality(rows)
        /\ Cardinality(left) \in Nat /\ Cardinality(rows) \in Nat
    BY <2>1, FS_Subset, FS_CardinalityType
  <2>6. Cardinality(left) <= conv'[d].message_count + failures'
    BY <2>2, <2>3, <2>4, <2>5
  <2>. QED BY <2>6 DEF left
<1>. QED BY <1>1, <1>2, <1>3

LEMMA ClearStep ==
    ASSUME LogInv, NEW c \in Chats, ClearHistory(c)
    PROVE  LogInv'
<1>1. Typed /\ Ensured /\ Ordered /\ PreviewInv /\ CountsEveryRow
  BY DEF LogInv
<1>2. PICK cut \in BOOLEAN :
        /\ Cut(cut)
        /\ conv' = IF cut THEN conv ELSE [conv EXCEPT ![c].last = NoRow]
        /\ torn' = IF cut THEN torn \cup {c} ELSE torn \ {c}
  BY DEF ClearHistory
<1>3. /\ log' = {r \in log : r.chat # c}
      /\ now' = now /\ nextId' = nextId /\ purged' = purged
      /\ asking' = asking /\ parked' = parked
  BY DEF ClearHistory, jobs
<1>4. failures' \in Nat /\ failures <= failures' /\ failures' <= MaxFailures
  BY <1>1, <1>2, BoundsAssumption DEF Cut, Typed
<1>5. /\ conv' \in [Chats -> Columns]
      /\ \A d \in Chats : /\ conv'[d].exists = conv[d].exists
                          /\ conv'[d].message_count = conv[d].message_count
      /\ \A d \in Chats \ {c} : conv'[d] = conv[d]
      /\ cut => conv' = conv
      /\ ~cut => conv'[c].last = NoRow
  BY <1>1, <1>2 DEF Typed, Columns, NoRow
<1>6. IsFiniteSet(log') /\ Ordered' /\ CountsEveryRow'
  BY <1>1, <1>3, <1>4, <1>5, FewerRows
<1>7. Typed'
  BY <1>1, <1>2, <1>3, <1>4, <1>5, <1>6 DEF Typed
<1>8. Ensured'
  <2>1. \A r \in log' : conv'[r.chat].exists
    BY <1>1, <1>3, <1>5 DEF Ensured, Typed, Row
  <2>2. \A d \in asking' \cup parked' : conv'[d].exists
    BY <1>1, <1>3, <1>5 DEF Ensured, Typed
  <2>3. \A d \in Chats : conv'[d].message_count < nextId' /\ conv'[d].last < nextId'
    <3>1. nextId \in Nat /\ 0 < nextId
      BY <1>1 DEF Typed
    <3>2. \A d \in Chats : conv'[d].last = conv[d].last \/ conv'[d].last = NoRow
      BY <1>5
    <3>. QED BY <1>1, <1>3, <1>5, <3>1, <3>2 DEF Ensured, NoRow
  <2>. QED BY <2>1, <2>2, <2>3 DEF Ensured
<1>9. PreviewInv'
  <2> SUFFICES ASSUME NEW d \in Chats, d \notin torn' PROVE Previewed(d)'
    BY DEF PreviewInv
  <2>1. CASE d = c
    <3>1. UserIds(d)' = {}
      BY <1>3, <2>1 DEF UserIds, RowsOf
    <3>2. conv'[d].last = NoRow
      BY <1>2, <1>5, <2>1
    <3>. QED BY <3>1, <3>2 DEF Previewed
  <2>2. CASE d # c
    <3>1. UserIds(d)' = UserIds(d)
      BY <1>3, <2>2 DEF UserIds, RowsOf
    <3>2. Previewed(d) /\ conv'[d] = conv[d]
      BY <1>1, <1>2, <1>5, <2>2 DEF PreviewInv
    <3>. QED BY <1>3, <3>1, <3>2 DEF Previewed
  <2>. QED BY <2>1, <2>2
<1>. QED BY <1>6, <1>7, <1>8, <1>9 DEF LogInv

LEMMA ClearAllStep ==
    ASSUME LogInv, ClearAllChats
    PROVE  LogInv'
<1>1. Typed /\ Ensured /\ Ordered /\ PreviewInv /\ CountsEveryRow
  BY DEF LogInv
<1>2. PICK cut \in BOOLEAN :
        /\ Cut(cut)
        /\ log' = IF cut THEN log ELSE {}
        /\ torn' = IF cut THEN Chats ELSE {}
  BY DEF ClearAllChats
<1>3. /\ conv' = [c \in Chats |-> [conv[c] EXCEPT !.last = NoRow]]
      /\ now' = now /\ nextId' = nextId /\ purged' = purged
      /\ asking' = asking /\ parked' = parked
  BY DEF ClearAllChats, jobs
<1>4. failures' \in Nat /\ failures <= failures' /\ failures' <= MaxFailures
  BY <1>1, <1>2, BoundsAssumption DEF Cut, Typed
<1>5. /\ conv' \in [Chats -> Columns]
      /\ \A d \in Chats : /\ conv'[d].exists = conv[d].exists
                          /\ conv'[d].message_count = conv[d].message_count
                          /\ conv'[d].last = NoRow
  BY <1>1, <1>3 DEF Typed, Columns, NoRow
<1>6. IsFiniteSet(log') /\ Ordered' /\ CountsEveryRow'
  BY <1>1, <1>2, <1>3, <1>4, <1>5, FewerRows
<1>7. Typed'
  BY <1>1, <1>2, <1>3, <1>4, <1>5, <1>6 DEF Typed
<1>8. Ensured'
  <2>1. \A r \in log' : conv'[r.chat].exists
    BY <1>1, <1>2, <1>5 DEF Ensured, Typed, Row
  <2>. QED BY <1>1, <1>3, <1>5, <2>1 DEF Ensured, Typed, NoRow
<1>9. PreviewInv'
  BY <1>2, <1>5 DEF PreviewInv, Previewed, UserIds, RowsOf
<1>. QED BY <1>6, <1>7, <1>8, <1>9 DEF LogInv

\* The newest user message of a chat expires after all the others.
LEMMA PurgeStep ==
    ASSUME LogInv, Purge
    PROVE  LogInv'
<1>. DEFINE old == {r \in log : r.at < now - Retention}
<1>1. Typed /\ Ensured /\ Ordered /\ PreviewInv /\ CountsEveryRow
  BY DEF LogInv
<1>2. /\ log' = log \ old
      /\ purged' = purged \cup {r.id : r \in old}
      /\ now' = now /\ nextId' = nextId /\ conv' = conv /\ torn' = torn
      /\ asking' = asking /\ parked' = parked /\ failures' = failures
  BY DEF Purge, jobs
<1>3. IsFiniteSet(log') /\ Ordered' /\ CountsEveryRow'
  BY <1>1, <1>2, FewerRows DEF Typed
<1>4. Typed'
  <2>1. {r.id : r \in old} \subseteq Nat
    BY <1>1 DEF Typed, Row
  <2>. QED BY <1>1, <1>2, <1>3, <2>1 DEF Typed
<1>5. Ensured'
  BY <1>1, <1>2 DEF Ensured
<1>6. PreviewInv'
  <2> SUFFICES ASSUME NEW d \in Chats, d \notin torn' PROVE Previewed(d)'
    BY DEF PreviewInv
  <2>1. Previewed(d)
    BY <1>1, <1>2 DEF PreviewInv
  <2>2. UserIds(d)' \subseteq UserIds(d)
    BY <1>2 DEF UserIds, RowsOf
  <2>3. CASE UserIds(d) = {}
    BY <1>2, <2>1, <2>2, <2>3 DEF Previewed
  <2>4. CASE UserIds(d) # {}
    <3>1. /\ conv[d].last \in UserIds(d)
          /\ \A i \in UserIds(d) : i <= conv[d].last
      BY <2>1, <2>4 DEF Previewed
    <3>2. PICK s \in RowsOf(d, "user") : s.id = conv[d].last
      BY <3>1 DEF UserIds
    <3>3. CASE s \in old
      <4>1. conv'[d].last \in purged'
        BY <1>2, <3>2, <3>3
      <4>2. ASSUME NEW r \in log, r.chat = d, r.role = "user" PROVE r \in old
        <5>1. r.id <= s.id
          BY <3>1, <3>2, <4>2 DEF UserIds, RowsOf
        <5>2. r.at <= s.at
          BY <1>1, <3>2, <5>1 DEF Ordered, RowsOf
        <5>3. /\ r.at \in Nat /\ s.at \in Nat /\ now \in Nat /\ Retention \in Nat
              /\ s.at < now - Retention
          BY <1>1, <3>2, <3>3, WindowsAssumption DEF Typed, Row, RowsOf
        <5>. QED BY <5>2, <5>3
      <4>3. UserIds(d)' = {}
        BY <1>2, <4>2 DEF UserIds, RowsOf
      <4>. QED BY <4>1, <4>3 DEF Previewed
    <3>4. CASE s \notin old
      <4>1. conv'[d].last \in UserIds(d)'
        BY <1>2, <3>2, <3>4 DEF UserIds, RowsOf
      <4>. QED BY <1>2, <2>2, <3>1, <4>1 DEF Previewed
    <3>. QED BY <3>3, <3>4
  <2>. QED BY <2>3, <2>4
<1>. QED BY <1>3, <1>4, <1>5, <1>6 DEF LogInv

-----------------------------------------------------------------------------
(* The other steps. *)

LEMMA EnsureStep ==
    ASSUME LogInv, NEW c \in Chats, EnsureConversation(c)
    PROVE  LogInv'
<1>1. Typed /\ Ensured /\ Ordered /\ PreviewInv /\ CountsEveryRow
  BY DEF LogInv
<1>2. /\ conv' = [conv EXCEPT ![c].exists = TRUE]
      /\ now' = now /\ log' = log /\ nextId' = nextId /\ purged' = purged
      /\ asking' = asking /\ parked' = parked
      /\ failures' = failures /\ torn' = torn
  BY DEF EnsureConversation, jobs
<1>3. /\ conv' \in [Chats -> Columns]
      /\ \A d \in Chats : /\ conv[d].exists => conv'[d].exists
                          /\ conv'[d].message_count = conv[d].message_count
                          /\ conv'[d].last = conv[d].last
  BY <1>1, <1>2 DEF Typed, Columns
<1>4. Typed'
  BY <1>1, <1>2, <1>3 DEF Typed
<1>5. Ensured'
  BY <1>1, <1>2, <1>3 DEF Ensured, Typed, Row
<1>6. Ordered'
  BY <1>1, <1>2 DEF Ordered
<1>7. PreviewInv'
  <2>1. \A d \in Chats : UserIds(d)' = UserIds(d)
    BY <1>2 DEF UserIds, RowsOf
  <2>. QED BY <1>1, <1>2, <1>3, <2>1 DEF PreviewInv, Previewed
<1>8. CountsEveryRow'
  BY <1>1, <1>2, <1>3 DEF CountsEveryRow
<1>. QED BY <1>4, <1>5, <1>6, <1>7, <1>8 DEF LogInv

\* Jobs that begin, end or are lost leave the tables alone.
LEMMA TablesStay ==
    ASSUME LogInv, UNCHANGED <<log, nextId, conv, torn, purged>>,
           now' \in Nat, now <= now', now' <= MaxTime,
           failures' \in Nat, failures <= failures', failures' <= MaxFailures,
           asking' \subseteq asking \cup parked, parked' \subseteq parked
    PROVE  LogInv'
<1>1. Typed /\ Ensured /\ Ordered /\ PreviewInv /\ CountsEveryRow
  BY DEF LogInv
<1>2. Typed'
  BY <1>1 DEF Typed
<1>3. Ensured'
  BY <1>1 DEF Ensured
<1>4. Ordered'
  <2>1. \A r \in log : r.at \in Nat
    BY <1>1 DEF Typed, Row
  <2>2. \A r \in log : r.at <= now'
    BY <1>1, <2>1 DEF Ordered, Typed
  <2>. QED BY <1>1, <2>2 DEF Ordered
<1>5. PreviewInv'
  BY <1>1 DEF PreviewInv, Previewed, UserIds, RowsOf
<1>6. CountsEveryRow'
  <2> SUFFICES ASSUME NEW d \in Chats
               PROVE  Cardinality({r \in log : r.chat = d})
                        <= conv[d].message_count + failures'
    BY DEF CountsEveryRow
  <2>. DEFINE rows == {r \in log : r.chat = d}
  <2>1. IsFiniteSet(rows)
    BY <1>1, FS_Subset DEF Typed
  <2>2. Cardinality(rows) <= conv[d].message_count + failures
    BY <1>1 DEF CountsEveryRow
  <2>3. conv[d].message_count \in Nat /\ failures \in Nat
    BY <1>1 DEF Typed, Columns
  <2>. HIDE DEF rows
  <2>4. Cardinality(rows) \in Nat
    BY <2>1, FS_CardinalityType
  <2>5. Cardinality(rows) <= conv[d].message_count + failures'
    BY <2>2, <2>3, <2>4
  <2>. QED BY <2>5 DEF rows
<1>. QED BY <1>2, <1>3, <1>4, <1>5, <1>6 DEF LogInv

LEMMA LogInit == Init => LogInv
<1> SUFFICES ASSUME Init PROVE LogInv
  OBVIOUS
<1>1. Typed
  <2>1. conv \in [Chats -> Columns]
    BY DEF Init, Columns, NoRow
  <2>2. IsFiniteSet(log)
    BY FS_EmptySet DEF Init
  <2>3. /\ now = 0 /\ nextId = 1 /\ failures = 0 /\ log = {}
        /\ asking = {} /\ parked = {} /\ torn = {} /\ purged = {}
    BY DEF Init
  <2>4. now \in Nat /\ now <= MaxTime /\ failures \in Nat /\ failures <= MaxFailures
    BY <2>3, BoundsAssumption
  <2>5. nextId \in Nat /\ 0 < nextId /\ nextId <= MaxRows + 1
    BY <2>3, BoundsAssumption
  <2>. QED BY <2>1, <2>2, <2>3, <2>4, <2>5 DEF Typed
<1>2. Ensured
  BY DEF Init, Ensured, NoRow
<1>3. Ordered
  BY DEF Init, Ordered
<1>4. PreviewInv
  BY DEF Init, PreviewInv, Previewed, UserIds, RowsOf
<1>5. CountsEveryRow
  <2>1. \A c \in Chats : {r \in log : r.chat = c} = {}
    BY DEF Init
  <2>2. \A c \in Chats : conv[c].message_count = 0 /\ failures = 0
    BY DEF Init
  <2>. QED BY <2>1, <2>2, FS_EmptySet DEF CountsEveryRow
<1>. QED BY <1>1, <1>2, <1>3, <1>4, <1>5 DEF LogInv

LEMMA LogStep == LogInv /\ [Next]_vars => LogInv'
<1> SUFFICES ASSUME LogInv, [Next]_vars PROVE LogInv'
  OBVIOUS
<1>a. Typed /\ Ensured
  BY DEF LogInv
<1>b. now \in Nat /\ failures \in Nat /\ now <= MaxTime /\ failures <= MaxFailures
  BY <1>a DEF Typed
<1>c. "user" \in Roles /\ "bot" \in Roles /\ "admin" \in Roles
  BY DEF Roles
<1>d. \A l \in Latencies : l # NoLatency
  BY WindowsAssumption DEF NoLatency
<1>1. CASE Tick
  BY <1>1, <1>b, TablesStay, BoundsAssumption DEF Tick, jobs
<1>2. CASE Crash
  BY <1>2, <1>b, TablesStay, BoundsAssumption DEF Crash, Cut
<1>3. CASE ClearAllChats
  BY <1>3, ClearAllStep
<1>4. CASE Purge
  BY <1>4, PurgeStep
<1>5. ASSUME NEW c \in Chats, EnsureConversation(c) PROVE LogInv'
  BY <1>5, EnsureStep
<1>6. ASSUME NEW c \in Chats, LogUserText(c) PROVE LogInv'
  <2>1. PICK cut \in BOOLEAN :
          /\ LogMessage(c, "user", NoLatency, cut)
          /\ asking' = IF cut THEN asking ELSE asking \cup {c}
    BY <1>6 DEF LogUserText
  <2>2. Logs(c, "user", NoLatency, cut)
    BY <1>6, <1>c, <2>1 DEF Logs, LogUserText
  <2>. QED BY <2>2, LogsStep
<1>7. ASSUME NEW c \in Chats, LogUserFile(c) PROVE LogInv'
  <2>1. PICK cut \in BOOLEAN :
          /\ LogMessage(c, "user", NoLatency, cut)
          /\ parked' = IF cut THEN parked ELSE parked \cup {c}
    BY <1>7 DEF LogUserFile
  <2>2. Logs(c, "user", NoLatency, cut)
    BY <1>7, <1>c, <2>1 DEF Logs, LogUserFile
  <2>. QED BY <2>2, LogsStep
<1>8. ASSUME NEW c \in Chats, LogBot(c) PROVE LogInv'
  <2>1. PICK cut \in BOOLEAN, latency \in Latencies : LogMessage(c, "bot", latency, cut)
    BY <1>8 DEF LogBot
  <2>2. conv[c].exists
    BY <1>8, <1>a DEF LogBot, Ensured
  <2>3. Logs(c, "bot", latency, cut)
    BY <1>8, <1>c, <1>d, <2>1, <2>2 DEF Logs, LogBot
  <2>. QED BY <2>3, LogsStep
<1>9. ASSUME NEW c \in Chats, SendMessage(c) PROVE LogInv'
  <2>1. PICK cut \in BOOLEAN : LogMessage(c, "admin", NoLatency, cut)
    BY <1>9 DEF SendMessage
  <2>2. Logs(c, "admin", NoLatency, cut)
    BY <1>9, <1>c, <2>1 DEF Logs, SendMessage, jobs
  <2>. QED BY <2>2, LogsStep
<1>10. ASSUME NEW c \in Chats, Flush(c) \/ TurnEnds(c) PROVE LogInv'
  BY <1>10, <1>b, TablesStay DEF Flush, TurnEnds
<1>11. ASSUME NEW c \in Chats, ClearHistory(c) PROVE LogInv'
  BY <1>11, ClearStep
<1>12. CASE UNCHANGED vars
  BY <1>12, <1>b, TablesStay DEF vars, jobs
<1>. QED BY <1>1, <1>2, <1>3, <1>4, <1>5, <1>6, <1>7, <1>8, <1>9, <1>10, <1>11,
     <1>12 DEF Next

-----------------------------------------------------------------------------
(* Counting. *)

\* The sizes of the classes of a set add up to its own.
LEMMA SumOfClasses ==
    ASSUME NEW R, IsFiniteSet(R), NEW f, NEW class \in [R -> DOMAIN f],
           \A k \in DOMAIN f : f[k] = Cardinality({r \in R : class[r] = k})
    PROVE  Total(f) = Cardinality(R)
<1>. DEFINE K == DOMAIN f
            Of(k) == {r \in R : class[r] = k}
            counts == [k \in K |-> CHOOSE b : b \in Bijection(1 .. f[k], Of(k))]
            pairs == UNION {{k} \X (1 .. f[k]) : k \in K}
            row == [p \in pairs |-> counts[p[1]][p[2]]]
<1>1. ASSUME NEW k \in K
      PROVE  /\ counts[k] \in [1 .. f[k] -> Of(k)]
             /\ \A i, j \in 1 .. f[k] : counts[k][i] = counts[k][j] => i = j
             /\ \A r \in Of(k) : \E i \in 1 .. f[k] : counts[k][i] = r
  <2>1. IsFiniteSet(Of(k)) /\ f[k] = Cardinality(Of(k))
    BY FS_Subset
  <2>. HIDE DEF Of
  <2>2. \E b : b \in Bijection(1 .. f[k], Of(k))
    BY <2>1, FS_CardinalityType DEF ExistsBijection
  <2>3. counts[k] \in Bijection(1 .. f[k], Of(k))
    BY <2>2
  <2>. HIDE DEF counts
  <2>. QED BY <2>3 DEF Bijection, Injection, IsInjective, Surjection
<1>2. \A p \in pairs : /\ p = <<p[1], p[2]>>
                       /\ p[1] \in K /\ p[2] \in 1 .. f[p[1]]
  OBVIOUS
<1>3. \A k \in K : \A i \in 1 .. f[k] : <<k, i>> \in pairs
  OBVIOUS
<1>. HIDE DEF counts, pairs
<1>4. \A p \in pairs : row[p] \in R /\ class[row[p]] = p[1]
  <2>. TAKE p \in pairs
  <2>1. p[1] \in K /\ p[2] \in 1 .. f[p[1]]
    BY <1>2
  <2>2. counts[p[1]][p[2]] \in Of(p[1])
    <3>. HIDE DEF Of, K
    <3>. QED BY <1>1, <2>1
  <2>3. row[p] = counts[p[1]][p[2]]
    OBVIOUS
  <2>. QED BY <2>2, <2>3
<1>5. \A p, q \in pairs : row[p] = row[q] => p = q
  <2>. TAKE p, q \in pairs
  <2>. HAVE row[p] = row[q]
  <2>1. p[1] = q[1]
    BY <1>4
  <2>2. counts[p[1]][p[2]] = counts[p[1]][q[2]]
    BY <2>1
  <2>. QED BY <1>1, <1>2, <2>1, <2>2
<1>6. \A r \in R : \E p \in pairs : row[p] = r
  <2>. TAKE r \in R
  <2>1. class[r] \in K /\ r \in Of(class[r])
    OBVIOUS
  <2>2. PICK i \in 1 .. f[class[r]] : counts[class[r]][i] = r
    BY <1>1, <2>1
  <2>3. <<class[r], i>> \in pairs
    BY <1>3, <2>1
  <2>4. row[<<class[r], i>>] = r
    BY <2>2, <2>3
  <2>. QED BY <2>3, <2>4
<1>7. ExistsBijection(R, pairs)
  <2>. DEFINE pair == [r \in R |-> CHOOSE p \in pairs : row[p] = r]
  <2>1. \A r \in R : pair[r] \in pairs /\ row[pair[r]] = r
    BY <1>6
  <2>2. \A p \in pairs : row[p] \in R /\ pair[row[p]] = p
    <3>. HIDE DEF pair, row
    <3>. QED BY <1>4, <1>5, <2>1
  <2>3. pair \in [R -> pairs]
    BY <2>1
  <2>. HIDE DEF pair, row
  <2>4. pair \in Bijection(R, pairs)
    BY <2>1, <2>2, <2>3 DEF Bijection, Injection, IsInjective, Surjection
  <2>. QED BY <2>4 DEF ExistsBijection
<1>8. Cardinality(pairs) = Cardinality(R)
  BY <1>7, FS_Bijection
<1>. QED BY <1>8 DEF Total, pairs

LEMMA TwoParts ==
    ASSUME NEW A, NEW B, IsFiniteSet(A), IsFiniteSet(B), A \cap B = {}
    PROVE  /\ IsFiniteSet(A \cup B)
           /\ Cardinality(A \cup B) = Cardinality(A) + Cardinality(B)
           /\ Cardinality(A) \in Nat /\ Cardinality(B) \in Nat
<1>1. /\ IsFiniteSet(A \cup B)
      /\ Cardinality(A \cup B) = Cardinality(A) + Cardinality(B) - Cardinality(A \cap B)
  BY FS_Union
<1>2. Cardinality(A) \in Nat /\ Cardinality(B) \in Nat
  BY FS_CardinalityType
<1>3. Cardinality(A \cap B) = 0
  BY FS_EmptySet
<1>. QED BY <1>1, <1>2, <1>3

-----------------------------------------------------------------------------
(* Days, hours and the groups of _MAIN_QUERY. *)

OnDay(d)        == {r \in log : Day(r.at) = d}
InHour(R, h)    == {r \in R : Hour(r.at) = h}
AtHour(d, h)    == InHour(OnDay(d), h)
OfRole(R, role) == {r \in R : r.role = role}

LEMMA HoursIs ==
    ASSUME NEW R, NEW h, NEW role
    PROVE  /\ Count(R, role) = Cardinality(OfRole(R, role))
           /\ OfRole(InHour(R, h), role) = InHour(OfRole(R, role), h)
           /\ TimedIn(InHour(R, h)) = InHour(TimedIn(R), h)
BY DEF OfRole, InHour, TimedIn, Count

LEMMA DayIs ==
    ASSUME NEW t \in Int
    PROVE  /\ Day(t) \in Int /\ Hour(t) \in 0 .. HoursPerDay - 1
           /\ \A s \in Int : s * HoursPerDay <= t <=> s <= Day(t)
BY WindowsAssumption DEF Day, Hour

LEMMA WithinIs ==
    ASSUME Typed, NEW start \in Int, NEW end \in Int
    PROVE  /\ Within(start, end) = {r \in log : Day(r.at) \in start .. end}
           /\ \A r \in log : Day(r.at) \in Int /\ Hour(r.at) \in 0 .. HoursPerDay - 1
<1>1. ASSUME NEW r \in log
      PROVE  /\ Day(r.at) \in Int /\ Hour(r.at) \in 0 .. HoursPerDay - 1
             /\ IsoBounds(start, end)[1] <= r.at <=> start <= Day(r.at)
             /\ r.at < IsoBounds(start, end)[2] <=> Day(r.at) <= end
  <2>1. r.at \in Int /\ HoursPerDay \in Nat
    BY WindowsAssumption DEF Typed, Row
  <2>2. /\ Day(r.at) \in Int /\ Hour(r.at) \in 0 .. HoursPerDay - 1
        /\ \A s \in Int : s * HoursPerDay <= r.at <=> s <= Day(r.at)
    BY <2>1, DayIs
  <2>3. start * HoursPerDay <= r.at <=> start <= Day(r.at)
    BY <2>2
  <2>4. r.at < (end + 1) * HoursPerDay <=> Day(r.at) <= end
    <3>1. (end + 1) * HoursPerDay <= r.at <=> end + 1 <= Day(r.at)
      BY <2>2
    <3>2. (end + 1) * HoursPerDay \in Int
      BY <2>1
    <3>. QED BY <2>1, <2>2, <3>1, <3>2
  <2>. QED BY <2>2, <2>3, <2>4 DEF IsoBounds
<1>. QED BY <1>1 DEF Within

Group(d, h) ==
    [day |-> d, hour |-> h, mi |-> Count(AtHour(d, h), "user"),
     mo |-> Count(AtHour(d, h), "bot"), rt_n |-> Cardinality(TimedIn(AtHour(d, h)))]
GroupsOf(d) == {Group(d, Hour(r.at)) : r \in OnDay(d)}

LEMMA GroupsOfDay ==
    ASSUME Typed, NEW start \in Int, NEW end \in Int, NEW d \in start .. end
    PROVE  {g \in MainQuery(start, end) : g.day = d} = GroupsOf(d)
<1>. DEFINE rows == Within(start, end)
            In(g) == {r \in rows : Day(r.at) = g[1] /\ Hour(r.at) = g[2]}
            Of(g) == [day |-> g[1], hour |-> g[2], mi |-> Count(In(g), "user"),
                      mo |-> Count(In(g), "bot"), rt_n |-> Cardinality(TimedIn(In(g)))]
            hours == {<<Day(r.at), Hour(r.at)>> : r \in rows}
<1>1. MainQuery(start, end) = {Of(g) : g \in hours}
  BY DEF MainQuery
<1>2. rows = {r \in log : Day(r.at) \in start .. end}
  BY WithinIs
<1>3. \A h : In(<<d, h>>) = AtHour(d, h)
  BY <1>2 DEF AtHour, InHour, OnDay
<1>4. \A h : Of(<<d, h>>) = Group(d, h)
  BY <1>3 DEF Group
<1>5. \A g : Of(g).day = g[1]
  OBVIOUS
<1>6. OnDay(d) = {r \in rows : Day(r.at) = d}
  BY <1>2 DEF OnDay
<1>. HIDE DEF Of, rows
<1>7. ASSUME NEW g \in MainQuery(start, end), g.day = d PROVE g \in GroupsOf(d)
  <2>1. PICK r \in rows : g = Of(<<Day(r.at), Hour(r.at)>>)
    BY <1>1
  <2>2. Day(r.at) = d
    BY <1>5, <1>7, <2>1
  <2>. QED BY <1>4, <1>6, <2>1, <2>2 DEF GroupsOf
<1>8. ASSUME NEW g \in GroupsOf(d) PROVE g \in MainQuery(start, end) /\ g.day = d
  <2>1. PICK r \in OnDay(d) : g = Group(d, Hour(r.at))
    BY DEF GroupsOf
  <2>2. r \in rows /\ g = Of(<<Day(r.at), Hour(r.at)>>)
    BY <1>4, <1>6, <2>1
  <2>. QED BY <1>1, <1>5, <1>6, <2>1, <2>2
<1>. QED BY <1>7, <1>8

\* Rows of a day are counted hour by hour.
LEMMA CountByHour ==
    ASSUME Typed, NEW d, NEW R \in SUBSET OnDay(d), NEW f, DOMAIN f = GroupsOf(d),
           \A g \in GroupsOf(d) : f[g] = Cardinality(InHour(R, g.hour))
    PROVE  Total(f) = Cardinality(R)
<1>. DEFINE class == [r \in R |-> Group(d, Hour(r.at))]
<1>1. IsFiniteSet(R)
  BY FS_Subset DEF Typed, OnDay
<1>2. class \in [R -> DOMAIN f]
  BY DEF GroupsOf
<1>3. ASSUME NEW k \in DOMAIN f PROVE f[k] = Cardinality({r \in R : class[r] = k})
  <2>1. PICK s \in OnDay(d) : k = Group(d, Hour(s.at))
    BY <1>3 DEF GroupsOf
  <2>2. \A h : Group(d, h) = k <=> h = k.hour
    BY <2>1 DEF Group
  <2>3. {r \in R : class[r] = k} = InHour(R, k.hour)
    BY <2>2 DEF InHour
  <2>. QED BY <1>3, <2>3
<1>. HIDE DEF class
<1>. QED BY <1>1, <1>2, <1>3, SumOfClasses

\* The entry of a day depends on the rows of that day alone.
DayOf(d) ==
    [messages_in  |-> Count(OnDay(d), "user"),
     messages_out |-> Count(OnDay(d), "bot"),
     timed        |-> Cardinality(TimedIn(OnDay(d))),
     hourly_in    |-> [h \in 0 .. HoursPerDay - 1 |-> Count(AtHour(d, h), "user")],
     unique_users |-> Cardinality({r.chat : r \in {s \in OnDay(d) : s.role = "user"}})]

LEMMA DailyIs ==
    ASSUME Typed, NEW start \in Int, NEW end \in Int
    PROVE  DailyRows(start, end) = [d \in start .. end |-> DayOf(d)]
<1>. DEFINE groups == MainQuery(start, end)
            day(d) == {g \in groups : g.day = d}
            At(d, h) == {g \in day(d) : g.hour = h}
            users(d) == {r \in Within(start, end) : r.role = "user" /\ Day(r.at) = d}
            entry(d) ==
              [messages_in  |-> Total([g \in day(d) |-> g.mi]),
               messages_out |-> Total([g \in day(d) |-> g.mo]),
               timed        |-> Total([g \in day(d) |-> g.rt_n]),
               hourly_in    |-> [h \in 0 .. HoursPerDay - 1 |-> Total([g \in At(d, h) |-> g.mi])],
               unique_users |-> Cardinality({r.chat : r \in users(d)})]
<1>1. DailyRows(start, end) = [d \in start .. end |-> entry(d)]
  BY DEF DailyRows, FoldDaily
<1>2. ASSUME NEW d \in start .. end PROVE entry(d) = DayOf(d)
  <2>1. day(d) = GroupsOf(d)
    BY GroupsOfDay
  <2>2. \A g \in GroupsOf(d) : \E h : g = Group(d, h)
    BY DEF GroupsOf
  <2>3. \A g \in GroupsOf(d) :
          /\ g.mi = Cardinality(InHour(OfRole(OnDay(d), "user"), g.hour))
          /\ g.mo = Cardinality(InHour(OfRole(OnDay(d), "bot"), g.hour))
          /\ g.rt_n = Cardinality(InHour(TimedIn(OnDay(d)), g.hour))
    <3>1. ASSUME NEW h
          PROVE  /\ Group(d, h).hour = h
                 /\ Group(d, h).mi = Cardinality(InHour(OfRole(OnDay(d), "user"), h))
                 /\ Group(d, h).mo = Cardinality(InHour(OfRole(OnDay(d), "bot"), h))
                 /\ Group(d, h).rt_n = Cardinality(InHour(TimedIn(OnDay(d)), h))
      <4>1. /\ Group(d, h).hour = h
            /\ Group(d, h).mi = Count(AtHour(d, h), "user")
            /\ Group(d, h).mo = Count(AtHour(d, h), "bot")
            /\ Group(d, h).rt_n = Cardinality(TimedIn(AtHour(d, h)))
        BY DEF Group
      <4>2. /\ Count(AtHour(d, h), "user") = Cardinality(InHour(OfRole(OnDay(d), "user"), h))
            /\ Count(AtHour(d, h), "bot") = Cardinality(InHour(OfRole(OnDay(d), "bot"), h))
        BY HoursIs DEF AtHour
      <4>3. TimedIn(AtHour(d, h)) = InHour(TimedIn(OnDay(d)), h)
        BY HoursIs DEF AtHour
      <4>. QED BY <4>1, <4>2, <4>3
    <3>. QED BY <2>2, <3>1
  <2>4. Total([g \in GroupsOf(d) |-> g.mi]) = Count(OnDay(d), "user")
    <3>. DEFINE f == [g \in GroupsOf(d) |-> g.mi]
                R == OfRole(OnDay(d), "user")
    <3>1. R \in SUBSET OnDay(d) /\ DOMAIN f = GroupsOf(d)
      BY DEF OfRole
    <3>2. \A g \in GroupsOf(d) : f[g] = Cardinality(InHour(R, g.hour))
      BY <2>3
    <3>. HIDE DEF f, R
    <3>3. Total(f) = Cardinality(R)
      BY <3>1, <3>2, CountByHour
    <3>. QED BY <3>3, HoursIs DEF f, R
  <2>5. Total([g \in GroupsOf(d) |-> g.mo]) = Count(OnDay(d), "bot")
    <3>. DEFINE f == [g \in GroupsOf(d) |-> g.mo]
                R == OfRole(OnDay(d), "bot")
    <3>1. R \in SUBSET OnDay(d) /\ DOMAIN f = GroupsOf(d)
      BY DEF OfRole
    <3>2. \A g \in GroupsOf(d) : f[g] = Cardinality(InHour(R, g.hour))
      BY <2>3
    <3>. HIDE DEF f, R
    <3>3. Total(f) = Cardinality(R)
      BY <3>1, <3>2, CountByHour
    <3>. QED BY <3>3, HoursIs DEF f, R
  <2>6. Total([g \in GroupsOf(d) |-> g.rt_n]) = Cardinality(TimedIn(OnDay(d)))
    <3>. DEFINE f == [g \in GroupsOf(d) |-> g.rt_n]
    <3>1. TimedIn(OnDay(d)) \in SUBSET OnDay(d) /\ DOMAIN f = GroupsOf(d)
      BY DEF TimedIn
    <3>2. \A g \in GroupsOf(d) :
            f[g] = Cardinality(InHour(TimedIn(OnDay(d)), g.hour))
      BY <2>3
    <3>. HIDE DEF f
    <3>3. Total(f) = Cardinality(TimedIn(OnDay(d)))
      BY <3>1, <3>2, CountByHour
    <3>. QED BY <3>3 DEF f
  <2>7. ASSUME NEW h \in 0 .. HoursPerDay - 1
        PROVE  Total([g \in At(d, h) |-> g.mi]) = Count(AtHour(d, h), "user")
    <3>. DEFINE R == {r \in AtHour(d, h) : r.role = "user"}
                f == [g \in At(d, h) |-> g.mi]
                class == [r \in R |-> Group(d, h)]
    <3>1. IsFiniteSet(R)
      <4>1. R \in SUBSET log
        BY DEF AtHour, InHour, OnDay
      <4>. QED BY <4>1, FS_Subset DEF Typed
    <3>2. At(d, h) = {g \in GroupsOf(d) : g.hour = h}
      BY <2>1
    <3>3. \A g \in At(d, h) : g = Group(d, h)
      BY <2>2, <3>2 DEF Group
    <3>4. \A r \in R : Group(d, h) \in At(d, h)
      <4>. TAKE r \in R
      <4>1. r \in OnDay(d) /\ Hour(r.at) = h
        BY DEF AtHour, InHour
      <4>2. Group(d, h) \in GroupsOf(d)
        BY <4>1 DEF GroupsOf
      <4>3. Group(d, h).hour = h
        BY DEF Group
      <4>. QED BY <3>2, <4>2, <4>3
    <3>. HIDE DEF At
    <3>5. class \in [R -> DOMAIN f]
      BY <3>4
    <3>6. \A g \in DOMAIN f : f[g] = Cardinality({r \in R : class[r] = g})
      <4>1. Group(d, h).mi = Cardinality(R)
        BY DEF Group, Count
      <4>. HIDE DEF R
      <4>2. \A g \in DOMAIN f : f[g] = Cardinality(R)
        BY <3>3, <4>1
      <4>3. \A g \in DOMAIN f : {r \in R : class[r] = g} = R
        BY <3>3
      <4>. QED BY <4>2, <4>3
    <3>7. Total(f) = Cardinality(R)
      <4>. HIDE DEF R, f, class
      <4>. QED BY <3>1, <3>5, <3>6, SumOfClasses
    <3>. QED BY <3>7 DEF Count
  <2>8. users(d) = {r \in OnDay(d) : r.role = "user"}
    BY WithinIs DEF OnDay
  <2>. QED BY <2>1, <2>4, <2>5, <2>6, <2>7, <2>8 DEF DayOf
<1>. QED BY <1>1, <1>2

-----------------------------------------------------------------------------
(* The panels agree. *)

OfDay(R, d) == {r \in R : Day(r.at) = d}

LEMMA CountByDay ==
    ASSUME Typed, NEW start \in Int, NEW end \in Int, NEW R \in SUBSET Within(start, end),
           NEW f, DOMAIN f = start .. end,
           \A d \in start .. end : f[d] = Cardinality(OfDay(R, d))
    PROVE  Total(f) = Cardinality(R)
<1>. DEFINE class == [r \in R |-> Day(r.at)]
<1>1. IsFiniteSet(R)
  BY FS_Subset DEF Typed, Within
<1>2. class \in [R -> DOMAIN f]
  BY WithinIs
<1>3. \A d \in DOMAIN f : f[d] = Cardinality({r \in R : class[r] = d})
  BY DEF OfDay
<1>. HIDE DEF class
<1>. QED BY <1>1, <1>2, <1>3, SumOfClasses

\* What is counted on a day of a window.
LEMMA DayCounts ==
    ASSUME Typed, NEW start \in Int, NEW end \in Int, NEW d \in start .. end
    PROVE  LET rows == Within(start, end) IN
           /\ DayOf(d).messages_in  = Cardinality(OfDay(OfRole(rows, "user"), d))
           /\ DayOf(d).messages_out = Cardinality(OfDay(OfRole(rows, "bot"), d))
           /\ DayOf(d).timed        = Cardinality(OfDay(TimedIn(rows), d))
<1>. DEFINE rows == Within(start, end)
<1>1. OnDay(d) = OfDay(rows, d)
  BY WithinIs DEF OnDay, OfDay
<1>2. /\ \A role : OfRole(OfDay(rows, d), role) = OfDay(OfRole(rows, role), d)
      /\ TimedIn(OfDay(rows, d)) = OfDay(TimedIn(rows), d)
  BY DEF OfRole, OfDay, TimedIn
<1>3. /\ DayOf(d).messages_in = Cardinality(OfRole(OnDay(d), "user"))
      /\ DayOf(d).messages_out = Cardinality(OfRole(OnDay(d), "bot"))
      /\ DayOf(d).timed = Cardinality(TimedIn(OnDay(d)))
  BY DEF DayOf, Count, OfRole
<1>. QED BY <1>1, <1>2, <1>3

LEMMA DaysAddUp ==
    ASSUME Typed, NEW start \in Int, NEW end \in Int
    PROVE  LET rows == Within(start, end)
               days == start .. end IN
           /\ Total([d \in days |-> DayOf(d).messages_in]) = Count(rows, "user")
           /\ Total([d \in days |-> DayOf(d).messages_out]) = Count(rows, "bot")
           /\ Total([d \in days |-> DayOf(d).timed]) = Cardinality(TimedIn(rows))
           /\ Total([d \in days |-> DayOf(d).messages_in + DayOf(d).messages_out])
                = Count(rows, "user") + Count(rows, "bot")
<1>. DEFINE rows == Within(start, end)
            days == start .. end
            In == OfRole(rows, "user")
            Out == OfRole(rows, "bot")
            Timed == TimedIn(rows)
            Both == In \cup Out
<1>1. /\ In \in SUBSET rows /\ Out \in SUBSET rows /\ Timed \in SUBSET rows
      /\ In \cap Out = {}
  BY DEF OfRole, TimedIn
<1>2. IsFiniteSet(In) /\ IsFiniteSet(Out)
  BY <1>1, FS_Subset DEF Typed, Within
<1>3. Count(rows, "user") = Cardinality(In) /\ Count(rows, "bot") = Cardinality(Out)
  BY DEF Count, OfRole
<1>4. \A d \in days : /\ DayOf(d).messages_in = Cardinality(OfDay(In, d))
                      /\ DayOf(d).messages_out = Cardinality(OfDay(Out, d))
                      /\ DayOf(d).timed = Cardinality(OfDay(Timed, d))
  BY DayCounts
<1>. HIDE DEF In, Out, Timed
<1>5. Total([d \in days |-> DayOf(d).messages_in]) = Cardinality(In)
  <2>. DEFINE f == [d \in days |-> DayOf(d).messages_in]
  <2>1. DOMAIN f = days /\ \A d \in days : f[d] = Cardinality(OfDay(In, d))
    BY <1>4
  <2>2. Total(f) = Cardinality(In)
    <3>. HIDE DEF f
    <3>. QED BY <1>1, <2>1, CountByDay
  <2>. QED BY <2>2
<1>6. Total([d \in days |-> DayOf(d).messages_out]) = Cardinality(Out)
  <2>. DEFINE f == [d \in days |-> DayOf(d).messages_out]
  <2>1. DOMAIN f = days /\ \A d \in days : f[d] = Cardinality(OfDay(Out, d))
    BY <1>4
  <2>2. Total(f) = Cardinality(Out)
    <3>. HIDE DEF f
    <3>. QED BY <1>1, <2>1, CountByDay
  <2>. QED BY <2>2
<1>7. Total([d \in days |-> DayOf(d).timed]) = Cardinality(Timed)
  <2>. DEFINE f == [d \in days |-> DayOf(d).timed]
  <2>1. DOMAIN f = days /\ \A d \in days : f[d] = Cardinality(OfDay(Timed, d))
    BY <1>4
  <2>2. Total(f) = Cardinality(Timed)
    <3>. HIDE DEF f
    <3>. QED BY <1>1, <2>1, CountByDay
  <2>. QED BY <2>2
<1>8. Total([d \in days |-> DayOf(d).messages_in + DayOf(d).messages_out])
        = Cardinality(In \cup Out)
  <2>. DEFINE f == [d \in days |-> DayOf(d).messages_in + DayOf(d).messages_out]
  <2>1. ASSUME NEW d \in days PROVE f[d] = Cardinality(OfDay(In \cup Out, d))
    <3>1. /\ OfDay(In \cup Out, d) = OfDay(In, d) \cup OfDay(Out, d)
          /\ OfDay(In, d) \cap OfDay(Out, d) = {}
          /\ OfDay(In, d) \in SUBSET In /\ OfDay(Out, d) \in SUBSET Out
      BY <1>1 DEF OfDay
    <3>2. IsFiniteSet(OfDay(In, d)) /\ IsFiniteSet(OfDay(Out, d))
      BY <1>2, <3>1, FS_Subset
    <3>3. Cardinality(OfDay(In \cup Out, d))
            = Cardinality(OfDay(In, d)) + Cardinality(OfDay(Out, d))
      BY <3>1, <3>2, TwoParts
    <3>. QED BY <1>4, <3>3
  <2>2. DOMAIN f = days /\ \A d \in days : f[d] = Cardinality(OfDay(Both, d))
    BY <2>1
  <2>3. Total(f) = Cardinality(Both)
    <3>1. Both \in SUBSET rows
      BY <1>1
    <3>. HIDE DEF f, Both
    <3>. QED BY <2>2, <3>1, CountByDay
  <2>. QED BY <2>3
<1>9. Cardinality(In \cup Out) = Cardinality(In) + Cardinality(Out)
  BY <1>1, <1>2, TwoParts
<1>. QED BY <1>3, <1>5, <1>6, <1>7, <1>8, <1>9 DEF Timed

\* Each timed answer is in one bucket.
LEMMA BucketsAddUp ==
    ASSUME Typed, NEW start, NEW end
    PROVE  Total(ResponseTimeBuckets(start, end)) = Cardinality(TimedIn(Within(start, end)))
<1>. DEFINE R == TimedIn(Within(start, end))
            f == ResponseTimeBuckets(start, end)
            class == [r \in R |-> Bucket(r.latency)]
<1>1. IsFiniteSet(R)
  <2>1. R \in SUBSET log
    BY DEF TimedIn, Within
  <2>. QED BY <2>1, FS_Subset DEF Typed
<1>2. class \in [R -> DOMAIN f]
  <2>1. DOMAIN f = {"<1s", "1-3s", "3-5s", "5-10s", ">10s"}
    BY DEF ResponseTimeBuckets
  <2>2. \A r \in R : r.latency \in Int
    <3>1. \A r \in R : r \in log
      BY DEF TimedIn, Within
    <3>2. \A r \in log : r.latency \in Latencies \cup {NoLatency}
      BY DEF Typed, Row
    <3>3. Latencies \cup {NoLatency} \subseteq Int
      BY WindowsAssumption DEF NoLatency
    <3>. QED BY <3>1, <3>2, <3>3
  <2>3. \A r \in R : Bucket(r.latency) \in DOMAIN f
    BY <2>1, <2>2 DEF Bucket
  <2>. QED BY <2>3
<1>3. \A k \in DOMAIN f : f[k] = Cardinality({r \in R : class[r] = k})
  <2>1. \A k : {r \in R : class[r] = k} = {r \in R : Bucket(r.latency) = k}
    OBVIOUS
  <2>2. \A k \in DOMAIN f : f[k] = Cardinality({r \in R : Bucket(r.latency) = k})
    BY DEF ResponseTimeBuckets
  <2>. QED BY <2>1, <2>2
<1>. HIDE DEF R, f, class
<1>4. Total(f) = Cardinality(R)
  BY <1>1, <1>2, <1>3, SumOfClasses
<1>. QED BY <1>4 DEF R, f

\* The hours of a day add up, and its users are those who wrote.
LEMMA HoursAddUp ==
    ASSUME Typed, NEW d \in Int
    PROVE  /\ Total(DayOf(d).hourly_in) = DayOf(d).messages_in
           /\ DayOf(d).unique_users <= DayOf(d).messages_in
           /\ DayOf(d).messages_in > 0 => DayOf(d).unique_users > 0
<1>. DEFINE R == OfRole(OnDay(d), "user")
            f == [h \in 0 .. HoursPerDay - 1 |-> Count(AtHour(d, h), "user")]
            hour == [r \in R |-> Hour(r.at)]
            chat == [r \in R |-> r.chat]
            chats == {r.chat : r \in R}
<1>1. R \in SUBSET log /\ IsFiniteSet(R)
  <2>1. R \in SUBSET log
    BY DEF OfRole, OnDay
  <2>. QED BY <2>1, FS_Subset DEF Typed
<1>2. /\ DayOf(d).messages_in = Cardinality(R)
      /\ DayOf(d).hourly_in = f
      /\ DayOf(d).unique_users = Cardinality(chats)
  BY DEF DayOf, Count, OfRole
<1>3. Total(f) = Cardinality(R)
  <2>1. hour \in [R -> DOMAIN f]
    BY <1>1, WithinIs
  <2>2. \A h \in DOMAIN f : f[h] = Cardinality(InHour(R, h))
    <3>. TAKE h \in DOMAIN f
    <3>1. f[h] = Count(InHour(OnDay(d), h), "user")
      BY DEF AtHour
    <3>2. Count(InHour(OnDay(d), h), "user") = Cardinality(InHour(R, h))
      BY HoursIs
    <3>. QED BY <3>1, <3>2
  <2>3. \A h \in DOMAIN f : f[h] = Cardinality({r \in R : hour[r] = h})
    <3>1. \A h : InHour(R, h) = {r \in R : hour[r] = h}
      BY DEF InHour
    <3>. QED BY <2>2, <3>1
  <2>. HIDE DEF f, R, hour
  <2>. QED BY <1>1, <2>1, <2>3, SumOfClasses
<1>4. IsFiniteSet(chats) /\ Cardinality(chats) <= Cardinality(R)
  <2>1. chat \in Surjection(R, chats)
    BY DEF Surjection
  <2>. HIDE DEF chat, chats, R
  <2>. QED BY <1>1, <2>1, FS_Surjection
<1>5. R # {} => chats # {}
  OBVIOUS
<1>. HIDE DEF R, chats
<1>6. /\ Cardinality(R) \in Nat /\ Cardinality(chats) \in Nat
      /\ Cardinality(R) = 0 <=> R = {}
      /\ Cardinality(chats) = 0 <=> chats = {}
  BY <1>1, <1>4, FS_EmptySet, FS_CardinalityType
<1>. QED BY <1>2, <1>3, <1>4, <1>5, <1>6

\* Two adjacent windows count the rows since the first began.
LEMMA WindowsMeet ==
    ASSUME Typed, Ordered, NEW n \in Nat \ {0}
    PROVE  Count(Within(Today - (n - 1), Today), "user")
             + Count(Within((Today - (n - 1)) - 1 - (n - 1), (Today - (n - 1)) - 1), "user")
             = Cardinality({r \in log : r.role = "user" /\ Today - Day(r.at) < 2 * n})
<1>. DEFINE start == Today - (n - 1)
            A == OfRole(Within(start, Today), "user")
            B == OfRole(Within(start - 1 - (n - 1), start - 1), "user")
<1>1. Today \in Int /\ start \in Int
  BY DayIs DEF Typed, Today
<1>2. \A r \in log : Day(r.at) \in Int /\ Day(r.at) <= Today
  <2>. TAKE r \in log
  <2>1. r.at \in Int /\ now \in Int /\ r.at <= now
    BY DEF Typed, Row, Ordered
  <2>2. Day(r.at) \in Int /\ Day(r.at) * HoursPerDay <= r.at
    BY <2>1, DayIs
  <2>3. Day(r.at) * HoursPerDay <= now
    <3>1. Day(r.at) * HoursPerDay \in Int
      BY <2>2, WindowsAssumption
    <3>. QED BY <2>1, <2>2, <3>1
  <2>. QED BY <2>1, <2>2, <2>3, DayIs DEF Today
<1>3. /\ Within(start, Today) = {r \in log : Day(r.at) \in start .. Today}
      /\ Within(start - 1 - (n - 1), start - 1)
           = {r \in log : Day(r.at) \in start - 1 - (n - 1) .. start - 1}
  <2>1. start - 1 - (n - 1) \in Int /\ start - 1 \in Int
    BY <1>1
  <2>. HIDE DEF start
  <2>. QED BY <1>1, <2>1, WithinIs
<1>4. A \cup B = {r \in log : r.role = "user" /\ Today - Day(r.at) < 2 * n}
  BY <1>1, <1>2, <1>3 DEF OfRole
<1>5. A \cap B = {}
  BY <1>1, <1>2, <1>3 DEF OfRole
<1>6. IsFiniteSet(A) /\ IsFiniteSet(B)
  <2>1. A \in SUBSET log /\ B \in SUBSET log
    BY DEF OfRole, Within
  <2>. QED BY <2>1, FS_Subset DEF Typed
<1>7. Cardinality(A \cup B) = Cardinality(A) + Cardinality(B)
  <2>. HIDE DEF A, B
  <2>. QED BY <1>5, <1>6, TwoParts
<1>8. /\ Count(Within(start, Today), "user") = Cardinality(A)
      /\ Count(Within(start - 1 - (n - 1), start - 1), "user") = Cardinality(B)
  BY DEF Count, OfRole
<1>. QED BY <1>4, <1>7, <1>8

-----------------------------------------------------------------------------
\* A row is only ever logged for a chat that has its conversations row, and an
\* answer alone carries a latency (repository.py, log_message).
THEOREM LogTypeCorrect == Spec => []TypeOK
<1>1. LogInv => TypeOK
  <2> SUFFICES ASSUME LogInv PROVE TypeOK
    OBVIOUS
  <2>1. Typed /\ Ensured /\ Ordered
    BY DEF LogInv
  <2>2. /\ now \in 0 .. MaxTime /\ nextId \in 1 .. MaxRows + 1
        /\ failures \in 0 .. MaxFailures
        /\ asking \subseteq Chats /\ parked \subseteq Chats
        /\ torn \subseteq Chats /\ purged \subseteq Nat
    BY <2>1, BoundsAssumption DEF Typed
  <2>3. \A r \in log :
          /\ r.id \in 1 .. nextId - 1 /\ conv[r.chat].exists
          /\ r.role \in {"user", "bot", "admin"}
          /\ r.at \in 0 .. now
          /\ r.latency \in Latencies \cup {NoLatency}
          /\ r.latency # NoLatency <=> r.role = "bot"
    <3> SUFFICES ASSUME NEW r \in log
                 PROVE  /\ r.id \in 1 .. nextId - 1 /\ conv[r.chat].exists
                        /\ r.role \in {"user", "bot", "admin"}
                        /\ r.at \in 0 .. now
                        /\ r.latency \in Latencies \cup {NoLatency}
                        /\ r.latency # NoLatency <=> r.role = "bot"
      OBVIOUS
    <3>1. /\ r.id \in Nat /\ r.at \in Nat /\ r.role \in Roles
          /\ r.latency \in Latencies \cup {NoLatency}
      BY <2>1 DEF Typed, Row
    <3>2. /\ 0 < r.id /\ r.id < nextId /\ r.at <= now /\ conv[r.chat].exists
          /\ r.latency # NoLatency <=> r.role = "bot"
      BY <2>1 DEF Ordered, Ensured
    <3>3. r.id \in 1 .. nextId - 1 /\ r.at \in 0 .. now
      BY <2>1, <3>1, <3>2 DEF Typed
    <3>. QED BY <3>1, <3>2, <3>3 DEF Roles
  <2>4. conv \in [Chats -> [exists : BOOLEAN, message_count : 0 .. MaxRows,
                            last : 0 .. MaxRows]]
    <3>1. ASSUME NEW c \in Chats
          PROVE  conv[c] \in [exists : BOOLEAN, message_count : 0 .. MaxRows,
                              last : 0 .. MaxRows]
      <4>1. conv[c] \in Columns
        BY <2>1 DEF Typed
      <4>2. conv[c].message_count \in 0 .. MaxRows /\ conv[c].last \in 0 .. MaxRows
        BY <2>1, <4>1, BoundsAssumption DEF Typed, Ensured, Columns
      <4>. QED BY <4>1, <4>2 DEF Columns
    <3>2. conv = [c \in Chats |-> conv[c]]
      BY <2>1 DEF Typed
    <3>. QED BY <3>1, <3>2
  <2>. QED BY <2>2, <2>3, <2>4 DEF TypeOK
<1>. QED BY LogInit, LogStep, <1>1, PTL DEF Spec

\* list_chats shows a chat under the newest of its user messages, and one
\* without any not at all, whatever is logged, cleared, purged and cut
\* (repository.py: log_message, clear_history, clear_all_chats, purge_expired).
THEOREM PreviewsFollowTheLog == Spec => []PreviewMatchesLog
<1>1. LogInv => PreviewMatchesLog
  <2> SUFFICES ASSUME LogInv, NEW c \in Chats \ torn
               PROVE  IF UserIds(c) # {} THEN conv[c].last = Max(UserIds(c))
                      ELSE c \in Listed => conv[c].last \in purged
    BY DEF PreviewMatchesLog, UserIds
  <2>1. Previewed(c)
    BY DEF LogInv, PreviewInv
  <2>2. CASE UserIds(c) = {}
    BY <2>1, <2>2 DEF Previewed, Listed
  <2>3. CASE UserIds(c) # {}
    <3>1. /\ conv[c].last \in UserIds(c)
          /\ \A i \in UserIds(c) : i <= conv[c].last
      BY <2>1, <2>3 DEF Previewed
    <3>2. UserIds(c) \subseteq Nat
      BY DEF LogInv, Typed, Row, UserIds, RowsOf
    <3>3. \A m \in UserIds(c) :
            (\A i \in UserIds(c) : m >= i) => m = conv[c].last
      BY <3>1, <3>2
    <3>4. \A i \in UserIds(c) : conv[c].last >= i
      BY <3>1, <3>2
    <3>5. Max(UserIds(c)) = conv[c].last
      BY <3>1, <3>3, <3>4 DEF Max
    <3>. QED BY <2>3, <3>5
  <2>. QED BY <2>2, <2>3
<1>. QED BY LogInit, LogStep, <1>1, PTL DEF Spec

\* message_count never falls behind the rows of its chat by more than the calls
\* that were cut (repository.py, log_message and log_admin_message).
THEOREM RowsAreCounted == Spec => []CountsEveryRow
<1>1. LogInv => CountsEveryRow
  BY DEF LogInv
<1>. QED BY LogInit, LogStep, <1>1, PTL DEF Spec

\* analytics.py: whatever the log holds, the days add up to the totals of their
\* window and to the export, the hours to their day, the buckets to the timed
\* answers, and the two windows of get_performance meet.
THEOREM PanelsAlwaysAgree == Spec => []PanelsAgree
<1>1. LogInv => PanelsAgree
  <2>. SUFFICES ASSUME Typed, Ordered PROVE PanelsAgree
    BY DEF LogInv
  <2>1. Today \in Int
    BY DayIs DEF Typed, Today
  <2>2. GetRealtime.today = DayOf(Today)
    <3>1. DailyRows(Today, Today)[Today] = DayOf(Today)
      BY <2>1, DailyIs
    <3>. QED BY <3>1 DEF GetRealtime
  <2>3. GetRealtime.today.messages_in <= GetRealtime.total_in
    <3>1. OfRole(OnDay(Today), "user") \in SUBSET OfRole(log, "user")
      BY DEF OfRole, OnDay
    <3>2. IsFiniteSet(OfRole(log, "user"))
      BY FS_Subset DEF Typed, OfRole
    <3>3. Cardinality(OfRole(OnDay(Today), "user")) <= Cardinality(OfRole(log, "user"))
      BY <3>1, <3>2, FS_Subset
    <3>4. DayOf(Today).messages_in = Cardinality(OfRole(OnDay(Today), "user"))
      BY HoursIs DEF DayOf
    <3>5. GetRealtime.total_in = Cardinality(OfRole(log, "user"))
      BY HoursIs DEF GetRealtime
    <3>. QED BY <2>2, <3>3, <3>4, <3>5
  <2>4. ASSUME NEW n \in Windows
        PROVE  LET a == GetAnalytics(n)
                   p == GetPerformance(n).totals
                   q == GetPerformance(n).prev_totals
                   x == ExportAnalytics(n) IN
               /\ Total([d \in DOMAIN a.daily |-> a.daily[d].messages_in]) = p.mi
               /\ Total([d \in DOMAIN a.daily |-> a.daily[d].messages_out]) = p.mo
               /\ p.mi + q.mi = Cardinality({r \in log : /\ r.role = "user"
                                                         /\ Today - Day(r.at) < 2 * n})
               /\ Total([d \in DOMAIN x |-> x[d].messages]) = p.mi + p.mo
               /\ Total([d \in DOMAIN a.daily |-> a.daily[d].timed]) = Total(a.response_times)
               /\ a.daily[Today] = GetRealtime.today
               /\ \A d \in DOMAIN a.daily :
                    /\ Total(a.daily[d].hourly_in) = a.daily[d].messages_in
                    /\ a.daily[d].unique_users <= a.daily[d].messages_in
                    /\ a.daily[d].messages_in > 0 => a.daily[d].unique_users > 0
    <3>. DEFINE start == Today - (n - 1)
                days == start .. Today
                rows == Within(start, Today)
                a == GetAnalytics(n)
                p == GetPerformance(n).totals
                q == GetPerformance(n).prev_totals
                x == ExportAnalytics(n)
    <3>1. n \in Nat \ {0} /\ start \in Int /\ Today \in days
      BY <2>1, WindowsAssumption
    <3>2. DailyRows(start, Today) = [d \in days |-> DayOf(d)]
      BY <2>1, <3>1, DailyIs
    <3>3. /\ a.daily = [d \in days |-> DayOf(d)]
          /\ a.response_times = ResponseTimeBuckets(start, Today)
      BY <3>2 DEF GetAnalytics
    <3>4. p.mi = Count(rows, "user") /\ p.mo = Count(rows, "bot")
      BY DEF GetPerformance, WindowTotals
    <3>5. p.mi + q.mi = Cardinality({r \in log : r.role = "user" /\ Today - Day(r.at) < 2 * n})
      <4>1. q.mi = Count(Within((Today - (n - 1)) - 1 - (n - 1), (Today - (n - 1)) - 1), "user")
        BY DEF GetPerformance, WindowTotals
      <4>. QED BY <3>1, <3>4, <4>1, WindowsMeet
    <3>6. /\ DOMAIN x = days
          /\ \A d \in days : x[d].messages = DayOf(d).messages_in + DayOf(d).messages_out
      BY <3>2 DEF ExportAnalytics
    <3>. HIDE DEF a, p, q, x, start
    <3>7. /\ Total([d \in days |-> DayOf(d).messages_in]) = Count(rows, "user")
          /\ Total([d \in days |-> DayOf(d).messages_out]) = Count(rows, "bot")
          /\ Total([d \in days |-> DayOf(d).timed]) = Cardinality(TimedIn(rows))
          /\ Total([d \in days |-> DayOf(d).messages_in + DayOf(d).messages_out])
               = Count(rows, "user") + Count(rows, "bot")
      BY <2>1, <3>1, DaysAddUp
    <3>8. /\ [d \in DOMAIN a.daily |-> a.daily[d].messages_in]
               = [d \in days |-> DayOf(d).messages_in]
          /\ [d \in DOMAIN a.daily |-> a.daily[d].messages_out]
               = [d \in days |-> DayOf(d).messages_out]
          /\ [d \in DOMAIN a.daily |-> a.daily[d].timed] = [d \in days |-> DayOf(d).timed]
          /\ [d \in DOMAIN x |-> x[d].messages]
               = [d \in days |-> DayOf(d).messages_in + DayOf(d).messages_out]
      BY <3>3, <3>6
    <3>9. Total(a.response_times) = Cardinality(TimedIn(rows))
      BY <3>3, BucketsAddUp
    <3>10. a.daily[Today] = GetRealtime.today
      BY <2>2, <3>1, <3>3
    <3>11. ASSUME NEW d \in DOMAIN a.daily
           PROVE  /\ Total(a.daily[d].hourly_in) = a.daily[d].messages_in
                  /\ a.daily[d].unique_users <= a.daily[d].messages_in
                  /\ a.daily[d].messages_in > 0 => a.daily[d].unique_users > 0
      <4>1. a.daily[d] = DayOf(d) /\ d \in Int
        BY <3>3
      <4>. QED BY <4>1, HoursAddUp
    <3>. QED BY <3>4, <3>5, <3>7, <3>8, <3>9, <3>10, <3>11 DEF a, p, q, x
  <2>. QED BY <2>3, <2>4 DEF PanelsAgree
<1>. QED BY LogInit, LogStep, <1>1, PTL DEF Spec
=============================================================================
