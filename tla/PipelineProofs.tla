--------------------------- MODULE PipelineProofs ---------------------------
(***************************************************************************)
(* Theorems about Pipeline, for every value of its constants: types and    *)
(* pinning; that it forgets nothing (what _inflight, the queues and the    *)
(* inbox table know of a pending row, and the drain); that a row is queued *)
(* or held once, and started MaxAttempts times at most, as long as no      *)
(* sweep enqueues it while submit_raw still has it or from a list_pending  *)
(* result it has outlived; and that the messages of a chat are started in  *)
(* their order.                                                            *)
(***************************************************************************)
EXTENDS Pipeline, SequenceTheorems, FiniteSetTheorems, TLAPS

-----------------------------------------------------------------------------
(* Types. *)

\* A worker that is not idle has a row.
Busy(s) == worker[s].pc \notin {"idle", "exited"}
BusyHasRow == \A s \in Shards : Busy(s) => worker[s].row \in Rows

TypeInv == TypeOK /\ BusyHasRow

\* The parts of TypeInv that most actions leave alone, or change one at a time.
InboxTyped   == inbox \in [Rows -> Row]
QueuesTyped  == /\ queue \in [Shards -> Seq(Items)]
                /\ \A s \in Shards : Len(queue[s]) <= QueueMax
WorkersTyped == worker \in [Shards -> Worker] /\ BusyHasRow
ParkedTyped  == parked \in [Chats -> Seq(Rows)]
AnswersTyped == answers \in [Events -> 0 .. 2]
SetsTyped    == /\ nextRow \in 1 .. MaxRows + 1
                /\ restarts \in 0 .. MaxRestarts
                /\ phase \in {"down", "up", "draining"}
                /\ inflight \subseteq Rows /\ intake \subseteq Rows
                /\ snapshot \subseteq Rows /\ batch \subseteq Rows
                /\ timer \subseteq Chats
                /\ excused \subseteq Rows /\ raced \subseteq Rows
                /\ unrecorded \subseteq Rows

LEMMA ItemTypes ==
    /\ \A r \in Rows : Job(r) \in Items
    /\ \A c \in Chats : Flush(c) \in Items
    /\ Stop \in Items
    /\ \A i \in Items : i.kind = "job" => i.row \in Rows
    /\ \A i \in Items : i.kind = "flush" => i.chat \in Chats
BY DEF Items, Job, Flush, Stop

LEMMA RowTypes ==
    ASSUME InboxTyped, NEW r, NEW st \in Statuses, SetStatus(r, st)
    PROVE  InboxTyped'
BY DEF InboxTyped, SetStatus, Row

\* An item put on a queue that is not full keeps the queues typed and bounded.
LEMMA PutTypes ==
    ASSUME QueuesTyped, NEW s, s \in Shards => Len(queue[s]) < QueueMax,
           NEW i \in Items, Put(s, i)
    PROVE  QueuesTyped'
<1>. USE DEF QueuesTyped, Put
<1>1. \A q \in Seq(Items) : /\ Append(q, i) \in Seq(Items)
                            /\ Len(Append(q, i)) = Len(q) + 1
                            /\ Len(q) \in Nat
  BY AppendProperties, LenProperties
<1>2. CASE s \in Shards
  <2>1. \A t \in Shards : queue'[t] = IF t = s THEN Append(queue[s], i) ELSE queue[t]
    BY <1>2
  <2>2. queue' \in [Shards -> Seq(Items)]
    BY <1>1, <1>2
  <2>. QED BY <1>1, <1>2, <2>1, <2>2, QueueMaxAssumption
<1>3. CASE s \notin Shards
  BY <1>3
<1>. QED BY <1>2, <1>3

\* Taking the oldest item does, too.
LEMMA TailTypes ==
    ASSUME QueuesTyped, NEW s \in Shards, queue[s] # <<>>,
           queue' = [queue EXCEPT ![s] = Tail(@)]
    PROVE  QueuesTyped' /\ Head(queue[s]) \in Items
<1>. USE DEF QueuesTyped
<1>1. /\ Tail(queue[s]) \in Seq(Items)
      /\ Len(Tail(queue[s])) = Len(queue[s]) - 1
      /\ Head(queue[s]) \in Items
      /\ Len(queue[s]) \in Nat
  BY HeadTailProperties, LenProperties
<1>2. \A t \in Shards : queue'[t] = IF t = s THEN Tail(queue[s]) ELSE queue[t]
  OBVIOUS
<1>. QED BY <1>1, <1>2, QueueMaxAssumption

\* A worker that gets a new record, or moves on with the row it has.
LEMMA WorkerTypes ==
    ASSUME WorkersTyped, NEW s \in Shards, NEW w \in Worker,
           w.pc \notin {"idle", "exited"} => w.row \in Rows,
           worker' = [worker EXCEPT ![s] = w]
    PROVE  WorkersTyped'
BY DEF WorkersTyped, BusyHasRow, Busy

LEMMA GotoTypes ==
    ASSUME WorkersTyped, NEW s \in Shards, NEW pc \in WorkerPc,
           Busy(s) \/ pc = "exited", Goto(s, pc)
    PROVE  WorkersTyped'
BY DEF WorkersTyped, BusyHasRow, Busy, Goto, Worker

LEMMA IdleTypes ==
    /\ Idle \in Worker /\ Idle.pc = "idle"
    /\ \A r \in Rows : JobAt("taken", r) \in Worker /\ JobAt("taken", r).row = r
BY DEF Idle, JobAt, Worker, WorkerPc

LEMMA JobOverTypes ==
    ASSUME WorkersTyped, inflight \subseteq Rows, NEW s \in Shards, JobOver(s)
    PROVE  WorkersTyped' /\ inflight' \subseteq Rows
BY WorkerTypes, IdleTypes DEF JobOver

\* Every status recovery may give is a status.
LEMMA RecoveredType ==
    ASSUME InboxTyped, NEW r \in Rows
    PROVE  Recovered(r) \in Statuses
BY DEF InboxTyped, Recovered, Row, Statuses, Finished

LEMMA TypeInit == Init => TypeInv
<1> SUFFICES ASSUME Init PROVE TypeInv
  OBVIOUS
<1>. USE DEF Init
<1>1. FreeRow \in Row
  <2>1. NewRow(NoEvent) \in Row
    BY DEF NewRow, Row, Statuses
  <2>2. "none" \in Statuses
    BY DEF Statuses
  <2>. QED BY <2>1, <2>2 DEF FreeRow, Row
<1>2. Idle \in Worker /\ Idle.pc = "idle"
  BY DEF Idle, Worker, WorkerPc
<1>3. <<>> \in Seq(Items) /\ <<>> \in Seq(Rows) /\ Len(<<>>) = 0
  BY EmptySeq
<1>4. TypeOK
  <2>1. inbox \in [Rows -> Row] /\ nextRow \in 1 .. MaxRows + 1
    BY <1>1, MaxRowsAssumption
  <2>2. /\ restarts \in 0 .. MaxRestarts
        /\ answers \in [Events -> 0 .. 2]
    BY MaxRestartsAssumption
  <2>3. /\ queue \in [Shards -> Seq(Items)]
        /\ \A s \in Shards : Len(queue[s]) <= QueueMax
        /\ parked \in [Chats -> Seq(Rows)]
    BY <1>3, QueueMaxAssumption
  <2>. QED BY <1>2, <2>1, <2>2, <2>3 DEF TypeOK
<1>. QED BY <1>2, <1>4 DEF TypeInv, BusyHasRow, Busy

LEMMA AnsweredTypes ==
    ASSUME AnswersTyped, NEW rows, Answered(rows)
    PROVE  AnswersTyped'
BY DEF AnswersTyped, Answered

LEMMA TypeParts ==
    /\ TypeInv <=> /\ InboxTyped /\ QueuesTyped /\ WorkersTyped
                   /\ ParkedTyped /\ AnswersTyped /\ SetsTyped
    /\ TypeInv' <=> /\ InboxTyped' /\ QueuesTyped' /\ WorkersTyped'
                    /\ ParkedTyped' /\ AnswersTyped' /\ SetsTyped'
BY DEF TypeInv, TypeOK, InboxTyped, QueuesTyped, WorkersTyped, ParkedTyped,
       AnswersTyped, SetsTyped

\* What the busy states of a worker are.
LEMMA BusyAt ==
    \A s \in Shards : \A pc \in WorkerPc \ {"idle", "exited"} :
        At(s, pc) => Busy(s)
BY DEF At, Busy

LEMMA AnswerOutTypes ==
    ASSUME WorkersTyped, NEW s \in Shards
    PROVE  AnswerOut(s) \subseteq Rows
BY DEF WorkersTyped, AnswerOut, Worker

LEMMA EnqueueTypes ==
    ASSUME QueuesTyped, SetsTyped, NEW r \in Rows, Enqueue(r)
    PROVE  QueuesTyped' /\ inflight' \subseteq Rows /\ excused' \subseteq Rows
<1>1. Job(r) \in Items
  BY ItemTypes
<1>2. StillInIntake(r) \subseteq Rows
  BY DEF StillInIntake, SetsTyped
<1>. QED BY <1>1, <1>2, PutTypes DEF Enqueue, SetsTyped, QueuesTyped

LEMMA TypeStep == TypeInv /\ [Next]_vars => TypeInv'
<1> SUFFICES ASSUME TypeInv, [Next]_vars PROVE TypeInv'
  OBVIOUS
<1>a. /\ InboxTyped /\ QueuesTyped /\ WorkersTyped
      /\ ParkedTyped /\ AnswersTyped /\ SetsTyped
  BY TypeParts
\* A part whose variables a step leaves alone keeps its types.
<1>b. /\ UNCHANGED inbox => InboxTyped'
      /\ UNCHANGED queue => QueuesTyped'
      /\ UNCHANGED worker => WorkersTyped'
      /\ UNCHANGED parked => ParkedTyped'
      /\ UNCHANGED answers => AnswersTyped'
  BY <1>a DEF InboxTyped, QueuesTyped, WorkersTyped, BusyHasRow, Busy,
              ParkedTyped, AnswersTyped
<1>. USE DEF durable, media, history
<1>1. ASSUME NEW e \in Events, Claim(e) PROVE TypeInv'
  <2>1. NewRow(e) \in Row
    BY DEF NewRow, Row, Statuses
  <2>2. InboxTyped'
    BY <1>1, <1>a, <2>1 DEF Claim, InboxTyped
  <2>3. SetsTyped'
    BY <1>1, <1>a, MaxRowsAssumption DEF Claim, SetsTyped, Rows
  <2>. QED BY <1>1, <1>b, <2>2, <2>3, TypeParts DEF Claim
<1>2. ASSUME NEW r \in Rows, EnqueueClaimed(r) PROVE TypeInv'
  <2>1. QueuesTyped' /\ SetsTyped'
    BY <1>2, <1>a, EnqueueTypes DEF EnqueueClaimed, SetsTyped
  <2>. QED BY <1>2, <1>b, <2>1, TypeParts DEF EnqueueClaimed
<1>3. ASSUME NEW r \in Rows, RowAges(r) PROVE TypeInv'
  <2>1. inbox[r].age + 1 \in 0 .. 2
    BY <1>3, <1>a, MaxAgeAssumption DEF RowAges, InboxTyped, Row
  <2>2. InboxTyped'
    BY <1>3, <1>a, <2>1 DEF RowAges, InboxTyped, Row
  <2>3. SetsTyped'
    BY <1>3, <1>a DEF RowAges, SetsTyped
  <2>. QED BY <1>3, <1>b, <2>2, <2>3, TypeParts DEF RowAges
<1>4. ASSUME NEW c \in Chats, TimerFires(c) PROVE TypeInv'
  <2>1. QueuesTyped'
    BY <1>4, <1>a, <1>b, PutTypes, ItemTypes DEF TimerFires
  <2>2. SetsTyped'
    BY <1>4, <1>a DEF TimerFires, SetsTyped
  <2>. QED BY <1>4, <1>b, <2>1, <2>2, TypeParts DEF TimerFires
<1>5. CASE SweepReads \/ SweepResumes
  <2>1. SetsTyped'
    BY <1>5, <1>a DEF SweepReads, SweepResumes, SetsTyped
  <2>. QED BY <1>5, <1>b, <2>1, TypeParts DEF SweepReads, SweepResumes
<1>7. CASE EnqueueNext
  <2>1. PICK r \in batch :
          /\ batch' = batch \ {r}
          /\ \/ r \in inflight /\ UNCHANGED <<queue, inflight, excused, raced>>
             \/ Enqueue(r) /\ raced' \in {raced, raced \cup {r}}
    BY <1>7 DEF EnqueueNext
  <2>2. r \in Rows
    BY <1>a DEF SetsTyped
  <2>3. QueuesTyped' /\ SetsTyped'
    BY <1>7, <1>a, <1>b, <2>1, <2>2, EnqueueTypes DEF EnqueueNext, SetsTyped
  <2>. QED BY <1>7, <1>b, <2>3, TypeParts DEF EnqueueNext
<1>8. CASE Purge
  <2>1. InboxTyped'
    BY <1>8, <1>a DEF Purge, InboxTyped, Row, Statuses
  <2>2. SetsTyped'
    BY <1>8, <1>a DEF Purge, SetsTyped
  <2>. QED BY <1>8, <1>b, <2>1, <2>2, TypeParts DEF Purge
<1>9. ASSUME NEW s \in Shards, TakeJob(s) PROVE TypeInv'
  <2>1. QueuesTyped' /\ Head(queue[s]).row \in Rows
    BY <1>9, <1>a, TailTypes, ItemTypes DEF TakeJob
  <2>2. WorkersTyped'
    BY <1>9, <1>a, <2>1, WorkerTypes, IdleTypes DEF TakeJob
  <2>3. SetsTyped'
    BY <1>9, <1>a DEF TakeJob, SetsTyped
  <2>. QED BY <1>9, <1>b, <2>1, <2>2, <2>3, TypeParts DEF TakeJob
<1>10. ASSUME NEW s \in Shards, TakeFlush(s) PROVE TypeInv'
  <2>. DEFINE c    == Head(queue[s]).chat
              rows == parked[c]
              w    == [pc |-> "flushing", row |-> rows[Len(rows)],
                       files |-> {rows[i] : i \in 1 .. Len(rows)}]
  <2>1. QueuesTyped' /\ c \in Chats
    BY <1>10, <1>a, TailTypes, ItemTypes DEF TakeFlush
  <2>2. rows \in Seq(Rows) /\ <<>> \in Seq(Rows)
    BY <1>a, <2>1, EmptySeq DEF ParkedTyped
  <2>3. ASSUME rows = <<>> PROVE WorkersTyped'
    BY <1>10, <1>b, <2>3 DEF TakeFlush
  <2>4. ASSUME rows # <<>> PROVE WorkersTyped'
    <3>1. Len(rows) \in 1 .. Len(rows) /\ \A i \in 1 .. Len(rows) : rows[i] \in Rows
      BY <2>2, <2>4, LenProperties, ElementOfSeq, EmptySeq
    <3>2. w \in Worker /\ w.row \in Rows
      BY <3>1 DEF Worker, WorkerPc
    <3>3. worker' = [worker EXCEPT ![s] = w]
      BY <1>10, <2>4 DEF TakeFlush
    <3>. QED BY <1>a, <3>2, <3>3, WorkerTypes
  <2>5. ParkedTyped'
    BY <1>10, <1>a, <2>1, <2>2 DEF TakeFlush, ParkedTyped
  <2>6. SetsTyped'
    BY <1>10, <1>a DEF TakeFlush, SetsTyped
  <2>7. InboxTyped' /\ AnswersTyped'
    BY <1>10, <1>b DEF TakeFlush
  <2>. QED BY <2>1, <2>3, <2>4, <2>5, <2>6, <2>7, TypeParts
<1>11. ASSUME NEW s \in Shards, WorkerExits(s) PROVE TypeInv'
  <2>1. QueuesTyped'
    BY <1>11, <1>a, TailTypes DEF WorkerExits
  <2>2. WorkersTyped'
    BY <1>11, <1>a, GotoTypes DEF WorkerExits, WorkerPc
  <2>3. SetsTyped'
    BY <1>11, <1>a DEF WorkerExits, SetsTyped
  <2>. QED BY <1>11, <1>b, <2>1, <2>2, <2>3, TypeParts DEF WorkerExits
<1>12. ASSUME NEW s \in Shards, JobMissing(s) PROVE TypeInv'
  <2>1. WorkersTyped' /\ SetsTyped'
    BY <1>12, <1>a, JobOverTypes DEF JobMissing, SetsTyped
  <2>. QED BY <1>12, <1>b, <2>1, TypeParts DEF JobMissing
<1>13. ASSUME NEW s \in Shards, MarkProcessing(s) PROVE TypeInv'
  <2>. DEFINE r == worker[s].row
              n == inbox[r].attempts + 1
  <2>1. InboxTyped'
    <3>1. Live(r) /\ r \in Rows
      BY <1>13, <1>a DEF MarkProcessing, At, WorkersTyped, BusyHasRow, Busy
    <3>2. inbox[r] \in Row
      BY <1>a, <3>1 DEF InboxTyped
    <3>3. n \in Nat /\ "processing" \in Statuses
      BY <3>2 DEF Row, Statuses
    <3>4. [inbox[r] EXCEPT !.status = "processing", !.attempts = n] \in Row
      BY <3>2, <3>3 DEF Row
    <3>5. inbox' = [inbox EXCEPT ![r] = [inbox[r] EXCEPT
                      !.status = "processing", !.attempts = n]]
      BY <1>13, <1>a, <3>1, <3>2 DEF MarkProcessing, InboxTyped, Row
    <3>. QED BY <1>a, <3>4, <3>5 DEF InboxTyped
  <2>2. WorkersTyped'
    BY <1>13, <1>a, GotoTypes, BusyAt DEF MarkProcessing, WorkerPc
  <2>3. SetsTyped'
    BY <1>13, <1>a DEF MarkProcessing, SetsTyped
  <2>. QED BY <1>13, <1>b, <2>1, <2>2, <2>3, TypeParts DEF MarkProcessing
<1>14. ASSUME NEW s \in Shards, HandlerSends(s) PROVE TypeInv'
  <2>1. WorkersTyped'
    BY <1>14, <1>a, GotoTypes, BusyAt DEF HandlerSends, WorkerPc
  <2>2. AnswersTyped' /\ SetsTyped'
    BY <1>14, <1>a, AnsweredTypes DEF HandlerSends, SetsTyped
  <2>. QED BY <1>14, <1>b, <2>1, <2>2, TypeParts DEF HandlerSends
<1>15. ASSUME NEW s \in Shards, MarkReplySent(s) PROVE TypeInv'
  <2>1. InboxTyped'
    BY <1>15, <1>a DEF MarkReplySent, InboxTyped, Row
  <2>2. WorkersTyped'
    BY <1>15, <1>a, GotoTypes, BusyAt, WorkerTypes, IdleTypes
    DEF MarkReplySent, WorkerPc
  <2>3. SetsTyped'
    BY <1>15, <1>a, AnswerOutTypes DEF MarkReplySent, SetsTyped
  <2>. QED BY <1>15, <1>b, <2>1, <2>2, <2>3, TypeParts DEF MarkReplySent
<1>16. ASSUME NEW s \in Shards, DeliveryFails(s) PROVE TypeInv'
  <2>1. InboxTyped'
    BY <1>16, <1>a, <1>b, RowTypes
    DEF DeliveryFails, MarkDeliveryFailed, Statuses, Finished
  <2>2. WorkersTyped'
    BY <1>16, <1>a, GotoTypes, BusyAt, WorkerTypes, IdleTypes
    DEF DeliveryFails, WorkerPc
  <2>3. SetsTyped'
    BY <1>16, <1>a DEF DeliveryFails, SetsTyped
  <2>. QED BY <1>16, <1>b, <2>1, <2>2, <2>3, TypeParts DEF DeliveryFails
<1>17. ASSUME NEW s \in Shards, HandlerParks(s) PROVE TypeInv'
  <2>1. worker[s].row \in Rows
    BY <1>17, <1>a DEF HandlerParks, At, WorkersTyped, BusyHasRow, Busy
  <2>2. ChatOf(worker[s].row) \in Chats
    BY <1>17, MediaAssumption, ChatAssumption DEF HandlerParks, ChatOf
  <2>3. ParkedTyped'
    BY <1>17, <1>a, <2>1, <2>2, AppendProperties DEF HandlerParks, ParkedTyped
  <2>4. WorkersTyped'
    BY <1>17, <1>a, GotoTypes, BusyAt DEF HandlerParks, WorkerPc
  <2>5. SetsTyped'
    BY <1>17, <1>a, <2>2 DEF HandlerParks, SetsTyped
  <2>. QED BY <1>17, <1>b, <2>3, <2>4, <2>5, TypeParts DEF HandlerParks
<1>18. ASSUME NEW s \in Shards, JobDone(s) PROVE TypeInv'
  <2>1. InboxTyped'
    BY <1>18, <1>a, <1>b, RowTypes DEF JobDone, Statuses, Finished
  <2>2. WorkersTyped' /\ SetsTyped'
    BY <1>18, <1>a, JobOverTypes DEF JobDone, SetsTyped
  <2>. QED BY <1>18, <1>b, <2>1, <2>2, TypeParts DEF JobDone
<1>19. ASSUME NEW s \in Shards, JobFails(s) PROVE TypeInv'
  <2>. DEFINE r == worker[s].row
  <2>1. PICK apologised \in BOOLEAN :
          inbox' = IF Live(r) THEN [inbox EXCEPT ![r].status = "failed",
                                                ![r].replied = @ \/ apologised]
                              ELSE inbox
    BY <1>19 DEF JobFails
  <2>2. InboxTyped'
    <3>1. r \in Rows
      BY <1>19, <1>a DEF JobFails, InHandler, At, WorkersTyped, BusyHasRow, Busy
    <3>2. inbox[r] \in Row
      BY <1>a, <3>1 DEF InboxTyped
    <3>3. (inbox[r].replied \/ apologised) \in BOOLEAN
      OBVIOUS
    <3>4. [inbox[r] EXCEPT !.status = "failed", !.replied = @ \/ apologised]
            \in Row
      BY <3>2, <3>3 DEF Row, Statuses, Finished
    <3>5. \/ inbox' = [inbox EXCEPT ![r] = [inbox[r] EXCEPT
                         !.status = "failed", !.replied = @ \/ apologised]]
          \/ inbox' = inbox
      BY <1>a, <2>1, <3>1 DEF InboxTyped
    <3>. QED BY <1>a, <1>b, <3>4, <3>5 DEF InboxTyped
  <2>3. WorkersTyped' /\ SetsTyped'
    BY <1>19, <1>a, JobOverTypes DEF JobFails, SetsTyped
  <2>. QED BY <1>19, <1>b, <2>2, <2>3, TypeParts DEF JobFails
<1>20. ASSUME NEW s \in Shards, DbError(s) PROVE TypeInv'
  <2>1. Busy(s)
    BY <1>20 DEF DbError, InHandler, At, Busy
  <2>2. worker[s].row \in Rows
    BY <1>a, <2>1 DEF WorkersTyped, BusyHasRow
  <2>3. WorkersTyped' /\ SetsTyped'
    BY <1>20, <1>a, <2>2, JobOverTypes, AnswerOutTypes DEF DbError, SetsTyped
  <2>. QED BY <1>20, <1>b, <2>3, TypeParts DEF DbError
<1>21. ASSUME NEW s \in Shards, FlushSends(s) PROVE TypeInv'
  <2>1. WorkersTyped'
    BY <1>21, <1>a, GotoTypes, BusyAt DEF FlushSends, WorkerPc
  <2>2. AnswersTyped' /\ SetsTyped'
    BY <1>21, <1>a, AnsweredTypes DEF FlushSends, SetsTyped
  <2>. QED BY <1>21, <1>b, <2>1, <2>2, TypeParts DEF FlushSends
<1>22. ASSUME NEW s \in Shards, FlushRaises(s) PROVE TypeInv'
  <2>1. WorkersTyped' /\ SetsTyped'
    BY <1>22, <1>a, WorkerTypes, IdleTypes, AnswerOutTypes
    DEF FlushRaises, SetsTyped
  <2>. QED BY <1>22, <1>b, <2>1, TypeParts DEF FlushRaises
<1>23. CASE BeginDrain
  <2>1. /\ \A s \in Shards : queue'[s] = Append(queue[s], Stop)
        /\ queue' = [s \in Shards |-> Append(queue[s], Stop)]
    BY <1>23 DEF BeginDrain
  <2>2. \A q \in Seq(Items) : /\ Append(q, Stop) \in Seq(Items)
                              /\ Len(Append(q, Stop)) = Len(q) + 1
                              /\ Len(q) \in Nat
    BY ItemTypes, AppendProperties, LenProperties
  <2>3. \A s \in Shards : Len(queue[s]) < QueueMax
    BY <1>23 DEF BeginDrain
  <2>4. QueuesTyped'
    BY <1>a, <2>1, <2>2, <2>3, QueueMaxAssumption DEF QueuesTyped
  <2>5. ParkedTyped'
    BY <1>23, EmptySeq DEF BeginDrain, ParkedTyped
  <2>6. SetsTyped'
    BY <1>23, <1>a DEF BeginDrain, SetsTyped
  <2>. QED BY <1>23, <1>b, <2>4, <2>5, <2>6, TypeParts DEF BeginDrain
<1>24. ASSUME ProcessGone PROVE TypeInv'
  <2>1. QueuesTyped'
    BY <1>24, EmptySeq, QueueMaxAssumption DEF ProcessGone, QueuesTyped
  <2>2. WorkersTyped'
    BY <1>24, IdleTypes DEF ProcessGone, WorkersTyped, BusyHasRow, Busy
  <2>3. ParkedTyped'
    BY <1>24, EmptySeq DEF ProcessGone, ParkedTyped
  <2>4. UNION {AnswerOut(s) : s \in Shards} \subseteq Rows
    BY <1>a, AnswerOutTypes
  <2>5. SetsTyped'
    BY <1>24, <1>a, <2>4, MaxRestartsAssumption DEF ProcessGone, SetsTyped
  <2>. QED BY <1>24, <1>b, <2>1, <2>2, <2>3, <2>5, TypeParts DEF ProcessGone
<1>25. CASE Boot
  <2>1. InboxTyped'
    BY <1>25, <1>a, RecoveredType DEF Boot, InboxTyped, Row
  <2>2. SetsTyped'
    BY <1>25, <1>a DEF Boot, SetsTyped
  <2>. QED BY <1>25, <1>b, <2>1, <2>2, TypeParts DEF Boot
<1>26. CASE UNCHANGED vars
  <2>1. SetsTyped'
    BY <1>26, <1>a DEF vars, SetsTyped
  <2>. QED BY <1>26, <1>b, <2>1, TypeParts DEF vars
<1>. QED
  BY <1>1, <1>2, <1>3, <1>4, <1>5, <1>7, <1>8, <1>9, <1>10, <1>11, <1>12,
     <1>13, <1>14, <1>15, <1>16, <1>17, <1>18, <1>19, <1>20, <1>21, <1>22,
     <1>23, <1>24, <1>25, <1>26
  DEF Next, Shutdown, StopRaises, DrainCompletes, GraceExpires, Crash,
      TakeItem, Progress, Handler

\* Every reachable state is well typed; in particular no queue ever holds more
\* than queue_max_size items, whatever intake, sweeps, timers and drain put.
THEOREM TypeCorrect == Spec => []TypeOK
<1>1. TypeInv => TypeOK
  BY DEF TypeInv
<1>. QED BY TypeInit, TypeStep, <1>1, PTL DEF Spec

-----------------------------------------------------------------------------
(* Shard pinning. *)

\* Which actions change what: every other one leaves it alone.
LEMMA InboxFrame ==
    ASSUME [Next]_vars
    PROVE  \/ UNCHANGED <<inbox, nextRow>>
           \/ \E e \in Events : Claim(e)
           \/ \E r \in Rows : RowAges(r)
           \/ Purge \/ Boot
           \/ \E s \in Shards :
                \/ MarkProcessing(s) \/ MarkReplySent(s) \/ DeliveryFails(s)
                \/ JobDone(s) \/ JobFails(s)
<1>. USE DEF durable, media, history
<1>1. CASE UNCHANGED vars
  BY <1>1 DEF vars
<1>2. CASE Next
  <2>1. CASE Crash \/ Shutdown
    BY <2>1 DEF Crash, Shutdown, BeginDrain, StopRaises, DrainCompletes,
                GraceExpires, ProcessGone
  <2>2. CASE \E r \in Rows : EnqueueClaimed(r)
    BY <2>2 DEF EnqueueClaimed
  <2>3. CASE \E c \in Chats : TimerFires(c)
    BY <2>3 DEF TimerFires
  <2>4. CASE SweepReads \/ SweepResumes \/ EnqueueNext
    BY <2>4 DEF SweepReads, SweepResumes, EnqueueNext
  <2>5. ASSUME NEW s \in Shards,
               \/ TakeItem(s) \/ JobMissing(s) \/ HandlerSends(s)
               \/ HandlerParks(s) \/ FlushSends(s) \/ FlushRaises(s)
               \/ DbError(s)
        PROVE  UNCHANGED <<inbox, nextRow>>
    BY <2>5 DEF TakeItem, TakeJob, TakeFlush, WorkerExits, JobMissing,
                HandlerSends, HandlerParks, FlushSends, FlushRaises, DbError
  <2>. QED BY <1>2, <2>1, <2>2, <2>3, <2>4, <2>5 DEF Next, Progress, Handler
<1>. QED BY <1>1, <1>2

LEMMA QueueFrame ==
    ASSUME [Next]_vars
    PROVE  \/ UNCHANGED queue
           \/ \E r \in Rows : EnqueueClaimed(r)
           \/ \E c \in Chats : TimerFires(c)
           \/ EnqueueNext \/ BeginDrain \/ ProcessGone
           \/ \E s \in Shards : TakeItem(s)
<1>. USE DEF durable, media, history
<1>1. CASE UNCHANGED vars
  BY <1>1 DEF vars
<1>2. CASE Next
  <2>1. CASE Boot \/ Crash \/ Shutdown
    BY <2>1 DEF Boot, Crash, Shutdown, StopRaises, DrainCompletes, GraceExpires
  <2>2. CASE \E e \in Events : Claim(e)
    BY <2>2 DEF Claim
  <2>3. CASE \E r \in Rows : RowAges(r)
    BY <2>3 DEF RowAges
  <2>4. CASE SweepReads \/ SweepResumes \/ Purge
    BY <2>4 DEF SweepReads, SweepResumes, Purge
  <2>5. ASSUME NEW s \in Shards, Progress(s) \/ DbError(s)
        PROVE  UNCHANGED queue
    BY <2>5 DEF Progress, Handler, JobMissing, MarkProcessing, HandlerSends,
                MarkReplySent, DeliveryFails, HandlerParks, JobDone, JobFails,
                FlushSends, FlushRaises, DbError
  <2>. QED BY <1>2, <2>1, <2>2, <2>3, <2>4, <2>5 DEF Next
<1>. QED BY <1>1, <1>2

LEMMA WorkerFrame ==
    ASSUME [Next]_vars
    PROVE  \/ UNCHANGED worker
           \/ ProcessGone
           \/ \E s \in Shards : TakeItem(s) \/ Progress(s) \/ DbError(s)
<1>. USE DEF durable, media, history
<1>1. CASE UNCHANGED vars
  BY <1>1 DEF vars
<1>2. CASE Next
  <2>1. CASE Boot \/ Crash \/ Shutdown
    BY <2>1 DEF Boot, Crash, Shutdown, BeginDrain, StopRaises, DrainCompletes,
                GraceExpires
  <2>2. CASE \E e \in Events : Claim(e)
    BY <2>2 DEF Claim
  <2>3. CASE \E r \in Rows : EnqueueClaimed(r) \/ RowAges(r)
    BY <2>3 DEF EnqueueClaimed, RowAges
  <2>4. CASE \E c \in Chats : TimerFires(c)
    BY <2>4 DEF TimerFires
  <2>5. CASE SweepReads \/ SweepResumes \/ EnqueueNext \/ Purge
    BY <2>5 DEF SweepReads, SweepResumes, EnqueueNext, Purge
  <2>. QED BY <1>2, <2>1, <2>2, <2>3, <2>4, <2>5 DEF Next
<1>. QED BY <1>1, <1>2

LEMMA ParkedFrame ==
    ASSUME [Next]_vars
    PROVE  \/ UNCHANGED parked
           \/ BeginDrain \/ ProcessGone
           \/ \E s \in Shards : TakeFlush(s) \/ HandlerParks(s)
<1>. USE DEF durable, media, history
<1>1. CASE UNCHANGED vars
  BY <1>1 DEF vars
<1>2. CASE Next
  <2>1. CASE Boot \/ Crash \/ Shutdown
    BY <2>1 DEF Boot, Crash, Shutdown, StopRaises, DrainCompletes, GraceExpires
  <2>2. CASE \E e \in Events : Claim(e)
    BY <2>2 DEF Claim
  <2>3. CASE \E r \in Rows : EnqueueClaimed(r) \/ RowAges(r)
    BY <2>3 DEF EnqueueClaimed, RowAges
  <2>4. CASE \E c \in Chats : TimerFires(c)
    BY <2>4 DEF TimerFires
  <2>5. CASE SweepReads \/ SweepResumes \/ EnqueueNext \/ Purge
    BY <2>5 DEF SweepReads, SweepResumes, EnqueueNext, Purge
  <2>6. ASSUME NEW s \in Shards,
               \/ TakeJob(s) \/ WorkerExits(s) \/ JobMissing(s)
               \/ MarkProcessing(s) \/ HandlerSends(s) \/ MarkReplySent(s)
               \/ DeliveryFails(s) \/ JobDone(s) \/ JobFails(s)
               \/ FlushSends(s) \/ FlushRaises(s) \/ DbError(s)
        PROVE  UNCHANGED parked
    BY <2>6 DEF TakeJob, WorkerExits, JobMissing, MarkProcessing, HandlerSends,
                MarkReplySent, DeliveryFails, JobDone, JobFails, FlushSends,
                FlushRaises, DbError
  <2>. QED BY <1>2, <2>1, <2>2, <2>3, <2>4, <2>5, <2>6
           DEF Next, TakeItem, Progress, Handler
<1>. QED BY <1>1, <1>2

\* Rows on their way to a queue.
Tracked == intake \cup batch \cup snapshot

LEMMA TrackedFrame ==
    ASSUME [Next]_vars
    PROVE  \/ Tracked' \subseteq Tracked
           \/ \E e \in Events : Claim(e)
           \/ SweepReads \/ Boot
<1>. USE DEF durable, media, history, Tracked
<1>1. CASE UNCHANGED vars
  BY <1>1 DEF vars
<1>2. CASE Next
  <2>1. CASE Crash \/ Shutdown
    BY <2>1 DEF Crash, Shutdown, BeginDrain, StopRaises, DrainCompletes,
                GraceExpires, ProcessGone
  <2>2. CASE \E r \in Rows : EnqueueClaimed(r) \/ RowAges(r)
    BY <2>2 DEF EnqueueClaimed, RowAges
  <2>3. CASE \E c \in Chats : TimerFires(c)
    BY <2>3 DEF TimerFires
  <2>4. CASE SweepResumes \/ EnqueueNext \/ Purge
    BY <2>4 DEF SweepResumes, EnqueueNext, Purge
  <2>5. ASSUME NEW s \in Shards, TakeItem(s) \/ Progress(s) \/ DbError(s)
        PROVE  UNCHANGED <<intake, batch, snapshot>>
    BY <2>5 DEF TakeItem, TakeJob, TakeFlush, WorkerExits, Progress, Handler,
                JobMissing, MarkProcessing, HandlerSends, MarkReplySent,
                DeliveryFails, HandlerParks, JobDone, JobFails, FlushSends,
                FlushRaises, DbError
  <2>. QED BY <1>2, <2>1, <2>2, <2>3, <2>4, <2>5 DEF Next
<1>. QED BY <1>1, <1>2

\* A row id that has been used has an event, which it keeps.
Known(r) == inbox[r].event \in Events
RowsKnown ==
    \A r \in Rows : /\ r >= nextRow => ~Known(r)
                    /\ inbox[r].status # "none" => Known(r)
TrackedKnown == \A r \in Tracked : Known(r)

\* Everything queued, held or parked is where the chat of its row is pinned.
Queued(item, s) == \E i \in 1 .. Len(queue[s]) : queue[s][i] = item
QueuesHome ==
    \A s \in Shards :
        /\ \A r \in Rows : Queued(Job(r), s) => Known(r) /\ HomeShard(r) = s
        /\ \A c \in Chats : Queued(Flush(c), s) => ShardOf[c] = s
WorkersHome ==
    \A s \in Shards, r \in Rows :
        Busy(s) /\ worker[s].row = r => Known(r) /\ HomeShard(r) = s
Parked(r, c) == \E i \in 1 .. Len(parked[c]) : parked[c][i] = r
ParkedHome ==
    \A c \in Chats, r \in Rows : Parked(r, c) => Known(r) /\ ChatOf(r) = c

PinInv ==
    /\ TypeInv /\ RowsKnown /\ TrackedKnown
    /\ QueuesHome /\ WorkersHome /\ ParkedHome

LEMMA PinInit == Init => PinInv
<1> SUFFICES ASSUME Init PROVE PinInv
  OBVIOUS
<1>1. TypeInv
  BY TypeInit
<1>2. FreeRow.event = NoEvent /\ FreeRow.status = "none"
  BY DEF FreeRow, NewRow
<1>3. RowsKnown
  BY <1>2, EventAssumption DEF Init, RowsKnown, Known
<1>4. TrackedKnown
  BY DEF Init, TrackedKnown, Tracked
<1>5. \A i \in 1 .. Len(<<>>) : FALSE
  BY EmptySeq
<1>6. QueuesHome /\ ParkedHome
  BY <1>5 DEF Init, QueuesHome, ParkedHome, Queued, Parked
<1>7. WorkersHome
  BY IdleTypes DEF Init, WorkersHome, Busy
<1>. QED BY <1>1, <1>3, <1>4, <1>6, <1>7 DEF PinInv

\* Only Claim gives a row its event, and only a row that has none.
LEMMA EventsKept ==
    ASSUME PinInv, [Next]_vars
    PROVE  /\ RowsKnown'
           /\ \A r \in Rows : Known(r) => inbox'[r].event = inbox[r].event
<1>. USE DEF PinInv
<1>a. inbox \in [Rows -> Row] /\ InboxTyped
  BY TypeParts DEF InboxTyped
<1>1. ASSUME UNCHANGED nextRow,
             \A r \in Rows : inbox'[r].event = inbox[r].event,
             \A r \in Rows : inbox'[r].status # "none" =>
                               inbox[r].status # "none" \/ Known(r)
      PROVE  RowsKnown'
  BY <1>1 DEF RowsKnown, Known
<1>2. CASE UNCHANGED <<inbox, nextRow>>
  BY <1>2, <1>1
<1>3. ASSUME NEW e \in Events, Claim(e)
      PROVE  /\ RowsKnown'
             /\ \A r \in Rows : Known(r) => inbox'[r].event = inbox[r].event
  <2>1. nextRow \in Nat /\ nextRow' = nextRow + 1 /\ nextRow \in Rows
    BY <1>3, TypeParts, MaxRowsAssumption DEF Claim, SetsTyped, Rows
  <2>2. \A r \in Rows : inbox'[r] = IF r = nextRow THEN NewRow(e) ELSE inbox[r]
    BY <1>3, <1>a DEF Claim
  <2>3. NewRow(e).event = e
    BY DEF NewRow
  <2>4. ~Known(nextRow)
    BY <2>1 DEF RowsKnown
  <2>. QED BY <2>1, <2>2, <2>3, <2>4, MaxRowsAssumption DEF RowsKnown, Known, Rows
<1>4. ASSUME NEW r \in Rows, RowAges(r)
      PROVE  RowsKnown' /\ \A q \in Rows : inbox'[q].event = inbox[q].event
  BY <1>4, <1>1, <1>a DEF RowAges, Row, RowsKnown
<1>5. CASE Purge
  <2>1. \A r \in Rows : inbox[r] \in Row /\ inbox'[r].event = inbox[r].event
    BY <1>5, <1>a DEF Purge, Row
  <2>2. \A r \in Rows : inbox[r].status = "none" => inbox'[r] = inbox[r]
    BY <1>5 DEF Purge, Expired, Finished
  <2>. QED BY <1>5, <1>1, <2>1, <2>2 DEF Purge
<1>6. CASE Boot
  <2>1. \A r \in Rows : inbox'[r] = [inbox[r] EXCEPT !.status = Recovered(r)]
    BY <1>6 DEF Boot
  <2>2. \A r \in Rows : /\ inbox'[r].event = inbox[r].event
                        /\ inbox'[r].status = Recovered(r)
    BY <1>a, <2>1 DEF Row
  <2>3. \A r \in Rows : Recovered(r) # "none" => inbox[r].status # "none"
    BY DEF Recovered
  <2>. QED BY <1>6, <1>1, <2>2, <2>3 DEF Boot
<1>7. ASSUME NEW s \in Shards,
             \/ MarkProcessing(s) \/ MarkReplySent(s) \/ DeliveryFails(s)
             \/ JobDone(s) \/ JobFails(s)
      PROVE  RowsKnown' /\ \A q \in Rows : inbox'[q].event = inbox[q].event
  <2>1. Busy(s) => worker[s].row \in Rows /\ Known(worker[s].row)
    BY TypeParts DEF WorkersTyped, BusyHasRow, WorkersHome
  <2>2. Busy(s)
    BY <1>7, BusyAt DEF MarkProcessing, MarkReplySent, DeliveryFails, JobDone,
                        JobFails, InHandler, At, Busy
  <2>3. \A q \in Rows \ {worker[s].row} : inbox'[q] = inbox[q]
    BY <1>7, <1>a DEF MarkProcessing, MarkReplySent, DeliveryFails,
         MarkDeliveryFailed, JobDone, JobFails, SetStatus
  <2>4. UNCHANGED nextRow
    BY <1>7 DEF MarkProcessing, MarkReplySent, DeliveryFails, JobDone, JobFails
  <2>5. inbox'[worker[s].row].event = inbox[worker[s].row].event
    <3>1. inbox[worker[s].row] \in Row
      BY <1>a, <2>1, <2>2
    <3>2. CASE DeliveryFails(s) \/ JobDone(s)
      BY <1>a, <2>1, <2>2, <3>1, <3>2
      DEF DeliveryFails, MarkDeliveryFailed, JobDone, SetStatus, Row
    <3>3. CASE MarkProcessing(s) \/ MarkReplySent(s)
      BY <1>a, <2>1, <2>2, <3>1, <3>3 DEF MarkProcessing, MarkReplySent, Row
    <3>4. CASE JobFails(s)
      BY <1>a, <2>1, <2>2, <3>1, <3>4 DEF JobFails, Row
    <3>. QED BY <1>7, <3>2, <3>3, <3>4
  <2>. QED BY <1>1, <2>1, <2>2, <2>3, <2>4, <2>5
<1>. QED BY <1>2, <1>3, <1>4, <1>5, <1>6, <1>7, InboxFrame

\* So a row stays where it is pinned.
LEMMA PinKept ==
    ASSUME PinInv, [Next]_vars, NEW r \in Rows, Known(r)
    PROVE  Known(r)' /\ HomeShard(r)' = HomeShard(r) /\ ChatOf(r)' = ChatOf(r)
BY EventsKept DEF Known, HomeShard, ChatOf

LEMMA TrackedStep ==
    ASSUME PinInv, [Next]_vars
    PROVE  TrackedKnown'
<1>. USE DEF PinInv
<1>1. Tracked \subseteq Rows /\ inbox \in [Rows -> Row]
  BY TypeParts DEF Tracked, SetsTyped, InboxTyped
<1>2. CASE Tracked' \subseteq Tracked
  BY <1>1, <1>2, PinKept DEF TrackedKnown
<1>3. ASSUME NEW e \in Events, Claim(e) PROVE TrackedKnown'
  <2>1. Tracked' = Tracked \cup {nextRow} /\ nextRow \in Rows
    BY <1>3, TypeParts, MaxRowsAssumption DEF Claim, Tracked, SetsTyped, Rows
  <2>2. \A r \in Rows : r = nextRow => Known(r)'
    BY <1>1, <1>3 DEF Claim, NewRow, Known
  <2>. QED BY <1>1, <2>1, <2>2, PinKept DEF TrackedKnown
<1>4. CASE SweepReads
  <2>1. Tracked' \subseteq Tracked \cup {r \in Rows : Pending(r)}
    BY <1>4 DEF SweepReads, Tracked
  <2>2. \A r \in Rows : Pending(r) => Known(r)
    BY DEF Pending, RowsKnown
  <2>. QED BY <1>1, <2>1, <2>2, PinKept DEF TrackedKnown
<1>5. CASE Boot
  <2>1. Tracked' \subseteq Tracked \cup {r \in Rows : Recovered(r) = "pending"}
    BY <1>5 DEF Boot, Tracked, media, history
  <2>2. \A r \in Rows : Recovered(r) = "pending" => Known(r)
    BY DEF Recovered, RowsKnown
  <2>. QED BY <1>1, <2>1, <2>2, PinKept DEF TrackedKnown
<1>. QED BY <1>2, <1>3, <1>4, <1>5, TrackedFrame

\* What a queue may hold after Put, and after its oldest item is taken.
LEMMA QueuedPut ==
    ASSUME QueuesTyped, NEW s \in Shards, NEW item \in Items, Put(s, item),
           NEW x, NEW t \in Shards, Queued(x, t)'
    PROVE  Queued(x, t) \/ (x = item /\ t = s)
<1>1. queue[s] \in Seq(Items)
  BY DEF QueuesTyped
<1>2. queue'[t] = IF t = s THEN Append(queue[s], item) ELSE queue[t]
  BY DEF Put, QueuesTyped
<1>3. /\ Len(Append(queue[s], item)) = Len(queue[s]) + 1
      /\ Len(queue[s]) \in Nat
      /\ \A i \in 1 .. Len(queue[s]) : Append(queue[s], item)[i] = queue[s][i]
      /\ Append(queue[s], item)[Len(queue[s]) + 1] = item
  BY <1>1, AppendProperties, LenProperties
<1>. QED BY <1>2, <1>3 DEF Queued

LEMMA QueuedTail ==
    ASSUME QueuesTyped, NEW s \in Shards, queue[s] # <<>>,
           queue' = [queue EXCEPT ![s] = Tail(@)],
           NEW x, NEW t \in Shards
    PROVE  /\ Queued(x, t)' => Queued(x, t)
           /\ x = Head(queue[s]) => Queued(x, s)
<1>1. queue[s] \in Seq(Items)
  BY DEF QueuesTyped
<1>2. queue'[t] = IF t = s THEN Tail(queue[s]) ELSE queue[t]
  BY DEF QueuesTyped
<1>3. /\ Len(Tail(queue[s])) = Len(queue[s]) - 1
      /\ Len(queue[s]) \in Nat \ {0}
      /\ \A i \in 1 .. Len(Tail(queue[s])) : Tail(queue[s])[i] = queue[s][i + 1]
  BY <1>1, HeadTailProperties, EmptySeq
<1>4. Head(queue[s]) = queue[s][1]
  BY <1>1
<1>. QED BY <1>2, <1>3, <1>4 DEF Queued

LEMMA QueuesStep ==
    ASSUME PinInv, [Next]_vars
    PROVE  QueuesHome'
<1>. USE DEF PinInv
<1>a. /\ QueuesTyped /\ Tracked \subseteq Rows
      /\ \A r \in Tracked : Known(r) /\ HomeShard(r) \in Shards
  <2>1. QueuesTyped /\ Tracked \subseteq Rows
    BY TypeParts DEF SetsTyped, Tracked
  <2>. QED BY <2>1, ChatAssumption, ShardAssumption
           DEF TrackedKnown, Known, HomeShard, ChatOf
\* What was queued stays where it belongs; it is enough to look at what is new.
<1>b. ASSUME \A t \in Shards :
               /\ \A r \in Rows : Queued(Job(r), t)' =>
                    Queued(Job(r), t) \/ (Known(r) /\ HomeShard(r) = t)
               /\ \A c \in Chats : Queued(Flush(c), t)' =>
                    Queued(Flush(c), t) \/ ShardOf[c] = t
      PROVE  QueuesHome'
  BY <1>b, PinKept DEF QueuesHome
<1>1. CASE UNCHANGED queue
  BY <1>1, <1>b DEF Queued
<1>2. ASSUME NEW r \in Tracked, Enqueue(r)
      PROVE  QueuesHome'
  <2>1. CASE UNCHANGED queue
    BY <1>1, <2>1
  <2>2. CASE Put(HomeShard(r), Job(r))
    <3>1. \A t \in Shards : \A x : Queued(x, t)' =>
            Queued(x, t) \/ (x = Job(r) /\ t = HomeShard(r))
      BY <1>a, <2>2, QueuedPut, ItemTypes
    <3>2. \A q \in Rows : Job(q) = Job(r) => q = r
      BY DEF Job
    <3>3. \A c \in Chats : Flush(c) # Job(r)
      BY DEF Job, Flush
    <3>. QED BY <1>a, <1>b, <3>1, <3>2, <3>3
  <2>. QED BY <1>2, <2>1, <2>2 DEF Enqueue
<1>3. CASE (\E r \in Rows : EnqueueClaimed(r)) \/ EnqueueNext
  BY <1>1, <1>2, <1>3 DEF EnqueueClaimed, EnqueueNext, Tracked
<1>4. ASSUME NEW c \in Chats, TimerFires(c)
      PROVE  QueuesHome'
  <2>1. CASE UNCHANGED queue
    BY <1>1, <2>1
  <2>2. CASE Put(ShardOf[c], Flush(c))
    <3>1. ShardOf[c] \in Shards
      BY ShardAssumption
    <3>2. \A t \in Shards : \A x : Queued(x, t)' =>
            Queued(x, t) \/ (x = Flush(c) /\ t = ShardOf[c])
      BY <1>a, <2>2, <3>1, QueuedPut, ItemTypes
    <3>3. \A d \in Chats : Flush(d) = Flush(c) => d = c
      BY DEF Flush
    <3>4. \A q \in Rows : Job(q) # Flush(c)
      BY DEF Job, Flush
    <3>. QED BY <1>b, <3>2, <3>3, <3>4
  <2>. QED BY <1>4, <2>1, <2>2 DEF TimerFires
<1>5. CASE BeginDrain
  <2>1. ASSUME NEW t \in Shards, NEW x, x # Stop, Queued(x, t)'
        PROVE  Queued(x, t)
    <3>1. queue[t] \in Seq(Items) /\ queue'[t] = Append(queue[t], Stop)
      BY <1>5, <1>a DEF BeginDrain, QueuesTyped
    <3>2. /\ Len(Append(queue[t], Stop)) = Len(queue[t]) + 1
          /\ Len(queue[t]) \in Nat
          /\ \A i \in 1 .. Len(queue[t]) : Append(queue[t], Stop)[i] = queue[t][i]
          /\ Append(queue[t], Stop)[Len(queue[t]) + 1] = Stop
      BY <3>1, AppendProperties, LenProperties, ItemTypes
    <3>. QED BY <2>1, <3>1, <3>2 DEF Queued
  <2>2. (\A r \in Rows : Job(r) # Stop) /\ (\A c \in Chats : Flush(c) # Stop)
    BY DEF Job, Flush, Stop
  <2>. QED BY <1>b, <2>1, <2>2
<1>6. CASE ProcessGone
  <2>1. \A t \in Shards : Len(queue'[t]) = 0
    BY <1>6, EmptySeq DEF ProcessGone
  <2>. QED BY <1>b, <2>1 DEF Queued
<1>7. ASSUME NEW s \in Shards, TakeItem(s)
      PROVE  QueuesHome'
  <2>1. queue[s] # <<>> /\ queue' = [queue EXCEPT ![s] = Tail(@)]
    BY <1>7 DEF TakeItem, TakeJob, TakeFlush, WorkerExits
  <2>2. ASSUME NEW t \in Shards, NEW x, Queued(x, t)' PROVE Queued(x, t)
    BY <1>a, <2>1, <2>2, QueuedTail
  <2>. QED BY <1>b, <2>2
<1>. QED BY <1>1, <1>3, <1>4, <1>5, <1>6, <1>7, QueueFrame

\* The head of a queue, as a job or a flush.
LEMMA HeadItem ==
    ASSUME PinInv, NEW s \in Shards, queue[s] # <<>>
    PROVE  /\ Head(queue[s]).kind = "job" =>
                /\ Head(queue[s]).row \in Rows
                /\ Known(Head(queue[s]).row)
                /\ HomeShard(Head(queue[s]).row) = s
           /\ Head(queue[s]).kind = "flush" =>
                Head(queue[s]).chat \in Chats /\ ShardOf[Head(queue[s]).chat] = s
<1>. USE DEF PinInv
<1>1. queue[s] \in Seq(Items) /\ Head(queue[s]) \in Items
  BY TypeParts, HeadTailProperties DEF QueuesTyped
<1>2. Queued(Head(queue[s]), s)
  <2>1. Len(queue[s]) \in Nat \ {0} /\ Head(queue[s]) = queue[s][1]
    BY <1>1, EmptySeq
  <2>. QED BY <2>1 DEF Queued
<1>3. Head(queue[s]).kind = "job" =>
        Head(queue[s]).row \in Rows /\ Head(queue[s]) = Job(Head(queue[s]).row)
  BY <1>1 DEF Items, Job, Stop
<1>4. Head(queue[s]).kind = "flush" =>
        Head(queue[s]).chat \in Chats /\ Head(queue[s]) = Flush(Head(queue[s]).chat)
  BY <1>1 DEF Items, Flush, Stop
<1>. QED BY <1>2, <1>3, <1>4 DEF QueuesHome

LEMMA WorkersStep ==
    ASSUME PinInv, [Next]_vars
    PROVE  WorkersHome'
<1>. USE DEF PinInv
<1>a. WorkersTyped /\ worker \in [Shards -> Worker]
  BY TypeParts DEF WorkersTyped
\* It is enough to look at a worker that has got another row.
<1>b. ASSUME NEW s \in Shards,
             \A t \in Shards \ {s} : worker'[t] = worker[t],
             \A r \in Rows : Busy(s)' /\ worker'[s].row = r =>
               \/ Busy(s) /\ worker[s].row = r
               \/ Known(r) /\ HomeShard(r) = s
      PROVE  WorkersHome'
  BY <1>b, PinKept DEF WorkersHome, Busy
<1>1. CASE UNCHANGED worker
  BY <1>1, PinKept DEF WorkersHome, Busy
<1>2. CASE ProcessGone
  BY <1>2, IdleTypes DEF ProcessGone, WorkersHome, Busy
<1>3. ASSUME NEW s \in Shards, TakeJob(s)
      PROVE  WorkersHome'
  <2>1. worker' = [worker EXCEPT ![s] = JobAt("taken", Head(queue[s]).row)]
    BY <1>3 DEF TakeJob
  <2>2. Known(Head(queue[s]).row) /\ HomeShard(Head(queue[s]).row) = s
    BY <1>3, HeadItem DEF TakeJob
  <2>3. worker'[s].row = Head(queue[s]).row
    BY <1>a, <2>1 DEF JobAt
  <2>. QED BY <1>a, <1>b, <2>1, <2>2, <2>3
<1>4. ASSUME NEW s \in Shards, TakeFlush(s)
      PROVE  WorkersHome'
  <2>. DEFINE c    == Head(queue[s]).chat
              rows == parked[c]
  <2>1. c \in Chats /\ ShardOf[c] = s
    BY <1>4, HeadItem DEF TakeFlush
  <2>2. CASE rows = <<>>
    BY <1>1, <1>4, <2>2 DEF TakeFlush
  <2>3. CASE rows # <<>>
    <3>1. rows \in Seq(Rows)
      BY <2>1, TypeParts DEF ParkedTyped
    <3>2. Len(rows) \in 1 .. Len(rows) /\ rows[Len(rows)] \in Rows
      BY <2>3, <3>1, EmptySeq, ElementOfSeq
    <3>3. Parked(rows[Len(rows)], c)
      BY <3>2 DEF Parked
    <3>4. Known(rows[Len(rows)]) /\ HomeShard(rows[Len(rows)]) = s
      BY <2>1, <3>2, <3>3 DEF ParkedHome, HomeShard
    <3>5. worker' = [worker EXCEPT ![s] =
                       [pc |-> "flushing", row |-> rows[Len(rows)],
                        files |-> {rows[i] : i \in 1 .. Len(rows)}]]
      BY <1>4, <2>3 DEF TakeFlush
    <3>6. worker'[s].row = rows[Len(rows)]
      BY <1>a, <3>5
    <3>. QED BY <1>a, <1>b, <3>4, <3>5, <3>6
  <2>. QED BY <2>2, <2>3
<1>5. ASSUME NEW s \in Shards, WorkerExits(s) \/ Progress(s) \/ DbError(s)
      PROVE  WorkersHome'
  <2>1. \/ UNCHANGED worker
        \/ worker' = [worker EXCEPT ![s] = Idle]
        \/ worker' = [worker EXCEPT ![s].pc = "exited"]
        \/ Busy(s) /\ \E pc \in WorkerPc : worker' = [worker EXCEPT ![s].pc = pc]
    BY <1>5 DEF WorkerExits, Progress, Handler, DbError, JobMissing,
         MarkProcessing, HandlerSends, MarkReplySent, DeliveryFails,
         HandlerParks, JobDone, JobFails, FlushSends, FlushRaises, JobOver,
         Goto, At, Busy, WorkerPc
  <2>2. \A t \in Shards \ {s} : worker'[t] = worker[t]
    BY <1>a, <2>1
  <2>3. \A r \in Rows : Busy(s)' /\ worker'[s].row = r =>
          Busy(s) /\ worker[s].row = r
    BY <1>a, <2>1, IdleTypes DEF Busy, Worker
  <2>. QED BY <1>b, <2>2, <2>3
<1>. QED BY <1>1, <1>2, <1>3, <1>4, <1>5, WorkerFrame DEF TakeItem

LEMMA ParkedStep ==
    ASSUME PinInv, [Next]_vars
    PROVE  ParkedHome'
<1>. USE DEF PinInv
<1>a. parked \in [Chats -> Seq(Rows)]
  BY TypeParts DEF ParkedTyped
<1>b. ASSUME \A c \in Chats, r \in Rows : Parked(r, c)' =>
               Parked(r, c) \/ (Known(r) /\ ChatOf(r) = c)
      PROVE  ParkedHome'
  BY <1>b, PinKept DEF ParkedHome
<1>1. CASE UNCHANGED parked
  BY <1>1, <1>b DEF Parked
<1>2. CASE BeginDrain \/ ProcessGone
  <2>1. \A c \in Chats : Len(parked'[c]) = 0
    BY <1>2, EmptySeq DEF BeginDrain, ProcessGone
  <2>. QED BY <1>b, <2>1 DEF Parked
<1>3. ASSUME NEW s \in Shards, TakeFlush(s)
      PROVE  ParkedHome'
  <2>1. \A c \in Chats : parked'[c] = parked[c] \/ Len(parked'[c]) = 0
    BY <1>3, <1>a, EmptySeq DEF TakeFlush
  <2>. QED BY <1>b, <2>1 DEF Parked
<1>4. ASSUME NEW s \in Shards, HandlerParks(s)
      PROVE  ParkedHome'
  <2>. DEFINE q == worker[s].row
              d == ChatOf(q)
  <2>1. q \in Rows /\ Known(q)
    BY <1>4, TypeParts DEF HandlerParks, At, WorkersTyped, BusyHasRow, Busy,
                           WorkersHome
  <2>2. d \in Chats
    BY <2>1, ChatAssumption DEF Known, ChatOf
  <2>3. \A c \in Chats : parked'[c] = IF c = d THEN Append(parked[d], q)
                                              ELSE parked[c]
    BY <1>4, <1>a DEF HandlerParks
  <2>4. /\ Len(Append(parked[d], q)) = Len(parked[d]) + 1
        /\ Len(parked[d]) \in Nat
        /\ \A i \in 1 .. Len(parked[d]) : Append(parked[d], q)[i] = parked[d][i]
        /\ Append(parked[d], q)[Len(parked[d]) + 1] = q
    BY <1>a, <2>1, <2>2, AppendProperties, LenProperties
  <2>5. ASSUME NEW c \in Chats, NEW r \in Rows, Parked(r, c)'
        PROVE  Parked(r, c) \/ (r = q /\ c = d)
    <3>1. CASE c = d
      <4>1. PICK i \in 1 .. Len(parked'[c]) : parked'[c][i] = r
        BY <2>5 DEF Parked
      <4>2. parked'[c] = Append(parked[d], q)
        BY <2>3, <3>1
      <4>3. CASE i \in 1 .. Len(parked[d])
        BY <2>4, <3>1, <4>1, <4>2, <4>3 DEF Parked
      <4>4. CASE i = Len(parked[d]) + 1
        BY <2>4, <3>1, <4>1, <4>2, <4>4
      <4>. QED BY <2>4, <4>1, <4>2, <4>3, <4>4
    <3>2. CASE c # d
      BY <2>3, <2>5, <3>2 DEF Parked
    <3>. QED BY <3>1, <3>2
  <2>. QED BY <1>b, <2>1, <2>5
<1>. QED BY <1>1, <1>2, <1>3, <1>4, ParkedFrame

LEMMA PinStep == PinInv /\ [Next]_vars => PinInv'
BY TypeStep, EventsKept, TrackedStep, QueuesStep, WorkersStep, ParkedStep
DEF PinInv

\* No two workers ever serve the same chat at once, with any number of workers,
\* chats, crashes, sweeps and debounced batches.
THEOREM ShardPinning == Spec => []OneWorkerPerChat
<1>1. PinInv => OneWorkerPerChat
  <2> SUFFICES ASSUME PinInv, NEW s \in Shards, NEW t \in Shards, s # t
               PROVE  Serving(s) \cap Serving(t) = {}
    BY DEF OneWorkerPerChat
  <2>1. \A w \in Shards : Busy(w) => HomeShard(worker[w].row) = w
    BY TypeParts DEF PinInv, WorkersHome, WorkersTyped, BusyHasRow
  <2>2. \A w \in Shards : \A c \in Serving(w) : ShardOf[c] = w
    BY <2>1 DEF Serving, Busy, HomeShard
  <2>. QED BY <2>2
<1>. QED BY PinInit, PinStep, <1>1, PTL DEF Spec

-----------------------------------------------------------------------------
(* Queues, item by item. *)

\* An item that was queued stays queued when another is put, or the head of a
\* queue, if it is another, is taken.
LEMMA QueuedPutKept ==
    ASSUME QueuesTyped, NEW s \in Shards, NEW item \in Items, Put(s, item),
           NEW x, NEW t \in Shards, Queued(x, t) \/ (x = item /\ t = s)
    PROVE  Queued(x, t)'
<1>1. queue[s] \in Seq(Items)
  BY DEF QueuesTyped
<1>2. queue'[t] = IF t = s THEN Append(queue[s], item) ELSE queue[t]
  BY DEF Put, QueuesTyped
<1>3. /\ Len(Append(queue[s], item)) = Len(queue[s]) + 1
      /\ Len(queue[s]) \in Nat
      /\ \A i \in 1 .. Len(queue[s]) : Append(queue[s], item)[i] = queue[s][i]
      /\ Append(queue[s], item)[Len(queue[s]) + 1] = item
  BY <1>1, AppendProperties, LenProperties
<1>. QED BY <1>2, <1>3 DEF Queued

LEMMA QueuedTailKept ==
    ASSUME QueuesTyped, NEW s \in Shards, queue[s] # <<>>,
           queue' = [queue EXCEPT ![s] = Tail(@)],
           NEW x, x # Head(queue[s]), NEW t \in Shards, Queued(x, t)
    PROVE  Queued(x, t)'
<1>1. queue[s] \in Seq(Items)
  BY DEF QueuesTyped
<1>2. queue'[t] = IF t = s THEN Tail(queue[s]) ELSE queue[t]
  BY DEF QueuesTyped
<1>3. /\ Len(Tail(queue[s])) = Len(queue[s]) - 1
      /\ Len(queue[s]) \in Nat \ {0}
      /\ \A i \in 1 .. Len(Tail(queue[s])) : Tail(queue[s])[i] = queue[s][i + 1]
      /\ Head(queue[s]) = queue[s][1]
  BY <1>1, HeadTailProperties, EmptySeq
<1>4. PICK i \in 1 .. Len(queue[t]) : queue[t][i] = x
  BY DEF Queued
<1>5. CASE t = s
  <2>1. i - 1 \in 1 .. Len(Tail(queue[s])) /\ Tail(queue[s])[i - 1] = x
    BY <1>3, <1>4, <1>5
  <2>. QED BY <1>2, <1>5, <2>1 DEF Queued
<1>. QED BY <1>2, <1>4, <1>5 DEF Queued

\* A row waits when its job is queued, or a worker has just taken it.
Taken(r) == \E s \in Shards : worker[s].pc = "taken" /\ worker[s].row = r
WaitsIff ==
    QueuesTyped => \A r \in Rows :
        Waits(r) <=> (\E s \in Shards : Queued(Job(r), s)) \/ Taken(r)
LEMMA WaitsIf == WaitsIff
<1> SUFFICES ASSUME QueuesTyped, NEW r \in Rows
             PROVE  Waits(r) <=>
                      (\E s \in Shards : Queued(Job(r), s)) \/ Taken(r)
  BY DEF WaitsIff
<1>1. ASSUME NEW s \in Shards, Queued(Job(r), s)
      PROVE  Places(r) # {}
  <2>1. PICK i \in 1 .. Len(queue[s]) : queue[s][i] = Job(r)
    BY <1>1 DEF Queued
  <2>2. Len(queue[s]) \in Nat /\ Len(queue[s]) <= QueueMax
    BY LenProperties DEF QueuesTyped
  <2>3. <<s, i>> \in Places(r)
    BY <2>1, <2>2, QueueMaxAssumption DEF Places
  <2>. QED BY <2>3
<1>2. ASSUME NEW p \in Places(r)
      PROVE  \E s \in Shards : Queued(Job(r), s)
  <2>1. /\ p[1] \in Shards /\ p[2] \in 1 .. QueueMax
        /\ p[2] <= Len(queue[p[1]]) /\ queue[p[1]][p[2]] = Job(r)
    BY <1>2 DEF Places
  <2>2. Len(queue[p[1]]) \in Nat
    BY <2>1, LenProperties DEF QueuesTyped
  <2>. QED BY <2>1, <2>2, QueueMaxAssumption DEF Queued
<1>. QED BY <1>1, <1>2 DEF Waits, Taken

-----------------------------------------------------------------------------
(* No row is forgotten. *)

\* A process that is down has nothing in memory.
DownIdle ==
    phase = "down" => inflight = {} /\ \A s \in Shards : worker[s] = Idle

\* A row is not pending any more once its worker has marked it.
HeldNotPending ==
    \A s \in Shards, r \in Rows :
        worker[s].pc \in {"running", "sent", "settled"} /\ worker[s].row = r =>
            ~Pending(r)

\* The sweep may skip a row in _inflight: if it is pending, it waits.
InflightWaits == \A r \in inflight : Pending(r) => Waits(r)

InflightKnown == \A r \in inflight : Known(r)

ServiceInv ==
    /\ PinInv /\ DownIdle /\ HeldNotPending
    /\ InflightKnown /\ InflightWaits /\ NeverStranded

LEMMA ServiceInit == Init => ServiceInv
<1> SUFFICES ASSUME Init PROVE ServiceInv
  OBVIOUS
<1>1. PinInv
  BY PinInit
<1>2. DownIdle /\ HeldNotPending
  BY IdleTypes DEF Init, DownIdle, HeldNotPending
<1>3. InflightKnown /\ InflightWaits /\ NeverStranded
  BY DEF Init, InflightKnown, InflightWaits, NeverStranded
<1>. QED BY <1>1, <1>2, <1>3 DEF ServiceInv

\* Only a claim and recovery make a row pending.
LEMMA PendingFrame ==
    ASSUME PinInv, [Next]_vars, NEW r \in Rows, Pending(r)'
    PROVE  \/ Pending(r)
           \/ r = nextRow /\ \E e \in Events : Claim(e)
           \/ Boot
<1>. USE DEF Pending
<1>a. inbox \in [Rows -> Row]
  BY TypeParts DEF PinInv, InboxTyped
<1>1. ASSUME NEW e \in Events, Claim(e), r # nextRow PROVE Pending(r)
  BY <1>1, <1>a DEF Claim
<1>2. ASSUME NEW q \in Rows, RowAges(q) PROVE Pending(r)
  BY <1>2, <1>a DEF RowAges, Row
<1>3. CASE Purge
  BY <1>3, <1>a DEF Purge, Row
<1>4. ASSUME NEW s \in Shards, MarkProcessing(s) \/ MarkReplySent(s)
      PROVE  Pending(r)
  BY <1>4, <1>a DEF MarkProcessing, MarkReplySent, Row
<1>5. ASSUME NEW s \in Shards, DeliveryFails(s) \/ JobDone(s)
      PROVE  Pending(r)
  BY <1>5, <1>a DEF DeliveryFails, MarkDeliveryFailed, JobDone, SetStatus, Row
<1>6. ASSUME NEW s \in Shards, JobFails(s)
      PROVE  Pending(r)
  BY <1>6, <1>a DEF JobFails, Row
<1>. QED BY <1>1, <1>2, <1>3, <1>4, <1>5, <1>6, InboxFrame

\* A worker only ever moves while no sweep is in its loop, in a live process.
LEMMA DownStep ==
    ASSUME ServiceInv, [Next]_vars
    PROVE  DownIdle'
<1>. USE DEF ServiceInv, DownIdle, durable, media, history
<1>1. ASSUME phase' = "down", ~ProcessGone
      PROVE  phase = "down" /\ UNCHANGED <<inflight, worker>>
  <2>1. CASE UNCHANGED vars
    BY <1>1, <2>1 DEF vars
  <2>2. ASSUME NEW s \in Shards, TakeItem(s) \/ Progress(s) \/ DbError(s)
        PROVE  FALSE
    BY <1>1, <2>2 DEF TakeItem, TakeJob, TakeFlush, WorkerExits, Progress,
         Handler, JobMissing, MarkProcessing, HandlerSends, MarkReplySent,
         DeliveryFails, HandlerParks, JobDone, JobFails, FlushSends,
         FlushRaises, DbError, InHandler, At, LoopFree
  <2>3. CASE \/ \E e \in Events : Claim(e)
             \/ \E r \in Rows : EnqueueClaimed(r) \/ RowAges(r)
             \/ \E c \in Chats : TimerFires(c)
    BY <1>1, <2>3 DEF Claim, EnqueueClaimed, RowAges, TimerFires, LoopFree
  <2>4. CASE \/ SweepReads \/ SweepResumes \/ EnqueueNext \/ Purge
             \/ Boot \/ BeginDrain
    BY <1>1, <2>4 DEF SweepReads, SweepResumes, EnqueueNext, Purge, LoopFree,
                      Boot, BeginDrain
  <2>. QED BY <1>1, <2>1, <2>2, <2>3, <2>4
           DEF Next, Crash, Shutdown, StopRaises, DrainCompletes, GraceExpires
<1>2. ProcessGone => inflight' = {} /\ \A s \in Shards : worker'[s] = Idle
  BY DEF ProcessGone
<1>. QED BY <1>1, <1>2

\* A worker moves itself only.
LEMMA OtherWorkers ==
    ASSUME WorkersTyped, NEW s \in Shards, NEW t \in Shards, s # t,
           TakeItem(t) \/ Progress(t) \/ DbError(t)
    PROVE  worker'[s] = worker[s]
BY DEF WorkersTyped, TakeItem, TakeJob, TakeFlush, WorkerExits, Progress,
    Handler, JobMissing, MarkProcessing, HandlerSends, MarkReplySent,
    DeliveryFails, HandlerParks, JobDone, JobFails, FlushSends, FlushRaises,
    DbError, JobOver, Goto

\* Where a worker that holds a marked row comes from.
HeldPc == {"running", "sent", "settled"}
LEMMA HeldFrom ==
    ASSUME WorkersTyped, [Next]_vars, NEW s \in Shards,
           worker'[s].pc \in HeldPc
    PROVE  /\ worker'[s].row = worker[s].row
           /\ worker[s].pc \in HeldPc \/ MarkProcessing(s)
<1>. USE DEF HeldPc, WorkersTyped
<1>1. CASE UNCHANGED worker
  BY <1>1
<1>2. ~ProcessGone
  BY IdleTypes DEF ProcessGone
<1>3. ASSUME NEW t \in Shards, TakeItem(t) \/ Progress(t) \/ DbError(t), t # s
      PROVE  worker'[s] = worker[s]
  BY <1>3, OtherWorkers
<1>4. ASSUME worker' = [worker EXCEPT ![s] = Idle]
      PROVE  FALSE
  BY <1>4, IdleTypes
<1>5. ASSUME NEW pc \in WorkerPc, Goto(s, pc)
      PROVE  /\ worker'[s].row = worker[s].row
             /\ worker'[s].pc = pc
  <2>1. worker[s] \in Worker
    OBVIOUS
  <2>2. worker'[s] = [worker[s] EXCEPT !.pc = pc]
    BY <1>5 DEF Goto
  <2>. QED BY <2>1, <2>2 DEF Worker
<1>6. ASSUME TakeItem(s)
      PROVE  /\ worker'[s].row = worker[s].row
             /\ worker[s].pc \in HeldPc
  <2>1. CASE TakeJob(s)
    <3>1. worker'[s] = JobAt("taken", Head(queue[s]).row)
      BY <2>1 DEF TakeJob
    <3>. QED BY <3>1 DEF JobAt
  <2>2. CASE TakeFlush(s)
    <3>1. UNCHANGED worker \/ worker'[s].pc = "flushing"
      BY <2>2 DEF TakeFlush
    <3>. QED BY <1>1, <2>2, <3>1 DEF TakeFlush, At
  <2>3. CASE WorkerExits(s)
    BY <2>3, <1>5 DEF WorkerExits, WorkerPc
  <2>. QED BY <1>6, <2>1, <2>2, <2>3 DEF TakeItem
<1>7. ~(\/ JobMissing(s) \/ JobDone(s) \/ JobFails(s) \/ DbError(s)
        \/ FlushRaises(s))
  BY <1>4 DEF JobMissing, JobDone, JobFails, DbError, FlushRaises, JobOver
<1>8. ~FlushSends(s)
  BY <1>5 DEF FlushSends, WorkerPc
<1>9. CASE MarkProcessing(s)
  BY <1>5, <1>9 DEF MarkProcessing, WorkerPc
<1>10. CASE HandlerSends(s) \/ HandlerParks(s)
  BY <1>5, <1>10 DEF HandlerSends, HandlerParks, WorkerPc, At
<1>11. CASE MarkReplySent(s) \/ DeliveryFails(s)
  <2>1. Goto(s, "settled") /\ worker[s].pc \in HeldPc
    BY <1>4, <1>11 DEF MarkReplySent, DeliveryFails, At
  <2>. QED BY <1>5, <2>1 DEF WorkerPc
<1>. QED
  BY <1>1, <1>2, <1>3, <1>6, <1>7, <1>8, <1>9, <1>10, <1>11, WorkerFrame
     DEF Progress, Handler

LEMMA HeldStep ==
    ASSUME ServiceInv, [Next]_vars
    PROVE  HeldNotPending'
<1>. USE DEF ServiceInv, PinInv
<1>a. WorkersTyped /\ inbox \in [Rows -> Row]
  BY TypeParts DEF InboxTyped
<1> SUFFICES ASSUME NEW s \in Shards, NEW r \in Rows,
                    worker'[s].pc \in HeldPc, worker'[s].row = r, Pending(r)'
             PROVE  FALSE
  BY DEF HeldNotPending, HeldPc
<1>1. worker[s].row = r /\ (worker[s].pc \in HeldPc \/ MarkProcessing(s))
  BY <1>a, HeldFrom
<1>2. CASE MarkProcessing(s)
  <2>1. inbox'[r].status = "processing"
    BY <1>a, <1>1, <1>2 DEF MarkProcessing, Row
  <2>. QED BY <2>1 DEF Pending
<1>3. CASE worker[s].pc \in HeldPc
  <2>1. Busy(s) /\ worker[s] # Idle /\ ~Pending(r)
    BY <1>1, <1>3, IdleTypes DEF Busy, HeldPc, HeldNotPending
  <2>2. Known(r) /\ phase # "down"
    BY <1>1, <2>1 DEF WorkersHome, DownIdle
  <2>3. r # nextRow
    <3>1. r \in Nat /\ nextRow \in Nat
      BY TypeParts, MaxRowsAssumption DEF SetsTyped, Rows
    <3>. QED BY <2>2, <3>1 DEF RowsKnown
  <2>. QED BY <2>1, <2>2, <2>3, PendingFrame DEF Boot
<1>. QED BY <1>1, <1>2, <1>3

\* An item leaves its queue with its worker only, or with the process.
LEMMA QueuedStep ==
    ASSUME PinInv, [Next]_vars, NEW r \in Rows, NEW t \in Shards,
           Queued(Job(r), t)
    PROVE  Queued(Job(r), t)' \/ Taken(r)' \/ ProcessGone
<1>. USE DEF PinInv
<1>a. QueuesTyped /\ WorkersTyped
  BY TypeParts
<1>1. CASE UNCHANGED queue
  BY <1>1 DEF Queued
<1>2. ASSUME NEW q \in Rows, Known(q), Enqueue(q)
      PROVE  Queued(Job(r), t)'
  <2>1. HomeShard(q) \in Shards /\ Job(q) \in Items
    BY <1>2, ShardAssumption, ChatAssumption, ItemTypes
       DEF HomeShard, ChatOf, Known
  <2>2. CASE UNCHANGED queue
    BY <2>2 DEF Queued
  <2>3. CASE Put(HomeShard(q), Job(q))
    BY <1>a, <2>1, <2>3, QueuedPutKept
  <2>. QED BY <1>2, <2>2, <2>3 DEF Enqueue
<1>3. ASSUME NEW q \in Rows, EnqueueClaimed(q)
      PROVE  Queued(Job(r), t)'
  BY <1>2, <1>3 DEF EnqueueClaimed, TrackedKnown, Tracked
<1>4. CASE EnqueueNext
  <2>1. PICK q \in batch : UNCHANGED queue \/ Enqueue(q)
    BY <1>4 DEF EnqueueNext
  <2>2. q \in Rows /\ Known(q)
    BY TypeParts DEF SetsTyped, TrackedKnown, Tracked
  <2>. QED BY <1>1, <1>2, <2>1, <2>2
<1>5. ASSUME NEW c \in Chats, TimerFires(c)
      PROVE  Queued(Job(r), t)'
  <2>1. UNCHANGED queue \/ Put(ShardOf[c], Flush(c))
    BY <1>5 DEF TimerFires
  <2>2. ShardOf[c] \in Shards /\ Flush(c) \in Items
    BY ShardAssumption, ItemTypes
  <2>3. CASE UNCHANGED queue
    BY <2>3 DEF Queued
  <2>4. CASE Put(ShardOf[c], Flush(c))
    BY <1>a, <2>2, <2>4, QueuedPutKept
  <2>. QED BY <2>1, <2>3, <2>4
<1>6. CASE BeginDrain
  <2>1. queue[t] \in Seq(Items) /\ queue'[t] = Append(queue[t], Stop)
    BY <1>a, <1>6 DEF BeginDrain, QueuesTyped
  <2>2. /\ Len(queue[t]) \in Nat
        /\ Len(Append(queue[t], Stop)) = Len(queue[t]) + 1
        /\ \A i \in 1 .. Len(queue[t]) :
             Append(queue[t], Stop)[i] = queue[t][i]
    BY <2>1, ItemTypes, AppendProperties, LenProperties
  <2>. QED BY <2>1, <2>2 DEF Queued
<1>7. ASSUME NEW s \in Shards, TakeItem(s)
      PROVE  Queued(Job(r), t)' \/ Taken(r)'
  <2>1. queue[s] # <<>> /\ queue' = [queue EXCEPT ![s] = Tail(@)]
    BY <1>7 DEF TakeItem, TakeJob, TakeFlush, WorkerExits
  <2>2. CASE Job(r) # Head(queue[s])
    BY <1>a, <2>1, <2>2, QueuedTailKept
  <2>3. CASE Job(r) = Head(queue[s])
    <3>1. Head(queue[s]).kind = "job" /\ Head(queue[s]).row = r
      BY <2>3 DEF Job
    <3>2. worker'[s] = JobAt("taken", r)
      BY <1>a, <1>7, <3>1
         DEF TakeItem, TakeJob, TakeFlush, WorkerExits, WorkersTyped
    <3>. QED BY <3>2 DEF Taken, JobAt
  <2>. QED BY <2>2, <2>3
<1>. QED BY <1>1, <1>3, <1>4, <1>5, <1>6, <1>7, QueueFrame

\* A pending row that its worker has taken stays so until the worker marks it,
\* unless the process ends or a repository call of its worker raises.
LosesTurn(r) ==
    \E s \in Shards : /\ DbError(s)
                      /\ worker[s].pc = "taken" /\ worker[s].row = r
LEMMA TakenStep ==
    ASSUME PinInv, [Next]_vars, NEW r \in Rows, Taken(r), Pending(r), Pending(r)'
    PROVE  Taken(r)' \/ ProcessGone \/ LosesTurn(r)
<1>. USE DEF PinInv
<1>a. WorkersTyped /\ inbox \in [Rows -> Row]
  BY TypeParts DEF InboxTyped
<1>1. PICK s \in Shards : worker[s].pc = "taken" /\ worker[s].row = r
  BY DEF Taken
<1>2. CASE worker'[s] = worker[s]
  BY <1>1, <1>2 DEF Taken
<1>3. CASE TakeItem(s)
  BY <1>1, <1>3 DEF TakeItem, TakeJob, TakeFlush, WorkerExits, At
<1>4. CASE Progress(s)
  <2>1. JobMissing(s) \/ MarkProcessing(s)
    BY <1>1, <1>4 DEF Progress, Handler, HandlerSends, MarkReplySent,
         DeliveryFails, HandlerParks, JobDone, JobFails, FlushSends,
         FlushRaises, InHandler, At
  <2>2. ~JobMissing(s)
    BY <1>1 DEF JobMissing, Live, Pending
  <2>3. ~MarkProcessing(s)
    <3>1. MarkProcessing(s) => inbox'[r].status = "processing"
      BY <1>a, <1>1 DEF MarkProcessing, Row
    <3>. QED BY <3>1 DEF Pending
  <2>. QED BY <2>1, <2>2, <2>3
<1>5. CASE DbError(s)
  BY <1>1, <1>5 DEF LosesTurn
<1>. QED BY <1>a, <1>2, <1>3, <1>4, <1>5, OtherWorkers, WorkerFrame

\* A pending row that waits goes on waiting, with the same exceptions.
LEMMA WaitsStep ==
    ASSUME PinInv, [Next]_vars, NEW r \in Rows, Waits(r), Pending(r), Pending(r)'
    PROVE  Waits(r)' \/ ProcessGone \/ LosesTurn(r)
<1>. USE DEF PinInv
<1>a. QueuesTyped /\ QueuesTyped'
  <2>1. TypeInv'
    BY TypeStep
  <2>2. QueuesTyped'
    BY <2>1 DEF TypeInv, TypeOK, QueuesTyped
  <2>. QED BY <2>2, TypeParts
<1>b. WaitsIff'
  BY WaitsIf, PTL
<1>c. (\E t \in Shards : Queued(Job(r), t)') \/ Taken(r)' => Waits(r)'
  BY <1>a, <1>b DEF WaitsIff
<1>1. ASSUME NEW t \in Shards, Queued(Job(r), t)
      PROVE  Waits(r)' \/ ProcessGone
  BY <1>1, <1>c, QueuedStep
<1>2. CASE Taken(r)
  BY <1>2, <1>c, TakenStep
<1>. QED BY <1>a, <1>1, <1>2, WaitsIf DEF WaitsIff

\* What _enqueue does to its row.
LEMMA EnqueueWaits ==
    ASSUME PinInv, [Next]_vars, NEW r \in Rows, Known(r), Enqueue(r)
    PROVE  \/ phase = "up" /\ Waits(r)' /\ inflight' = inflight \cup {r}
           \/ phase # "up" /\ UNCHANGED inflight
           \/ phase = "up" /\ (Pending(r) => r \in excused') /\ UNCHANGED inflight
<1>. USE DEF PinInv
<1>a. QueuesTyped /\ QueuesTyped'
  <2>1. TypeInv'
    BY TypeStep
  <2>2. QueuesTyped'
    BY <2>1 DEF TypeInv, TypeOK, QueuesTyped
  <2>. QED BY <2>2, TypeParts
<1>1. HomeShard(r) \in Shards /\ Job(r) \in Items
  BY ShardAssumption, ChatAssumption, ItemTypes DEF HomeShard, ChatOf, Known
<1>2. ASSUME Put(HomeShard(r), Job(r))
      PROVE  Waits(r)'
  <2>1. \E s \in Shards : Queued(Job(r), s)'
    BY <1>a, <1>1, <1>2, QueuedPutKept
  <2>2. WaitsIff'
    BY WaitsIf, PTL
  <2>. QED BY <1>a, <2>1, <2>2 DEF WaitsIff
<1>. QED BY <1>2 DEF Enqueue

\* Only _enqueue adds to _inflight.
LEMMA InflightFrame ==
    ASSUME PinInv, [Next]_vars
    PROVE  \/ inflight' \subseteq inflight
           \/ \E q \in Rows : Known(q) /\ Enqueue(q)
<1>. USE DEF durable, media, history, PinInv
<1>1. CASE UNCHANGED vars
  BY <1>1 DEF vars
<1>2. CASE Boot \/ Crash \/ Shutdown
  BY <1>2 DEF Boot, Crash, Shutdown, BeginDrain, StopRaises, DrainCompletes,
              GraceExpires, ProcessGone
<1>3. ASSUME NEW e \in Events, Claim(e) PROVE UNCHANGED inflight
  BY <1>3 DEF Claim
<1>4. ASSUME NEW r \in Rows, RowAges(r) PROVE UNCHANGED inflight
  BY <1>4 DEF RowAges
<1>5. ASSUME NEW r \in Rows, EnqueueClaimed(r) PROVE Known(r) /\ Enqueue(r)
  BY <1>5 DEF EnqueueClaimed, TrackedKnown, Tracked
<1>6. ASSUME NEW c \in Chats, TimerFires(c) PROVE UNCHANGED inflight
  BY <1>6 DEF TimerFires
<1>7. CASE SweepReads \/ SweepResumes \/ Purge
  BY <1>7 DEF SweepReads, SweepResumes, Purge
<1>8. CASE EnqueueNext
  <2>1. PICK q \in batch : UNCHANGED inflight \/ Enqueue(q)
    BY <1>8 DEF EnqueueNext
  <2>2. q \in Rows /\ Known(q)
    BY TypeParts DEF SetsTyped, TrackedKnown, Tracked
  <2>. QED BY <2>1, <2>2
<1>9. ASSUME NEW s \in Shards, TakeItem(s) \/ Progress(s) \/ DbError(s)
      PROVE  inflight' \subseteq inflight
  BY <1>9 DEF TakeItem, TakeJob, TakeFlush, WorkerExits, Progress, Handler,
       JobMissing, MarkProcessing, HandlerSends, MarkReplySent, DeliveryFails,
       HandlerParks, JobDone, JobFails, FlushSends, FlushRaises, DbError,
       JobOver
<1>. QED BY <1>1, <1>2, <1>3, <1>4, <1>5, <1>6, <1>7, <1>8, <1>9 DEF Next

\* A row that joins _inflight waits.
LEMMA InflightJoins ==
    ASSUME PinInv, [Next]_vars, NEW r \in inflight', r \notin inflight
    PROVE  Known(r) /\ Waits(r)'
<1>1. PICK q \in Rows : Known(q) /\ Enqueue(q)
  BY InflightFrame
<1>2. inflight' \subseteq inflight \cup {q}
  BY <1>1 DEF Enqueue
<1>3. q = r
  BY <1>2
<1>. QED BY <1>1, <1>3, EnqueueWaits

LEMMA InflightStep ==
    ASSUME ServiceInv, [Next]_vars
    PROVE  InflightKnown' /\ InflightWaits'
<1>. USE DEF ServiceInv
<1>a. inflight \subseteq Rows /\ inflight' \subseteq Rows
  <2>1. TypeInv'
    BY TypeStep DEF PinInv
  <2>. QED BY <2>1, TypeParts DEF PinInv, SetsTyped, TypeInv, TypeOK
<1>1. InflightKnown'
  <2>1. ASSUME NEW r \in inflight'
        PROVE  Known(r)'
    <3>1. r \in Rows /\ Known(r)
      BY <1>a, InflightJoins DEF InflightKnown
    <3>. QED BY <3>1, PinKept
  <2>. QED BY <2>1 DEF InflightKnown
<1>2. ASSUME NEW r \in inflight', Pending(r)'
      PROVE  Waits(r)'
  <2>1. CASE r \notin inflight
    BY <2>1, InflightJoins
  <2>2. CASE r \in inflight
    <3>1. ~Boot
      BY <2>2 DEF DownIdle, Boot
    <3>2. r # nextRow
      <4>1. r \in Nat /\ nextRow \in Nat /\ Known(r)
        BY <1>a, <2>2, TypeParts, MaxRowsAssumption
           DEF PinInv, SetsTyped, Rows, InflightKnown
      <4>. QED BY <1>a, <4>1 DEF PinInv, RowsKnown
    <3>3. Pending(r) /\ Waits(r)
      BY <1>a, <1>2, <2>2, <3>1, <3>2, PendingFrame DEF InflightWaits
    <3>4. ~ProcessGone
      BY DEF ProcessGone
    <3>5. ~LosesTurn(r)
      BY DEF LosesTurn, DbError, JobOver
    <3>. QED BY <1>a, <1>2, <3>3, <3>4, <3>5, WaitsStep
  <2>. QED BY <2>1, <2>2
<1>. QED BY <1>1, <1>2 DEF InflightWaits

\* A row is handed on by submit_raw and the loops through _enqueue only; they
\* skip what is in _inflight.
LEMMA HandedOver ==
    ASSUME [Next]_vars, phase = "up", phase' = "up",
           NEW r \in intake \cup batch, r \notin intake' \cup batch'
    PROVE  Enqueue(r) \/ r \in inflight
<1>. USE DEF durable, media, history
<1>1. CASE UNCHANGED vars
  BY <1>1 DEF vars
<1>2. ~(Boot \/ ProcessGone \/ BeginDrain)
  BY DEF Boot, ProcessGone, BeginDrain
<1>3. ~(Crash \/ Shutdown)
  BY <1>2 DEF Crash, Shutdown, StopRaises, DrainCompletes, GraceExpires
<1>4. ASSUME NEW e \in Events, Claim(e) PROVE FALSE
  BY <1>4 DEF Claim
<1>5. ASSUME NEW q \in Rows, RowAges(q) PROVE FALSE
  BY <1>5 DEF RowAges
<1>6. ASSUME NEW q \in Rows, EnqueueClaimed(q) PROVE Enqueue(r)
  BY <1>6 DEF EnqueueClaimed
<1>7. ASSUME NEW c \in Chats, TimerFires(c) PROVE FALSE
  BY <1>7 DEF TimerFires
<1>8. ~(SweepReads \/ SweepResumes \/ Purge)
  BY DEF SweepReads, SweepResumes, Purge, LoopFree
<1>9. CASE EnqueueNext
  <2>1. PICK q \in batch : /\ batch' = batch \ {q} /\ UNCHANGED intake
                           /\ q \in inflight \/ Enqueue(q)
    BY <1>9 DEF EnqueueNext
  <2>. QED BY <2>1
<1>10. ASSUME NEW s \in Shards, TakeItem(s) \/ Progress(s) \/ DbError(s)
       PROVE  FALSE
  BY <1>10 DEF TakeItem, TakeJob, TakeFlush, WorkerExits, Progress, Handler,
       JobMissing, MarkProcessing, HandlerSends, MarkReplySent, DeliveryFails,
       HandlerParks, JobDone, JobFails, FlushSends, FlushRaises, DbError
<1>. QED
  BY <1>1, <1>2, <1>3, <1>4, <1>5, <1>6, <1>7, <1>8, <1>9, <1>10 DEF Next

\* Shutdown and startup are all that changes the phase.
LEMMA PhaseFrame ==
    ASSUME [Next]_vars
    PROVE  UNCHANGED phase \/ Boot \/ BeginDrain \/ ProcessGone
<1>. USE DEF durable, media, history
<1>1. CASE UNCHANGED vars
  BY <1>1 DEF vars
<1>2. CASE Boot \/ Crash \/ Shutdown
  BY <1>2 DEF Crash, Shutdown, StopRaises, DrainCompletes, GraceExpires
<1>3. ASSUME NEW e \in Events, Claim(e) PROVE UNCHANGED phase
  BY <1>3 DEF Claim
<1>4. ASSUME NEW q \in Rows, EnqueueClaimed(q) \/ RowAges(q)
      PROVE  UNCHANGED phase
  BY <1>4 DEF EnqueueClaimed, RowAges
<1>5. ASSUME NEW c \in Chats, TimerFires(c) PROVE UNCHANGED phase
  BY <1>5 DEF TimerFires
<1>6. CASE SweepReads \/ SweepResumes \/ EnqueueNext \/ Purge
  BY <1>6 DEF SweepReads, SweepResumes, EnqueueNext, Purge
<1>7. ASSUME NEW s \in Shards, TakeItem(s) \/ Progress(s) \/ DbError(s)
      PROVE  UNCHANGED phase
  BY <1>7 DEF TakeItem, TakeJob, TakeFlush, WorkerExits, Progress, Handler,
       JobMissing, MarkProcessing, HandlerSends, MarkReplySent, DeliveryFails,
       HandlerParks, JobDone, JobFails, FlushSends, FlushRaises, DbError
<1>. QED BY <1>1, <1>2, <1>3, <1>4, <1>5, <1>6, <1>7 DEF Next

\* A row that missed its turn stays excused until a worker marks it.
LEMMA ExcusedKept ==
    ASSUME PinInv, [Next]_vars, NEW r \in excused, Pending(r)', phase' # "down"
    PROVE  r \in excused'
<1>. USE DEF durable, media, history
<1>1. CASE UNCHANGED vars
  BY <1>1 DEF vars
<1>2. ~ProcessGone
  BY DEF ProcessGone
<1>3. CASE Boot \/ Crash \/ Shutdown
  BY <1>2, <1>3 DEF Boot, Crash, Shutdown, BeginDrain, StopRaises,
                    DrainCompletes, GraceExpires
<1>4. ASSUME NEW e \in Events, Claim(e) PROVE r \in excused'
  BY <1>4 DEF Claim
<1>5. ASSUME NEW q \in Rows, EnqueueClaimed(q) \/ RowAges(q)
      PROVE  r \in excused'
  BY <1>5 DEF EnqueueClaimed, Enqueue, RowAges
<1>6. ASSUME NEW c \in Chats, TimerFires(c) PROVE r \in excused'
  BY <1>6 DEF TimerFires
<1>7. CASE SweepReads \/ SweepResumes \/ EnqueueNext \/ Purge
  BY <1>7 DEF SweepReads, SweepResumes, EnqueueNext, Enqueue, Purge
<1>8. ASSUME NEW s \in Shards, MarkProcessing(s)
      PROVE  r \in excused'
  <2>1. inbox \in [Rows -> Row] /\ r \in Rows
    BY TypeParts DEF PinInv, InboxTyped, SetsTyped
  <2>2. worker[s].row = r => inbox'[r].status = "processing"
    BY <1>8, <2>1 DEF MarkProcessing, Row
  <2>. QED BY <1>8, <2>2 DEF MarkProcessing, Pending
<1>9. ASSUME NEW s \in Shards,
             \/ TakeItem(s) \/ JobMissing(s) \/ Handler(s) \/ FlushSends(s)
             \/ FlushRaises(s) \/ DbError(s)
      PROVE  r \in excused'
  BY <1>9 DEF TakeItem, TakeJob, TakeFlush, WorkerExits, JobMissing, Handler,
       HandlerSends, MarkReplySent, DeliveryFails, HandlerParks, JobDone,
       JobFails, FlushSends, FlushRaises, DbError
<1>. QED
  BY <1>1, <1>3, <1>4, <1>5, <1>6, <1>7, <1>8, <1>9 DEF Next, Progress

LEMMA NeverStrandedStep ==
    ASSUME ServiceInv, [Next]_vars
    PROVE  NeverStranded'
<1>. USE DEF ServiceInv
<1>a. Tracked \subseteq Rows /\ inbox \in [Rows -> Row]
  BY TypeParts DEF PinInv, SetsTyped, InboxTyped, Tracked
<1> SUFFICES ASSUME phase' = "up", NEW r \in Rows, Pending(r)'
             PROVE  \/ Waits(r)' \/ r \in intake' \cup batch'
                    \/ r \in excused' \ inflight'
  BY DEF NeverStranded
<1>b. ~ProcessGone
  BY DEF ProcessGone
<1>1. CASE Boot
  BY <1>1, <1>a DEF Boot, Pending, Row
<1>2. ASSUME NEW e \in Events, Claim(e), r = nextRow
      PROVE  r \in intake'
  BY <1>2 DEF Claim
<1>3. CASE Pending(r) /\ ~Boot
  <2>1. phase = "up"
    <3>1. phase' = phase \/ BeginDrain \/ phase' = "down"
      BY <1>3, <1>b, PhaseFrame
    <3>. QED BY <3>1 DEF BeginDrain
  <2>2. CASE Waits(r)
    <3>1. CASE Waits(r)'
      BY <3>1
    <3>2. ASSUME LosesTurn(r) PROVE r \in excused' \ inflight'
      BY <3>2 DEF LosesTurn, DbError, JobOver
    <3>. QED BY <1>3, <1>b, <2>2, <3>1, <3>2, WaitsStep DEF ServiceInv
  <2>3. CASE r \in inflight
    BY <1>3, <2>2, <2>3 DEF InflightWaits
  <2>4. CASE r \in (intake \cup batch) \ inflight
    <3>1. CASE r \in intake' \cup batch'
      BY <3>1
    <3>2. CASE r \notin intake' \cup batch'
      <4>1. Enqueue(r) /\ Known(r)
        BY <2>1, <2>4, <3>2, HandedOver DEF PinInv, TrackedKnown, Tracked
      <4>2. Waits(r)' \/ (r \in excused' /\ UNCHANGED inflight)
        BY <1>3, <2>1, <4>1, EnqueueWaits
      <4>. QED BY <2>4, <4>2
    <3>. QED BY <3>1, <3>2
  <2>5. CASE r \in excused \ inflight
    <3>1. r \in excused'
      BY <2>5, ExcusedKept
    <3>. QED BY <2>5, <3>1, InflightJoins
  <2>. QED BY <1>3, <2>1, <2>2, <2>3, <2>4, <2>5 DEF NeverStranded
<1>. QED BY <1>1, <1>2, <1>3, PendingFrame

LEMMA ServiceStep == ServiceInv /\ [Next]_vars => ServiceInv'
<1> SUFFICES ASSUME ServiceInv, [Next]_vars PROVE ServiceInv'
  OBVIOUS
<1>1. PinInv'
  BY PinStep DEF ServiceInv
<1>. QED BY <1>1, DownStep, HeldStep, InflightStep, NeverStrandedStep
         DEF ServiceInv

\* No pending row is forgotten while the process serves, for any number of
\* chats, shards and rows and any queue length: what _sweep_stranded skips
\* because it is in _inflight is on its way to a worker, and everything else
\* that is pending is about to be enqueued or left to the next sweep.
THEOREM NeverForgotten == Spec => []NeverStranded
<1>1. ServiceInv => NeverStranded
  BY DEF ServiceInv
<1>. QED BY ServiceInit, ServiceStep, <1>1, PTL DEF Spec

-----------------------------------------------------------------------------
(* The drain. *)

\* The sentinel is on a queue only during the drain, as its last item.
StopLast ==
    \A s \in Shards : \A i \in 1 .. Len(queue[s]) :
        queue[s][i] = Stop => phase = "draining" /\ i = Len(queue[s])
ExitedDone ==
    \A s \in Shards :
        worker[s].pc = "exited" => phase = "draining" /\ queue[s] = <<>>
DrainInv == TypeInv /\ StopLast /\ ExitedDone

LEMMA DrainInit == Init => DrainInv
<1> SUFFICES ASSUME Init PROVE DrainInv
  OBVIOUS
<1>1. TypeInv
  BY TypeInit
<1>2. StopLast
  BY EmptySeq DEF Init, StopLast
<1>3. ExitedDone
  BY IdleTypes DEF Init, ExitedDone
<1>. QED BY <1>1, <1>2, <1>3 DEF DrainInv

\* Who puts what on a queue: never past a sentinel.
LEMMA OnlyPut ==
    ASSUME [Next]_vars
    PROVE  \/ UNCHANGED queue
           \/ BeginDrain \/ ProcessGone
           \/ \E s \in Shards : TakeItem(s)
           \/ /\ phase = "up" /\ UNCHANGED <<phase, worker>>
              /\ \E s, item : Put(s, item) /\ item # Stop
<1>a. \A r : Job(r) # Stop /\ Flush(r) # Stop
  <2>1. \A r : Job(r).kind = "job" /\ Flush(r).kind = "flush"
    BY DEF Job, Flush
  <2>2. Stop.kind = "stop"
    BY DEF Stop
  <2>. QED BY <2>1, <2>2
<1>1. ASSUME NEW r \in Rows, EnqueueClaimed(r)
      PROVE  \/ UNCHANGED queue
             \/ phase = "up" /\ UNCHANGED <<phase, worker>>
                /\ Put(HomeShard(r), Job(r))
  BY <1>1 DEF EnqueueClaimed, Enqueue
<1>2. ASSUME NEW c \in Chats, TimerFires(c)
      PROVE  \/ UNCHANGED queue
             \/ phase = "up" /\ UNCHANGED <<phase, worker>>
                /\ Put(ShardOf[c], Flush(c))
  BY <1>2 DEF TimerFires
<1>3. CASE EnqueueNext
  <2>1. PICK r \in batch : UNCHANGED queue \/ Put(HomeShard(r), Job(r))
    BY <1>3 DEF EnqueueNext, Enqueue
  <2>2. phase = "up" /\ UNCHANGED <<phase, worker>>
    BY <1>3 DEF EnqueueNext
  <2>. QED BY <1>a, <2>1, <2>2
<1>. QED BY <1>a, <1>1, <1>2, <1>3, QueueFrame

LEMMA StopLastStep ==
    ASSUME DrainInv, [Next]_vars
    PROVE  StopLast'
<1>. USE DEF DrainInv
<1>a. QueuesTyped
  BY TypeParts
<1> SUFFICES ASSUME NEW t \in Shards, NEW i \in 1 .. Len(queue'[t]),
                    queue'[t][i] = Stop
             PROVE  phase' = "draining" /\ i = Len(queue'[t])
  BY DEF StopLast
<1>1. CASE ProcessGone
  BY <1>1, EmptySeq DEF ProcessGone
<1>2. CASE BeginDrain
  <2>1. queue'[t] = Append(queue[t], Stop) /\ phase' = "draining"
    BY <1>2 DEF BeginDrain
  <2>2. /\ Len(queue'[t]) = Len(queue[t]) + 1 /\ Len(queue[t]) \in Nat
        /\ \A j \in 1 .. Len(queue[t]) : queue'[t][j] = queue[t][j]
    BY <1>a, <2>1, ItemTypes, AppendProperties, LenProperties DEF QueuesTyped
  <2>3. i \notin 1 .. Len(queue[t])
    BY <1>2, <2>2 DEF BeginDrain, StopLast
  <2>. QED BY <2>1, <2>2, <2>3
<1>3. ASSUME ~ProcessGone, ~BeginDrain, phase = "draining"
      PROVE  phase' = "draining"
  BY <1>3, PhaseFrame DEF Boot
<1>4. CASE UNCHANGED queue /\ ~ProcessGone /\ ~BeginDrain
  BY <1>3, <1>4 DEF StopLast
<1>5. ASSUME NEW s \in Shards, TakeItem(s), ~ProcessGone, ~BeginDrain
      PROVE  phase' = "draining" /\ i = Len(queue'[t])
  <2>1. queue[s] # <<>> /\ queue' = [queue EXCEPT ![s] = Tail(@)]
    BY <1>5 DEF TakeItem, TakeJob, TakeFlush, WorkerExits
  <2>2. queue'[t] = IF t = s THEN Tail(queue[s]) ELSE queue[t]
    BY <1>a, <2>1 DEF QueuesTyped
  <2>3. /\ Len(Tail(queue[s])) = Len(queue[s]) - 1
        /\ Len(queue[s]) \in Nat
        /\ \A j \in 1 .. Len(Tail(queue[s])) :
             Tail(queue[s])[j] = queue[s][j + 1]
    BY <1>a, <2>1, HeadTailProperties, LenProperties DEF QueuesTyped
  <2>4. CASE t = s
    <3>1. i + 1 \in 1 .. Len(queue[s]) /\ queue[s][i + 1] = Stop
      BY <2>2, <2>3, <2>4
    <3>. QED BY <1>3, <1>5, <2>2, <2>3, <2>4, <3>1 DEF StopLast
  <2>5. CASE t # s
    BY <1>3, <1>5, <2>2, <2>5 DEF StopLast
  <2>. QED BY <2>4, <2>5
<1>6. ASSUME phase = "up", NEW s, NEW item, Put(s, item), item # Stop
      PROVE  FALSE
  <2>1. CASE queue'[t] = queue[t]
    BY <1>6, <2>1 DEF StopLast
  <2>2. CASE s = t
    <3>1. queue'[t] = Append(queue[t], item)
      BY <1>6, <1>a, <2>2 DEF Put, QueuesTyped
    <3>2. queue[t] \in Seq(Items) /\ Len(queue[t]) \in Nat
      BY <1>a, LenProperties DEF QueuesTyped
    <3>3. /\ Len(queue'[t]) = Len(queue[t]) + 1
          /\ queue'[t][Len(queue[t]) + 1] = item
          /\ \A j \in 1 .. Len(queue[t]) : queue'[t][j] = queue[t][j]
      BY <3>1, <3>2
    <3>. QED BY <1>6, <3>2, <3>3 DEF StopLast
  <2>. QED BY <1>6, <1>a, <2>1, <2>2 DEF Put, QueuesTyped
<1>. QED BY <1>1, <1>2, <1>4, <1>5, <1>6, OnlyPut

\* A worker is only out of its loop because it took the sentinel.
LEMMA ExitedFrom ==
    ASSUME WorkersTyped, [Next]_vars, NEW s \in Shards,
           worker'[s].pc = "exited"
    PROVE  worker[s].pc = "exited" \/ WorkerExits(s)
<1>. USE DEF WorkersTyped
<1>1. CASE UNCHANGED worker
  BY <1>1
<1>2. ~ProcessGone
  BY IdleTypes DEF ProcessGone
<1>3. ASSUME worker' = [worker EXCEPT ![s] = Idle] PROVE FALSE
  BY <1>3, IdleTypes
<1>4. ASSUME NEW pc \in WorkerPc \ {"exited"}, Goto(s, pc) PROVE FALSE
  <2>1. worker[s] \in Worker
    OBVIOUS
  <2>2. worker'[s] = [worker[s] EXCEPT !.pc = pc]
    BY <1>4 DEF Goto
  <2>. QED BY <2>1, <2>2 DEF Worker
<1>5. ~TakeJob(s)
  <2>1. TakeJob(s) => worker'[s] = JobAt("taken", Head(queue[s]).row)
    BY DEF TakeJob
  <2>. QED BY <2>1 DEF JobAt
<1>6. TakeFlush(s) => UNCHANGED worker
  <2>1. TakeFlush(s) => UNCHANGED worker \/ worker'[s].pc = "flushing"
    BY DEF TakeFlush
  <2>. QED BY <2>1
<1>7. ~(\/ JobMissing(s) \/ JobDone(s) \/ JobFails(s) \/ DbError(s)
        \/ FlushRaises(s))
  BY <1>3 DEF JobMissing, JobDone, JobFails, DbError, FlushRaises, JobOver
<1>8. ~(\/ MarkProcessing(s) \/ HandlerSends(s) \/ HandlerParks(s)
        \/ FlushSends(s))
  BY <1>4 DEF MarkProcessing, HandlerSends, HandlerParks, FlushSends, WorkerPc
<1>9. ~(MarkReplySent(s) \/ DeliveryFails(s))
  BY <1>3, <1>4 DEF MarkReplySent, DeliveryFails, WorkerPc
<1>. QED
  BY <1>1, <1>2, <1>5, <1>6, <1>7, <1>8, <1>9, OtherWorkers, WorkerFrame
     DEF TakeItem, Progress, Handler

LEMMA ExitedStep ==
    ASSUME DrainInv, [Next]_vars
    PROVE  ExitedDone'
<1>. USE DEF DrainInv
<1>a. QueuesTyped /\ WorkersTyped
  BY TypeParts
<1> SUFFICES ASSUME NEW t \in Shards, worker'[t].pc = "exited"
             PROVE  phase' = "draining" /\ queue'[t] = <<>>
  BY DEF ExitedDone
<1>b. ~ProcessGone
  BY IdleTypes DEF ProcessGone
<1>1. CASE WorkerExits(t)
  <2>1. /\ queue[t] # <<>> /\ Head(queue[t]).kind = "stop"
        /\ queue' = [queue EXCEPT ![t] = Tail(@)] /\ UNCHANGED phase
    BY <1>1 DEF WorkerExits
  <2>2. /\ Head(queue[t]) \in Items /\ Head(queue[t]) = queue[t][1]
        /\ Len(queue[t]) \in Nat \ {0}
    BY <1>a, <2>1, HeadTailProperties, EmptySeq, LenProperties DEF QueuesTyped
  <2>3. Head(queue[t]) = Stop
    BY <2>1, <2>2 DEF Items
  <2>4. phase = "draining" /\ Len(queue[t]) = 1
    <3>1. 1 \in 1 .. Len(queue[t]) /\ queue[t][1] = Stop
      BY <2>2, <2>3
    <3>. QED BY <3>1 DEF StopLast
  <2>5. Tail(queue[t]) \in Seq(Items) /\ Len(Tail(queue[t])) = 0
    BY <1>a, <2>1, <2>4, HeadTailProperties DEF QueuesTyped
  <2>. QED BY <1>a, <2>1, <2>4, <2>5, EmptySeq DEF QueuesTyped
<1>2. CASE ~WorkerExits(t)
  <2>1. worker[t].pc = "exited"
    BY <1>2, <1>a, <1>b, ExitedFrom
  <2>2. phase = "draining" /\ queue[t] = <<>>
    BY <2>1 DEF ExitedDone
  <2>3. phase' = "draining"
    BY <1>b, <2>2, PhaseFrame DEF Boot, BeginDrain
  <2>4. ASSUME NEW s \in Shards, TakeItem(s) PROVE queue'[t] = queue[t]
    <3>1. queue[s] # <<>> /\ queue' = [queue EXCEPT ![s] = Tail(@)]
      BY <2>4 DEF TakeItem, TakeJob, TakeFlush, WorkerExits
    <3>. QED BY <1>a, <2>2, <3>1 DEF QueuesTyped
  <2>. QED BY <1>b, <2>2, <2>3, <2>4, OnlyPut DEF BeginDrain
<1>. QED BY <1>1, <1>2

LEMMA DrainStep == DrainInv /\ [Next]_vars => DrainInv'
BY TypeStep, StopLastStep, ExitedStep DEF DrainInv

\* A worker leaves its loop with its queue empty, and nothing is put on it
\* after that: what was queued before stop() is handled or was cut off by the
\* grace period, never left behind a sentinel.
THEOREM DrainHandlesAll == Spec => []ExitedShardIsEmpty
<1>1. DrainInv => ExitedShardIsEmpty
  BY DEF DrainInv, ExitedDone, ExitedShardIsEmpty
<1>. QED BY DrainInit, DrainStep, <1>1, PTL DEF Spec

-----------------------------------------------------------------------------
(* The inductive invariant. *)

\* A process that is down has nothing on its way to a worker, either.
DownEmpty ==
    phase = "down" => /\ intake = {}
                      /\ \A s \in Shards : Len(queue[s]) = 0
                      /\ \A c \in Chats : Len(parked[c]) = 0

\* A debounced file has been handled: recovery alone would run its row again.
FilesNotPending ==
    /\ \A c \in Chats, r \in Rows : Parked(r, c) => ~Pending(r)
    /\ \A s \in Shards : worker[s].pc \in {"flushing", "flushSent"} =>
                           ~Pending(worker[s].row)

\* What a worker may find pending may still be started.
PendingFresh ==
    \A r \in Rows :
        Pending(r) => ~inbox[r].replied /\ inbox[r].attempts < MaxAttempts

\* An item has one place in a queue at most.
Once(item) ==
    \A s \in Shards : \A i, j \in 1 .. Len(queue[s]) :
        queue[s][i] = item /\ queue[s][j] = item => i = j

InQueue(r) == \E s \in Shards : Queued(Job(r), s)
Held(r)    == \E s \in Shards : Holds(s, r)

\* What the worker that runs a row knows of its status.
RunsAs(r) ==
    \A s \in Shards : worker[s].row = r =>
        /\ worker[s].pc \in {"running", "sent"} => inbox[r].status = "processing"
        /\ worker[s].pc = "settled" =>
             inbox[r].status \in {"processing", "delivery_failed", "purged"}

\* A row nobody raced for: in submit_raw, then in a queue, then with a worker.
Solo(r) ==
    /\ Once(Job(r))
    /\ InQueue(r) => ~Held(r)
    /\ InQueue(r) \/ Held(r) => r \in inflight
    /\ r \in intake => Pending(r) /\ r \notin inflight
    /\ InQueue(r) \/ Taken(r) => Pending(r)
    /\ RunsAs(r)
    /\ inbox[r].attempts <= MaxAttempts

CopiesInv ==
    /\ ServiceInv /\ DownEmpty /\ FilesNotPending /\ PendingFresh
    /\ \A r \in Rows \ raced : Solo(r)

LEMMA CopiesInit == Init => CopiesInv
<1> SUFFICES ASSUME Init PROVE CopiesInv
  OBVIOUS
<1>1. ServiceInv
  BY ServiceInit
<1>2. /\ FreeRow.status = "none" /\ FreeRow.attempts = 0
      /\ Len(<<>>) = 0
  BY EmptySeq DEF FreeRow, NewRow
<1>3. \A s \in Shards : worker[s] = Idle /\ Len(queue[s]) = 0
  BY <1>2 DEF Init
<1>4. \A r \in Rows : ~Pending(r) /\ inbox[r].attempts = 0
  BY <1>2 DEF Init, Pending
<1>5. DownEmpty /\ FilesNotPending /\ PendingFresh
  <2>1. \A c \in Chats : Len(parked[c]) = 0
    BY <1>2 DEF Init
  <2>2. \A s \in Shards : worker[s].pc = "idle"
    BY <1>3, IdleTypes
  <2>. QED BY <1>3, <1>4, <2>1, <2>2
           DEF Init, DownEmpty, FilesNotPending, PendingFresh, Parked
<1>6. ASSUME NEW r \in Rows PROVE Solo(r)
  <2>1. Once(Job(r)) /\ ~InQueue(r)
    BY <1>3 DEF Once, InQueue, Queued
  <2>2. ~Held(r) /\ ~Taken(r) /\ RunsAs(r)
    BY <1>3, IdleTypes DEF Held, Holds, Taken, RunsAs
  <2>3. r \notin intake
    BY DEF Init
  <2>. QED BY <1>4, <2>1, <2>2, <2>3, MaxAttemptsAssumption DEF Solo
<1>. QED BY <1>1, <1>5, <1>6 DEF CopiesInv

-----------------------------------------------------------------------------
(* Queues and workers, row by row. *)

LEMMA OncePut ==
    ASSUME QueuesTyped, NEW s \in Shards, NEW item \in Items, Put(s, item),
           NEW x, Once(x), x = item => ~Queued(x, s)
    PROVE  Once(x)'
<1> SUFFICES ASSUME NEW t \in Shards, NEW i \in 1 .. Len(queue'[t]),
                    NEW j \in 1 .. Len(queue'[t]),
                    queue'[t][i] = x, queue'[t][j] = x
             PROVE  i = j
  BY DEF Once
<1>1. queue[s] \in Seq(Items)
  BY DEF QueuesTyped
<1>2. queue'[t] = IF t = s THEN Append(queue[s], item) ELSE queue[t]
  BY DEF Put, QueuesTyped
<1>3. /\ Len(Append(queue[s], item)) = Len(queue[s]) + 1
      /\ Len(queue[s]) \in Nat
      /\ \A k \in 1 .. Len(queue[s]) : Append(queue[s], item)[k] = queue[s][k]
      /\ Append(queue[s], item)[Len(queue[s]) + 1] = item
  BY <1>1, AppendProperties, LenProperties
<1>4. CASE t # s
  BY <1>2, <1>4 DEF Once
<1>5. CASE t = s
  <2>1. /\ i \in 1 .. Len(queue[s]) \/ i = Len(queue[s]) + 1
        /\ j \in 1 .. Len(queue[s]) \/ j = Len(queue[s]) + 1
    BY <1>2, <1>3, <1>5
  <2>2. \A k \in 1 .. Len(queue[s]) : x = item => queue[s][k] # x
    BY DEF Queued
  <2>. QED BY <1>2, <1>3, <1>5, <2>1, <2>2 DEF Once
<1>. QED BY <1>4, <1>5

LEMMA OnceTail ==
    ASSUME QueuesTyped, NEW s \in Shards, queue[s] # <<>>,
           queue' = [queue EXCEPT ![s] = Tail(@)],
           NEW x, Once(x)
    PROVE  Once(x)' /\ (x = Head(queue[s]) => ~Queued(x, s)')
<1>1. queue[s] \in Seq(Items)
  BY DEF QueuesTyped
<1>2. \A t \in Shards :
        queue'[t] = IF t = s THEN Tail(queue[s]) ELSE queue[t]
  BY DEF QueuesTyped
<1>3. /\ Len(Tail(queue[s])) = Len(queue[s]) - 1
      /\ Len(queue[s]) \in Nat \ {0}
      /\ \A i \in 1 .. Len(Tail(queue[s])) : Tail(queue[s])[i] = queue[s][i + 1]
      /\ Head(queue[s]) = queue[s][1]
  BY <1>1, HeadTailProperties, EmptySeq
<1>4. \A i \in 1 .. Len(queue'[s]) :
        i + 1 \in 1 .. Len(queue[s]) /\ queue'[s][i] = queue[s][i + 1]
  <2>1. queue'[s] = Tail(queue[s])
    BY <1>2
  <2>2. \A n \in Nat \ {0} : \A i \in 1 .. n - 1 : i + 1 \in 1 .. n
    OBVIOUS
  <2>. QED BY <1>3, <2>1, <2>2
<1>5. ASSUME NEW t \in Shards, NEW i \in 1 .. Len(queue'[t]),
             NEW j \in 1 .. Len(queue'[t]),
             queue'[t][i] = x, queue'[t][j] = x
      PROVE  i = j
  <2>1. CASE t = s
    <3>1. i + 1 = j + 1
      BY <1>4, <1>5, <2>1 DEF Once
    <3>. QED BY <3>1
  <2>2. CASE t # s
    BY <1>2, <1>5, <2>2 DEF Once
  <2>. QED BY <2>1, <2>2
<1>6. ASSUME x = Head(queue[s]), NEW i \in 1 .. Len(queue'[s]), queue'[s][i] = x
      PROVE  FALSE
  <2>1. 1 \in 1 .. Len(queue[s]) /\ queue[s][1] = x /\ i + 1 # 1
    BY <1>3, <1>6
  <2>. QED BY <1>4, <1>6, <2>1 DEF Once
<1>. QED BY <1>5, <1>6 DEF Once, Queued

\* A row comes to a queue through _enqueue, for submit_raw or for a sweep.
Enqueues(r) == EnqueueClaimed(r) \/ (EnqueueNext /\ r \in batch /\ r \notin batch'
                                     /\ r \notin inflight)
LEMMA QueueMoves ==
    ASSUME PinInv, [Next]_vars, NEW r \in Rows, Once(Job(r))
    PROVE  \/ /\ Once(Job(r))'
              /\ \A t \in Shards : Queued(Job(r), t)' => Queued(Job(r), t)
           \/ /\ Enqueues(r)
              /\ inflight' = inflight \cup {r}
              /\ ~InQueue(r) => Once(Job(r))'
<1>. USE DEF PinInv
<1>a. QueuesTyped
  BY TypeParts
<1>b. \A q : Job(q) = Job(r) => q = r
  BY DEF Job
<1>c. (\A c : Flush(c) # Job(r)) /\ Stop # Job(r)
  BY DEF Job, Flush, Stop
<1>1. CASE UNCHANGED queue
  BY <1>1 DEF Once, Queued
<1>2. ASSUME NEW q \in Rows, Known(q), Put(HomeShard(q), Job(q))
      PROVE  /\ q = r /\ ~InQueue(r) => Once(Job(r))'
             /\ q # r => /\ Once(Job(r))'
                         /\ \A t \in Shards :
                              Queued(Job(r), t)' => Queued(Job(r), t)
  <2>1. HomeShard(q) \in Shards /\ Job(q) \in Items
    BY <1>2, ShardAssumption, ChatAssumption, ItemTypes
       DEF HomeShard, ChatOf, Known
  <2>2. q = r /\ ~InQueue(r) => Once(Job(r))'
    BY <1>a, <1>2, <2>1, OncePut DEF InQueue
  <2>3. q # r => Once(Job(r))'
    BY <1>a, <1>b, <1>2, <2>1, OncePut
  <2>4. \A t \in Shards : q # r /\ Queued(Job(r), t)' => Queued(Job(r), t)
    BY <1>a, <1>b, <1>2, <2>1, QueuedPut
  <2>. QED BY <2>2, <2>3, <2>4
<1>3. ASSUME NEW q \in Rows, EnqueueClaimed(q)
      PROVE  \/ UNCHANGED queue
             \/ /\ Known(q) /\ Put(HomeShard(q), Job(q))
                /\ inflight' = inflight \cup {q}
  BY <1>3 DEF EnqueueClaimed, Enqueue, TrackedKnown, Tracked
<1>4. CASE EnqueueNext
  <2>1. PICK q \in batch :
          /\ batch' = batch \ {q}
          /\ \/ UNCHANGED queue
             \/ /\ q \notin inflight /\ Put(HomeShard(q), Job(q))
                /\ inflight' = inflight \cup {q}
    BY <1>4 DEF EnqueueNext, Enqueue
  <2>2. q \in Rows /\ Known(q)
    BY TypeParts DEF SetsTyped, TrackedKnown, Tracked
  <2>. QED BY <1>1, <1>2, <1>4, <2>1, <2>2 DEF Enqueues
<1>5. ASSUME NEW c \in Chats, TimerFires(c)
      PROVE  /\ Once(Job(r))'
             /\ \A t \in Shards : Queued(Job(r), t)' => Queued(Job(r), t)
  <2>1. UNCHANGED queue \/ Put(ShardOf[c], Flush(c))
    BY <1>5 DEF TimerFires
  <2>2. ShardOf[c] \in Shards /\ Flush(c) \in Items
    BY ShardAssumption, ItemTypes
  <2>3. CASE UNCHANGED queue
    BY <2>3 DEF Once, Queued
  <2>4. CASE Put(ShardOf[c], Flush(c))
    <3>1. Once(Job(r))'
      BY <1>a, <1>c, <2>2, <2>4, OncePut
    <3>2. \A t \in Shards : Queued(Job(r), t)' => Queued(Job(r), t)
      BY <1>a, <1>c, <2>2, <2>4, QueuedPut
    <3>. QED BY <3>1, <3>2
  <2>. QED BY <2>1, <2>3, <2>4
<1>6. CASE BeginDrain
  <2>1. ASSUME NEW t \in Shards, NEW i \in 1 .. Len(queue'[t]),
               queue'[t][i] = Job(r)
        PROVE  i \in 1 .. Len(queue[t]) /\ queue[t][i] = Job(r)
    <3>1. queue[t] \in Seq(Items) /\ queue'[t] = Append(queue[t], Stop)
      BY <1>a, <1>6 DEF BeginDrain, QueuesTyped
    <3>2. /\ Len(queue[t]) \in Nat
          /\ Len(queue'[t]) = Len(queue[t]) + 1
          /\ \A k \in 1 .. Len(queue[t]) : queue'[t][k] = queue[t][k]
          /\ queue'[t][Len(queue[t]) + 1] = Stop
      BY <3>1, ItemTypes, AppendProperties, LenProperties
    <3>3. i # Len(queue[t]) + 1
      BY <1>c, <2>1, <3>2
    <3>. QED BY <2>1, <3>2, <3>3
  <2>. QED BY <2>1 DEF Once, Queued
<1>7. CASE ProcessGone
  <2>1. \A t \in Shards : Len(queue'[t]) = 0
    BY <1>7, EmptySeq DEF ProcessGone
  <2>. QED BY <2>1 DEF Once, Queued
<1>8. ASSUME NEW s \in Shards, TakeItem(s)
      PROVE  /\ Once(Job(r))'
             /\ \A t \in Shards : Queued(Job(r), t)' => Queued(Job(r), t)
  <2>1. queue[s] # <<>> /\ queue' = [queue EXCEPT ![s] = Tail(@)]
    BY <1>8 DEF TakeItem, TakeJob, TakeFlush, WorkerExits
  <2>2. Once(Job(r))'
    BY <1>a, <2>1, OnceTail
  <2>3. \A t \in Shards : Queued(Job(r), t)' => Queued(Job(r), t)
    BY <1>a, <2>1, QueuedTail
  <2>. QED BY <2>2, <2>3
<1>. QED BY <1>1, <1>2, <1>3, <1>4, <1>5, <1>6, <1>7, <1>8, QueueFrame
         DEF Enqueues

\* How a worker comes to hold a row, and what it does with it.
Settles(s) == \/ HandlerParks(s) \/ MarkReplySent(s) \/ DeliveryFails(s)
LEMMA WorkerMoves ==
    ASSUME PinInv, [Next]_vars, NEW r \in Rows, NEW s \in Shards, Holds(s, r)'
    PROVE  \/ Holds(s, r) /\ worker'[s] = worker[s]
           \/ /\ TakeJob(s) /\ Head(queue[s]) = Job(r)
              /\ worker'[s].pc = "taken"
           \/ /\ Holds(s, r) /\ MarkProcessing(s)
              /\ worker[s].pc = "taken" /\ worker'[s].pc = "running"
           \/ /\ Holds(s, r) /\ HandlerSends(s)
              /\ worker[s].pc = "running" /\ worker'[s].pc = "sent"
           \/ /\ Holds(s, r) /\ Settles(s)
              /\ worker[s].pc \in {"running", "sent"}
              /\ worker'[s].pc = "settled"
<1>. USE DEF PinInv
<1>a. WorkersTyped /\ worker \in [Shards -> Worker] /\ QueuesTyped
  BY TypeParts DEF WorkersTyped
<1>b. /\ worker'[s].row = r
      /\ worker'[s].pc \notin {"idle", "flushing", "flushSent", "exited"}
  BY DEF Holds
<1>c. worker'[s] # Idle
  BY <1>b, IdleTypes
<1>d. ASSUME NEW pc \in WorkerPc, Goto(s, pc)
      PROVE  worker'[s].row = worker[s].row /\ worker'[s].pc = pc
  BY <1>a, <1>d DEF Goto, Worker
<1>e. worker' # [worker EXCEPT ![s] = Idle]
  BY <1>a, <1>c
<1>1. CASE UNCHANGED worker
  BY <1>1 DEF Holds
<1>2. ~ProcessGone
  BY <1>c DEF ProcessGone
<1>3. ASSUME NEW t \in Shards, TakeItem(t) \/ Progress(t) \/ DbError(t), t # s
      PROVE  Holds(s, r) /\ worker'[s] = worker[s]
  <2>1. worker'[s] = worker[s]
    BY <1>a, <1>3, OtherWorkers
  <2>. QED BY <1>b, <2>1 DEF Holds
<1>4. CASE TakeJob(s)
  <2>1. worker'[s] = JobAt("taken", Head(queue[s]).row)
    BY <1>a, <1>4 DEF TakeJob
  <2>2. worker'[s].pc = "taken" /\ Head(queue[s]).row = r
    BY <1>b, <2>1 DEF JobAt
  <2>3. Head(queue[s]) \in Items /\ Head(queue[s]).kind = "job"
    BY <1>a, <1>4, HeadTailProperties DEF TakeJob, QueuesTyped
  <2>4. Head(queue[s]) = Job(r)
    BY <2>2, <2>3 DEF Items, Job, Stop
  <2>. QED BY <1>4, <2>2, <2>4
<1>5. CASE TakeFlush(s)
  <2>1. UNCHANGED worker \/ worker'[s].pc = "flushing"
    BY <1>a, <1>5 DEF TakeFlush
  <2>. QED BY <1>b, <1>1, <2>1
<1>6. ~WorkerExits(s) /\ ~FlushSends(s)
  BY <1>b, <1>d DEF WorkerExits, FlushSends, WorkerPc
<1>7. ~(JobMissing(s) \/ JobDone(s) \/ JobFails(s) \/ DbError(s) \/ FlushRaises(s))
  BY <1>e DEF JobMissing, JobDone, JobFails, DbError, JobOver, FlushRaises
<1>8. CASE MarkProcessing(s)
  <2>1. Goto(s, "running") /\ worker[s].pc = "taken"
    BY <1>8 DEF MarkProcessing, At
  <2>. QED BY <1>b, <1>d, <1>8, <2>1 DEF Holds, WorkerPc
<1>9. CASE HandlerSends(s)
  <2>1. Goto(s, "sent") /\ worker[s].pc = "running"
    BY <1>9 DEF HandlerSends, At
  <2>. QED BY <1>b, <1>d, <1>9, <2>1 DEF Holds, WorkerPc
<1>10. CASE Settles(s)
  <2>1. Goto(s, "settled") /\ worker[s].pc \in {"running", "sent"}
    BY <1>e, <1>10 DEF Settles, HandlerParks, MarkReplySent, DeliveryFails, At
  <2>. QED BY <1>b, <1>d, <1>10, <2>1 DEF Holds, WorkerPc
<1>. QED
  BY <1>1, <1>2, <1>3, <1>4, <1>5, <1>6, <1>7, <1>8, <1>9, <1>10, WorkerFrame
     DEF TakeItem, Progress, Handler, Settles

\* What an action of worker s makes of the row it holds.
Works(s, r) ==
    /\ worker[s].row = r
    /\ \/ MarkProcessing(s) \/ DeliveryFails(s) \/ JobDone(s) \/ JobFails(s)
LEMMA InboxMoves ==
    ASSUME PinInv, [Next]_vars, NEW r \in Rows
    PROVE  \/ /\ inbox'[r].status = inbox[r].status
              /\ inbox'[r].attempts = inbox[r].attempts
           \/ /\ \E e \in Events : Claim(e)
              /\ r = nextRow /\ Pending(r)' /\ inbox'[r].attempts = 0
           \/ /\ Purge /\ inbox[r].status \in Finished
              /\ inbox'[r].status = "purged"
              /\ inbox'[r].attempts = inbox[r].attempts
           \/ Boot /\ inbox'[r].attempts = inbox[r].attempts
           \/ \E s \in Shards : /\ MarkProcessing(s) /\ worker[s].row = r
                                /\ inbox'[r].status = "processing"
                                /\ inbox'[r].attempts = inbox[r].attempts + 1
           \/ /\ inbox'[r].attempts = inbox[r].attempts
              /\ \E s \in Shards : Works(s, r) /\ ~MarkProcessing(s)
<1>a. inbox \in [Rows -> Row]
  BY TypeParts DEF PinInv, InboxTyped
<1>1. CASE UNCHANGED inbox
  BY <1>1
<1>2. ASSUME NEW e \in Events, Claim(e)
      PROVE  \/ inbox'[r] = inbox[r]
             \/ r = nextRow /\ Pending(r)' /\ inbox'[r].attempts = 0
  BY <1>2, <1>a DEF Claim, NewRow, Pending
<1>3. ASSUME NEW q \in Rows, RowAges(q)
      PROVE  /\ inbox'[r].status = inbox[r].status
             /\ inbox'[r].attempts = inbox[r].attempts
  BY <1>3, <1>a DEF RowAges, Row
<1>4. CASE Purge
  BY <1>4, <1>a DEF Purge, Expired, Row
<1>5. CASE Boot
  <2>1. inbox'[r] = [inbox[r] EXCEPT !.status = Recovered(r)]
    BY <1>5 DEF Boot
  <2>. QED BY <1>5, <1>a, <2>1 DEF Row
<1>6. ASSUME NEW s \in Shards, MarkProcessing(s)
      PROVE  \/ inbox'[r] = inbox[r]
             \/ /\ worker[s].row = r /\ inbox'[r].status = "processing"
                /\ inbox'[r].attempts = inbox[r].attempts + 1
  BY <1>6, <1>a DEF MarkProcessing, Row
<1>7. ASSUME NEW s \in Shards, MarkReplySent(s)
      PROVE  /\ inbox'[r].status = inbox[r].status
             /\ inbox'[r].attempts = inbox[r].attempts
  BY <1>7, <1>a DEF MarkReplySent, Row
<1>8. ASSUME NEW s \in Shards, DeliveryFails(s) \/ JobDone(s) \/ JobFails(s)
      PROVE  \/ inbox'[r] = inbox[r]
             \/ /\ inbox'[r].attempts = inbox[r].attempts
                /\ Works(s, r) /\ ~MarkProcessing(s)
  <2>1. ~MarkProcessing(s)
    BY <1>8 DEF DeliveryFails, JobDone, JobFails, InHandler, MarkProcessing, At
  <2>2. worker[s].row # r => inbox'[r] = inbox[r]
    BY <1>8, <1>a DEF DeliveryFails, MarkDeliveryFailed, JobDone, JobFails, SetStatus
  <2>3. inbox'[r].attempts = inbox[r].attempts
    <3>1. CASE DeliveryFails(s) \/ JobDone(s)
      BY <3>1, <1>a DEF DeliveryFails, MarkDeliveryFailed, JobDone, SetStatus, Row
    <3>2. CASE JobFails(s)
      BY <3>2, <1>a DEF JobFails, Row
    <3>. QED BY <1>8, <3>1, <3>2
  <2>. QED BY <1>8, <2>1, <2>2, <2>3 DEF Works
<1>. QED BY <1>1, <1>2, <1>3, <1>4, <1>5, <1>6, <1>7, <1>8, InboxFrame

\* A row leaves _inflight when its worker is done with it.
Leaves(s, r) == JobOver(s) /\ Holds(s, r)
LEMMA InflightLeaves ==
    ASSUME [Next]_vars, NEW r \in inflight, r \notin inflight'
    PROVE  ProcessGone \/ \E s \in Shards : Leaves(s, r)
<1>. USE DEF durable, media, history
<1>1. CASE UNCHANGED vars
  BY <1>1 DEF vars
<1>2. CASE Boot \/ Crash \/ Shutdown
  BY <1>2 DEF Boot, Crash, Shutdown, BeginDrain, StopRaises, DrainCompletes,
              GraceExpires
<1>3. ASSUME NEW e \in Events, Claim(e) PROVE FALSE
  BY <1>3 DEF Claim
<1>4. ASSUME NEW q \in Rows, EnqueueClaimed(q) \/ RowAges(q) PROVE FALSE
  BY <1>4 DEF EnqueueClaimed, Enqueue, RowAges
<1>5. ASSUME NEW c \in Chats, TimerFires(c) PROVE FALSE
  BY <1>5 DEF TimerFires
<1>6. CASE SweepReads \/ SweepResumes \/ EnqueueNext \/ Purge
  BY <1>6 DEF SweepReads, SweepResumes, EnqueueNext, Enqueue, Purge
<1>7. ASSUME NEW s \in Shards, TakeItem(s) \/ Progress(s) \/ DbError(s)
      PROVE  Leaves(s, r)
  <2>1. JobMissing(s) \/ JobDone(s) \/ JobFails(s) \/ DbError(s)
    BY <1>7 DEF TakeItem, TakeJob, TakeFlush, WorkerExits, Progress, Handler,
         MarkProcessing, HandlerSends, MarkReplySent, DeliveryFails,
         HandlerParks, FlushSends, FlushRaises
  <2>2. JobOver(s) /\ worker[s].pc \notin {"idle", "flushing", "flushSent", "exited"}
    BY <2>1 DEF JobMissing, JobDone, JobFails, DbError, InHandler, At
  <2>. QED BY <2>2 DEF JobOver, Holds, Leaves
<1>. QED BY <1>1, <1>2, <1>3, <1>4, <1>5, <1>6, <1>7 DEF Next

\* submit_raw claims a row, and hands it on.
LEMMA IntakeMoves ==
    ASSUME [Next]_vars, NEW r \in intake'
    PROVE  \/ r \in intake /\ ~EnqueueClaimed(r)
           \/ r = nextRow /\ \E e \in Events : Claim(e)
<1>. USE DEF durable, media, history
<1>a. ~EnqueueClaimed(r)
  BY DEF EnqueueClaimed
<1>1. CASE UNCHANGED vars
  BY <1>a, <1>1 DEF vars
<1>2. CASE Boot \/ Crash \/ Shutdown
  BY <1>a, <1>2 DEF Boot, Crash, Shutdown, BeginDrain, StopRaises,
              DrainCompletes, GraceExpires, ProcessGone
<1>3. ASSUME NEW e \in Events, Claim(e) PROVE r \in intake \/ r = nextRow
  BY <1>3 DEF Claim
<1>4. ASSUME NEW q \in Rows, EnqueueClaimed(q) \/ RowAges(q) PROVE r \in intake
  BY <1>4 DEF EnqueueClaimed, RowAges
<1>5. ASSUME NEW c \in Chats, TimerFires(c) PROVE r \in intake
  BY <1>5 DEF TimerFires
<1>6. CASE SweepReads \/ SweepResumes \/ EnqueueNext \/ Purge
  BY <1>a, <1>6 DEF SweepReads, SweepResumes, EnqueueNext, Purge
<1>7. ASSUME NEW s \in Shards, TakeItem(s) \/ Progress(s) \/ DbError(s)
      PROVE  r \in intake
  BY <1>7 DEF TakeItem, TakeJob, TakeFlush, WorkerExits, Progress, Handler,
       JobMissing, MarkProcessing, HandlerSends, MarkReplySent, DeliveryFails,
       HandlerParks, JobDone, JobFails, FlushSends, FlushRaises, DbError
<1>. QED BY <1>a, <1>1, <1>2, <1>3, <1>4, <1>5, <1>6, <1>7 DEF Next

\* A raced row stays raced, and a sweep that enqueues another has read it since
\* submit_raw let go of it.
LEMMA RacedMoves ==
    ASSUME [Next]_vars, NEW r \in Rows, r \notin raced'
    PROVE  /\ r \notin raced
           /\ Enqueues(r) => /\ EnqueueClaimed(r) \/ (r \notin intake /\ Pending(r))
                             /\ UNCHANGED <<inbox, worker>>
<1>. USE DEF durable, media, history
<1>a. r \in raced => r \in raced'
  <2>1. CASE UNCHANGED vars
    BY <2>1 DEF vars
  <2>2. CASE Boot \/ Crash \/ Shutdown
    BY <2>2 DEF Boot, Crash, Shutdown, BeginDrain, StopRaises,
                DrainCompletes, GraceExpires, ProcessGone
  <2>3. CASE \E e \in Events : Claim(e)
    BY <2>3 DEF Claim
  <2>4. CASE \E q \in Rows : EnqueueClaimed(q) \/ RowAges(q)
    BY <2>4 DEF EnqueueClaimed, RowAges
  <2>5. CASE \E c \in Chats : TimerFires(c)
    BY <2>5 DEF TimerFires
  <2>6. CASE SweepReads \/ SweepResumes \/ EnqueueNext \/ Purge
    BY <2>6 DEF SweepReads, SweepResumes, EnqueueNext, Purge
  <2>7. ASSUME NEW s \in Shards, TakeItem(s) \/ Progress(s) \/ DbError(s)
        PROVE  UNCHANGED raced
    BY <2>7 DEF TakeItem, TakeJob, TakeFlush, WorkerExits, Progress, Handler,
         JobMissing, MarkProcessing, HandlerSends, MarkReplySent,
         DeliveryFails, HandlerParks, JobDone, JobFails, FlushSends,
         FlushRaises, DbError
  <2>. QED BY <2>1, <2>2, <2>3, <2>4, <2>5, <2>6, <2>7 DEF Next
<1>1. CASE EnqueueClaimed(r)
  BY <1>a, <1>1 DEF EnqueueClaimed
<1>2. ASSUME EnqueueNext, r \in batch, r \notin batch', r \notin inflight
      PROVE  r \notin intake /\ Pending(r) /\ UNCHANGED <<inbox, worker>>
  BY <1>2 DEF EnqueueNext
<1>. QED BY <1>a, <1>1, <1>2 DEF Enqueues

-----------------------------------------------------------------------------
(* The invariant is kept. *)

LEMMA DownEmptyStep ==
    ASSUME CopiesInv, [Next]_vars
    PROVE  DownEmpty'
<1>. USE DEF CopiesInv, DownEmpty, durable, media, history
<1> SUFFICES ASSUME phase' = "down"
             PROVE  /\ intake' = {}
                    /\ \A s \in Shards : Len(queue'[s]) = 0
                    /\ \A c \in Chats : Len(parked'[c]) = 0
  OBVIOUS
<1>1. CASE ProcessGone
  <2>1. Len(<<>>) = 0
    BY EmptySeq
  <2>. QED BY <1>1, <2>1 DEF ProcessGone
<1>2. CASE ~ProcessGone
  <2>1. phase = "down"
    BY <1>2, PhaseFrame DEF Boot, BeginDrain
  <2>2. ~(\/ \E e \in Events : Claim(e)
          \/ \E r \in Rows : EnqueueClaimed(r)
          \/ \E c \in Chats : TimerFires(c)
          \/ EnqueueNext \/ BeginDrain
          \/ \E s \in Shards : TakeItem(s) \/ HandlerParks(s))
    BY <2>1 DEF Claim, EnqueueClaimed, TimerFires, EnqueueNext, BeginDrain,
         TakeItem, TakeJob, TakeFlush, WorkerExits, HandlerParks, At, LoopFree
  <2>3. UNCHANGED queue
    BY <1>2, <2>2, QueueFrame
  <2>4. UNCHANGED parked
    BY <1>2, <2>2, ParkedFrame DEF TakeItem
  <2>5. intake' = {}
    BY <2>1, <2>2, IntakeMoves
  <2>. QED BY <2>1, <2>3, <2>4, <2>5
<1>. QED BY <1>1, <1>2

\* What holds or parks a row is not its claim.
LEMMA NotClaimed ==
    ASSUME PinInv, NEW r \in Rows, Known(r)
    PROVE  r # nextRow
<1>1. r \in Nat /\ nextRow \in Nat
  BY TypeParts, MaxRowsAssumption DEF PinInv, SetsTyped, Rows
<1>. QED BY <1>1 DEF PinInv, RowsKnown

\* A worker flushes what was parked.
FlushPc == {"flushing", "flushSent"}
LEMMA FlushFrom ==
    ASSUME PinInv, [Next]_vars, NEW s \in Shards, worker'[s].pc \in FlushPc
    PROVE  \/ worker'[s].row = worker[s].row /\ worker[s].pc \in FlushPc
           \/ /\ UNCHANGED inbox
              /\ \E c \in Chats : Parked(worker'[s].row, c)
<1>. USE DEF PinInv, FlushPc
<1>a. WorkersTyped /\ worker \in [Shards -> Worker] /\ ParkedTyped
  BY TypeParts DEF WorkersTyped
<1>b. worker' # [worker EXCEPT ![s] = Idle]
  BY <1>a, IdleTypes
<1>c. ASSUME NEW pc \in WorkerPc, Goto(s, pc)
      PROVE  worker'[s].row = worker[s].row /\ worker'[s].pc = pc
  BY <1>a, <1>c DEF Goto, Worker
<1>1. CASE UNCHANGED worker
  BY <1>1
<1>2. ~ProcessGone
  BY IdleTypes DEF ProcessGone
<1>3. ASSUME NEW t \in Shards, TakeItem(t) \/ Progress(t) \/ DbError(t), t # s
      PROVE  worker'[s] = worker[s]
  BY <1>a, <1>3, OtherWorkers
<1>4. ~TakeJob(s)
  <2>1. TakeJob(s) => worker'[s] = JobAt("taken", Head(queue[s]).row)
    BY <1>a DEF TakeJob
  <2>. QED BY <2>1 DEF JobAt
<1>5. CASE TakeFlush(s)
  <2>. DEFINE c    == Head(queue[s]).chat
              rows == parked[c]
  <2>1. c \in Chats /\ rows \in Seq(Rows)
    BY <1>a, <1>5, HeadItem DEF TakeFlush, ParkedTyped
  <2>2. CASE rows # <<>>
    <3>1. Len(rows) \in 1 .. Len(rows)
      BY <2>1, <2>2, EmptySeq
    <3>2. worker' = [worker EXCEPT ![s] =
                       [pc |-> "flushing", row |-> rows[Len(rows)],
                        files |-> {rows[i] : i \in 1 .. Len(rows)}]]
      BY <1>5, <2>2 DEF TakeFlush
    <3>3. worker'[s].row = rows[Len(rows)]
      BY <1>a, <3>2
    <3>. QED BY <1>5, <2>1, <3>1, <3>3 DEF TakeFlush, Parked, durable
  <2>3. CASE rows = <<>>
    BY <1>1, <1>5, <2>3 DEF TakeFlush
  <2>. QED BY <2>2, <2>3
<1>6. ~(\/ WorkerExits(s) \/ MarkProcessing(s) \/ HandlerSends(s)
        \/ HandlerParks(s))
  BY <1>c DEF WorkerExits, MarkProcessing, HandlerSends, HandlerParks, WorkerPc
<1>7. ~(MarkReplySent(s) \/ DeliveryFails(s))
  BY <1>b, <1>c DEF MarkReplySent, DeliveryFails, WorkerPc
<1>8. ~(JobMissing(s) \/ JobDone(s) \/ JobFails(s) \/ DbError(s) \/ FlushRaises(s))
  BY <1>b DEF JobMissing, JobDone, JobFails, DbError, JobOver, FlushRaises
<1>9. CASE FlushSends(s)
  BY <1>c, <1>9 DEF FlushSends, At, WorkerPc
<1>. QED
  BY <1>1, <1>2, <1>3, <1>4, <1>5, <1>6, <1>7, <1>8, <1>9, WorkerFrame
     DEF TakeItem, Progress, Handler

LEMMA FilesStep ==
    ASSUME CopiesInv, [Next]_vars
    PROVE  FilesNotPending'
<1>. USE DEF CopiesInv, ServiceInv, PinInv, FilesNotPending
<1>a. WorkersTyped /\ ParkedTyped /\ QueuesTyped
  BY TypeParts
\* It is enough that a file is not pending before the step, and known.
<1>b. ASSUME NEW r \in Rows, Known(r), ~Pending(r), ~Boot
      PROVE  ~Pending(r)'
  BY <1>b, NotClaimed, PendingFrame
<1>1. ASSUME NEW c \in Chats, NEW r \in Rows, Parked(r, c)'
      PROVE  ~Pending(r)'
  <2>1. CASE Parked(r, c)
    <3>1. ~Boot
      BY <2>1 DEF Parked, DownEmpty, Boot
    <3>. QED BY <1>b, <2>1, <3>1 DEF ParkedHome
  <2>2. CASE ~Parked(r, c)
    <3>1. ~UNCHANGED parked
      BY <1>1, <2>2 DEF Parked
    <3>2. ~(BeginDrain \/ ProcessGone)
      <4>1. BeginDrain \/ ProcessGone => Len(parked'[c]) = 0
        BY EmptySeq DEF BeginDrain, ProcessGone
      <4>. QED BY <1>1, <4>1 DEF Parked
    <3>3. ASSUME NEW s \in Shards, TakeFlush(s) PROVE FALSE
      <4>1. parked' = [parked EXCEPT ![Head(queue[s]).chat] = <<>>]
        BY <3>3 DEF TakeFlush
      <4>2. parked'[c] = parked[c] \/ Len(parked'[c]) = 0
        BY <1>a, <4>1, EmptySeq DEF ParkedTyped
      <4>. QED BY <1>1, <2>2, <4>2 DEF Parked
    <3>4. ASSUME NEW s \in Shards, HandlerParks(s) PROVE ~Pending(r)'
      <4>1. /\ worker[s].pc = "running"
            /\ parked' = [parked EXCEPT ![ChatOf(worker[s].row)] =
                            Append(@, worker[s].row)]
            /\ UNCHANGED inbox
        BY <3>4 DEF HandlerParks, At, durable
      <4>2. worker[s].row \in Rows
        BY <1>a, <4>1 DEF WorkersTyped, BusyHasRow, Busy
      <4>3. ASSUME NEW i \in 1 .. Len(parked'[c]), parked'[c][i] = r
            PROVE  r = worker[s].row
        <5>1. parked[c] \in Seq(Rows)
          BY <1>a DEF ParkedTyped
        <5>2. parked'[c] = Append(parked[c], worker[s].row)
          BY <1>a, <2>2, <4>1, <4>3 DEF ParkedTyped, Parked
        <5>3. /\ Len(parked[c]) \in Nat
              /\ Len(parked'[c]) = Len(parked[c]) + 1
              /\ \A k \in 1 .. Len(parked[c]) : parked'[c][k] = parked[c][k]
              /\ parked'[c][Len(parked[c]) + 1] = worker[s].row
          BY <4>2, <5>1, <5>2, AppendProperties, LenProperties
        <5>4. i \notin 1 .. Len(parked[c])
          BY <2>2, <4>3, <5>3 DEF Parked
        <5>. QED BY <4>3, <5>3, <5>4
      <4>4. ~Pending(r)
        BY <1>1, <4>1, <4>2, <4>3 DEF Parked, HeldNotPending
      <4>. QED BY <4>1, <4>4 DEF Pending
    <3>. QED BY <3>1, <3>2, <3>3, <3>4, ParkedFrame
  <2>. QED BY <2>1, <2>2
<1>2. ASSUME NEW s \in Shards, worker'[s].pc \in {"flushing", "flushSent"}
      PROVE  ~Pending(worker[s].row)'
  <2>1. CASE worker'[s].row = worker[s].row /\ worker[s].pc \in FlushPc
    <3>1. Busy(s) /\ worker[s] # Idle
      BY <2>1, IdleTypes DEF Busy, FlushPc
    <3>2. worker[s].row \in Rows /\ Known(worker[s].row)
      BY <1>a, <3>1 DEF WorkersTyped, BusyHasRow, WorkersHome
    <3>3. ~Boot /\ ~Pending(worker[s].row)
      BY <2>1, <3>1 DEF Boot, DownIdle, FlushPc
    <3>4. \A r \in Rows : r = worker[s].row => ~Pending(r)'
      BY <1>b, <3>2, <3>3
    <3>. QED BY <2>1, <3>2, <3>4 DEF Pending
  <2>2. ASSUME UNCHANGED inbox, NEW c \in Chats, Parked(worker'[s].row, c)
        PROVE  ~Pending(worker[s].row)'
    <3>1. worker'[s].row \in Rows
      <4>1. PICK i \in 1 .. Len(parked[c]) : parked[c][i] = worker'[s].row
        BY <2>2 DEF Parked
      <4>. QED BY <1>a, <4>1, ElementOfSeq DEF ParkedTyped
    <3>. QED BY <2>2, <3>1 DEF Pending
  <2>. QED BY <1>2, <2>1, <2>2, FlushFrom DEF FlushPc
<1>. QED BY <1>1, <1>2

LEMMA FreshStep ==
    ASSUME CopiesInv, [Next]_vars
    PROVE  PendingFresh'
<1>. USE DEF CopiesInv, ServiceInv, PinInv
<1>a. inbox \in [Rows -> Row] /\ WorkersTyped
  BY TypeParts DEF InboxTyped
<1> SUFFICES ASSUME NEW r \in Rows, Pending(r)'
             PROVE  ~inbox'[r].replied /\ inbox'[r].attempts < MaxAttempts
  BY DEF PendingFresh
<1>1. ASSUME NEW e \in Events, Claim(e), r = nextRow
      PROVE  ~inbox'[r].replied /\ inbox'[r].attempts < MaxAttempts
  BY <1>1, <1>a, MaxAttemptsAssumption DEF Claim, NewRow
<1>2. CASE Boot
  <2>1. inbox'[r] = [inbox[r] EXCEPT !.status = Recovered(r)]
    BY <1>2 DEF Boot
  <2>2. /\ Recovered(r) = "pending"
        /\ inbox'[r].replied = inbox[r].replied
        /\ inbox'[r].attempts = inbox[r].attempts
    BY <1>a, <2>1 DEF Pending, Row
  <2>3. ~inbox[r].replied /\ ~(inbox[r].attempts >= MaxAttempts)
    BY <2>2 DEF Recovered
  <2>4. inbox[r].attempts \in Nat
    BY <1>a DEF Row
  <2>. QED BY <2>2, <2>3, <2>4, MaxAttemptsAssumption
<1>3. CASE Pending(r) /\ ~Boot /\ ~(\E e \in Events : Claim(e) /\ r = nextRow)
  <2>1. ~inbox[r].replied /\ inbox[r].attempts < MaxAttempts
    BY <1>3 DEF PendingFresh
  <2>2. inbox'[r].attempts = inbox[r].attempts
    <3>1. inbox'[r].status \notin {"processing", "purged"}
      BY DEF Pending
    <3>. QED BY <1>3, <3>1, InboxMoves
  <2>3. inbox'[r].replied = inbox[r].replied
    <3>1. ASSUME NEW e \in Events, Claim(e) PROVE inbox'[r] = inbox[r]
      BY <1>3, <1>a, <3>1 DEF Claim
    <3>2. ASSUME NEW q \in Rows, RowAges(q)
          PROVE  inbox'[r].replied = inbox[r].replied
      BY <1>a, <3>2 DEF RowAges, Row
    <3>3. CASE Purge
      BY <1>a, <3>3 DEF Purge, Row
    <3>4. ASSUME NEW s \in Shards, MarkReplySent(s)
          PROVE  inbox'[r] = inbox[r]
      <4>1. worker[s].pc \in {"sent", "flushSent"} /\ Busy(s)
        BY <3>4 DEF MarkReplySent, At, Busy
      <4>2. worker[s].row # r
        BY <1>3, <4>1 DEF HeldNotPending, FilesNotPending
      <4>. QED BY <1>a, <3>4, <4>2 DEF MarkReplySent
    <3>5. ASSUME NEW s \in Shards, MarkProcessing(s)
          PROVE  inbox'[r].replied = inbox[r].replied
      BY <1>a, <3>5 DEF MarkProcessing, Row
    <3>6. ASSUME NEW s \in Shards, DeliveryFails(s) \/ JobDone(s)
          PROVE  inbox'[r].replied = inbox[r].replied
      BY <1>a, <3>6 DEF DeliveryFails, MarkDeliveryFailed, JobDone, SetStatus, Row
    <3>7. ASSUME NEW s \in Shards, JobFails(s)
          PROVE  inbox'[r] = inbox[r]
      <4>1. worker[s].row = r /\ Live(r) => inbox'[r].status = "failed"
        BY <1>a, <3>7 DEF JobFails, Row
      <4>2. worker[s].row # r \/ ~Live(r)
        BY <4>1 DEF Pending
      <4>. QED BY <1>a, <3>7, <4>2 DEF JobFails
    <3>. QED BY <1>3, <3>1, <3>2, <3>3, <3>4, <3>5, <3>6, <3>7, InboxFrame
  <2>. QED BY <2>1, <2>2, <2>3
<1>. QED BY <1>1, <1>2, <1>3, PendingFrame

\* One worker at most holds a row, or flushes it.
LEMMA OneWorker ==
    ASSUME PinInv, NEW r \in Rows, NEW s \in Shards, NEW t \in Shards,
           worker[s].row = r, worker[t].row = r, Busy(s), Busy(t)
    PROVE  s = t
BY DEF PinInv, WorkersHome

LEMMA WorksBusy ==
    ASSUME NEW s \in Shards, NEW r, Works(s, r)
    PROVE  /\ Busy(s) /\ worker[s].row = r
           /\ Holds(s, r) \/ (worker[s].pc = "flushing" /\ DeliveryFails(s))
BY DEF Works, MarkProcessing, DeliveryFails, JobDone, JobFails, InHandler, At,
       Busy, Holds

\* A pending row stays pending until the worker that holds it starts it.
LEMMA PendingKept ==
    ASSUME CopiesInv, [Next]_vars, NEW r \in Rows, Pending(r), ~Held(r), ~Boot
    PROVE  Pending(r)'
<1>. USE DEF CopiesInv, ServiceInv
<1>1. r # nextRow
  BY NotClaimed DEF PinInv, RowsKnown, Pending
<1>2. inbox[r].status \notin Finished
  BY DEF Pending, Finished
<1>3. ASSUME NEW s \in Shards, Works(s, r) PROVE FALSE
  <2>1. worker[s].pc = "flushing" /\ worker[s].row = r
    BY <1>3, WorksBusy DEF Held
  <2>. QED BY <2>1 DEF FilesNotPending
<1>. QED BY <1>1, <1>2, <1>3, InboxMoves DEF Pending, Works

\* A row that is raced for by nobody comes to a queue from submit_raw, or when
\* submit_raw has let go of it; then nothing else has it.
LEMMA SoloEnqueued ==
    ASSUME CopiesInv, [Next]_vars, NEW r \in Rows, r \notin raced', Solo(r),
           Enqueues(r)
    PROVE  /\ ~InQueue(r) /\ ~Held(r) /\ Pending(r) /\ r \notin intake'
           /\ UNCHANGED <<inbox, worker>>
<1>1. r \notin inflight
  BY DEF Solo, Enqueues, EnqueueClaimed
<1>2. ~InQueue(r) /\ ~Held(r)
  BY <1>1 DEF Solo
<1>3. CASE EnqueueClaimed(r)
  BY <1>2, <1>3 DEF Solo, EnqueueClaimed, durable
<1>4. CASE ~EnqueueClaimed(r)
  <2>1. EnqueueNext /\ r \notin intake /\ Pending(r) /\ UNCHANGED <<inbox, worker>>
    BY <1>4, RacedMoves DEF Enqueues
  <2>. QED BY <1>2, <2>1 DEF EnqueueNext
<1>. QED BY <1>3, <1>4

LEMMA SoloQueues ==
    ASSUME CopiesInv, [Next]_vars, NEW r \in Rows, r \notin raced', Solo(r)
    PROVE  /\ Once(Job(r))'
           /\ InQueue(r)' => ~Held(r)'
           /\ InQueue(r)' \/ Held(r)' => r \in inflight'
<1>. USE DEF CopiesInv, ServiceInv
<1>a. QueuesTyped /\ WorkersTyped
  BY TypeParts DEF PinInv
<1>1. CASE Enqueues(r) /\ inflight' = inflight \cup {r}
  <2>1. ~InQueue(r) /\ ~Held(r) /\ UNCHANGED worker
    BY <1>1, SoloEnqueued
  <2>2. Once(Job(r))'
    BY <2>1, QueueMoves DEF Solo
  <2>3. ~Held(r)'
    BY <2>1 DEF Held, Holds
  <2>. QED BY <1>1, <2>2, <2>3
<1>2. CASE /\ Once(Job(r))'
           /\ \A t \in Shards : Queued(Job(r), t)' => Queued(Job(r), t)
  <2>1. InQueue(r)' => InQueue(r)
    BY <1>2 DEF InQueue
\* A row is held because it was, or because it was the head of a queue.
  <2>2. ASSUME NEW s \in Shards, Holds(s, r)', ~Holds(s, r)
        PROVE  InQueue(r) /\ ~InQueue(r)'
    <3>1. TakeJob(s) /\ Head(queue[s]) = Job(r)
      BY <2>2, WorkerMoves
    <3>2. queue[s] # <<>> /\ queue' = [queue EXCEPT ![s] = Tail(@)]
      BY <3>1 DEF TakeJob
    <3>3. Queued(Job(r), s)
      BY <1>a, <3>1, <3>2, QueuedTail
    <3>4. ~Queued(Job(r), s)'
      BY <1>a, <3>1, <3>2, OnceTail DEF Solo
    <3>5. \A t \in Shards : Queued(Job(r), t) => t = s
      BY <3>3 DEF PinInv, QueuesHome
    <3>. QED BY <1>2, <3>3, <3>4, <3>5 DEF InQueue
  <2>3. Held(r)' /\ ~Held(r) => InQueue(r) /\ ~InQueue(r)'
    BY <2>2 DEF Held
  <2>4. InQueue(r)' => ~Held(r)'
    BY <2>1, <2>2 DEF Solo, Held
  <2>5. ASSUME r \in inflight, r \notin inflight'
        PROVE  ~InQueue(r)' /\ ~Held(r)'
    <3>1. CASE ProcessGone
      <4>1. \A t \in Shards : Len(queue'[t]) = 0 /\ worker'[t].pc = "idle"
        BY <3>1, EmptySeq, IdleTypes DEF ProcessGone
      <4>. QED BY <4>1 DEF InQueue, Queued, Held, Holds
    <3>2. ASSUME NEW s \in Shards, Leaves(s, r)
          PROVE  ~InQueue(r)' /\ ~Held(r)'
      <4>1. Holds(s, r) /\ worker' = [worker EXCEPT ![s] = Idle]
        BY <3>2 DEF Leaves, JobOver
      <4>2. ~InQueue(r)
        BY <4>1 DEF Solo, Held
      <4>3. ASSUME NEW t \in Shards, Holds(t, r)' PROVE FALSE
        <5>1. t # s
          BY <1>a, <4>1, <4>3, IdleTypes DEF WorkersTyped, Holds
        <5>2. worker'[t] = worker[t]
          BY <4>1, <5>1
        <5>3. Busy(s) /\ Busy(t) /\ worker[s].row = r /\ worker[t].row = r
          BY <4>1, <4>3, <5>2 DEF Holds, Busy
        <5>. QED BY <5>1, <5>3, OneWorker
      <4>. QED BY <2>1, <4>2, <4>3 DEF Held
    <3>. QED BY <2>5, <3>1, <3>2, InflightLeaves
  <2>. QED BY <1>2, <2>1, <2>3, <2>4, <2>5 DEF Solo
<1>. QED BY <1>1, <1>2, QueueMoves DEF Solo

\* A row that has just been taken was the head of a queue.
LEMMA TakenFrom ==
    ASSUME PinInv, [Next]_vars, NEW r \in Rows, Taken(r)'
    PROVE  Taken(r) \/ InQueue(r)
<1>1. PICK s \in Shards : worker'[s].pc = "taken" /\ worker'[s].row = r
  BY DEF Taken
<1>2. Holds(s, r)'
  BY <1>1 DEF Holds
<1>3. ASSUME TakeJob(s), Head(queue[s]) = Job(r)
      PROVE  InQueue(r)
  <2>1. /\ queue[s] # <<>> /\ queue' = [queue EXCEPT ![s] = Tail(@)]
        /\ QueuesTyped
    BY <1>3, TypeParts DEF TakeJob, PinInv
  <2>. QED BY <1>3, <2>1, QueuedTail DEF InQueue
<1>4. CASE worker'[s] = worker[s]
  BY <1>1, <1>4 DEF Taken
<1>. QED BY <1>1, <1>2, <1>3, <1>4, WorkerMoves

LEMMA SoloPending ==
    ASSUME CopiesInv, [Next]_vars, NEW r \in Rows, r \notin raced', Solo(r)
    PROVE  /\ r \in intake' => Pending(r)' /\ r \notin inflight'
           /\ InQueue(r)' \/ Taken(r)' => Pending(r)'
<1>. USE DEF CopiesInv, ServiceInv
<1>a. InflightKnown /\ WorkersTyped /\ QueuesTyped
  BY TypeParts DEF PinInv
<1>1. ASSUME r \in intake'
      PROVE  Pending(r)' /\ r \notin inflight'
  <2>1. ASSUME NEW e \in Events, Claim(e), r = nextRow
        PROVE  Pending(r)' /\ r \notin inflight'
    <3>1. r \notin inflight
      BY <1>a, <2>1, NotClaimed DEF InflightKnown
    <3>2. inbox'[r] = NewRow(e) /\ UNCHANGED inflight
      BY <2>1, TypeParts DEF Claim, PinInv, InboxTyped
    <3>. QED BY <3>1, <3>2 DEF Pending, NewRow
  <2>2. CASE r \in intake /\ ~EnqueueClaimed(r)
    <3>1. Pending(r) /\ r \notin inflight /\ ~Held(r)
      BY <2>2 DEF Solo
    <3>2. ~Boot
      BY <2>2 DEF DownEmpty, Boot
    <3>3. r \notin inflight'
      <4>1. ~Enqueues(r)
        BY <1>1, SoloEnqueued
      <4>2. ASSUME r \in inflight' PROVE FALSE
        <5>1. Waits(r)'
          BY <3>1, <4>2, InflightJoins
        <5>2. QueuesTyped'
          BY TypeStep DEF PinInv, TypeInv, TypeOK, QueuesTyped
        <5>3. WaitsIff'
          BY WaitsIf, PTL
        <5>4. (\E s \in Shards : Queued(Job(r), s)') \/ Taken(r)'
          BY <5>1, <5>2, <5>3 DEF WaitsIff
        <5>5. InQueue(r)' => InQueue(r)
          BY <4>1, QueueMoves DEF Solo, InQueue
        <5>6. Taken(r)' => InQueue(r) \/ Held(r)
          BY TakenFrom DEF Taken, Held, Holds
        <5>. QED BY <3>1, <5>4, <5>5, <5>6 DEF Solo, InQueue
      <4>. QED BY <4>2
    <3>. QED BY <3>1, <3>2, <3>3, PendingKept
  <2>. QED BY <1>1, <2>1, <2>2, IntakeMoves
<1>2. ASSUME InQueue(r)' \/ Taken(r)'
      PROVE  Pending(r)'
  <2>1. CASE Enqueues(r)
    BY <2>1, SoloEnqueued DEF Pending
  <2>2. CASE ~Enqueues(r)
    <3>1. InQueue(r) \/ Taken(r)
      <4>1. InQueue(r)' => InQueue(r)
        BY <2>2, QueueMoves DEF Solo, InQueue
      <4>. QED BY <1>2, <4>1, TakenFrom
    <3>2. Pending(r)
      BY <3>1 DEF Solo
    <3>3. ~Boot
      <4>1. phase = "down" => ~InQueue(r)
        BY DEF DownEmpty, InQueue, Queued
      <4>2. phase = "down" => ~Taken(r)
        BY IdleTypes DEF DownIdle, Taken
      <4>. QED BY <3>1, <4>1, <4>2 DEF Boot
    <3>4. CASE ~Held(r)
      BY <3>2, <3>3, <3>4, PendingKept
    <3>5. CASE Held(r)
      <4>1. ~InQueue(r) /\ Taken(r) /\ Taken(r)'
        <5>1. ~InQueue(r) /\ ~(InQueue(r)' /\ ~InQueue(r))
          BY <2>2, <3>5, QueueMoves DEF Solo, InQueue
        <5>. QED BY <1>2, <3>1, <5>1
      <4>2. PICK s \in Shards : worker'[s].pc = "taken" /\ worker'[s].row = r
        BY <4>1 DEF Taken
      <4>3. Holds(s, r) /\ worker'[s] = worker[s]
        <5>1. Holds(s, r)'
          BY <4>2 DEF Holds
        <5>2. ~(TakeJob(s) /\ Head(queue[s]) = Job(r))
          <6>1. TakeJob(s) => queue[s] # <<>> /\ queue' = [queue EXCEPT ![s] = Tail(@)]
            BY DEF TakeJob
          <6>. QED BY <1>a, <4>1, <6>1, QueuedTail DEF InQueue
        <5>. QED BY <4>2, <5>1, <5>2, WorkerMoves
\* So no worker does anything to the row.
      <4>4. ASSUME NEW t \in Shards, Works(t, r) PROVE FALSE
        <5>1. Busy(t) /\ worker[t].row = r
          BY <4>4, WorksBusy
        <5>2. Busy(s) /\ worker[s].row = r /\ worker[s].pc = "taken"
          BY <4>2, <4>3 DEF Busy
        <5>3. t = s
          BY <5>1, <5>2, OneWorker
        <5>4. MarkProcessing(s)
          BY <4>4, <5>2, <5>3 DEF Works, DeliveryFails, JobDone, JobFails, InHandler, At
        <5>5. worker'[s].pc = "running"
          BY <1>a, <5>4 DEF MarkProcessing, Goto, WorkersTyped, Worker
        <5>. QED BY <4>2, <5>5
      <4>5. r # nextRow /\ inbox[r].status \notin Finished
        BY <3>2, NotClaimed DEF PinInv, RowsKnown, Pending, Finished
      <4>. QED BY <3>2, <3>3, <4>4, <4>5, InboxMoves DEF Pending, Works
    <3>. QED BY <3>4, <3>5
  <2>. QED BY <2>1, <2>2
<1>. QED BY <1>1, <1>2

LEMMA SoloRuns ==
    ASSUME CopiesInv, [Next]_vars, NEW r \in Rows, r \notin raced', Solo(r)
    PROVE  RunsAs(r)' /\ inbox'[r].attempts <= MaxAttempts
<1>. USE DEF CopiesInv, ServiceInv
<1>a. WorkersTyped /\ inbox \in [Rows -> Row]
  BY TypeParts DEF PinInv, InboxTyped
<1>1. inbox'[r].attempts <= MaxAttempts
  <2>1. inbox[r].attempts \in Nat /\ inbox[r].attempts <= MaxAttempts
    BY <1>a DEF Solo, Row
  <2>2. ASSUME NEW s \in Shards, MarkProcessing(s), worker[s].row = r
        PROVE  inbox[r].attempts + 1 <= MaxAttempts
    <3>1. Taken(r)
      BY <2>2 DEF MarkProcessing, At, Taken
    <3>2. inbox[r].attempts < MaxAttempts
      BY <3>1 DEF Solo, PendingFresh
    <3>. QED BY <2>1, <3>2, MaxAttemptsAssumption
  <2>. QED BY <2>1, <2>2, InboxMoves, MaxAttemptsAssumption
<1>2. ASSUME NEW s \in Shards, worker'[s].row = r, worker'[s].pc \in HeldPc
      PROVE  /\ worker'[s].pc \in {"running", "sent"} =>
                  inbox'[r].status = "processing"
             /\ worker'[s].pc = "settled" =>
                  inbox'[r].status \in {"processing", "delivery_failed", "purged"}
  <2>1. Holds(s, r)'
    BY <1>2 DEF Holds, HeldPc
  <2>2. worker[s].row = r /\ Holds(s, r) /\ Busy(s) /\ r \in inflight
    <3>1. Holds(s, r)
      BY <1>2, <2>1, WorkerMoves DEF HeldPc
    <3>. QED BY <3>1 DEF Holds, Busy, Solo, Held
\* Whoever works on the row is s.
  <2>3. ASSUME NEW t \in Shards, Works(t, r) PROVE t = s
    BY <2>2, <2>3, WorksBusy, OneWorker
  <2>4. ~Boot /\ r # nextRow
    <3>1. phase # "down" /\ Known(r)
      BY <2>2 DEF DownIdle, InflightKnown
    <3>. QED BY <3>1, NotClaimed DEF Boot
  <2>5. ~(JobDone(s) \/ JobFails(s))
    <3>1. worker'[s] # Idle
      BY <1>2, IdleTypes DEF HeldPc
    <3>2. worker' # [worker EXCEPT ![s] = Idle]
      BY <1>a, <3>1 DEF WorkersTyped
    <3>. QED BY <3>2 DEF JobDone, JobFails, JobOver
  <2>6. CASE MarkProcessing(s)
    BY <1>a, <2>2, <2>6 DEF MarkProcessing, Row
  <2>7. CASE DeliveryFails(s)
    <3>1. worker[s].pc = "running" /\ inbox[r].status = "processing"
      BY <2>2, <2>7 DEF DeliveryFails, At, Holds, Solo, RunsAs
    <3>2. inbox'[r].status = "delivery_failed"
      BY <1>a, <2>2, <2>7, <3>1
         DEF DeliveryFails, MarkDeliveryFailed, SetStatus, Live, Row
    <3>3. worker'[s].pc = "settled"
      <4>1. worker[s] \in Worker /\ worker'[s] = [worker[s] EXCEPT !.pc = "settled"]
        BY <1>a, <2>7, <3>1 DEF DeliveryFails, At, Goto, WorkersTyped
      <4>. QED BY <4>1 DEF Worker
    <3>. QED BY <3>2, <3>3
  <2>8. CASE ~MarkProcessing(s) /\ ~DeliveryFails(s)
    <3>1. \/ inbox'[r].status = inbox[r].status
          \/ inbox[r].status \in Finished /\ inbox'[r].status = "purged"
      BY <2>3, <2>4, <2>5, <2>8, InboxMoves DEF Works
    <3>2. \/ worker'[s].pc = worker[s].pc
          \/ worker[s].pc \in {"running", "sent"}
      BY <1>2, <2>1, <2>8, WorkerMoves DEF HeldPc
    <3>3. /\ worker[s].pc \in {"running", "sent"} => inbox[r].status = "processing"
          /\ worker[s].pc = "settled" =>
               inbox[r].status \in {"processing", "delivery_failed", "purged"}
      BY <2>2 DEF Solo, RunsAs
    <3>4. \/ worker[s].pc = "settled" /\ worker'[s].pc = "settled"
          \/ worker[s].pc \in {"running", "sent"}
      BY <1>2, <3>2 DEF HeldPc
    <3>. QED BY <3>1, <3>3, <3>4 DEF Finished
  <2>. QED BY <2>6, <2>7, <2>8
<1>3. RunsAs(r)'
  BY <1>2 DEF RunsAs, HeldPc
<1>. QED BY <1>1, <1>3

LEMMA CopiesStep == CopiesInv /\ [Next]_vars => CopiesInv'
<1> SUFFICES ASSUME CopiesInv, [Next]_vars PROVE CopiesInv'
  OBVIOUS
<1>1. ServiceInv' /\ DownEmpty' /\ FilesNotPending' /\ PendingFresh'
  BY ServiceStep, DownEmptyStep, FilesStep, FreshStep DEF CopiesInv
<1>2. ASSUME NEW r \in Rows, r \notin raced'
      PROVE  Solo(r)'
  <2>1. Solo(r)
    BY <1>2, RacedMoves DEF CopiesInv
  <2>. QED BY <1>2, <2>1, SoloQueues, SoloPending, SoloRuns DEF Solo
<1>. QED BY <1>1, <1>2 DEF CopiesInv

-----------------------------------------------------------------------------
(* What it shows. *)

LEMMA CopiesAlways == Spec => []CopiesInv
BY CopiesInit, CopiesStep, PTL DEF Spec

\* recover_orphans and its attempts bound end every crash loop: for any number
\* of rows, boots and workers, a message no sweep raced for is started
\* MaxAttempts times at most.
THEOREM AttemptsAreBounded == Spec => []AttemptsBounded
<1>1. CopiesInv => AttemptsBounded
  BY DEF CopiesInv, Solo, AttemptsBounded
<1>. QED BY <1>1, CopiesAlways, PTL

LEMMA OneCopy ==
    ASSUME CopiesInv, NEW r \in Rows \ raced
    PROVE  Cardinality(Places(r)) + Cardinality(Holders(r)) <= 1
<1>. USE DEF CopiesInv, ServiceInv, PinInv
<1>a. QueuesTyped /\ Solo(r)
  BY TypeParts
<1>b. Cardinality({}) = 0 /\ \A x : Cardinality({x}) = 1
  BY FS_EmptySet, FS_Singleton
\* A place is where the job of r is queued.
<1>1. ASSUME NEW p \in Places(r)
      PROVE  /\ p[1] \in Shards /\ p[2] \in 1 .. Len(queue[p[1]])
             /\ queue[p[1]][p[2]] = Job(r) /\ p = <<p[1], p[2]>>
             /\ Queued(Job(r), p[1])
  <2>1. /\ p \in Shards \X (1 .. QueueMax)
        /\ p[2] <= Len(queue[p[1]]) /\ queue[p[1]][p[2]] = Job(r)
    BY <1>1 DEF Places
  <2>2. Len(queue[p[1]]) \in Nat
    BY <1>a, <2>1, LenProperties DEF QueuesTyped
  <2>. QED BY <2>1, <2>2, QueueMaxAssumption DEF Queued
<1>2. ASSUME NEW p \in Places(r), NEW q \in Places(r)
      PROVE  p = q
  <2>1. p[1] = q[1]
    BY <1>1, <1>2 DEF QueuesHome
  <2>2. p[2] = q[2]
    BY <1>a, <1>1, <1>2, <2>1 DEF Solo, Once
  <2>. QED BY <1>1, <1>2, <2>1, <2>2
<1>3. ASSUME NEW s \in Holders(r), NEW t \in Holders(r)
      PROVE  s = t
  BY <1>3, OneWorker DEF Holders, Holds, Busy
<1>4. Places(r) = {} \/ \E p : Places(r) = {p}
  BY <1>2
<1>5. Holders(r) = {} \/ \E s : Holders(r) = {s}
  BY <1>3
<1>6. Places(r) = {} \/ Holders(r) = {}
  BY <1>a, <1>1 DEF Solo, InQueue, Held, Holders
<1>7. /\ Cardinality(Places(r)) \in {0, 1} /\ Cardinality(Holders(r)) \in {0, 1}
      /\ Cardinality(Places(r)) = 0 \/ Cardinality(Holders(r)) = 0
  <2>1. Places(r) = {} => Cardinality(Places(r)) = 0
    BY <1>b
  <2>2. Holders(r) = {} => Cardinality(Holders(r)) = 0
    BY <1>b
  <2>3. (\E p : Places(r) = {p}) => Cardinality(Places(r)) = 1
    BY <1>b
  <2>4. (\E s : Holders(r) = {s}) => Cardinality(Holders(r)) = 1
    BY <1>b
  <2>. QED BY <1>4, <1>5, <1>6, <2>1, <2>2, <2>3, <2>4
<1>. QED BY <1>7

\* _sweep_stranded "skips ids currently queued or running": for any number of
\* rows, shards and workers a row has one copy, in a queue or with a worker,
\* as long as the sweep did not enqueue it while submit_raw still had it, or
\* from a result of list_pending that it had outlived.
THEOREM CopiesOnlyRaced == Spec => []OneCopyUnlessRaced
<1>1. CopiesInv => OneCopyUnlessRaced
  BY OneCopy DEF OneCopyUnlessRaced
<1>. QED BY <1>1, CopiesAlways, PTL

-----------------------------------------------------------------------------
(* The order within a chat. *)

\* q is a younger message of the chat of r.
Younger(q, r) == q > r /\ ChatOf(q) = ChatOf(r)

\* Wherever q is queued, r is queued before it, unless a worker has r already.
Ahead(r, q) ==
    \A s \in Shards : \A j \in 1 .. Len(queue[s]) : queue[s][j] = Job(q) =>
        Taken(r) \/ \E i \in 1 .. j - 1 : queue[s][i] = Job(r)

\* A pending row that never missed its turn is ahead of every younger message
\* of its chat: none is with a worker, and none is queued before it.
InOrder(r) ==
    Pending(r) /\ r \notin excused =>
        \A q \in Rows : Younger(q, r) => ~Held(q) /\ Ahead(r, q)
OrderInv == CopiesInv /\ \A r \in Rows : InOrder(r)

LEMMA OrderInit == Init => OrderInv
<1> SUFFICES ASSUME Init PROVE OrderInv
  OBVIOUS
<1>1. CopiesInv
  BY CopiesInit
<1>2. \A r \in Rows : ~Pending(r)
  BY DEF Init, Pending, FreeRow, NewRow
<1>. QED BY <1>1, <1>2 DEF OrderInv, InOrder

\* What a step does to one queue, place by place: nothing, or an item more at
\* its end, or its head taken.
EnqueuesNow(q) == /\ Enqueues(q) /\ phase = "up" /\ Known(q)
                  /\ excused' = excused \cup StillInIntake(q)
LEMMA QueueGrows ==
    ASSUME PinInv, [Next]_vars, ~ProcessGone, NEW t \in Shards
    PROVE  \/ queue'[t] = queue[t]
           \/ \E item \in Items :
                /\ queue'[t] = Append(queue[t], item)
                /\ \A q \in Rows : item = Job(q) => EnqueuesNow(q)
           \/ /\ TakeItem(t) /\ queue[t] # <<>>
              /\ queue'[t] = Tail(queue[t])
<1>. USE DEF PinInv
<1>a. queue \in [Shards -> Seq(Items)]
  BY TypeParts DEF QueuesTyped
<1>b. \A q : Job(q).kind = "job" /\ Job(q).row = q
  BY DEF Job
<1>c. Stop.kind = "stop" /\ \A c : Flush(c).kind = "flush"
  BY DEF Stop, Flush
<1>1. CASE UNCHANGED queue
  BY <1>1
<1>2. ASSUME NEW q \in Rows, EnqueueClaimed(q), queue' # queue
      PROVE  Put(HomeShard(q), Job(q)) /\ EnqueuesNow(q)
  BY <1>2 DEF EnqueueClaimed, Enqueue, EnqueuesNow, Enqueues, TrackedKnown,
              Tracked
<1>3. ASSUME EnqueueNext, queue' # queue
      PROVE  \E q \in Rows : Put(HomeShard(q), Job(q)) /\ EnqueuesNow(q)
  <2>1. PICK q \in batch : /\ batch' = batch \ {q} /\ phase = "up"
                           /\ q \notin inflight /\ Enqueue(q)
    BY <1>3 DEF EnqueueNext
  <2>2. /\ Put(HomeShard(q), Job(q))
        /\ excused' = excused \cup StillInIntake(q)
    BY <1>3, <2>1 DEF Enqueue
  <2>3. q \in Rows /\ Known(q)
    BY TypeParts DEF SetsTyped, TrackedKnown, Tracked
  <2>. QED BY <1>3, <2>1, <2>2, <2>3 DEF EnqueuesNow, Enqueues
<1>4. ASSUME NEW q \in Rows, Put(HomeShard(q), Job(q)), EnqueuesNow(q)
      PROVE  \/ queue'[t] = queue[t]
             \/ \E item \in Items :
                  /\ queue'[t] = Append(queue[t], item)
                  /\ \A x \in Rows : item = Job(x) => EnqueuesNow(x)
  <2>1. Job(q) \in Items /\ \A x \in Rows : Job(q) = Job(x) => x = q
    BY <1>b, ItemTypes
  <2>2. queue'[t] \in {queue[t], Append(queue[t], Job(q))}
    BY <1>a, <1>4 DEF Put
  <2>. QED BY <1>4, <2>1, <2>2
<1>5. ASSUME NEW c \in Chats, TimerFires(c)
      PROVE  \/ queue'[t] = queue[t]
             \/ queue'[t] = Append(queue[t], Flush(c))
  BY <1>a, <1>5 DEF TimerFires, Put
<1>6. BeginDrain => queue'[t] = Append(queue[t], Stop)
  BY DEF BeginDrain
<1>7. ASSUME NEW item \in Items, queue'[t] = Append(queue[t], item),
             item.kind # "job"
      PROVE  \A q \in Rows : item = Job(q) => EnqueuesNow(q)
  BY <1>b, <1>7
<1>8. ASSUME NEW s \in Shards, TakeItem(s)
      PROVE  \/ queue'[t] = queue[t]
             \/ /\ TakeItem(t) /\ queue[t] # <<>>
                /\ queue'[t] = Tail(queue[t])
  <2>1. queue[s] # <<>> /\ queue' = [queue EXCEPT ![s] = Tail(@)]
    BY <1>8 DEF TakeItem, TakeJob, TakeFlush, WorkerExits
  <2>. QED BY <1>a, <1>8, <2>1
<1>9. CASE \E c \in Chats : TimerFires(c)
  BY <1>c, <1>5, <1>7, <1>9, ItemTypes
<1>10. CASE BeginDrain
  BY <1>c, <1>6, <1>7, <1>10, ItemTypes
<1>. QED BY <1>1, <1>2, <1>3, <1>4, <1>8, <1>9, <1>10, QueueFrame

\* A row that no event has been given to gets nowhere.
LEMMA UnknownStays ==
    ASSUME PinInv, [Next]_vars, ~ProcessGone, NEW q \in Rows, ~Known(q)
    PROVE  ~Held(q)' /\ \A s \in Shards : ~Queued(Job(q), s)'
<1>a. QueuesTyped
  BY TypeParts DEF PinInv
<1>1. ~Held(q)
  BY DEF PinInv, WorkersHome, Held, Holds, Busy
<1>2. \A s \in Shards : ~Queued(Job(q), s)
  BY DEF PinInv, QueuesHome
<1>3. ASSUME NEW s \in Shards, TakeJob(s) PROVE Head(queue[s]) # Job(q)
  <2>1. queue[s] # <<>> /\ queue' = [queue EXCEPT ![s] = Tail(@)]
    BY <1>3 DEF TakeJob
  <2>. QED BY <1>a, <1>2, <2>1, QueuedTail
<1>4. ~Held(q)'
  BY <1>1, <1>3, WorkerMoves DEF Held
<1>5. ASSUME NEW s \in Shards, NEW j \in 1 .. Len(queue'[s]),
             queue'[s][j] = Job(q)
      PROVE  FALSE
  <2>a. queue[s] \in Seq(Items) /\ Len(queue[s]) \in Nat
    BY <1>a, LenProperties DEF QueuesTyped
  <2>1. CASE queue'[s] = queue[s]
    BY <1>2, <1>5, <2>1 DEF Queued
  <2>2. ASSUME NEW item \in Items, queue'[s] = Append(queue[s], item),
               item # Job(q)
        PROVE  FALSE
    <3>1. /\ Len(queue'[s]) = Len(queue[s]) + 1
          /\ queue'[s][Len(queue[s]) + 1] = item
          /\ \A k \in 1 .. Len(queue[s]) : queue'[s][k] = queue[s][k]
      BY <2>2, <2>a, AppendProperties
    <3>. QED BY <1>2, <1>5, <2>2, <2>a, <3>1 DEF Queued
  <2>3. CASE queue[s] # <<>> /\ queue'[s] = Tail(queue[s])
    <3>1. /\ Len(queue'[s]) = Len(queue[s]) - 1
          /\ \A k \in 1 .. Len(queue'[s]) : queue'[s][k] = queue[s][k + 1]
      BY <2>3, <2>a, HeadTailProperties
    <3>2. j + 1 \in 1 .. Len(queue[s]) /\ queue[s][j + 1] = Job(q)
      BY <1>5, <2>a, <3>1
    <3>. QED BY <1>2, <3>2 DEF Queued
  <2>. QED BY <2>1, <2>2, <2>3, QueueGrows DEF EnqueuesNow
<1>. QED BY <1>4, <1>5 DEF Queued

\* A worker that has taken a row is at its shard.
LEMMA TakenHome ==
    ASSUME PinInv, NEW r \in Rows, Taken(r)
    PROVE  worker[HomeShard(r)].pc = "taken"
BY DEF Taken, PinInv, WorkersHome, Busy

\* A row that is enqueued finds every older pending message of its chat ahead of
\* it, unless that one is in submit_raw or has missed its turn.
LEMMA EnqueuedBehind ==
    ASSUME CopiesInv, [Next]_vars, NEW r \in Rows, NEW q \in Rows,
           Pending(r), r \notin excused', r \notin excused, Younger(q, r),
           EnqueuesNow(q)
    PROVE  /\ Taken(r) \/ Queued(Job(r), HomeShard(q))
           /\ UNCHANGED worker
           /\ r # q
<1>. USE DEF CopiesInv, ServiceInv
<1>a. QueuesTyped /\ \A x \in Rows : x \in Nat
  BY TypeParts, MaxRowsAssumption DEF PinInv, Rows
<1>1. UNCHANGED worker
  BY DEF EnqueuesNow, Enqueues, EnqueueClaimed, EnqueueNext
<1>2. r < q /\ r # q /\ HomeShard(r) = HomeShard(q)
  BY <1>a DEF Younger, HomeShard
<1>3. CASE Waits(r)
  BY <1>a, <1>1, <1>2, <1>3, WaitsIf DEF WaitsIff, PinInv, QueuesHome
<1>4. r \notin batch
  <2>1. CASE EnqueueClaimed(q)
    BY <2>1 DEF EnqueueClaimed, LoopFree
  <2>2. CASE EnqueueNext /\ q \in batch /\ q \notin batch'
    <3>1. PICK x \in batch : (\A y \in batch : x <= y) /\ batch' = batch \ {x}
      BY <2>2 DEF EnqueueNext
    <3>2. x = q
      BY <2>2, <3>1
    <3>. QED BY <1>a, <1>2, <3>1, <3>2
  <2>. QED BY <2>1, <2>2 DEF EnqueuesNow, Enqueues
<1>5. r \notin intake
  BY <1>2 DEF StillInIntake, Younger, EnqueuesNow
<1>. QED BY <1>1, <1>2, <1>3, <1>4, <1>5 DEF NeverStranded, EnqueuesNow

LEMMA OrderKept ==
    ASSUME OrderInv, [Next]_vars, NEW r \in Rows, NEW q \in Rows,
           Pending(r), Pending(r)', r \notin excused, r \notin excused',
           ~ProcessGone, Younger(q, r)
    PROVE  ~Held(q)' /\ Ahead(r, q)'
<1>. USE DEF OrderInv, CopiesInv, ServiceInv
<1>a. /\ ~Held(q) /\ Ahead(r, q)
      /\ PinInv /\ QueuesTyped /\ HomeShard(q) = HomeShard(r)
  BY TypeParts DEF InOrder, Younger, HomeShard, PinInv
<1>b. Taken(r) => Taken(r)'
  <2>1. ~LosesTurn(r)
    BY DEF LosesTurn, DbError
  <2>. QED BY <1>a, <2>1, TakenStep
\* No worker takes q from the head of its queue.
<1>1. ~Held(q)'
  <2>1. ASSUME NEW s \in Shards, TakeJob(s), Head(queue[s]) = Job(q)
        PROVE  FALSE
    <3>1. queue[s] # <<>> /\ worker[s].pc = "idle"
      BY <2>1 DEF TakeJob, At
    <3>2. 1 \in 1 .. Len(queue[s]) /\ queue[s][1] = Job(q)
      BY <1>a, <2>1, <3>1, EmptySeq DEF QueuesTyped
    <3>3. HomeShard(q) = s
      BY <1>a, <3>2 DEF Queued, PinInv, QueuesHome
    <3>4. ~Taken(r)
      BY <1>a, <3>1, <3>3, TakenHome
    <3>. QED BY <1>a, <3>2, <3>4 DEF Ahead
  <2>. QED BY <1>a, <2>1, WorkerMoves DEF Held
<1>2. ASSUME NEW s \in Shards, NEW j \in 1 .. Len(queue'[s]),
             queue'[s][j] = Job(q), ~Taken(r)'
      PROVE  \E i \in 1 .. j - 1 : queue'[s][i] = Job(r)
  <2>a. queue[s] \in Seq(Items) /\ Len(queue[s]) \in Nat /\ ~Taken(r)
    BY <1>a, <1>b, <1>2, LenProperties DEF QueuesTyped
  <2>1. CASE queue'[s] = queue[s]
    BY <1>a, <1>2, <2>1, <2>a DEF Ahead
  <2>2. ASSUME NEW item \in Items, queue'[s] = Append(queue[s], item),
               \A x \in Rows : item = Job(x) => EnqueuesNow(x)
        PROVE  \E i \in 1 .. j - 1 : queue'[s][i] = Job(r)
    <3>1. /\ Len(queue'[s]) = Len(queue[s]) + 1
          /\ queue'[s][Len(queue[s]) + 1] = item
          /\ \A k \in 1 .. Len(queue[s]) : queue'[s][k] = queue[s][k]
      BY <2>2, <2>a, AppendProperties
    <3>2. CASE j \in 1 .. Len(queue[s])
      <4>1. PICK i \in 1 .. j - 1 : queue[s][i] = Job(r)
        BY <1>a, <1>2, <2>a, <3>1, <3>2 DEF Ahead
      <4>. QED BY <2>a, <3>1, <3>2, <4>1
    <3>3. CASE j = Len(queue[s]) + 1
      <4>1. EnqueuesNow(q)
        BY <1>2, <2>2, <3>1, <3>3
      <4>2. Queued(Job(r), HomeShard(q))
        BY <2>a, <4>1, EnqueuedBehind
      <4>3. HomeShard(q) = s
        <5>1. PinInv'
          BY <1>a, PinStep
        <5>2. HomeShard(q)' = s
          BY <1>2, <5>1 DEF PinInv, QueuesHome, Queued
        <5>. QED BY <1>a, <4>1, <5>2, PinKept DEF EnqueuesNow
      <4>4. PICK i \in 1 .. Len(queue[s]) : queue[s][i] = Job(r)
        BY <4>2, <4>3 DEF Queued
      <4>. QED BY <2>a, <3>1, <3>3, <4>4
    <3>. QED BY <1>2, <2>a, <3>1, <3>2, <3>3
  <2>3. CASE /\ TakeItem(s) /\ queue[s] # <<>>
             /\ queue'[s] = Tail(queue[s])
    <3>1. /\ Len(queue'[s]) = Len(queue[s]) - 1
          /\ \A k \in 1 .. Len(queue'[s]) : queue'[s][k] = queue[s][k + 1]
          /\ Head(queue[s]) = queue[s][1]
      BY <2>3, <2>a, HeadTailProperties
    <3>2. j + 1 \in 1 .. Len(queue[s]) /\ queue[s][j + 1] = Job(q)
      BY <1>2, <2>a, <3>1
    <3>3. PICK i \in 1 .. j : queue[s][i] = Job(r)
      BY <1>a, <2>a, <3>2 DEF Ahead
    <3>4. i # 1
      <4>1. ASSUME i = 1 PROVE FALSE
        <5>1. Head(queue[s]).kind = "job" /\ Head(queue[s]).row = r
          BY <3>1, <3>3, <4>1 DEF Job
        <5>2. worker'[s] = JobAt("taken", r)
          BY <1>a, <2>3, <5>1, TypeParts DEF TakeItem, TakeJob, TakeFlush,
             WorkerExits, WorkersTyped, PinInv
        <5>. QED BY <1>2, <5>2 DEF Taken, JobAt
      <4>. QED BY <4>1
    <3>5. i - 1 \in 1 .. j - 1 /\ queue'[s][i - 1] = queue[s][i]
      <4>1. i \in Nat /\ j \in Nat /\ i >= 1 /\ i <= j
            /\ Len(queue[s]) \in Nat /\ j <= Len(queue'[s])
        BY <1>2, <3>1, <3>3
      <4>2. i - 1 \in 1 .. j - 1 /\ i - 1 + 1 = i
        BY ONLY <3>4, <4>1
      <4>3. i - 1 \in 1 .. Len(queue'[s])
        BY ONLY <3>1, <4>1, <4>2
      <4>4. queue'[s][i - 1] = queue[s][i - 1 + 1]
        BY ONLY <3>1, <4>3
      <4>. QED BY ONLY <4>2, <4>4
    <3>. QED BY <3>3, <3>5
  <2>. QED BY <1>a, <2>1, <2>2, <2>3, QueueGrows
<1>3. Ahead(r, q)'
  BY <1>2 DEF Ahead
<1>. QED BY <1>1, <1>3

LEMMA OrderStep == OrderInv /\ [Next]_vars => OrderInv'
<1> SUFFICES ASSUME OrderInv, [Next]_vars PROVE OrderInv'
  OBVIOUS
<1>. USE DEF OrderInv, CopiesInv, ServiceInv
<1>a. CopiesInv' /\ PinInv' /\ PinInv
  BY CopiesStep
<1> SUFFICES ASSUME NEW r \in Rows, Pending(r)', r \notin excused',
                    NEW q \in Rows, Younger(q, r)'
             PROVE  ~Held(q)' /\ Ahead(r, q)'
  BY <1>a DEF InOrder
\* While the process is down, and when it starts, nothing is held or queued.
<1>1. CASE phase' = "down"
  <2>1. DownIdle' /\ DownEmpty'
    BY <1>a
  <2>2. \A s \in Shards : worker'[s].pc = "idle" /\ Len(queue'[s]) = 0
    BY <1>1, <2>1, IdleTypes DEF DownIdle, DownEmpty
  <2>. QED BY <2>2 DEF Held, Holds, Ahead
<1>2. CASE Boot
  <2>1. \A s \in Shards : worker'[s].pc = "idle" /\ Len(queue'[s]) = 0
    BY <1>2, IdleTypes DEF Boot, DownIdle, DownEmpty
  <2>. QED BY <2>1 DEF Held, Holds, Ahead
\* A row that is held or queued has an event, and no row younger than a claim
\* has.
<1>3. ASSUME NEW e \in Events, Claim(e), r = nextRow
      PROVE  ~Held(q)' /\ Ahead(r, q)'
  <2>1. r \in Nat /\ q \in Nat /\ nextRow' = r + 1 /\ q > r
    BY <1>3, MaxRowsAssumption DEF Claim, Rows, Younger
  <2>2. ~Known(q)'
    BY <1>a, <2>1 DEF PinInv, RowsKnown
  <2>3. ~Held(q)'
    BY <1>a, <2>2 DEF PinInv, WorkersHome, Held, Holds, Busy
  <2>4. \A s \in Shards : ~Queued(Job(q), s)'
    BY <1>a, <2>2 DEF PinInv, QueuesHome
  <2>. QED BY <2>3, <2>4 DEF Ahead, Queued
<1>4. CASE Pending(r) /\ phase' # "down" /\ ~Boot
  <2>1. r \notin excused /\ ~ProcessGone
    BY <1>4, ExcusedKept DEF ProcessGone
  <2>2. CASE Younger(q, r)
    BY <1>4, <2>1, <2>2, OrderKept
  <2>3. CASE ~Younger(q, r)
    <3>1. ~Known(q)
      <4>1. Known(r)
        BY <1>4 DEF PinInv, RowsKnown, Pending
      <4>. QED BY <2>3, <4>1, PinKept DEF Younger
    <3>. QED BY <2>1, <3>1, UnknownStays DEF Ahead, Queued
  <2>. QED BY <2>2, <2>3
<1>. QED BY <1>1, <1>2, <1>3, <1>4, PendingFrame

\* "FIFO per shard plus one worker per shard keeps a chat in order": a younger
\* message is handled before a pending older one only when that one met a full
\* queue, a failed repository call, or a submit_raw that resumed late; for any
\* number of chats, shards, rows, sweeps and restarts.
THEOREM PerChatOrder == Spec => []FifoUnlessExcused
<1>1. OrderInv => FifoUnlessExcused
  BY DEF OrderInv, InOrder, FifoUnlessExcused, Overtaken, Younger, Held
<1>. QED BY OrderInit, OrderStep, <1>1, PTL DEF Spec
=============================================================================
