------------------------------ MODULE Pipeline ------------------------------
(***************************************************************************)
(* The durable job pipeline of line-connect: webhook intake, the SQLite    *)
(* inbox, the sharded in-memory queues with one worker each, the stranded- *)
(* row sweep, retention, graceful drain, crash and startup recovery.       *)
(*                                                                         *)
(* One event loop runs all coroutines; every repository call runs in a     *)
(* thread (asyncio.to_thread), so each such call is a step of its own and  *)
(* anything may happen between its commit and the code after the await.    *)
(* Code without an await is one step.  The one exception, for readability  *)
(* and proof, is the enqueueing loop of the sweep and of recovery: it      *)
(* takes one step per row, and no other coroutine runs while "batch" is    *)
(* not empty (LoopFree).                                                   *)
(*                                                                         *)
(* A handler run is abstracted to what the pipeline can observe of it: it  *)
(* delivers one answer, fails to deliver it, parks a media file in the     *)
(* debounce buffer, returns, raises, or is cut off by the job timeout.     *)
(***************************************************************************)
EXTENDS Naturals, Sequences, FiniteSets

CONSTANTS
    Chats,        \* chat_key values
    Events,       \* dedup_key values LINE may deliver, any number of times
    NoEvent,      \* the event of a row id not used yet
    EventChat,    \* the chat each event belongs to
    Outcomes,     \* what a handler run may come to: see AllOutcomes
    MediaEvents,  \* events whose handler parks a file in the debounce buffer
    Shards,       \* worker indices
    ShardOf,      \* crc32(chat_key) % worker_count
    QueueMax,     \* settings.queue_max_size
    MaxAttempts,  \* recover_orphans(max_attempts)
    MaxIntake,    \* bound: submit_raw calls in progress at once
    MaxRows,      \* bound: inbox rows ever inserted
    MaxAge,       \* bound: 1 = past the recovery window, 2 = past retention
    MaxRestarts,  \* bound: times the process ends
    DbFaults      \* may a repository call raise?

ASSUME EventAssumption == NoEvent \notin Events
ASSUME ChatAssumption == EventChat \in [Events -> Chats]
\* A handler answers its event, fails to deliver the answer, has nothing to
\* say, or raises (or exceeds the job timeout).
AllOutcomes == {"answers", "undelivered", "silent", "fails"}
ASSUME OutcomesAssumption == Outcomes \subseteq AllOutcomes

ASSUME MediaAssumption == MediaEvents \subseteq Events
ASSUME ShardAssumption == ShardOf \in [Chats -> Shards]
ASSUME QueueMaxAssumption == QueueMax \in Nat \ {0}
ASSUME MaxAttemptsAssumption == MaxAttempts \in Nat \ {0}
ASSUME MaxIntakeAssumption == MaxIntake \in Nat
ASSUME MaxRowsAssumption == MaxRows \in Nat
ASSUME MaxAgeAssumption == MaxAge \in 0 .. 2
ASSUME MaxRestartsAssumption == MaxRestarts \in Nat
ASSUME DbFaultsAssumption == DbFaults \in BOOLEAN

Rows == 1 .. MaxRows
NoRow == 0

VARIABLES
    inbox,      \* durable: the inbox table, a record per row id
    nextRow,    \* durable: the AUTOINCREMENT counter
    restarts,   \* how often the process has ended
    phase,      \* of the process: "down", "up" or "draining"
    queue,      \* Pipeline._queues: a bounded FIFO per shard
    worker,     \* where each worker's coroutine is, and the row it holds
    inflight,   \* Pipeline._inflight
    intake,     \* rows claimed by submit_raw, not yet handed to _enqueue
    snapshot,   \* what list_pending returned to a sweep that has not resumed
    batch,      \* rows left to enqueue in the running sweep or recovery loop
    parked,     \* MediaDebouncer._buffers: per chat, the job ids of its files
    timer,      \* chats whose debounce timer is armed
    answers,    \* history: answers the user received per event (capped at 2)
    excused,    \* history of this boot: rows that missed their turn, or whose
                \* worker gave up on them when a repository call raised
    raced,      \* history: rows a sweep enqueued that were not its to enqueue
    unrecorded  \* history: unfinished rows answered without a reply_sent_at

durable == <<inbox, nextRow, restarts>>
media   == <<parked, timer>>
history == <<answers, excused, raced, unrecorded>>
vars    == <<inbox, nextRow, restarts, phase, queue, worker, inflight, intake, snapshot,
             batch, parked, timer, answers, excused, raced, unrecorded>>

-----------------------------------------------------------------------------
(* Data. *)

Finished == {"done", "failed", "abandoned", "delivery_failed"}
Statuses == {"none", "pending", "processing", "purged"} \cup Finished

Row == [status : Statuses, event : Events \cup {NoEvent}, attempts : Nat,
        replied : BOOLEAN, age : 0 .. 2]
NewRow(e) == [status |-> "pending", event |-> e, attempts |-> 0,
              replied |-> FALSE, age |-> 0]
FreeRow == [NewRow(NoEvent) EXCEPT !.status = "none"]

Live(r)    == inbox[r].status \notin {"none", "purged"}
Pending(r) == inbox[r].status = "pending"
ChatOf(r)  == EventChat[inbox[r].event]

\* Queue items: an inbox row id, a FlushMedia, or the drain sentinel (None).
Job(r)   == [kind |-> "job", row |-> r]
Flush(c) == [kind |-> "flush", chat |-> c]
Stop     == [kind |-> "stop"]
Items    == [kind : {"job"}, row : Rows] \cup [kind : {"flush"}, chat : Chats]
              \cup {Stop}

WorkerPc == {"idle", "taken", "running", "sent", "settled", "flushing",
             "flushSent", "exited"}
JobAt(pc, r) == [pc |-> pc, row |-> r, files |-> {r}]
Idle == [pc |-> "idle", row |-> NoRow, files |-> {}]
Holds(s, r) == worker[s].pc \notin {"idle", "flushing", "flushSent", "exited"}
               /\ worker[s].row = r

\* Rows worker s has just answered, with reply_sent_at yet to be written, which
\* recovery would still run again.
AnswerOut(s) ==
    {r \in worker[s].files : /\ worker[s].pc \in {"sent", "flushSent"}
                             /\ inbox[r].status = "processing"}

LoopFree == phase # "down" /\ batch = {}
Goto(s, pc) == worker' = [worker EXCEPT ![s].pc = pc]
At(s, pc) == LoopFree /\ worker[s].pc = pc
\* Fault: the shard depends on the row.
UnpinnedShard(r) == IF r % 2 = 0 \/ Cardinality(Shards) = 1
    THEN ShardOf[ChatOf(r)]
    ELSE CHOOSE s \in Shards : s # ShardOf[ChatOf(r)]
\* shard_of
HomeShard(r) == ShardOf[ChatOf(r)]

Put(s, item) == queue' = [queue EXCEPT ![s] = Append(@, item)]
\* An UPDATE of a row that retention has deleted does nothing.
SetStatus(r, st) ==
    inbox' = IF Live(r) THEN [inbox EXCEPT ![r].status = st] ELSE inbox
Answered(rows) ==
    answers' = [e \in Events |->
        IF \E r \in rows : inbox[r].event = e /\ answers[e] < 2
          THEN answers[e] + 1 ELSE answers[e]]

Init ==
    /\ inbox = [r \in Rows |-> FreeRow]
    /\ nextRow = 1
    /\ restarts = 0
    /\ phase = "down"
    /\ queue = [s \in Shards |-> <<>>]
    /\ worker = [s \in Shards |-> Idle]
    /\ inflight = {}
    /\ intake = {}
    /\ snapshot = {}
    /\ batch = {}
    /\ parked = [c \in Chats |-> <<>>]
    /\ timer = {}
    /\ answers = [e \in Events |-> 0]
    /\ excused = {}
    /\ raced = {}
    /\ unrecorded = {}

-----------------------------------------------------------------------------
(* Intake and the queue. *)

\* submit_raw up to the commit of try_claim_event: the UNIQUE dedup_key makes a
\* redelivery of an event that still has a row a no-op.
Claim(e) ==
    /\ LoopFree
    /\ nextRow <= MaxRows /\ Cardinality(intake) < MaxIntake
    /\ \A r \in Rows : Live(r) => inbox[r].event # e
    /\ inbox' = [inbox EXCEPT ![nextRow] = NewRow(e)]
    /\ nextRow' = nextRow + 1
    /\ intake' = intake \cup {nextRow}
    /\ UNCHANGED <<restarts, phase, queue, worker, inflight, snapshot, batch,
                   media, history>>

\* Rows of r's chat, older than r, whose submit_raw has not resumed yet and which
\* no raced sweep has brought to a worker either.
StillInIntake(r) == {q \in intake : q < r /\ ChatOf(q) = ChatOf(r) /\ Pending(q)}

\* Faults: the bound is forgotten; the row is marked before put_nowait raises;
\* draining is not looked at.
EnqueueUnbounded(r) ==
    /\ IF phase = "up" THEN /\ Put(HomeShard(r), Job(r))
                            /\ inflight' = inflight \cup {r}
                       ELSE UNCHANGED <<queue, inflight>>
    /\ UNCHANGED excused
EnqueueMarksFirst(r) ==
    /\ IF phase = "up" /\ Len(queue[HomeShard(r)]) < QueueMax
         THEN Put(HomeShard(r), Job(r)) /\ UNCHANGED excused
         ELSE UNCHANGED queue /\ excused' = IF Pending(r) THEN excused \cup {r} ELSE excused
    /\ inflight' = inflight \cup {r}
EnqueueWhileDraining(r) ==
    /\ IF Len(queue[HomeShard(r)]) < QueueMax
         THEN Put(HomeShard(r), Job(r)) /\ inflight' = inflight \cup {r}
         ELSE UNCHANGED <<queue, inflight>>
    /\ UNCHANGED excused

\* _enqueue: refused while draining, dropped when the shard's queue is full.
Enqueue(r) ==
    LET s == HomeShard(r) IN
    \/ /\ phase = "draining"
       /\ UNCHANGED <<queue, inflight, excused>>
    \/ /\ phase = "up" /\ Len(queue[s]) < QueueMax
       /\ Put(s, Job(r))
       /\ inflight' = inflight \cup {r}
       /\ excused' = excused \cup StillInIntake(r)
    \/ /\ phase = "up" /\ Len(queue[s]) >= QueueMax
       /\ excused' = IF Pending(r) THEN excused \cup {r} ELSE excused
       /\ UNCHANGED <<queue, inflight>>

\* submit_raw after the await.
EnqueueClaimed(r) ==
    /\ LoopFree
    /\ r \in intake
    /\ Enqueue(r)
    /\ intake' = intake \ {r}
    /\ UNCHANGED <<durable, phase, worker, snapshot, batch, media, answers,
                   raced, unrecorded>>

\* submit_flush, called by a debounce timer: dropped while draining, and dropped
\* for good when the queue is full (the buffer keeps its files, without a timer).
TimerFires(c) ==
    LET s == ShardOf[c] IN
    /\ LoopFree
    /\ c \in timer
    /\ timer' = timer \ {c}
    /\ IF phase = "up" /\ Len(queue[s]) < QueueMax
         THEN Put(s, Flush(c)) ELSE UNCHANGED queue
    /\ UNCHANGED <<durable, phase, worker, inflight, intake, snapshot, batch,
                   parked, history>>

-----------------------------------------------------------------------------
(* Housekeeping. *)

\* The thread part of _sweep_stranded: list_pending.
SweepReads ==
    /\ LoopFree /\ phase = "up" /\ snapshot = {}
    /\ snapshot' = {r \in Rows : Pending(r)}
    /\ snapshot' # {}
    /\ UNCHANGED <<durable, phase, queue, worker, inflight, intake, batch,
                   media, history>>

\* The sweep resumes with that list: its loop runs without an await.
SweepResumes ==
    /\ LoopFree /\ snapshot # {}
    /\ batch' = snapshot
    /\ snapshot' = {}
    /\ UNCHANGED <<durable, phase, queue, worker, inflight, intake, media,
                   history>>

\* Fault: the loop does not look at _inflight.
EnqueueNextBlindly ==
    /\ phase = "up"
    /\ \E r \in batch :
         /\ \A q \in batch : r <= q
         /\ batch' = batch \ {r}
         /\ Enqueue(r)
         /\ raced' = IF r \in intake \/ ~Pending(r)
                       THEN raced \cup {r} ELSE raced
    /\ UNCHANGED <<durable, phase, worker, intake, snapshot, media, answers,
                   unrecorded>>

\* One turn of the loop of a sweep, or of start(), whose rows are never in
\* _inflight.  Rows come oldest first (ORDER BY id).
EnqueueNext ==
    /\ phase = "up"
    /\ \E r \in batch :
         /\ \A q \in batch : r <= q
         /\ batch' = batch \ {r}
         /\ \/ r \in inflight /\ UNCHANGED <<queue, inflight, excused, raced>>
            \/ /\ r \notin inflight
               /\ Enqueue(r)
               /\ raced' = IF r \in intake \/ ~Pending(r)
                             THEN raced \cup {r} ELSE raced
    /\ UNCHANGED <<durable, phase, worker, intake, snapshot, media, answers,
                   unrecorded>>

\* purge_expired: finished rows past retention are deleted.
Expired(r) == inbox[r].status \in Finished /\ inbox[r].age = 2
Purge ==
    /\ LoopFree /\ phase = "up"
    /\ \E r \in Rows : Expired(r)
    /\ inbox' = [r \in Rows |-> IF Expired(r)
                   THEN [inbox[r] EXCEPT !.status = "purged"] ELSE inbox[r]]
    /\ UNCHANGED <<nextRow, restarts, phase, queue, worker, inflight, intake, snapshot,
                   batch, media, history>>

\* Time passes: enqueued_at of row r falls behind the next cutoff, after those
\* of all older rows.
RowAges(r) ==
    /\ Live(r) /\ inbox[r].age < MaxAge
    /\ \A q \in Rows : q < r /\ Live(q) => inbox[q].age > inbox[r].age
    /\ inbox' = [inbox EXCEPT ![r].age = @ + 1]
    /\ UNCHANGED <<nextRow, restarts, phase, queue, worker, inflight, intake, snapshot,
                   batch, media, history>>

-----------------------------------------------------------------------------
(* Workers: _worker_loop and _process. *)

\* q.get() returns a row id.
TakeJob(s) ==
    /\ At(s, "idle") /\ queue[s] # <<>> /\ Head(queue[s]).kind = "job"
    /\ worker' = [worker EXCEPT ![s] =
                    JobAt("taken", Head(queue[s]).row)]
    /\ queue' = [queue EXCEPT ![s] = Tail(@)]
    /\ UNCHANGED <<durable, phase, inflight, intake, snapshot, batch, media,
                   history>>

\* The finally clause: _inflight.discard, and back to q.get().
JobOver(s) ==
    /\ inflight' = inflight \ {worker[s].row}
    /\ worker' = [worker EXCEPT ![s] = Idle]

\* get_job finds no row: retention deleted it while its id was queued.
JobMissing(s) ==
    /\ At(s, "taken") /\ ~Live(worker[s].row)
    /\ JobOver(s)
    /\ UNCHANGED <<durable, phase, queue, intake, snapshot, batch, media,
                   history>>

\* get_job and mark_processing; neither looks at the row's status.
MarkProcessing(s) ==
    LET r == worker[s].row IN
    /\ At(s, "taken") /\ Live(r)
    /\ inbox' = [inbox EXCEPT ![r].status = "processing",
                              ![r].attempts = @ + 1]
    /\ Goto(s, "running")
    /\ excused' = excused \ {r}
    /\ UNCHANGED <<nextRow, restarts, phase, queue, inflight, intake, snapshot,
                   batch, media, answers, raced, unrecorded>>

\* LINE accepts the answer (Replier.send, by reply or by push).
HandlerSends(s) ==
    /\ "answers" \in Outcomes
    /\ At(s, "running") /\ inbox[worker[s].row].event \notin MediaEvents
    /\ Answered({worker[s].row})
    /\ Goto(s, "sent")
    /\ UNCHANGED <<durable, phase, queue, inflight, intake, snapshot, batch,
                   media, excused, raced, unrecorded>>

\* Replier._delivered: only now is the answer recorded; that of a debounced
\* batch under its newest job only.
MarkReplySent(s) ==
    /\ \/ At(s, "sent") /\ Goto(s, "settled") /\ UNCHANGED unrecorded
       \/ /\ At(s, "flushSent")
          /\ worker' = [worker EXCEPT ![s] = Idle]
          /\ unrecorded' = unrecorded \cup
                             (AnswerOut(s) \ {worker[s].row})
    /\ inbox' = [inbox EXCEPT ![worker[s].row].replied = TRUE]
    /\ UNCHANGED <<nextRow, restarts, phase, queue, inflight, intake, snapshot, batch,
                   media, answers, excused, raced>>

\* mark_delivery_failed: a failed row keeps its own error.
MarkDeliveryFailed(r) ==
    IF inbox[r].status \in {"processing", "done"}
      THEN SetStatus(r, "delivery_failed") ELSE UNCHANGED inbox

\* Neither reply nor push got through.
DeliveryFails(s) ==
    /\ "undelivered" \in Outcomes
    /\ \/ /\ At(s, "running") /\ inbox[worker[s].row].event \notin MediaEvents
          /\ Goto(s, "settled")
       \/ At(s, "flushing") /\ worker' = [worker EXCEPT ![s] = Idle]
    /\ MarkDeliveryFailed(worker[s].row)
    /\ UNCHANGED <<nextRow, restarts, phase, queue, inflight, intake, snapshot, batch,
                   media, history>>

\* Fault: the timer of the buffer is not armed.
HandlerParksUntimed(s) ==
    LET r == worker[s].row
        c == ChatOf(r) IN
    /\ At(s, "running") /\ inbox[r].event \in MediaEvents
    /\ parked' = [parked EXCEPT ![c] = Append(@, r)]
    /\ Goto(s, "settled")
    /\ UNCHANGED <<durable, phase, queue, inflight, intake, snapshot, batch,
                   timer, history>>

\* handle_media with debounce on: MediaDebouncer.add, then the handler returns.
HandlerParks(s) ==
    LET r == worker[s].row
        c == ChatOf(r) IN
    /\ At(s, "running") /\ inbox[r].event \in MediaEvents
    /\ parked' = [parked EXCEPT ![c] = Append(@, r)]
    /\ timer' = timer \cup {c}
    /\ Goto(s, "settled")
    /\ UNCHANGED <<durable, phase, queue, inflight, intake, snapshot, batch,
                   history>>

\* Fault: mark_done overwrites every status.
JobDoneAlways(s) ==
    /\ \/ At(s, "running") /\ "silent" \in Outcomes
       \/ At(s, "settled")
    /\ SetStatus(worker[s].row, "done")
    /\ JobOver(s)
    /\ UNCHANGED <<nextRow, restarts, phase, queue, intake, snapshot, batch,
                   media, history>>

\* The handler returns, having answered, parked, failed to deliver, or nothing
\* to say; then mark_done: an undelivered answer keeps its status.
JobDone(s) ==
    LET r == worker[s].row IN
    /\ \/ At(s, "running") /\ "silent" \in Outcomes
       \/ At(s, "settled")
    /\ IF inbox[r].status # "delivery_failed"
         THEN SetStatus(r, "done") ELSE UNCHANGED inbox
    /\ JobOver(s)
    /\ UNCHANGED <<nextRow, restarts, phase, queue, intake, snapshot, batch,
                   media, history>>

InHandler(s) == At(s, "running") \/ At(s, "sent") \/ At(s, "settled")

\* Fault: mark_failed is skipped.
JobFailsUnmarked(s) ==
    /\ InHandler(s) /\ "fails" \in Outcomes
    /\ JobOver(s)
    /\ UNCHANGED <<durable, phase, queue, intake, snapshot, batch, media,
                   history>>

\* The handler raises, or the job timeout cuts it off at any await, even after
\* the answer went out; then mark_failed, and on_failure, whose apology may be
\* delivered and recorded on the failed row.
JobFails(s) ==
    LET r == worker[s].row IN
    /\ InHandler(s) /\ "fails" \in Outcomes
    /\ \E apologised \in BOOLEAN :
         inbox' = IF Live(r) THEN [inbox EXCEPT ![r].status = "failed",
                                               ![r].replied = @ \/ apologised]
                             ELSE inbox
    /\ JobOver(s)
    /\ UNCHANGED <<nextRow, restarts, phase, queue, intake, snapshot, batch,
                   media, history>>

\* get_job, mark_processing, mark_done or mark_failed raises: _worker_loop logs
\* it and goes on to the next item, the row keeps its status.
DbError(s) ==
    /\ DbFaults
    /\ At(s, "taken") \/ InHandler(s)
    /\ JobOver(s)
    /\ excused' = excused \cup {worker[s].row}
    /\ unrecorded' = unrecorded \cup AnswerOut(s)
    /\ UNCHANGED <<durable, phase, queue, intake, snapshot, batch, media,
                   answers, raced>>

\* flush_media: pops the buffer, whatever it holds by now; the answer will be
\* filed under its newest job.
TakeFlush(s) ==
    /\ At(s, "idle") /\ queue[s] # <<>> /\ Head(queue[s]).kind = "flush"
    /\ LET c    == Head(queue[s]).chat
           rows == parked[c] IN
       /\ IF rows = <<>> THEN UNCHANGED worker
          ELSE worker' = [worker EXCEPT ![s] =
                 [pc |-> "flushing", row |-> rows[Len(rows)],
                  files |-> {rows[i] : i \in 1 .. Len(rows)}]]
       /\ parked' = [parked EXCEPT ![c] = <<>>]
       /\ timer' = timer \ {c}
    /\ queue' = [queue EXCEPT ![s] = Tail(@)]
    /\ UNCHANGED <<durable, phase, inflight, intake, snapshot, batch, history>>

FlushSends(s) ==
    /\ At(s, "flushing")
    /\ Answered(worker[s].files)
    /\ Goto(s, "flushSent")
    /\ UNCHANGED <<durable, phase, queue, inflight, intake, snapshot, batch,
                   media, excused, raced, unrecorded>>

\* An exception in a flush is only logged: the jobs are 'done' already.
FlushRaises(s) ==
    /\ At(s, "flushing") \/ At(s, "flushSent")
    /\ "fails" \in Outcomes
    /\ worker' = [worker EXCEPT ![s] = Idle]
    /\ unrecorded' = unrecorded \cup AnswerOut(s)
    /\ UNCHANGED <<durable, phase, queue, inflight, intake, snapshot, batch,
                   media, answers, excused, raced>>

-----------------------------------------------------------------------------
(* Lifecycle. *)

\* All that lives in memory is gone.
ProcessGone ==
    /\ phase' = "down"
    /\ restarts < MaxRestarts
    /\ restarts' = restarts + 1
    /\ queue' = [s \in Shards |-> <<>>]
    /\ worker' = [s \in Shards |-> Idle]
    /\ inflight' = {} /\ intake' = {} /\ snapshot' = {} /\ batch' = {}
    /\ parked' = [c \in Chats |-> <<>>]
    /\ timer' = {}
    /\ excused' = {}
    /\ unrecorded' = unrecorded \cup UNION {AnswerOut(s) : s \in Shards}
    /\ UNCHANGED <<inbox, nextRow, answers, raced>>

\* lifespan's shutdown part: cancel_debounce drops the buffers, stop() puts a
\* sentinel on every queue.
BeginDrain ==
    /\ LoopFree /\ phase = "up" /\ restarts < MaxRestarts
    /\ \A s \in Shards : Len(queue[s]) < QueueMax
    /\ queue' = [s \in Shards |-> Append(queue[s], Stop)]
    /\ phase' = "draining"
    /\ snapshot' = {}
    /\ parked' = [c \in Chats |-> <<>>]
    /\ timer' = {}
    /\ UNCHANGED <<durable, worker, inflight, intake, batch, history>>

\* A full queue refuses the sentinel: QueueFull leaves stop() and the lifespan,
\* and the process ends without a drain.
StopRaises ==
    /\ LoopFree /\ phase = "up"
    /\ \E s \in Shards : Len(queue[s]) >= QueueMax
    /\ ProcessGone

WorkerExits(s) ==
    /\ At(s, "idle") /\ queue[s] # <<>> /\ Head(queue[s]).kind = "stop"
    /\ Goto(s, "exited")
    /\ queue' = [queue EXCEPT ![s] = Tail(@)]
    /\ UNCHANGED <<durable, phase, inflight, intake, snapshot, batch, media,
                   history>>

\* Every worker has left its loop, and shutdown completes.
DrainCompletes ==
    /\ LoopFree /\ phase = "draining"
    /\ \A s \in Shards : worker[s].pc = "exited"
    /\ ProcessGone

\* shutdown_grace_seconds are over: the workers still busy are cancelled.
GraceExpires ==
    /\ LoopFree /\ phase = "draining"
    /\ \E s \in Shards : worker[s].pc # "exited"
    /\ ProcessGone

Crash == phase # "down" /\ ProcessGone

\* Faults: reply_sent_at is not looked at; one attempt too many.
RecoveredUnreplied(r) ==
    IF inbox[r].status \notin {"pending", "processing"} THEN inbox[r].status
    ELSE IF inbox[r].attempts >= MaxAttempts \/ inbox[r].age > 0
      THEN "abandoned"
    ELSE "pending"
RecoveredOnceMore(r) ==
    IF inbox[r].status \notin {"pending", "processing"} THEN inbox[r].status
    ELSE IF inbox[r].replied THEN "done"
    ELSE IF inbox[r].attempts > MaxAttempts \/ inbox[r].age > 0
      THEN "abandoned"
    ELSE "pending"

\* start(): recover_orphans in one transaction, then its enqueueing loop.
Recovered(r) ==
    IF inbox[r].status \notin {"pending", "processing"} THEN inbox[r].status
    ELSE IF inbox[r].replied THEN "done"
    ELSE IF inbox[r].attempts >= MaxAttempts \/ inbox[r].age > 0
      THEN "abandoned"
    ELSE "pending"
Boot ==
    /\ phase = "down"
    /\ phase' = "up"
    /\ inbox' = [r \in Rows |-> [inbox[r] EXCEPT !.status = Recovered(r)]]
    /\ batch' = {r \in Rows : Recovered(r) = "pending"}
    /\ UNCHANGED <<nextRow, restarts, queue, worker, inflight, intake, snapshot, media,
                   history>>

-----------------------------------------------------------------------------

Handler(s) ==
    \/ HandlerSends(s) \/ MarkReplySent(s) \/ DeliveryFails(s)
    \/ HandlerParks(s) \/ JobDone(s) \/ JobFails(s)
TakeItem(s) == TakeJob(s) \/ TakeFlush(s) \/ WorkerExits(s)
Progress(s) ==
    \/ JobMissing(s) \/ MarkProcessing(s) \/ Handler(s)
    \/ FlushSends(s) \/ FlushRaises(s)
Shutdown == BeginDrain \/ StopRaises \/ DrainCompletes \/ GraceExpires

Next ==
    \/ Boot \/ Crash \/ Shutdown
    \/ \E e \in Events : Claim(e)
    \/ \E r \in Rows : EnqueueClaimed(r) \/ RowAges(r)
    \/ \E c \in Chats : TimerFires(c)
    \/ SweepReads \/ SweepResumes \/ EnqueueNext \/ Purge
    \/ \E s \in Shards : TakeItem(s) \/ Progress(s) \/ DbError(s)

Spec == Init /\ [][Next]_vars

\* asyncio runs every ready callback and every thread call returns; a handler
\* is bounded by the job timeout, and an HTTP call by its own.  Strong fairness
\* where the enqueueing loop of a sweep disables a coroutine again and again.
FairSpec ==
    /\ Spec
    /\ WF_vars(Boot) /\ WF_vars(EnqueueNext)
    /\ WF_vars(SweepReads) /\ WF_vars(SweepResumes)
    /\ WF_vars(DrainCompletes \/ GraceExpires)
    /\ \A r \in Rows : SF_vars(EnqueueClaimed(r))
    /\ \A c \in Chats : SF_vars(TimerFires(c))
    /\ \A s \in Shards : SF_vars(TakeItem(s) \/ Progress(s))

-----------------------------------------------------------------------------
(* Properties. *)

Worker == [pc : WorkerPc, row : Rows \cup {NoRow}, files : SUBSET Rows]

\* Types, and the bound of every queue: neither the sentinel nor a flush nor a
\* row is ever put past queue_max_size.
TypeOK ==
    /\ inbox \in [Rows -> Row]
    /\ nextRow \in 1 .. MaxRows + 1
    /\ restarts \in 0 .. MaxRestarts
    /\ phase \in {"down", "up", "draining"}
    /\ queue \in [Shards -> Seq(Items)]
    /\ \A s \in Shards : Len(queue[s]) <= QueueMax
    /\ worker \in [Shards -> Worker]
    /\ inflight \subseteq Rows /\ intake \subseteq Rows
    /\ snapshot \subseteq Rows /\ batch \subseteq Rows
    /\ parked \in [Chats -> Seq(Rows)]
    /\ timer \subseteq Chats
    /\ answers \in [Events -> 0 .. 2]
    /\ excused \subseteq Rows /\ raced \subseteq Rows
    /\ unrecorded \subseteq Rows

\* The chat a worker is serving, as a set of at most one.
Serving(s) ==
    IF worker[s].pc \in {"idle", "exited"} THEN {} ELSE {ChatOf(worker[s].row)}

\* Shard pinning: two workers never serve the same chat at once, with a
\* message, a re-run or a debounced batch (queue.py: "crc32(chat_key) % N pins
\* every chat to one worker").
OneWorkerPerChat ==
    \A s, t \in Shards : s # t => Serving(s) \cap Serving(t) = {}

\* Copies of a row: its places in a queue, and the worker that holds it.
Places(r) == {p \in Shards \X (1 .. QueueMax) :
                LET q == queue[p[1]] IN p[2] <= Len(q) /\ q[p[2]] = Job(r)}
Holders(r) == {s \in Shards : Holds(s, r)}
Waits(r) == Places(r) # {} \/ \E s \in Shards :
                                worker[s].pc = "taken" /\ worker[s].row = r

\* The sweep "skips ids currently queued or running": a row is queued or held
\* twice only after a sweep enqueued it while submit_raw still had it, or from
\* a list_pending result it had outlived.
OneCopyUnlessRaced ==
    \A r \in Rows \ raced :
        Cardinality(Places(r)) + Cardinality(Holders(r)) <= 1

\* No pending row is forgotten while the process serves: it waits for its
\* worker, or is about to be enqueued, or the next sweep will take it up.
NeverStranded ==
    phase = "up" => \A r \in Rows : Pending(r) =>
        Waits(r) \/ r \in intake \cup batch \/ r \in excused \ inflight

\* A younger message of the chat is being handled while r still waits.
Overtaken(r) ==
    /\ Pending(r)
    /\ \E s \in Shards : \E q \in Rows :
         /\ Holds(s, q) /\ worker[s].pc # "taken"
         /\ q > r /\ ChatOf(q) = ChatOf(r)

\* Per-chat order survives recovery, sweeps and shard queues: a message is only
\* overtaken when a full queue or a failed database call made it wait for a
\* sweep, or its submit_raw resumed after a younger one's.
FifoUnlessExcused == \A r \in Rows : Overtaken(r) => r \in excused

\* Crash loops end: a message is started at most MaxAttempts times, over all
\* boots, unless a sweep duplicated it.
AttemptsBounded ==
    \A r \in Rows \ raced : inbox[r].attempts <= MaxAttempts

\* Redelivery, retries and restarts never answer an event twice, except by the
\* sweep race, or when the process or the handler ended between LINE's accept
\* and mark_reply_sent, or (redelivered) after its row was purged.
AnsweredOnce ==
    \A e \in Events : answers[e] > 1 =>
        \E r \in Rows : /\ inbox[r].event = e
                        /\ \/ r \in raced \cup unrecorded
                           \/ inbox[r].status = "purged"

\* test_dedup.py: "the same event must be processed exactly once".  Without a
\* restart a message is started, or due to be started (the worker asks for no
\* status), once.
ProcessedOnce ==
    restarts = 0 => \A r \in Rows :
        inbox[r].attempts + Cardinality(Places(r)) <= 1

\* A worker that has left its loop leaves nothing behind in its queue: what was
\* queued before the sentinel has been handled, and nothing follows it.
ExitedShardIsEmpty ==
    \A s \in Shards : worker[s].pc = "exited" => queue[s] = <<>>

\* From some time on, no repository call that a worker makes raises.
DatabaseRecovers == <>[][\A s \in Shards : ~DbError(s)]_vars

\* While the process serves, every claimed message is taken up by its worker,
\* unless the calls that would do so fail for ever.
EventuallyStarted ==
    DatabaseRecovers => \A r \in Rows : Pending(r) ~> (~Pending(r) \/ phase # "up")

\* No worker has the row any more, because its get_job, mark_processing,
\* mark_done or mark_failed raised.
GivenUp(r) == r \in excused /\ \A s \in Shards : ~Holds(s, r)

\* A started job does not stay 'processing', over failures, timeouts, drains,
\* crashes and the recoveries after them, but for one exit of _process:
\* mark_done or mark_failed raised, and no restart has recovered the row since.
EventuallyFinished ==
    \A r \in Rows :
        inbox[r].status = "processing" ~>
            (inbox[r].status # "processing" \/ (phase # "down" /\ GivenUp(r)))

\* A parked file is flushed to Dify or lost with the process, as long as no
\* full queue dropped the flush: it does not wait for the chat's next file.
EventuallyFlushed == \A c \in Chats : parked[c] # <<>> ~> parked[c] = <<>>
=============================================================================
