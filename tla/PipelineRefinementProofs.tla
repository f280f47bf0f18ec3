----------------------- MODULE PipelineRefinementProofs -----------------------
(***************************************************************************)
(* That the pipeline and its inbox implement JobQueue, step by step, and   *)
(* that no event is answered twice but in the ways AnsweredOnce names.     *)
(***************************************************************************)
EXTENDS PipelineRefinement, PipelineProofs

-----------------------------------------------------------------------------
(* Rows as jobs. *)

RepliedOf(r) == inbox[r].replied /\ Live(r)
JobOf(r) ==
    Q!As(StateOf(inbox[r].status), inbox[r].attempts, RepliedOf(r))
\* The refinement mapping of "job", written out.
Jobs == [r \in Rows |-> [state    |-> StateOf(inbox[r].status),
                         attempts |-> inbox[r].attempts,
                         replied  |-> inbox[r].replied /\ Live(r)]]

LEMMA States ==
    /\ StateOf("none") = "free" /\ StateOf("pending") = "waiting"
    /\ StateOf("processing") = "running" /\ StateOf("purged") = "forgotten"
    /\ \A st \in Finished : StateOf(st) = st /\ st \in Q!Ends
    /\ Q!Ends = Finished
BY DEF StateOf, Finished, Q!Ends

\* A row is used once it has an event.
RowsUsed ==
    \A r \in Rows : /\ Known(r) => inbox[r].status # "none"
                    /\ ~Known(r) => inbox[r].attempts = 0
LifeInv == CopiesInv /\ RowsUsed

LEMMA LifeInit == Init => LifeInv
<1> SUFFICES ASSUME Init PROVE LifeInv
  OBVIOUS
<1>1. FreeRow.event = NoEvent /\ FreeRow.attempts = 0
  BY DEF FreeRow, NewRow
<1>2. RowsUsed
  BY <1>1, EventAssumption DEF Init, RowsUsed, Known
<1>. QED BY <1>2, CopiesInit DEF LifeInv

LEMMA UsedStep ==
    ASSUME LifeInv, [Next]_vars
    PROVE  RowsUsed'
<1>. USE DEF LifeInv, CopiesInv, ServiceInv
<1>a. PinInv /\ inbox \in [Rows -> Row] /\ WorkersTyped
  BY TypeParts DEF PinInv, InboxTyped
<1> SUFFICES ASSUME NEW r \in Rows
             PROVE  /\ Known(r)' => inbox'[r].status # "none"
                    /\ ~Known(r)' => inbox'[r].attempts = 0
  BY DEF RowsUsed
<1>1. CASE Known(r)
  <2>1. Known(r)' /\ inbox[r].status # "none" /\ r # nextRow
    BY <1>a, <1>1, PinKept, NotClaimed DEF RowsUsed
  <2>2. CASE Boot
    <3>1. inbox'[r] = [inbox[r] EXCEPT !.status = Recovered(r)]
      BY <2>2 DEF Boot
    <3>2. inbox'[r].status = Recovered(r)
      BY <1>a, <3>1 DEF Row
    <3>. QED BY <2>1, <3>2 DEF Recovered
  <2>3. ASSUME NEW s \in Shards, Works(s, r)
        PROVE  inbox'[r].status # "none"
    <3>1. inbox[r] \in Row /\ worker[s].row = r
      BY <1>a, <2>3 DEF Works
    <3>2. CASE MarkProcessing(s)
      BY <1>a, <3>1, <3>2 DEF MarkProcessing, Row
    <3>3. CASE DeliveryFails(s) \/ JobDone(s)
      BY <1>a, <2>1, <3>1, <3>3
         DEF DeliveryFails, MarkDeliveryFailed, JobDone, SetStatus, Row
    <3>4. CASE JobFails(s)
      BY <1>a, <2>1, <3>1, <3>4 DEF JobFails, Row
    <3>. QED BY <2>3, <3>2, <3>3, <3>4 DEF Works
  <2>. QED BY <1>a, <2>1, <2>2, <2>3, InboxMoves DEF Works
<1>2. CASE ~Known(r) /\ ~Known(r)'
  <2>1. inbox[r].attempts = 0
    BY <1>2 DEF RowsUsed
  <2>2. ASSUME NEW s \in Shards, MarkProcessing(s), worker[s].row = r
        PROVE  FALSE
    BY <1>a, <1>2, <2>2 DEF MarkProcessing, At, Busy, PinInv, WorkersHome
  <2>. QED BY <1>2, <1>a, <2>1, <2>2, InboxMoves
<1>3. CASE ~Known(r) /\ Known(r)'
  <2>1. inbox'[r].event # inbox[r].event
    BY <1>3 DEF Known
  <2>2. ASSUME NEW e \in Events, Claim(e) PROVE inbox'[r].status = "pending"
    BY <1>a, <2>1, <2>2 DEF Claim, NewRow
  <2>3. ASSUME NEW q \in Rows, RowAges(q) PROVE FALSE
    BY <1>a, <2>1, <2>3 DEF RowAges, Row
  <2>4. ~Purge
    BY <1>a, <2>1 DEF Purge, Row
  <2>5. ~Boot
    <3>1. Boot => inbox'[r] = [inbox[r] EXCEPT !.status = Recovered(r)]
      BY DEF Boot
    <3>. QED BY <1>a, <2>1, <3>1 DEF Row
  <2>6. ASSUME NEW s \in Shards, MarkProcessing(s) \/ MarkReplySent(s)
        PROVE  FALSE
    BY <1>a, <2>1, <2>6 DEF MarkProcessing, MarkReplySent, Row
  <2>7. ASSUME NEW s \in Shards, DeliveryFails(s) \/ JobDone(s) PROVE FALSE
    BY <1>a, <2>1, <2>7
       DEF DeliveryFails, MarkDeliveryFailed, JobDone, SetStatus, Row
  <2>8. ASSUME NEW s \in Shards, JobFails(s) PROVE FALSE
    BY <1>a, <2>1, <2>8 DEF JobFails, Row
  <2>. QED BY <1>3, <2>1, <2>2, <2>3, <2>4, <2>5, <2>6, <2>7, <2>8, InboxFrame
<1>. QED BY <1>1, <1>2, <1>3

LEMMA LifeStep == LifeInv /\ [Next]_vars => LifeInv'
BY CopiesStep, UsedStep DEF LifeInv

-----------------------------------------------------------------------------
(* Steps. *)

\* Only row r changes, in a live process: then one job moves.
Alone(r) ==
    /\ phase # "down" /\ UNCHANGED <<phase, raced>>
    /\ \A q \in Rows \ {r} : inbox'[q] = inbox[q]

LEMMA OthersStay ==
    ASSUME NEW r, Alone(r)
    PROVE  \A q \in Rows \ {r} : JobOf(q)' = JobOf(q)
BY DEF Alone, JobOf, RepliedOf, Live, Q!As

LEMMA JobMoves ==
    ASSUME NEW r \in Rows, Alone(r)
    PROVE  /\ phase # "down" /\ UNCHANGED <<phase, raced>>
           /\ Jobs' = [Jobs EXCEPT ![r] = JobOf(r)']
<1>1. \A q \in Rows : Jobs[q] = JobOf(q) /\ Jobs'[q] = JobOf(q)'
  BY DEF Jobs, JobOf, RepliedOf, Q!As
<1>2. \A q \in Rows \ {r} : Jobs'[q] = Jobs[q]
  BY <1>1, OthersStay
<1>3. /\ Jobs = [q \in Rows |-> Jobs[q]] /\ Jobs' = [q \in Rows |-> Jobs'[q]]
      /\ Jobs'[r] = JobOf(r)'
  BY <1>1 DEF Jobs
<1>. QED BY <1>2, <1>3 DEF Alone

LEMMA JobFields ==
    ASSUME NEW r \in Rows
    PROVE  /\ Jobs[r].attempts = inbox[r].attempts
           /\ Jobs[r].replied = RepliedOf(r)
           /\ Jobs[r].state = StateOf(inbox[r].status)
BY DEF Jobs, RepliedOf

LEMMA DoAccept ==
    ASSUME NEW r \in Rows, Alone(r),
           StateOf(inbox[r].status) = "free",
           JobOf(r)' = Q!As("waiting", 0, FALSE)
    PROVE  Q!Accept(r)
<1>1. /\ Jobs[r].state \in {"free"}
      /\ Jobs' = [Jobs EXCEPT ![r] = Q!As("waiting", 0, FALSE)]
  BY JobMoves, JobFields
<1>2. Q!Moves(r, {"free"}, Q!As("waiting", 0, FALSE))
  BY <1>1, JobMoves DEF Q!Moves, Jobs
<1>. QED BY <1>2 DEF Q!Accept

LEMMA DoStart ==
    ASSUME NEW r \in Rows, Alone(r),
           StateOf(inbox[r].status) = "waiting",
           ~RepliedOf(r),
           inbox[r].attempts < MaxAttempts,
           JobOf(r)' = Q!As("running", inbox[r].attempts + 1, FALSE)
    PROVE  Q!Start(r)
<1>1. /\ Jobs[r].state \in {"waiting"} /\ ~Jobs[r].replied /\ Jobs[r].attempts < MaxAttempts
      /\ Jobs' = [Jobs EXCEPT ![r] = Q!As("running", Jobs[r].attempts + 1, FALSE)]
  BY JobMoves, JobFields
<1>2. Q!Moves(r, {"waiting"}, Q!As("running", Jobs[r].attempts + 1, FALSE))
  BY <1>1, JobMoves DEF Q!Moves, Jobs
<1>. QED BY <1>1, <1>2 DEF Q!Start, Jobs

LEMMA DoReply ==
    ASSUME NEW r \in Rows, Alone(r),
           StateOf(inbox[r].status) \in {"running"} \cup Q!Ends,
           JobOf(r)' = Q!As(StateOf(inbox[r].status), inbox[r].attempts, TRUE)
    PROVE  Q!Reply(r)
<1>1. /\ Jobs[r].state \in {"running"} \cup Q!Ends
      /\ Jobs' = [Jobs EXCEPT ![r] = Q!As(Jobs[r].state, Jobs[r].attempts, TRUE)]
  BY JobMoves, JobFields
<1>2. Q!Moves(r, {"running"} \cup Q!Ends, Q!As(Jobs[r].state, Jobs[r].attempts, TRUE))
  BY <1>1, JobMoves DEF Q!Moves, Jobs
<1>. QED BY <1>2 DEF Q!Reply, Jobs

LEMMA DoSettle ==
    ASSUME NEW r \in Rows, Alone(r),
           NEW end \in {"done", "delivery_failed"},
           StateOf(inbox[r].status) = "running",
           JobOf(r)' = Q!As(end, inbox[r].attempts, RepliedOf(r))
    PROVE  Q!Settle(r)
<1>1. /\ Jobs[r].state \in {"running"}
      /\ Jobs' = [Jobs EXCEPT ![r] = Q!As(end, Jobs[r].attempts, Jobs[r].replied)]
  BY JobMoves, JobFields
<1>2. Q!Moves(r, {"running"}, Q!As(end, Jobs[r].attempts, Jobs[r].replied))
  BY <1>1, JobMoves DEF Q!Moves, Jobs
<1>. QED BY <1>2 DEF Q!Settle, Jobs

LEMMA DoFail ==
    ASSUME NEW r \in Rows, Alone(r),
           NEW replied \in BOOLEAN,
           RepliedOf(r) => replied,
           StateOf(inbox[r].status) \in {"running", "delivery_failed"},
           JobOf(r)' = Q!As("failed", inbox[r].attempts, replied)
    PROVE  Q!Settle(r)
<1>1. /\ Jobs[r].replied => replied
      /\ Jobs[r].state \in {"running", "delivery_failed"}
      /\ Jobs' = [Jobs EXCEPT ![r] = Q!As("failed", Jobs[r].attempts, replied)]
  BY JobMoves, JobFields
<1>2. Q!Moves(r, {"running", "delivery_failed"}, Q!As("failed", Jobs[r].attempts, replied))
  BY <1>1, JobMoves DEF Q!Moves, Jobs
<1>. QED BY <1>1, <1>2 DEF Q!Settle, Jobs

LEMMA DoAmend ==
    ASSUME NEW r \in Rows, Alone(r),
           StateOf(inbox[r].status) = "done",
           JobOf(r)' = Q!As("delivery_failed", inbox[r].attempts, RepliedOf(r))
    PROVE  Q!Amend(r)
<1>1. /\ Jobs[r].state \in {"done"}
      /\ Jobs' = [Jobs EXCEPT ![r] = Q!As("delivery_failed", Jobs[r].attempts, Jobs[r].replied)]
  BY JobMoves, JobFields
<1>2. Q!Moves(r, {"done"}, Q!As("delivery_failed", Jobs[r].attempts, Jobs[r].replied))
  BY <1>1, JobMoves DEF Q!Moves, Jobs
<1>. QED BY <1>2 DEF Q!Amend, Jobs

LEMMA DoRestart ==
    ASSUME NEW r \in Rows, Alone(r),
           r \in raced,
           StateOf(inbox[r].status) \in {"waiting", "running"} \cup Q!Ends,
           JobOf(r)' = Q!As("running", inbox[r].attempts + 1, RepliedOf(r))
    PROVE  Q!Astray(r)
<1>1. /\ Jobs[r].state \in {"waiting", "running"} \cup Q!Ends
      /\ Jobs' = [Jobs EXCEPT ![r] = Q!As("running", Jobs[r].attempts + 1, Jobs[r].replied)]
  BY JobMoves, JobFields
<1>2. Q!Moves(r, {"waiting", "running"} \cup Q!Ends, Q!As("running", Jobs[r].attempts + 1, Jobs[r].replied))
  BY <1>1, JobMoves DEF Q!Moves, Jobs
<1>. QED BY <1>2 DEF Q!Astray, Jobs

LEMMA DoEndAgain ==
    ASSUME NEW r \in Rows, Alone(r), r \in raced,
           NEW state \in Q!Ends, NEW replied \in BOOLEAN,
           RepliedOf(r) => replied,
           StateOf(inbox[r].status) \in {"running"} \cup Q!Ends,
           JobOf(r)' = Q!As(state, inbox[r].attempts, replied)
    PROVE  Q!Astray(r)
<1>1. /\ Jobs[r].replied => replied
      /\ Jobs[r].state \in {"running"} \cup Q!Ends
      /\ Jobs' = [Jobs EXCEPT ![r] = Q!As(state, Jobs[r].attempts, replied)]
  BY JobMoves, JobFields
<1>2. Q!Moves(r, {"running"} \cup Q!Ends, Q!As(state, Jobs[r].attempts, replied))
  BY <1>1, JobMoves DEF Q!Moves, Jobs
<1>. QED BY <1>1, <1>2 DEF Q!Astray, Jobs

\* The mapped state stays.
LEMMA JobsStay ==
    ASSUME \A r \in Rows : JobOf(r)' = JobOf(r),
           (phase' # "down") = (phase # "down"), UNCHANGED raced
    PROVE  UNCHANGED Q!vars
<1>1. \A r \in Rows : Jobs[r] = JobOf(r) /\ Jobs'[r] = JobOf(r)'
  BY DEF Jobs, JobOf, RepliedOf, Q!As
<1>2. Jobs' = Jobs
  BY <1>1 DEF Jobs
<1>. QED BY <1>2 DEF Q!vars, Jobs

LEMMA InitMaps == Init => Q!Init
<1> SUFFICES ASSUME Init PROVE Q!Init
  OBVIOUS
<1>1. FreeRow.status = "none" /\ FreeRow.attempts = 0 /\ FreeRow.replied = FALSE
  BY DEF FreeRow, NewRow
<1>2. \A r \in Rows : JobOf(r) = Q!As("free", 0, FALSE)
  BY <1>1, States DEF Init, JobOf, RepliedOf, Q!As
<1>. QED BY <1>2 DEF Init, Q!Init, JobOf, RepliedOf, Q!As

\* A worker that is not flushing holds its row; one that has marked it finds
\* it neither pending nor unused.
LEMMA Marked ==
    ASSUME LifeInv, NEW s \in Shards,
           worker[s].pc \in HeldPc \cup FlushPc
    PROVE  /\ worker[s].row \in Rows
           /\ inbox[worker[s].row].status \in {"processing", "purged"} \cup Finished
<1>. DEFINE r == worker[s].row
<1>. USE DEF LifeInv, CopiesInv, ServiceInv, PinInv, HeldPc, FlushPc
<1>1. Busy(s)
  BY DEF Busy
<1>2. r \in Rows /\ Known(r)
  BY <1>1, TypeParts DEF WorkersTyped, BusyHasRow, WorkersHome
<1>3. inbox[r].status \in Statuses
  BY <1>2, TypeParts DEF InboxTyped, Row
<1>4. inbox[r].status # "none" /\ ~Pending(r)
  BY <1>2 DEF RowsUsed, HeldNotPending, FilesNotPending
<1>. QED BY <1>2, <1>3, <1>4 DEF Statuses, Pending

\* get_job and mark_processing.
LEMMA StartMaps ==
    ASSUME LifeInv, NEW s \in Shards, NEW r, worker[s].row = r,
           MarkProcessing(s)
    PROVE  Q!Next
<1>. USE DEF LifeInv, CopiesInv, ServiceInv, PinInv
<1>1. /\ worker[s].pc = "taken" /\ Live(r) /\ LoopFree
      /\ inbox' = [inbox EXCEPT ![r].status = "processing", ![r].attempts = @ + 1]
      /\ UNCHANGED <<phase, raced>>
  BY DEF MarkProcessing, At
<1>2. r \in Rows /\ inbox \in [Rows -> Row]
  BY <1>1, TypeParts DEF WorkersTyped, BusyHasRow, Busy, InboxTyped
<1>3. /\ \A q \in Rows \ {r} : inbox'[q] = inbox[q]
      /\ inbox'[r].status = "processing"
      /\ inbox'[r].attempts = inbox[r].attempts + 1
      /\ inbox'[r].replied = inbox[r].replied
  BY <1>1, <1>2 DEF Row
<1>4. Alone(r) /\ RepliedOf(r)' = RepliedOf(r)
  BY <1>1, <1>3 DEF Alone, LoopFree, RepliedOf, Live
<1>5. JobOf(r)' = Q!As("running", inbox[r].attempts + 1, RepliedOf(r))
  BY <1>3, <1>4, States DEF JobOf, Q!As
<1>6. CASE r \in raced
  <2>1. inbox[r].status \in {"pending", "processing"} \cup Finished
    BY <1>1, <1>2 DEF Live, Row, Statuses
  <2>2. Q!Astray(r)
    BY <1>2, <1>4, <1>5, <1>6, <2>1, States, DoRestart
  <2>. QED BY <1>2, <2>2 DEF Q!Next
<1>7. CASE r \notin raced
  <2>1. Taken(r)
    BY <1>1 DEF Taken
  <2>2. Pending(r) /\ ~inbox[r].replied /\ inbox[r].attempts < MaxAttempts
    BY <1>2, <1>7, <2>1 DEF Solo, PendingFresh
  <2>3. RepliedOf(r) = FALSE
    BY <2>2 DEF RepliedOf
  <2>4. JobOf(r)' = Q!As("running", inbox[r].attempts + 1, FALSE)
    BY <1>5, <2>3
  <2>5. Q!Start(r)
    BY <1>2, <1>4, <2>2, <2>3, <2>4, States, DoStart DEF Pending
  <2>. QED BY <1>2, <2>5 DEF Q!Next
<1>. QED BY <1>6, <1>7

\* mark_reply_sent: of a row that is running, over, or deleted since.
LEMMA ReplyMaps ==
    ASSUME LifeInv, NEW s \in Shards, NEW r, worker[s].row = r,
           MarkReplySent(s)
    PROVE  Q!Next \/ UNCHANGED Q!vars
<1>. USE DEF LifeInv, CopiesInv, ServiceInv, PinInv
<1>1. /\ worker[s].pc \in {"sent", "flushSent"} /\ LoopFree
      /\ inbox' = [inbox EXCEPT ![r].replied = TRUE]
      /\ UNCHANGED <<phase, raced>>
  BY DEF MarkReplySent, At
<1>2. /\ r \in Rows /\ inbox \in [Rows -> Row]
      /\ inbox[r].status \in {"processing", "purged"} \cup Finished
  BY <1>1, TypeParts, Marked DEF InboxTyped, HeldPc, FlushPc
<1>3. /\ \A q \in Rows \ {r} : inbox'[q] = inbox[q]
      /\ inbox'[r].status = inbox[r].status
      /\ inbox'[r].attempts = inbox[r].attempts
      /\ inbox'[r].replied = TRUE
  BY <1>1, <1>2 DEF Row
<1>4. Alone(r)
  BY <1>1, <1>3 DEF Alone, LoopFree
<1>5. CASE inbox[r].status = "purged"
  <2>1. JobOf(r)' = JobOf(r)
    BY <1>3, <1>5 DEF JobOf, RepliedOf, Live, Q!As
  <2>. QED BY <1>1, <1>4, <2>1, OthersStay, JobsStay
<1>6. CASE inbox[r].status \in {"processing"} \cup Finished
  <2>1. RepliedOf(r)' = TRUE
    BY <1>3, <1>6 DEF RepliedOf, Live, Finished
  <2>2. JobOf(r)' = Q!As(StateOf(inbox[r].status), inbox[r].attempts, TRUE)
    BY <1>3, <2>1 DEF JobOf, Q!As
  <2>3. Q!Reply(r)
    BY <1>2, <1>4, <1>6, <2>2, States, DoReply
  <2>. QED BY <1>2, <2>3 DEF Q!Next
<1>. QED BY <1>2, <1>5, <1>6

\* An answer that cannot be delivered: of a running job, or of a batch, which
\* is done by then; a failed job keeps its state.
LEMMA UndeliveredMaps ==
    ASSUME LifeInv, NEW s \in Shards, NEW r, worker[s].row = r,
           DeliveryFails(s)
    PROVE  Q!Next \/ UNCHANGED Q!vars
<1>. USE DEF LifeInv, CopiesInv, ServiceInv, PinInv
<1>1. /\ worker[s].pc \in {"running", "flushing"} /\ LoopFree
      /\ MarkDeliveryFailed(r)
      /\ UNCHANGED <<phase, raced>>
  BY DEF DeliveryFails, At, history
<1>2. /\ r \in Rows /\ inbox \in [Rows -> Row]
      /\ inbox[r].status \in {"processing", "purged"} \cup Finished
  BY <1>1, TypeParts, Marked DEF InboxTyped, HeldPc, FlushPc
<1>3. CASE inbox[r].status \notin {"processing", "done"}
  <2>1. UNCHANGED inbox
    BY <1>1, <1>3 DEF MarkDeliveryFailed
  <2>. QED BY <1>1, <2>1, JobsStay DEF JobOf, RepliedOf, Live
<1>4. CASE inbox[r].status \in {"processing", "done"}
  <2>1. inbox' = [inbox EXCEPT ![r].status = "delivery_failed"]
    BY <1>1, <1>4 DEF MarkDeliveryFailed, SetStatus, Live
  <2>2. /\ \A q \in Rows \ {r} : inbox'[q] = inbox[q]
        /\ inbox'[r].status = "delivery_failed"
        /\ inbox'[r].attempts = inbox[r].attempts
        /\ inbox'[r].replied = inbox[r].replied
    BY <1>2, <2>1 DEF Row
  <2>3. Alone(r)
    BY <1>1, <2>2 DEF Alone, LoopFree
  <2>4. RepliedOf(r)' = RepliedOf(r)
    BY <1>4, <2>2 DEF RepliedOf, Live
  <2>5. JobOf(r)' = Q!As("delivery_failed", inbox[r].attempts, RepliedOf(r))
    BY <2>2, <2>4, States DEF JobOf, Finished
  <2>6. Q!Settle(r) \/ Q!Amend(r)
    BY <1>2, <1>4, <2>3, <2>5, States, DoSettle, DoAmend DEF Finished
  <2>. QED BY <1>2, <2>6 DEF Q!Next
<1>. QED BY <1>3, <1>4

\* mark_done.
LEMMA DoneMaps ==
    ASSUME LifeInv, NEW s \in Shards, NEW r, worker[s].row = r,
           JobDone(s)
    PROVE  Q!Next \/ UNCHANGED Q!vars
<1>. USE DEF LifeInv, CopiesInv, ServiceInv, PinInv
<1>1. /\ worker[s].pc \in {"running", "settled"} /\ LoopFree
      /\ IF inbox[r].status # "delivery_failed"
           THEN SetStatus(r, "done") ELSE UNCHANGED inbox
      /\ UNCHANGED <<phase, raced>>
  BY DEF JobDone, At, history
<1>2. /\ r \in Rows /\ inbox \in [Rows -> Row]
      /\ inbox[r].status \in {"processing", "purged"} \cup Finished
  BY <1>1, TypeParts, Marked DEF InboxTyped, HeldPc, FlushPc
<1>3. CASE inbox[r].status \in {"purged", "delivery_failed"}
  <2>1. UNCHANGED inbox
    BY <1>1, <1>3 DEF SetStatus, Live
  <2>. QED BY <1>1, <2>1, JobsStay DEF JobOf, RepliedOf, Live
<1>4. CASE inbox[r].status \notin {"purged", "delivery_failed"}
  <2>1. inbox' = [inbox EXCEPT ![r].status = "done"]
    BY <1>1, <1>2, <1>4 DEF SetStatus, Live, Finished
  <2>2. /\ \A q \in Rows \ {r} : inbox'[q] = inbox[q]
        /\ inbox'[r].status = "done"
        /\ inbox'[r].attempts = inbox[r].attempts
        /\ inbox'[r].replied = inbox[r].replied
    BY <1>2, <2>1 DEF Row
  <2>3. Alone(r)
    BY <1>1, <2>2 DEF Alone, LoopFree
  <2>4. RepliedOf(r)' = RepliedOf(r)
    BY <1>2, <1>4, <2>2 DEF RepliedOf, Live, Finished
  <2>5. JobOf(r)' = Q!As("done", inbox[r].attempts, RepliedOf(r))
    BY <2>2, <2>4, States DEF JobOf, Finished
  <2>6. CASE r \in raced
    <3>1. RepliedOf(r) \in BOOLEAN
      BY DEF RepliedOf
    <3>2. Q!Astray(r)
      BY <1>2, <1>4, <2>3, <2>5, <2>6, <3>1, States, DoEndAgain
         DEF Finished
    <3>. QED BY <1>2, <3>2 DEF Q!Next
  <2>7. CASE r \notin raced
    <3>1. inbox[r].status = "processing"
      BY <1>1, <1>2, <1>4, <2>7 DEF Solo, RunsAs
    <3>2. Q!Settle(r)
      BY <1>2, <2>3, <2>5, <3>1, States, DoSettle
    <3>. QED BY <1>2, <3>2 DEF Q!Next
  <2>. QED BY <2>6, <2>7
<1>. QED BY <1>3, <1>4

\* mark_failed, and the apology.
LEMMA FailedMaps ==
    ASSUME LifeInv, NEW s \in Shards, NEW r, worker[s].row = r,
           JobFails(s)
    PROVE  Q!Next \/ UNCHANGED Q!vars
<1>. USE DEF LifeInv, CopiesInv, ServiceInv, PinInv
<1>1. PICK apologised \in BOOLEAN :
        inbox' = IF Live(r) THEN [inbox EXCEPT ![r].status = "failed",
                                               ![r].replied = @ \/ apologised]
                            ELSE inbox
  BY DEF JobFails
<1>2. /\ worker[s].pc \in {"running", "sent", "settled"} /\ LoopFree
      /\ UNCHANGED <<phase, raced>>
  BY DEF JobFails, InHandler, At, history
<1>3. /\ r \in Rows /\ inbox \in [Rows -> Row]
      /\ inbox[r].status \in {"processing", "purged"} \cup Finished
  BY <1>2, TypeParts, Marked DEF InboxTyped, HeldPc, FlushPc
<1>4. CASE ~Live(r)
  <2>1. UNCHANGED inbox
    BY <1>1, <1>4
  <2>. QED BY <1>2, <2>1, JobsStay DEF JobOf, RepliedOf, Live
<1>5. CASE Live(r)
  <2>. DEFINE replied == inbox[r].replied \/ apologised
  <2>1. /\ \A q \in Rows \ {r} : inbox'[q] = inbox[q]
        /\ inbox'[r].status = "failed"
        /\ inbox'[r].attempts = inbox[r].attempts
        /\ inbox'[r].replied = replied
    BY <1>1, <1>3, <1>5 DEF Row
  <2>2. Alone(r)
    BY <1>2, <2>1 DEF Alone, LoopFree
  <2>3. replied \in BOOLEAN /\ (RepliedOf(r) => replied)
    BY DEF RepliedOf
  <2>4. RepliedOf(r)' = replied
    BY <2>1 DEF RepliedOf, Live
  <2>5. JobOf(r)' = Q!As("failed", inbox[r].attempts, replied)
    BY <2>1, <2>4, States DEF JobOf, Finished
  <2>. HIDE DEF replied
  <2>6. CASE r \in raced
    <3>1. Q!Astray(r)
      BY <1>3, <1>5, <2>2, <2>3, <2>5, <2>6, States, DoEndAgain
         DEF Finished, Live
    <3>. QED BY <1>3, <3>1 DEF Q!Next
  <2>7. CASE r \notin raced
    <3>1. inbox[r].status \in {"processing", "delivery_failed"}
      BY <1>2, <1>3, <1>5, <2>7 DEF Solo, RunsAs, Live
    <3>2. Q!Settle(r)
      BY <1>3, <2>2, <2>3, <2>5, <3>1, States, DoFail DEF Finished
    <3>. QED BY <1>3, <3>2 DEF Q!Next
  <2>. QED BY <2>6, <2>7
<1>. QED BY <1>4, <1>5

-----------------------------------------------------------------------------
(* The steps of the whole table. *)

LEMMA ClaimMaps ==
    ASSUME LifeInv, NEW e \in Events, Claim(e)
    PROVE  Q!Next
<1>. USE DEF LifeInv, CopiesInv, ServiceInv, PinInv
<1>1. /\ LoopFree /\ nextRow <= MaxRows
      /\ inbox' = [inbox EXCEPT ![nextRow] = NewRow(e)]
      /\ UNCHANGED <<phase, raced>>
  BY DEF Claim, history
<1>2. nextRow \in Rows /\ inbox \in [Rows -> Row]
  BY <1>1, TypeParts, MaxRowsAssumption DEF SetsTyped, InboxTyped, Rows
<1>3. \A r : r = nextRow =>
        /\ \A q \in Rows \ {r} : inbox'[q] = inbox[q]
        /\ inbox'[r] = NewRow(e)
  BY <1>1, <1>2
<1>4. PICK r \in Rows : r = nextRow
  BY <1>2
<1>5. /\ inbox'[r].status = "pending" /\ inbox'[r].attempts = 0
      /\ inbox'[r].replied = FALSE
  BY <1>3, <1>4 DEF NewRow
<1>6. Alone(r)
  BY <1>1, <1>3, <1>4 DEF Alone, LoopFree
<1>7. RepliedOf(r)' = FALSE
  BY <1>5 DEF RepliedOf
<1>8. JobOf(r)' = Q!As("waiting", 0, FALSE)
  BY <1>5, <1>7, States DEF JobOf
<1>9. StateOf(inbox[r].status) = "free"
  <2>1. ~Known(r)
    BY <1>4, NotClaimed
  <2>. QED BY <2>1, States DEF RowsKnown
<1>10. Q!Accept(r)
  BY <1>6, <1>8, <1>9, DoAccept
<1>. QED BY <1>10 DEF Q!Next

\* purge_expired.
LEMMA PurgeMaps ==
    ASSUME LifeInv, Purge
    PROVE  Q!Next
<1>. USE DEF LifeInv, CopiesInv, ServiceInv, PinInv
<1>. DEFINE gone == {r \in Rows : Expired(r)}
<1>1. /\ LoopFree /\ UNCHANGED <<phase, raced>>
      /\ inbox' = [r \in Rows |-> IF Expired(r)
                     THEN [inbox[r] EXCEPT !.status = "purged"] ELSE inbox[r]]
  BY DEF Purge, history
<1>2. inbox \in [Rows -> Row]
  BY TypeParts DEF InboxTyped
<1>3. ASSUME NEW r \in gone
      PROVE  JobOf(r)' = Q!As("forgotten", inbox[r].attempts, FALSE)
  <2>1. /\ inbox'[r].status = "purged"
        /\ inbox'[r].attempts = inbox[r].attempts
    BY <1>1, <1>2, <1>3 DEF Row
  <2>2. RepliedOf(r)' = FALSE
    BY <2>1 DEF RepliedOf, Live
  <2>. QED BY <2>1, <2>2, States DEF JobOf
<1>4. ASSUME NEW r \in Rows \ gone
      PROVE  JobOf(r)' = JobOf(r)
  <2>1. inbox'[r] = inbox[r]
    BY <1>1, <1>4
  <2>. QED BY <2>1 DEF JobOf, RepliedOf, Live
<1>5. gone \in SUBSET {r \in Rows : Jobs[r].state \in Q!Ends}
  BY States DEF Expired, Jobs
<1>6. Jobs' = [r \in Rows |-> IF r \in gone
                 THEN Q!As("forgotten", Jobs[r].attempts, FALSE) ELSE Jobs[r]]
  <2>1. \A r \in Rows : /\ Jobs[r] = JobOf(r) /\ Jobs'[r] = JobOf(r)'
                        /\ Jobs[r].attempts = inbox[r].attempts
    BY DEF Jobs, JobOf, RepliedOf, Q!As
  <2>2. \A r \in Rows :
          Jobs'[r] = IF r \in gone
            THEN Q!As("forgotten", Jobs[r].attempts, FALSE) ELSE Jobs[r]
    BY <1>3, <1>4, <2>1
  <2>3. Jobs' = [r \in Rows |-> Jobs'[r]]
    BY DEF Jobs
  <2>. QED BY <2>2, <2>3
<1>. HIDE DEF gone
<1>7. Q!Forget
  BY <1>1, <1>5, <1>6 DEF Q!Forget, Jobs, LoopFree
<1>. QED BY <1>7 DEF Q!Next

\* recover_orphans.
LEMMA BootMaps ==
    ASSUME LifeInv, Boot
    PROVE  Q!Next
<1>. USE DEF LifeInv, CopiesInv, ServiceInv, PinInv
<1>. DEFINE again == {r \in Rows : Recovered(r) = "pending"}
            open  == {"waiting", "running"}
<1>1. /\ phase = "down" /\ phase' = "up" /\ UNCHANGED raced
      /\ inbox' = [r \in Rows |-> [inbox[r] EXCEPT !.status = Recovered(r)]]
  BY DEF Boot, history
<1>2. inbox \in [Rows -> Row]
  BY TypeParts DEF InboxTyped
<1>3. ASSUME NEW r \in Rows
      PROVE  /\ inbox'[r].status = Recovered(r)
             /\ inbox'[r].attempts = inbox[r].attempts
             /\ inbox'[r].replied = inbox[r].replied
             /\ inbox[r].status \in Statuses /\ inbox[r].replied \in BOOLEAN
             /\ inbox[r].attempts \in Nat
  BY <1>1, <1>2 DEF Row
<1>4. ASSUME NEW r \in Rows
      PROVE  /\ Jobs[r].state = StateOf(inbox[r].status)
             /\ Jobs[r].attempts = inbox[r].attempts
             /\ Jobs[r].replied = RepliedOf(r)
             /\ Jobs'[r] = JobOf(r)' /\ Jobs[r] = JobOf(r)
             /\ Jobs[r].state \in open <=>
                  inbox[r].status \in {"pending", "processing"}
  <2>1. Jobs[r].state \in open <=> inbox[r].status \in {"pending", "processing"}
    BY <1>3, States DEF Jobs, Statuses, Finished
  <2>. QED BY <2>1 DEF Jobs, JobOf, RepliedOf, Q!As
<1>5. again \in SUBSET {r \in Rows : /\ Jobs[r].state \in open
                                     /\ ~Jobs[r].replied
                                     /\ Jobs[r].attempts < MaxAttempts}
  <2>1. ASSUME NEW r \in again
        PROVE  /\ inbox[r].status \in {"pending", "processing"}
               /\ ~inbox[r].replied /\ inbox[r].attempts < MaxAttempts
    BY <1>3, MaxAttemptsAssumption DEF Recovered, PendingFresh, Pending
  <2>. QED BY <1>4, <2>1 DEF RepliedOf
<1>6. ASSUME NEW r \in Rows, Jobs[r].state \notin open
      PROVE  JobOf(r)' = JobOf(r)
  <2>1. inbox'[r].status = inbox[r].status
    BY <1>3, <1>4, <1>6 DEF Recovered
  <2>. QED BY <1>3, <2>1 DEF JobOf, RepliedOf, Live
<1>7. ASSUME NEW r \in Rows, Jobs[r].state \in open
      PROVE  JobOf(r)' = Q!As(IF r \in again THEN "waiting"
                              ELSE IF Jobs[r].replied THEN "done"
                              ELSE "abandoned",
                              Jobs[r].attempts, Jobs[r].replied)
  <2>1. inbox[r].status \in {"pending", "processing"}
    BY <1>4, <1>7
  <2>2. RepliedOf(r) = inbox[r].replied /\ RepliedOf(r)' = inbox[r].replied
    <3>1. Recovered(r) \in {"pending", "done", "abandoned"}
      BY <2>1 DEF Recovered
    <3>. QED BY <1>3, <2>1, <3>1 DEF RepliedOf, Live
  <2>3. Recovered(r) = IF r \in again THEN "pending"
                       ELSE IF inbox[r].replied THEN "done" ELSE "abandoned"
    BY <2>1 DEF Recovered
  <2>4. StateOf(Recovered(r)) = IF r \in again THEN "waiting"
                                ELSE IF inbox[r].replied THEN "done"
                                ELSE "abandoned"
    BY <2>3, States DEF Finished
  <2>. QED BY <1>3, <1>4, <2>2, <2>4 DEF JobOf
<1>8. Jobs' = [r \in Rows |->
                IF Jobs[r].state \notin open THEN Jobs[r]
                ELSE Q!As(IF r \in again THEN "waiting"
                          ELSE IF Jobs[r].replied THEN "done" ELSE "abandoned",
                          Jobs[r].attempts, Jobs[r].replied)]
  <2>1. Jobs' = [r \in Rows |-> Jobs'[r]]
    BY DEF Jobs
  <2>. QED BY <1>4, <1>6, <1>7, <2>1
<1>. HIDE DEF again
<1>9. Q!Recover
  BY <1>1, <1>5, <1>8 DEF Q!Recover, Jobs
<1>. QED BY <1>9 DEF Q!Next

LEMMA StopMaps ==
    ASSUME ProcessGone, phase # "down"
    PROVE  Q!Next
<1>1. phase' = "down" /\ UNCHANGED <<inbox, raced>>
  BY DEF ProcessGone
<1>2. \A r \in Rows : JobOf(r)' = JobOf(r)
  BY <1>1 DEF JobOf, RepliedOf, Live
<1>3. Jobs' = Jobs
  <2>1. \A r \in Rows : Jobs[r] = JobOf(r) /\ Jobs'[r] = JobOf(r)'
    BY DEF Jobs, JobOf, RepliedOf, Q!As
  <2>. QED BY <1>2, <2>1 DEF Jobs
<1>4. Q!Stop
  BY <1>1, <1>3 DEF Q!Stop, Jobs
<1>. QED BY <1>4 DEF Q!Next

\* A sweep that queues a row it should not have.
LEMMA SweepMaps ==
    ASSUME LifeInv, EnqueueNext
    PROVE  Q!Next \/ UNCHANGED Q!vars
<1>. USE DEF LifeInv, CopiesInv, ServiceInv, PinInv
<1>1. PICK r \in batch : raced' = raced \/ raced' = raced \cup {r}
  BY DEF EnqueueNext
<1>2. r \in Rows
  BY TypeParts DEF SetsTyped
<1>3. phase = "up" /\ UNCHANGED <<inbox, phase>>
  BY DEF EnqueueNext, durable
<1>4. \A q \in Rows : JobOf(q)' = JobOf(q)
  BY <1>3 DEF JobOf, RepliedOf, Live
<1>5. CASE raced' = raced
  BY <1>3, <1>4, <1>5, JobsStay
<1>6. CASE raced' = raced \cup {r}
  <2>1. Jobs' = Jobs
    <3>1. \A q \in Rows : Jobs[q] = JobOf(q) /\ Jobs'[q] = JobOf(q)'
      BY DEF Jobs, JobOf, RepliedOf, Q!As
    <3>. QED BY <1>4, <3>1 DEF Jobs
  <2>2. Q!Race(r)
    BY <1>3, <1>6, <2>1 DEF Q!Race, Jobs
  <2>. QED BY <1>2, <2>2 DEF Q!Next
<1>. QED BY <1>1, <1>5, <1>6

\* Only _enqueue, called by a sweep, can queue a row a second time.
LEMMA RacedFrame ==
    ASSUME [Next]_vars
    PROVE  UNCHANGED raced \/ EnqueueNext
<1>. USE DEF durable, media, history
<1>1. CASE UNCHANGED vars
  BY <1>1 DEF vars
<1>2. CASE Boot \/ Crash \/ Shutdown
  BY <1>2 DEF Boot, Crash, Shutdown, BeginDrain, StopRaises, DrainCompletes,
              GraceExpires, ProcessGone
<1>3. ASSUME NEW e \in Events, Claim(e) PROVE UNCHANGED raced
  BY <1>3 DEF Claim
<1>4. ASSUME NEW q \in Rows, EnqueueClaimed(q) \/ RowAges(q)
      PROVE  UNCHANGED raced
  BY <1>4 DEF EnqueueClaimed, RowAges
<1>5. ASSUME NEW c \in Chats, TimerFires(c) PROVE UNCHANGED raced
  BY <1>5 DEF TimerFires
<1>6. CASE SweepReads \/ SweepResumes \/ Purge
  BY <1>6 DEF SweepReads, SweepResumes, Purge
<1>7. ASSUME NEW s \in Shards, TakeItem(s) \/ DbError(s)
      PROVE  UNCHANGED raced
  BY <1>7 DEF TakeItem, TakeJob, TakeFlush, WorkerExits, DbError
<1>8. ASSUME NEW s \in Shards, Progress(s)
      PROVE  UNCHANGED raced
  BY <1>8 DEF Progress, Handler, JobMissing, MarkProcessing, FlushSends,
              FlushRaises, HandlerSends, MarkReplySent, DeliveryFails,
              HandlerParks, JobDone, JobFails
<1>. QED BY <1>1, <1>2, <1>3, <1>4, <1>5, <1>6, <1>7, <1>8 DEF Next

\* No process ends that is not running.
LEMMA GoneFrame ==
    ASSUME [Next]_vars, phase' = "down", phase # "down"
    PROVE  ProcessGone
<1>1. UNCHANGED phase \/ Boot \/ BeginDrain \/ ProcessGone
  BY PhaseFrame
<1>. QED BY <1>1 DEF Boot, BeginDrain

LEMMA StepMaps == LifeInv /\ [Next]_vars => [Q!Next]_(Q!vars)
<1> SUFFICES ASSUME LifeInv, [Next]_vars
             PROVE  Q!Next \/ UNCHANGED Q!vars
  OBVIOUS
<1>1. CASE EnqueueNext
  BY <1>1, SweepMaps
<1>2. CASE Boot
  BY <1>2, BootMaps
<1>3. CASE phase' = "down" /\ phase # "down"
  BY <1>3, GoneFrame, StopMaps
<1>4. ASSUME NEW s \in Shards,
             \/ MarkProcessing(s) \/ MarkReplySent(s) \/ DeliveryFails(s)
             \/ JobDone(s) \/ JobFails(s)
      PROVE  Q!Next \/ UNCHANGED Q!vars
  BY <1>4, StartMaps, ReplyMaps, UndeliveredMaps, DoneMaps, FailedMaps
<1>5. ASSUME NEW e \in Events, Claim(e) PROVE Q!Next
  BY <1>5, ClaimMaps
<1>6. CASE Purge
  BY <1>6, PurgeMaps
<1>7. CASE /\ UNCHANGED raced /\ (phase' # "down") = (phase # "down")
           /\ UNCHANGED inbox
  <2>1. \A r \in Rows : JobOf(r)' = JobOf(r)
    BY <1>7 DEF JobOf, RepliedOf, Live
  <2>. QED BY <1>7, <2>1, JobsStay
<1>8. ASSUME UNCHANGED raced, (phase' # "down") = (phase # "down"),
             NEW q \in Rows, RowAges(q)
      PROVE  UNCHANGED Q!vars
  <2>1. inbox' = [inbox EXCEPT ![q].age = @ + 1] /\ inbox \in [Rows -> Row]
    BY <1>8, TypeParts
       DEF RowAges, LifeInv, CopiesInv, ServiceInv, PinInv, InboxTyped
  <2>2. \A r \in Rows : /\ inbox'[r].status = inbox[r].status
                        /\ inbox'[r].attempts = inbox[r].attempts
                        /\ inbox'[r].replied = inbox[r].replied
    BY <2>1 DEF Row
  <2>3. \A r \in Rows : JobOf(r)' = JobOf(r)
    BY <2>2 DEF JobOf, RepliedOf, Live
  <2>. QED BY <1>8, <2>3, JobsStay
<1>9. ~Boot => phase' = "down" \/ phase # "down"
  BY PhaseFrame DEF BeginDrain, ProcessGone
<1>. QED BY <1>1, <1>2, <1>3, <1>4, <1>5, <1>6, <1>7, <1>8, <1>9,
            InboxFrame, RacedFrame

-----------------------------------------------------------------------------
(* What it shows. *)

\* submit_raw, _process, recover_orphans, purge_expired and the sweeps, with
\* any number of rows, chats and workers, take each message through the life
\* of a job of JobQueue: accepted once, started while it is unanswered and has
\* attempts left, brought to one end, forgotten only after that.
THEOREM PipelineImplementsJobQueue == Spec => ImplementsJobQueue
<1>1. Spec => []LifeInv
  BY LifeInit, LifeStep, PTL DEF Spec
<1>. QED BY <1>1, InitMaps, StepMaps, PTL DEF Spec, ImplementsJobQueue, Q!Spec

-----------------------------------------------------------------------------
(* Answers. *)

\* Rows of one event are never in the table at once, and only an event that has
\* had a row has been answered.
LiveOnce ==
    \A r, q \in Rows :
        Live(r) /\ Live(q) /\ inbox[r].event = inbox[q].event => r = q
AnswersKnown ==
    \A e \in Events : answers[e] > 0 => \E r \in Rows : inbox[r].event = e

\* What a worker has besides its row: nothing, or the files of its batch.
FilesHeld ==
    \A s \in Shards : Busy(s) /\ worker[s].pc \notin FlushPc =>
        worker[s].files = {worker[s].row}
Flushes(s, r) == worker[s].pc \in FlushPc /\ r \in worker[s].files
FilesFlushed ==
    \A s \in Shards, r \in Rows : Flushes(s, r) =>
        /\ Known(r) /\ HomeShard(r) = s /\ ~Pending(r)
        /\ inbox[r].event \in MediaEvents
ParkedMedia ==
    \A c \in Chats, r \in Rows : Parked(r, c) => inbox[r].event \in MediaEvents

\* A file is handled once: it is with its handler, in the buffer, or flushed.
Running(r)  == \E s \in Shards : worker[s].pc = "running" /\ worker[s].row = r
InBuffer(r) == \E c \in Chats : Parked(r, c)
InFlush(r)  == \E s \in Shards : Flushes(s, r)
FileOnce(r) == /\ Running(r) => ~InBuffer(r) /\ ~InFlush(r)
               /\ InBuffer(r) => ~InFlush(r)

\* An answer of r may be yet to come: it waits, or it is worked on, or recovery
\* would run it again.
Rerun(r) == /\ inbox[r].status = "processing" /\ ~inbox[r].replied
            /\ \A s \in Shards : r \notin AnswerOut(s)
MayAnswer(r) ==
    \/ Pending(r) \/ Running(r) \/ InBuffer(r) \/ Rerun(r)
    \/ \E s \in Shards : worker[s].pc = "flushing" /\ r \in worker[s].files

\* The exceptions of AnsweredOnce.
Excepted(e) ==
    \E r \in Rows : /\ inbox[r].event = e
                    /\ r \in raced \cup unrecorded \/ inbox[r].status = "purged"
AnswersLeft(r) ==
    Known(r) /\ ~Excepted(inbox[r].event) =>
        /\ answers[inbox[r].event] <= 1
        /\ MayAnswer(r) => answers[inbox[r].event] = 0

AnswerInv ==
    /\ LifeInv /\ LiveOnce /\ AnswersKnown
    /\ FilesHeld /\ FilesFlushed /\ ParkedMedia
    /\ \A r \in Rows \ raced : FileOnce(r)
    /\ \A r \in Rows : AnswersLeft(r)

LEMMA AnswerInit == Init => AnswerInv
<1> SUFFICES ASSUME Init PROVE AnswerInv
  OBVIOUS
<1>1. LifeInv
  BY LifeInit
<1>2. \A r \in Rows : ~Live(r) /\ ~Known(r)
  BY EventAssumption DEF Init, Live, Known, FreeRow, NewRow
<1>3. LiveOnce /\ AnswersKnown /\ \A r \in Rows : AnswersLeft(r)
  BY <1>2 DEF Init, LiveOnce, AnswersKnown, AnswersLeft
<1>4. \A s \in Shards : worker[s].pc = "idle"
  BY IdleTypes DEF Init
<1>5. \A r \in Rows : ~InBuffer(r) /\ ~InFlush(r)
  <2>1. \A c \in Chats : Len(parked[c]) = 0
    BY EmptySeq DEF Init
  <2>. QED BY <1>4, <2>1 DEF InBuffer, Parked, InFlush, Flushes, FlushPc
<1>6. FilesHeld /\ FilesFlushed /\ ParkedMedia
  BY <1>4, <1>5 DEF FilesHeld, FilesFlushed, ParkedMedia, Busy, InBuffer, InFlush
<1>7. \A r \in Rows : FileOnce(r)
  BY <1>5 DEF FileOnce
<1>. QED BY <1>1, <1>3, <1>6, <1>7 DEF AnswerInv

\* A step of one worker, seen from its record.
Frees(s) == \/ JobMissing(s) \/ JobDone(s) \/ JobFails(s) \/ DbError(s)
            \/ FlushRaises(s)
            \/ worker[s].pc = "flushing" /\ DeliveryFails(s)
            \/ worker[s].pc = "flushSent" /\ MarkReplySent(s)
Carries(s) == \/ worker[s].pc = "taken" /\ MarkProcessing(s)
              \/ worker[s].pc = "running" /\ HandlerSends(s)
              \/ worker[s].pc \in {"running", "sent"} /\ Settles(s)
              \/ worker[s].pc = "flushing" /\ FlushSends(s)
LEMMA WorkerSteps ==
    ASSUME PinInv, [Next]_vars, NEW s \in Shards
    PROVE  \/ worker'[s] = worker[s]
           \/ worker'[s] = Idle /\ (ProcessGone \/ Frees(s))
           \/ TakeJob(s) /\ worker'[s] = JobAt("taken", Head(queue[s]).row)
           \/ /\ TakeFlush(s) /\ parked[Head(queue[s]).chat] # <<>>
              /\ worker'[s].pc = "flushing"
              /\ worker'[s].files =
                   LET rows == parked[Head(queue[s]).chat]
                   IN  {rows[i] : i \in 1 .. Len(rows)}
           \/ WorkerExits(s) /\ worker'[s].pc = "exited"
           \/ /\ Carries(s)
              /\ worker'[s].row = worker[s].row
              /\ worker'[s].files = worker[s].files
              /\ worker[s].pc = "taken" => worker'[s].pc = "running"
              /\ worker[s].pc \in {"running", "sent"} =>
                   \/ HandlerSends(s) /\ worker'[s].pc = "sent"
                   \/ Settles(s) /\ worker'[s].pc = "settled"
              /\ worker[s].pc = "flushing" => worker'[s].pc = "flushSent"
<1>. USE DEF PinInv
<1>a. worker \in [Shards -> Worker] /\ WorkersTyped
  BY TypeParts DEF WorkersTyped
<1>b. ASSUME NEW pc \in WorkerPc, Goto(s, pc)
      PROVE  /\ worker'[s].row = worker[s].row
             /\ worker'[s].files = worker[s].files
             /\ worker'[s].pc = pc
  BY <1>a, <1>b DEF Goto, Worker
<1>c. worker' = [worker EXCEPT ![s] = Idle] => worker'[s] = Idle
  BY <1>a
<1>1. CASE UNCHANGED worker
  BY <1>1
<1>2. CASE ProcessGone
  BY <1>2 DEF ProcessGone
<1>3. ASSUME NEW t \in Shards, TakeItem(t) \/ Progress(t) \/ DbError(t), t # s
      PROVE  worker'[s] = worker[s]
  BY <1>a, <1>3, OtherWorkers
<1>4. CASE TakeJob(s)
  BY <1>a, <1>4 DEF TakeJob
<1>5. CASE TakeFlush(s)
  <2>. DEFINE rows == parked[Head(queue[s]).chat]
  <2>1. CASE rows = <<>>
    BY <1>1, <1>5, <2>1 DEF TakeFlush
  <2>2. CASE rows # <<>>
    <3>1. worker' = [worker EXCEPT ![s] =
                       [pc |-> "flushing", row |-> rows[Len(rows)],
                        files |-> {rows[i] : i \in 1 .. Len(rows)}]]
      BY <1>5, <2>2 DEF TakeFlush
    <3>. QED BY <1>a, <1>5, <2>2, <3>1
  <2>. QED BY <2>1, <2>2
<1>6. CASE WorkerExits(s)
  BY <1>b, <1>6 DEF WorkerExits, WorkerPc
<1>7. CASE \/ JobMissing(s) \/ JobDone(s) \/ JobFails(s) \/ DbError(s)
           \/ FlushRaises(s)
  <2>1. worker' = [worker EXCEPT ![s] = Idle]
    BY <1>7 DEF JobMissing, JobDone, JobFails, DbError, FlushRaises, JobOver
  <2>. QED BY <1>7, <1>c, <2>1 DEF Frees
<1>8. CASE MarkProcessing(s)
  BY <1>8, <1>b DEF MarkProcessing, At, WorkerPc, Carries
<1>9. CASE HandlerSends(s)
  BY <1>9, <1>b DEF HandlerSends, At, WorkerPc, Carries
<1>10. CASE HandlerParks(s)
  BY <1>10, <1>b DEF HandlerParks, At, WorkerPc, Carries, Settles
<1>11. CASE FlushSends(s)
  BY <1>11, <1>b DEF FlushSends, At, WorkerPc, Carries
<1>12. CASE MarkReplySent(s)
  <2>1. \/ worker[s].pc = "sent" /\ Goto(s, "settled")
        \/ worker[s].pc = "flushSent" /\ worker' = [worker EXCEPT ![s] = Idle]
    BY <1>12 DEF MarkReplySent, At
  <2>. QED BY <1>12, <1>b, <1>c, <2>1 DEF WorkerPc, Carries, Settles, Frees
<1>13. CASE DeliveryFails(s)
  <2>1. \/ worker[s].pc = "running" /\ Goto(s, "settled")
        \/ worker[s].pc = "flushing" /\ worker' = [worker EXCEPT ![s] = Idle]
    BY <1>13 DEF DeliveryFails, At
  <2>. QED BY <1>13, <1>b, <1>c, <2>1 DEF WorkerPc, Carries, Settles, Frees
<1>. QED
  BY <1>1, <1>2, <1>3, <1>4, <1>5, <1>6, <1>7, <1>8, <1>9, <1>10, <1>11, <1>12,
     <1>13, WorkerFrame DEF TakeItem, Progress, Handler

\* Whose files a worker comes to flush.
LEMMA FlushesFrom ==
    ASSUME PinInv, [Next]_vars, NEW s \in Shards, NEW r \in Rows, Flushes(s, r)'
    PROVE  \/ /\ Flushes(s, r)
              /\ worker'[s].pc = "flushing" => worker[s].pc = "flushing"
           \/ /\ TakeFlush(s) /\ Parked(r, Head(queue[s]).chat)
              /\ Head(queue[s]).chat \in Chats
              /\ parked'[Head(queue[s]).chat] = <<>>
              /\ UNCHANGED <<inbox, answers, raced, unrecorded>>
<1>. USE DEF PinInv, FlushPc
<1>a. ParkedTyped
  BY TypeParts
<1>b. /\ worker'[s].pc \in FlushPc /\ r \in worker'[s].files
      /\ worker'[s] # Idle
  BY IdleTypes DEF Flushes
<1>1. CASE worker'[s] = worker[s]
  BY <1>1 DEF Flushes
<1>2. ~(TakeJob(s) /\ worker'[s] = JobAt("taken", Head(queue[s]).row))
  BY <1>b DEF JobAt
<1>3. CASE /\ TakeFlush(s)
           /\ worker'[s].files =
                   LET rows == parked[Head(queue[s]).chat]
                   IN  {rows[i] : i \in 1 .. Len(rows)}
  <2>1. Head(queue[s]).chat \in Chats
    BY <1>3, HeadItem DEF TakeFlush
  <2>2. /\ parked' = [parked EXCEPT ![Head(queue[s]).chat] = <<>>]
        /\ UNCHANGED <<inbox, answers, raced, unrecorded>>
    BY <1>3 DEF TakeFlush, durable, history
  <2>3. Parked(r, Head(queue[s]).chat)
    BY <1>b, <1>3 DEF Parked
  <2>. QED BY <1>3, <1>a, <2>1, <2>2, <2>3 DEF ParkedTyped
<1>4. CASE /\ Carries(s)
           /\ worker'[s].files = worker[s].files
           /\ worker[s].pc = "taken" => worker'[s].pc = "running"
           /\ worker[s].pc \in {"running", "sent"} =>
                   \/ HandlerSends(s) /\ worker'[s].pc = "sent"
                   \/ Settles(s) /\ worker'[s].pc = "settled"
           /\ worker[s].pc = "flushing" => worker'[s].pc = "flushSent"
  BY <1>b, <1>4 DEF Carries, Flushes
<1>. QED BY <1>b, <1>1, <1>2, <1>3, <1>4, WorkerSteps

\* What comes to the buffer of a chat, and what leaves it.
LEMMA ParkedMoves ==
    ASSUME PinInv, [Next]_vars, NEW c \in Chats, NEW r \in Rows, Parked(r, c)'
    PROVE  \/ Parked(r, c)
           \/ \E s \in Shards : /\ HandlerParks(s) /\ worker[s].row = r
                                /\ worker[s].pc = "running"
                                /\ inbox[r].event \in MediaEvents
                                /\ UNCHANGED <<inbox, raced, unrecorded, answers>>
<1>. USE DEF PinInv
<1>a. WorkersTyped /\ parked \in [Chats -> Seq(Rows)]
  BY TypeParts DEF ParkedTyped
<1>1. CASE UNCHANGED parked
  BY <1>1 DEF Parked
<1>2. ~(BeginDrain \/ ProcessGone)
  <2>1. BeginDrain \/ ProcessGone => Len(parked'[c]) = 0
    BY EmptySeq DEF BeginDrain, ProcessGone
  <2>. QED BY <2>1 DEF Parked
<1>3. ASSUME NEW s \in Shards, TakeFlush(s) PROVE Parked(r, c)
  <2>1. parked'[c] = parked[c] \/ Len(parked'[c]) = 0
    BY <1>a, <1>3, EmptySeq DEF TakeFlush
  <2>. QED BY <2>1 DEF Parked
<1>4. ASSUME NEW s \in Shards, HandlerParks(s), ~Parked(r, c)
      PROVE  /\ worker[s].row = r /\ worker[s].pc = "running"
             /\ inbox[r].event \in MediaEvents
             /\ UNCHANGED <<inbox, raced, unrecorded, answers>>
  <2>. DEFINE q == worker[s].row
  <2>1. /\ worker[s].pc = "running" /\ inbox[q].event \in MediaEvents
        /\ parked' = [parked EXCEPT ![ChatOf(q)] = Append(@, q)]
        /\ UNCHANGED <<inbox, raced, unrecorded, answers>>
    BY <1>4 DEF HandlerParks, At, durable, history
  <2>2. q \in Rows
    BY <1>a, <2>1 DEF WorkersTyped, BusyHasRow, Busy
  <2>3. PICK i \in 1 .. Len(parked'[c]) : parked'[c][i] = r
    BY DEF Parked
  <2>4. parked'[c] = Append(parked[c], q)
    BY <1>a, <1>4, <2>1, <2>3 DEF Parked
  <2>5. /\ Len(parked[c]) \in Nat
        /\ Len(parked'[c]) = Len(parked[c]) + 1
        /\ \A k \in 1 .. Len(parked[c]) : parked'[c][k] = parked[c][k]
        /\ parked'[c][Len(parked[c]) + 1] = q
    BY <1>a, <2>2, <2>4, AppendProperties, LenProperties
  <2>6. i \notin 1 .. Len(parked[c])
    BY <1>4, <2>3, <2>5 DEF Parked
  <2>7. q = r
    BY <2>3, <2>5, <2>6
  <2>. QED BY <2>1, <2>7
<1>. QED BY <1>1, <1>2, <1>3, <1>4, ParkedFrame

\* An answer goes out from two actions only; both leave the rows alone.
LEMMA AnswersFrame ==
    ASSUME [Next]_vars
    PROVE  \/ UNCHANGED answers
           \/ \E s \in Shards :
                /\ HandlerSends(s) \/ FlushSends(s)
                /\ UNCHANGED <<inbox, nextRow, phase, parked, raced, unrecorded>>
<1>. USE DEF durable, media, history
<1>1. CASE UNCHANGED vars
  BY <1>1 DEF vars
<1>2. CASE Boot \/ Crash \/ Shutdown
  BY <1>2 DEF Boot, Crash, Shutdown, BeginDrain, StopRaises, DrainCompletes,
              GraceExpires, ProcessGone
<1>3. ASSUME NEW e \in Events, Claim(e) PROVE UNCHANGED answers
  BY <1>3 DEF Claim
<1>4. ASSUME NEW q \in Rows, EnqueueClaimed(q) \/ RowAges(q)
      PROVE  UNCHANGED answers
  BY <1>4 DEF EnqueueClaimed, RowAges
<1>5. ASSUME NEW c \in Chats, TimerFires(c) PROVE UNCHANGED answers
  BY <1>5 DEF TimerFires
<1>6. CASE SweepReads \/ SweepResumes \/ EnqueueNext \/ Purge
  BY <1>6 DEF SweepReads, SweepResumes, EnqueueNext, Purge
<1>7. ASSUME NEW s \in Shards,
             \/ TakeItem(s) \/ JobMissing(s) \/ MarkProcessing(s)
             \/ MarkReplySent(s) \/ DeliveryFails(s) \/ HandlerParks(s)
             \/ JobDone(s) \/ JobFails(s) \/ FlushRaises(s) \/ DbError(s)
      PROVE  UNCHANGED answers
  BY <1>7 DEF TakeItem, TakeJob, TakeFlush, WorkerExits, JobMissing,
       MarkProcessing, MarkReplySent, DeliveryFails, HandlerParks, JobDone,
       JobFails, FlushRaises, DbError
<1>8. ASSUME NEW s \in Shards, HandlerSends(s) \/ FlushSends(s)
      PROVE  UNCHANGED <<inbox, nextRow, phase, parked, raced, unrecorded>>
  BY <1>8 DEF HandlerSends, FlushSends
<1>. QED BY <1>1, <1>2, <1>3, <1>4, <1>5, <1>6, <1>7, <1>8
         DEF Next, Progress, Handler

\* The exceptions stay.
LEMMA UnrecordedKept == ASSUME [Next]_vars PROVE unrecorded \subseteq unrecorded'
<1>. USE DEF durable, media, history
<1>1. CASE UNCHANGED vars
  BY <1>1 DEF vars
<1>2. CASE Boot \/ Crash \/ Shutdown
  BY <1>2 DEF Boot, Crash, Shutdown, BeginDrain, StopRaises, DrainCompletes,
              GraceExpires, ProcessGone
<1>3. ASSUME NEW e \in Events, Claim(e) PROVE UNCHANGED unrecorded
  BY <1>3 DEF Claim
<1>4. ASSUME NEW q \in Rows, EnqueueClaimed(q) \/ RowAges(q)
      PROVE  UNCHANGED unrecorded
  BY <1>4 DEF EnqueueClaimed, RowAges
<1>5. ASSUME NEW c \in Chats, TimerFires(c) PROVE UNCHANGED unrecorded
  BY <1>5 DEF TimerFires
<1>6. CASE SweepReads \/ SweepResumes \/ EnqueueNext \/ Purge
  BY <1>6 DEF SweepReads, SweepResumes, EnqueueNext, Purge
<1>7. ASSUME NEW s \in Shards, TakeItem(s) \/ Progress(s) \/ DbError(s)
      PROVE  unrecorded \subseteq unrecorded'
  BY <1>7 DEF TakeItem, TakeJob, TakeFlush, WorkerExits, Progress, Handler,
       JobMissing, MarkProcessing, HandlerSends, MarkReplySent, DeliveryFails,
       HandlerParks, JobDone, JobFails, FlushSends, FlushRaises, DbError
<1>. QED BY <1>1, <1>2, <1>3, <1>4, <1>5, <1>6, <1>7 DEF Next

\* A row that has left the table stays away, and a new one is of an event that
\* has none.
LEMMA LiveMoves ==
    ASSUME LifeInv, [Next]_vars, NEW r \in Rows, Known(r)
    PROVE  /\ Live(r)' => Live(r)
           /\ inbox'[r].event = inbox[r].event
           /\ inbox[r].replied => inbox'[r].replied
<1>. USE DEF LifeInv, CopiesInv, ServiceInv
<1>a. PinInv /\ inbox \in [Rows -> Row] /\ inbox[r].status # "none"
  BY TypeParts DEF PinInv, InboxTyped, RowsUsed
<1>1. inbox'[r].event = inbox[r].event
  BY <1>a, EventsKept
<1>2. inbox[r].status = "purged" => inbox'[r].status = "purged"
  <2>1. CASE Boot
    <3>1. inbox'[r] = [inbox[r] EXCEPT !.status = Recovered(r)]
      BY <2>1 DEF Boot
    <3>. QED BY <1>a, <3>1 DEF Recovered, Row
  <2>2. ASSUME NEW s \in Shards, Works(s, r), inbox[r].status = "purged"
        PROVE  inbox'[r].status = "purged"
    BY <2>2 DEF Works, MarkProcessing, DeliveryFails, MarkDeliveryFailed, JobDone,
         JobFails, SetStatus, Live
  <2>3. r # nextRow
    BY <1>a, NotClaimed
  <2>. QED BY <1>a, <2>1, <2>2, <2>3, InboxMoves DEF Works, Finished
<1>3. inbox[r].replied => inbox'[r].replied
  <2>1. ASSUME NEW e \in Events, Claim(e) PROVE inbox'[r] = inbox[r]
    BY <1>a, <2>1, NotClaimed DEF Claim
  <2>2. ASSUME NEW q \in Rows, RowAges(q)
        PROVE  inbox'[r].replied = inbox[r].replied
    BY <1>a, <2>2 DEF RowAges, Row
  <2>3. CASE Purge
    BY <1>a, <2>3 DEF Purge, Row
  <2>4. CASE Boot
    <3>1. inbox'[r] = [inbox[r] EXCEPT !.status = Recovered(r)]
      BY <2>4 DEF Boot
    <3>. QED BY <1>a, <3>1 DEF Row
  <2>5. ASSUME NEW s \in Shards, MarkProcessing(s)
        PROVE  inbox'[r].replied = inbox[r].replied
    BY <1>a, <2>5 DEF MarkProcessing, Row
  <2>6. ASSUME NEW s \in Shards, MarkReplySent(s), inbox[r].replied
        PROVE  inbox'[r].replied
    BY <1>a, <2>6 DEF MarkReplySent, Row
  <2>7. ASSUME NEW s \in Shards, DeliveryFails(s) \/ JobDone(s)
        PROVE  inbox'[r].replied = inbox[r].replied
    BY <1>a, <2>7 DEF DeliveryFails, MarkDeliveryFailed, JobDone, SetStatus, Row
  <2>8. ASSUME NEW s \in Shards, JobFails(s), inbox[r].replied
        PROVE  inbox'[r].replied
    BY <1>a, <2>8 DEF JobFails, Row
  <2>. QED BY <2>1, <2>2, <2>3, <2>4, <2>5, <2>6, <2>7, <2>8, InboxFrame
<1>. QED BY <1>a, <1>1, <1>2, <1>3 DEF Live

\* Only a claim makes a row of a row id that had none.
LEMMA BornByClaim ==
    ASSUME LifeInv, [Next]_vars, NEW r \in Rows, ~Known(r), Live(r)' \/ Known(r)'
    PROVE  /\ r = nextRow
           /\ \E e \in Events : Claim(e) /\ inbox'[r] = NewRow(e)
<1>. USE DEF LifeInv, CopiesInv, ServiceInv
<1>a. PinInv /\ inbox \in [Rows -> Row]
  BY TypeParts DEF PinInv, InboxTyped
<1>b. inbox[r].status = "none"
  BY <1>a DEF PinInv, RowsKnown
<1>1. inbox'[r].status # "none"
  <2>1. RowsUsed'
    BY UsedStep
  <2>. QED BY <2>1 DEF RowsUsed, Live
<1>2. ~Boot
  <2>1. Boot => inbox'[r] = [inbox[r] EXCEPT !.status = Recovered(r)]
    BY DEF Boot
  <2>. QED BY <1>a, <1>b, <1>1, <2>1 DEF Recovered, Row
<1>3. ASSUME NEW s \in Shards, Works(s, r) PROVE FALSE
  BY <1>a, <1>3, WorksBusy DEF PinInv, WorkersHome
<1>4. PICK e \in Events : Claim(e) /\ r = nextRow
  BY <1>a, <1>b, <1>1, <1>2, <1>3, InboxMoves DEF Finished, Works
<1>. QED BY <1>a, <1>4 DEF Claim

LEMMA LiveOnceStep ==
    ASSUME AnswerInv, [Next]_vars
    PROVE  LiveOnce' /\ AnswersKnown'
<1>. USE DEF AnswerInv
<1>a. PinInv /\ inbox \in [Rows -> Row] /\ answers \in [Events -> 0 .. 2]
  BY TypeParts DEF LifeInv, CopiesInv, ServiceInv, PinInv, InboxTyped, AnswersTyped
<1>1. LiveOnce'
  <2> SUFFICES ASSUME NEW r \in Rows, NEW q \in Rows, Live(r)', Live(q)',
                      inbox'[r].event = inbox'[q].event
               PROVE  r = q
    BY DEF LiveOnce
  <2>1. ASSUME NEW x \in Rows, NEW y \in Rows, Known(x), Live(x)', Known(y), Live(y)',
               inbox'[x].event = inbox'[y].event
        PROVE  x = y
    <3>1. Live(x) /\ Live(y) /\ inbox[x].event = inbox[y].event
      BY <2>1, LiveMoves
    <3>. QED BY <3>1 DEF LiveOnce
  <2>2. ASSUME NEW x \in Rows, NEW y \in Rows, ~Known(x), Live(x)', Known(y), Live(y)'
        PROVE  inbox'[x].event # inbox'[y].event
    <3>1. PICK e \in Events : Claim(e) /\ inbox'[x] = NewRow(e)
      BY <2>2, BornByClaim
    <3>2. Live(y) /\ inbox'[y].event = inbox[y].event
      BY <2>2, LiveMoves
    <3>3. inbox[y].event # e
      BY <3>1, <3>2 DEF Claim
    <3>. QED BY <3>1, <3>2, <3>3 DEF NewRow
  <2>3. CASE Known(r) /\ Known(q)
    BY <2>1, <2>3
  <2>4. CASE ~Known(r) /\ ~Known(q)
    <3>1. r = nextRow
      BY <2>4, BornByClaim
    <3>2. q = nextRow
      BY <2>4, BornByClaim
    <3>. QED BY <3>1, <3>2
  <2>. QED BY <2>2, <2>3, <2>4
<1>2. ASSUME NEW e \in Events, answers'[e] > 0
      PROVE  \E r \in Rows : inbox'[r].event = e
  <2>1. ASSUME NEW r \in Rows, inbox[r].event = e
        PROVE  inbox'[r].event = e
    BY <1>a, <2>1, EventsKept DEF Known
  <2>2. CASE answers[e] > 0
    BY <2>1, <2>2 DEF AnswersKnown
  <2>3. CASE ~(answers[e] > 0)
    <3>1. answers'[e] # answers[e]
      BY <1>2, <2>3
    <3>2. PICK s \in Shards : HandlerSends(s) \/ FlushSends(s)
      BY <3>1, AnswersFrame
    <3>3. PICK rows : Answered(rows) /\ rows \subseteq Rows
      <4>1. CASE HandlerSends(s)
        <5>1. worker[s].row \in Rows /\ Answered({worker[s].row})
          BY <1>a, <4>1, TypeParts
             DEF HandlerSends, At, PinInv, WorkersTyped, BusyHasRow, Busy
        <5>. QED BY <5>1
      <4>2. CASE FlushSends(s)
        <5>1. worker[s].files \subseteq Rows /\ Answered(worker[s].files)
          BY <1>a, <4>2, TypeParts DEF FlushSends, PinInv, WorkersTyped, Worker
        <5>. QED BY <5>1
      <4>. QED BY <3>2, <4>1, <4>2
    <3>4. \E r \in rows : inbox[r].event = e
      BY <3>1, <3>3 DEF Answered
    <3>. QED BY <2>1, <3>3, <3>4
  <2>. QED BY <2>2, <2>3
<1>. QED BY <1>1, <1>2 DEF AnswersKnown

\* What the files of the workers and of the buffers are, step by step.
LEMMA FilesHeldStep ==
    ASSUME AnswerInv, [Next]_vars
    PROVE  FilesHeld'
<1>. USE DEF AnswerInv
<1>a. PinInv
  BY DEF LifeInv, CopiesInv, ServiceInv
<1> SUFFICES ASSUME NEW s \in Shards, Busy(s)', worker'[s].pc \notin FlushPc
             PROVE  worker'[s].files = {worker'[s].row}
  BY DEF FilesHeld
<1>1. worker'[s].pc \notin {"idle", "exited", "flushing", "flushSent"}
  BY DEF Busy, FlushPc
<1>2. worker'[s] # Idle
  BY <1>1, IdleTypes
<1>3. CASE worker'[s] = worker[s]
  BY <1>3 DEF FilesHeld, Busy
<1>4. CASE worker'[s] = JobAt("taken", Head(queue[s]).row)
  BY <1>4 DEF JobAt
<1>5. ASSUME Carries(s), worker'[s].row = worker[s].row,
             worker'[s].files = worker[s].files,
             worker[s].pc = "flushing" => worker'[s].pc = "flushSent"
      PROVE  worker'[s].files = {worker'[s].row}
  BY <1>1, <1>5 DEF Carries, FilesHeld, Busy, FlushPc
<1>. QED BY <1>a, <1>1, <1>2, <1>3, <1>4, <1>5, WorkerSteps

LEMMA FilesFlushedStep ==
    ASSUME AnswerInv, [Next]_vars
    PROVE  FilesFlushed'
<1>. USE DEF AnswerInv
<1>a. PinInv /\ DownIdle /\ FilesNotPending
  BY DEF LifeInv, CopiesInv, ServiceInv
<1> SUFFICES ASSUME NEW s \in Shards, NEW r \in Rows, Flushes(s, r)'
             PROVE  /\ Known(r)' /\ HomeShard(r)' = s /\ ~Pending(r)'
                    /\ inbox'[r].event \in MediaEvents
  BY DEF FilesFlushed
<1>1. CASE Flushes(s, r)
  <2>1. /\ Known(r) /\ HomeShard(r) = s /\ ~Pending(r)
        /\ inbox[r].event \in MediaEvents
    BY <1>1 DEF FilesFlushed
  <2>2. ~Boot
    <3>1. worker[s] # Idle
      BY <1>1, IdleTypes DEF Flushes, FlushPc
    <3>. QED BY <1>a, <3>1 DEF DownIdle, Boot
  <2>3. ~Pending(r)'
    BY <1>a, <2>1, <2>2, PendingFrame, NotClaimed
  <2>. QED BY <1>a, <2>1, <2>3, PinKept, EventsKept
<1>2. ASSUME TakeFlush(s), Parked(r, Head(queue[s]).chat),
             Head(queue[s]).chat \in Chats, UNCHANGED inbox
      PROVE  /\ Known(r)' /\ HomeShard(r)' = s /\ ~Pending(r)'
             /\ inbox'[r].event \in MediaEvents
  <2>. DEFINE c == Head(queue[s]).chat
  <2>1. Known(r) /\ ChatOf(r) = c /\ ~Pending(r) /\ inbox[r].event \in MediaEvents
    BY <1>a, <1>2 DEF PinInv, ParkedHome, FilesNotPending, ParkedMedia
  <2>2. ShardOf[c] = s
    BY <1>a, <1>2, HeadItem DEF TakeFlush
  <2>. QED BY <1>2, <2>1, <2>2 DEF Known, HomeShard, ChatOf, Pending
<1>. QED BY <1>a, <1>1, <1>2, FlushesFrom

LEMMA ParkedMediaStep ==
    ASSUME AnswerInv, [Next]_vars
    PROVE  ParkedMedia'
<1>. USE DEF AnswerInv
<1>a. PinInv
  BY DEF LifeInv, CopiesInv, ServiceInv
<1> SUFFICES ASSUME NEW c \in Chats, NEW r \in Rows, Parked(r, c)'
             PROVE  inbox'[r].event \in MediaEvents
  BY DEF ParkedMedia
<1>1. CASE Parked(r, c)
  BY <1>a, <1>1, EventsKept DEF ParkedMedia, PinInv, ParkedHome
<1>2. CASE inbox[r].event \in MediaEvents /\ UNCHANGED inbox
  BY <1>2
<1>. QED BY <1>a, <1>1, <1>2, ParkedMoves

\* A worker that comes to run a row ran it before, or has just marked it.
LEMMA RunningFrom ==
    ASSUME PinInv, [Next]_vars, NEW r \in Rows, NEW s \in Shards,
           worker'[s].pc = "running", worker'[s].row = r
    PROVE  \/ worker'[s] = worker[s]
           \/ worker[s].pc = "taken" /\ worker[s].row = r
<1>1. Holds(s, r)'
  BY DEF Holds
<1>. QED BY <1>1, WorkerMoves DEF Holds

\* An unraced file is handled once.
LEMMA FileOnceStep ==
    ASSUME AnswerInv, [Next]_vars, NEW r \in Rows, r \notin raced'
    PROVE  FileOnce(r)'
<1>. USE DEF AnswerInv
<1>a. PinInv /\ FilesNotPending /\ r \notin raced /\ FileOnce(r) /\ Solo(r)
  BY RacedMoves DEF LifeInv, CopiesInv, ServiceInv
<1>b. Taken(r) => Pending(r)
  BY <1>a DEF Solo
<1>c. Taken(r) => ~InBuffer(r) /\ ~InFlush(r)
  BY <1>a, <1>b DEF FilesNotPending, InBuffer, InFlush, FilesFlushed
<1>1. ASSUME InBuffer(r)'
      PROVE  \/ InBuffer(r)
             \/ \E t \in Shards : /\ HandlerParks(t) /\ worker[t].row = r
                                  /\ worker[t].pc = "running"
  BY <1>a, <1>1, ParkedMoves DEF InBuffer
<1>2. ASSUME InFlush(r)'
      PROVE  InFlush(r) \/ InBuffer(r)
  BY <1>a, <1>2, FlushesFrom DEF InFlush, InBuffer
<1>3. ASSUME Running(r)', InBuffer(r)' \/ InFlush(r)'
      PROVE  FALSE
  <2>1. PICK s \in Shards : worker'[s].pc = "running" /\ worker'[s].row = r
    BY <1>3 DEF Running
  <2>2. worker'[s] = worker[s] \/ (worker[s].pc = "taken" /\ worker[s].row = r)
    BY <1>a, <2>1, RunningFrom
  <2>3. Running(r) \/ Taken(r)
    BY <2>1, <2>2 DEF Running, Taken
  <2>4. ~InBuffer(r) /\ ~InFlush(r)
    BY <1>a, <1>c, <2>3 DEF FileOnce
  <2>5. PICK t \in Shards : /\ HandlerParks(t) /\ worker[t].row = r
                            /\ worker[t].pc = "running"
    BY <1>1, <1>2, <1>3, <2>4
  <2>6. t = s
    BY <1>a, <2>1, <2>2, <2>5, OneWorker DEF Busy
  <2>7. worker'[t].pc = "settled"
    <3>1. Goto(t, "settled") /\ worker \in [Shards -> Worker]
      BY <1>a, <2>5, TypeParts DEF HandlerParks, PinInv, WorkersTyped
    <3>. QED BY <3>1 DEF Goto, Worker
  <2>. QED BY <2>1, <2>6, <2>7
<1>4. ASSUME InBuffer(r)', InFlush(r)'
      PROVE  FALSE
  <2>1. CASE InBuffer(r)
    <3>1. ~InFlush(r)
      BY <1>a, <2>1 DEF FileOnce
    <3>2. PICK c \in Chats : Parked(r, c) /\ parked'[c] = <<>>
      BY <1>4, <1>a, <3>1, FlushesFrom DEF InFlush
    <3>3. PICK d \in Chats : Parked(r, d)'
      BY <1>4 DEF InBuffer
    <3>4. ~Parked(r, c)'
      <4>1. Len(parked'[c]) = 0
        BY <3>2, EmptySeq
      <4>. QED BY <4>1 DEF Parked
    <3>5. Parked(r, d)
      <4>1. ASSUME NEW t \in Shards, worker[t].row = r, worker[t].pc = "running"
            PROVE  FALSE
        BY <1>a, <2>1, <4>1 DEF FileOnce, Running
      <4>. QED BY <1>a, <3>3, <4>1, ParkedMoves
    <3>6. c = d
      BY <1>a, <3>2, <3>5 DEF PinInv, ParkedHome
    <3>. QED BY <3>3, <3>4, <3>6
  <2>2. CASE ~InBuffer(r)
    <3>1. Running(r)
      BY <1>1, <1>4, <2>2 DEF Running
    <3>. QED BY <1>2, <1>4, <1>a, <2>2, <3>1 DEF FileOnce
  <2>. QED BY <2>1, <2>2
<1>. QED BY <1>3, <1>4 DEF FileOnce

\* An exception stays one.
LEMMA ExceptedKept ==
    ASSUME AnswerInv, [Next]_vars, NEW r \in Rows, Known(r),
           Excepted(inbox[r].event)
    PROVE  Excepted(inbox[r].event)'
<1>. USE DEF AnswerInv
<1>a. PinInv /\ inbox' \in [Rows -> Row]
  BY TypeStep, TypeParts DEF LifeInv, CopiesInv, ServiceInv, PinInv, InboxTyped
<1>1. PICK q \in Rows : /\ inbox[q].event = inbox[r].event
                        /\ q \in raced \cup unrecorded \/ inbox[q].status = "purged"
  BY DEF Excepted
<1>2. Known(q) /\ inbox'[q].event = inbox[q].event
      /\ inbox'[r].event = inbox[r].event
  BY <1>1, LiveMoves DEF Known
<1>3. inbox[q].status = "purged" => inbox'[q].status = "purged"
  <2>1. RowsUsed' /\ Known(q)'
    BY <1>a, <1>2, UsedStep, PinKept
  <2>2. inbox[q].status = "purged" => ~Live(q)'
    BY <1>2, LiveMoves DEF Live
  <2>. QED BY <2>1, <2>2 DEF RowsUsed, Live
<1>4. q \in raced \cup unrecorded => q \in raced' \cup unrecorded'
  BY RacedMoves, UnrecordedKept
<1>. QED BY <1>1, <1>2, <1>3, <1>4 DEF Excepted

\* An answered row that recovery would run again stays answered, or recorded.
LEMMA AnswerOutKept ==
    ASSUME AnswerInv, [Next]_vars, NEW r \in Rows, NEW s \in Shards,
           r \in AnswerOut(s), r \notin unrecorded',
           inbox'[r].status = "processing", ~inbox'[r].replied
    PROVE  r \in AnswerOut(s)'
<1>. USE DEF AnswerInv
<1>a. PinInv /\ inbox \in [Rows -> Row]
  BY TypeParts DEF LifeInv, CopiesInv, ServiceInv, PinInv, InboxTyped
<1>1. /\ r \in worker[s].files /\ worker[s].pc \in {"sent", "flushSent"}
      /\ inbox[r].status = "processing"
  BY DEF AnswerOut
<1>2. worker[s].pc = "sent" => worker[s].row = r
  BY <1>1 DEF FilesHeld, Busy, FlushPc
<1>3. CASE worker'[s] = worker[s]
  BY <1>1, <1>3 DEF AnswerOut
<1>4. ~ProcessGone
  <2>1. ProcessGone => UNION {AnswerOut(t) : t \in Shards} \subseteq unrecorded'
    BY DEF ProcessGone
  <2>. QED BY <2>1
<1>5. ~(DbError(s) \/ FlushRaises(s))
  <2>1. DbError(s) \/ FlushRaises(s) => AnswerOut(s) \subseteq unrecorded'
    BY DEF DbError, FlushRaises
  <2>. QED BY <2>1
<1>6. ~MarkReplySent(s)
  <2>1. ASSUME MarkReplySent(s) PROVE worker[s].row = r
    <3>1. CASE worker[s].pc = "sent"
      BY <1>2, <3>1
    <3>2. CASE worker[s].pc = "flushSent"
      <4>1. unrecorded' = unrecorded \cup (AnswerOut(s) \ {worker[s].row})
        BY <2>1, <3>2 DEF MarkReplySent, At
      <4>. QED BY <4>1
    <3>. QED BY <1>1, <3>1, <3>2
  <2>2. MarkReplySent(s) => inbox' = [inbox EXCEPT ![worker[s].row].replied = TRUE]
    BY DEF MarkReplySent
  <2>. QED BY <1>a, <2>1, <2>2 DEF Row
<1>7. ~JobFails(s)
  <2>1. ASSUME JobFails(s) PROVE worker[s].row = r
    <3>1. worker[s].pc \in {"running", "sent", "settled"}
      BY <2>1 DEF JobFails, InHandler, At
    <3>. QED BY <1>1, <1>2, <3>1
  <2>2. ASSUME JobFails(s) PROVE inbox'[r].status = "failed"
    <3>1. PICK apologised \in BOOLEAN :
            inbox' = IF Live(r) THEN [inbox EXCEPT ![r].status = "failed",
                                                   ![r].replied = @ \/ apologised]
                                ELSE inbox
      BY <2>1, <2>2 DEF JobFails
    <3>2. Live(r)
      BY <1>1 DEF Live
    <3>. QED BY <1>a, <3>1, <3>2 DEF Row
  <2>. QED BY <2>2
<1>8. /\ JobMissing(s) \/ MarkProcessing(s) => worker[s].pc = "taken"
      /\ HandlerSends(s) \/ HandlerParks(s) => worker[s].pc = "running"
      /\ DeliveryFails(s) \/ FlushSends(s) => worker[s].pc \in {"running", "flushing"}
      /\ JobDone(s) => worker[s].pc \in {"running", "settled"}
      /\ TakeJob(s) \/ TakeFlush(s) \/ WorkerExits(s) => worker[s].pc = "idle"
  BY DEF JobMissing, MarkProcessing, HandlerSends, HandlerParks, DeliveryFails,
         FlushSends, JobDone, TakeJob, TakeFlush, WorkerExits, At
<1>9. ~Frees(s)
  BY <1>1, <1>5, <1>6, <1>7, <1>8 DEF Frees
<1>10. ~Carries(s)
  BY <1>1, <1>6, <1>8 DEF Carries, Settles
<1>. QED BY <1>a, <1>1, <1>3, <1>4, <1>8, <1>9, <1>10, WorkerSteps

\* A row whose answer may be yet to come could be answered before the step.
LEMMA MayAnswerBack ==
    ASSUME AnswerInv, [Next]_vars, NEW r \in Rows, Known(r),
           r \notin raced', r \notin unrecorded', MayAnswer(r)'
    PROVE  MayAnswer(r)
<1>. USE DEF AnswerInv
<1>a. /\ PinInv /\ DownIdle /\ r \notin raced /\ Solo(r)
      /\ inbox \in [Rows -> Row] /\ r # nextRow
  BY RacedMoves, NotClaimed, TypeParts
     DEF LifeInv, CopiesInv, ServiceInv, PinInv, InboxTyped
<1>b. Taken(r) => Pending(r)
  BY <1>a DEF Solo
<1>1. CASE Pending(r)'
  <2>1. CASE Boot
    <3>1. inbox'[r] = [inbox[r] EXCEPT !.status = Recovered(r)]
      BY <2>1 DEF Boot
    <3>2. Recovered(r) = "pending"
      BY <1>1, <1>a, <3>1 DEF Pending, Row
    <3>3. Pending(r) \/ (inbox[r].status = "processing" /\ ~inbox[r].replied)
      BY <3>2 DEF Recovered, Pending
    <3>4. \A s \in Shards : AnswerOut(s) = {}
      BY <1>a, <2>1, IdleTypes DEF Boot, DownIdle, AnswerOut
    <3>. QED BY <3>3, <3>4 DEF MayAnswer, Rerun
  <2>. QED BY <1>1, <1>a, <2>1, PendingFrame DEF MayAnswer
<1>2. CASE Running(r)'
  <2>1. PICK s \in Shards : worker'[s].pc = "running" /\ worker'[s].row = r
    BY <1>2 DEF Running
  <2>2. Running(r) \/ Taken(r)
    BY <1>a, <2>1, RunningFrom DEF Running, Taken
  <2>. QED BY <1>b, <2>2 DEF MayAnswer
<1>3. CASE InBuffer(r)'
  <2>1. InBuffer(r) \/ Running(r)
    BY <1>3, <1>a, ParkedMoves DEF InBuffer, Running
  <2>. QED BY <2>1 DEF MayAnswer
<1>4. ASSUME NEW s \in Shards, worker'[s].pc = "flushing", r \in worker'[s].files
      PROVE  MayAnswer(r)
  <2>1. Flushes(s, r)'
    BY <1>4 DEF Flushes, FlushPc
  <2>2. (worker[s].pc = "flushing" /\ r \in worker[s].files) \/ InBuffer(r)
    BY <1>4, <1>a, <2>1, FlushesFrom DEF Flushes, InBuffer
  <2>. QED BY <2>2 DEF MayAnswer
<1>5. CASE Rerun(r)'
  <2>1. /\ inbox'[r].status = "processing" /\ ~inbox'[r].replied
        /\ \A s \in Shards : r \notin AnswerOut(s)'
    BY <1>5 DEF Rerun
  <2>2. ~inbox[r].replied
    BY <2>1, LiveMoves
  <2>3. inbox[r].status = "processing" \/ Pending(r)
    <3>1. CASE Boot
      <4>1. inbox'[r] = [inbox[r] EXCEPT !.status = Recovered(r)]
        BY <3>1 DEF Boot
      <4>2. Recovered(r) = "processing"
        BY <1>a, <2>1, <4>1 DEF Row
      <4>. QED BY <4>2 DEF Recovered
    <3>2. ASSUME NEW s \in Shards, MarkProcessing(s), worker[s].row = r
          PROVE  Pending(r)
      BY <1>b, <3>2 DEF MarkProcessing, At, Taken
    <3>3. ASSUME NEW s \in Shards, Works(s, r), ~MarkProcessing(s)
          PROVE  inbox[r].status = "processing"
      BY <1>a, <2>1, <3>3 DEF Works, DeliveryFails, MarkDeliveryFailed, JobDone,
           JobFails, SetStatus, Live, Row
    <3>. QED BY <1>a, <2>1, <3>1, <3>2, <3>3, InboxMoves
  <2>4. \A s \in Shards : r \notin AnswerOut(s)
    BY <2>1, AnswerOutKept
  <2>. QED BY <2>2, <2>3, <2>4 DEF MayAnswer, Rerun
<1>. QED BY <1>1, <1>2, <1>3, <1>4, <1>5 DEF MayAnswer

\* Rows of one event that are neither exceptions nor unused are one row.
LEMMA OneClean ==
    ASSUME AnswerInv, NEW r \in Rows, NEW q \in Rows, Known(r),
           ~Excepted(inbox[r].event), inbox[q].event = inbox[r].event
    PROVE  q = r
<1>1. Known(q)
  BY DEF Known
<1>2. /\ inbox[q].status \notin {"none", "purged"}
      /\ inbox[r].status \notin {"none", "purged"}
  BY <1>1 DEF AnswerInv, LifeInv, RowsUsed, Excepted
<1>. QED BY <1>2 DEF AnswerInv, LiveOnce, Live

\* An answer goes out: its row, if it is no exception, had none, and none is
\* left to come.
LEMMA HandlerSendsLeft ==
    ASSUME AnswerInv, [Next]_vars, NEW s \in Shards, HandlerSends(s),
           UNCHANGED <<inbox, parked, raced, unrecorded>>,
           NEW r \in Rows, worker[s].row = r, ~Excepted(inbox[r].event)
    PROVE  Running(r) /\ Known(r) /\ ~MayAnswer(r)'
<1>. USE DEF AnswerInv
<1>a. PinInv /\ r \notin raced /\ Solo(r) /\ FileOnce(r)
  BY DEF LifeInv, CopiesInv, ServiceInv, Excepted
<1>1. worker[s].pc = "running" /\ worker' = [worker EXCEPT ![s].pc = "sent"]
  BY DEF HandlerSends, At, Goto
<1>2. /\ worker'[s].pc = "sent" /\ r \in worker'[s].files
      /\ \A t \in Shards \ {s} : worker'[t] = worker[t]
  <2>1. worker \in [Shards -> Worker] /\ r \in worker[s].files
    BY <1>a, <1>1, TypeParts
       DEF PinInv, WorkersTyped, FilesHeld, Busy, FlushPc
  <2>. QED BY <1>1, <2>1 DEF Worker
<1>3. Running(r) /\ Known(r)
  BY <1>a, <1>1 DEF Running, PinInv, WorkersHome, Busy
<1>4. ~InBuffer(r) /\ ~InFlush(r)
  BY <1>a, <1>3 DEF FileOnce
<1>5. inbox[r].status = "processing"
  BY <1>a, <1>1 DEF Solo, RunsAs
<1>6. ~Pending(r)'
  BY <1>5 DEF Pending
<1>7. ~Running(r)'
  <2> SUFFICES ASSUME NEW t \in Shards, worker'[t].pc = "running", worker'[t].row = r
               PROVE  FALSE
    BY DEF Running
  <2>1. t # s /\ worker'[t] = worker[t]
    BY <1>2
  <2>. QED BY <1>1, <1>a, <2>1, OneWorker DEF Busy
<1>8. ~InBuffer(r)'
  BY <1>4 DEF InBuffer, Parked
<1>9. ~Rerun(r)'
  BY <1>2, <1>5 DEF Rerun, AnswerOut
<1>10. ASSUME NEW t \in Shards, worker'[t].pc = "flushing", r \in worker'[t].files
       PROVE  FALSE
  BY <1>2, <1>4, <1>10 DEF InFlush, Flushes, FlushPc
<1>. QED BY <1>3, <1>6, <1>7, <1>8, <1>9, <1>10 DEF MayAnswer

LEMMA FlushSendsLeft ==
    ASSUME AnswerInv, [Next]_vars, NEW s \in Shards, FlushSends(s),
           UNCHANGED <<inbox, parked, raced, unrecorded>>,
           NEW r \in Rows, r \in worker[s].files, ~Excepted(inbox[r].event)
    PROVE  /\ worker[s].pc = "flushing"
           /\ Known(r) /\ ~MayAnswer(r)'
<1>. USE DEF AnswerInv
<1>a. PinInv /\ r \notin raced /\ FileOnce(r)
  BY DEF LifeInv, CopiesInv, ServiceInv, Excepted
<1>1. worker[s].pc = "flushing" /\ worker' = [worker EXCEPT ![s].pc = "flushSent"]
  BY DEF FlushSends, At, Goto
<1>2. /\ worker'[s].pc = "flushSent" /\ r \in worker'[s].files
      /\ \A t \in Shards \ {s} : worker'[t] = worker[t]
  <2>1. worker \in [Shards -> Worker]
    BY <1>a, TypeParts DEF PinInv, WorkersTyped
  <2>. QED BY <1>1, <2>1 DEF Worker
<1>3. Flushes(s, r)
  BY <1>1 DEF Flushes, FlushPc
<1>4. Known(r) /\ HomeShard(r) = s /\ ~Pending(r)
  BY <1>3 DEF FilesFlushed
<1>5. ~Running(r) /\ ~InBuffer(r)
  BY <1>a, <1>3 DEF FileOnce, InFlush
<1>6. ~Pending(r)' /\ ~InBuffer(r)'
  BY <1>4, <1>5 DEF Pending, InBuffer, Parked
<1>7. ~Running(r)'
  BY <1>2, <1>5 DEF Running
<1>8. ~Rerun(r)'
  BY <1>2 DEF Rerun, AnswerOut
<1>9. ASSUME NEW t \in Shards, worker'[t].pc = "flushing", r \in worker'[t].files
      PROVE  FALSE
  <2>1. t # s /\ worker'[t] = worker[t]
    BY <1>2, <1>9
  <2>2. Flushes(t, r)
    BY <1>9, <2>1 DEF Flushes, FlushPc
  <2>. QED BY <1>4, <2>1, <2>2 DEF FilesFlushed
<1>. QED BY <1>1, <1>4, <1>6, <1>7, <1>8, <1>9 DEF MayAnswer

LEMMA AnswersLeftStep ==
    ASSUME AnswerInv, [Next]_vars, NEW r \in Rows
    PROVE  AnswersLeft(r)'
<1>. USE DEF AnswerInv
<1>a. PinInv /\ answers \in [Events -> 0 .. 2] /\ inbox \in [Rows -> Row]
  BY TypeParts
     DEF LifeInv, CopiesInv, ServiceInv, PinInv, AnswersTyped, InboxTyped
<1> SUFFICES ASSUME Known(r)', ~Excepted(inbox[r].event)'
             PROVE  /\ answers'[inbox'[r].event] <= 1
                    /\ MayAnswer(r)' => answers'[inbox'[r].event] = 0
  BY DEF AnswersLeft
<1>1. CASE ~Known(r)
  <2>1. PICK e \in Events : Claim(e) /\ inbox'[r] = NewRow(e)
    BY <1>1, BornByClaim
  <2>2. inbox'[r].event = e /\ answers' = answers
    BY <2>1 DEF NewRow, Claim, history
  <2>3. ASSUME NEW q \in Rows, inbox[q].event = e PROVE FALSE
    <3>1. Known(q) /\ inbox'[q].event = e /\ q # nextRow
      BY <1>a, <2>3, EventsKept, NotClaimed DEF Known
    <3>2. inbox'[q] = inbox[q]
      BY <1>a, <2>1, <3>1 DEF Claim
    <3>3. inbox[q].status = "purged"
      BY <2>1, <2>3, <3>1 DEF Claim, Live, LifeInv, RowsUsed
    <3>. QED BY <2>2, <3>1, <3>2, <3>3 DEF Excepted
  <2>4. answers[e] = 0
    BY <1>a, <2>3 DEF AnswersKnown
  <2>. QED BY <2>2, <2>4
<1>2. CASE Known(r)
  <2>. DEFINE e == inbox[r].event
  <2>1. e \in Events /\ inbox'[r].event = e /\ ~Excepted(e)
    BY <1>2, LiveMoves, ExceptedKept DEF Known
  <2>2. answers[e] <= 1 /\ (MayAnswer(r) => answers[e] = 0)
    BY <1>2, <2>1 DEF AnswersLeft
  <2>3. MayAnswer(r)' => MayAnswer(r)
    <3>1. r \notin raced' /\ r \notin unrecorded'
      BY DEF Excepted
    <3>. QED BY <1>2, <3>1, MayAnswerBack
  <2>4. CASE answers'[e] = answers[e]
    BY <2>1, <2>2, <2>3, <2>4
  <2>5. CASE answers'[e] # answers[e]
    <3>1. PICK s \in Shards :
            /\ HandlerSends(s) \/ FlushSends(s)
            /\ UNCHANGED <<inbox, nextRow, phase, parked, raced, unrecorded>>
      BY <2>5, AnswersFrame
    <3>2. ASSUME NEW rows \in SUBSET Rows, Answered(rows)
          PROVE  r \in rows /\ answers'[e] = answers[e] + 1
      <4>1. /\ \E q \in rows : inbox[q].event = e
            /\ answers'[e] = answers[e] + 1
        BY <2>1, <2>5, <3>2 DEF Answered
      <4>2. r \in rows
        BY <1>2, <2>1, <4>1, OneClean
      <4>. QED BY <4>1, <4>2
    <3>3. CASE HandlerSends(s)
      <4>1. worker[s].row \in Rows /\ Answered({worker[s].row})
        BY <1>a, <3>3, TypeParts
           DEF HandlerSends, At, PinInv, WorkersTyped, BusyHasRow, Busy
      <4>2. worker[s].row = r /\ answers'[e] = answers[e] + 1
        BY <3>2, <4>1
      <4>3. Running(r) /\ ~MayAnswer(r)'
        BY <2>1, <3>1, <3>3, <4>2, HandlerSendsLeft
      <4>4. answers[e] = 0
        BY <2>2, <4>3 DEF MayAnswer
      <4>. QED BY <2>1, <4>2, <4>3, <4>4
    <3>4. CASE FlushSends(s)
      <4>1. worker[s].files \in SUBSET Rows /\ Answered(worker[s].files)
        BY <1>a, <3>4, TypeParts DEF FlushSends, PinInv, WorkersTyped, Worker
      <4>2. r \in worker[s].files /\ answers'[e] = answers[e] + 1
        BY <3>2, <4>1
      <4>3. worker[s].pc = "flushing" /\ ~MayAnswer(r)'
        BY <2>1, <3>1, <3>4, <4>2, FlushSendsLeft
      <4>4. answers[e] = 0
        BY <2>2, <4>2, <4>3 DEF MayAnswer
      <4>. QED BY <2>1, <4>2, <4>3, <4>4
    <3>. QED BY <3>1, <3>3, <3>4
  <2>. QED BY <2>4, <2>5
<1>. QED BY <1>1, <1>2

LEMMA AnswerStep == AnswerInv /\ [Next]_vars => AnswerInv'
<1> SUFFICES ASSUME AnswerInv, [Next]_vars PROVE AnswerInv'
  OBVIOUS
<1>1. LifeInv'
  BY LifeStep DEF AnswerInv
<1>2. FilesHeld' /\ FilesFlushed' /\ ParkedMedia'
  BY FilesHeldStep, FilesFlushedStep, ParkedMediaStep
<1>3. \A r \in Rows : r \notin raced' => FileOnce(r)'
  BY FileOnceStep
<1>. QED BY <1>1, <1>2, <1>3, LiveOnceStep, AnswersLeftStep DEF AnswerInv

\* An event is answered twice only when a sweep ran a row it should not have,
\* when the process or the handler ended between LINE's accept and
\* mark_reply_sent, or when the event came again after its row was purged:
\* redeliveries, re-runs, debounced batches and restarts alone never do it.
THEOREM EventsAnsweredOnce == Spec => []AnsweredOnce
<1>1. AnswerInv => AnsweredOnce
  <2> SUFFICES ASSUME AnswerInv, NEW e \in Events, answers[e] > 1
               PROVE  Excepted(e)
    BY DEF AnsweredOnce, Excepted
  <2>1. answers \in [Events -> 0 .. 2]
    BY TypeParts
       DEF AnswerInv, LifeInv, CopiesInv, ServiceInv, PinInv, AnswersTyped
  <2>2. PICK r \in Rows : inbox[r].event = e
    BY <2>1 DEF AnswerInv, AnswersKnown
  <2>. QED BY <2>1, <2>2 DEF AnswerInv, AnswersLeft, Known
<1>. QED BY <1>1, AnswerInit, AnswerStep, PTL DEF Spec
=============================================================================
