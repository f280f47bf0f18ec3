--------------------------- MODULE DeliveryProofs ---------------------------
(***************************************************************************)
(* Theorems about Delivery, for any number of workers, chats and jobs.     *)
(*                                                                         *)
(* DeliveryInv is the inductive invariant.  Most of it follows a worker    *)
(* with its job: while it sends, no other worker touches the job or its    *)
(* chat (WorkInv), so an answer the inbox does not know of is in the hands *)
(* of that one worker (AnswerInv).  BreakerInv counts the pushes under     *)
(* way, ConsumedInv relates what the Replier remembers to what it sent,    *)
(* NoticesInv what the Notifier remembers to its apologies.                *)
(***************************************************************************)
EXTENDS Delivery, FiniteSetTheorems, TLAPS

Busy(w) == run[w].pc # "idle"

\* A worker is idle or holds a job; LINE has taken a message only of a call
\* that has not returned.
HoldInv ==
    \A w \in Workers :
        /\ Busy(w) \/ run[w] = Idle
        /\ Busy(w) => run[w].job \in Jobs
        /\ run[w].taken => Calling(w)

\* Two workers are never busy with one chat.
ChatInv ==
    \A v, w \in Workers : v # w /\ Busy(v) /\ Busy(w) =>
        JobChat[run[v].job] # JobChat[run[w].job]

\* What the inbox says of the job a worker holds.
SendsAnswer(w) ==
    /\ run[w].what = "answer"
    /\ run[w].pc \in {"working", "replying", "pushing", "retrying", "recording", "givingUp"}
StatusOf(w) ==
    /\ SendsAnswer(w) => /\ job[run[w].job].status = "processing"
                         /\ ~job[run[w].job].replied
    /\ run[w].what = "notice" \/ run[w].pc = "failed" =>
         job[run[w].job].status = "failed"
    /\ run[w].pc = "sent" =>
         /\ run[w].what = "answer"
         /\ \/ job[run[w].job].status = "processing" /\ job[run[w].job].replied
            \/ job[run[w].job].status = "delivery_failed"
    /\ run[w].pc \in {"working", "failed"} => run[w].what = "answer"
StatusInv == \A w \in Workers : StatusOf(w)

\* A job that has yet to run has an attempt left and no answer.
FreshInv ==
    \A j \in Jobs :
        /\ job[j].status = "none" => job[j].attempts = 0 /\ shown[j] = 0
        /\ job[j].status = "pending" => job[j].attempts < MaxAttempts
        /\ job[j].status \in {"none", "pending"} => ~job[j].replied

\* What the user has seen of an answer: once at most, and then the inbox knows or
\* is about to, unless LINE took it without our knowing.
SeenOf(j, inDoubt) ==
    /\ j \notin unheard =>
         shown[j] <= 1 /\ (shown[j] = 1 => job[j].replied \/ inDoubt)
    /\ job[j].replied /\ job[j].status # "failed" => shown[j] > 0
    /\ job[j].status = "done" => shown[j] > 0
    /\ job[j].status = "delivery_failed" => shown[j] = 0 \/ j \in unheard
    /\ inDoubt => shown[j] > 0
AnswerInv ==
    \A j \in Jobs : SeenOf(j, \E w \in Workers : InDoubt(w) /\ run[w].job = j)

Pushers == {w \in Workers : run[w].pc \in {"pushing", "retrying"}}

\* With the breaker open, every refusal to come is of a push under way.
BreakerInv ==
    /\ RefusalsBounded
    /\ now < blockedUntil => refusals + Cardinality(Pushers) <= Cardinality(Workers)

\* _consumed is the tail of what this boot sent, without repetition.
ConsumedInv ==
    /\ Len(consumed) <= Len(tried)
    /\ Len(consumed) < ConsumedMax => Len(consumed) = Len(tried)
    /\ \A i \in 1 .. Len(consumed) : consumed[i] = tried[Len(tried) - Len(consumed) + i]
    /\ \A i, k \in 1 .. Len(consumed) : i # k => consumed[i] # consumed[k]

\* At time t, every apology of a chat has had its window, or the chat's entry m in
\* _last_notified is no older; and they are a window apart.
Remembered(sent, m, t) ==
    /\ \A i \in 1 .. Len(sent) :
         sent[i] + NotifyWindow <= t \/ (m # Never /\ sent[i] <= m)
    /\ \A i, k \in 1 .. Len(sent) : i < k => sent[i] + NotifyWindow <= sent[k]
NoticesInv == \A c \in Chats : Remembered(notices[c], notified[c], now)

WorkInv == HoldInv /\ ChatInv /\ StatusInv /\ FreshInv
DeliveryInv ==
    /\ TypeOK /\ WorkInv /\ AnswerInv /\ BreakerInv /\ ConsumedInv /\ TokenReusedOnlyAfterCap
    /\ NoticesInv
-----------------------------------------------------------------------------
(* What the steps do to a worker. *)

Pcs == {"idle", "working", "replying", "pushing", "retrying", "recording",
        "givingUp", "sent", "failed"}
Run == [pc : Pcs, job : Jobs \cup {NoJob}, what : {"answer", "notice"},
        batch : AllBatches, taken : BOOLEAN]
Statuses == {"none", "pending", "processing", "done", "failed", "delivery_failed",
             "abandoned"}
Job == [status : Statuses, attempts : 0 .. MaxAttempts, replied : BOOLEAN,
        received : 0 .. MaxTime, event_ts : 0 .. MaxTime]

\* Only w moves.
Moves(w) == /\ run' \in [Workers -> Run]
            /\ \A v \in Workers : v # w => run'[v] = run[v]

\* TypeOK, with its sets of records named.
Typed ==
    /\ now \in 0 .. MaxTime /\ restarts \in 0 .. MaxRestarts
    /\ job \in [Jobs -> Job] /\ run \in [Workers -> Run]
    /\ consumed \in Seq(Jobs) /\ Len(consumed) <= ConsumedMax
    /\ blockedUntil \in Nat /\ refusals \in Nat
    /\ notified \in [Chats -> 0 .. Never]
    /\ spent \subseteq Jobs /\ pushesLeft \in 0 .. Quota
    /\ shown \in [Jobs -> Nat] /\ unheard \subseteq Jobs
    /\ tried \in Seq(Jobs)
    /\ notices \in [Chats -> Seq(0 .. MaxTime)]

LEMMA Types == TypeOK => Typed
BY DEF TypeOK, Typed, Job, Run, Pcs, Statuses

LEMMA TypesNext == Typed' => TypeOK'
BY DEF TypeOK, Typed, Job, Run, Pcs, Statuses

LEMMA IdleIsRun == Idle \in Run
BY DEF Idle, Run, Pcs, AllBatches

LEMMA IdleFields == Idle.pc = "idle" /\ Idle.what = "answer" /\ ~Idle.taken
BY DEF Idle

\* A returned call leaves its worker's job and message, and nothing in flight.
LEMMA GotoMoves ==
    ASSUME TypeOK, NEW w \in Workers, NEW pc \in Pcs, Goto(w, pc)
    PROVE  /\ Moves(w)
           /\ run'[w].pc = pc /\ run'[w].job = run[w].job
           /\ run'[w].what = run[w].what /\ ~run'[w].taken
BY Types DEF Typed, Goto, Moves, Run

LEMMA IdleMoves ==
    ASSUME TypeOK, NEW w \in Workers, run' = [run EXCEPT ![w] = Idle]
    PROVE  Moves(w) /\ run'[w] = Idle
BY Types, IdleIsRun DEF Typed, Moves

\* send begins: a reply, a push that the breaker allows, or nothing.
LEMMA SendMoves ==
    ASSUME TypeOK, NEW w \in Workers, NEW what \in {"answer", "notice"},
           NEW batch \in AllBatches, Send(w, what, batch)
    PROVE  /\ Moves(w)
           /\ run'[w].pc \in {"replying", "pushing", "givingUp"}
           /\ run'[w].pc = "pushing" => ~(now < blockedUntil)
           /\ run'[w].job = run[w].job /\ run'[w].what = what /\ ~run'[w].taken
           /\ \/ /\ TokenUsable(run[w].job)
                 /\ consumed' = Consume(run[w].job) /\ tried' = Append(tried, run[w].job)
              \/ UNCHANGED <<consumed, tried>>
<1>. DEFINE at(pc) == [pc |-> pc, job |-> run[w].job, what |-> what, batch |-> batch,
                       taken |-> FALSE]
<1>1. run[w] \in Run /\ run \in [Workers -> Run]
  BY Types DEF Typed
<1>2. at("replying") \in Run /\ at("pushing") \in Run /\ at("givingUp") \in Run
  BY <1>1 DEF Run, Pcs
<1>3. CASE TokenUsable(run[w].job)
  <2>1. run' = [run EXCEPT ![w] = at("replying")]
    BY <1>3 DEF Send
  <2>2. consumed' = Consume(run[w].job) /\ tried' = Append(tried, run[w].job)
    BY <1>3 DEF Send
  <2>. QED BY <1>1, <1>2, <1>3, <2>1, <2>2 DEF Moves
<1>4. CASE ~TokenUsable(run[w].job)
  <2>1. run' = [run EXCEPT ![w] = [at("replying") EXCEPT !.pc = PushUnlessBlocked]]
        /\ UNCHANGED <<consumed, tried>>
    BY <1>4 DEF Send
  <2>2. /\ PushUnlessBlocked \in {"pushing", "givingUp"}
        /\ PushUnlessBlocked = "pushing" => ~(now < blockedUntil)
    BY DEF PushUnlessBlocked
  <2>3. PICK r : r = [at("replying") EXCEPT !.pc = PushUnlessBlocked]
    OBVIOUS
  <2>4. /\ r \in Run /\ r.pc = PushUnlessBlocked /\ r.job = run[w].job
        /\ r.what = what /\ ~r.taken
    BY <1>2, <2>2, <2>3 DEF Run, Pcs
  <2>. QED BY <1>1, <2>1, <2>2, <2>3, <2>4 DEF Moves
<1>. QED BY <1>3, <1>4

LEMMA SendOverMoves ==
    ASSUME TypeOK, NEW w \in Workers, SendOver(w)
    PROVE  /\ Moves(w)
           /\ \/ run[w].what = "answer" /\ run'[w].pc = "sent"
                 /\ run'[w].job = run[w].job /\ run'[w].what = "answer"
                 /\ run'[w].taken = run[w].taken
              \/ run[w].what = "notice" /\ run'[w] = Idle
BY Types, IdleIsRun DEF Typed, SendOver, Moves, Run, Pcs

LEMMA StartMoves ==
    ASSUME TypeOK, NEW w \in Workers, NEW j \in Jobs, NEW pc \in Pcs,
           run' = [run EXCEPT ![w] = [Idle EXCEPT !.pc = pc, !.job = j]]
    PROVE  /\ Moves(w)
           /\ run'[w].pc = pc /\ run'[w].job = j
           /\ run'[w].what = "answer" /\ ~run'[w].taken
BY Types, IdleIsRun DEF Typed, Idle, Moves, Run

LEMMA AcceptMoves ==
    ASSUME TypeOK, NEW w \in Workers, LineAccepts(w)
    PROVE  /\ Moves(w)
           /\ run'[w].pc = run[w].pc /\ run'[w].job = run[w].job
           /\ run'[w].what = run[w].what /\ run'[w].taken
BY Types DEF Typed, LineAccepts, Moves, Run

\* A call to LINE returns, whichever it was: unless LINE took the message, nothing
\* is recorded, and a message it took in a call that failed is unheard of.
Returns(w) ==
    /\ Moves(w) /\ Calling(w)
    /\ run'[w].pc \in {"recording", "pushing", "retrying", "givingUp"}
    /\ run'[w].pc = "recording" => run[w].taken
    /\ run'[w].pc = "pushing" => ~(now < blockedUntil)
    /\ run'[w].pc = "retrying" => run[w].pc = "pushing"
    /\ run'[w].job = run[w].job /\ run'[w].what = run[w].what /\ ~run'[w].taken
    /\ \/ /\ run[w].taken /\ run[w].what = "answer" /\ run'[w].pc # "recording"
          /\ unheard' = unheard \cup {run[w].job}
       \/ /\ run[w].taken /\ run[w].what = "answer" => run'[w].pc = "recording"
          /\ unheard' = unheard
    /\ \/ UNCHANGED <<blockedUntil, refusals>>
       \/ /\ run[w].pc \in {"pushing", "retrying"} /\ run'[w].pc = "givingUp"
          /\ blockedUntil' = now + Cooldown
          /\ refusals' = IF now < blockedUntil THEN refusals + 1 ELSE 1
    /\ spent' \in {spent, spent \cup {run[w].job}}
    /\ UNCHANGED <<now, job, consumed, notified, pushesLeft, restarts, shown, tried,
                   notices>>

LEMMA ResultsAre ==
    ASSUME TypeOK, NEW w \in Workers, NEW result \in Results(w)
    PROVE  /\ result \in {"ok", "lost", "refused", "rate", "quota"}
           /\ result = "ok" => run[w].taken
           /\ run[w].pc = "replying" => result \notin {"rate", "quota"}
BY Types DEF Typed, Results

LEMMA ReturnMoves ==
    ASSUME TypeOK, NEW w \in Workers,
           ReplyReturns(w) \/ PushReturns(w) \/ RetryReturns(w)
    PROVE  Returns(w)
<1>. USE Types DEF Typed
<1>1. CASE ReplyReturns(w)
  <2>1. PICK result \in Results(w) :
          /\ Goto(w, IF result = "ok" THEN "recording" ELSE PushUnlessBlocked)
          /\ Unheard(w, result)
          /\ spent' = IF result = "refused" THEN spent \cup {run[w].job} ELSE spent
    BY <1>1 DEF ReplyReturns
  <2>2. run[w].pc = "replying" /\ UNCHANGED <<now, job, memory, pushesLeft, restarts,
                                             shown, tried, notices, refusals>>
    BY <1>1 DEF ReplyReturns
  <2>3. PushUnlessBlocked \in {"pushing", "givingUp"}
        /\ (PushUnlessBlocked = "pushing" => ~(now < blockedUntil))
    BY DEF PushUnlessBlocked
  <2>4. PICK pc \in Pcs : /\ pc = IF result = "ok" THEN "recording" ELSE PushUnlessBlocked
                         /\ Goto(w, pc)
    BY <2>1, <2>3 DEF Pcs
  <2>5. Moves(w) /\ run'[w].pc = pc /\ run'[w].job = run[w].job
        /\ run'[w].what = run[w].what /\ ~run'[w].taken
    BY <2>4, GotoMoves
  <2>. QED BY <2>1, <2>2, <2>3, <2>4, <2>5, ResultsAre DEF Returns, Unheard, Calling, memory
<1>2. ASSUME NEW result \in Results(w), NEW pc \in Pcs,
             run[w].pc \in {"pushing", "retrying"}, Goto(w, pc),
             BlockPush(result), Unheard(w, result),
             pc = "recording" <=> result = "ok",
             pc \in {"recording", "retrying", "givingUp"},
             pc = "retrying" => run[w].pc = "pushing" /\ result # "quota",
             UNCHANGED <<now, job, consumed, notified, lineVars, restarts, shown, tried,
                         notices>>
      PROVE  Returns(w)
  <2>1. Moves(w) /\ run'[w].pc = pc /\ run'[w].job = run[w].job
        /\ run'[w].what = run[w].what /\ ~run'[w].taken
    BY <1>2, GotoMoves
  <2>2. \/ UNCHANGED <<blockedUntil, refusals>>
        \/ /\ run[w].pc \in {"pushing", "retrying"} /\ run'[w].pc = "givingUp"
           /\ blockedUntil' = now + Cooldown
           /\ refusals' = IF now < blockedUntil THEN refusals + 1 ELSE 1
    BY <1>2, <2>1 DEF BlockPush
  <2>. QED BY <1>2, <2>1, <2>2, ResultsAre DEF Returns, Unheard, Calling, lineVars
<1>3. CASE PushReturns(w)
  <2>1. PICK result \in Results(w) :
          /\ Goto(w, IF result \in {"lost", "refused"} /\ run[w].batch = "mixed"
                       THEN "retrying" ELSE AfterPush(result))
          /\ BlockPush(result) /\ Unheard(w, result)
    BY <1>3 DEF PushReturns
  <2>2. PICK pc \in Pcs :
          pc = IF result \in {"lost", "refused"} /\ run[w].batch = "mixed"
                 THEN "retrying" ELSE AfterPush(result)
    BY DEF AfterPush, Pcs
  <2>. QED BY <1>2, <1>3, <2>1, <2>2 DEF PushReturns, AfterPush
<1>4. CASE RetryReturns(w)
  <2>1. PICK result \in Results(w) :
          Goto(w, AfterPush(result)) /\ BlockPush(result) /\ Unheard(w, result)
    BY <1>4 DEF RetryReturns
  <2>2. PICK pc \in Pcs : pc = AfterPush(result)
    BY DEF AfterPush, Pcs
  <2>. QED BY <1>2, <1>4, <2>1, <2>2 DEF RetryReturns, AfterPush
<1>. QED BY <1>1, <1>3, <1>4

-----------------------------------------------------------------------------
(* Type correctness. *)

LEMMA ConsumeType ==
    ASSUME consumed \in Seq(Jobs), Len(consumed) <= ConsumedMax, NEW j \in Jobs
    PROVE  Consume(j) \in Seq(Jobs) /\ Len(Consume(j)) <= ConsumedMax
<1>1. /\ Append(consumed, j) \in Seq(Jobs)
      /\ Len(Append(consumed, j)) = Len(consumed) + 1
      /\ Append(consumed, j) # <<>>
  OBVIOUS
<1>2. /\ Tail(Append(consumed, j)) \in Seq(Jobs)
      /\ Len(Tail(Append(consumed, j))) = Len(consumed)
  BY <1>1
<1>3. Len(consumed) \in Nat /\ ConsumedMax \in Nat
  BY LimitsAssumption
<1>. QED BY <1>1, <1>2, <1>3 DEF Consume

LEMMA SendConsumes ==
    ASSUME Typed, NEW w \in Workers, run[w].job \in Jobs, NEW what, NEW batch,
           Send(w, what, batch)
    PROVE  consumed' \in Seq(Jobs) /\ Len(consumed') <= ConsumedMax /\ tried' \in Seq(Jobs)
<1>1. \/ UNCHANGED <<consumed, tried>>
      \/ consumed' = Consume(run[w].job) /\ tried' = Append(tried, run[w].job)
  BY DEF Send
<1>2. /\ Consume(run[w].job) \in Seq(Jobs) /\ Len(Consume(run[w].job)) <= ConsumedMax
      /\ Append(tried, run[w].job) \in Seq(Jobs)
  BY ConsumeType DEF Typed
<1>. QED BY <1>1, <1>2 DEF Typed

\* Where job'[j] is written.
LEMMA JobTypes ==
    ASSUME job \in [Jobs -> Job], NEW j \in Jobs, NEW r \in Job,
           job' = [job EXCEPT ![j] = r]
    PROVE  job' \in [Jobs -> Job] /\ job'[j] = r
           /\ \A i \in Jobs : i # j => job'[i] = job[i]
OBVIOUS

LEMMA StartTypes ==
    ASSUME TypeOK, FreshInv, NEW w \in Workers, NEW j \in Jobs, Start(w, j)
    PROVE  job' \in [Jobs -> Job]
<1>1. PICK received \in 0 .. now : \E event_ts \in 0 .. received :
        job' = [job EXCEPT ![j] = [@ EXCEPT !.status = "processing",
                  !.attempts = job[j].attempts + 1, !.received = received,
                  !.event_ts = event_ts]]
  BY DEF Start
<1>5. PICK event_ts \in 0 .. received :
        job' = [job EXCEPT ![j] = [@ EXCEPT !.status = "processing",
                  !.attempts = job[j].attempts + 1, !.received = received,
                  !.event_ts = event_ts]]
  BY <1>1
<1>2. /\ received \in 0 .. MaxTime /\ event_ts \in 0 .. MaxTime
      /\ job \in [Jobs -> Job] /\ job[j] \in Job
  BY Types, LimitsAssumption DEF Typed
<1>3. job[j].attempts + 1 \in 0 .. MaxAttempts
  <2>1. job[j].status \in {"none", "pending"}
    BY DEF Start
  <2>2. job[j].attempts \in 0 .. MaxAttempts /\ job[j].attempts < MaxAttempts
    BY <1>2, <2>1, LimitsAssumption DEF FreshInv, Job
  <2>. QED BY <2>2, LimitsAssumption
<1>. DEFINE r == [job[j] EXCEPT !.status = "processing",
                    !.attempts = job[j].attempts + 1,
                    !.received = received, !.event_ts = event_ts]
<1>4. r \in Job
  BY <1>2, <1>3 DEF Job, Statuses
<1>6. job' = [job EXCEPT ![j] = r]
  BY <1>5
<1>. HIDE DEF r
<1>. QED BY <1>2, <1>4, <1>6, JobTypes

\* What the inbox writes keep a record of a job.
LEMMA JobWrites ==
    ASSUME job \in [Jobs -> Job], NEW j \in Jobs, NEW st \in Statuses, NEW b \in BOOLEAN
    PROVE  /\ job[j].status \in Statuses /\ job[j].replied \in BOOLEAN
           /\ [job[j] EXCEPT !.status = st] \in Job
           /\ [job[j] EXCEPT !.replied = b] \in Job
           /\ [job[j] EXCEPT !.status = st, !.replied = b] \in Job
BY DEF Job

\* The actions that write the inbox for the job of their worker.
LEMMA WorkerWrites ==
    ASSUME job \in [Jobs -> Job], NEW w \in Workers, run[w].job \in Jobs,
           Delivered(w) \/ GiveUp(w) \/ JobDone(w) \/ JobFails(w)
    PROVE  job' \in [Jobs -> Job]
<1>. DEFINE j == run[w].job
<1>1. CASE Delivered(w)
  <2>1. job' = [job EXCEPT ![j] = [job[j] EXCEPT !.replied = TRUE]]
    BY <1>1 DEF Delivered
  <2>2. [job[j] EXCEPT !.replied = TRUE] \in Job
    BY JobWrites DEF Statuses
  <2>. QED BY <2>1, <2>2
<1>2. ASSUME NEW st \in Statuses,
             job' = [job EXCEPT ![j] = [job[j] EXCEPT !.status = st]]
      PROVE  job' \in [Jobs -> Job]
  <2>1. [job[j] EXCEPT !.status = st] \in Job
    BY JobWrites
  <2>. QED BY <1>2, <2>1
<1>3. CASE GiveUp(w)
  <2>. DEFINE st == IF job[j].status \in {"processing", "done"}
                      THEN "delivery_failed" ELSE job[j].status
  <2>1. st \in Statuses
    BY JobWrites DEF Statuses
  <2>2. job' = [job EXCEPT ![j] = [job[j] EXCEPT !.status = st]]
    BY <1>3 DEF GiveUp
  <2>. QED BY <1>2, <2>1, <2>2
<1>4. CASE JobDone(w)
  <2>. DEFINE st == IF job[j].status = "delivery_failed" THEN job[j].status ELSE "done"
  <2>1. st \in Statuses
    BY JobWrites DEF Statuses
  <2>2. job' = [job EXCEPT ![j] = [job[j] EXCEPT !.status = st]]
    BY <1>4 DEF JobDone
  <2>. QED BY <1>2, <2>1, <2>2
<1>5. CASE JobFails(w)
  <2>1. PICK recorded \in BOOLEAN :
          job' = [job EXCEPT ![j].status = "failed", ![j].replied = @ \/ recorded]
    BY <1>5 DEF JobFails
  <2>2. PICK b \in BOOLEAN : b = (job[j].replied \/ recorded)
    OBVIOUS
  <2>3. job' = [job EXCEPT ![j] = [job[j] EXCEPT !.status = "failed", !.replied = b]]
    BY <2>1, <2>2
  <2>4. [job[j] EXCEPT !.status = "failed", !.replied = b] \in Job
    BY JobWrites DEF Statuses
  <2>. QED BY <2>3, <2>4
<1>. QED BY <1>1, <1>3, <1>4, <1>5

LEMMA RestartTypes ==
    ASSUME Typed, WorkInv, Restart
    PROVE  Typed'
<1>0. 0 \in Nat /\ Never \in 0 .. Never
  BY LimitsAssumption DEF Never
<1>1. job' \in [Jobs -> Job]
  <2>1. job \in [Jobs -> Job] /\ job' = [j \in Jobs |-> [job[j] EXCEPT !.status = Recovered(j)]]
    BY DEF Restart, Typed
  <2>2. ASSUME NEW j \in Jobs PROVE [job[j] EXCEPT !.status = Recovered(j)] \in Job
    <3>1. Recovered(j) \in Statuses
      BY <2>1, JobWrites DEF Recovered, Statuses
    <3>. QED BY <2>1, <3>1, JobWrites
  <2>. QED BY <2>1, <2>2
<1>2. run' \in [Workers -> Run]
  BY IdleIsRun DEF Restart
<1>3. unheard' \subseteq Jobs
  <2>1. \A w \in Workers : InDoubt(w) => run[w].job \in Jobs
    BY DEF InDoubt, WorkInv, HoldInv, Busy, Calling
  <2>. QED BY <2>1 DEF Restart, Typed
<1>4. /\ restarts' \in 0 .. MaxRestarts
      /\ blockedUntil' = 0 /\ refusals' = 0 /\ consumed' = <<>> /\ tried' = <<>>
  <2>1. restarts < MaxRestarts /\ restarts' = restarts + 1
        /\ restarts \in 0 .. MaxRestarts
    BY DEF Restart, Typed
  <2>2. /\ blockedUntil' = 0 /\ refusals' = 0 /\ consumed' = <<>> /\ tried' = <<>>
    BY Zenon DEF Restart
  <2>. QED BY <2>1, <2>2, LimitsAssumption
<1>5. notified' \in [Chats -> 0 .. Never] /\ notices' \in [Chats -> Seq(0 .. MaxTime)]
  BY <1>0 DEF Restart
<1>6. /\ now' \in 0 .. MaxTime /\ spent' \subseteq Jobs /\ pushesLeft' \in 0 .. Quota
      /\ shown' \in [Jobs -> Nat]
  BY DEF Restart, Typed, lineVars
<1>7. Len(consumed') <= ConsumedMax /\ consumed' \in Seq(Jobs) /\ tried' \in Seq(Jobs)
  BY <1>4, LimitsAssumption
<1>. QED BY <1>0, <1>1, <1>2, <1>3, <1>4, <1>5, <1>6, <1>7 DEF Typed

LEMMA AcceptTypes ==
    ASSUME TypeOK, Typed, WorkInv, NEW w \in Workers, LineAccepts(w)
    PROVE  Typed'
<1>1. run' \in [Workers -> Run] /\ run[w].job \in Jobs
  BY AcceptMoves DEF Moves, LineAccepts, Calling, WorkInv, HoldInv, Busy
<1>2. spent' \subseteq Jobs
  <2>1. spent' = spent \/ spent' = spent \cup {run[w].job}
    BY DEF LineAccepts
  <2>. QED BY <1>1, <2>1 DEF Typed
<1>3. pushesLeft' \in 0 .. Quota
  <2>1. pushesLeft' = pushesLeft \/ (pushesLeft > 0 /\ pushesLeft' = pushesLeft - 1)
    BY DEF LineAccepts
  <2>2. pushesLeft \in 0 .. Quota /\ Quota \in Nat
    BY LimitsAssumption DEF Typed
  <2>. QED BY <2>1, <2>2
<1>4. shown' \in [Jobs -> Nat]
  <2>1. shown \in [Jobs -> Nat]
    BY DEF Typed
  <2>2. shown' = shown \/ shown' = [shown EXCEPT ![run[w].job] = @ + 1]
    BY DEF LineAccepts
  <2>. QED BY <1>1, <2>1, <2>2
<1>. QED BY <1>1, <1>2, <1>3, <1>4 DEF LineAccepts, Typed, memory

LEMMA NotifyTypes ==
    ASSUME TypeOK, Typed, WorkInv, NEW w \in Workers, Notify(w)
    PROVE  Typed'
<1>1. run[w].job \in Jobs /\ JobChat[run[w].job] \in Chats
  BY JobAssumption DEF Notify, WorkInv, HoldInv, Busy
<1>2. \/ run' = [run EXCEPT ![w] = Idle] /\ UNCHANGED <<consumed, tried, notified, notices>>
      \/ /\ RememberNotice(JobChat[run[w].job])
         /\ notices' = [notices EXCEPT ![JobChat[run[w].job]] = Append(@, now)]
         /\ Send(w, "notice", "text")
  BY DEF Notify
<1>3. /\ run' \in [Workers -> Run]
      /\ consumed' \in Seq(Jobs) /\ Len(consumed') <= ConsumedMax /\ tried' \in Seq(Jobs)
  <2>1. CASE UNCHANGED <<consumed, tried>> /\ run' = [run EXCEPT ![w] = Idle]
    BY <2>1, IdleMoves DEF Moves, Typed
  <2>2. CASE Send(w, "notice", "text")
    <3>1. run' \in [Workers -> Run]
      BY <2>2, SendMoves DEF Moves, AllBatches
    <3>. QED BY <1>1, <2>2, <3>1, SendConsumes
  <2>. QED BY <1>2, <2>1, <2>2
<1>4. notified' \in [Chats -> 0 .. Never] /\ notices' \in [Chats -> Seq(0 .. MaxTime)]
  <2>1. /\ notified \in [Chats -> 0 .. Never] /\ notices \in [Chats -> Seq(0 .. MaxTime)]
        /\ now \in 0 .. Never /\ Never \in 0 .. Never
    BY LimitsAssumption DEF Typed, Never
  <2>2. ASSUME RememberNotice(JobChat[run[w].job]) PROVE notified' \in [Chats -> 0 .. Never]
    <3>1. [notified EXCEPT ![JobChat[run[w].job]] = now] \in [Chats -> 0 .. Never]
      BY <2>1
    <3>. QED BY <2>1, <2>2, <3>1 DEF RememberNotice
  <2>3. Append(notices[JobChat[run[w].job]], now) \in Seq(0 .. MaxTime)
    BY <1>1, <2>1 DEF Typed
  <2>4. notices' \in [Chats -> Seq(0 .. MaxTime)]
    BY <1>1, <1>2, <2>1, <2>3
  <2>. QED BY <1>2, <2>1, <2>2, <2>4
<1>. QED BY <1>3, <1>4 DEF Notify, Typed, lineVars

LEMMA TypeNext ==
    ASSUME TypeOK, WorkInv, [Next]_vars
    PROVE  TypeOK'
<1>. SUFFICES Typed'
  BY TypesNext
<1>t. Typed
  BY Types
<1>1. CASE UNCHANGED vars
  BY <1>t, <1>1 DEF Typed, vars, memory, lineVars, history
<1>2. CASE Tick
  <2>1. now' \in 0 .. MaxTime
    BY <1>t, <1>2, LimitsAssumption DEF Tick, Typed
  <2>. QED BY <1>t, <1>2, <2>1 DEF Tick, Typed, memory, lineVars, history
<1>5. ASSUME NEW w \in Workers, NEW j \in Jobs, Start(w, j)
      PROVE  Typed'
  <2>1. job' \in [Jobs -> Job]
    BY <1>5, StartTypes DEF WorkInv
  <2>2. run' \in [Workers -> Run]
    <3>1. run' = [run EXCEPT ![w] = [Idle EXCEPT !.pc = "working", !.job = j]]
      BY <1>5 DEF Start
    <3>. QED BY <3>1, StartMoves DEF Moves, Pcs
  <2>3. UNCHANGED <<now, memory, lineVars, restarts, history>>
    BY <1>5 DEF Start
  <2>. QED BY <1>t, <2>1, <2>2, <2>3 DEF Typed, memory, lineVars, history
<1>7. ASSUME NEW w \in Workers, ReplyReturns(w) \/ PushReturns(w) \/ RetryReturns(w)
      PROVE  Typed'
  <2>1. Returns(w) /\ run' \in [Workers -> Run] /\ run[w].job \in Jobs
    BY <1>7, ReturnMoves DEF Returns, Moves, Calling, WorkInv, HoldInv, Busy
  <2>2. unheard' \subseteq Jobs /\ spent' \subseteq Jobs
    BY <1>t, <2>1 DEF Returns, Typed
  <2>3. blockedUntil' \in Nat /\ refusals' \in Nat
    <3>1. /\ blockedUntil \in Nat /\ refusals \in Nat /\ now \in Nat /\ Cooldown \in Nat
      BY <1>t, LimitsAssumption DEF Typed
    <3>2. \/ UNCHANGED <<blockedUntil, refusals>>
          \/ /\ blockedUntil' = now + Cooldown
             /\ refusals' = refusals + 1 \/ refusals' = 1
      BY <2>1 DEF Returns
    <3>. QED BY <3>1, <3>2
  <2>. QED BY <1>t, <2>1, <2>2, <2>3 DEF Returns, Typed
<1>8. ASSUME NEW w \in Workers, Delivered(w) \/ GiveUp(w)
      PROVE  Typed'
  <2>1. run' \in [Workers -> Run] /\ run[w].job \in Jobs
    BY <1>8, SendOverMoves DEF Delivered, GiveUp, Moves, WorkInv, HoldInv, Busy
  <2>2. job' \in [Jobs -> Job]
    BY <1>t, <1>8, <2>1, WorkerWrites DEF Typed
  <2>3. UNCHANGED <<now, memory, lineVars, restarts, history>>
    BY <1>8 DEF Delivered, GiveUp
  <2>. QED BY <1>t, <2>1, <2>2, <2>3 DEF Typed, memory, lineVars, history
<1>9. ASSUME NEW w \in Workers, NEW b \in Batches, Answer(w, b)
      PROVE  Typed'
  <2>1. Send(w, "answer", b) /\ b \in AllBatches /\ run[w].job \in Jobs
    BY <1>9, BatchesAssumption DEF Answer, WorkInv, HoldInv, Busy
  <2>2. run' \in [Workers -> Run]
    BY <2>1, SendMoves DEF Moves
  <2>3. consumed' \in Seq(Jobs) /\ Len(consumed') <= ConsumedMax /\ tried' \in Seq(Jobs)
    BY <1>t, <2>1, SendConsumes
  <2>. QED BY <1>t, <1>9, <2>2, <2>3 DEF Answer, Typed, lineVars
<1>10. ASSUME NEW w \in Workers, JobDone(w) \/ JobFails(w)
       PROVE  Typed'
  <2>1. run[w].job \in Jobs
    BY <1>10 DEF JobDone, JobFails, Idle, WorkInv, HoldInv, Busy
  <2>2. run' \in [Workers -> Run]
    BY <1>10, <2>1, IdleMoves, StartMoves DEF JobDone, JobFails, Moves, Pcs
  <2>3. job' \in [Jobs -> Job]
    BY <1>t, <1>10, <2>1, WorkerWrites DEF Typed
  <2>4. unheard' \subseteq Jobs
    <3>1. unheard' = unheard \/ unheard' = unheard \cup {run[w].job}
      BY <1>10 DEF JobDone, JobFails, history
    <3>. QED BY <1>t, <2>1, <3>1 DEF Typed
  <2>5. UNCHANGED <<now, memory, lineVars, restarts, shown, tried, notices, refusals>>
    BY <1>10 DEF JobDone, JobFails, history
  <2>. QED BY <1>t, <2>2, <2>3, <2>4, <2>5 DEF Typed, memory, lineVars
<1>. QED BY <1>t, <1>1, <1>2, <1>5, <1>7, <1>8, <1>9, <1>10,
            RestartTypes, AcceptTypes, NotifyTypes
     DEF Next, Sending, Working

-----------------------------------------------------------------------------
(* Which worker holds which job, and what the inbox says of it. *)

\* A worker goes on with its job, or is done with it.
Goes(w) ==
    /\ Moves(w) /\ Busy(w)
    /\ \/ run'[w] = Idle
       \/ /\ run'[w].pc # "idle" /\ run'[w].job = run[w].job
          /\ run'[w].taken => Calling(w)'
    /\ \A i \in Jobs : i # run[w].job => job'[i] = job[i] /\ shown'[i] = shown[i]

LEMMA HeldStatus ==
    ASSUME TypeOK, WorkInv, NEW w \in Workers, Busy(w)
    PROVE  /\ run[w].job \in Jobs
           /\ job[run[w].job].status \in {"processing", "failed", "delivery_failed"}
<1>1. run[w].pc \in Pcs /\ run[w].what \in {"answer", "notice"}
  BY Types DEF Typed, Run
<1>. QED BY <1>1 DEF WorkInv, HoldInv, StatusInv, StatusOf, SendsAnswer, Busy, Pcs

LEMMA OtherJob ==
    ASSUME WorkInv, NEW v \in Workers, NEW w \in Workers, v # w, Busy(v), Busy(w)
    PROVE  run[v].job # run[w].job /\ run[v].job \in Jobs
BY DEF WorkInv, ChatInv, HoldInv

LEMMA WorkStep ==
    ASSUME TypeOK, WorkInv, NEW w \in Workers, Goes(w), StatusOf(w)',
           job'[run[w].job].status \notin {"none", "pending"}
    PROVE  WorkInv'
<1>1. /\ \A v \in Workers : v # w => run'[v] = run[v]
      /\ run[w].job \in Jobs /\ Busy(w)
      /\ \/ run'[w] = Idle
         \/ /\ run'[w].job = run[w].job /\ Busy(w)'
            /\ run'[w].taken => Calling(w)'
  BY HeldStatus DEF Goes, Moves, Busy
<1>2. HoldInv'
  <2>1. ASSUME NEW v \in Workers
        PROVE  /\ Busy(v)' \/ run'[v] = Idle
               /\ Busy(v)' => run'[v].job \in Jobs
               /\ run'[v].taken => Calling(v)'
    BY <1>1, IdleFields DEF WorkInv, HoldInv, Busy, Calling
  <2>. QED BY <2>1 DEF HoldInv
<1>3. ChatInv'
  <2>1. ASSUME NEW v \in Workers, Busy(v)'
        PROVE  Busy(v) /\ run'[v].job = run[v].job
    BY <1>1, <2>1, IdleFields DEF Busy
  <2>. QED BY <2>1 DEF WorkInv, ChatInv
<1>4. ASSUME NEW v \in Workers, v # w
      PROVE  StatusOf(v)'
  <2>1. run'[v] = run[v] /\ StatusOf(v)
    BY <1>1, <1>4 DEF WorkInv, StatusInv
  <2>2. CASE Busy(v)
    <3>1. job'[run[v].job] = job[run[v].job]
      BY <1>1, <1>4, <2>2, OtherJob DEF Goes
    <3>. QED BY <2>1, <3>1 DEF StatusOf, SendsAnswer
  <2>3. CASE ~Busy(v)
    <3>1. run'[v] = Idle
      BY <2>1, <2>3 DEF WorkInv, HoldInv
    <3>. QED BY <3>1 DEF StatusOf, SendsAnswer, Idle
  <2>. QED BY <2>2, <2>3
<1>5. StatusInv'
  BY <1>4 DEF StatusInv
<1>6. FreshInv'
  BY <1>1 DEF WorkInv, FreshInv, Goes
<1>. QED BY <1>2, <1>3, <1>5, <1>6 DEF WorkInv

LEMMA IdleStatus == ASSUME NEW w \in Workers, run'[w] = Idle PROVE StatusOf(w)'
BY DEF StatusOf, SendsAnswer, Idle

LEMMA WorkStart ==
    ASSUME TypeOK, WorkInv, NEW w \in Workers, NEW j \in Jobs, Start(w, j)
    PROVE  WorkInv'
<1>1. /\ Moves(w) /\ run'[w].pc = "working" /\ run'[w].job = j
      /\ run'[w].what = "answer" /\ ~run'[w].taken
  BY StartMoves DEF Start, Pcs
<1>2. run[w] = Idle /\ job[j].status \in {"none", "pending"}
  BY DEF Start
<1>3. /\ \A i \in Jobs : i # j => job'[i] = job[i]
      /\ job'[j].status = "processing" /\ job'[j].replied = job[j].replied
  <2>1. PICK received \in 0 .. now : \E event_ts \in 0 .. received :
          job' = [job EXCEPT ![j] = [@ EXCEPT !.status = "processing",
                    !.attempts = job[j].attempts + 1, !.received = received,
                    !.event_ts = event_ts]]
    BY DEF Start
  <2>2. job \in [Jobs -> Job]
    BY Types DEF Typed
  <2>. QED BY <2>1, <2>2 DEF Job
<1>4. shown' = shown
  BY DEF Start, history
<1>5. \A v \in Workers : Busy(v) => JobChat[run[v].job] # JobChat[j]
  BY DEF Start, Busy, Idle
<1>6. \A v \in Workers : v # w => run'[v] = run[v]
  BY <1>1 DEF Moves
<1>7. HoldInv'
  BY <1>1, <1>6 DEF WorkInv, HoldInv, Busy, Calling
<1>8. ChatInv'
  BY <1>1, <1>5, <1>6 DEF WorkInv, ChatInv, Busy
<1>9. StatusInv'
  <2>1. StatusOf(w)'
    BY <1>1, <1>2, <1>3 DEF StatusOf, SendsAnswer, WorkInv, FreshInv
  <2>2. ASSUME NEW v \in Workers, v # w
        PROVE  StatusOf(v)'
    <3>1. CASE Busy(v)
      BY <1>3, <1>5, <1>6, <2>2, <3>1 DEF StatusOf, SendsAnswer, WorkInv, StatusInv, HoldInv
    <3>2. CASE ~Busy(v)
      BY <1>6, <2>2, <3>2, IdleStatus DEF WorkInv, HoldInv
    <3>. QED BY <3>1, <3>2
  <2>. QED BY <2>1, <2>2 DEF StatusInv
<1>10. FreshInv'
  BY <1>3, <1>4 DEF WorkInv, FreshInv
<1>. QED BY <1>7, <1>8, <1>9, <1>10 DEF WorkInv

LEMMA WorkRestart ==
    ASSUME TypeOK, WorkInv, Restart
    PROVE  WorkInv'
<1>1. run' = [w \in Workers |-> Idle] /\ shown' = shown
      /\ job' = [j \in Jobs |-> [job[j] EXCEPT !.status = Recovered(j)]]
  BY Zenon DEF Restart
<1>2. HoldInv' /\ ChatInv' /\ StatusInv'
  <2>1. \A w \in Workers : run'[w] = Idle
    BY <1>1
  <2>2. HoldInv'
    BY <2>1, IdleFields DEF HoldInv, Busy
  <2>3. ChatInv'
    BY <2>1, IdleFields DEF ChatInv, Busy
  <2>4. StatusInv'
    BY <2>1, IdleStatus DEF StatusInv
  <2>. QED BY <2>2, <2>3, <2>4
<1>3. ASSUME NEW j \in Jobs
      PROVE  /\ job'[j].status = Recovered(j) /\ job'[j].attempts = job[j].attempts
             /\ job'[j].replied = job[j].replied
             /\ job[j].attempts \in Nat /\ MaxAttempts \in Nat
  <2>1. job[j] \in Job /\ MaxAttempts \in Nat
    BY Types, LimitsAssumption DEF Typed
  <2>2. job'[j] = [job[j] EXCEPT !.status = Recovered(j)]
    BY <1>1
  <2>. QED BY <2>1, <2>2 DEF Job
<1>4. FreshInv'
  BY <1>1, <1>3 DEF WorkInv, FreshInv, Recovered
<1>. QED BY <1>2, <1>4 DEF WorkInv

LEMMA DeliveredMoves ==
    ASSUME TypeOK, WorkInv, NEW w \in Workers, Delivered(w)
    PROVE  /\ Goes(w) /\ StatusOf(w)'
           /\ \/ InDoubt(w) /\ run'[w].what = "answer" /\ run'[w].pc = "sent"
                 /\ ~run'[w].taken
              \/ /\ run[w].what = "notice" /\ run'[w] = Idle
                 /\ job[run[w].job].status = "failed"
           /\ job'[run[w].job].status = job[run[w].job].status
           /\ job'[run[w].job].replied
<1>1. Moves(w) /\ shown' = shown
  BY SendOverMoves DEF Delivered, history
<1>2. run[w].pc = "recording" /\ Busy(w) /\ run[w].job \in Jobs /\ ~run[w].taken
  BY DEF Delivered, Busy, WorkInv, HoldInv, Calling
<1>3. /\ \A i \in Jobs : i # run[w].job => job'[i] = job[i]
      /\ job'[run[w].job].status = job[run[w].job].status
      /\ job'[run[w].job].replied
  <2>1. job \in [Jobs -> Job] /\ job' = [job EXCEPT ![run[w].job].replied = TRUE]
    BY Types DEF Typed, Delivered
  <2>. QED BY <1>2, <2>1 DEF Job
<1>4. \/ run[w].what = "answer" /\ run'[w].pc = "sent" /\ run'[w].job = run[w].job
         /\ run'[w].what = "answer" /\ ~run'[w].taken
      \/ run[w].what = "notice" /\ run'[w] = Idle
  BY <1>2, SendOverMoves DEF Delivered
<1>5. Goes(w)
  BY <1>1, <1>2, <1>3, <1>4 DEF Goes
<1>6. StatusOf(w)'
  BY <1>2, <1>3, <1>4, IdleStatus DEF StatusOf, SendsAnswer, WorkInv, StatusInv
<1>7. run[w].what = "notice" => job[run[w].job].status = "failed"
  BY DEF StatusOf, WorkInv, StatusInv
<1>. QED BY <1>2, <1>3, <1>4, <1>5, <1>6, <1>7 DEF InDoubt

LEMMA GiveUpMoves ==
    ASSUME TypeOK, WorkInv, NEW w \in Workers, GiveUp(w)
    PROVE  /\ Goes(w) /\ StatusOf(w)' /\ ~InDoubt(w)
           /\ job'[run[w].job].replied = job[run[w].job].replied
           /\ \/ /\ run[w].what = "answer" /\ job[run[w].job].status = "processing"
                 /\ ~job[run[w].job].replied
                 /\ job'[run[w].job].status = "delivery_failed"
              \/ /\ run[w].what = "notice" /\ job[run[w].job].status = "failed"
                 /\ job'[run[w].job].status = "failed"
<1>1. Moves(w) /\ shown' = shown
  BY SendOverMoves DEF GiveUp, history
<1>2. run[w].pc = "givingUp" /\ Busy(w) /\ run[w].job \in Jobs /\ ~run[w].taken
  BY DEF GiveUp, Busy, WorkInv, HoldInv, Calling
<1>3. /\ \A i \in Jobs : i # run[w].job => job'[i] = job[i]
      /\ job'[run[w].job].status =
           IF job[run[w].job].status \in {"processing", "done"} THEN "delivery_failed"
           ELSE job[run[w].job].status
      /\ job'[run[w].job].replied = job[run[w].job].replied
  <2>1. /\ job \in [Jobs -> Job]
        /\ job' = [job EXCEPT ![run[w].job].status =
                     IF @ \in {"processing", "done"} THEN "delivery_failed" ELSE @]
    BY Types DEF Typed, GiveUp
  <2>. QED BY <1>2, <2>1 DEF Job
<1>4. \/ run[w].what = "answer" /\ run'[w].pc = "sent" /\ run'[w].job = run[w].job
         /\ run'[w].what = "answer" /\ ~run'[w].taken
      \/ run[w].what = "notice" /\ run'[w] = Idle
  BY <1>2, SendOverMoves DEF GiveUp
<1>5. Goes(w)
  BY <1>1, <1>2, <1>3, <1>4 DEF Goes
<1>6. \/ run[w].what = "answer" /\ job[run[w].job].status = "processing"
         /\ ~job[run[w].job].replied
      \/ run[w].what = "notice" /\ job[run[w].job].status = "failed"
  BY <1>2, <1>4 DEF StatusOf, SendsAnswer, WorkInv, StatusInv
<1>7. StatusOf(w)'
  BY <1>2, <1>3, <1>4, <1>6, IdleStatus DEF StatusOf, SendsAnswer
<1>. QED BY <1>2, <1>3, <1>4, <1>5, <1>6, <1>7 DEF InDoubt

LEMMA JobDoneMoves ==
    ASSUME TypeOK, WorkInv, NEW w \in Workers, JobDone(w)
    PROVE  /\ Goes(w) /\ StatusOf(w)' /\ ~InDoubt(w)
           /\ job'[run[w].job].replied = job[run[w].job].replied
           /\ \/ job'[run[w].job].status = "done" /\ job[run[w].job].replied
                 /\ job[run[w].job].status = "processing"
              \/ /\ job[run[w].job].status = "delivery_failed"
                 /\ job'[run[w].job].status = "delivery_failed"
<1>1. Moves(w) /\ run'[w] = Idle /\ shown' = shown
  BY IdleMoves DEF JobDone, history
<1>2. run[w].pc = "sent" /\ Busy(w) /\ run[w].job \in Jobs /\ ~run[w].taken
  BY DEF JobDone, Busy, WorkInv, HoldInv, Calling
<1>3. /\ \A i \in Jobs : i # run[w].job => job'[i] = job[i]
      /\ job'[run[w].job].status =
           IF job[run[w].job].status = "delivery_failed" THEN "delivery_failed" ELSE "done"
      /\ job'[run[w].job].replied = job[run[w].job].replied
  <2>1. /\ job \in [Jobs -> Job]
        /\ job' = [job EXCEPT ![run[w].job].status =
                     IF @ = "delivery_failed" THEN @ ELSE "done"]
    BY Types DEF Typed, JobDone
  <2>. QED BY <1>2, <2>1 DEF Job
<1>4. \/ job[run[w].job].status = "processing" /\ job[run[w].job].replied
      \/ job[run[w].job].status = "delivery_failed"
  BY <1>2 DEF StatusOf, WorkInv, StatusInv
<1>. QED BY <1>1, <1>2, <1>3, <1>4, IdleStatus DEF Goes, InDoubt

LEMMA JobFailsMoves ==
    ASSUME TypeOK, WorkInv, NEW w \in Workers, JobFails(w)
    PROVE  /\ Goes(w) /\ StatusOf(w)' /\ run[w].what = "answer"
           /\ run'[w].pc = "failed" /\ run'[w].what = "answer" /\ ~run'[w].taken
           /\ job'[run[w].job].status = "failed"
           /\ \/ job'[run[w].job].replied = job[run[w].job].replied
                 /\ unheard' = IF InDoubt(w) THEN unheard \cup {run[w].job} ELSE unheard
              \/ InDoubt(w) /\ job'[run[w].job].replied /\ unheard' = unheard
<1>1. PICK recorded \in BOOLEAN :
         /\ recorded => run[w].pc = "recording"
         /\ job' = [job EXCEPT ![run[w].job].status = "failed",
                               ![run[w].job].replied = @ \/ recorded]
         /\ unheard' = IF InDoubt(w) /\ ~recorded THEN unheard \cup {run[w].job}
                       ELSE unheard
  BY DEF JobFails
<1>2. /\ run[w] # Idle /\ run[w].what = "answer" /\ shown' = shown
      /\ run' = [run EXCEPT ![w] = [Idle EXCEPT !.pc = "failed", !.job = run[w].job]]
  BY DEF JobFails
<1>3. Busy(w) /\ run[w].job \in Jobs
  BY <1>2 DEF WorkInv, HoldInv
<1>4. /\ Moves(w) /\ run'[w].pc = "failed" /\ run'[w].job = run[w].job
      /\ run'[w].what = "answer" /\ ~run'[w].taken
  BY <1>2, <1>3, StartMoves DEF Pcs
<1>5. /\ \A i \in Jobs : i # run[w].job => job'[i] = job[i]
      /\ job'[run[w].job].status = "failed"
      /\ job'[run[w].job].replied = (job[run[w].job].replied \/ recorded)
      /\ job[run[w].job].replied \in BOOLEAN
  <2>1. job \in [Jobs -> Job]
    BY Types DEF Typed
  <2>. QED BY <1>1, <1>3, <2>1 DEF Job
<1>6. Goes(w)
  BY <1>2, <1>3, <1>4, <1>5 DEF Goes
<1>7. StatusOf(w)'
  BY <1>4, <1>5 DEF StatusOf, SendsAnswer
<1>. QED BY <1>1, <1>2, <1>4, <1>5, <1>6, <1>7 DEF InDoubt

LEMMA AcceptGoes ==
    ASSUME TypeOK, WorkInv, NEW w \in Workers, LineAccepts(w)
    PROVE  /\ Goes(w) /\ StatusOf(w)' /\ ~InDoubt(w) /\ UNCHANGED <<job, unheard>>
           /\ \/ /\ run[w].what = "answer" /\ SendsAnswer(w) /\ InDoubt(w)'
                 /\ shown'[run[w].job] = shown[run[w].job] + 1
              \/ run[w].what = "notice" /\ ~InDoubt(w)' /\ shown' = shown
<1>1. /\ Moves(w) /\ run'[w].pc = run[w].pc /\ run'[w].job = run[w].job
      /\ run'[w].what = run[w].what /\ run'[w].taken
  BY AcceptMoves
<1>2. /\ Calling(w) /\ ~run[w].taken /\ UNCHANGED <<job, unheard>>
      /\ \/ run[w].what = "answer" /\ shown' = [shown EXCEPT ![run[w].job] = @ + 1]
         \/ run[w].what # "answer" /\ shown' = shown
  BY DEF LineAccepts
<1>3. /\ Busy(w) /\ run[w].job \in Jobs /\ Calling(w)' /\ run'[w].pc # "idle"
      /\ shown \in [Jobs -> Nat] /\ run[w].what \in {"answer", "notice"}
  BY <1>1, <1>2, HeldStatus, Types DEF Calling, Busy, Typed, Run
<1>4. Goes(w)
  BY <1>1, <1>2, <1>3 DEF Goes
<1>5. StatusOf(w)'
  BY <1>1, <1>2 DEF StatusOf, SendsAnswer, WorkInv, StatusInv
<1>. QED BY <1>1, <1>2, <1>3, <1>4, <1>5 DEF InDoubt, SendsAnswer, Calling

LEMMA ReturnGoes ==
    ASSUME TypeOK, WorkInv, NEW w \in Workers, Returns(w)
    PROVE  Goes(w) /\ StatusOf(w)'
<1>1. /\ Moves(w) /\ Calling(w) /\ run'[w].job = run[w].job /\ run'[w].what = run[w].what
      /\ run'[w].pc \in {"recording", "pushing", "retrying", "givingUp"}
      /\ ~run'[w].taken /\ UNCHANGED <<job, shown>>
  BY DEF Returns
<1>2. Goes(w)
  BY <1>1 DEF Goes, Busy, Calling
<1>3. StatusOf(w)'
  BY <1>1 DEF StatusOf, SendsAnswer, WorkInv, StatusInv, Calling
<1>. QED BY <1>2, <1>3

LEMMA AnswerGoes ==
    ASSUME TypeOK, WorkInv, NEW w \in Workers, NEW b \in Batches, Answer(w, b)
    PROVE  /\ Goes(w) /\ StatusOf(w)' /\ ~InDoubt(w) /\ ~InDoubt(w)'
           /\ UNCHANGED <<job, shown, unheard>>
<1>1. /\ run[w].pc = "working" /\ Send(w, "answer", b) /\ b \in AllBatches
      /\ UNCHANGED <<job, shown, unheard>>
  BY BatchesAssumption DEF Answer
<1>2. /\ Moves(w) /\ run'[w].pc \in {"replying", "pushing", "givingUp"}
      /\ run'[w].job = run[w].job /\ run'[w].what = "answer" /\ ~run'[w].taken
  BY <1>1, SendMoves
<1>3. Goes(w) /\ ~run[w].taken
  BY <1>1, <1>2 DEF Goes, Busy, WorkInv, HoldInv, Calling
<1>4. StatusOf(w)'
  BY <1>1, <1>2 DEF StatusOf, SendsAnswer, WorkInv, StatusInv
<1>. QED BY <1>1, <1>2, <1>3, <1>4 DEF InDoubt

LEMMA NotifyGoes ==
    ASSUME TypeOK, WorkInv, NEW w \in Workers, Notify(w)
    PROVE  /\ Goes(w) /\ StatusOf(w)' /\ ~InDoubt(w) /\ ~InDoubt(w)'
           /\ UNCHANGED <<job, shown, unheard>>
<1>1. /\ run[w].pc = "failed" /\ UNCHANGED <<job, shown, unheard>>
      /\ run' = [run EXCEPT ![w] = Idle] \/ Send(w, "notice", "text")
  BY DEF Notify
<1>2. /\ Busy(w) /\ run[w].job \in Jobs /\ ~run[w].taken
      /\ job[run[w].job].status = "failed"
  BY <1>1 DEF Busy, WorkInv, HoldInv, Calling, StatusInv, StatusOf
<1>3. CASE run' = [run EXCEPT ![w] = Idle]
  BY <1>1, <1>2, <1>3, IdleMoves, IdleStatus, IdleFields DEF Goes, InDoubt
<1>4. CASE Send(w, "notice", "text")
  <2>1. /\ Moves(w) /\ run'[w].pc \in {"replying", "pushing", "givingUp"}
        /\ run'[w].job = run[w].job /\ run'[w].what = "notice" /\ ~run'[w].taken
    BY <1>4, SendMoves DEF AllBatches
  <2>. QED BY <1>1, <1>2, <2>1 DEF Goes, StatusOf, SendsAnswer, InDoubt
<1>. QED BY <1>1, <1>3, <1>4

LEMMA WorkNext ==
    ASSUME TypeOK, WorkInv, [Next]_vars
    PROVE  WorkInv'
<1>0. \A w \in Workers : Busy(w) => job[run[w].job].status \notin {"none", "pending"}
  BY HeldStatus
<1>1. CASE UNCHANGED vars \/ Tick
  <2>1. UNCHANGED <<run, job, shown>>
    BY <1>1 DEF vars, Tick, history
  <2>. QED BY <2>1 DEF WorkInv, HoldInv, ChatInv, StatusInv, StatusOf, SendsAnswer,
                       FreshInv, Busy, Calling
<1>2. CASE Restart
  BY <1>2, WorkRestart
<1>3. ASSUME NEW w \in Workers, NEW j \in Jobs, Start(w, j)
      PROVE  WorkInv'
  BY <1>3, WorkStart
<1>4. ASSUME NEW w \in Workers, LineAccepts(w)
      PROVE  WorkInv'
  BY <1>0, <1>4, AcceptGoes, WorkStep DEF Goes
<1>5. ASSUME NEW w \in Workers, ReplyReturns(w) \/ PushReturns(w) \/ RetryReturns(w)
      PROVE  WorkInv'
  BY <1>0, <1>5, ReturnMoves, ReturnGoes, WorkStep DEF Goes, Returns
<1>6. ASSUME NEW w \in Workers, Delivered(w)
      PROVE  WorkInv'
  BY <1>0, <1>6, DeliveredMoves, WorkStep DEF Goes
<1>7. ASSUME NEW w \in Workers, GiveUp(w)
      PROVE  WorkInv'
  BY <1>7, GiveUpMoves, WorkStep
<1>8. ASSUME NEW w \in Workers, NEW b \in Batches, Answer(w, b)
      PROVE  WorkInv'
  BY <1>0, <1>8, AnswerGoes, WorkStep DEF Goes
<1>9. ASSUME NEW w \in Workers, JobDone(w)
      PROVE  WorkInv'
  BY <1>9, JobDoneMoves, WorkStep
<1>10. ASSUME NEW w \in Workers, JobFails(w)
       PROVE  WorkInv'
  BY <1>10, JobFailsMoves, WorkStep
<1>11. ASSUME NEW w \in Workers, Notify(w)
       PROVE  WorkInv'
  BY <1>0, <1>11, NotifyGoes, WorkStep DEF Goes
<1>. QED BY <1>1, <1>2, <1>3, <1>4, <1>5, <1>6, <1>7, <1>8, <1>9, <1>10, <1>11
     DEF Next, Sending, Working

-----------------------------------------------------------------------------
(* What the user has seen. *)

Doubtful(j) == \E w \in Workers : InDoubt(w) /\ run[w].job = j

\* Only its own worker can leave an answer in doubt.
LEMMA DoubtIsOwn ==
    ASSUME WorkInv, NEW w \in Workers, Busy(w)
    PROVE  Doubtful(run[w].job) <=> InDoubt(w)
<1>1. \A v \in Workers : InDoubt(v) => Busy(v)
  BY DEF InDoubt, WorkInv, HoldInv, Calling, Busy
<1>. QED BY <1>1, OtherJob DEF Doubtful

LEMMA AnswerStep ==
    ASSUME TypeOK, WorkInv, AnswerInv, NEW w \in Workers, Goes(w),
           unheard' \in {unheard, unheard \cup {run[w].job}},
           NEW j \in Jobs, j = run[w].job, SeenOf(j, InDoubt(w))'
    PROVE  AnswerInv'
<1>1. /\ \A v \in Workers : v # w => run'[v] = run[v]
      /\ \/ run'[w] = Idle
         \/ run'[w].job = run[w].job
      /\ Busy(w)
  BY DEF Goes, Moves
<1>2. \A v \in Workers : InDoubt(v) => Busy(v)
  BY DEF InDoubt, WorkInv, HoldInv, Calling, Busy
<1>3. run'[w] = Idle => ~InDoubt(w)'
  BY IdleFields DEF InDoubt
<1>4. \A v \in Workers : v # w => (InDoubt(v)' <=> InDoubt(v))
  BY <1>1 DEF InDoubt
<1>5. Doubtful(j)' <=> InDoubt(w)'
  <2>1. ASSUME NEW v \in Workers, v # w, InDoubt(v)', run'[v].job = j
        PROVE  FALSE
    BY <1>1, <1>2, <1>4, <2>1, OtherJob
  <2>. QED BY <1>1, <1>3, <2>1 DEF Doubtful
<1>6. \A i \in Jobs : i # j => (Doubtful(i)' <=> Doubtful(i))
  <2>1. ASSUME NEW i \in Jobs, i # j, Doubtful(i)'
        PROVE  Doubtful(i)
    <3>1. PICK v \in Workers : InDoubt(v)' /\ run'[v].job = i
      BY <2>1 DEF Doubtful
    <3>2. v # w
      BY <1>1, <1>3, <2>1, <3>1
    <3>. QED BY <1>1, <1>4, <3>1, <3>2 DEF Doubtful
  <2>2. ASSUME NEW i \in Jobs, i # j, Doubtful(i)
        PROVE  Doubtful(i)'
    <3>1. PICK v \in Workers : InDoubt(v) /\ run[v].job = i
      BY <2>2 DEF Doubtful
    <3>2. v # w
      BY <2>2, <3>1
    <3>. QED BY <1>1, <1>4, <3>1, <3>2 DEF Doubtful
  <2>. QED BY <2>1, <2>2
<1>7. \A i \in Jobs : i # j =>
        /\ job'[i] = job[i] /\ shown'[i] = shown[i]
        /\ i \in unheard' <=> i \in unheard
  BY DEF Goes
<1>8. ASSUME NEW i \in Jobs, i # j
      PROVE  SeenOf(i, Doubtful(i))'
  <2>1. SeenOf(i, Doubtful(i))
    BY DEF AnswerInv, Doubtful
  <2>. QED BY <1>6, <1>7, <1>8, <2>1, Zenon DEF SeenOf
<1>9. SeenOf(j, Doubtful(j))'
  BY <1>5 DEF SeenOf
<1>. QED BY <1>8, <1>9 DEF AnswerInv, Doubtful

\* A step of a worker, seen from its own job.
LEMMA OwnSeen ==
    ASSUME WorkInv, AnswerInv, NEW w \in Workers, Busy(w)
    PROVE  SeenOf(run[w].job, InDoubt(w)) /\ run[w].job \in Jobs
<1>1. run[w].job \in Jobs
  BY DEF WorkInv, HoldInv
<1>2. SeenOf(run[w].job, Doubtful(run[w].job))
  BY <1>1 DEF AnswerInv, Doubtful
<1>. QED BY <1>1, <1>2, DoubtIsOwn DEF SeenOf

LEMMA AnswerNext ==
    ASSUME TypeOK, WorkInv, AnswerInv, [Next]_vars
    PROVE  AnswerInv'
<1>1. CASE UNCHANGED vars \/ Tick
  <2>1. UNCHANGED <<run, job, shown, unheard>>
    BY <1>1 DEF vars, Tick, history
  <2>. QED BY <2>1 DEF AnswerInv, SeenOf, InDoubt
<1>2. CASE Restart
  <2>1. /\ run' = [w \in Workers |-> Idle] /\ shown' = shown
        /\ job' = [j \in Jobs |-> [job[j] EXCEPT !.status = Recovered(j)]]
        /\ unheard' = unheard \cup {run[w].job : w \in {v \in Workers : InDoubt(v)}}
    BY <1>2 DEF Restart
  <2>2. ASSUME NEW j \in Jobs
        PROVE  /\ job'[j].status = Recovered(j) /\ job'[j].replied = job[j].replied
    <3>1. job[j] \in Job /\ job'[j] = [job[j] EXCEPT !.status = Recovered(j)]
      BY <2>1, Types DEF Typed
    <3>. QED BY <3>1 DEF Job
  <2>3. \A j \in Jobs : j \in unheard' <=> j \in unheard \/ Doubtful(j)
    BY <2>1 DEF Doubtful
  <2>4. \A j \in Jobs : ~Doubtful(j)'
    BY <2>1, IdleFields DEF Doubtful, InDoubt
  <2>5. \A j \in Jobs : SeenOf(j, Doubtful(j))'
    BY <2>1, <2>2, <2>3, <2>4 DEF AnswerInv, SeenOf, Recovered, Doubtful
  <2>. QED BY <2>5 DEF AnswerInv, Doubtful
<1>3. ASSUME NEW w \in Workers, NEW j \in Jobs, Start(w, j)
      PROVE  AnswerInv'
  <2>1. /\ Moves(w) /\ run'[w].pc = "working" /\ run'[w].job = j /\ ~run'[w].taken
    BY <1>3, StartMoves DEF Start, Pcs
  <2>2. /\ \A i \in Jobs : i # j => job'[i] = job[i]
        /\ job'[j].status = "processing" /\ job'[j].replied = job[j].replied
        /\ job[j].status \in {"none", "pending"} /\ run[w] = Idle
    <3>1. PICK received \in 0 .. now : \E event_ts \in 0 .. received :
            job' = [job EXCEPT ![j] = [@ EXCEPT !.status = "processing",
                      !.attempts = job[j].attempts + 1, !.received = received,
                      !.event_ts = event_ts]]
      BY <1>3 DEF Start
    <3>2. job \in [Jobs -> Job]
      BY Types DEF Typed
    <3>. QED BY <1>3, <3>1, <3>2 DEF Job, Start
  <2>3. shown' = shown /\ unheard' = unheard
    BY <1>3 DEF Start, history
  <2>4. \A v \in Workers : InDoubt(v)' <=> InDoubt(v)
    BY <2>1, <2>2, IdleFields DEF InDoubt, Moves
  <2>5. \A v \in Workers : InDoubt(v) => v # w /\ run'[v] = run[v]
    BY <2>1, <2>2, IdleFields DEF InDoubt, Moves
  <2>6. \A i \in Jobs : Doubtful(i)' <=> Doubtful(i)
    BY <2>4, <2>5 DEF Doubtful
  <2>7. ~job[j].replied
    BY <2>2 DEF WorkInv, FreshInv
  <2>8. \A i \in Jobs : SeenOf(i, Doubtful(i))'
    BY <2>2, <2>3, <2>6, <2>7 DEF AnswerInv, SeenOf, Doubtful
  <2>. QED BY <2>8 DEF AnswerInv, Doubtful
<1>4. ASSUME NEW w \in Workers, LineAccepts(w)
      PROVE  AnswerInv'
  <2>1. Goes(w) /\ Busy(w) /\ ~InDoubt(w) /\ UNCHANGED <<job, unheard>>
    BY <1>4, AcceptGoes DEF Goes
  <2>2. PICK j \in Jobs : j = run[w].job /\ SeenOf(j, InDoubt(w))
    BY <2>1, OwnSeen
  <2>3. shown[j] \in Nat
    BY Types DEF Typed
  <2>4. CASE SendsAnswer(w) /\ InDoubt(w)' /\ shown'[j] = shown[j] + 1
    <3>1. job[j].status = "processing" /\ ~job[j].replied
      BY <2>2, <2>4 DEF WorkInv, StatusInv, StatusOf
    <3>2. SeenOf(j, InDoubt(w))'
      BY <2>1, <2>2, <2>3, <2>4, <3>1 DEF SeenOf
    <3>. QED BY <2>1, <2>2, <3>2, AnswerStep
  <2>5. CASE ~InDoubt(w)' /\ shown' = shown
    <3>1. SeenOf(j, InDoubt(w))'
      BY <2>1, <2>2, <2>5 DEF SeenOf
    <3>. QED BY <2>1, <2>2, <3>1, AnswerStep
  <2>. QED BY <1>4, <2>2, <2>4, <2>5, AcceptGoes
<1>5. ASSUME NEW w \in Workers, ReplyReturns(w) \/ PushReturns(w) \/ RetryReturns(w)
      PROVE  AnswerInv'
  <2>1. Returns(w) /\ Goes(w) /\ Busy(w)
    BY <1>5, ReturnMoves, ReturnGoes DEF Goes
  <2>2. PICK j \in Jobs : j = run[w].job /\ SeenOf(j, InDoubt(w))
    BY <2>1, OwnSeen
  <2>3. /\ unheard' \in {unheard, unheard \cup {run[w].job}}
        /\ UNCHANGED <<job, shown>>
        /\ InDoubt(w)' => InDoubt(w)
        /\ InDoubt(w) => InDoubt(w)' \/ j \in unheard'
    BY <2>1, <2>2 DEF Returns, InDoubt, Calling
  <2>4. SeenOf(j, InDoubt(w))'
    BY <2>2, <2>3 DEF SeenOf
  <2>. QED BY <2>1, <2>2, <2>3, <2>4, AnswerStep
<1>6. ASSUME NEW w \in Workers, Delivered(w)
      PROVE  AnswerInv'
  <2>1. Goes(w) /\ Busy(w) /\ shown' = shown /\ unheard' = unheard
    BY <1>6, DeliveredMoves DEF Goes, Delivered, history
  <2>2. PICK j \in Jobs : j = run[w].job /\ SeenOf(j, InDoubt(w))
    BY <2>1, OwnSeen
  <2>3. /\ job'[j].replied /\ job'[j].status = job[j].status /\ ~InDoubt(w)'
        /\ InDoubt(w) \/ job[j].status = "failed"
    BY <1>6, <2>2, DeliveredMoves, IdleFields DEF InDoubt
  <2>4. SeenOf(j, InDoubt(w))'
    BY <2>1, <2>2, <2>3 DEF SeenOf
  <2>. QED BY <2>1, <2>2, <2>4, AnswerStep
<1>7. ASSUME NEW w \in Workers, GiveUp(w)
      PROVE  AnswerInv'
  <2>1. /\ Goes(w) /\ Busy(w) /\ shown' = shown /\ unheard' = unheard /\ ~InDoubt(w)
    BY <1>7, GiveUpMoves DEF Goes, GiveUp, history
  <2>2. PICK j \in Jobs : j = run[w].job /\ SeenOf(j, InDoubt(w))
    BY <2>1, OwnSeen
  <2>3. ~InDoubt(w)'
    <3>1. /\ run[w].pc = "givingUp" /\ ~run[w].taken
          /\ run'[w] = Idle \/ (run'[w].pc = "sent" /\ ~run'[w].taken)
      BY <1>7, SendOverMoves DEF GiveUp, WorkInv, HoldInv, Calling
    <3>. QED BY <3>1, IdleFields DEF InDoubt
  <2>4. SeenOf(j, InDoubt(w))'
    <3>1. shown[j] \in Nat
      BY Types DEF Typed
    <3>. QED BY <1>7, <2>1, <2>2, <2>3, <3>1, GiveUpMoves DEF SeenOf
  <2>. QED BY <2>1, <2>2, <2>4, AnswerStep
<1>8. ASSUME NEW w \in Workers, (\E b \in Batches : Answer(w, b)) \/ Notify(w)
      PROVE  AnswerInv'
  <2>1. /\ Goes(w) /\ Busy(w) /\ UNCHANGED <<job, shown, unheard>>
        /\ ~InDoubt(w) /\ ~InDoubt(w)'
    BY <1>8, AnswerGoes, NotifyGoes DEF Goes
  <2>2. PICK j \in Jobs : j = run[w].job /\ SeenOf(j, InDoubt(w))
    BY <2>1, OwnSeen
  <2>3. SeenOf(j, InDoubt(w))'
    BY <2>1, <2>2 DEF SeenOf
  <2>. QED BY <2>1, <2>2, <2>3, AnswerStep
<1>9. ASSUME NEW w \in Workers, JobDone(w)
      PROVE  AnswerInv'
  <2>1. /\ Goes(w) /\ Busy(w) /\ shown' = shown /\ unheard' = unheard /\ ~InDoubt(w)
        /\ run'[w] = Idle
    BY <1>9, JobDoneMoves, IdleMoves DEF Goes, JobDone, history
  <2>2. PICK j \in Jobs : j = run[w].job /\ SeenOf(j, InDoubt(w))
    BY <2>1, OwnSeen
  <2>3. ~InDoubt(w)'
    BY <2>1, IdleFields DEF InDoubt
  <2>4. SeenOf(j, InDoubt(w))'
    BY <1>9, <2>1, <2>2, <2>3, JobDoneMoves DEF SeenOf
  <2>. QED BY <2>1, <2>2, <2>4, AnswerStep
<1>10. ASSUME NEW w \in Workers, JobFails(w)
       PROVE  AnswerInv'
  <2>1. /\ Goes(w) /\ Busy(w) /\ shown' = shown
        /\ unheard' \in {unheard, unheard \cup {run[w].job}} /\ ~InDoubt(w)'
    BY <1>10, JobFailsMoves DEF Goes, JobFails, InDoubt
  <2>2. PICK j \in Jobs : j = run[w].job /\ SeenOf(j, InDoubt(w))
    BY <2>1, OwnSeen
  <2>3. /\ job'[j].status = "failed"
        /\ \/ /\ job'[j].replied = job[j].replied
              /\ unheard' = IF InDoubt(w) THEN unheard \cup {j} ELSE unheard
           \/ job'[j].replied
    BY <1>10, <2>2, JobFailsMoves
  <2>4. SeenOf(j, InDoubt(w))'
    BY <2>1, <2>2, <2>3 DEF SeenOf
  <2>. QED BY <2>1, <2>2, <2>4, AnswerStep
<1>. QED BY <1>1, <1>2, <1>3, <1>4, <1>5, <1>6, <1>7, <1>8, <1>9, <1>10
     DEF Next, Sending, Working

-----------------------------------------------------------------------------
(* The breaker. *)

LEMMA PushersCount ==
    /\ IsFiniteSet(Pushers) /\ Cardinality(Pushers) \in Nat
    /\ Cardinality(Workers) \in Nat /\ Cardinality(Pushers) <= Cardinality(Workers)
<1>1. Pushers \subseteq Workers
  BY DEF Pushers
<1>. QED BY <1>1, WorkersAssumption, FS_Subset, FS_CardinalityType

LEMMA FewerPushers ==
    ASSUME Pushers' \subseteq Pushers
    PROVE  Cardinality(Pushers') \in Nat /\ Cardinality(Pushers') <= Cardinality(Pushers)
BY PushersCount, FS_Subset, FS_CardinalityType

\* No call is refused, and nobody starts to push while the breaker is open.
LEMMA BreakerKept ==
    ASSUME TypeOK, BreakerInv, UNCHANGED <<blockedUntil, refusals>>,
           \/ now' \in {now, now + 1} /\ Pushers' \subseteq Pushers
           \/ now' = now /\ ~(now < blockedUntil)
    PROVE  BreakerInv'
<1>1. now \in Nat /\ blockedUntil \in Nat /\ refusals \in Nat
  BY Types, LimitsAssumption DEF Typed
<1>2. RefusalsBounded'
  BY DEF BreakerInv, RefusalsBounded
<1>3. ASSUME now' < blockedUntil'
      PROVE  refusals' + Cardinality(Pushers') <= Cardinality(Workers)
  <2>1. now < blockedUntil /\ Pushers' \subseteq Pushers
    BY <1>1, <1>3
  <2>2. refusals + Cardinality(Pushers) <= Cardinality(Workers)
    BY <2>1 DEF BreakerInv
  <2>. QED BY <1>1, <2>1, <2>2, FewerPushers, PushersCount
<1>. QED BY <1>2, <1>3 DEF BreakerInv

LEMMA BreakerRefused ==
    ASSUME TypeOK, BreakerInv, NEW w \in Workers, w \in Pushers,
           Pushers' \subseteq Pushers \ {w}, now' = now,
           refusals' = IF now < blockedUntil THEN refusals + 1 ELSE 1
    PROVE  BreakerInv'
<1>1. now \in Nat /\ blockedUntil \in Nat /\ refusals \in Nat
  BY Types, LimitsAssumption DEF Typed
<1>2. /\ Cardinality(Pushers \ {w}) = Cardinality(Pushers) - 1
      /\ IsFiniteSet(Pushers \ {w})
  BY PushersCount, FS_RemoveElement
<1>3. /\ Cardinality(Pushers') \in Nat
      /\ Cardinality(Pushers') <= Cardinality(Pushers) - 1
  BY <1>2, FS_Subset, FS_CardinalityType
<1>4. refusals' + Cardinality(Pushers') <= Cardinality(Workers)
  BY <1>1, <1>3, PushersCount DEF BreakerInv
<1>5. refusals' <= Cardinality(Workers)
  BY <1>1, <1>3, <1>4, PushersCount
<1>. QED BY <1>4, <1>5 DEF BreakerInv, RefusalsBounded

LEMMA BreakerNext ==
    ASSUME TypeOK, WorkInv, BreakerInv, [Next]_vars
    PROVE  BreakerInv'
<1>0. ASSUME NEW w \in Workers, Moves(w), run'[w].pc \notin {"pushing", "retrying"}
      PROVE  Pushers' \subseteq Pushers \ {w}
  BY <1>0 DEF Moves, Pushers
<1>1. CASE UNCHANGED vars \/ Tick
  <2>1. UNCHANGED <<run, blockedUntil, refusals>> /\ now' \in {now, now + 1}
    BY <1>1 DEF vars, Tick, memory, history
  <2>2. Pushers' \subseteq Pushers
    BY <2>1 DEF Pushers
  <2>. QED BY <2>1, <2>2, BreakerKept
<1>2. CASE Restart
  <2>1. refusals' = 0 /\ blockedUntil' = 0 /\ now' = now
    BY <1>2 DEF Restart
  <2>2. now \in Nat
    BY Types, LimitsAssumption DEF Typed
  <2>. QED BY <2>1, <2>2, PushersCount DEF BreakerInv, RefusalsBounded
<1>3. ASSUME NEW w \in Workers, NEW j \in Jobs, Start(w, j)
      PROVE  BreakerInv'
  BY <1>0, <1>3, StartMoves, BreakerKept DEF Start, Pcs, memory, history
<1>4. ASSUME NEW w \in Workers, LineAccepts(w)
      PROVE  BreakerInv'
  <2>1. Moves(w) /\ run'[w].pc = run[w].pc
    BY <1>4, AcceptMoves
  <2>2. Pushers' \subseteq Pushers
    BY <2>1 DEF Moves, Pushers
  <2>. QED BY <1>4, <2>2, BreakerKept DEF LineAccepts, memory
<1>5. ASSUME NEW w \in Workers, Returns(w)
      PROVE  BreakerInv'
  <2>1. Moves(w) /\ now' = now
    BY <1>5 DEF Returns
  <2>2. CASE UNCHANGED <<blockedUntil, refusals>>
    <3>1. CASE run'[w].pc = "pushing"
      BY <1>5, <2>1, <2>2, <3>1, BreakerKept DEF Returns
    <3>2. CASE run'[w].pc # "pushing"
      <4>1. run'[w].pc = "retrying" => run[w].pc = "pushing"
        BY <1>5 DEF Returns
      <4>2. Pushers' \subseteq Pushers
        BY <2>1, <3>2, <4>1 DEF Moves, Pushers
      <4>. QED BY <2>1, <2>2, <4>2, BreakerKept
    <3>. QED BY <3>1, <3>2
  <2>3. CASE /\ run[w].pc \in {"pushing", "retrying"} /\ run'[w].pc = "givingUp"
             /\ refusals' = IF now < blockedUntil THEN refusals + 1 ELSE 1
    <3>1. w \in Pushers /\ Pushers' \subseteq Pushers \ {w}
      BY <1>0, <2>1, <2>3 DEF Pushers
    <3>. QED BY <2>1, <2>3, <3>1, BreakerRefused
  <2>. QED BY <1>5, <2>2, <2>3 DEF Returns
<1>6. ASSUME NEW w \in Workers, Delivered(w) \/ GiveUp(w)
      PROVE  BreakerInv'
  <2>1. Moves(w) /\ run'[w].pc \notin {"pushing", "retrying"}
    BY <1>6, SendOverMoves, IdleFields DEF Delivered, GiveUp
  <2>. QED BY <1>0, <1>6, <2>1, BreakerKept DEF Delivered, GiveUp, memory, history
<1>7. ASSUME NEW w \in Workers, JobDone(w) \/ JobFails(w)
      PROVE  BreakerInv'
  <2>1. Moves(w) /\ run'[w].pc \notin {"pushing", "retrying"}
    BY <1>7, IdleMoves, JobFailsMoves, IdleFields DEF JobDone, Goes
  <2>. QED BY <1>0, <1>7, <2>1, BreakerKept DEF JobDone, JobFails, memory, history
<1>8. ASSUME NEW w \in Workers, UNCHANGED <<now, blockedUntil, refusals>>,
             NEW what \in {"answer", "notice"}, NEW b \in AllBatches, Send(w, what, b)
      PROVE  BreakerInv'
  <2>1. /\ Moves(w) /\ run'[w].pc \in {"replying", "pushing", "givingUp"}
        /\ run'[w].pc = "pushing" => ~(now < blockedUntil)
    BY <1>8, SendMoves
  <2>. QED BY <1>0, <1>8, <2>1, BreakerKept
<1>9. ASSUME NEW w \in Workers, NEW b \in Batches, Answer(w, b)
      PROVE  BreakerInv'
  BY <1>8, <1>9, BatchesAssumption DEF Answer
<1>10. ASSUME NEW w \in Workers, Notify(w)
       PROVE  BreakerInv'
  <2>1. /\ UNCHANGED <<now, blockedUntil, refusals>>
        /\ run' = [run EXCEPT ![w] = Idle] \/ Send(w, "notice", "text")
    BY <1>10 DEF Notify
  <2>2. CASE run' = [run EXCEPT ![w] = Idle]
    BY <1>0, <2>1, <2>2, IdleMoves, IdleFields, BreakerKept
  <2>. QED BY <1>8, <2>1, <2>2 DEF AllBatches
<1>. QED BY <1>1, <1>2, <1>3, <1>4, <1>5, <1>6, <1>7, <1>9, <1>10, ReturnMoves
     DEF Next, Sending, Working

-----------------------------------------------------------------------------
(* The spent tokens. *)

LEMMA ImageFinite ==
    ASSUME NEW a \in Int, NEW b \in Int, NEW f
    PROVE  IsFiniteSet({f[m] : m \in a .. b})
<1>. DEFINE S == {f[m] : m \in a .. b}
            g == [m \in a .. b |-> f[m]]
<1>1. g \in Surjection(a .. b, S)
  BY DEF Surjection
<1>2. IsFiniteSet(a .. b)
  BY FS_Interval
<1>. HIDE DEF S, g
<1>3. IsFiniteSet(S)
  BY <1>1, <1>2, FS_Surjection
<1>. QED BY <1>3 DEF S

LEMMA DistinctCount ==
    ASSUME NEW S, IsFiniteSet(S), NEW n \in Nat, NEW f,
           \A i \in 1 .. n : f[i] \in S,
           \A i, k \in 1 .. n : i # k => f[i] # f[k]
    PROVE  Cardinality(S) >= n
<1>. DEFINE g == [i \in 1 .. n |-> f[i]]
<1>1. g \in Injection(1 .. n, S)
  BY DEF Injection, IsInjective
<1>. HIDE DEF g
<1>2. Cardinality(1 .. n) <= Cardinality(S) /\ Cardinality(1 .. n) = n
  BY <1>1, FS_Injection, FS_Interval
<1>3. Cardinality(S) \in Nat
  BY FS_CardinalityType
<1>. QED BY <1>2, <1>3

\* _consume forgets the oldest token at the cap, and remembers the new one.
LEMMA ConsumeIs ==
    ASSUME consumed \in Seq(Jobs), NEW C \in Nat, C = Len(consumed), NEW j \in Jobs,
           ConsumedMax \in Nat, C <= ConsumedMax,
           NEW gone \in {0, 1}, gone = 1 <=> C = ConsumedMax
    PROVE  /\ Len(Consume(j)) = C + 1 - gone
           /\ \A i \in 1 .. C + 1 - gone :
                Consume(j)[i] = IF i + gone <= C THEN consumed[i + gone] ELSE j
<1>. DEFINE all == Append(consumed, j)
<1>1. /\ all \in Seq(Jobs) /\ Len(all) = C + 1 /\ all[C + 1] = j
      /\ \A i \in 1 .. C : all[i] = consumed[i]
  OBVIOUS
<1>2. Consume(j) = IF gone = 1 THEN Tail(all) ELSE all
  BY <1>1 DEF Consume
<1>. HIDE DEF all
<1>3. Len(Tail(all)) = C /\ \A i \in 1 .. C : Tail(all)[i] = all[i + 1]
  BY <1>1
<1>4. CASE gone = 1
  <2>1. \A i \in 1 .. C : (i + 1 <= C => i + 1 \in 1 .. C) /\ (~(i + 1 <= C) => i = C)
    OBVIOUS
  <2>. QED BY <1>1, <1>2, <1>3, <1>4, <2>1
<1>5. CASE gone = 0
  BY <1>1, <1>2, <1>5
<1>. QED BY <1>4, <1>5

\* What appending to a sequence of jobs leaves: one element more, at the end.
LEMMA AppendIs ==
    ASSUME NEW s \in Seq(Jobs), NEW j \in Jobs
    PROVE  /\ Len(s) \in Nat /\ DOMAIN s = 1 .. Len(s)
           /\ Len(Append(s, j)) = Len(s) + 1
           /\ DOMAIN Append(s, j) = 1 .. Len(s) + 1
           /\ Append(s, j)[Len(s) + 1] = j
           /\ \A i \in 1 .. Len(s) : Append(s, j)[i] = s[i]
<1>1. Len(s) \in Nat /\ DOMAIN s = 1 .. Len(s)
  OBVIOUS
<1>2. Len(Append(s, j)) = Len(s) + 1
  OBVIOUS
<1>3. Append(s, j)[Len(s) + 1] = j
  BY <1>1
<1>4. \A i \in 1 .. Len(s) : Append(s, j)[i] = s[i]
  BY <1>1
<1>5. DOMAIN Append(s, j) = 1 .. Len(s) + 1
  <2>1. Append(s, j) \in Seq(Jobs)
    OBVIOUS
  <2>. QED BY <1>2, <2>1
<1>. QED BY <1>1, <1>2, <1>3, <1>4, <1>5

LEMMA ConsumedStep ==
    ASSUME TypeOK, ConsumedInv, TokenReusedOnlyAfterCap, NEW j \in Jobs, TokenUsable(j),
           consumed' = Consume(j), tried' = Append(tried, j)
    PROVE  ConsumedInv' /\ TokenReusedOnlyAfterCap'
<1>. DEFINE C == Len(consumed)
            N == Len(tried)
            gone == IF C = ConsumedMax THEN 1 ELSE 0
<1>0. /\ consumed \in Seq(Jobs) /\ tried \in Seq(Jobs)
      /\ Len(consumed) <= ConsumedMax /\ ConsumedMax \in Nat \ {0}
  BY Types, LimitsAssumption DEF Typed
<1>1. /\ C \in Nat /\ N \in Nat /\ C <= N /\ C <= ConsumedMax /\ ConsumedMax \in Nat \ {0}
      /\ C < ConsumedMax => C = N
      /\ gone \in {0, 1} /\ gone <= C /\ (gone = 1 <=> C = ConsumedMax)
  <2>1. C \in Nat /\ N \in Nat
    BY <1>0
  <2>2. C <= N /\ (C < ConsumedMax => C = N)
    BY DEF ConsumedInv
  <2>. QED BY <1>0, <2>1, <2>2
<1>2. C = Len(consumed) /\ consumed \in Seq(Jobs)
  BY <1>0
<1>4. /\ Len(tried') = N + 1 /\ tried'[N + 1] = j
      /\ \A i \in 1 .. N : tried'[i] = tried[i]
      /\ DOMAIN tried = 1 .. N /\ DOMAIN tried' = 1 .. N + 1
  BY <1>0, AppendIs
<1>5. /\ \A i \in 1 .. C : consumed[i] # j /\ consumed[i] = tried[N - C + i]
      /\ \A i, k \in 1 .. C : i # k => consumed[i] # consumed[k]
  <2>1. DOMAIN consumed = 1 .. C
    BY Types DEF Typed
  <2>. QED BY <2>1 DEF ConsumedInv, TokenUsable
<1>. HIDE DEF C, N, gone
<1>6. /\ Len(consumed') = C + 1 - gone
      /\ \A i \in 1 .. C + 1 - gone :
           consumed'[i] = IF i + gone <= C THEN consumed[i + gone] ELSE j
  <2>1. /\ Len(Consume(j)) = C + 1 - gone
        /\ \A i \in 1 .. C + 1 - gone :
             Consume(j)[i] = IF i + gone <= C THEN consumed[i + gone] ELSE j
    <3>1. C \in Nat /\ C <= ConsumedMax /\ ConsumedMax \in Nat
          /\ gone \in {0, 1} /\ (gone = 1 <=> C = ConsumedMax)
      BY <1>1
    <3>. QED BY ONLY <1>2, <3>1, j \in Jobs, ConsumeIs
  <2>2. consumed' = Consume(j)
    OBVIOUS
  <2>. QED BY ONLY <2>1, <2>2
<1>7. ConsumedInv'
  <2>1. Len(consumed') <= Len(tried')
    BY <1>1, <1>4, <1>6
  <2>2. Len(consumed') < ConsumedMax => Len(consumed') = Len(tried')
    BY <1>1, <1>4, <1>6
  <2>3. ASSUME NEW i \in 1 .. Len(consumed')
        PROVE  consumed'[i] = tried'[Len(tried') - Len(consumed') + i]
    <3>1. Len(tried') - Len(consumed') + i = N - C + gone + i
      BY <1>1, <1>4, <1>6
    <3>2. i \in 1 .. C + 1 - gone
      BY <1>6
    <3>3. CASE i + gone <= C
      <4>1. i + gone \in 1 .. C /\ N - C + (i + gone) \in 1 .. N
        BY <1>1, <3>2, <3>3
      <4>. QED BY <1>1, <1>4, <1>5, <1>6, <3>1, <3>2, <3>3, <4>1
    <3>4. CASE ~(i + gone <= C)
      <4>1. i + gone = C + 1
        BY <1>1, <3>2, <3>4
      <4>. QED BY <1>1, <1>4, <1>6, <3>1, <3>2, <3>4, <4>1
    <3>. QED BY <3>3, <3>4
  <2>4. ASSUME NEW i \in 1 .. Len(consumed'), NEW k \in 1 .. Len(consumed'), i # k
        PROVE  consumed'[i] # consumed'[k]
    <3>1. /\ i \in 1 .. C + 1 - gone /\ k \in 1 .. C + 1 - gone
          /\ i + gone <= C => i + gone \in 1 .. C
          /\ k + gone <= C => k + gone \in 1 .. C
          /\ i + gone # k + gone
          /\ i + gone <= C \/ k + gone <= C
      BY <1>1, <1>6, <2>4
    <3>. QED BY <1>5, <1>6, <3>1
  <2>. QED BY <2>1, <2>2, <2>3, <2>4 DEF ConsumedInv
<1>8. TokenReusedOnlyAfterCap'
  <2>. SUFFICES ASSUME NEW i \in 1 .. N + 1, NEW k \in 1 .. N + 1,
                       i < k, tried'[i] = tried'[k]
                PROVE  Cardinality({tried'[m] : m \in i + 1 .. k - 1}) >= ConsumedMax
    BY <1>4 DEF TokenReusedOnlyAfterCap
  <2>0. i \in 1 .. N /\ k - 1 <= N /\ \A m \in i + 1 .. k - 1 : m \in 1 .. N
    BY <1>1
  <2>1. {tried'[m] : m \in i + 1 .. k - 1} = {tried[m] : m \in i + 1 .. k - 1}
    BY <1>4, <2>0
  <2>2. CASE k <= N
    <3>1. k \in 1 .. N /\ tried[i] = tried[k]
      BY <1>1, <1>4, <2>0, <2>2
    <3>. QED BY <1>4, <2>0, <2>1, <3>1 DEF TokenReusedOnlyAfterCap
  <2>3. CASE k = N + 1
    <3>1. tried[i] = j
      BY <1>4, <2>0, <2>3
    <3>2. ~(i > N - C)
      <4>1. SUFFICES ASSUME i > N - C PROVE FALSE
        OBVIOUS
      <4>2. i - (N - C) \in 1 .. C /\ N - C + (i - (N - C)) = i
        BY <1>1, <2>0, <4>1
      <4>. QED BY <1>5, <3>1, <4>2
    <3>3. C = ConsumedMax
      BY <1>1, <2>0, <3>2
    <3>. DEFINE T == {tried[m] : m \in i + 1 .. k - 1}
    <3>4. IsFiniteSet(T)
      <4>1. i + 1 \in Int /\ k - 1 \in Int
        BY <1>1
      <4>. QED BY <4>1, ImageFinite
    <3>5. \A x \in 1 .. C : consumed[x] \in T
      <4>1. ASSUME NEW x \in 1 .. C
            PROVE  consumed[x] \in T
        <5>1. N - C + x \in i + 1 .. k - 1
          BY <1>1, <2>0, <2>3, <3>2
        <5>. QED BY <1>5, <5>1
      <4>. QED BY <4>1
    <3>. HIDE DEF T
    <3>6. Cardinality(T) >= C
      BY <1>1, <1>5, <3>4, <3>5, DistinctCount
    <3>. QED BY <2>1, <3>3, <3>6 DEF T
  <2>4. k <= N \/ k = N + 1
    BY <1>1
  <2>. QED BY <2>2, <2>3, <2>4
<1>. QED BY <1>7, <1>8

LEMMA ConsumedNext ==
    ASSUME TypeOK, WorkInv, ConsumedInv, TokenReusedOnlyAfterCap, [Next]_vars
    PROVE  ConsumedInv' /\ TokenReusedOnlyAfterCap'
<1>1. ASSUME UNCHANGED <<consumed, tried>>
      PROVE  ConsumedInv' /\ TokenReusedOnlyAfterCap'
  BY <1>1 DEF ConsumedInv, TokenReusedOnlyAfterCap
<1>2. ASSUME NEW w \in Workers, NEW what \in {"answer", "notice"}, NEW b \in AllBatches,
             Send(w, what, b), run[w].job \in Jobs
      PROVE  ConsumedInv' /\ TokenReusedOnlyAfterCap'
  BY <1>1, <1>2, SendMoves, ConsumedStep
<1>3. CASE Restart
  BY <1>3 DEF Restart, ConsumedInv, TokenReusedOnlyAfterCap
<1>4. ASSUME NEW w \in Workers, NEW b \in Batches, Answer(w, b)
      PROVE  ConsumedInv' /\ TokenReusedOnlyAfterCap'
  <2>1. run[w].job \in Jobs /\ b \in AllBatches
    BY <1>4, BatchesAssumption DEF Answer, WorkInv, HoldInv, Busy
  <2>. QED BY <1>2, <1>4, <2>1 DEF Answer
<1>5. ASSUME NEW w \in Workers, Notify(w)
      PROVE  ConsumedInv' /\ TokenReusedOnlyAfterCap'
  <2>1. run[w].job \in Jobs
    BY <1>5 DEF Notify, WorkInv, HoldInv, Busy
  <2>2. UNCHANGED <<consumed, tried>> \/ Send(w, "notice", "text")
    BY <1>5 DEF Notify
  <2>. QED BY <1>1, <1>2, <2>1, <2>2 DEF AllBatches
<1>6. ASSUME NEW w \in Workers,
             \/ \E j \in Jobs : Start(w, j)
             \/ LineAccepts(w) \/ Sending(w) \/ JobDone(w) \/ JobFails(w)
      PROVE  UNCHANGED <<consumed, tried>>
  BY <1>6 DEF Start, LineAccepts, Sending, ReplyReturns, PushReturns, RetryReturns,
              Delivered, GiveUp, JobDone, JobFails, memory, history
<1>7. CASE UNCHANGED vars \/ Tick
  BY <1>1, <1>7 DEF vars, Tick, memory, history
<1>. QED BY <1>1, <1>3, <1>4, <1>5, <1>6, <1>7 DEF Next, Working

-----------------------------------------------------------------------------
(* The apologies. *)

\* One more apology keeps a chat's apologies a window apart.
LEMMA NoticesAppended ==
    ASSUME NEW n \in Seq(0 .. MaxTime), NEW m \in 0 .. Never, NEW t \in 0 .. MaxTime,
           NEW next \in 0 .. Never, NEW later \in Seq(0 .. MaxTime),
           Remembered(n, m, t), ~(m # Never /\ t - m < NotifyWindow),
           later = Append(n, t),
           next = t \/ (next = Never /\ t + NotifyWindow <= t)
    PROVE  Remembered(later, next, t)
<1>1. /\ NotifyWindow \in Nat /\ MaxTime \in Nat /\ Never = MaxTime + 1
      /\ Len(n) \in Nat /\ \A i \in 1 .. Len(n) : n[i] \in 0 .. MaxTime
  BY LimitsAssumption DEF Never
<1>2. /\ Len(later) = Len(n) + 1 /\ later[Len(n) + 1] = t
      /\ \A i \in 1 .. Len(n) : later[i] = n[i]
  BY <1>1
<1>3. \A i \in 1 .. Len(n) : n[i] + NotifyWindow <= t
  BY <1>1 DEF Remembered
<1>4. /\ \A i \in 1 .. Len(later) : \/ later[i] + NotifyWindow <= t
                                    \/ next # Never /\ later[i] <= next
      /\ \A i, k \in 1 .. Len(later) : i < k => later[i] + NotifyWindow <= later[k]
  <2>1. ASSUME NEW i \in 1 .. Len(later)
        PROVE  later[i] + NotifyWindow <= t \/ (next # Never /\ later[i] <= next)
    <3>1. CASE i \in 1 .. Len(n)
      BY <1>2, <1>3, <3>1
    <3>2. CASE i = Len(n) + 1
      BY <1>1, <1>2, <3>2
    <3>. QED BY <1>1, <1>2, <2>1, <3>1, <3>2
  <2>2. ASSUME NEW i \in 1 .. Len(later), NEW k \in 1 .. Len(later), i < k
        PROVE  later[i] + NotifyWindow <= later[k]
    <3>1. i \in 1 .. Len(n)
      BY <1>1, <1>2, <2>2
    <3>2. CASE k \in 1 .. Len(n)
      BY <1>2, <2>2, <3>1, <3>2 DEF Remembered
    <3>3. CASE k = Len(n) + 1
      BY <1>2, <1>3, <3>1, <3>3
    <3>. QED BY <1>1, <1>2, <2>2, <3>2, <3>3
  <2>. QED BY <2>1, <2>2
<1>. QED BY <1>4 DEF Remembered

\* An entry that the trim drops has had its window.
LEMMA NoticesTrimmed ==
    ASSUME NEW n \in Seq(0 .. MaxTime), NEW m \in 0 .. Never, NEW t \in 0 .. MaxTime,
           NEW next, Remembered(n, m, t),
           next = m \/ (next = Never /\ (m = Never \/ m + NotifyWindow <= t))
    PROVE  Remembered(n, next, t)
<1>1. /\ NotifyWindow \in Nat /\ MaxTime \in Nat /\ Never = MaxTime + 1
      /\ Len(n) \in Nat /\ \A i \in 1 .. Len(n) : n[i] \in 0 .. MaxTime
  BY LimitsAssumption DEF Never
<1>2. ASSUME NEW i \in 1 .. Len(n)
      PROVE  n[i] + NotifyWindow <= t \/ (next # Never /\ n[i] <= next)
  BY <1>1 DEF Remembered
<1>. QED BY <1>2 DEF Remembered

LEMMA ApologyNoted ==
    ASSUME TypeOK, NoticesInv, NEW c \in Chats, ~Recent(c), RememberNotice(c),
           notices' = [notices EXCEPT ![c] = Append(@, now)], now' = now
    PROVE  NoticesInv'
<1>1. /\ now \in 0 .. MaxTime /\ NotifyWindow \in Nat /\ MaxTime \in Nat
      /\ Never = MaxTime + 1
      /\ notified \in [Chats -> 0 .. Never] /\ notices \in [Chats -> Seq(0 .. MaxTime)]
  BY Types, LimitsAssumption DEF Typed, Never
<1>. DEFINE all == [notified EXCEPT ![c] = now]
<1>2. /\ all \in [Chats -> 0 .. Never] /\ all[c] = now
      /\ \A d \in Chats : d # c => all[d] = notified[d] /\ notices'[d] = notices[d]
      /\ notices'[c] = Append(notices[c], now) /\ notices'[c] \in Seq(0 .. MaxTime)
  BY <1>1
<1>3. \/ notified' = all
      \/ notified' = [d \in Chats |-> IF all[d] # Never /\ all[d] + NotifyWindow > now
                                        THEN all[d] ELSE Never]
  BY DEF RememberNotice
<1>. HIDE DEF all
<1>4. ASSUME NEW d \in Chats
      PROVE  \/ notified'[d] = all[d]
             \/ notified'[d] = Never /\ (all[d] = Never \/ all[d] + NotifyWindow <= now)
  BY <1>1, <1>2, <1>3
<1>5. Remembered(notices'[c], notified'[c], now)
  <2>1. notified'[c] = now \/ (notified'[c] = Never /\ now + NotifyWindow <= now)
    BY <1>1, <1>2, <1>4
  <2>2. notified'[c] \in 0 .. Never
    BY <1>1, <2>1
  <2>3. ~(notified[c] # Never /\ now - notified[c] < NotifyWindow)
    BY DEF Recent
  <2>4. notified[c] \in 0 .. Never /\ notices[c] \in Seq(0 .. MaxTime)
        /\ Remembered(notices[c], notified[c], now)
    BY <1>1 DEF NoticesInv
  <2>5. /\ now \in 0 .. MaxTime /\ notices'[c] = Append(notices[c], now)
        /\ notices'[c] \in Seq(0 .. MaxTime)
    BY <1>1, <1>2
  <2>. QED BY ONLY <2>1, <2>2, <2>3, <2>4, <2>5, NoticesAppended
<1>6. ASSUME NEW d \in Chats, d # c
      PROVE  Remembered(notices'[d], notified'[d], now)
  <2>1. /\ notified[d] \in 0 .. Never /\ notices[d] \in Seq(0 .. MaxTime)
        /\ Remembered(notices[d], notified[d], now) /\ notices'[d] = notices[d]
    BY <1>1, <1>2, <1>6 DEF NoticesInv
  <2>2. \/ notified'[d] = notified[d]
        \/ notified'[d] = Never /\ (notified[d] = Never \/ notified[d] + NotifyWindow <= now)
    BY <1>2, <1>4, <1>6
  <2>. QED BY <1>1, <2>1, <2>2, NoticesTrimmed
<1>. QED BY <1>5, <1>6 DEF NoticesInv

LEMMA ApologyNext ==
    ASSUME TypeOK, WorkInv, NoticesInv, [Next]_vars
    PROVE  NoticesInv'
<1>1. ASSUME UNCHANGED <<notified, notices, now>>
      PROVE  NoticesInv'
  BY <1>1 DEF NoticesInv
<1>2. CASE Tick
  <2>1. now' = now + 1 /\ UNCHANGED <<notified, notices>>
    BY <1>2 DEF Tick, memory, history
  <2>2. /\ now \in Nat /\ NotifyWindow \in Nat /\ MaxTime \in Nat
        /\ notices \in [Chats -> Seq(0 .. MaxTime)]
    BY Types, LimitsAssumption DEF Typed
  <2>3. ASSUME NEW c \in Chats
        PROVE  Remembered(notices[c], notified[c], now + 1)
    <3>1. /\ \A i \in 1 .. Len(notices[c]) : notices[c][i] \in Nat
          /\ Remembered(notices[c], notified[c], now)
      BY <2>2 DEF NoticesInv
    <3>. QED BY <2>2, <3>1 DEF Remembered
  <2>. QED BY <2>1, <2>3 DEF NoticesInv
<1>3. CASE Restart
  <2>1. \A c \in Chats : notices'[c] = <<>>
    BY <1>3 DEF Restart
  <2>. QED BY <2>1 DEF NoticesInv, Remembered
<1>4. ASSUME NEW w \in Workers, Notify(w)
      PROVE  NoticesInv'
  <2>1. JobChat[run[w].job] \in Chats
    BY <1>4, JobAssumption DEF Notify, WorkInv, HoldInv, Busy
  <2>2. \/ UNCHANGED <<notified, notices, now>>
        \/ /\ ~Recent(JobChat[run[w].job]) /\ RememberNotice(JobChat[run[w].job])
           /\ notices' = [notices EXCEPT ![JobChat[run[w].job]] = Append(@, now)]
           /\ now' = now
    BY <1>4 DEF Notify
  <2>. QED BY <1>1, <2>1, <2>2, ApologyNoted
<1>5. ASSUME NEW w \in Workers,
             \/ \E j \in Jobs : Start(w, j)
             \/ LineAccepts(w) \/ Sending(w) \/ (\E b \in Batches : Answer(w, b))
             \/ JobDone(w) \/ JobFails(w)
      PROVE  UNCHANGED <<notified, notices, now>>
  BY <1>5 DEF Start, LineAccepts, Sending, ReplyReturns, PushReturns, RetryReturns,
              Delivered, GiveUp, Answer, JobDone, JobFails, memory, history
<1>6. CASE UNCHANGED vars
  BY <1>1, <1>6 DEF vars, memory, history
<1>. QED BY <1>1, <1>2, <1>3, <1>4, <1>5, <1>6 DEF Next, Working

-----------------------------------------------------------------------------
(* The invariant, and the theorems. *)

LEMMA DeliveryInit == Init => DeliveryInv
<1>. SUFFICES ASSUME Init PROVE DeliveryInv
  OBVIOUS
<1>. USE DEF Init
<1>1. Typed
  <2>1. 0 \in 0 .. MaxTime /\ 0 \in 0 .. MaxRestarts /\ 0 \in 0 .. MaxAttempts
        /\ Never \in 0 .. Never /\ Quota \in 0 .. Quota /\ 0 <= ConsumedMax
    BY LimitsAssumption DEF Never
  <2>2. NewJob \in Job
    BY <2>1 DEF NewJob, Job, Statuses
  <2>. QED BY <2>1, <2>2, IdleIsRun DEF Typed
<1>2. TypeOK
  BY <1>1 DEF TypeOK, Typed, Job, Run, Pcs, Statuses
<1>3. /\ \A j \in Jobs : /\ job[j].status = "none" /\ job[j].attempts = 0
                        /\ ~job[j].replied /\ shown[j] = 0
      /\ \A w \in Workers : run[w] = Idle
  BY DEF NewJob
<1>4. WorkInv
  BY <1>3, IdleFields DEF WorkInv, HoldInv, ChatInv, StatusInv, StatusOf, SendsAnswer,
                          FreshInv, Busy
<1>5. AnswerInv
  BY <1>3, IdleFields DEF AnswerInv, SeenOf, InDoubt
<1>6. BreakerInv
  BY PushersCount DEF BreakerInv, RefusalsBounded
<1>7. ConsumedInv /\ TokenReusedOnlyAfterCap
  BY LimitsAssumption DEF ConsumedInv, TokenReusedOnlyAfterCap
<1>8. NoticesInv
  BY DEF NoticesInv, Remembered
<1>. QED BY <1>2, <1>4, <1>5, <1>6, <1>7, <1>8 DEF DeliveryInv

LEMMA DeliveryNext == DeliveryInv /\ [Next]_vars => DeliveryInv'
BY TypeNext, WorkNext, AnswerNext, BreakerNext, ConsumedNext, ApologyNext DEF DeliveryInv

LEMMA DeliveryAlways == Spec => []DeliveryInv
BY DeliveryInit, DeliveryNext, PTL DEF Spec

\* Every variable keeps its type: an inbox row is tried no more than max_attempts
\* times, _consumed holds no more than its cap, and LINE's quota is not overdrawn.
THEOREM DeliveryTypeCorrect == Spec => []TypeOK
<1>1. DeliveryInv => TypeOK
  BY DEF DeliveryInv
<1>. QED BY <1>1, DeliveryAlways, PTL

\* An answer is shown twice only if LINE took one and no response said so: a reply
\* that failed over to a push, a push retried as its text, a job run again.
THEOREM DoubledOnlyIfUnheard == Spec => []ShownTwiceOnlyIfUnheard
<1>1. DeliveryInv => ShownTwiceOnlyIfUnheard
  <2>. SUFFICES ASSUME DeliveryInv, NEW j \in Jobs, shown[j] > 1, j \notin unheard
                PROVE  FALSE
    BY DEF ShownTwiceOnlyIfUnheard
  <2>1. shown[j] \in Nat /\ shown[j] <= 1
    BY Types DEF DeliveryInv, AnswerInv, SeenOf, Typed
  <2>. QED BY <2>1
<1>. QED BY <1>1, DeliveryAlways, PTL

\* A 'done' answer was shown, and a 'delivery_failed' one was not, unless LINE took
\* it without our knowing.
THEOREM InboxMatchesUser == Spec => []RecordMatchesUser
<1>1. DeliveryInv => RecordMatchesUser
  BY DEF DeliveryInv, AnswerInv, SeenOf, RecordMatchesUser
<1>. QED BY <1>1, DeliveryAlways, PTL

\* With the quota spent, LINE refuses no more pushes than there are workers before
\* the cooldown ends: the breaker stops all that were not under way.
THEOREM BreakerBoundsRefusals == Spec => []RefusalsBounded
<1>1. DeliveryInv => RefusalsBounded
  BY DEF DeliveryInv, BreakerInv
<1>. QED BY <1>1, DeliveryAlways, PTL

\* Within one boot a reply token is not sent to LINE again before
\* CONSUMED_TOKENS_MAX others were sent.
THEOREM TokensSpentOnce == Spec => []TokenReusedOnlyAfterCap
<1>1. DeliveryInv => TokenReusedOnlyAfterCap
  BY DEF DeliveryInv
<1>. QED BY <1>1, DeliveryAlways, PTL

\* A process hands LINE no two apologies for a chat within one window, however
\* many of its jobs fail, and also when the memory is trimmed for other chats.
THEOREM ApologiesRemembered == Spec => []OneApologyPerWindow
<1>1. DeliveryInv => OneApologyPerWindow
  <2>. SUFFICES ASSUME DeliveryInv, NEW c \in Chats,
                       NEW i \in DOMAIN notices[c], NEW k \in DOMAIN notices[c], i < k
                PROVE  notices[c][k] - notices[c][i] >= NotifyWindow
    BY DEF OneApologyPerWindow
  <2>1. /\ notices[c] \in Seq(0 .. MaxTime) /\ Remembered(notices[c], notified[c], now)
        /\ NotifyWindow \in Nat /\ MaxTime \in Nat
    BY Types, LimitsAssumption DEF DeliveryInv, NoticesInv, Typed
  <2>2. /\ i \in 1 .. Len(notices[c]) /\ k \in 1 .. Len(notices[c])
        /\ notices[c][i] \in Nat /\ notices[c][k] \in Nat
    BY <2>1
  <2>3. notices[c][i] + NotifyWindow <= notices[c][k]
    BY <2>1, <2>2 DEF Remembered
  <2>. QED BY <2>1, <2>2, <2>3
<1>. QED BY <1>1, DeliveryAlways, PTL
=============================================================================
