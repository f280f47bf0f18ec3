------------------------------ MODULE Delivery ------------------------------
(***************************************************************************)
(* How an answer reaches its user: Replier.send (a reply with the event's  *)
(* token first, a push when that cannot work), the memory of spent tokens, *)
(* the breaker that stops pushes once LINE reports the monthly quota       *)
(* spent, and the Notifier's apologies.                                    *)
(*                                                                         *)
(* Workers run concurrently on one event loop; the shared state is that of *)
(* the one Replier and the one Notifier.  A step ends where the code       *)
(* awaits: the HTTP call to LINE, and the repository call after it.        *)
(* LINE itself is external: it may take a call and its response be lost.   *)
(*                                                                         *)
(* Time is one clock in ticks; Pipeline models the inbox in full, here a   *)
(* job keeps only what delivery reads and writes of it.                    *)
(***************************************************************************)
EXTENDS Naturals, Sequences, FiniteSets
LOCAL INSTANCE FiniteSetsExt

CONSTANTS
    Workers, Chats, Jobs,
    NoJob,         \* no job: what an idle worker holds
    JobChat,       \* the chat of each job
    TokenJobs,     \* jobs whose event carries a reply token
    Batches,       \* shapes of an answer: see AllBatches
    Ttl,           \* reply_token_ttl_seconds
    EventMaxAge,   \* LINE_REPLY_EVENT_MAX_AGE_MS
    ConsumedMax,   \* CONSUMED_TOKENS_MAX
    Cooldown,      \* push_quota_cooldown_seconds
    NotifyWindow,  \* NOTIFY_DEDUP_WINDOW_SECONDS
    NotifiedMax,   \* chats remembered by the Notifier (512)
    MaxAttempts,   \* recover_orphans(max_attempts)
    Quota,         \* pushes LINE still accepts this month
    Timeouts,      \* may a handler raise or exceed the job timeout?
    MaxStarts,     \* bound: handler runs and crashes, together
    MaxTime,       \* bound: clock ticks
    MaxRestarts    \* bound: crashes

\* All of a batch is text; some of it is; none of it is.
AllBatches == {"text", "mixed", "media"}

ASSUME JobAssumption == NoJob \notin Jobs /\ JobChat \in [Jobs -> Chats]
ASSUME WorkersAssumption == IsFiniteSet(Workers)
ASSUME TokenJobsAssumption == TokenJobs \subseteq Jobs
ASSUME BatchesAssumption == Batches \subseteq AllBatches
ASSUME LimitsAssumption ==
    /\ Ttl \in Nat \ {0} /\ EventMaxAge \in Nat \ {0} /\ Cooldown \in Nat \ {0}
    /\ ConsumedMax \in Nat \ {0} /\ NotifyWindow \in Nat /\ NotifiedMax \in Nat \ {0}
    /\ MaxAttempts \in Nat \ {0} /\ Quota \in Nat
    /\ MaxStarts \in Nat /\ MaxTime \in Nat /\ MaxRestarts \in Nat
ASSUME TimeoutsAssumption == Timeouts \in BOOLEAN

Never == MaxTime + 1

VARIABLES
    now,
    job,           \* per job: status, attempts, reply_sent_at, its timestamps
    run,           \* where each worker's coroutine is, and LINE's answer to it
    consumed,      \* Replier._consumed, oldest first
    blockedUntil,  \* Replier._push_blocked_until
    notified,      \* Notifier._last_notified (Never: no entry)
    spent,         \* LINE: reply tokens used up
    pushesLeft,    \* LINE: what is left of the monthly quota
    restarts,
    shown,         \* history: times the user was shown each answer
    unheard,       \* history: jobs with a message LINE took and we never knew
    tried,         \* history of this boot: tokens sent to LINE, in order
    notices,       \* history of this boot: when each chat's apologies were sent
    refusals       \* history: quota refusals since pushes were last allowed

lineVars == <<spent, pushesLeft>>
memory   == <<consumed, blockedUntil, notified>>
history  == <<shown, unheard, tried, notices, refusals>>
vars     == <<now, job, run, memory, lineVars, restarts, history>>

Idle == [pc |-> "idle", job |-> NoJob, what |-> "answer", batch |-> "text",
         taken |-> FALSE]
NewJob == [status |-> "none", attempts |-> 0, replied |-> FALSE,
           received |-> 0, event_ts |-> 0]

Init ==
    /\ now = 0
    /\ job = [j \in Jobs |-> NewJob]
    /\ run = [w \in Workers |-> Idle]
    /\ consumed = <<>> /\ blockedUntil = 0
    /\ notified = [c \in Chats |-> Never]
    /\ spent = {} /\ pushesLeft = Quota
    /\ restarts = 0
    /\ shown = [j \in Jobs |-> 0] /\ unheard = {}
    /\ tried = <<>> /\ notices = [c \in Chats |-> <<>>] /\ refusals = 0

-----------------------------------------------------------------------------
(* The environment: time, deliveries, LINE. *)

Tick ==
    /\ now < MaxTime
    /\ now' = now + 1
    /\ UNCHANGED <<job, run, memory, lineVars, restarts, history>>

Calling(w) == run[w].pc \in {"replying", "pushing", "retrying"}

\* LINE takes the message of worker w; its 200 is under way.  A reply token
\* works once.
LineAccepts(w) ==
    LET j == run[w].job IN
    /\ Calling(w) /\ ~run[w].taken
    /\ IF run[w].pc = "replying"
         THEN j \notin spent /\ spent' = spent \cup {j} /\ UNCHANGED pushesLeft
         ELSE pushesLeft > 0 /\ pushesLeft' = pushesLeft - 1 /\ UNCHANGED spent
    /\ IF run[w].what = "answer"
         THEN shown' = [shown EXCEPT ![j] = @ + 1] ELSE UNCHANGED shown
    /\ run' = [run EXCEPT ![w].taken = TRUE]
    /\ UNCHANGED <<now, job, memory, restarts, unheard, tried, notices, refusals>>

\* What the call of worker w may return: "lost" is a transport error, before or
\* after LINE took the message; "rate" and "quota" are the two kinds of 429, and
\* "refused" any other answer.
Results(w) ==
    IF run[w].taken THEN {"ok", "lost"}
    ELSE {"lost", "refused"} \cup
         IF run[w].pc = "replying" THEN {}
         ELSE {"rate"} \cup IF pushesLeft = 0 THEN {"quota"} ELSE {}

-----------------------------------------------------------------------------
(* Replier. *)

\* Fault: the newest token is forgotten instead of the oldest.
ConsumeDropsNewest(j) ==
    IF Len(consumed) = ConsumedMax THEN consumed ELSE Append(consumed, j)
\* Fault: nothing is forgotten.
ConsumeKeepsAll(j) == Append(consumed, j)
\* _consume: an insertion-ordered set that forgets its oldest entry.
Consume(j) ==
    LET all == Append(consumed, j) IN
    IF Len(all) > ConsumedMax THEN Tail(all) ELSE all

\* _reply_skip_reason and ReplyToken.skip_reason.
TokenUsable(j) ==
    /\ j \in TokenJobs
    /\ \A i \in DOMAIN consumed : consumed[i] # j
    /\ now - job[j].event_ts < EventMaxAge
    /\ now - job[j].received < Ttl

\* Fault: the breaker is not looked at.
PushUnlessBlockedNever == "pushing"
\* send: no reply, so a push, unless the breaker is open.
PushUnlessBlocked == IF now < blockedUntil THEN "givingUp" ELSE "pushing"

\* send, up to its first call.
Send(w, what, batch) ==
    LET j    == run[w].job
        at   == [pc |-> "replying", job |-> j, what |-> what, batch |-> batch,
                 taken |-> FALSE] IN
    IF TokenUsable(j)
      THEN /\ run' = [run EXCEPT ![w] = at]
           /\ consumed' = Consume(j)
           /\ tried' = Append(tried, j)
      ELSE /\ run' = [run EXCEPT ![w] = [at EXCEPT !.pc = PushUnlessBlocked]]
           /\ UNCHANGED <<consumed, tried>>

Goto(w, pc) == run' = [run EXCEPT ![w].pc = pc, ![w].taken = FALSE]

\* A message that LINE took in a call that failed.
Unheard(w, result) ==
    unheard' = IF run[w].taken /\ result # "ok" /\ run[w].what = "answer"
                 THEN unheard \cup {run[w].job} ELSE unheard

\* The reply call returns: anything but a 200 falls back to a push.  A refused
\* token is burned.
ReplyReturns(w) ==
    /\ run[w].pc = "replying"
    /\ \E result \in Results(w) :
         /\ Goto(w, IF result = "ok" THEN "recording" ELSE PushUnlessBlocked)
         /\ Unheard(w, result)
         /\ spent' = IF result = "refused" THEN spent \cup {run[w].job} ELSE spent
    /\ UNCHANGED <<now, job, memory, pushesLeft, restarts, shown, tried, notices,
                   refusals>>

\* _block_push, on a 429 that names the monthly limit.
BlockPush(result) ==
    IF result = "quota"
      THEN /\ blockedUntil' = now + Cooldown
           /\ refusals' = IF now < blockedUntil THEN refusals + 1 ELSE 1
      ELSE UNCHANGED <<blockedUntil, refusals>>

\* Where a push that came to result leaves the send.
AfterPush(result) ==
    IF result = "ok" THEN "recording" ELSE "givingUp"

\* Fault: only a 429 counts as a failure.
PushReturnsUnlessLimited(w) ==
    /\ run[w].pc = "pushing"
    /\ \E result \in Results(w) :
         /\ Goto(w, IF result \in {"rate", "quota"} THEN "givingUp" ELSE "recording")
         /\ BlockPush(result) /\ Unheard(w, result)
    /\ UNCHANGED <<now, job, consumed, notified, lineVars, restarts, shown, tried,
                   notices>>

\* _push: a mixed batch that failed is tried once more as its text alone, also
\* when the breaker is open by then; a 429 is not.
PushReturns(w) ==
    /\ run[w].pc = "pushing"
    /\ \E result \in Results(w) :
         /\ Goto(w, IF result \in {"lost", "refused"} /\ run[w].batch = "mixed"
                      THEN "retrying" ELSE AfterPush(result))
         /\ BlockPush(result) /\ Unheard(w, result)
    /\ UNCHANGED <<now, job, consumed, notified, lineVars, restarts, shown, tried,
                   notices>>

RetryReturns(w) ==
    /\ run[w].pc = "retrying"
    /\ \E result \in Results(w) :
         Goto(w, AfterPush(result)) /\ BlockPush(result) /\ Unheard(w, result)
    /\ UNCHANGED <<now, job, consumed, notified, lineVars, restarts, shown, tried,
                   notices>>

\* send is over: the handler goes on, or the Notifier is done.
SendOver(w) ==
    run' = [run EXCEPT ![w] = IF run[w].what = "answer"
                                THEN [@ EXCEPT !.pc = "sent"] ELSE Idle]

\* _delivered: mark_reply_sent.
Delivered(w) ==
    /\ run[w].pc = "recording"
    /\ job' = [job EXCEPT ![run[w].job].replied = TRUE]
    /\ SendOver(w)
    /\ UNCHANGED <<now, memory, lineVars, restarts, history>>

\* mark_delivery_failed: a failed job keeps its own error.
GiveUp(w) ==
    /\ run[w].pc = "givingUp"
    /\ job' = [job EXCEPT ![run[w].job].status =
                 IF @ \in {"processing", "done"} THEN "delivery_failed" ELSE @]
    /\ SendOver(w)
    /\ UNCHANGED <<now, memory, lineVars, restarts, history>>

-----------------------------------------------------------------------------
(* The jobs that send: Pipeline has the rest of them. *)

Starts == MapThenSumSet(LAMBDA j : job[j].attempts, Jobs)

\* A worker takes up a job that no other worker's chat excludes.  When its
\* webhook was received, right away or redelivered after a while, is settled
\* here, the first time: the token's own clock starts with that delivery.
Start(w, j) ==
    /\ run[w] = Idle /\ job[j].status \in {"none", "pending"} /\ Starts + restarts < MaxStarts
    /\ \A v \in Workers : run[v] # Idle => JobChat[run[v].job] # JobChat[j]
    /\ \E received \in 0 .. now : \E event_ts \in 0 .. received :
         /\ job[j].status = "pending" \/ j \notin TokenJobs =>
              received = job[j].received /\ event_ts = job[j].event_ts
         /\ job' = [job EXCEPT ![j] = [@ EXCEPT !.status = "processing",
                      !.attempts = job[j].attempts + 1, !.received = received,
                      !.event_ts = event_ts]]
    /\ run' = [run EXCEPT ![w] = [Idle EXCEPT !.pc = "working", !.job = j]]
    /\ UNCHANGED <<now, memory, lineVars, restarts, history>>

\* The handler has its answer.
Answer(w, batch) ==
    /\ run[w].pc = "working"
    /\ Send(w, "answer", batch)
    /\ UNCHANGED <<now, job, blockedUntil, notified, lineVars, restarts, shown, unheard,
                   notices, refusals>>

JobDone(w) ==
    /\ run[w].pc = "sent"
    /\ job' = [job EXCEPT ![run[w].job].status =
                 IF @ = "delivery_failed" THEN @ ELSE "done"]
    /\ run' = [run EXCEPT ![w] = Idle]
    /\ UNCHANGED <<now, memory, lineVars, restarts, history>>

\* LINE has taken the answer, and reply_sent_at does not say so yet.
InDoubt(w) == /\ run[w].what = "answer"
              /\ run[w].taken \/ run[w].pc = "recording"

\* The handler raises or is cut off by the job timeout at any await: a
\* mark_reply_sent whose thread has begun goes through all the same.
JobFails(w) ==
    LET j == run[w].job IN
    /\ Timeouts
    /\ run[w] # Idle /\ run[w].what = "answer" /\ run[w].pc # "failed"
    /\ \E recorded \in BOOLEAN :
         /\ recorded => run[w].pc = "recording"
         /\ job' = [job EXCEPT ![j].status = "failed", ![j].replied = @ \/ recorded]
         /\ unheard' = IF InDoubt(w) /\ ~recorded THEN unheard \cup {j} ELSE unheard
    /\ run' = [run EXCEPT ![w] = [Idle EXCEPT !.pc = "failed", !.job = j]]
    /\ UNCHANGED <<now, memory, lineVars, restarts, shown, tried, notices, refusals>>

\* Fault: past the cap, all entries are dropped.
RememberNoticeClears(c) ==
    LET all == [notified EXCEPT ![c] = now] IN
    notified' = IF Cardinality({d \in Chats : all[d] # Never}) <= NotifiedMax THEN all
                ELSE [d \in Chats |-> Never]
\* _should_notify's bookkeeping: past the cap, entries that have had their
\* window are dropped.
RememberNotice(c) ==
    LET all == [notified EXCEPT ![c] = now] IN
    notified' =
      IF Cardinality({d \in Chats : all[d] # Never}) <= NotifiedMax THEN all
      ELSE [d \in Chats |-> IF all[d] # Never /\ all[d] + NotifyWindow > now
                              THEN all[d] ELSE Never]

\* Fault: the memory is written but not looked at.
RecentNever(c) == FALSE
\* _should_notify: the chat had an apology within the window.
Recent(c) == notified[c] # Never /\ now - notified[c] < NotifyWindow

\* notify_job_failure after mark_failed: one apology per chat and window, noted
\* before it is sent.
Notify(w) ==
    LET c == JobChat[run[w].job] IN
    /\ run[w].pc = "failed"
    /\ \/ /\ Recent(c)
          /\ run' = [run EXCEPT ![w] = Idle]
          /\ UNCHANGED <<consumed, tried, notified, notices>>
       \/ /\ ~Recent(c)
          /\ RememberNotice(c)
          /\ notices' = [notices EXCEPT ![c] = Append(@, now)]
          /\ Send(w, "notice", "text")
    /\ UNCHANGED <<now, job, blockedUntil, lineVars, restarts, shown, unheard,
                   refusals>>

\* Fault: reply_sent_at is not looked at.
RecoveredAlways(j) ==
    IF job[j].status # "processing" THEN job[j].status
    ELSE IF job[j].attempts >= MaxAttempts THEN "abandoned" ELSE "pending"
\* recover_orphans (Pipeline!Recovered without the row's age).
Recovered(j) ==
    IF job[j].status # "processing" THEN job[j].status
    ELSE IF job[j].replied THEN "done"
    ELSE IF job[j].attempts >= MaxAttempts THEN "abandoned" ELSE "pending"

\* The process ends and a new one starts: its memory is empty.
Restart ==
    /\ restarts < MaxRestarts
    /\ restarts' = restarts + 1
    /\ job' = [j \in Jobs |-> [job[j] EXCEPT !.status = Recovered(j)]]
    /\ run' = [w \in Workers |-> Idle]
    /\ consumed' = <<>> /\ blockedUntil' = 0
    /\ notified' = [c \in Chats |-> Never]
    /\ unheard' = unheard \cup {run[w].job : w \in {v \in Workers : InDoubt(v)}}
    /\ tried' = <<>> /\ notices' = [c \in Chats |-> <<>>] /\ refusals' = 0
    /\ UNCHANGED <<now, lineVars, shown>>

-----------------------------------------------------------------------------

Sending(w) ==
    \/ ReplyReturns(w) \/ PushReturns(w) \/ RetryReturns(w)
    \/ Delivered(w) \/ GiveUp(w)
Working(w) ==
    \/ \E b \in Batches : Answer(w, b)
    \/ JobDone(w) \/ JobFails(w) \/ Notify(w)

Next ==
    \/ Tick \/ Restart
    \/ \E w \in Workers : \/ \E j \in Jobs : Start(w, j)
                          \/ LineAccepts(w) \/ Sending(w) \/ Working(w)

Spec == Init /\ [][Next]_vars

-----------------------------------------------------------------------------
(* Properties. *)

TypeOK ==
    /\ now \in 0 .. MaxTime /\ restarts \in 0 .. MaxRestarts
    /\ job \in [Jobs -> [status : {"none", "pending", "processing", "done", "failed",
                                   "delivery_failed", "abandoned"},
                         attempts : 0 .. MaxAttempts, replied : BOOLEAN,
                         received : 0 .. MaxTime, event_ts : 0 .. MaxTime]]
    /\ run \in [Workers ->
                 [pc : {"idle", "working", "replying", "pushing", "retrying",
                        "recording", "givingUp", "sent", "failed"},
                  job : Jobs \cup {NoJob}, what : {"answer", "notice"},
                  batch : AllBatches, taken : BOOLEAN]]
    /\ consumed \in Seq(Jobs) /\ Len(consumed) <= ConsumedMax
    /\ blockedUntil \in Nat
    /\ notified \in [Chats -> 0 .. Never]
    /\ spent \subseteq Jobs /\ pushesLeft \in 0 .. Quota
    /\ shown \in [Jobs -> Nat] /\ unheard \subseteq Jobs
    /\ tried \in Seq(Jobs) /\ refusals \in Nat
    /\ notices \in [Chats -> Seq(0 .. MaxTime)]

\* replier.py (b): a token is not sent to LINE again, by the job, its apology
\* or a batch, until CONSUMED_TOKENS_MAX others have pushed it out of memory.
TokenReusedOnlyAfterCap ==
    \A i, k \in DOMAIN tried : i < k /\ tried[i] = tried[k] =>
        Cardinality({tried[m] : m \in i + 1 .. k - 1}) >= ConsumedMax

\* The inbox and the user agree on every answer: 'done' answers were shown, and
\* 'delivery_failed' ones were not, unless LINE took one without our knowing.
RecordMatchesUser ==
    \A j \in Jobs :
        /\ job[j].status = "done" => shown[j] > 0
        /\ job[j].status = "delivery_failed" => shown[j] = 0 \/ j \in unheard

\* Fallbacks, retries, the text-only push and re-runs after a crash show an
\* answer twice only when LINE took it and the process never came to know.
ShownTwiceOnlyIfUnheard == \A j \in Jobs : shown[j] > 1 => j \in unheard

\* Once LINE says the quota is spent, it refuses at most the pushes that were
\* under way, one per worker, until the cooldown is over (replier.py: "push is
\* skipped for a cooldown").
RefusalsBounded == refusals <= Cardinality(Workers)

\* notify.py, "rate-limited per chat": however many jobs of a chat fail, and
\* whichever chats are remembered or trimmed meanwhile, a process hands LINE no
\* two apologies for the chat within one window.
OneApologyPerWindow ==
    \A c \in Chats : \A i, k \in DOMAIN notices[c] :
        i < k => notices[c][k] - notices[c][i] >= NotifyWindow
=============================================================================
