------------------------------ MODULE JobQueue ------------------------------
(***************************************************************************)
(* What the inbox and the pipeline promise for each message they have      *)
(* taken, with no queues, workers or sweeps: it waits, runs, comes to one  *)
(* end, and is forgotten in the end; a restart runs it again only while it *)
(* is unanswered, and not for ever.                                        *)
(***************************************************************************)
EXTENDS Naturals

CONSTANTS Jobs, MaxAttempts

VARIABLES
    up,      \* the process runs
    job,     \* per job: its state, attempts, and whether an answer is recorded
    raced    \* jobs that have been queued twice: nothing is promised for them

vars == <<up, job, raced>>

Ends == {"done", "failed", "abandoned", "delivery_failed"}

\* A job as it is: its state, the attempts made, whether it is answered.
As(state, attempts, replied) ==
    [state |-> state, attempts |-> attempts, replied |-> replied]

Init ==
    /\ up = FALSE
    /\ job = [j \in Jobs |-> As("free", 0, FALSE)]
    /\ raced = {}

\* A step of one job, while the process runs.
Moves(j, from, to) ==
    /\ up /\ job[j].state \in from
    /\ job' = [job EXCEPT ![j] = to]
    /\ UNCHANGED <<up, raced>>

Accept(j) == Moves(j, {"free"}, As("waiting", 0, FALSE))

\* An answered job does not start again, nor one that had its attempts.
Start(j) ==
    /\ ~job[j].replied /\ job[j].attempts < MaxAttempts
    /\ Moves(j, {"waiting"}, As("running", job[j].attempts + 1, FALSE))

\* The answer is recorded: during the job, or after it, for a batch.
Reply(j) ==
    Moves(j, {"running"} \cup Ends, As(job[j].state, job[j].attempts, TRUE))

\* An apology is recorded with the failure.
Settle(j) ==
    \/ \E end \in {"done", "delivery_failed"} :
         Moves(j, {"running"}, As(end, job[j].attempts, job[j].replied))
    \/ \E replied \in BOOLEAN :
         /\ job[j].replied => replied
         /\ Moves(j, {"running", "delivery_failed"},
                  As("failed", job[j].attempts, replied))
\* A batch is only known to be undelivered when its jobs are done.
Amend(j) ==
    Moves(j, {"done"}, As("delivery_failed", job[j].attempts, job[j].replied))

Forget ==
    /\ up
    /\ \E gone \in SUBSET {j \in Jobs : job[j].state \in Ends} :
         job' = [j \in Jobs |-> IF j \in gone
                   THEN As("forgotten", job[j].attempts, FALSE) ELSE job[j]]
    /\ UNCHANGED <<up, raced>>

Stop == up /\ up' = FALSE /\ UNCHANGED <<job, raced>>

\* A job that was not over waits again, unless it is answered, or given up.
Recover ==
    /\ ~up /\ up' = TRUE
    /\ \E again \in SUBSET {j \in Jobs :
                            /\ job[j].state \in {"waiting", "running"}
                            /\ ~job[j].replied
                            /\ job[j].attempts < MaxAttempts} :
         job' = [j \in Jobs |->
                   IF job[j].state \notin {"waiting", "running"} THEN job[j]
                   ELSE As(IF j \in again THEN "waiting"
                           ELSE IF job[j].replied THEN "done" ELSE "abandoned",
                           job[j].attempts, job[j].replied)]
    /\ UNCHANGED raced

\* A job is queued a second time; from then on it may start whatever its state,
\* and end again.
Race(j) == up /\ raced' = raced \cup {j} /\ UNCHANGED <<up, job>>
Astray(j) ==
    /\ j \in raced
    /\ \/ Moves(j, {"waiting", "running"} \cup Ends,
                As("running", job[j].attempts + 1, job[j].replied))
       \/ \E state \in Ends, replied \in BOOLEAN :
            /\ job[j].replied => replied
            /\ Moves(j, {"running"} \cup Ends,
                     As(state, job[j].attempts, replied))

Next ==
    \/ Stop \/ Recover \/ Forget
    \/ \E j \in Jobs : \/ Accept(j) \/ Start(j) \/ Reply(j) \/ Settle(j)
                       \/ Amend(j) \/ Race(j) \/ Astray(j)

Spec == Init /\ [][Next]_vars
=============================================================================
