------------------------- MODULE PipelineRefinement -------------------------
(***************************************************************************)
(* The pipeline and its inbox implement JobQueue: rows are the jobs.       *)
(***************************************************************************)
EXTENDS Pipeline

StateOf(status) ==
    CASE status = "none"       -> "free"
      [] status = "pending"    -> "waiting"
      [] status = "processing" -> "running"
      [] status = "purged"     -> "forgotten"
      [] OTHER -> status

Q == INSTANCE JobQueue WITH
       Jobs <- Rows,
       up   <- phase # "down",
       job  <- [r \in Rows |-> [state    |-> StateOf(inbox[r].status),
                                attempts |-> inbox[r].attempts,
                                replied  |-> inbox[r].replied /\ Live(r)]]

\* recover_orphans, _process and purge_expired, behind queues, workers, sweeps
\* and restarts, take each message through the life that JobQueue describes.
ImplementsJobQueue == Q!Spec
=============================================================================
