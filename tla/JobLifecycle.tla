---------------------------- MODULE JobLifecycle ----------------------------
(***************************************************************************)
(* What the durable queue promises about one job, as a client that only    *)
(* polls GET /jobs/{id} can tell: the job is queued, running or settled;   *)
(* a settled job never changes again; a job is started a bounded number of *)
(* times; a one-shot job (a mail batch) is started at most once; and a job *)
(* that somebody asked to stop is never reported done.  Leases, workers,   *)
(* slots and time do not appear.  JobQueue implements this module.         *)
(***************************************************************************)
EXTENDS Naturals

CONSTANTS
  Jobs,         \* rows of background_jobs
  MaxAttempts   \* JOB_MAX_ATTEMPTS

VARIABLES
  status,   \* what the client sees; "none" before the job is submitted
  tries,    \* how often the job has been started
  oneShot,  \* may the job be started again after a worker died on it?
  stop      \* has somebody asked for the job to stop?

vars == <<status, tries, oneShot, stop>>

Verdicts == {"done", "error", "cancelled"}
Statuses == {"none", "queued", "running"} \cup Verdicts

Init ==
  /\ status = [j \in Jobs |-> "none"]
  /\ tries = [j \in Jobs |-> 0]
  /\ oneShot \in [Jobs -> BOOLEAN]
  /\ stop = [j \in Jobs |-> FALSE]

Keeps(j) == tries'[j] = tries[j] /\ oneShot'[j] = oneShot[j]

Submit(j) ==
  /\ status[j] = "none" /\ status'[j] = "queued"
  /\ tries'[j] = 0 /\ stop'[j] = FALSE /\ oneShot'[j] \in BOOLEAN

Start(j) ==
  /\ status[j] = "queued" /\ status'[j] = "running"
  /\ tries[j] < MaxAttempts /\ (oneShot[j] => tries[j] = 0)
  /\ tries'[j] = tries[j] + 1 /\ oneShot'[j] = oneShot[j]
  /\ stop[j] = FALSE /\ stop'[j] = FALSE

\* The worker died: the job may run again.
Requeue(j) ==
  /\ status[j] = "running" /\ status'[j] = "queued"
  /\ tries[j] < MaxAttempts /\ ~oneShot[j] /\ ~stop[j]
  /\ stop'[j] = FALSE /\ Keeps(j)

AskToStop(j) ==
  /\ status'[j] = status[j] /\ status[j] # "none"
  /\ stop'[j] = TRUE /\ Keeps(j)

\* A queued job can only be cancelled; a running one can end in any way, but
\* not as "done" when it was asked to stop.
Settle(j) ==
  /\ \/ status[j] = "queued" /\ status'[j] = "cancelled" /\ stop'[j] = TRUE
     \/ status[j] = "running" /\ status'[j] \in Verdicts /\ stop'[j] = stop[j]
  /\ stop[j] => status'[j] # "done"
  /\ Keeps(j)

JobStep(j) == Submit(j) \/ Start(j) \/ Requeue(j) \/ AskToStop(j) \/ Settle(j)

Same(j) == status'[j] = status[j] /\ stop'[j] = stop[j] /\ Keeps(j)

(* One transaction of the queue may move several jobs at once. *)
Next ==
  /\ status' \in [Jobs -> Statuses]
  /\ tries' \in [Jobs -> Nat]
  /\ oneShot' \in [Jobs -> BOOLEAN]
  /\ stop' \in [Jobs -> BOOLEAN]
  /\ \A j \in Jobs : JobStep(j) \/ Same(j)

Spec == Init /\ [][Next]_vars

=============================================================================
