------------------------------- MODULE MailRun -------------------------------
(***************************************************************************)
(* How an automatic report mail runs: run_mail_job of                      *)
(* backend/app/services/scheduled_report_mail.py, as often as the job      *)
(* queue executes it.  running_since of the settings row keeps runs apart; *)
(* the send log tells the administrators what each of them did.            *)
(*                                                                         *)
(* The queue is the part of JobQueue that matters here: a claim, a         *)
(* recovery, the fenced verdict.  Its lease of two minutes is short beside *)
(* the 90 minutes after which a run counts as dead, so a recovery may come *)
(* at any time in between.  A run is named by its job and its attempt.     *)
(***************************************************************************)
EXTENDS Naturals

CONSTANTS
  Scheduled,     \* jobs of the scheduler: owner 0, so nobody can cancel them
  Manual,        \* jobs of "Send now"
  Messages,      \* how many messages the report of a job goes out in
  MaxAttempts,   \* of the queue: JOB_MAX_ATTEMPTS
  StaleTicks,    \* _RUN_STALE_AFTER
  MaxDeaths,     \* bound on the workers that die
  LeasesHold,    \* does a worker that lives keep the lease of its job?
  RunsShort      \* does a run end before it counts as dead?

Jobs == Scheduled \cup Manual
Runs == Jobs \X (1..MaxAttempts)

ASSUME RunConstants ==
  /\ Scheduled \cap Manual = {}
  /\ Messages \in [Jobs -> Nat \ {0}]
  /\ MaxAttempts \in Nat \ {0} /\ StaleTicks \in Nat \ {0} /\ MaxDeaths \in Nat
  /\ LeasesHold \in BOOLEAN /\ RunsShort \in BOOLEAN

VARIABLES
  job,      \* the rows of the queue
  busy,     \* ticks until running_since of the settings row counts as dead; 0 also when it is empty
  run,      \* what each run is doing
  entry,    \* its entry of the send log
  taken,    \* how many of its messages SMTP has taken
  deaths

vars == <<job, busy, run, entry, taken, deaths>>

JobStatuses == {"absent", "queued", "running", "done", "error", "cancelled"}
Row == [status: JobStatuses, cancel: BOOLEAN, attempt: 0..MaxAttempts]

\* status, error and result are the local variables of run_mail_job: what
\* _finish_run stores, whether it says "Cancelled before the mail was sent.",
\* and what the task function ends with.
Pcs == {"none", "claim", "build", "built", "send", "sent", "finish", "verdict", "over"}
Run == [pc: Pcs, status: {"failed", "held", "sent"}, cancelled: BOOLEAN, sent: Nat,
        result: {"done", "error", "cancelled"}]

NewRun == [pc |-> "none", status |-> "failed", cancelled |-> FALSE, sent |-> 0, result |-> "error"]

\* The local variables are gone.
Ended == [NewRun EXCEPT !.pc = "over"]
Ends(result) == [NewRun EXCEPT !.pc = "verdict", !.result = result]

LogStatuses == {"none", "running", "skipped", "failed", "held", "sent"}
Entry == [status: LogStatuses, cancelled: BOOLEAN, messages: Nat]

Init ==
  /\ job = [j \in Jobs |-> [status |-> "absent", cancel |-> FALSE, attempt |-> 0]]
  /\ busy = 0
  /\ run = [r \in Runs |-> NewRun]
  /\ entry = [r \in Runs |-> [status |-> "none", cancelled |-> FALSE, messages |-> 0]]
  /\ taken = [r \in Runs |-> 0]
  /\ deaths = 0

At(r, pc) == run[r].pc = pc

Executing(r) == run[r].pc \notin {"none", "over"}

\* Between the commit of _claim_run and that of _finish_run.
ActivePcs == {"build", "built", "send", "sent", "finish"}
Active(r) == run[r].pc \in ActivePcs

\* The row is still this execution's.
Current(r) == job[r[1]].status = "running" /\ job[r[1]].attempt = r[2]

\* progress_cb raises JobCancelled.
Stops(r) == ~Current(r) \/ job[r[1]].cancel

-----------------------------------------------------------------------------
(* The queue. *)

Submit(j) ==
  /\ job[j].status = "absent"
  /\ job' = [job EXCEPT ![j].status = "queued"]
  /\ UNCHANGED <<busy, run, entry, taken, deaths>>

CancelJob(j) ==
  /\ j \in Manual /\ job[j].status \in {"queued", "running"}
  /\ job' = [job EXCEPT ![j].cancel = TRUE,
                        ![j].status = IF @ = "queued" THEN "cancelled" ELSE @]
  /\ UNCHANGED <<busy, run, entry, taken, deaths>>

Start(j) ==
  /\ job[j].status = "queued"
  /\ job' = [job EXCEPT ![j].status = "running", ![j].attempt = @ + 1]
  /\ run' = [run EXCEPT ![<<j, job[j].attempt + 1>>].pc = "claim"]
  /\ UNCHANGED <<busy, entry, taken, deaths>>

\* The lease has run out: after a stop request there are no more heartbeats.
Recover(j) ==
  /\ job[j].status = "running"
  /\ LeasesHold => job[j].cancel \/ ~Executing(<<j, job[j].attempt>>)
  /\ job' = [job EXCEPT ![j].status =
       IF job[j].cancel THEN "cancelled" ELSE IF job[j].attempt >= MaxAttempts THEN "error" ELSE "queued"]
  /\ UNCHANGED <<busy, run, entry, taken, deaths>>

\* _finish_job.
Verdict(r) ==
  /\ At(r, "verdict")
  /\ job' = IF ~Current(r) THEN job
            ELSE [job EXCEPT ![r[1]].status =
                    IF job[r[1]].cancel /\ run[r].result = "done" THEN "cancelled" ELSE run[r].result]
  /\ run' = [run EXCEPT ![r] = Ended]
  /\ UNCHANGED <<busy, entry, taken, deaths>>

\* The worker dies, or the transaction of its verdict fails.
Die(r) ==
  /\ Executing(r) /\ deaths < MaxDeaths
  /\ run' = [run EXCEPT ![r] = Ended]
  /\ deaths' = deaths + 1
  /\ UNCHANGED <<job, busy, entry, taken>>

\* Mutant of Tick: a run counts as in progress however old it is.
Tick_NeverStale == FALSE

Tick ==
  /\ busy > 0
  /\ RunsShort => busy > 1 \/ \A r \in Runs : ~Active(r)
  /\ busy' = busy - 1
  /\ UNCHANGED <<job, run, entry, taken, deaths>>

-----------------------------------------------------------------------------
(* run_mail_job. *)

Goes(r, pc) == run' = [run EXCEPT ![r].pc = pc]

\* Mutant of ClaimRun: running_since is not looked at.
ClaimRun_Unchecked(r) ==
  /\ At(r, "claim")
  /\ busy' = StaleTicks /\ Goes(r, "build") /\ entry' = [entry EXCEPT ![r].status = "running"]
  /\ UNCHANGED <<job, taken, deaths>>

\* _claim_run, under FOR UPDATE.
ClaimRun(r) ==
  /\ At(r, "claim")
  /\ IF busy > 0
     THEN Goes(r, "verdict") /\ entry' = [entry EXCEPT ![r].status = "skipped"] /\ UNCHANGED busy
     ELSE Goes(r, "build") /\ entry' = [entry EXCEPT ![r].status = "running"] /\ busy' = StaleTicks
  /\ UNCHANGED <<job, taken, deaths>>

\* _claim_run raises before its commit.
ClaimRunRaises(r) ==
  /\ At(r, "claim")
  /\ Goes(r, "verdict")
  /\ UNCHANGED <<job, busy, entry, taken, deaths>>

\* The except clauses: JobCancelled, and any other exception.
Cancelled(r) ==
  run' = [run EXCEPT ![r].pc = "finish", ![r].cancelled = TRUE, ![r].result = "cancelled"]

Raised(r) == run' = [run EXCEPT ![r].pc = "finish", ![r].result = "error"]

\* build returns a report, or holds the mail, or raises.
Build(r) ==
  /\ At(r, "build")
  /\ \/ Goes(r, "built")
     \/ run' = [run EXCEPT ![r].pc = "finish", ![r].status = "held", ![r].result = "done"]
     \/ Raised(r)
     \/ Stops(r) /\ Cancelled(r)
  /\ UNCHANGED <<job, busy, entry, taken, deaths>>

\* Mutant of StartSending: the status is set before the mail goes out.
StartSending_AssumesSent(r) ==
  /\ At(r, "built")
  /\ IF Stops(r) THEN Cancelled(r) ELSE run' = [run EXCEPT ![r].pc = "send", ![r].status = "sent"]
  /\ UNCHANGED <<job, busy, entry, taken, deaths>>

\* progress_cb(0.93, "Sending the mail...").
StartSending(r) ==
  /\ At(r, "built")
  /\ IF Stops(r) THEN Cancelled(r) ELSE Goes(r, "send")
  /\ UNCHANGED <<job, busy, entry, taken, deaths>>

\* _deliver returns and the message is listed.
Deliver(r) ==
  /\ At(r, "send")
  /\ taken' = [taken EXCEPT ![r] = @ + 1]
  /\ run' = [run EXCEPT ![r].sent = @ + 1,
                        ![r].pc = IF run[r].sent + 1 = Messages[r[1]] THEN "sent" ELSE "send"]
  /\ UNCHANGED <<job, busy, entry, deaths>>

\* _deliver raises, maybe only after the server has taken the message.
DeliverRaises(r) ==
  /\ At(r, "send")
  /\ taken' = [taken EXCEPT ![r] = @ + 1] \/ UNCHANGED taken
  /\ Raised(r)
  /\ UNCHANGED <<job, busy, entry, deaths>>

\* The sender is looked up once more for the log, which may raise; then the
\* status is "sent", and progress_cb(1.0, "Mail sent") may still raise.
ReportSent(r) ==
  /\ At(r, "sent")
  /\ \/ Raised(r)
     \/ run' = [run EXCEPT ![r].pc = "finish", ![r].status = "sent",
                           ![r].cancelled = Stops(r),
                           ![r].result = IF Stops(r) THEN "cancelled" ELSE "done"]
  /\ UNCHANGED <<job, busy, entry, taken, deaths>>

\* _finish_run: running_since is cleared, whoever set it.
FinishRun(r) ==
  /\ At(r, "finish")
  /\ busy' = 0
  /\ run' = [run EXCEPT ![r] = Ends(run[r].result)]
  /\ entry' = [entry EXCEPT ![r] = [status |-> run[r].status, cancelled |-> run[r].cancelled,
                                    messages |-> run[r].sent]]
  /\ UNCHANGED <<job, taken, deaths>>

\* _finish_run raises: the task function ends with that exception instead.
FinishRunRaises(r) ==
  /\ At(r, "finish")
  /\ run' = [run EXCEPT ![r] = Ends("error")]
  /\ UNCHANGED <<job, busy, entry, taken, deaths>>

Next ==
  \/ \E j \in Jobs : Submit(j) \/ CancelJob(j) \/ Start(j) \/ Recover(j)
  \/ \E r \in Runs :
       \/ ClaimRun(r) \/ ClaimRunRaises(r) \/ Build(r) \/ StartSending(r) \/ Deliver(r)
       \/ DeliverRaises(r) \/ ReportSent(r) \/ FinishRun(r) \/ FinishRunRaises(r)
       \/ Verdict(r) \/ Die(r)
  \/ Tick

Spec == Init /\ [][Next]_vars

\* Time passes; nothing else has to happen.
FairSpec == Spec /\ WF_vars(Tick)

-----------------------------------------------------------------------------
(* Properties. *)

\* Two runs of the mail of one application never overlap, whatever job or
\* attempt they belong to, as long as a run ends before it counts as dead.
OneRunAtATime == \A r, q \in Runs : Active(r) /\ Active(q) => r = q

\* What an entry says of the messages that left, all of the report's or not.
Tells(e, left, all) ==
  /\ e.status = "sent" => left = all /\ e.messages = left
  /\ e.status = "failed" => left \in {e.messages, e.messages + 1}
  /\ e.status \in {"none", "skipped", "held"} => left = 0

\* The send log is right about what left: "sent" means every message, each
\* delivery that returned is listed, at most the one that raised is not, and
\* nothing left under an entry that says skipped or held.
LogTellsWhatLeft == \A r \in Runs : Tells(entry[r], taken[r], Messages[r[1]])

(* The inductive invariant: the queue starts each attempt once; a run that   *)
(* is active keeps the mail busy; its local variables agree with what SMTP   *)
(* has taken; and an entry is only written over by its own run.              *)

TypeOK ==
  /\ job \in [Jobs -> Row]
  /\ busy \in 0..StaleTicks
  /\ run \in [Runs -> Run]
  /\ entry \in [Runs -> Entry]
  /\ taken \in [Runs -> Nat]
  /\ deaths \in Nat

AttemptsStartOnce ==
  \A j \in Jobs :
    /\ job[j].status \in {"absent", "queued"} => job[j].attempt < MaxAttempts
    /\ \A a \in 1..MaxAttempts : a > job[j].attempt => run[<<j, a>>].pc = "none"

Overlap == RunsShort => OneRunAtATime /\ \A r \in Runs : Active(r) => busy > 0

Agrees(x, left, all) ==
  /\ x.pc \in {"none", "claim", "build", "built"} => left = 0 /\ x.sent = 0
  /\ x.pc = "send" => left = x.sent /\ x.sent < all
  /\ x.pc = "sent" => left = x.sent /\ x.sent = all
  /\ x.pc \notin {"finish", "verdict", "over"} => x.status = "failed"
  /\ x.pc = "finish" =>
       /\ x.status = "sent" => left = x.sent /\ x.sent = all
       /\ x.status = "held" => left = 0
       /\ x.status = "failed" => left \in {x.sent, x.sent + 1}

LocalsAgree == \A r \in Runs : Agrees(run[r], taken[r], Messages[r[1]])

Owns(x, e) ==
  /\ x.pc \in {"none", "claim"} => e.status = "none"
  /\ x.pc \in ActivePcs => e.status = "running"

OwnEntry == \A r \in Runs : Owns(run[r], entry[r])

Inductive ==
  TypeOK /\ AttemptsStartOnce /\ Overlap /\ LocalsAgree /\ OwnEntry /\ LogTellsWhatLeft

\* A run that will never finish does not keep others out for ever.
DeadRunLetsGo == busy > 0 ~> busy = 0 \/ \E r \in Runs : Active(r)

=============================================================================
