------------------------------- MODULE JobQueue -------------------------------
(***************************************************************************)
(* The durable job queue of backend/app/jobs.py with the worker loop of    *)
(* worker.py: rows of background_jobs and background_resource_slots, the   *)
(* requests of the browser tab that own a job, and worker processes that   *)
(* claim, execute, heartbeat and finish jobs and may die at any moment.    *)
(*                                                                         *)
(* Time.  A deadline column is modelled by the number of ticks left until  *)
(* "deadline < now" holds; Tick lets all of them run down together.        *)
(*                                                                         *)
(* Transactions.  A SELECT ... FOR UPDATE and the writes of its session    *)
(* are one action.  _heartbeat and _job_should_continue read the row       *)
(* WITHOUT a lock and write by primary key later, so each of them is a     *)
(* read, which leaves a record in "inflight", and a commit.                *)
(*                                                                         *)
(* prune_expired_jobs hides settled rows an hour later; no operation of    *)
(* this module looks at a settled row, so JobAction models it.             *)
(***************************************************************************)
EXTENDS Naturals, FiniteSets

CONSTANTS
  Jobs,         \* rows of background_jobs, numbered in order of created_at
  Workers,      \* identities of worker processes, each used once (worker.py:27)
  Slots,        \* rows of background_resource_slots, by slot_number
  Tasks,        \* classes of registered tasks
  NoRerun,      \* _NO_RERUN_AFTER_CRASH
  Detached,     \* _DETACHED_TASKS
  SlotTasks,    \* keys of _RESOURCE_BY_TASK
  NoJob, NoWorker, NoTask,
  MaxAttempts,  \* JOB_MAX_ATTEMPTS
  LeaseTicks,   \* JOB_LEASE_SECONDS
  ClientTicks,  \* JOB_CLIENT_HEARTBEAT_TIMEOUT_SECONDS
  BackoffTicks, \* the not_before delays (2 s and 5 s)
  MemoryTicks,  \* JOB_MEMORY_WAIT_MAX_SECONDS; 0: memory is never short
  PoolSize,     \* JOB_WORKER_PROCESSES: how many workers are alive at once
  MaxCrashes,   \* bound: how many workers die
  MaxInflight,  \* bound: how many unlocked reads await their commit
  MaxLocked,    \* bound: rows one claim skips because they are locked
  Timely        \* TRUE: no step but a task body takes as long as a tick

ASSUME QueueConstants ==
  /\ Jobs \subseteq Nat /\ Slots \subseteq Nat
  /\ NoJob \notin Jobs /\ NoWorker \notin Workers /\ NoTask \notin Tasks
  /\ NoRerun \subseteq Tasks /\ Detached \subseteq Tasks /\ SlotTasks \subseteq Tasks
  /\ MaxAttempts \in Nat \ {0} /\ LeaseTicks \in Nat \ {0, 1}
  /\ ClientTicks \in Nat \ {0} /\ BackoffTicks \in Nat \ {0}
  /\ MemoryTicks \in Nat /\ PoolSize \in Nat \ {0}
  /\ MaxCrashes \in Nat /\ MaxInflight \in Nat /\ MaxLocked \in Nat
  /\ Timely \in BOOLEAN

VARIABLES
  job,       \* the rows of background_jobs
  slot,      \* the rows of background_resource_slots
  wrk,       \* the worker processes
  inflight,  \* unlocked reads of heartbeat and monitor threads, not committed
  watched    \* is the panel that submitted the job still open in its tab?

vars == <<job, slot, wrk, inflight, watched>>

-----------------------------------------------------------------------------
(* Rows. *)

Verdicts == {"done", "error", "cancelled"}
Statuses == {"none", "queued", "running"} \cup Verdicts

Row == [status: Statuses, task: Tasks \cup {NoTask}, cod: BOOLEAN,
        cancel: BOOLEAN, attempts: 0..MaxAttempts, notBefore: Nat, memory: Nat,
        client: Nat, owner: Workers \cup {NoWorker}, lease: Nat]

SlotRow == [job: Jobs \cup {NoJob}, owner: Workers \cup {NoWorker}, lease: Nat]

NoRow == [status |-> "none", task |-> NoTask, cod |-> FALSE, cancel |-> FALSE,
          attempts |-> 0, notBefore |-> 0, memory |-> 0, client |-> 0,
          owner |-> NoWorker, lease |-> 0]

FreeSlot == [job |-> NoJob, owner |-> NoWorker, lease |-> 0]

Live(r) == r.status \in {"queued", "running"}

\* Mutant of SubmittedRow: every job of a tab follows its tab.
SubmittedRow_AllFollowTab(t, fromTab) ==
  [NoRow EXCEPT !.status = "queued", !.task = t, !.cod = fromTab,
                !.memory = MemoryTicks, !.client = IF fromTab THEN ClientTicks ELSE 0]

\* cancel_on_disconnect: not for a detached task, and only with a tab id.
SubmittedRow(t, fromTab) ==
  LET cod == t \notin Detached /\ fromTab IN
  [NoRow EXCEPT !.status = "queued", !.task = t, !.cod = cod,
                !.memory = MemoryTicks, !.client = IF cod THEN ClientTicks ELSE 0]

ClientGone(r) == r.cod /\ r.client = 0

\* A verdict frees the lease.  No code reads the deadlines of a settled row
\* again, so they are put to zero.
Settled(r, verdict) ==
  [r EXCEPT !.status = verdict, !.owner = NoWorker, !.lease = 0, !.notBefore = 0,
            !.memory = 0, !.client = 0]

\* A queued job is cancelled on the spot, a running one is asked to stop.
StoppedRow(r) ==
  IF r.status = "queued"
  THEN [Settled(r, "cancelled") EXCEPT !.cancel = TRUE]
  ELSE [r EXCEPT !.cancel = TRUE]

\* Mutants of RecoveredRow: mail batches are re-queued too; one attempt more
\* than claim allows.
RecoveredRow_RerunsMail(r) ==
  IF r.cancel THEN Settled(r, "cancelled")
  ELSE IF r.attempts >= MaxAttempts THEN Settled(r, "error")
  ELSE [r EXCEPT !.status = "queued", !.owner = NoWorker, !.lease = 0,
                 !.notBefore = BackoffTicks]

RecoveredRow_OffByOne(r) ==
  IF r.cancel THEN Settled(r, "cancelled")
  ELSE IF r.task \in NoRerun \/ r.attempts > MaxAttempts THEN Settled(r, "error")
  ELSE [r EXCEPT !.status = "queued", !.owner = NoWorker, !.lease = 0,
                 !.notBefore = BackoffTicks]

RecoveredRow(r) ==
  IF r.cancel THEN Settled(r, "cancelled")
  ELSE IF r.task \in NoRerun \/ r.attempts >= MaxAttempts THEN Settled(r, "error")
  ELSE [r EXCEPT !.status = "queued", !.owner = NoWorker, !.lease = 0,
                 !.notBefore = BackoffTicks]

StartedRow(r, w) ==
  [r EXCEPT !.status = "running", !.owner = w, !.lease = LeaseTicks,
            !.notBefore = 0, !.attempts = @ + 1]

\* Mutant of FinishedRow: a stop request that races the result is not looked at.
FinishedRow_IgnoresStop(r, outcome) == Settled(r, outcome)

FinishedRow(r, outcome) ==
  IF r.cancel /\ outcome = "done" THEN Settled(r, "cancelled") ELSE Settled(r, outcome)

-----------------------------------------------------------------------------
(* Worker processes. *)

Pcs == {"off", "idle", "claimed", "body", "finish", "dead"}
Outcomes == Verdicts \cup {"none"}

\* stopEv: cancel_event; beating: the heartbeat thread still loops.
Worker == [pc: Pcs, job: Jobs \cup {NoJob}, attempt: 0..MaxAttempts,
           outcome: Outcomes, stopEv: BOOLEAN, beating: BOOLEAN]

AtRest(pc) == [pc |-> pc, job |-> NoJob, attempt |-> 0, outcome |-> "none",
               stopEv |-> FALSE, beating |-> FALSE]

Executing(w) == wrk[w].pc \in {"body", "finish"}

\* The row the worker's queries "status running AND lease_owner = me" find.
Mine(w) ==
  LET r == job[wrk[w].job] IN r.status = "running" /\ r.owner = w

Pending == [worker: Workers, job: Jobs, kind: {"heartbeat", "monitor"},
            gone: BOOLEAN, stop: BOOLEAN, lease: Nat, live: BOOLEAN]

Reading(w, kind) == \E p \in inflight : p.worker = w /\ p.kind = kind /\ p.live

\* Mutant of Orphaned: one cancel_event for all executions of a worker.
Orphaned_SharedEvent(w) == inflight

\* Threads outlive the execution they belong to when join(timeout=2) gives up.
Orphaned(w) == {IF p.worker = w THEN [p EXCEPT !.live = FALSE] ELSE p : p \in inflight}

Init ==
  /\ job = [j \in Jobs |-> NoRow]
  /\ slot = [s \in Slots |-> FreeSlot]
  /\ wrk = [w \in Workers |-> AtRest("off")]
  /\ inflight = {}
  /\ watched = [j \in Jobs |-> FALSE]

-----------------------------------------------------------------------------
(* Requests of the API processes. *)

Submit(j) ==
  /\ job[j].status = "none"
  /\ \A i \in Jobs : i < j => job[i].status # "none"
  /\ \E t \in Tasks, fromTab \in BOOLEAN :
       /\ job' = [job EXCEPT ![j] = SubmittedRow(t, fromTab)]
       /\ watched' = [watched EXCEPT ![j] = fromTab]
  /\ UNCHANGED <<slot, wrk, inflight>>

\* get_job reads without a lock too, but it writes one column only, and that
\* column is not read once the job is settled or asked to stop: a late commit
\* has the effect of a late poll.
Poll(j) ==
  /\ watched[j] /\ Live(job[j]) /\ job[j].cod /\ ~job[j].cancel
  /\ job' = [job EXCEPT ![j].client = ClientTicks]
  /\ UNCHANGED <<slot, wrk, inflight, watched>>

CancelJob(j) ==
  /\ Live(job[j])
  /\ job' = [job EXCEPT ![j] = StoppedRow(@)]
  /\ UNCHANGED <<slot, wrk, inflight, watched>>

\* The tab closes or leaves the workflow; its keepalive abandon request may
\* arrive, now or later, or be lost.
TabCloses(j) ==
  /\ watched[j]
  /\ watched' = [watched EXCEPT ![j] = FALSE]
  /\ UNCHANGED <<job, slot, wrk, inflight>>

AbandonJob(j) ==
  /\ ~watched[j] /\ Live(job[j]) /\ job[j].cod
  /\ job' = [job EXCEPT ![j] = StoppedRow(@)]
  /\ UNCHANGED <<slot, wrk, inflight, watched>>

-----------------------------------------------------------------------------
(* The claim transaction. *)

\* FOR UPDATE SKIP LOCKED: each of the four scans of one claim passes over the
\* rows other transactions hold at that moment.
Skips ==
  {s \in [expire: SUBSET Jobs, recover: SUBSET Jobs, pick: SUBSET Jobs, slot: SUBSET Slots] :
     Cardinality(s.expire) + Cardinality(s.recover) + Cardinality(s.pick)
       + Cardinality(s.slot) <= MaxLocked}

Expires(skip) ==
  {j \in Jobs \ skip.expire :
     job[j].status = "queued" /\ ~job[j].cancel /\ ClientGone(job[j])}

\* Mutant of Recovers: the lease deadline is not compared.
Recovers_AnyRunning(skip) == {j \in Jobs \ skip.recover : job[j].status = "running"}

Recovers(skip) ==
  {j \in Jobs \ skip.recover : job[j].status = "running" /\ job[j].lease = 0}

\* The rows and slots after _cancel_expired_queued_jobs and _recover_stale_jobs.
SweptRows(skip) ==
  [j \in Jobs |-> IF j \in Expires(skip) THEN StoppedRow(job[j])
                  ELSE IF j \in Recovers(skip) THEN RecoveredRow(job[j])
                  ELSE job[j]]

SweptSlots(skip) ==
  [s \in Slots |-> IF slot[s].job \in Recovers(skip) THEN FreeSlot ELSE slot[s]]

Claimable(rows, skip) ==
  {j \in Jobs \ skip.pick :
     /\ rows[j].status = "queued" /\ ~rows[j].cancel
     /\ rows[j].attempts < MaxAttempts /\ rows[j].notBefore = 0}

Oldest(S) == {j \in S : \A i \in S : j <= i}

Takeable(slots, skip) ==
  {s \in Slots \ skip.slot : slots[s].job = NoJob \/ slots[s].lease = 0}

ClaimFindsNothing(w, skip) ==
  /\ wrk[w].pc = "idle"
  /\ Claimable(SweptRows(skip), skip) = {}
  /\ job' = SweptRows(skip)
  /\ slot' = SweptSlots(skip)
  /\ UNCHANGED <<wrk, inflight, watched>>

\* The first claimable job must wait, for memory or for a slot: it is put back.
ClaimDefers(w, skip) ==
  /\ wrk[w].pc = "idle"
  /\ \E j \in Oldest(Claimable(SweptRows(skip), skip)) :
       /\ \/ SweptRows(skip)[j].memory > 0
          \/ SweptRows(skip)[j].task \in SlotTasks /\ Takeable(SweptSlots(skip), skip) = {}
       /\ job' = [SweptRows(skip) EXCEPT ![j].notBefore = BackoffTicks]
  /\ slot' = SweptSlots(skip)
  /\ UNCHANGED <<wrk, inflight, watched>>

Claims(w, j, skip) ==
  /\ job' = [SweptRows(skip) EXCEPT ![j] = StartedRow(@, w)]
  /\ wrk' = [wrk EXCEPT ![w].pc = "claimed", ![w].job = j,
                        ![w].attempt = job[j].attempts + 1]
  /\ UNCHANGED <<inflight, watched>>

ClaimStarts(w, skip) ==
  /\ wrk[w].pc = "idle"
  /\ \E j \in Oldest(Claimable(SweptRows(skip), skip)) :
       /\ Claims(w, j, skip)
       /\ \/ /\ SweptRows(skip)[j].task \notin SlotTasks
             /\ slot' = SweptSlots(skip)
          \/ /\ SweptRows(skip)[j].task \in SlotTasks
             /\ \E s \in Oldest(Takeable(SweptSlots(skip), skip)) :
                  slot' = [SweptSlots(skip) EXCEPT
                             ![s] = [job |-> j, owner |-> w, lease |-> LeaseTicks]]

Claim(w) ==
  \E skip \in Skips :
    ClaimFindsNothing(w, skip) \/ ClaimDefers(w, skip) \/ ClaimStarts(w, skip)

-----------------------------------------------------------------------------
(* execute_job: load the row, start the threads, run the task, write the     *)
(* verdict.                                                                  *)

LoadJob(w) ==
  /\ wrk[w].pc = "claimed"
  /\ wrk' = [wrk EXCEPT ![w] =
       IF Mine(w) THEN [@ EXCEPT !.pc = "body", !.beating = TRUE] ELSE AtRest("idle")]
  /\ UNCHANGED <<job, slot, inflight, watched>>

\* The load raises, or the worker never learns that its claim was committed.
LoadFails(w) ==
  /\ wrk[w].pc = "claimed"
  /\ wrk' = [wrk EXCEPT ![w] = AtRest("idle")]
  /\ UNCHANGED <<job, slot, inflight, watched>>

EndsWith(w, outcome) ==
  /\ wrk' = [wrk EXCEPT ![w].pc = "finish", ![w].outcome = outcome]
  /\ UNCHANGED <<job, slot, inflight, watched>>

\* The task returns; execute_job looks at cancel_event before it reports done.
BodyReturns(w) ==
  /\ wrk[w].pc = "body"
  /\ EndsWith(w, IF wrk[w].stopEv THEN "cancelled" ELSE "done")

BodyRaises(w) ==
  /\ wrk[w].pc = "body"
  /\ EndsWith(w, "error")

\* JobCancelled: _update_progress sees the request or a lost lease, or
\* run_cpu_phase (and a task that takes cancel_event) sees the event.
BodyStops(w) ==
  /\ wrk[w].pc = "body"
  /\ wrk[w].stopEv \/ ~Mine(w) \/ job[wrk[w].job].cancel
  /\ EndsWith(w, "cancelled")

\* Mutant of Finish: no lease_owner filter.
Finish_Unfenced(w) ==
  /\ wrk[w].pc = "finish"
  /\ LET j == wrk[w].job IN
     /\ job' = [job EXCEPT ![j] = FinishedRow(@, wrk[w].outcome)]
     /\ slot' = [s \in Slots |-> IF slot[s].job = j THEN FreeSlot ELSE slot[s]]
  /\ wrk' = [wrk EXCEPT ![w] = AtRest("idle")]
  /\ inflight' = Orphaned(w)
  /\ UNCHANGED watched

\* _finish_job filters on lease_owner only; a worker that lost the lease
\* writes nothing.
Finish(w) ==
  /\ wrk[w].pc = "finish"
  /\ LET j == wrk[w].job IN
     IF job[j].owner = w
     THEN /\ job' = [job EXCEPT ![j] = FinishedRow(@, wrk[w].outcome)]
          /\ slot' = [s \in Slots |-> IF slot[s].job = j THEN FreeSlot ELSE slot[s]]
     ELSE UNCHANGED <<job, slot>>
  /\ wrk' = [wrk EXCEPT ![w] = AtRest("idle")]
  /\ inflight' = Orphaned(w)
  /\ UNCHANGED watched

\* The transaction fails.  A failed "done" is caught and reported as an error;
\* any other failure leaves execute_job and the row stays as it is.
FinishFails(w) ==
  /\ wrk[w].pc = "finish"
  /\ IF wrk[w].outcome = "done"
     THEN /\ wrk' = [wrk EXCEPT ![w].outcome = "error"]
          /\ UNCHANGED inflight
     ELSE /\ wrk' = [wrk EXCEPT ![w] = AtRest("idle")]
          /\ inflight' = Orphaned(w)
  /\ UNCHANGED <<job, slot, watched>>

-----------------------------------------------------------------------------
(* The heartbeat and the client monitor thread of an execution. *)

Reads(w, kind, gone) ==
  inflight' = inflight \cup
    {[worker |-> w, job |-> wrk[w].job, kind |-> kind, gone |-> gone,
      stop |-> gone \/ job[wrk[w].job].cancel,
      lease |-> IF kind = "heartbeat" THEN LeaseTicks ELSE 0, live |-> TRUE]}

HeartbeatRead(w) ==
  /\ Executing(w) /\ wrk[w].beating /\ ~Reading(w, "heartbeat")
  /\ \/ /\ ~Mine(w)
        /\ wrk' = [wrk EXCEPT ![w].stopEv = TRUE, ![w].beating = FALSE]
        /\ UNCHANGED inflight
     \/ /\ Mine(w) /\ Cardinality(inflight) < MaxInflight
        /\ Reads(w, "heartbeat", ClientGone(job[wrk[w].job]))
        /\ UNCHANGED wrk
  /\ UNCHANGED <<job, slot, watched>>

\* The monitor writes only when the client's lease ran out.  Once cancel_event
\* is set its next read would end it without another effect.
MonitorRead(w) ==
  /\ Executing(w) /\ ~wrk[w].stopEv /\ ~Reading(w, "monitor")
  /\ \/ /\ Mine(w) /\ ClientGone(job[wrk[w].job]) /\ Cardinality(inflight) < MaxInflight
        /\ Reads(w, "monitor", TRUE)
        /\ UNCHANGED wrk
     \/ /\ ~Mine(w) \/ (~ClientGone(job[wrk[w].job]) /\ job[wrk[w].job].cancel)
        /\ wrk' = [wrk EXCEPT ![w].stopEv = TRUE]
        /\ UNCHANGED inflight
  /\ UNCHANGED <<job, slot, watched>>

\* UPDATE ... WHERE id: no condition on the lease any more.  A lease written to
\* a row that is not running is overwritten by the next claim before it is read.
CommittedRow(r, p) ==
  [r EXCEPT !.cancel = @ \/ p.gone,
            !.lease = IF p.kind = "heartbeat" /\ r.status = "running" THEN p.lease ELSE @]

\* Mutant of CommittedSlots: the heartbeat renews the lease on the job only.
CommittedSlots_NotRenewed(p) == [s \in Slots |-> slot[s]]

CommittedSlots(p) ==
  [s \in Slots |->
     IF p.kind = "heartbeat" /\ slot[s].job = p.job /\ slot[s].owner = p.worker
     THEN [slot[s] EXCEPT !.lease = p.lease] ELSE slot[s]]

\* Mutant of Commit: the heartbeat thread goes on after a stop request.
Commit_KeepsBeating(p) ==
  /\ p \in inflight
  /\ inflight' = inflight \ {p}
  /\ job' = [job EXCEPT ![p.job] = CommittedRow(@, p)]
  /\ slot' = CommittedSlots(p)
  /\ wrk' = IF p.live /\ p.stop THEN [wrk EXCEPT ![p.worker].stopEv = TRUE] ELSE wrk
  /\ UNCHANGED watched

Commit(p) ==
  /\ p \in inflight
  /\ inflight' = inflight \ {p}
  /\ job' = [job EXCEPT ![p.job] = CommittedRow(@, p)]
  /\ slot' = CommittedSlots(p)
  /\ wrk' = IF p.live /\ p.stop
            THEN [wrk EXCEPT ![p.worker].stopEv = TRUE,
                             ![p.worker].beating = @ /\ p.kind # "heartbeat"]
            ELSE wrk
  /\ UNCHANGED watched

-----------------------------------------------------------------------------
(* Processes and time. *)

Alive == {w \in Workers : wrk[w].pc \notin {"off", "dead"}}

\* The supervisor keeps PoolSize workers; a restarted process has a new identity.
Spawn(w) ==
  /\ wrk[w].pc = "off" /\ Cardinality(Alive) < PoolSize
  /\ wrk' = [wrk EXCEPT ![w] = AtRest("idle")]
  /\ UNCHANGED <<job, slot, inflight, watched>>

Crash(w) ==
  /\ w \in Alive
  /\ Cardinality({v \in Workers : wrk[v].pc = "dead"}) < MaxCrashes
  /\ wrk' = [wrk EXCEPT ![w] = AtRest("dead")]
  /\ inflight' = {p \in inflight : p.worker # w}
  /\ UNCHANGED <<job, slot, watched>>

Less(n) == IF n > 0 THEN n - 1 ELSE 0

Aged(r) == [r EXCEPT !.notBefore = Less(@), !.memory = Less(@), !.client = Less(@),
                     !.lease = Less(@)]

\* With Timely, threads renew in time (JOB_HEARTBEAT_SECONDS is an eighth of
\* JOB_LEASE_SECONDS) and transactions are short; only task bodies take long.
OnTime ==
  /\ inflight = {}
  /\ \A w \in Workers :
       /\ wrk[w].pc \notin {"claimed", "finish"}
       /\ wrk[w].beating /\ Mine(w) => job[wrk[w].job].lease > 1

Tick ==
  /\ Timely => OnTime
  /\ job' = [j \in Jobs |-> Aged(job[j])]
  /\ slot' = [s \in Slots |-> [slot[s] EXCEPT !.lease = Less(@)]]
  /\ inflight' = {[p EXCEPT !.lease = Less(@)] : p \in inflight}
  /\ UNCHANGED <<wrk, watched>>

Next ==
  \/ \E j \in Jobs : \/ Submit(j) \/ Poll(j) \/ CancelJob(j)
                     \/ TabCloses(j) \/ AbandonJob(j)
  \/ \E w \in Workers : \/ Claim(w) \/ LoadJob(w) \/ LoadFails(w)
                        \/ BodyReturns(w) \/ BodyRaises(w) \/ BodyStops(w)
                        \/ Finish(w) \/ FinishFails(w)
                        \/ HeartbeatRead(w) \/ MonitorRead(w)
                        \/ Spawn(w) \/ Crash(w)
  \/ \E p \in inflight : Commit(p)
  \/ Tick

Spec == Init /\ [][Next]_vars

-----------------------------------------------------------------------------
(* Fairness: the supervisor restarts workers, idle workers poll, the threads *)
(* and transactions of a live worker run.  A claim may meet locked rows, but *)
(* not for ever, because row locks last as long as a short transaction.      *)

ClaimUnlocked(w) ==
  LET skip == [expire |-> {}, recover |-> {}, pick |-> {}, slot |-> {}] IN
  ClaimFindsNothing(w, skip) \/ ClaimDefers(w, skip) \/ ClaimStarts(w, skip)

SystemFairness ==
  /\ WF_vars(Tick)
  /\ \A w \in Workers :
       /\ WF_vars(Spawn(w)) /\ SF_vars(ClaimUnlocked(w))
       /\ WF_vars(LoadJob(w) \/ LoadFails(w))
       /\ WF_vars(Finish(w) \/ FinishFails(w))
       /\ WF_vars(HeartbeatRead(w)) /\ WF_vars(MonitorRead(w))
       /\ WF_vars(\E p \in inflight : p.worker = w /\ Commit(p))

\* Task functions return or raise: they have timeouts of their own.
BodyFairness == \A w \in Workers : WF_vars(BodyReturns(w) \/ BodyRaises(w) \/ BodyStops(w))

FairSpec == Spec /\ SystemFairness /\ BodyFairness

\* A task body may hang for ever.
HungSpec == Spec /\ SystemFairness

-----------------------------------------------------------------------------
(* Properties. *)

\* The shape of every row and of every worker.  An idle worker carries nothing
\* over from the execution before: execute_job clears the event and the threads.
Tidy(k) ==
  IF k.pc \in {"off", "idle", "dead"} THEN k = AtRest(k.pc)
  ELSE k.job \in Jobs /\ (k.pc = "finish" => k.outcome \in Verdicts)

TypeOK ==
  /\ job \in [Jobs -> Row]
  /\ slot \in [Slots -> SlotRow]
  /\ wrk \in [Workers -> Worker]
  /\ inflight \subseteq Pending
  /\ watched \in [Jobs -> BOOLEAN]
  /\ \A w \in Workers : Tidy(wrk[w])

\* A resource slot is held for a running job and by the worker that holds the
\* job's lease, and no job holds two: what claim, recovery, finish and the late
\* writes of old heartbeats do to the two tables keeps them in step.
SlotsFollow(rows, slots) ==
  /\ \A s \in Slots : slots[s].job # NoJob =>
       /\ rows[slots[s].job].status = "running"
       /\ rows[slots[s].job].owner = slots[s].owner
  /\ \A s, t \in Slots : slots[s].job = slots[t].job /\ slots[s].job # NoJob => s = t

SlotsFollowLeases == SlotsFollow(job, slot)

\* A mail batch is started at most once, whatever dies or stalls, and never
\* goes back to the queue after a start (_NO_RERUN_AFTER_CRASH).
MailStartsOnce ==
  \A j \in Jobs : job[j].task \in NoRerun =>
    /\ job[j].attempts <= 1
    /\ job[j].status = "queued" => job[j].attempts = 0

\* A result is stored only by the worker that runs the current attempt: one
\* that lost its lease, even to a later attempt, cannot finish the job.
ResultOfCurrentAttempt ==
  [][\A j \in Jobs : job[j].status # "done" /\ job'[j].status = "done" =>
       \E w \in Workers :
         /\ wrk[w].pc = "finish" /\ wrk[w].job = j
         /\ wrk[w].attempt = job[j].attempts]_vars

\* Work that is detached from its tab is stopped by the explicit cancel request
\* only: no closed, hidden or crashed tab ends an accepted mail batch.
DetachedSurvivesTab ==
  [][\A j \in Jobs :
       job[j].task \in Detached /\ ~job[j].cancel /\ job'[j].cancel => CancelJob(j)]_vars

\* No two workers run the body of the same job.
SingleExecution ==
  \A v, w \in Workers :
    wrk[v].pc = "body" /\ wrk[w].pc = "body" /\ wrk[v].job = wrk[w].job => v = w

\* A worker inside a task body that nobody asked to stop still holds the lease,
\* and a slot when the task needs one.
RunnerIsLeased ==
  \A w \in Workers : wrk[w].pc = "body" /\ ~job[wrk[w].job].cancel =>
    /\ Mine(w)
    /\ job[wrk[w].job].task \in SlotTasks =>
         \E s \in Slots : slot[s].job = wrk[w].job /\ slot[s].owner = w

\* One body at a time runs for a job, and it runs under the job's lease.
OneLeasedRunner == SingleExecution /\ RunnerIsLeased

\* Every submitted job reaches a verdict, over crashes, lost transactions,
\* full slots and short memory.
EveryJobSettles ==
  \A j \in Jobs : Live(job[j]) ~> job[j].status \in Verdicts

\* A job that was asked to stop reaches a verdict even when its task never
\* returns: the heartbeat gives the lease up and another worker settles it.
StopTakesEffect ==
  \A j \in Jobs : Live(job[j]) /\ job[j].cancel ~> job[j].status \in Verdicts

\* Cancellable work of a tab that is gone ends.
GoneTabEnds ==
  \A j \in Jobs : Live(job[j]) /\ job[j].cod /\ ~watched[j] ~> job[j].status \in Verdicts

\* The inductive invariant behind the proofs.  A lease is held exactly while the
\* job runs; attempts are left while it is queued; a worker that still owns the
\* lease of its job runs the current attempt; and a thread that can still set
\* cancel_event belongs to an execution that has not returned.
RowOK(r) ==
  /\ r.status = "running" <=> r.owner \in Workers
  /\ r.status = "queued" => r.attempts < MaxAttempts
  /\ r.task \in NoRerun => r.attempts <= 1 /\ (r.status = "queued" => r.attempts = 0)

RowsOK == \A j \in Jobs : RowOK(job[j])

OwnersRunCurrentAttempt ==
  \A w \in Workers :
    wrk[w].job \in Jobs /\ job[wrk[w].job].owner = w =>
      wrk[w].attempt = job[wrk[w].job].attempts

LiveThreadsExecute == \A p \in inflight : p.live => Executing(p.worker)

Inductive ==
  /\ TypeOK /\ RowsOK /\ SlotsFollowLeases
  /\ OwnersRunCurrentAttempt /\ LiveThreadsExecute

\* With Timely the invariant says more.  A claimed job is its worker's, and so is
\* the job of a heartbeat that still runs; a body goes on without one only after
\* a stop request.  A slot is leased for as long as its job, and a heartbeat that
\* was read and not yet committed is of a job that its worker still holds, or of
\* one that has its verdict.
Held(j, w) == job[j].status = "running" /\ job[j].owner = w /\ job[j].lease > 0

HasSlot(j, w) == \E s \in Slots : slot[s].job = j /\ slot[s].owner = w

RunnersHoldLease ==
  \A w \in Workers : LET j == wrk[w].job IN
    /\ wrk[w].pc = "claimed" \/ (Executing(w) /\ wrk[w].beating) =>
         Held(j, w) /\ (job[j].task \in SlotTasks => HasSlot(j, w))
    /\ wrk[w].pc = "body" /\ ~wrk[w].beating => job[j].cancel
    /\ wrk[w].pc \in {"claimed", "body", "finish"} => job[j].status # "none"

SoleRunner ==
  \A v, w \in Workers :
    /\ wrk[v].pc \in {"claimed", "body"} /\ wrk[w].pc \in {"claimed", "body"}
    /\ wrk[v].job = wrk[w].job
    => v = w

SlotLeasesAgree ==
  \A s \in Slots : slot[s].job # NoJob => slot[s].lease = job[slot[s].job].lease

ReadsInTime ==
  \A p \in inflight :
    /\ p.stop => p.gone \/ job[p.job].cancel
    /\ p.live => wrk[p.worker].job = p.job
    /\ p.kind = "heartbeat" =>
         /\ p.lease = LeaseTicks
         /\ job[p.job].status \in Verdicts \/ Held(p.job, p.worker)

TimelyInductive == RunnersHoldLease /\ SoleRunner /\ SlotLeasesAgree /\ ReadsInTime

(* The queue implements the life cycle its clients see. *)
Lifecycle == INSTANCE JobLifecycle WITH
  status <- [j \in Jobs |-> job[j].status],
  tries <- [j \in Jobs |-> job[j].attempts],
  oneShot <- [j \in Jobs |-> job[j].task \in NoRerun],
  stop <- [j \in Jobs |-> job[j].cancel]

ImplementsLifecycle == Lifecycle!Spec

=============================================================================
