--------------------------- MODULE JobQueueProofs ---------------------------
(***************************************************************************)
(* Proofs about JobQueue for all values of its constants.                  *)
(***************************************************************************)
EXTENDS JobQueue, TLAPS

-----------------------------------------------------------------------------
(* What the row operators do to a row. *)

LEMMA NoRowOK == NoRow \in Row /\ RowOK(NoRow)
  BY QueueConstants DEF NoRow, Row, Statuses, Verdicts, RowOK

LEMMA SubmittedRowOK ==
  ASSUME NEW t \in Tasks, NEW fromTab \in BOOLEAN
  PROVE  SubmittedRow(t, fromTab) \in Row /\ RowOK(SubmittedRow(t, fromTab))
<1> DEFINE cod == t \notin Detached /\ fromTab
<1>1. cod \in BOOLEAN
  OBVIOUS
<1>2. (IF cod THEN ClientTicks ELSE 0) \in Nat
  BY QueueConstants
<1> HIDE DEF cod
<1>3. SubmittedRow(t, fromTab) =
        [status |-> "queued", task |-> t, cod |-> cod, cancel |-> FALSE, attempts |-> 0,
         notBefore |-> 0, memory |-> MemoryTicks, client |-> IF cod THEN ClientTicks ELSE 0,
         owner |-> NoWorker, lease |-> 0]
  <2>1. SubmittedRow(t, fromTab) =
          [NoRow EXCEPT !.status = "queued", !.task = t, !.cod = cod,
                        !.memory = MemoryTicks, !.client = IF cod THEN ClientTicks ELSE 0]
    BY DEF SubmittedRow, cod
  <2> DEFINE client == IF cod THEN ClientTicks ELSE 0
  <2> HIDE DEF client
  <2>2. SubmittedRow(t, fromTab) =
          [NoRow EXCEPT !.status = "queued", !.task = t, !.cod = cod,
                        !.memory = MemoryTicks, !.client = client]
    BY <2>1 DEF client
  <2>3. SubmittedRow(t, fromTab) =
          [status |-> "queued", task |-> t, cod |-> cod, cancel |-> FALSE, attempts |-> 0,
           notBefore |-> 0, memory |-> MemoryTicks, client |-> client,
           owner |-> NoWorker, lease |-> 0]
    BY <2>2 DEF NoRow
  <2> QED
    BY <2>3 DEF client
<1> QED
  BY <1>1, <1>2, <1>3, QueueConstants DEF Row, Statuses, RowOK

LEMMA SettledOK ==
  ASSUME NEW r \in Row, RowOK(r), NEW v \in Verdicts
  PROVE  /\ Settled(r, v) \in Row /\ RowOK(Settled(r, v))
         /\ Settled(r, v).attempts = r.attempts
         /\ Settled(r, v).status = v /\ Settled(r, v).owner = NoWorker
         /\ Settled(r, v).task = r.task
  BY QueueConstants DEF Settled, Row, Statuses, Verdicts, RowOK

LEMMA StoppedRowOK ==
  ASSUME NEW r \in Row, RowOK(r)
  PROVE  /\ StoppedRow(r) \in Row /\ RowOK(StoppedRow(r))
         /\ StoppedRow(r).attempts = r.attempts
         /\ StoppedRow(r).status # "done" \/ r.status = "done"
         /\ r.status = "running" =>
              StoppedRow(r).status = "running" /\ StoppedRow(r).owner = r.owner
         /\ StoppedRow(r).owner = r.owner \/ StoppedRow(r).owner = NoWorker
  BY QueueConstants DEF StoppedRow, Settled, Row, Statuses, Verdicts, RowOK

LEMMA RecoveredRowOK ==
  ASSUME NEW r \in Row, RowOK(r)
  PROVE  /\ RecoveredRow(r) \in Row /\ RowOK(RecoveredRow(r))
         /\ RecoveredRow(r).attempts = r.attempts
         /\ RecoveredRow(r).status # "done"
         /\ RecoveredRow(r).owner = NoWorker
<1>1. CASE r.cancel
  BY <1>1, SettledOK DEF RecoveredRow, Verdicts
<1>2. CASE ~r.cancel /\ (r.task \in NoRerun \/ r.attempts >= MaxAttempts)
  BY <1>2, SettledOK DEF RecoveredRow, Verdicts
<1>3. CASE ~r.cancel /\ ~(r.task \in NoRerun \/ r.attempts >= MaxAttempts)
  <2>1. RecoveredRow(r) =
          [status |-> "queued", task |-> r.task, cod |-> r.cod, cancel |-> r.cancel,
           attempts |-> r.attempts, notBefore |-> BackoffTicks, memory |-> r.memory,
           client |-> r.client, owner |-> NoWorker, lease |-> 0]
    BY <1>3 DEF RecoveredRow, Row
  <2>2. r.attempts < MaxAttempts
    BY <1>3, QueueConstants DEF Row
  <2> QED
    BY <1>3, <2>1, <2>2, QueueConstants DEF Row, Statuses, RowOK
<1> QED
  BY <1>1, <1>2, <1>3 DEF Row

LEMMA StartedRowOK ==
  ASSUME NEW r \in Row, RowOK(r), r.status = "queued", NEW w \in Workers
  PROVE  /\ StartedRow(r, w) \in Row /\ RowOK(StartedRow(r, w))
         /\ StartedRow(r, w).attempts = r.attempts + 1
         /\ StartedRow(r, w).status = "running" /\ StartedRow(r, w).owner = w
<1>1. r.attempts \in Nat /\ r.attempts + 1 \in 0..MaxAttempts
  BY QueueConstants DEF Row, RowOK
<1>2. StartedRow(r, w) =
        [status |-> "running", task |-> r.task, cod |-> r.cod, cancel |-> r.cancel,
         attempts |-> r.attempts + 1, notBefore |-> 0, memory |-> r.memory,
         client |-> r.client, owner |-> w, lease |-> LeaseTicks]
  <2> DEFINE n == r.attempts + 1
  <2>1. StartedRow(r, w) =
          [r EXCEPT !.status = "running", !.owner = w, !.lease = LeaseTicks,
                    !.notBefore = 0, !.attempts = n]
    BY DEF StartedRow, Row
  <2> HIDE DEF n
  <2>2. StartedRow(r, w) =
          [status |-> "running", task |-> r.task, cod |-> r.cod, cancel |-> r.cancel,
           attempts |-> n, notBefore |-> 0, memory |-> r.memory,
           client |-> r.client, owner |-> w, lease |-> LeaseTicks]
    BY <2>1 DEF Row
  <2> QED
    BY <2>2 DEF n
<1>3. StartedRow(r, w) \in Row
  BY <1>1, <1>2, QueueConstants DEF Row, Statuses
<1>4. /\ StartedRow(r, w).status = "running" /\ StartedRow(r, w).owner = w
      /\ StartedRow(r, w).attempts = r.attempts + 1 /\ StartedRow(r, w).task = r.task
  BY <1>2 DEF Row
<1>5. r.task \in NoRerun => r.attempts = 0
  BY DEF RowOK
<1> QED
  BY <1>1, <1>3, <1>4, <1>5 DEF RowOK

LEMMA FinishedRowOK ==
  ASSUME NEW r \in Row, RowOK(r), NEW v \in Verdicts
  PROVE  /\ FinishedRow(r, v) \in Row /\ RowOK(FinishedRow(r, v))
         /\ FinishedRow(r, v).attempts = r.attempts
         /\ FinishedRow(r, v).owner = NoWorker
  BY SettledOK, QueueConstants DEF FinishedRow, Verdicts

LEMMA LessOK == ASSUME NEW n \in Nat PROVE Less(n) \in Nat
  BY DEF Less

LEMMA AgedOK ==
  ASSUME NEW r \in Row, RowOK(r)
  PROVE  /\ Aged(r) \in Row /\ RowOK(Aged(r))
         /\ Aged(r).attempts = r.attempts /\ Aged(r).status = r.status
         /\ Aged(r).owner = r.owner
  BY LessOK DEF Aged, Row, RowOK

LEMMA CommittedRowOK ==
  ASSUME NEW r \in Row, RowOK(r), NEW p \in Pending
  PROVE  /\ CommittedRow(r, p) \in Row /\ RowOK(CommittedRow(r, p))
         /\ CommittedRow(r, p).attempts = r.attempts
         /\ CommittedRow(r, p).status = r.status /\ CommittedRow(r, p).owner = r.owner
  BY DEF CommittedRow, Row, RowOK, Pending

-----------------------------------------------------------------------------
(* The two sweeps at the head of the claim transaction. *)

LEMMA SweptRowsOK ==
  ASSUME TypeOK, RowsOK, NEW skip, NEW j \in Jobs
  PROVE  /\ SweptRows(skip)[j] \in Row /\ RowOK(SweptRows(skip)[j])
         /\ SweptRows(skip)[j].attempts = job[j].attempts
         /\ SweptRows(skip)[j].status = "done" => job[j].status = "done"
         /\ SweptRows(skip)[j].owner \in {job[j].owner, NoWorker}
         /\ job[j].status = "running" /\ j \notin Recovers(skip) =>
              SweptRows(skip)[j] = job[j]
<1>1. job[j] \in Row /\ RowOK(job[j])
  BY DEF TypeOK, RowsOK
<1>2. CASE j \in Expires(skip)
  <2>1. SweptRows(skip)[j] = StoppedRow(job[j]) /\ job[j].status # "running"
    BY <1>2 DEF SweptRows, Expires
  <2> QED
    BY <1>1, <2>1, StoppedRowOK
<1>3. CASE j \notin Expires(skip) /\ j \in Recovers(skip)
  <2>1. SweptRows(skip)[j] = RecoveredRow(job[j])
    BY <1>3 DEF SweptRows
  <2> QED
    BY <1>1, <1>3, <2>1, RecoveredRowOK
<1>4. CASE j \notin Expires(skip) /\ j \notin Recovers(skip)
  BY <1>1, <1>4 DEF SweptRows
<1> QED
  BY <1>2, <1>3, <1>4

LEMMA SweptSlotsOK ==
  ASSUME TypeOK, RowsOK, SlotsFollowLeases, NEW skip
  PROVE  /\ SweptSlots(skip) \in [Slots -> SlotRow]
         /\ SlotsFollow(SweptRows(skip), SweptSlots(skip))
<1>1. ASSUME NEW s \in Slots
      PROVE  /\ SweptSlots(skip)[s] \in SlotRow
             /\ SweptSlots(skip)[s].job # NoJob =>
                  SweptSlots(skip)[s] = slot[s] /\ slot[s].job \notin Recovers(skip)
  BY QueueConstants DEF SweptSlots, FreeSlot, SlotRow, TypeOK
<1>2. SweptSlots(skip) \in [Slots -> SlotRow]
  BY <1>1 DEF SweptSlots
<1>3. ASSUME NEW s \in Slots, SweptSlots(skip)[s].job # NoJob
      PROVE  /\ SweptRows(skip)[slot[s].job].status = "running"
             /\ SweptRows(skip)[slot[s].job].owner = slot[s].owner
  <2>1. slot[s].job \in Jobs
    BY <1>1, <1>3 DEF TypeOK, SlotRow
  <2> QED
    BY <1>1, <1>3, <2>1, SweptRowsOK DEF SlotsFollowLeases, SlotsFollow
<1> QED
  BY <1>1, <1>2, <1>3 DEF SlotsFollowLeases, SlotsFollow

LEMMA ClaimableOK ==
  ASSUME TypeOK, RowsOK, SlotsFollowLeases, NEW skip,
         NEW j \in Oldest(Claimable(SweptRows(skip), skip))
  PROVE  /\ j \in Jobs /\ SweptRows(skip)[j].status = "queued"
         /\ \A s \in Slots : SweptSlots(skip)[s].job # j
<1>1. j \in Jobs /\ SweptRows(skip)[j].status = "queued"
  BY DEF Oldest, Claimable
<1> QED
  BY <1>1, SweptSlotsOK, QueueConstants DEF SlotsFollow

-----------------------------------------------------------------------------
(* Steps that change one row only, and steps that change one worker only. *)

LEMMA LeasesKept ==
  ASSUME TypeOK, SlotsFollowLeases,
         \A i \in Jobs : job'[i].status = job[i].status /\ job'[i].owner = job[i].owner,
         \A s \in Slots : slot'[s].job = slot[s].job /\ slot'[s].owner = slot[s].owner
  PROVE  SlotsFollowLeases'
<1>1. \A s \in Slots : slot[s].job # NoJob => slot[s].job \in Jobs
  BY DEF TypeOK, SlotRow
<1> QED
  BY <1>1 DEF SlotsFollowLeases, SlotsFollow

LEMMA OneRow ==
  ASSUME Inductive, NEW j \in Jobs, NEW r \in Row, RowOK(r),
         job' = [job EXCEPT ![j] = r],
         r.attempts = job[j].attempts \/ job[j].owner \notin Workers,
         r.owner \in {job[j].owner, NoWorker},
         job[j].status = "running" => r.status = "running" /\ r.owner = job[j].owner,
         UNCHANGED <<slot, wrk, inflight>>, watched' \in [Jobs -> BOOLEAN]
  PROVE  Inductive'
<1>1. TypeOK'
  BY DEF Inductive, TypeOK
<1>2. RowsOK'
  BY DEF Inductive, TypeOK, RowsOK
<1>3. SlotsFollowLeases'
  BY DEF Inductive, TypeOK, SlotsFollowLeases, SlotsFollow, SlotRow
<1>4. OwnersRunCurrentAttempt'
  BY QueueConstants DEF Inductive, TypeOK, OwnersRunCurrentAttempt
<1>5. LiveThreadsExecute'
  BY DEF Inductive, LiveThreadsExecute, Executing
<1> QED
  BY <1>1, <1>2, <1>3, <1>4, <1>5 DEF Inductive

\* Is every thread that can still set an event part of an execution, when w
\* moves to k?
ThreadsAllow(w, k) ==
  \A p \in inflight' : p.live =>
    IF p.worker = w THEN k.pc \in {"body", "finish"} ELSE p \in inflight

LEMMA OneWorker ==
  ASSUME Inductive, NEW w \in Workers, NEW k \in Worker, Tidy(k), ThreadsAllow(w, k),
         wrk' = [wrk EXCEPT ![w] = k],
         k.job \in Jobs => k.job = wrk[w].job /\ k.attempt = wrk[w].attempt,
         inflight' \subseteq Pending, UNCHANGED <<job, slot, watched>>
  PROVE  Inductive'
<1>1. TypeOK'
  BY DEF Inductive, TypeOK
<1>2. RowsOK' /\ SlotsFollowLeases'
  BY DEF Inductive, RowsOK, SlotsFollowLeases, SlotsFollow
<1>3. OwnersRunCurrentAttempt'
  BY DEF Inductive, TypeOK, OwnersRunCurrentAttempt
<1>4. LiveThreadsExecute'
  <2>1. wrk'[w].pc = k.pc /\ \A v \in Workers \ {w} : wrk'[v] = wrk[v]
    BY DEF Inductive, TypeOK
  <2>2. \A p \in inflight' : p.worker \in Workers
    BY DEF Pending
  <2> QED
    BY <2>1, <2>2 DEF Inductive, LiveThreadsExecute, Executing, ThreadsAllow
<1> QED
  BY <1>1, <1>2, <1>3, <1>4 DEF Inductive

LEMMA AtRestOK ==
  ASSUME NEW pc \in {"off", "idle", "dead"}
  PROVE  AtRest(pc) \in Worker /\ Tidy(AtRest(pc)) /\ AtRest(pc).job \notin Jobs
  BY QueueConstants DEF AtRest, Tidy, Worker, Pcs, Outcomes, Verdicts

LEMMA OrphanedOK ==
  ASSUME TypeOK, NEW w
  PROVE  Orphaned(w) \subseteq Pending
  BY DEF TypeOK, Orphaned, Pending

LEMMA OrphanedThreads ==
  ASSUME TypeOK, NEW w \in Workers, NEW k, inflight' = Orphaned(w)
  PROVE  ThreadsAllow(w, k)
  BY DEF TypeOK, Orphaned, Pending, ThreadsAllow

\* No thread stands in the way of a worker that does not execute.
LEMMA NoThreads ==
  ASSUME Inductive, NEW w \in Workers, NEW k, ~Executing(w), inflight' \subseteq inflight
  PROVE  ThreadsAllow(w, k)
  BY DEF Inductive, LiveThreadsExecute, ThreadsAllow

LEMMA BusyOK ==
  ASSUME TypeOK, NEW w \in Workers, wrk[w].pc \notin {"off", "idle", "dead"}
  PROVE  /\ wrk[w] \in Worker /\ wrk[w].job \in Jobs
         /\ wrk[w].pc = "finish" => wrk[w].outcome \in Verdicts
  BY DEF TypeOK, Tidy

-----------------------------------------------------------------------------
(* The inductive invariant. *)

LEMMA InitInductive == Init => Inductive
<1> SUFFICES ASSUME Init PROVE Inductive
  OBVIOUS
<1>1. \A j \in Jobs : job[j] \in Row /\ RowOK(job[j])
  BY NoRowOK DEF Init
<1>2. TypeOK
  BY <1>1, AtRestOK, QueueConstants DEF Init, TypeOK, SlotRow, FreeSlot
<1>3. RowsOK
  BY <1>1 DEF RowsOK
<1>4. SlotsFollowLeases
  BY DEF Init, SlotsFollowLeases, SlotsFollow, FreeSlot
<1>5. OwnersRunCurrentAttempt
  BY AtRestOK DEF Init, OwnersRunCurrentAttempt
<1>6. LiveThreadsExecute
  BY DEF Init, LiveThreadsExecute
<1> QED
  BY <1>2, <1>3, <1>4, <1>5, <1>6 DEF Inductive

LEMMA RequestInductive ==
  ASSUME Inductive, NEW j \in Jobs,
         Submit(j) \/ Poll(j) \/ CancelJob(j) \/ TabCloses(j) \/ AbandonJob(j)
  PROVE  Inductive'
<1>1. job[j] \in Row /\ RowOK(job[j])
  BY DEF Inductive, TypeOK, RowsOK
<1>2. CASE Submit(j)
  <2>1. PICK t \in Tasks, fromTab \in BOOLEAN :
          /\ job' = [job EXCEPT ![j] = SubmittedRow(t, fromTab)]
          /\ watched' = [watched EXCEPT ![j] = fromTab]
    BY <1>2 DEF Submit
  <2>2. SubmittedRow(t, fromTab).owner = NoWorker
    BY DEF SubmittedRow, NoRow
  <2>3. job[j].status # "running" /\ job[j].owner \notin Workers
    BY <1>1, <1>2 DEF Submit, RowOK
  <2>4. watched' \in [Jobs -> BOOLEAN]
    BY <2>1 DEF Inductive, TypeOK
  <2> QED
    BY <1>2, <2>1, <2>2, <2>3, <2>4, SubmittedRowOK, OneRow DEF Submit
<1>3. CASE Poll(j)
  <2> DEFINE r == [job[j] EXCEPT !.client = ClientTicks]
  <2>1. /\ r \in Row /\ RowOK(r) /\ r.attempts = job[j].attempts
        /\ r.owner = job[j].owner /\ r.status = job[j].status
    BY <1>1, QueueConstants DEF Row, RowOK
  <2>2. job' = [job EXCEPT ![j] = r] /\ UNCHANGED <<slot, wrk, inflight, watched>>
    BY <1>3 DEF Poll, Inductive, TypeOK
  <2> HIDE DEF r
  <2>3. watched' \in [Jobs -> BOOLEAN]
    BY <2>2 DEF Inductive, TypeOK
  <2> QED
    BY <2>1, <2>2, <2>3, OneRow
<1>4. CASE CancelJob(j) \/ AbandonJob(j)
  <2>1. job' = [job EXCEPT ![j] = StoppedRow(job[j])]
        /\ UNCHANGED <<slot, wrk, inflight, watched>>
    BY <1>4 DEF CancelJob, AbandonJob
  <2>2. watched' \in [Jobs -> BOOLEAN]
    BY <2>1 DEF Inductive, TypeOK
  <2> QED
    BY <1>1, <2>1, <2>2, StoppedRowOK, OneRow
<1>5. CASE TabCloses(j)
  <2>1. watched' \in [Jobs -> BOOLEAN] /\ UNCHANGED <<job, slot, wrk, inflight>>
    BY <1>5 DEF TabCloses, Inductive, TypeOK
  <2> QED
    BY <2>1 DEF Inductive, TypeOK, RowsOK, SlotsFollowLeases, SlotsFollow,
                OwnersRunCurrentAttempt, LiveThreadsExecute, Executing
<1> QED
  BY <1>2, <1>3, <1>4, <1>5

LEMMA ClaimFindsNothingInductive ==
  ASSUME Inductive, NEW w \in Workers, NEW skip, ClaimFindsNothing(w, skip)
  PROVE  Inductive'
<1>1. /\ job' = SweptRows(skip) /\ slot' = SweptSlots(skip)
      /\ UNCHANGED <<wrk, inflight, watched>>
  BY DEF ClaimFindsNothing
<1>2. TypeOK /\ RowsOK /\ SlotsFollowLeases
  BY DEF Inductive
<1>3. SweptRows(skip) \in [Jobs -> Row]
  BY <1>2, SweptRowsOK DEF SweptRows
<1>4. TypeOK'
  BY <1>1, <1>2, <1>3, SweptSlotsOK DEF TypeOK
<1>5. RowsOK'
  BY <1>1, <1>2, SweptRowsOK DEF RowsOK
<1>6. SlotsFollowLeases'
  BY <1>1, <1>2, SweptSlotsOK DEF SlotsFollowLeases, SlotsFollow
<1>7. ASSUME NEW i \in Jobs
      PROVE  job'[i].attempts = job[i].attempts /\ job'[i].owner \in {job[i].owner, NoWorker}
  BY <1>1, <1>2, SweptRowsOK
<1>8. OwnersRunCurrentAttempt'
  BY <1>1, <1>7, QueueConstants DEF Inductive, OwnersRunCurrentAttempt
<1>9. LiveThreadsExecute'
  BY <1>1 DEF Inductive, LiveThreadsExecute, Executing
<1> QED
  BY <1>4, <1>5, <1>6, <1>8, <1>9 DEF Inductive

LEMMA ClaimDefersInductive ==
  ASSUME Inductive, NEW w \in Workers, NEW skip, ClaimDefers(w, skip)
  PROVE  Inductive'
<1> DEFINE rows == SweptRows(skip)
<1>1. PICK j \in Oldest(Claimable(rows, skip)) :
        job' = [rows EXCEPT ![j].notBefore = BackoffTicks]
  BY DEF ClaimDefers
<1>2. slot' = SweptSlots(skip) /\ UNCHANGED <<wrk, inflight, watched>>
  BY DEF ClaimDefers
<1>3. TypeOK /\ RowsOK /\ SlotsFollowLeases
  BY DEF Inductive
<1>4. j \in Jobs
  BY <1>3, ClaimableOK
<1>5. rows \in [Jobs -> Row]
  BY <1>3, SweptRowsOK DEF SweptRows
<1>6. ASSUME NEW i \in Jobs
      PROVE  /\ job'[i] \in Row /\ RowOK(job'[i]) /\ job'[i].attempts = job[i].attempts
             /\ job'[i].owner = rows[i].owner /\ job'[i].status = rows[i].status
             /\ job'[i].owner \in {job[i].owner, NoWorker}
  <2>1. RowOK(rows[i]) /\ rows[i].attempts = job[i].attempts
        /\ rows[i].owner \in {job[i].owner, NoWorker}
    BY <1>3, SweptRowsOK
  <2> HIDE DEF rows
  <2>2. job'[i] = rows[i] \/ job'[i] = [rows[i] EXCEPT !.notBefore = BackoffTicks]
    BY <1>1, <1>4, <1>5
  <2> QED
    BY <1>5, <2>1, <2>2, QueueConstants DEF Row, RowOK
<1>7. job' \in [Jobs -> Row]
  <2> HIDE DEF rows
  <2>1. job' = [i \in Jobs |-> job'[i]]
    BY <1>1, <1>5
  <2> QED
    BY <2>1, <1>6
<1>8. TypeOK' /\ RowsOK'
  BY <1>2, <1>3, <1>6, <1>7, SweptSlotsOK DEF TypeOK, RowsOK
<1>9. SlotsFollowLeases'
  <2>1. SlotsFollow(rows, slot') /\ slot' \in [Slots -> SlotRow]
    BY <1>2, <1>3, SweptSlotsOK
  <2> HIDE DEF rows
  <2> QED
    BY <1>6, <2>1 DEF SlotsFollowLeases, SlotsFollow, SlotRow
<1>10. OwnersRunCurrentAttempt'
  <2>1. wrk' = wrk /\ OwnersRunCurrentAttempt
    BY <1>2 DEF Inductive
  <2> QED
    BY <1>6, <2>1, QueueConstants DEF OwnersRunCurrentAttempt
<1>11. LiveThreadsExecute'
  BY <1>2 DEF Inductive, LiveThreadsExecute, Executing
<1> QED
  BY <1>8, <1>9, <1>10, <1>11 DEF Inductive

LEMMA ClaimStartsInductive ==
  ASSUME Inductive, NEW w \in Workers, NEW skip, ClaimStarts(w, skip)
  PROVE  Inductive'
<1> DEFINE rows == SweptRows(skip)
           slots == SweptSlots(skip)
<1>1. PICK j \in Oldest(Claimable(rows, skip)) :
        /\ Claims(w, j, skip)
        /\ \/ slot' = slots
           \/ \E s \in Oldest(Takeable(slots, skip)) :
                slot' = [slots EXCEPT ![s] = [job |-> j, owner |-> w, lease |-> LeaseTicks]]
  BY DEF ClaimStarts
<1>2. TypeOK /\ RowsOK /\ SlotsFollowLeases /\ wrk[w].pc = "idle"
  BY DEF Inductive, ClaimStarts
<1>3. /\ j \in Jobs /\ rows[j].status = "queued"
      /\ \A s \in Slots : slots[s].job # j
  BY <1>2, ClaimableOK
<1>4. /\ slots \in [Slots -> SlotRow] /\ SlotsFollow(rows, slots)
      /\ rows \in [Jobs -> Row]
  BY <1>2, SweptSlotsOK, SweptRowsOK DEF SweptRows
<1>5. job' = [rows EXCEPT ![j] = StartedRow(rows[j], w)]
  BY <1>1 DEF Claims
<1>6. /\ wrk' = [wrk EXCEPT ![w].pc = "claimed", ![w].job = j,
                            ![w].attempt = job[j].attempts + 1]
      /\ UNCHANGED <<inflight, watched>>
  BY <1>1 DEF Claims
<1>7. ASSUME NEW i \in Jobs
      PROVE  /\ rows[i] \in Row /\ RowOK(rows[i])
             /\ rows[i].attempts = job[i].attempts
             /\ rows[i].owner \in {job[i].owner, NoWorker}
  BY <1>2, SweptRowsOK
<1> HIDE DEF rows, slots
<1>8. /\ job'[j] \in Row /\ RowOK(job'[j]) /\ job'[j].owner = w
      /\ job'[j].attempts = job[j].attempts + 1 /\ job'[j].status = "running"
  BY <1>3, <1>4, <1>5, <1>7, StartedRowOK
<1>9. \A i \in Jobs \ {j} : job'[i] = rows[i]
  BY <1>4, <1>5
<1>10. job' \in [Jobs -> Row] /\ RowsOK'
  <2>1. job' = [i \in Jobs |-> job'[i]]
    BY <1>4, <1>5
  <2> QED
    BY <2>1, <1>7, <1>8, <1>9 DEF RowsOK
<1>11. slot' \in [Slots -> SlotRow]
  BY <1>1, <1>3, <1>4, QueueConstants DEF SlotRow
<1>12. SlotsFollowLeases'
  <2>1. CASE slot' = slots
    BY <1>3, <1>4, <1>9, <2>1 DEF SlotsFollowLeases, SlotsFollow, SlotRow
  <2>2. CASE slot' # slots
    <3>1. PICK s \in Slots :
            slot' = [slots EXCEPT ![s] = [job |-> j, owner |-> w, lease |-> LeaseTicks]]
      BY <1>1, <2>2 DEF Oldest, Takeable
    <3>2. ASSUME NEW t \in Slots, t # s, slot'[t].job # NoJob
          PROVE  /\ slot'[t] = slots[t] /\ slots[t].job \in Jobs \ {j}
                 /\ rows[slots[t].job].status = "running"
                 /\ rows[slots[t].job].owner = slots[t].owner
      BY <1>3, <1>4, <3>1, <3>2 DEF SlotsFollow, SlotRow
    <3>3. slot'[s].job = j /\ slot'[s].owner = w
      BY <1>4, <3>1
    <3>4. \A t \in Slots : slot'[t].job # NoJob =>
            job'[slot'[t].job].status = "running" /\ job'[slot'[t].job].owner = slot'[t].owner
      BY <1>8, <1>9, <3>2, <3>3
    <3>5. \A t, u \in Slots :
            slot'[t].job = slot'[u].job /\ slot'[t].job # NoJob => t = u
      BY <1>4, <3>2, <3>3 DEF SlotsFollow
    <3> QED
      BY <3>4, <3>5 DEF SlotsFollowLeases, SlotsFollow
  <2> QED
    BY <2>1, <2>2
<1>13. /\ wrk'[w] \in Worker /\ Tidy(wrk'[w]) /\ wrk'[w].job = j
       /\ wrk'[w].attempt = job[j].attempts + 1
       /\ \A v \in Workers \ {w} : wrk'[v] = wrk[v]
       /\ wrk' \in [Workers -> Worker]
  <2>1. wrk[w] \in Worker /\ wrk \in [Workers -> Worker]
    BY <1>2 DEF TypeOK
  <2>2. job[j].attempts + 1 \in 0..MaxAttempts
    BY <1>8 DEF Row
  <2> DEFINE n == job[j].attempts + 1
  <2>3. wrk' = [wrk EXCEPT ![w].pc = "claimed", ![w].job = j, ![w].attempt = n]
    BY <1>6
  <2> HIDE DEF n
  <2>4. wrk'[w] = [wrk[w] EXCEPT !.pc = "claimed", !.job = j, !.attempt = n]
    BY <2>1, <2>3
  <2>5. wrk'[w] \in Worker /\ Tidy(wrk'[w]) /\ wrk'[w].job = j /\ wrk'[w].attempt = n
    BY <1>3, <2>1, <2>2, <2>4 DEF Worker, Pcs, Tidy, n
  <2> QED
    BY <2>1, <2>3, <2>5 DEF n
<1>14. TypeOK'
  BY <1>2, <1>6, <1>10, <1>11, <1>13 DEF TypeOK
<1>15. OwnersRunCurrentAttempt'
  <2> SUFFICES ASSUME NEW v \in Workers, wrk'[v].job \in Jobs, job'[wrk'[v].job].owner = v
               PROVE  wrk'[v].attempt = job'[wrk'[v].job].attempts
    BY DEF OwnersRunCurrentAttempt
  <2>1. CASE v = w
    BY <1>8, <1>13, <2>1
  <2>2. CASE v # w
    <3>1. wrk'[v] = wrk[v] /\ wrk[v].job # j
      BY <1>8, <1>13, <2>2
    <3>2. job'[wrk[v].job] = rows[wrk[v].job] /\ job[wrk[v].job].owner = v
      BY <1>7, <1>9, <3>1, QueueConstants
    <3> QED
      BY <1>7, <3>1, <3>2 DEF Inductive, OwnersRunCurrentAttempt
  <2> QED
    BY <2>1, <2>2
<1>16. LiveThreadsExecute'
  <2>1. \A p \in inflight : p.live => p.worker # w
    BY <1>2 DEF Inductive, LiveThreadsExecute, Executing
  <2> QED
    BY <1>2, <1>6, <1>13, <2>1 DEF Inductive, TypeOK, Pending, LiveThreadsExecute, Executing
<1> QED
  BY <1>10, <1>12, <1>14, <1>15, <1>16 DEF Inductive

LEMMA BodyInductive ==
  ASSUME Inductive, NEW w \in Workers,
         LoadJob(w) \/ LoadFails(w) \/ BodyReturns(w) \/ BodyRaises(w) \/ BodyStops(w)
  PROVE  Inductive'
<1>1. /\ wrk[w].pc \in {"claimed", "body"}
      /\ UNCHANGED <<job, slot, inflight, watched>>
  BY DEF LoadJob, LoadFails, BodyReturns, BodyRaises, BodyStops, EndsWith
<1>2. wrk[w] \in Worker /\ wrk[w].job \in Jobs /\ inflight' \subseteq Pending
  BY <1>1, BusyOK DEF Inductive, TypeOK
<1>3. CASE LoadJob(w) /\ Mine(w)
  <2> DEFINE k == [wrk[w] EXCEPT !.pc = "body", !.beating = TRUE]
  <2>1. /\ k \in Worker /\ Tidy(k) /\ k.job = wrk[w].job /\ k.attempt = wrk[w].attempt
        /\ wrk' = [wrk EXCEPT ![w] = k]
    BY <1>2, <1>3 DEF LoadJob, Worker, Pcs, Tidy
  <2>2. ThreadsAllow(w, k)
    BY <1>1, <1>2 DEF ThreadsAllow, Worker
  <2> HIDE DEF k
  <2> QED
    BY <1>1, <1>2, <2>1, <2>2, OneWorker
<1>4. CASE LoadFails(w) \/ (LoadJob(w) /\ ~Mine(w))
  <2>1. wrk' = [wrk EXCEPT ![w] = AtRest("idle")] /\ ~Executing(w)
    BY <1>4 DEF LoadJob, LoadFails, Executing
  <2> QED
    BY <1>1, <1>2, <2>1, AtRestOK, NoThreads, OneWorker
<1>5. CASE BodyReturns(w) \/ BodyRaises(w) \/ BodyStops(w)
  <2>1. PICK outcome \in Verdicts :
          wrk' = [wrk EXCEPT ![w].pc = "finish", ![w].outcome = outcome]
    BY <1>5 DEF BodyReturns, BodyRaises, BodyStops, EndsWith, Verdicts
  <2> DEFINE k == [wrk[w] EXCEPT !.pc = "finish", !.outcome = outcome]
  <2>2. /\ k \in Worker /\ Tidy(k) /\ k.job = wrk[w].job /\ k.attempt = wrk[w].attempt
        /\ wrk' = [wrk EXCEPT ![w] = k]
    BY <1>2, <2>1 DEF Worker, Pcs, Outcomes, Tidy, Inductive, TypeOK
  <2>3. ThreadsAllow(w, k)
    BY <1>1, <1>2 DEF ThreadsAllow, Worker
  <2> HIDE DEF k
  <2> QED
    BY <1>1, <1>2, <2>2, <2>3, OneWorker
<1> QED
  BY <1>3, <1>4, <1>5

LEMMA FinishInductive ==
  ASSUME Inductive, NEW w \in Workers, Finish(w)
  PROVE  Inductive'
<1> DEFINE j == wrk[w].job
<1>1. /\ wrk[w].pc = "finish" /\ wrk' = [wrk EXCEPT ![w] = AtRest("idle")]
      /\ inflight' = Orphaned(w) /\ UNCHANGED watched
  BY DEF Finish
<1>2. j \in Jobs /\ inflight' \subseteq Pending /\ wrk[w].outcome \in Verdicts
  BY <1>1, BusyOK, OrphanedOK DEF Inductive
<1>3. CASE job[j].owner # w
  <2>1. UNCHANGED <<job, slot>>
    BY <1>3 DEF Finish
  <2> QED
    BY <1>1, <1>2, <2>1, AtRestOK, OrphanedThreads, OneWorker DEF Inductive
<1>4. CASE job[j].owner = w
  <2>1. /\ job' = [job EXCEPT ![j] = FinishedRow(job[j], wrk[w].outcome)]
        /\ slot' = [s \in Slots |-> IF slot[s].job = j THEN FreeSlot ELSE slot[s]]
    BY <1>4 DEF Finish
  <2> HIDE DEF j
  <2>2. job[j] \in Row /\ RowOK(job[j])
    BY <1>2 DEF Inductive, TypeOK, RowsOK
  <2>3. /\ job'[j] \in Row /\ RowOK(job'[j]) /\ job'[j].owner = NoWorker
        /\ \A i \in Jobs \ {j} : job'[i] = job[i]
        /\ job' \in [Jobs -> Row]
    BY <1>2, <2>1, <2>2, FinishedRowOK DEF Inductive, TypeOK
  <2>4. ASSUME NEW s \in Slots
        PROVE  /\ slot'[s] \in SlotRow
               /\ slot'[s].job # NoJob => slot'[s] = slot[s] /\ slot[s].job \in Jobs \ {j}
    BY <2>1, QueueConstants DEF FreeSlot, SlotRow, Inductive, TypeOK
  <2>5. SlotsFollowLeases'
    BY <2>3, <2>4 DEF Inductive, SlotsFollowLeases, SlotsFollow
  <2>6. /\ wrk' \in [Workers -> Worker] /\ \A v \in Workers : Tidy(wrk'[v])
        /\ \A v \in Workers : wrk'[v].job \in Jobs => wrk'[v] = wrk[v]
    BY <1>1, AtRestOK DEF Inductive, TypeOK
  <2>7. TypeOK' /\ RowsOK'
    BY <1>1, <1>2, <2>1, <2>3, <2>4, <2>6 DEF Inductive, TypeOK, RowsOK
  <2>8. OwnersRunCurrentAttempt'
    <3> SUFFICES ASSUME NEW v \in Workers, wrk'[v].job \in Jobs, job'[wrk'[v].job].owner = v
                 PROVE  wrk'[v].attempt = job'[wrk'[v].job].attempts
      BY DEF OwnersRunCurrentAttempt
    <3>1. wrk'[v] = wrk[v]
      BY <2>6
    <3>2. NoWorker # v
      BY QueueConstants
    <3>3. wrk'[v].job # j
      BY <2>3, <3>2
    <3>4. job'[wrk'[v].job] = job[wrk[v].job]
      BY <2>3, <3>1, <3>3
    <3> QED
      BY <3>1, <3>4 DEF Inductive, OwnersRunCurrentAttempt
  <2>9. LiveThreadsExecute'
    <3>1. \A p \in inflight' : p.live => p \in inflight /\ p.worker # w
      BY <1>1, OrphanedThreads, AtRestOK DEF Inductive, ThreadsAllow, AtRest
    <3>2. \A v \in Workers \ {w} : wrk'[v] = wrk[v]
      BY <1>1 DEF Inductive, TypeOK
    <3> QED
      BY <3>1, <3>2 DEF Inductive, TypeOK, Pending, LiveThreadsExecute, Executing
  <2> QED
    BY <2>5, <2>7, <2>8, <2>9 DEF Inductive
<1> QED
  BY <1>3, <1>4

LEMMA FinishFailsInductive ==
  ASSUME Inductive, NEW w \in Workers, FinishFails(w)
  PROVE  Inductive'
<1>1. /\ wrk[w].pc = "finish" /\ UNCHANGED <<job, slot, watched>>
      /\ inflight' \in {inflight, Orphaned(w)}
  BY DEF FinishFails
<1>2. wrk[w] \in Worker /\ wrk[w].job \in Jobs /\ inflight' \subseteq Pending
  BY <1>1, BusyOK, OrphanedOK DEF Inductive, TypeOK
<1>3. CASE wrk[w].outcome = "done"
  <2> DEFINE k == [wrk[w] EXCEPT !.outcome = "error"]
  <2>1. /\ k \in Worker /\ Tidy(k) /\ k.job = wrk[w].job /\ k.attempt = wrk[w].attempt
        /\ wrk' = [wrk EXCEPT ![w] = k]
    BY <1>1, <1>2, <1>3 DEF FinishFails, Worker, Outcomes, Verdicts, Tidy, Inductive, TypeOK
  <2>2. ThreadsAllow(w, k)
    BY <1>1, <1>2, <1>3 DEF FinishFails, ThreadsAllow, Worker
  <2> HIDE DEF k
  <2> QED
    BY <1>1, <1>2, <2>1, <2>2, OneWorker
<1>4. CASE wrk[w].outcome # "done"
  <2>1. wrk' = [wrk EXCEPT ![w] = AtRest("idle")] /\ inflight' = Orphaned(w)
    BY <1>4 DEF FinishFails
  <2> QED
    BY <1>1, <1>2, <2>1, AtRestOK, OrphanedThreads, OneWorker DEF Inductive
<1> QED
  BY <1>3, <1>4

LEMMA ReadInductive ==
  ASSUME Inductive, NEW w \in Workers, HeartbeatRead(w) \/ MonitorRead(w)
  PROVE  Inductive'
<1>1. wrk[w].pc \in {"body", "finish"} /\ UNCHANGED <<job, slot, watched>>
  BY DEF HeartbeatRead, MonitorRead, Executing
<1>2. /\ wrk[w] \in Worker /\ wrk[w].job \in Jobs /\ job[wrk[w].job] \in Row
      /\ Tidy(wrk[w])
  BY <1>1, BusyOK DEF Inductive, TypeOK
<1>3. CASE \E kind \in {"heartbeat", "monitor"}, gone \in BOOLEAN :
             Reads(w, kind, gone) /\ UNCHANGED wrk
  <2>1. PICK kind \in {"heartbeat", "monitor"}, gone \in BOOLEAN : Reads(w, kind, gone)
    BY <1>3
  <2> DEFINE stop == gone \/ job[wrk[w].job].cancel
             lease == IF kind = "heartbeat" THEN LeaseTicks ELSE 0
  <2>2. stop \in BOOLEAN /\ lease \in Nat
    BY <1>2, QueueConstants DEF Row
  <2>3. inflight' = inflight \cup
          {[worker |-> w, job |-> wrk[w].job, kind |-> kind, gone |-> gone,
            stop |-> stop, lease |-> lease, live |-> TRUE]}
    BY <2>1 DEF Reads
  <2> HIDE DEF stop, lease
  <2>4. inflight' \subseteq Pending
    <3> DEFINE p == [worker |-> w, job |-> wrk[w].job, kind |-> kind, gone |-> gone,
                     stop |-> stop, lease |-> lease, live |-> TRUE]
    <3>1. p \in Pending
      BY <1>2, <2>2 DEF Pending
    <3> HIDE DEF p
    <3>2. inflight' = inflight \cup {p}
      BY <2>3 DEF p
    <3> QED
      BY <3>1, <3>2 DEF Inductive, TypeOK
  <2>5. wrk' = [wrk EXCEPT ![w] = wrk[w]]
    BY <1>3 DEF Inductive, TypeOK
  <2>6. ThreadsAllow(w, wrk[w])
    BY <1>1, <2>3 DEF ThreadsAllow
  <2> QED
    BY <1>1, <1>2, <2>4, <2>5, <2>6, OneWorker
<1>4. CASE UNCHANGED inflight /\ \E beating \in BOOLEAN :
             wrk' = [wrk EXCEPT ![w].stopEv = TRUE, ![w].beating = beating]
  <2>1. PICK beating \in BOOLEAN :
          wrk' = [wrk EXCEPT ![w].stopEv = TRUE, ![w].beating = beating]
    BY <1>4
  <2> DEFINE k == [wrk[w] EXCEPT !.stopEv = TRUE, !.beating = beating]
  <2>2. /\ k \in Worker /\ Tidy(k) /\ k.job = wrk[w].job /\ k.attempt = wrk[w].attempt
        /\ wrk' = [wrk EXCEPT ![w] = k]
    BY <1>1, <1>2, <2>1 DEF Worker, Tidy, Inductive, TypeOK
  <2>3. inflight' \subseteq Pending /\ ThreadsAllow(w, k)
    BY <1>1, <1>2, <1>4 DEF ThreadsAllow, Worker, Inductive, TypeOK
  <2> HIDE DEF k
  <2> QED
    BY <1>1, <2>2, <2>3, OneWorker
<1>5. ClientGone(job[wrk[w].job]) \in BOOLEAN
  BY <1>2 DEF ClientGone, Row
<1>6. CASE MonitorRead(w) /\ wrk' = [wrk EXCEPT ![w].stopEv = TRUE] /\ UNCHANGED inflight
  <2>1. wrk' = [wrk EXCEPT ![w].stopEv = TRUE, ![w].beating = wrk[w].beating]
        /\ wrk[w].beating \in BOOLEAN
    BY <1>2, <1>6 DEF Worker, Inductive, TypeOK
  <2> QED
    BY <1>4, <1>6, <2>1
<1> QED
  BY <1>3, <1>4, <1>5, <1>6 DEF HeartbeatRead, MonitorRead

LEMMA ProcessInductive ==
  ASSUME Inductive, NEW w \in Workers, Spawn(w) \/ Crash(w)
  PROVE  Inductive'
<1>1. PICK pc \in {"idle", "dead"} : wrk' = [wrk EXCEPT ![w] = AtRest(pc)]
  BY DEF Spawn, Crash
<1>2. inflight' \subseteq Pending /\ UNCHANGED <<job, slot, watched>>
  BY DEF Spawn, Crash, Inductive, TypeOK
<1>3. ThreadsAllow(w, AtRest(pc))
  <2>1. CASE Spawn(w)
    BY <2>1, NoThreads DEF Spawn, Executing
  <2>2. CASE Crash(w)
    BY <2>2 DEF Crash, ThreadsAllow
  <2> QED
    BY <2>1, <2>2
<1> QED
  BY <1>1, <1>2, <1>3, AtRestOK, OneWorker

LEMMA CommitInductive ==
  ASSUME Inductive, NEW p \in inflight, Commit(p)
  PROVE  Inductive'
<1>1. /\ inflight' = inflight \ {p} /\ UNCHANGED watched
      /\ job' = [job EXCEPT ![p.job] = CommittedRow(job[p.job], p)]
      /\ slot' = CommittedSlots(p)
  BY DEF Commit
<1>2. p \in Pending /\ p.worker \in Workers /\ p.job \in Jobs /\ p.lease \in Nat
  BY DEF Inductive, TypeOK, Pending
<1>3. job[p.job] \in Row /\ RowOK(job[p.job])
  BY <1>2 DEF Inductive, TypeOK, RowsOK
<1>4. ASSUME NEW i \in Jobs
      PROVE  /\ job'[i] \in Row /\ RowOK(job'[i])
             /\ job'[i].attempts = job[i].attempts
             /\ job'[i].status = job[i].status /\ job'[i].owner = job[i].owner
  BY <1>1, <1>2, <1>3, CommittedRowOK DEF Inductive, TypeOK, RowsOK
<1>5. job' \in [Jobs -> Row]
  BY <1>1, <1>2, <1>4 DEF Inductive, TypeOK
<1>6. ASSUME NEW s \in Slots
      PROVE  /\ slot'[s] \in SlotRow
             /\ slot'[s].job = slot[s].job /\ slot'[s].owner = slot[s].owner
  BY <1>1, <1>2 DEF CommittedSlots, Inductive, TypeOK, SlotRow
<1>7. slot' \in [Slots -> SlotRow]
  BY <1>1, <1>6 DEF CommittedSlots
<1>8. SlotsFollowLeases'
  BY <1>4, <1>6, LeasesKept DEF Inductive
\* Only the worker of a live thread changes, and it is executing.
<1>9. /\ wrk' \in [Workers -> Worker]
      /\ \A w \in Workers : /\ Tidy(wrk'[w]) /\ wrk'[w].pc = wrk[w].pc
                            /\ wrk'[w].job = wrk[w].job
                            /\ wrk'[w].attempt = wrk[w].attempt
  <2>1. wrk \in [Workers -> Worker] /\ \A w \in Workers : Tidy(wrk[w])
    BY DEF Inductive, TypeOK
  <2>2. CASE ~(p.live /\ p.stop)
    BY <2>1, <2>2 DEF Commit
  <2>3. CASE p.live /\ p.stop
    <3> DEFINE b == wrk[p.worker].beating /\ p.kind # "heartbeat"
               k == [wrk[p.worker] EXCEPT !.stopEv = TRUE, !.beating = b]
    <3>1. wrk' = [wrk EXCEPT ![p.worker].stopEv = TRUE, ![p.worker].beating = b]
      BY <1>2, <2>1, <2>3 DEF Commit
    <3>2. b \in BOOLEAN
      OBVIOUS
    <3>3. wrk[p.worker].pc \in {"body", "finish"}
      BY <2>3 DEF Inductive, LiveThreadsExecute, Executing
    <3> HIDE DEF b
    <3>4. wrk' = [wrk EXCEPT ![p.worker] = k]
      BY <1>2, <2>1, <3>1
    <3>5. /\ k \in Worker /\ Tidy(k) /\ k.pc = wrk[p.worker].pc
          /\ k.job = wrk[p.worker].job /\ k.attempt = wrk[p.worker].attempt
      BY <1>2, <2>1, <3>2, <3>3 DEF Worker, Tidy
    <3> HIDE DEF k
    <3> QED
      BY <1>2, <2>1, <3>4, <3>5
  <2> QED
    BY <2>2, <2>3
<1>10. TypeOK' /\ RowsOK'
  BY <1>1, <1>4, <1>5, <1>7, <1>9 DEF Inductive, TypeOK, RowsOK
<1>11. OwnersRunCurrentAttempt'
  BY <1>4, <1>9 DEF Inductive, OwnersRunCurrentAttempt
<1>12. LiveThreadsExecute'
  BY <1>1, <1>9 DEF Inductive, TypeOK, Pending, LiveThreadsExecute, Executing
<1> QED
  BY <1>8, <1>10, <1>11, <1>12 DEF Inductive

LEMMA TickInductive ==
  ASSUME Inductive, Tick
  PROVE  Inductive'
<1>1. ASSUME NEW i \in Jobs
      PROVE  /\ job'[i] \in Row /\ RowOK(job'[i])
             /\ job'[i].attempts = job[i].attempts
             /\ job'[i].status = job[i].status /\ job'[i].owner = job[i].owner
  <2>1. job'[i] = Aged(job[i]) /\ job[i] \in Row /\ RowOK(job[i])
    BY DEF Tick, Inductive, TypeOK, RowsOK
  <2> QED
    BY <2>1, AgedOK
<1>2. job' \in [Jobs -> Row]
  <2>1. job' = [i \in Jobs |-> Aged(job[i])]
    BY DEF Tick
  <2> QED
    BY <1>1, <2>1
<1>3. ASSUME NEW s \in Slots
      PROVE  /\ slot'[s] \in SlotRow
             /\ slot'[s].job = slot[s].job /\ slot'[s].owner = slot[s].owner
  BY LessOK DEF Tick, Inductive, TypeOK, SlotRow
<1>4. slot' \in [Slots -> SlotRow]
  BY <1>3 DEF Tick
<1>5. SlotsFollowLeases'
  BY <1>1, <1>3, LeasesKept DEF Inductive
<1>6. inflight' \subseteq Pending
  BY LessOK DEF Tick, Inductive, TypeOK, Pending
<1>7. TypeOK' /\ RowsOK'
  BY <1>1, <1>2, <1>4, <1>6 DEF Tick, Inductive, TypeOK, RowsOK
<1>8. OwnersRunCurrentAttempt'
  BY <1>1 DEF Tick, Inductive, OwnersRunCurrentAttempt
<1>9. LiveThreadsExecute'
  <2>1. \A p \in inflight' : \E q \in inflight : p.live = q.live /\ p.worker = q.worker
    BY DEF Tick, Inductive, TypeOK, Pending
  <2> QED
    BY <2>1 DEF Tick, Inductive, LiveThreadsExecute, Executing
<1> QED
  BY <1>5, <1>7, <1>8, <1>9 DEF Inductive

LEMMA StutterInductive == ASSUME Inductive, UNCHANGED vars PROVE Inductive'
  BY DEF vars, Inductive, TypeOK, RowsOK, SlotsFollowLeases, SlotsFollow,
         OwnersRunCurrentAttempt, LiveThreadsExecute, Executing

LEMMA NextInductive == ASSUME Inductive, [Next]_vars PROVE Inductive'
<1>1. ASSUME NEW j \in Jobs,
             Submit(j) \/ Poll(j) \/ CancelJob(j) \/ TabCloses(j) \/ AbandonJob(j)
      PROVE  Inductive'
  BY <1>1, RequestInductive
<1>2. ASSUME NEW w \in Workers, Claim(w)
      PROVE  Inductive'
  BY <1>2, ClaimFindsNothingInductive, ClaimDefersInductive, ClaimStartsInductive DEF Claim
<1>3. ASSUME NEW w \in Workers,
             LoadJob(w) \/ LoadFails(w) \/ BodyReturns(w) \/ BodyRaises(w) \/ BodyStops(w)
      PROVE  Inductive'
  BY <1>3, BodyInductive
<1>4. ASSUME NEW w \in Workers, Finish(w) \/ FinishFails(w)
      PROVE  Inductive'
  BY <1>4, FinishInductive, FinishFailsInductive
<1>5. ASSUME NEW w \in Workers, HeartbeatRead(w) \/ MonitorRead(w)
      PROVE  Inductive'
  BY <1>5, ReadInductive
<1>6. ASSUME NEW w \in Workers, Spawn(w) \/ Crash(w)
      PROVE  Inductive'
  BY <1>6, ProcessInductive
<1>7. ASSUME NEW p \in inflight, Commit(p)
      PROVE  Inductive'
  BY <1>7, CommitInductive
<1> QED
  BY <1>1, <1>2, <1>3, <1>4, <1>5, <1>6, <1>7, TickInductive, StutterInductive DEF Next

-----------------------------------------------------------------------------
(* Theorems. *)

\* The inductive invariant holds in every reachable state.
THEOREM InvariantHolds == Spec => []Inductive
<1>1. Init => Inductive
  BY InitInductive
<1>2. Inductive /\ [Next]_vars => Inductive'
  BY NextInductive
<1> QED
  BY <1>1, <1>2, PTL DEF Spec

\* Every row, slot, worker and pending read keeps its type, and an idle worker
\* carries nothing over from the execution before.
THEOREM TypeCorrect == Spec => []TypeOK
<1>1. Inductive => TypeOK
  BY DEF Inductive
<1> QED
  BY <1>1, InvariantHolds, PTL

\* However many workers, jobs and slots there are, the slot table never
\* disagrees with the leases on the jobs.
THEOREM SlotsConsistent == Spec => []SlotsFollowLeases
<1>1. Inductive => SlotsFollowLeases
  BY DEF Inductive
<1> QED
  BY <1>1, InvariantHolds, PTL

\* A mail batch is never started a second time.
THEOREM MailAtMostOnce == Spec => []MailStartsOnce
<1>1. Inductive => MailStartsOnce
  BY DEF Inductive, RowsOK, RowOK, MailStartsOnce
<1> QED
  BY <1>1, InvariantHolds, PTL

-----------------------------------------------------------------------------
(* What one step may do to a row, as far as the client of the job can tell,  *)
(* and that a row which a thread has read is a submitted one.                *)

RowMoves(r, q) ==
  \/ /\ r.status = "none" /\ q.status = "queued" /\ q.attempts = 0 /\ ~q.cancel
     /\ q.task \in Detached => ~q.cod
  \/ /\ q.task = r.task /\ q.cod = r.cod
     /\ r.status = "queued" /\ q.status = "running" /\ ~r.cancel /\ ~q.cancel
     /\ r.attempts < MaxAttempts /\ (r.task \in NoRerun => r.attempts = 0)
     /\ q.attempts = r.attempts + 1
  \/ /\ q.task = r.task /\ q.cod = r.cod /\ q.attempts = r.attempts
     /\ \/ /\ r.status = "running" /\ q.status = "queued"
           /\ r.attempts < MaxAttempts /\ r.task \notin NoRerun /\ ~r.cancel /\ ~q.cancel
        \/ q.status = r.status /\ r.status # "none" /\ q.cancel
        \/ r.status = "queued" /\ q.status = "cancelled" /\ q.cancel
        \/ /\ r.status = "running" /\ q.status \in Verdicts /\ q.cancel = r.cancel
           /\ r.cancel => q.status # "done"
        \/ q.status = r.status /\ q.cancel = r.cancel

\* A thread has read a submitted row, and a lost client only of a tab's job.
PendingIsOfJob == \A p \in inflight : job[p.job].status # "none" /\ (p.gone => job[p.job].cod)

\* Detached work has no tab.
DetachedHasNoTab == \A j \in Jobs : job[j].task \in Detached => ~job[j].cod

LEMMA SubmittedMoves ==
  ASSUME NEW r, r.status = "none", NEW t \in Tasks, NEW fromTab \in BOOLEAN
  PROVE  RowMoves(r, SubmittedRow(t, fromTab))
<1> DEFINE cod == t \notin Detached /\ fromTab
<1>1. t \in Detached => ~cod
  OBVIOUS
<1> HIDE DEF cod
<1>2. SubmittedRow(t, fromTab) =
        [NoRow EXCEPT !.status = "queued", !.task = t, !.cod = cod,
                      !.memory = MemoryTicks, !.client = IF cod THEN ClientTicks ELSE 0]
  BY DEF SubmittedRow, cod
<1>3. /\ SubmittedRow(t, fromTab).status = "queued" /\ SubmittedRow(t, fromTab).attempts = 0
      /\ SubmittedRow(t, fromTab).cancel = FALSE /\ SubmittedRow(t, fromTab).task = t
      /\ SubmittedRow(t, fromTab).cod = cod
  BY <1>2 DEF NoRow
<1> QED
  BY <1>1, <1>3 DEF RowMoves

LEMMA StoppedMoves ==
  ASSUME NEW r \in Row, Live(r)
  PROVE  RowMoves(r, StoppedRow(r))
<1>1. CASE r.status = "queued"
  <2>1. StoppedRow(r) =
          [r EXCEPT !.status = "cancelled", !.owner = NoWorker, !.lease = 0, !.notBefore = 0,
                    !.memory = 0, !.client = 0, !.cancel = TRUE]
    BY <1>1 DEF StoppedRow, Settled, Row
  <2> QED
    BY <1>1, <2>1 DEF RowMoves, Row
<1>2. CASE r.status # "queued"
  <2>1. StoppedRow(r) = [r EXCEPT !.cancel = TRUE]
    BY <1>2 DEF StoppedRow
  <2> QED
    BY <1>2, <2>1 DEF RowMoves, Row, Live
<1> QED
  BY <1>1, <1>2

LEMMA SettledMoves ==
  ASSUME NEW r \in Row, r.status = "running", NEW v \in Verdicts, r.cancel => v # "done"
  PROVE  RowMoves(r, Settled(r, v))
<1>1. /\ Settled(r, v).status = v /\ Settled(r, v).task = r.task /\ Settled(r, v).cod = r.cod
      /\ Settled(r, v).attempts = r.attempts /\ Settled(r, v).cancel = r.cancel
  BY DEF Settled, Row
<1> QED
  BY <1>1 DEF RowMoves

LEMMA RecoveredMoves ==
  ASSUME NEW r \in Row, r.status = "running"
  PROVE  RowMoves(r, RecoveredRow(r)) /\ (RecoveredRow(r).status = "queued" => RecoveredRow(r).notBefore # 0)
<1>1. CASE r.cancel
  BY <1>1, SettledMoves DEF RecoveredRow, Verdicts, Settled, Row
<1>2. CASE ~r.cancel /\ (r.task \in NoRerun \/ r.attempts >= MaxAttempts)
  BY <1>2, SettledMoves DEF RecoveredRow, Verdicts, Settled, Row
<1>3. CASE ~r.cancel /\ ~(r.task \in NoRerun \/ r.attempts >= MaxAttempts)
  <2>1. RecoveredRow(r) =
          [r EXCEPT !.status = "queued", !.owner = NoWorker, !.lease = 0, !.notBefore = BackoffTicks]
    BY <1>3 DEF RecoveredRow
  <2>2. /\ RecoveredRow(r).status = "queued" /\ RecoveredRow(r).notBefore = BackoffTicks
        /\ RecoveredRow(r).task = r.task /\ RecoveredRow(r).cod = r.cod
        /\ RecoveredRow(r).attempts = r.attempts /\ RecoveredRow(r).cancel = r.cancel
    BY <2>1 DEF Row
  <2>3. r.attempts < MaxAttempts
    BY <1>3, QueueConstants DEF Row
  <2> QED
    BY <1>3, <2>2, <2>3, QueueConstants DEF RowMoves
<1> QED
  BY <1>1, <1>2, <1>3

LEMMA FinishedMoves ==
  ASSUME NEW r \in Row, r.status = "running", NEW v \in Verdicts
  PROVE  RowMoves(r, FinishedRow(r, v))
<1>1. CASE r.cancel /\ v = "done"
  BY <1>1, SettledMoves DEF FinishedRow, Verdicts
<1>2. CASE ~(r.cancel /\ v = "done")
  BY <1>2, SettledMoves DEF FinishedRow
<1> QED
  BY <1>1, <1>2

LEMMA SweptMoves ==
  ASSUME TypeOK, NEW skip, NEW j \in Jobs
  PROVE  /\ RowMoves(job[j], SweptRows(skip)[j])
         /\ SweptRows(skip)[j].status = "queued" /\ SweptRows(skip)[j].notBefore = 0
              => SweptRows(skip)[j] = job[j]
<1>1. job[j] \in Row
  BY DEF TypeOK
<1>2. CASE j \in Expires(skip)
  <2>1. SweptRows(skip)[j] = StoppedRow(job[j]) /\ job[j].status = "queued"
    BY <1>2 DEF SweptRows, Expires
  <2>2. StoppedRow(job[j]).status = "cancelled"
    BY <1>1, <2>1 DEF StoppedRow, Settled, Row
  <2> QED
    BY <1>1, <2>1, <2>2, StoppedMoves DEF Live
<1>3. CASE j \notin Expires(skip) /\ j \in Recovers(skip)
  <2>1. SweptRows(skip)[j] = RecoveredRow(job[j]) /\ job[j].status = "running"
    BY <1>3 DEF SweptRows, Recovers
  <2> QED
    BY <1>1, <2>1, RecoveredMoves
<1>4. CASE j \notin Expires(skip) /\ j \notin Recovers(skip)
  <2>1. SweptRows(skip)[j] = job[j]
    BY <1>4 DEF SweptRows
  <2> QED
    BY <2>1 DEF RowMoves
<1> QED
  BY <1>2, <1>3, <1>4

LEMMA ClaimMoves ==
  ASSUME TypeOK, RowsOK, NEW w \in Workers, Claim(w), NEW j \in Jobs
  PROVE  RowMoves(job[j], job'[j])
<1>1. PICK skip \in Skips :
        ClaimFindsNothing(w, skip) \/ ClaimDefers(w, skip) \/ ClaimStarts(w, skip)
  BY DEF Claim
<1>2. CASE ClaimFindsNothing(w, skip)
  BY <1>2, SweptMoves DEF ClaimFindsNothing
<1> DEFINE rows == SweptRows(skip)
<1>3. DOMAIN rows = Jobs
  BY DEF SweptRows
<1>4. ASSUME NEW k \in Oldest(Claimable(rows, skip))
      PROVE  /\ k \in Jobs /\ rows[k] = job[k] /\ job[k] \in Row /\ RowOK(job[k])
             /\ job[k].status = "queued" /\ ~job[k].cancel /\ job[k].attempts < MaxAttempts
  <2>1. /\ k \in Jobs /\ rows[k].status = "queued" /\ rows[k].notBefore = 0
        /\ ~rows[k].cancel /\ rows[k].attempts < MaxAttempts
    BY DEF Oldest, Claimable
  <2> HIDE DEF rows
  <2>2. rows[k] = job[k]
    BY <2>1, SweptMoves DEF rows
  <2> QED
    BY <2>1, <2>2 DEF TypeOK, RowsOK
<1>5. CASE ClaimDefers(w, skip)
  <2>1. PICK k \in Oldest(Claimable(rows, skip)) : job' = [rows EXCEPT ![k].notBefore = BackoffTicks]
    BY <1>5 DEF ClaimDefers
  <2> HIDE DEF rows
  <2>2. CASE j = k
    <3>1. job'[j] = [job[j] EXCEPT !.notBefore = BackoffTicks]
      BY <1>3, <1>4, <2>1, <2>2
    <3> QED
      BY <1>4, <2>2, <3>1 DEF RowMoves, Row
  <2>3. CASE j # k
    <3>1. job'[j] = rows[j]
      BY <1>3, <2>1, <2>3
    <3> QED
      BY <3>1, SweptMoves DEF rows
  <2> QED
    BY <2>2, <2>3
<1>6. CASE ClaimStarts(w, skip)
  <2>1. PICK k \in Oldest(Claimable(rows, skip)) : job' = [rows EXCEPT ![k] = StartedRow(rows[k], w)]
    BY <1>6 DEF ClaimStarts, Claims
  <2> HIDE DEF rows
  <2>2. CASE j = k
    <3>1. job'[j] = StartedRow(job[j], w)
      BY <1>3, <1>4, <2>1, <2>2
    <3>2. /\ job'[j].status = "running" /\ job'[j].attempts = job[j].attempts + 1
          /\ job'[j].task = job[j].task /\ job'[j].cod = job[j].cod /\ job'[j].cancel = job[j].cancel
      BY <1>4, <2>2, <3>1, QueueConstants DEF StartedRow, Row
    <3> QED
      BY <1>4, <2>2, <3>2 DEF RowMoves, RowOK
  <2>3. CASE j # k
    <3>1. job'[j] = rows[j]
      BY <1>3, <2>1, <2>3
    <3> QED
      BY <3>1, SweptMoves DEF rows
  <2> QED
    BY <2>2, <2>3
<1> QED
  BY <1>1, <1>2, <1>5, <1>6

LEMMA SameRow == ASSUME NEW r PROVE RowMoves(r, r)
  BY DEF RowMoves

\* Every step of the queue moves every row as its client may see it.
LEMMA NextMoves ==
  ASSUME Inductive, PendingIsOfJob, [Next]_vars, NEW j \in Jobs
  PROVE  RowMoves(job[j], job'[j])
<1>1. job[j] \in Row /\ job \in [Jobs -> Row] /\ TypeOK /\ RowsOK
  BY DEF Inductive, TypeOK
<1>2. CASE job' = job
  BY <1>2, SameRow
<1>3. ASSUME NEW i \in Jobs, Submit(i)
      PROVE  RowMoves(job[j], job'[j])
  <2>1. PICK t \in Tasks, fromTab \in BOOLEAN : job' = [job EXCEPT ![i] = SubmittedRow(t, fromTab)]
    BY <1>3 DEF Submit
  <2>2. RowMoves(job[i], SubmittedRow(t, fromTab))
    BY <1>3, SubmittedMoves DEF Submit
  <2> QED
    BY <1>1, <2>1, <2>2, SameRow
<1>4. ASSUME NEW i \in Jobs, Poll(i)
      PROVE  RowMoves(job[j], job'[j])
  <2>1. job' = [job EXCEPT ![i] = [job[i] EXCEPT !.client = ClientTicks]]
    BY <1>4 DEF Poll
  <2>2. RowMoves(job[i], [job[i] EXCEPT !.client = ClientTicks])
    BY <1>1 DEF RowMoves, Row
  <2> QED
    BY <1>1, <2>1, <2>2, SameRow
<1>5. ASSUME NEW i \in Jobs, CancelJob(i) \/ AbandonJob(i)
      PROVE  RowMoves(job[j], job'[j])
  <2>1. job' = [job EXCEPT ![i] = StoppedRow(job[i])] /\ Live(job[i])
    BY <1>5 DEF CancelJob, AbandonJob
  <2>2. RowMoves(job[i], StoppedRow(job[i]))
    BY <1>1, <2>1, StoppedMoves
  <2> QED
    BY <1>1, <2>1, <2>2, SameRow
<1>6. ASSUME NEW w \in Workers, Finish(w), job' # job
      PROVE  RowMoves(job[j], job'[j])
  <2> DEFINE i == wrk[w].job
  <2>1. wrk[w].pc = "finish" /\ job[i].owner = w /\ job' = [job EXCEPT ![i] = FinishedRow(job[i], wrk[w].outcome)]
    BY <1>6 DEF Finish
  <2>2. i \in Jobs /\ wrk[w].outcome \in Verdicts
    BY <2>1, BusyOK DEF Inductive
  <2> HIDE DEF i
  <2>3. job[i] \in Row /\ job[i].status = "running"
    BY <1>1, <2>1, <2>2 DEF RowsOK, RowOK
  <2>4. RowMoves(job[i], FinishedRow(job[i], wrk[w].outcome))
    BY <2>2, <2>3, FinishedMoves
  <2> QED
    BY <1>1, <2>1, <2>4, SameRow
<1>7. ASSUME NEW p \in inflight, Commit(p)
      PROVE  RowMoves(job[j], job'[j])
  <2>1. p \in Pending /\ job' = [job EXCEPT ![p.job] = CommittedRow(job[p.job], p)]
    BY <1>1, <1>7 DEF Commit, TypeOK
  <2>2. p.job \in Jobs /\ p.gone \in BOOLEAN /\ job[p.job].status # "none"
    BY <2>1 DEF Pending, PendingIsOfJob
  <2> DEFINE r == job[p.job]
  <2>3. r \in Row
    BY <1>1, <2>2
  <2> HIDE DEF r
  <2>4. /\ CommittedRow(r, p).status = r.status /\ CommittedRow(r, p).task = r.task
        /\ CommittedRow(r, p).cod = r.cod /\ CommittedRow(r, p).attempts = r.attempts
        /\ CommittedRow(r, p).cancel = (r.cancel \/ p.gone)
    BY <2>3 DEF CommittedRow, Row
  <2>5. RowMoves(r, CommittedRow(r, p))
    BY <2>2, <2>3, <2>4 DEF RowMoves, Row, r
  <2> QED
    BY <1>1, <2>1, <2>5, SameRow DEF r
<1>8. ASSUME Tick
      PROVE  RowMoves(job[j], job'[j])
  BY <1>1, <1>8 DEF Tick, Aged, RowMoves, Row
<1>9. ASSUME NEW w \in Workers, \/ LoadJob(w) \/ LoadFails(w) \/ BodyReturns(w) \/ BodyRaises(w)
                                \/ BodyStops(w) \/ FinishFails(w) \/ HeartbeatRead(w) \/ MonitorRead(w)
                                \/ Spawn(w) \/ Crash(w)
      PROVE  job' = job
  BY <1>9 DEF LoadJob, LoadFails, BodyReturns, BodyRaises, BodyStops, EndsWith, FinishFails,
              HeartbeatRead, MonitorRead, Spawn, Crash
<1>10. ASSUME NEW i \in Jobs, TabCloses(i)
       PROVE  job' = job
  BY <1>10 DEF TabCloses
<1> QED
  BY <1>1, <1>2, <1>3, <1>4, <1>5, <1>6, <1>7, <1>8, <1>9, <1>10, ClaimMoves DEF Next, vars

LEMMA SubmittedStays ==
  ASSUME NEW r, NEW q, RowMoves(r, q), r.status # "none"
  PROVE  q.status # "none" /\ q.cod = r.cod
  BY DEF RowMoves, Verdicts

LEMMA PendingNext ==
  ASSUME Inductive, PendingIsOfJob, [Next]_vars
  PROVE  PendingIsOfJob'
<1> SUFFICES ASSUME NEW p \in inflight'
             PROVE  job'[p.job].status # "none" /\ (p.gone => job'[p.job].cod)
  BY DEF PendingIsOfJob
<1>1. ASSUME NEW o \in inflight, o.job = p.job, o.gone = p.gone
      PROVE  job'[p.job].status # "none" /\ (p.gone => job'[p.job].cod)
  <2>1. o.job \in Jobs
    BY DEF Inductive, TypeOK, Pending
  <2>2. job[o.job].status # "none" /\ (o.gone => job[o.job].cod) /\ RowMoves(job[o.job], job'[o.job])
    BY <2>1, NextMoves DEF PendingIsOfJob
  <2> QED
    BY <1>1, <2>2, SubmittedStays
<1>2. ASSUME NEW w \in Workers, inflight' = Orphaned(w)
      PROVE  \E o \in inflight : o.job = p.job /\ o.gone = p.gone
  BY <1>2 DEF Orphaned, Inductive, TypeOK, Pending
<1>3. ASSUME NEW w \in Workers, NEW kind, NEW gone, Reads(w, kind, gone), Mine(w), job' = job,
             gone => job[wrk[w].job].cod
      PROVE  \/ \E o \in inflight : o.job = p.job /\ o.gone = p.gone
             \/ job'[p.job].status # "none" /\ (p.gone => job'[p.job].cod)
  BY <1>3 DEF Reads, Mine
<1>4. ASSUME NEW w \in Workers, HeartbeatRead(w)
      PROVE  \/ \E o \in inflight : o.job = p.job /\ o.gone = p.gone
             \/ job'[p.job].status # "none" /\ (p.gone => job'[p.job].cod)
  BY <1>3, <1>4 DEF HeartbeatRead, ClientGone
<1>5. ASSUME NEW w \in Workers, MonitorRead(w)
      PROVE  \/ \E o \in inflight : o.job = p.job /\ o.gone = p.gone
             \/ job'[p.job].status # "none" /\ (p.gone => job'[p.job].cod)
  BY <1>3, <1>5 DEF MonitorRead, ClientGone
<1>6. ASSUME Tick
      PROVE  \E o \in inflight : o.job = p.job /\ o.gone = p.gone
  BY <1>6 DEF Tick, Inductive, TypeOK, Pending
<1>7. ASSUME NEW o \in inflight, Commit(o)
      PROVE  p \in inflight
  BY <1>7 DEF Commit
<1>8. ASSUME NEW w \in Workers, Crash(w)
      PROVE  p \in inflight
  BY <1>8 DEF Crash
<1>9. ASSUME NEW w \in Workers, Finish(w) \/ FinishFails(w)
      PROVE  \E o \in inflight : o.job = p.job /\ o.gone = p.gone
  BY <1>2, <1>9 DEF Finish, FinishFails
<1>10. ASSUME NEW w \in Workers, Claim(w)
       PROVE  p \in inflight
  BY <1>10 DEF Claim, ClaimFindsNothing, ClaimDefers, ClaimStarts, Claims
<1>11. ASSUME NEW w \in Workers, \/ LoadJob(w) \/ LoadFails(w) \/ BodyReturns(w) \/ BodyRaises(w)
                                 \/ BodyStops(w) \/ Spawn(w)
       PROVE  p \in inflight
  BY <1>11 DEF LoadJob, LoadFails, BodyReturns, BodyRaises, BodyStops, EndsWith, Spawn
<1>12. ASSUME NEW i \in Jobs, Submit(i) \/ Poll(i) \/ CancelJob(i) \/ TabCloses(i) \/ AbandonJob(i)
       PROVE  p \in inflight
  BY <1>12 DEF Submit, Poll, CancelJob, TabCloses, AbandonJob
<1>13. CASE UNCHANGED vars
  BY <1>1, <1>13 DEF vars
<1> QED
  BY <1>1, <1>4, <1>5, <1>6, <1>7, <1>8, <1>9, <1>10, <1>11, <1>12, <1>13 DEF Next

LEMMA DetachedNext ==
  ASSUME Inductive, PendingIsOfJob, DetachedHasNoTab, [Next]_vars
  PROVE  DetachedHasNoTab'
<1> SUFFICES ASSUME NEW j \in Jobs, job'[j].task \in Detached
             PROVE  ~job'[j].cod
  BY DEF DetachedHasNoTab
<1>1. RowMoves(job[j], job'[j])
  BY NextMoves
<1> QED
  BY <1>1 DEF RowMoves, DetachedHasNoTab

-----------------------------------------------------------------------------
(* The refinement. *)

LEMMA RowStepRefines ==
  ASSUME Inductive, Inductive', NEW j \in Jobs, RowMoves(job[j], job'[j])
  PROVE  Lifecycle!JobStep(j) \/ Lifecycle!Same(j)
<1>1. job[j] \in Row /\ job'[j] \in Row
  BY DEF Inductive, TypeOK
<1> QED
  BY <1>1 DEF RowMoves, Verdicts, Lifecycle!JobStep, Lifecycle!Submit, Lifecycle!Start, Lifecycle!Requeue,
              Lifecycle!AskToStop, Lifecycle!Settle, Lifecycle!Verdicts, Lifecycle!Same, Lifecycle!Keeps, Row

LEMMA StepRefines ==
  ASSUME Inductive, Inductive', PendingIsOfJob, [Next]_vars
  PROVE  [Lifecycle!Next]_(Lifecycle!vars)
<1>1. ASSUME NEW j \in Jobs
      PROVE  Lifecycle!JobStep(j) \/ Lifecycle!Same(j)
  BY NextMoves, RowStepRefines
<1>2. /\ [j \in Jobs |-> job'[j].status] \in [Jobs -> Lifecycle!Statuses]
      /\ [j \in Jobs |-> job'[j].attempts] \in [Jobs -> Nat]
      /\ [j \in Jobs |-> job'[j].task \in NoRerun] \in [Jobs -> BOOLEAN]
      /\ [j \in Jobs |-> job'[j].cancel] \in [Jobs -> BOOLEAN]
  BY QueueConstants DEF Inductive, TypeOK, Row, Statuses, Verdicts, Lifecycle!Statuses, Lifecycle!Verdicts
<1> QED
  BY <1>1, <1>2 DEF Lifecycle!Next

-----------------------------------------------------------------------------
(* Whose steps store a result, and whose ask a detached job to stop. *)

LEMMA DoneByFinish ==
  ASSUME Inductive, [Next]_vars, NEW j \in Jobs, job[j].status # "done", job'[j].status = "done"
  PROVE  \E w \in Workers : wrk[w].pc = "finish" /\ wrk[w].job = j /\ wrk[w].attempt = job[j].attempts
<1>1. job[j] \in Row /\ job \in [Jobs -> Row] /\ TypeOK /\ RowsOK
  BY DEF Inductive, TypeOK
<1>2. ASSUME NEW i \in Jobs, Submit(i)
      PROVE  FALSE
  <2>1. PICK t \in Tasks, fromTab \in BOOLEAN : job' = [job EXCEPT ![i] = SubmittedRow(t, fromTab)]
    BY <1>2 DEF Submit
  <2>2. SubmittedRow(t, fromTab).status = "queued"
    BY DEF SubmittedRow, NoRow
  <2> QED
    BY <1>1, <2>1, <2>2
<1>3. ASSUME NEW i \in Jobs, Poll(i)
      PROVE  FALSE
  BY <1>1, <1>3 DEF Poll, Row
<1>4. ASSUME NEW i \in Jobs, CancelJob(i) \/ AbandonJob(i)
      PROVE  FALSE
  <2>1. job' = [job EXCEPT ![i] = StoppedRow(job[i])] /\ job[i] \in Row /\ RowOK(job[i])
    BY <1>1, <1>4 DEF CancelJob, AbandonJob, RowsOK
  <2> QED
    BY <1>1, <2>1, StoppedRowOK
<1>5. ASSUME NEW w \in Workers, Claim(w)
      PROVE  FALSE
  <2>1. PICK skip \in Skips :
          ClaimFindsNothing(w, skip) \/ ClaimDefers(w, skip) \/ ClaimStarts(w, skip)
    BY <1>5 DEF Claim
  <2> DEFINE rows == SweptRows(skip)
  <2>2. DOMAIN rows = Jobs /\ rows[j].status # "done" /\ \A k \in Jobs : rows[k] \in Row /\ RowOK(rows[k])
    BY <1>1, SweptRowsOK DEF SweptRows
  <2>3. job' = rows \/ \E k \in Jobs :
          /\ rows[k].status = "queued"
          /\ \/ job' = [rows EXCEPT ![k].notBefore = BackoffTicks]
             \/ job' = [rows EXCEPT ![k] = StartedRow(rows[k], w)]
    BY <2>1 DEF ClaimFindsNothing, ClaimDefers, ClaimStarts, Claims, Oldest, Claimable
  <2> HIDE DEF rows
  <2>4. ASSUME NEW k \in Jobs, rows[k].status = "queued", job' = [rows EXCEPT ![k].notBefore = BackoffTicks]
        PROVE  job'[j].status = rows[j].status
    BY <2>2, <2>4 DEF Row
  <2>5. ASSUME NEW k \in Jobs, rows[k].status = "queued", job' = [rows EXCEPT ![k] = StartedRow(rows[k], w)]
        PROVE  job'[j].status \in {rows[j].status, "running"}
    BY <2>2, <2>5, StartedRowOK
  <2> QED
    BY <2>2, <2>3, <2>4, <2>5
<1>6. ASSUME NEW w \in Workers, Finish(w)
      PROVE  wrk[w].pc = "finish" /\ wrk[w].job = j /\ wrk[w].attempt = job[j].attempts
  <2> DEFINE i == wrk[w].job
  <2>1. wrk[w].pc = "finish" /\ job[i].owner = w /\ job' = [job EXCEPT ![i] = FinishedRow(job[i], wrk[w].outcome)]
    BY <1>6 DEF Finish
  <2>2. i = j
    BY <1>1, <2>1
  <2> QED
    BY <2>1, <2>2 DEF Inductive, OwnersRunCurrentAttempt
<1>7. ASSUME NEW p \in inflight, Commit(p)
      PROVE  FALSE
  <2>1. p \in Pending /\ p.job \in Jobs /\ job' = [job EXCEPT ![p.job] = CommittedRow(job[p.job], p)]
    BY <1>1, <1>7 DEF Commit, TypeOK, Pending
  <2>2. CommittedRow(job[p.job], p).status = job[p.job].status
    BY <1>1, <2>1, CommittedRowOK DEF RowsOK
  <2> QED
    BY <1>1, <2>1, <2>2
<1>8. ASSUME Tick
      PROVE  FALSE
  BY <1>1, <1>8, AgedOK DEF Tick, RowsOK
<1>9. job' # job
  OBVIOUS
<1>10. ASSUME NEW w \in Workers, \/ LoadJob(w) \/ LoadFails(w) \/ BodyReturns(w) \/ BodyRaises(w)
                                 \/ BodyStops(w) \/ FinishFails(w) \/ HeartbeatRead(w) \/ MonitorRead(w)
                                 \/ Spawn(w) \/ Crash(w)
       PROVE  FALSE
  BY <1>9, <1>10 DEF LoadJob, LoadFails, BodyReturns, BodyRaises, BodyStops, EndsWith, FinishFails,
                     HeartbeatRead, MonitorRead, Spawn, Crash
<1>11. ASSUME NEW i \in Jobs, TabCloses(i)
       PROVE  FALSE
  BY <1>9, <1>11 DEF TabCloses
<1> QED
  BY <1>2, <1>3, <1>4, <1>5, <1>6, <1>7, <1>8, <1>9, <1>10, <1>11 DEF Next, vars

LEMMA StoppedByUser ==
  ASSUME Inductive, PendingIsOfJob, DetachedHasNoTab, [Next]_vars,
         NEW j \in Jobs, job[j].task \in Detached, ~job[j].cancel, job'[j].cancel
  PROVE  CancelJob(j)
<1>1. job[j] \in Row /\ job \in [Jobs -> Row] /\ TypeOK /\ RowsOK /\ ~job[j].cod
  BY DEF Inductive, TypeOK, DetachedHasNoTab
<1>2. ASSUME NEW i \in Jobs, Submit(i)
      PROVE  FALSE
  <2>1. PICK t \in Tasks, fromTab \in BOOLEAN : job' = [job EXCEPT ![i] = SubmittedRow(t, fromTab)]
    BY <1>2 DEF Submit
  <2>2. SubmittedRow(t, fromTab).cancel = FALSE
    BY DEF SubmittedRow, NoRow
  <2> QED
    BY <1>1, <2>1, <2>2
<1>3. ASSUME NEW i \in Jobs, Poll(i)
      PROVE  FALSE
  BY <1>1, <1>3 DEF Poll, Row
<1>4. ASSUME NEW i \in Jobs, CancelJob(i)
      PROVE  CancelJob(j)
  BY <1>1, <1>4 DEF CancelJob
<1>5. ASSUME NEW i \in Jobs, AbandonJob(i)
      PROVE  FALSE
  BY <1>1, <1>5 DEF AbandonJob
<1>6. ASSUME NEW w \in Workers, Claim(w)
      PROVE  FALSE
  <2>1. PICK skip \in Skips :
          ClaimFindsNothing(w, skip) \/ ClaimDefers(w, skip) \/ ClaimStarts(w, skip)
    BY <1>6 DEF Claim
  <2> DEFINE rows == SweptRows(skip)
  <2>2. DOMAIN rows = Jobs /\ \A k \in Jobs : rows[k] \in Row
    BY <1>1, SweptRowsOK DEF SweptRows
  <2>3. ~rows[j].cancel
    <3>1. j \notin Expires(skip)
      BY <1>1 DEF Expires, ClientGone
    <3>2. CASE j \in Recovers(skip)
      BY <1>1, <3>1, <3>2 DEF SweptRows, RecoveredRow, Settled, Row
    <3>3. CASE j \notin Recovers(skip)
      BY <3>1, <3>3 DEF SweptRows
    <3> QED
      BY <3>2, <3>3
  <2>4. job' = rows \/ \E k \in Jobs :
          \/ job' = [rows EXCEPT ![k].notBefore = BackoffTicks]
          \/ job' = [rows EXCEPT ![k] = StartedRow(rows[k], w)]
    BY <2>1 DEF ClaimFindsNothing, ClaimDefers, ClaimStarts, Claims, Oldest, Claimable
  <2> HIDE DEF rows
  <2>5. ASSUME NEW k \in Jobs, job' = [rows EXCEPT ![k].notBefore = BackoffTicks]
        PROVE  job'[j].cancel = rows[j].cancel
    BY <2>2, <2>5 DEF Row
  <2>6. ASSUME NEW k \in Jobs, job' = [rows EXCEPT ![k] = StartedRow(rows[k], w)]
        PROVE  job'[j].cancel = rows[j].cancel
    BY <2>2, <2>6 DEF StartedRow, Row
  <2> QED
    BY <2>3, <2>4, <2>5, <2>6
<1>7. ASSUME NEW w \in Workers, Finish(w), job' # job
      PROVE  FALSE
  <2>1. job' = [job EXCEPT ![wrk[w].job] = FinishedRow(job[wrk[w].job], wrk[w].outcome)]
    BY <1>7 DEF Finish
  <2>2. FinishedRow(job[j], wrk[w].outcome).cancel = job[j].cancel
    BY <1>1 DEF FinishedRow, Settled, Row
  <2> QED
    BY <1>1, <2>1, <2>2
<1>8. ASSUME NEW p \in inflight, Commit(p)
      PROVE  FALSE
  <2>1. p.job \in Jobs /\ job' = [job EXCEPT ![p.job] = CommittedRow(job[p.job], p)]
        /\ (p.gone => job[p.job].cod)
    BY <1>1, <1>8 DEF Commit, TypeOK, Pending, PendingIsOfJob
  <2>2. p.job = j
    BY <1>1, <2>1
  <2> QED
    BY <1>1, <2>1, <2>2 DEF CommittedRow, Row
<1>9. ASSUME Tick
      PROVE  FALSE
  BY <1>1, <1>9 DEF Tick, Aged, Row
<1>10. job' # job
  OBVIOUS
<1>11. ASSUME NEW w \in Workers, \/ LoadJob(w) \/ LoadFails(w) \/ BodyReturns(w) \/ BodyRaises(w)
                                 \/ BodyStops(w) \/ FinishFails(w) \/ HeartbeatRead(w) \/ MonitorRead(w)
                                 \/ Spawn(w) \/ Crash(w)
       PROVE  FALSE
  BY <1>10, <1>11 DEF LoadJob, LoadFails, BodyReturns, BodyRaises, BodyStops, EndsWith, FinishFails,
                      HeartbeatRead, MonitorRead, Spawn, Crash
<1>12. ASSUME NEW i \in Jobs, TabCloses(i)
       PROVE  FALSE
  BY <1>10, <1>12 DEF TabCloses
<1> QED
  BY <1>2, <1>3, <1>4, <1>5, <1>6, <1>7, <1>8, <1>9, <1>10, <1>11, <1>12 DEF Next, vars

-----------------------------------------------------------------------------
(* Theorems about steps. *)

\* What a thread has read stays the row of a submitted job, in every reachable state.
THEOREM ReadsAreOfJobs == Spec => []PendingIsOfJob
<1>1. Init => PendingIsOfJob
  BY DEF Init, PendingIsOfJob
<1>2. Inductive /\ PendingIsOfJob /\ [Next]_vars => PendingIsOfJob'
  BY PendingNext
<1> QED
  BY <1>1, <1>2, InvariantHolds, PTL DEF Spec

\* The queue keeps every promise of JobLifecycle to the clients that poll it,
\* for any numbers of jobs, workers and slots, deaths and delays: a verdict is
\* final, starts are bounded, a stop request counts.
THEOREM QueueImplementsLifecycle == Spec => ImplementsLifecycle
<1>1. Init => Lifecycle!Init
  BY DEF Init, NoRow, Lifecycle!Init
<1>2. Inductive /\ Inductive' /\ PendingIsOfJob /\ [Next]_vars => [Lifecycle!Next]_(Lifecycle!vars)
  BY StepRefines
<1> QED
  BY <1>1, <1>2, InvariantHolds, ReadsAreOfJobs, PTL DEF Spec, ImplementsLifecycle, Lifecycle!Spec

\* A result is stored by the worker that runs the current attempt, and by no
\* other, whatever leases ran out meanwhile.
THEOREM ResultsAreCurrent == Spec => ResultOfCurrentAttempt
<1> DEFINE Stored(j) ==
      job[j].status # "done" /\ job'[j].status = "done" =>
        \E w \in Workers :
          /\ wrk[w].pc = "finish" /\ wrk[w].job = j
          /\ wrk[w].attempt = job[j].attempts
<1>1. ASSUME Inductive, [Next]_vars, NEW j \in Jobs, job[j].status # "done", job'[j].status = "done"
      PROVE  \E w \in Workers : wrk[w].pc = "finish" /\ wrk[w].job = j /\ wrk[w].attempt = job[j].attempts
  BY <1>1, DoneByFinish
<1>2. Inductive /\ [Next]_vars => [\A j \in Jobs : Stored(j)]_vars
  BY <1>1
<1> QED
  BY <1>2, InvariantHolds, PTL DEF Spec, ResultOfCurrentAttempt

\* A detached job is asked to stop by its user only, whatever tabs, clients and
\* late writes of threads do.
THEOREM DetachedIsLeftAlone == Spec => DetachedSurvivesTab
<1> DEFINE Asked(j) == job[j].task \in Detached /\ ~job[j].cancel /\ job'[j].cancel => CancelJob(j)
<1>1. Init => DetachedHasNoTab
  BY DEF Init, NoRow, DetachedHasNoTab
<1>2. Inductive /\ PendingIsOfJob /\ DetachedHasNoTab /\ [Next]_vars => DetachedHasNoTab'
  BY DetachedNext
<1>3. Inductive /\ PendingIsOfJob /\ DetachedHasNoTab /\ [Next]_vars => [\A j \in Jobs : Asked(j)]_vars
  BY StoppedByUser
<1> QED
  BY <1>1, <1>2, <1>3, InvariantHolds, ReadsAreOfJobs, PTL DEF Spec, DetachedSurvivesTab

-----------------------------------------------------------------------------
(* When only task bodies take as long as a tick.  Who holds a lease keeps    *)
(* it, and its slot, until it writes its verdict or time passes.             *)

LEMMA SweepKeepsHeld ==
  ASSUME NEW skip, NEW j \in Jobs, NEW w, Held(j, w)
  PROVE  SweptRows(skip)[j] = job[j] /\ j \notin Recovers(skip)
  BY DEF Held, SweptRows, Expires, Recovers

LEMMA ClaimKeepsHeld ==
  ASSUME Inductive, NEW v \in Workers, Claim(v), NEW j \in Jobs, NEW w, Held(j, w)
  PROVE  job'[j] = job[j]
<1>1. PICK skip \in Skips :
        ClaimFindsNothing(v, skip) \/ ClaimDefers(v, skip) \/ ClaimStarts(v, skip)
  BY DEF Claim
<1> DEFINE rows == SweptRows(skip)
<1>2. DOMAIN rows = Jobs /\ rows[j] = job[j] /\ rows[j].status = "running"
  BY SweepKeepsHeld DEF SweptRows, Held
<1>3. \/ job' = rows
      \/ \E k \in Jobs : /\ rows[k].status = "queued"
                         /\ \/ job' = [rows EXCEPT ![k].notBefore = BackoffTicks]
                            \/ job' = [rows EXCEPT ![k] = StartedRow(@, v)]
  BY <1>1 DEF ClaimFindsNothing, ClaimDefers, ClaimStarts, Claims, Oldest, Claimable
<1> HIDE DEF rows
<1> QED
  BY <1>2, <1>3

LEMMA HeldNext ==
  ASSUME Inductive, ReadsInTime, Next, ~Tick,
         NEW j \in Jobs, NEW w \in Workers, Held(j, w), ~(Finish(w) /\ wrk[w].job = j)
  PROVE  Held(j, w)'
<1>1. job \in [Jobs -> Row] /\ job[j] \in Row
  BY DEF Inductive, TypeOK
<1>2. ASSUME NEW i \in Jobs, Submit(i)
      PROVE  Held(j, w)'
  BY <1>1, <1>2 DEF Submit, Held
<1>3. ASSUME NEW i \in Jobs, Poll(i)
      PROVE  Held(j, w)'
  BY <1>1, <1>3 DEF Poll, Held, Row
<1>4. ASSUME NEW i \in Jobs, CancelJob(i) \/ AbandonJob(i)
      PROVE  Held(j, w)'
  <2>1. job' = [job EXCEPT ![i] = StoppedRow(job[i])]
    BY <1>4 DEF CancelJob, AbandonJob
  <2>2. i = j => job'[j] = [job[j] EXCEPT !.cancel = TRUE]
    BY <1>1, <2>1 DEF StoppedRow, Held
  <2> QED
    BY <1>1, <2>1, <2>2 DEF Held, Row
<1>5. ASSUME NEW v \in Workers, Claim(v)
      PROVE  Held(j, w)'
  BY <1>5, ClaimKeepsHeld DEF Held
<1>6. ASSUME NEW v \in Workers, Finish(v)
      PROVE  Held(j, w)'
  <2>1. CASE job' = job
    BY <2>1 DEF Held
  <2>2. CASE job' # job
    <3>1. job[wrk[v].job].owner = v /\ job' = [job EXCEPT ![wrk[v].job] = FinishedRow(@, wrk[v].outcome)]
      BY <1>6, <2>2 DEF Finish
    <3>2. wrk[v].job # j
      BY <1>6, <3>1 DEF Held
    <3> QED
      BY <1>1, <3>1, <3>2 DEF Held
  <2> QED
    BY <2>1, <2>2
<1>7. ASSUME NEW p \in inflight, Commit(p)
      PROVE  Held(j, w)'
  <2>1. p \in Pending /\ p.job \in Jobs /\ job' = [job EXCEPT ![p.job] = CommittedRow(job[p.job], p)]
    BY <1>7 DEF Commit, Inductive, TypeOK, Pending
  <2>2. p.kind = "heartbeat" => p.lease > 0
    BY QueueConstants DEF ReadsInTime
  <2>3. CASE p.job = j
    <3>1. job'[j] = CommittedRow(job[j], p)
      BY <1>1, <2>1, <2>3
    <3>2. /\ job'[j].status = job[j].status /\ job'[j].owner = job[j].owner
          /\ job'[j].lease \in {job[j].lease, IF p.kind = "heartbeat" THEN p.lease ELSE job[j].lease}
      BY <1>1, <3>1 DEF CommittedRow, Row
    <3> QED
      BY <2>2, <3>2 DEF Held
  <2>4. CASE p.job # j
    BY <1>1, <2>1, <2>4 DEF Held
  <2> QED
    BY <2>3, <2>4
<1>8. ASSUME NEW v \in Workers, \/ LoadJob(v) \/ LoadFails(v) \/ BodyReturns(v) \/ BodyRaises(v)
                                \/ BodyStops(v) \/ FinishFails(v) \/ HeartbeatRead(v) \/ MonitorRead(v)
                                \/ Spawn(v) \/ Crash(v)
      PROVE  Held(j, w)'
  BY <1>8 DEF LoadJob, LoadFails, BodyReturns, BodyRaises, BodyStops, EndsWith, FinishFails,
              HeartbeatRead, MonitorRead, Spawn, Crash, Held
<1>9. ASSUME NEW i \in Jobs, TabCloses(i)
      PROVE  Held(j, w)'
  BY <1>9 DEF TabCloses, Held
<1> QED
  BY <1>2, <1>3, <1>4, <1>5, <1>6, <1>7, <1>8, <1>9 DEF Next

\* A slot is taken from a job only with the job's lease.
LEMMA SlotNext ==
  ASSUME Inductive, SlotLeasesAgree, Next,
         NEW j \in Jobs, NEW w \in Workers, Held(j, w), HasSlot(j, w),
         ~(Finish(w) /\ wrk[w].job = j)
  PROVE  HasSlot(j, w)'
<1>1. PICK s \in Slots : slot[s].job = j /\ slot[s].owner = w /\ slot[s].lease > 0
  BY QueueConstants DEF HasSlot, SlotLeasesAgree, Held
<1>2. slot \in [Slots -> SlotRow] /\ j # NoJob
  BY QueueConstants DEF Inductive, TypeOK
<1> SUFFICES slot'[s].job = j /\ slot'[s].owner = w
  BY DEF HasSlot
<1>3. ASSUME NEW v \in Workers, Claim(v)
      PROVE  slot'[s] = slot[s]
  <2>1. PICK skip \in Skips :
          ClaimFindsNothing(v, skip) \/ ClaimDefers(v, skip) \/ ClaimStarts(v, skip)
    BY <1>3 DEF Claim
  <2> DEFINE slots == SweptSlots(skip)
  <2>2. slots[s] = slot[s] /\ DOMAIN slots = Slots
    BY <1>1, SweepKeepsHeld DEF SweptSlots
  <2>3. slot' = slots \/ \E k \in Jobs, t \in Takeable(slots, skip) :
          slot' = [slots EXCEPT ![t] = [job |-> k, owner |-> v, lease |-> LeaseTicks]]
    BY <2>1 DEF ClaimFindsNothing, ClaimDefers, ClaimStarts, Oldest, Claimable
  <2> HIDE DEF slots
  <2>4. s \notin Takeable(slots, skip)
    BY <1>1, <1>2, <2>2 DEF Takeable
  <2> QED
    BY <2>2, <2>3, <2>4 DEF Takeable
<1>4. ASSUME NEW v \in Workers, Finish(v)
      PROVE  slot'[s] = slot[s]
  <2>1. CASE slot' = slot
    BY <2>1
  <2>2. CASE slot' # slot
    <3>1. job[wrk[v].job].owner = v /\ slot' = [t \in Slots |-> IF slot[t].job = wrk[v].job THEN FreeSlot ELSE slot[t]]
      BY <1>4, <2>2 DEF Finish
    <3>2. wrk[v].job # j
      BY <1>4, <3>1 DEF Held
    <3> QED
      BY <1>1, <3>1, <3>2
  <2> QED
    BY <2>1, <2>2
<1>5. ASSUME NEW p \in inflight, Commit(p)
      PROVE  slot'[s].job = j /\ slot'[s].owner = w
  BY <1>1, <1>2, <1>5 DEF Commit, CommittedSlots, SlotRow
<1>6. ASSUME Tick
      PROVE  slot'[s].job = j /\ slot'[s].owner = w
  BY <1>1, <1>2, <1>6 DEF Tick, SlotRow
<1>7. ASSUME NEW v \in Workers, \/ LoadJob(v) \/ LoadFails(v) \/ BodyReturns(v) \/ BodyRaises(v)
                                \/ BodyStops(v) \/ FinishFails(v) \/ HeartbeatRead(v) \/ MonitorRead(v)
                                \/ Spawn(v) \/ Crash(v)
      PROVE  slot' = slot
  BY <1>7 DEF LoadJob, LoadFails, BodyReturns, BodyRaises, BodyStops, EndsWith, FinishFails,
              HeartbeatRead, MonitorRead, Spawn, Crash
<1>8. ASSUME NEW i \in Jobs, Submit(i) \/ Poll(i) \/ CancelJob(i) \/ TabCloses(i) \/ AbandonJob(i)
      PROVE  slot' = slot
  BY <1>8 DEF Submit, Poll, CancelJob, TabCloses, AbandonJob
<1> QED
  BY <1>1, <1>3, <1>4, <1>5, <1>6, <1>7, <1>8 DEF Next

\* What becomes of the row of a submitted job.
LEMMA SubmittedKeeps ==
  ASSUME Inductive, PendingIsOfJob, [Next]_vars, NEW j \in Jobs, job[j].status # "none"
  PROVE  /\ job'[j].status # "none" /\ job'[j].task = job[j].task
         /\ job[j].cancel => job'[j].cancel
         /\ job[j].status \in Verdicts => job'[j].status \in Verdicts
<1>1. RowMoves(job[j], job'[j]) /\ job[j] \in Row /\ job'[j] \in Row
  BY NextMoves, NextInductive DEF Inductive, TypeOK
<1> QED
  BY <1>1 DEF RowMoves, Verdicts, Row

\* What a claim finds: a job that nobody holds and nobody asked to stop.
LEMMA ClaimStartsHolds ==
  ASSUME Inductive, NEW w \in Workers, NEW skip \in Skips, ClaimStarts(w, skip)
  PROVE  /\ wrk[w].pc = "idle" /\ wrk'[w].pc = "claimed" /\ ~wrk'[w].beating
         /\ \A v \in Workers \ {w} : wrk'[v] = wrk[v]
         /\ \E j \in Jobs :
              /\ wrk'[w].job = j /\ Held(j, w)' /\ job'[j].status = "running"
              /\ job'[j].task \in SlotTasks => HasSlot(j, w)'
              /\ ~job[j].cancel /\ job[j].status # "none" /\ \A v : ~Held(j, v)
<1> DEFINE rows == SweptRows(skip)
           slots == SweptSlots(skip)
<1>1. DOMAIN rows = Jobs /\ DOMAIN slots = Slots
  BY DEF SweptRows, SweptSlots
<1>2. PICK j \in Oldest(Claimable(rows, skip)) :
        /\ Claims(w, j, skip)
        /\ rows[j].task \in SlotTasks =>
             \E s \in Takeable(slots, skip) :
               slot' = [slots EXCEPT ![s] = [job |-> j, owner |-> w, lease |-> LeaseTicks]]
  BY DEF ClaimStarts, Oldest
<1>3. /\ j \in Jobs /\ rows[j].status = "queued" /\ ~rows[j].cancel /\ rows[j].notBefore = 0
  BY <1>2 DEF Oldest, Claimable
<1>4. rows[j] = job[j] /\ rows[j] \in Row
  <2> HIDE DEF rows
  <2>1. rows[j] = job[j]
    BY <1>3, SweptMoves DEF rows, Inductive
  <2> QED
    BY <1>3, <2>1 DEF Inductive, TypeOK
<1> HIDE DEF rows, slots
<1>5. /\ job' = [rows EXCEPT ![j] = StartedRow(rows[j], w)]
      /\ wrk' = [wrk EXCEPT ![w].pc = "claimed", ![w].job = j, ![w].attempt = job[j].attempts + 1]
  BY <1>2 DEF Claims, rows
<1>6. /\ wrk[w].pc = "idle" /\ wrk[w] = AtRest("idle")
      /\ wrk'[w].pc = "claimed" /\ wrk'[w].job = j /\ ~wrk'[w].beating
  <2>1. wrk[w].pc = "idle" /\ wrk \in [Workers -> Worker] /\ Tidy(wrk[w])
    BY DEF ClaimStarts, Inductive, TypeOK
  <2>2. wrk[w] = AtRest("idle") /\ wrk[w] \in Worker
    BY <2>1 DEF Tidy
  <2> QED
    BY <1>5, <2>1, <2>2 DEF AtRest, Worker
<1>7. job'[j] = StartedRow(rows[j], w)
  BY <1>1, <1>3, <1>5
<1>8. Held(j, w)' /\ job'[j].task = rows[j].task
  BY <1>4, <1>7, QueueConstants DEF StartedRow, Row, Held
<1>9. job'[j].task \in SlotTasks => HasSlot(j, w)'
  BY <1>1, <1>2, <1>8 DEF HasSlot, Takeable
<1>10. \A v \in Workers \ {w} : wrk'[v] = wrk[v]
  BY <1>5 DEF Inductive, TypeOK
<1>11. job[j].status = "queued" /\ ~job[j].cancel
  BY <1>3, <1>4
<1>12. /\ wrk'[w].job = j /\ Held(j, w)' /\ job'[j].status = "running"
       /\ job'[j].task \in SlotTasks => HasSlot(j, w)'
       /\ ~job[j].cancel /\ job[j].status # "none" /\ \A v : ~Held(j, v)
  BY <1>6, <1>8, <1>9, <1>11 DEF Held
<1> QED
  BY <1>3, <1>6, <1>10, <1>12

\* How a worker comes to be busy, and to stay so.
LEMMA WorkerMoves ==
  ASSUME Inductive, RunnersHoldLease, ReadsInTime, Next, NEW w \in Workers,
         wrk'[w].pc \in {"claimed", "body", "finish"}
  PROVE  \/ \E skip \in Skips : ClaimStarts(w, skip)
         \/ /\ wrk'[w].job = wrk[w].job /\ wrk[w].pc \in {"claimed", "body", "finish"} /\ ~Finish(w)
            /\ wrk'[w].pc \in {"claimed", "body"} => wrk[w].pc \in {"claimed", "body"}
            /\ wrk'[w].pc = "claimed" => wrk[w].pc = "claimed"
            /\ wrk'[w].beating => wrk[w].pc = "claimed" \/ wrk[w].beating
            /\ wrk'[w].pc = "body" /\ ~wrk'[w].beating =>
                 wrk[w].pc = "body" /\ (~wrk[w].beating \/ job'[wrk[w].job].cancel)
<1>1. wrk \in [Workers -> Worker] /\ \A v \in Workers : wrk[v] \in Worker /\ Tidy(wrk[v])
  BY DEF Inductive, TypeOK
<1> DEFINE Busy(k) == k.pc \in {"claimed", "body", "finish"}
           Goes(k, l) ==
             /\ l.job = k.job /\ Busy(k)
             /\ l.pc \in {"claimed", "body"} => k.pc \in {"claimed", "body"}
             /\ l.pc = "claimed" => k.pc = "claimed"
             /\ l.beating => k.pc = "claimed" \/ k.beating
             /\ l.pc = "body" /\ ~l.beating => k.pc = "body" /\ (~k.beating \/ job'[k.job].cancel)
<1>2. \A pc \in {"off", "idle", "dead"} : ~Busy(AtRest(pc))
  BY DEF AtRest
<1>3. ASSUME wrk'[w] = wrk[w], ~Finish(w)
      PROVE  Goes(wrk[w], wrk'[w])
  BY <1>3
<1>4. ASSUME NEW v \in Workers, Finish(v)
      PROVE  v # w /\ wrk'[w] = wrk[w]
  <2>1. wrk' = [wrk EXCEPT ![v] = AtRest("idle")]
    BY <1>4 DEF Finish
  <2> QED
    BY <1>1, <1>2, <2>1
<1>5. ASSUME Finish(w)
      PROVE  FALSE
  BY <1>4, <1>5
<1>6. ASSUME NEW v \in Workers, Claim(v)
      PROVE  wrk'[w] = wrk[w] \/ \E skip \in Skips : ClaimStarts(w, skip)
  <2>1. PICK skip \in Skips :
          ClaimFindsNothing(v, skip) \/ ClaimDefers(v, skip) \/ ClaimStarts(v, skip)
    BY <1>6 DEF Claim
  <2>2. CASE ClaimFindsNothing(v, skip) \/ ClaimDefers(v, skip)
    BY <2>2 DEF ClaimFindsNothing, ClaimDefers
  <2>3. CASE ClaimStarts(v, skip)
    BY <2>3, ClaimStartsHolds
  <2> QED
    BY <2>1, <2>2, <2>3
<1>7. ASSUME NEW v \in Workers, LoadJob(v) \/ LoadFails(v)
      PROVE  Goes(wrk[w], wrk'[w])
  <2>1. wrk[v].pc = "claimed" /\ \/ wrk' = [wrk EXCEPT ![v] = [wrk[v] EXCEPT !.pc = "body", !.beating = TRUE]]
                                 \/ wrk' = [wrk EXCEPT ![v] = AtRest("idle")]
    BY <1>7 DEF LoadJob, LoadFails
  <2>2. CASE v = w
    <3>1. wrk'[w] = [wrk[w] EXCEPT !.pc = "body", !.beating = TRUE]
      BY <1>1, <1>2, <2>1, <2>2
    <3>2. wrk'[w].pc = "body" /\ wrk'[w].job = wrk[w].job /\ wrk'[w].beating
      BY <1>1, <3>1 DEF Worker
    <3> QED
      BY <2>1, <2>2, <3>2
  <2>3. CASE v # w
    BY <1>1, <2>1, <2>3
  <2> QED
    BY <2>2, <2>3
<1>8. ASSUME NEW v \in Workers, BodyReturns(v) \/ BodyRaises(v) \/ BodyStops(v)
      PROVE  Goes(wrk[w], wrk'[w])
  <2>1. PICK outcome : wrk[v].pc = "body" /\ wrk' = [wrk EXCEPT ![v].pc = "finish", ![v].outcome = outcome]
    BY <1>8 DEF BodyReturns, BodyRaises, BodyStops, EndsWith
  <2> QED
    BY <1>1, <2>1 DEF Worker
<1>9. ASSUME NEW v \in Workers, FinishFails(v)
      PROVE  Goes(wrk[w], wrk'[w])
  <2>1. \/ wrk' = [wrk EXCEPT ![v].outcome = "error"]
        \/ wrk' = [wrk EXCEPT ![v] = AtRest("idle")]
    BY <1>9 DEF FinishFails
  <2> QED
    BY <1>1, <1>2, <2>1 DEF Worker
<1>10. ASSUME NEW v \in Workers, HeartbeatRead(v)
       PROVE  wrk' = wrk
  BY <1>10 DEF HeartbeatRead, RunnersHoldLease, Held, Mine
<1>11. ASSUME NEW v \in Workers, MonitorRead(v)
       PROVE  Goes(wrk[w], wrk'[w])
  <2>1. wrk' = wrk \/ wrk' = [wrk EXCEPT ![v].stopEv = TRUE]
    BY <1>11 DEF MonitorRead
  <2> QED
    BY <1>1, <2>1 DEF Worker
<1>12. ASSUME NEW p \in inflight, Commit(p)
       PROVE  Goes(wrk[w], wrk'[w])
  <2>1. p \in Pending /\ p.worker \in Workers /\ p.job \in Jobs
    BY DEF Inductive, TypeOK, Pending
  <2>2. CASE p.live /\ p.stop
    <3>1. wrk' = [wrk EXCEPT ![p.worker] = [wrk[p.worker] EXCEPT !.stopEv = TRUE,
                                              !.beating = wrk[p.worker].beating /\ p.kind # "heartbeat"]]
      BY <1>1, <1>12, <2>1, <2>2 DEF Commit, Worker
    <3>2. job' = [job EXCEPT ![p.job] = CommittedRow(job[p.job], p)] /\ job \in [Jobs -> Row]
      BY <1>12 DEF Commit, Inductive, TypeOK
    <3>3. job'[p.job].cancel
      BY <2>1, <2>2, <3>2 DEF CommittedRow, ReadsInTime, Row
    <3>4. wrk[p.worker].job = p.job
      BY <2>2 DEF ReadsInTime
    <3>5. CASE w = p.worker
      <4>1. wrk'[w] = [wrk[w] EXCEPT !.stopEv = TRUE, !.beating = wrk[w].beating /\ p.kind # "heartbeat"]
        BY <1>1, <3>1, <3>5
      <4>2. /\ wrk'[w].pc = wrk[w].pc /\ wrk'[w].job = wrk[w].job
            /\ wrk'[w].beating => wrk[w].beating
        BY <1>1, <4>1 DEF Worker
      <4> QED
        BY <3>3, <3>4, <3>5, <4>2
    <3>6. CASE w # p.worker
      BY <1>1, <3>1, <3>6
    <3> QED
      BY <3>5, <3>6
  <2>3. CASE ~(p.live /\ p.stop)
    BY <1>12, <2>3 DEF Commit
  <2> QED
    BY <2>2, <2>3
<1>13. ASSUME NEW v \in Workers, Spawn(v) \/ Crash(v)
       PROVE  wrk'[w] = wrk[w]
  <2>1. \E pc \in {"off", "idle", "dead"} : wrk' = [wrk EXCEPT ![v] = AtRest(pc)]
    BY <1>13 DEF Spawn, Crash
  <2> QED
    BY <1>1, <1>2, <2>1
<1>14. ASSUME NEW i \in Jobs, Submit(i) \/ Poll(i) \/ CancelJob(i) \/ TabCloses(i) \/ AbandonJob(i)
       PROVE  wrk' = wrk
  BY <1>14 DEF Submit, Poll, CancelJob, TabCloses, AbandonJob
<1>15. ASSUME Tick
       PROVE  wrk' = wrk
  BY <1>15 DEF Tick
<1> HIDE DEF Goes
<1>16. Goes(wrk[w], wrk'[w]) \/ \E skip \in Skips : ClaimStarts(w, skip)
  BY <1>3, <1>4, <1>5, <1>6, <1>7, <1>8, <1>9, <1>10, <1>11, <1>12, <1>13, <1>14, <1>15 DEF Next
<1> QED
  BY <1>5, <1>16 DEF Goes

LEMMA RunnersHoldLeaseNext ==
  ASSUME Inductive, PendingIsOfJob, TimelyInductive, Next, ~Tick
  PROVE  RunnersHoldLease'
<1> SUFFICES ASSUME NEW w \in Workers, wrk'[w].pc \in {"claimed", "body", "finish"}
             PROVE  \E j \in Jobs :
                      /\ wrk'[w].job = j
                      /\ wrk'[w].pc = "claimed" \/ (wrk'[w].pc \in {"body", "finish"} /\ wrk'[w].beating) =>
                           Held(j, w)' /\ (job'[j].task \in SlotTasks => HasSlot(j, w)')
                      /\ wrk'[w].pc = "body" /\ ~wrk'[w].beating => job'[j].cancel
                      /\ job'[j].status # "none"
  BY DEF RunnersHoldLease, Executing, Held, HasSlot
<1>1. ASSUME NEW skip \in Skips, ClaimStarts(w, skip)
      PROVE  \E j \in Jobs :
               /\ wrk'[w].job = j /\ wrk'[w].pc = "claimed" /\ job'[j].status # "none"
               /\ Held(j, w)' /\ (job'[j].task \in SlotTasks => HasSlot(j, w)')
  BY <1>1, ClaimStartsHolds
<1>2. CASE \A skip \in Skips : ~ClaimStarts(w, skip)
  <2>1. /\ wrk'[w].job = wrk[w].job /\ wrk[w].pc \in {"claimed", "body", "finish"} /\ ~Finish(w)
        /\ wrk'[w].pc = "claimed" => wrk[w].pc = "claimed"
        /\ wrk'[w].beating => wrk[w].pc = "claimed" \/ wrk[w].beating
        /\ wrk'[w].pc = "body" /\ ~wrk'[w].beating =>
             wrk[w].pc = "body" /\ (~wrk[w].beating \/ job'[wrk[w].job].cancel)
    BY <1>2, WorkerMoves DEF TimelyInductive
  <2>2. PICK j \in Jobs : wrk[w].job = j
    BY <2>1, BusyOK DEF Inductive
  <2>3. /\ wrk[w].pc = "claimed" \/ (wrk[w].pc \in {"body", "finish"} /\ wrk[w].beating) =>
             Held(j, w) /\ (job[j].task \in SlotTasks => HasSlot(j, w))
        /\ wrk[w].pc = "body" /\ ~wrk[w].beating => job[j].cancel
        /\ job[j].status # "none"
    BY <2>1, <2>2 DEF TimelyInductive, RunnersHoldLease, Executing
  <2>4. /\ job'[j].status # "none" /\ job'[j].task = job[j].task
        /\ job[j].cancel => job'[j].cancel
    BY <2>3, SubmittedKeeps
  <2>5. Held(j, w) => Held(j, w)'
    BY <2>1, HeldNext DEF TimelyInductive
  <2>6. Held(j, w) /\ HasSlot(j, w) => HasSlot(j, w)'
    BY <2>1, SlotNext DEF TimelyInductive
  <2>7. ASSUME wrk'[w].pc = "claimed" \/ wrk'[w].beating
        PROVE  Held(j, w)' /\ (job'[j].task \in SlotTasks => HasSlot(j, w)')
    <3>1. wrk[w].pc = "claimed" \/ (wrk[w].pc \in {"body", "finish"} /\ wrk[w].beating)
      BY <2>1, <2>7
    <3> QED
      BY <2>3, <2>4, <2>5, <2>6, <3>1
  <2>8. wrk'[w].pc = "body" /\ ~wrk'[w].beating => job'[j].cancel
    BY <2>1, <2>2, <2>3, <2>4
  <2> QED
    BY <2>1, <2>2, <2>4, <2>7, <2>8 DEF Held, HasSlot
<1> QED
  BY <1>1, <1>2

LEMMA SoleRunnerNext ==
  ASSUME Inductive, TimelyInductive, Next
  PROVE  SoleRunner'
<1> SUFFICES ASSUME NEW v \in Workers, NEW w \in Workers, v # w,
                    wrk'[v].pc \in {"claimed", "body"}, wrk'[w].pc \in {"claimed", "body"},
                    wrk'[v].job = wrk'[w].job
             PROVE  FALSE
  BY DEF SoleRunner
<1> DEFINE Starts(u) == \E skip \in Skips : ClaimStarts(u, skip)
<1>1. ASSUME NEW u \in Workers, wrk'[u].pc \in {"claimed", "body"}, ~Starts(u)
      PROVE  wrk[u].pc \in {"claimed", "body"} /\ wrk'[u].job = wrk[u].job
  BY <1>1, WorkerMoves DEF TimelyInductive
<1>2. ASSUME NEW u \in Workers, NEW x \in Workers, u # x, Starts(u),
             wrk'[x].pc \in {"claimed", "body"}, wrk'[x].job = wrk'[u].job
      PROVE  FALSE
  <2>1. PICK j \in Jobs : /\ wrk'[u].job = j /\ ~job[j].cancel /\ \A y : ~Held(j, y)
                          /\ wrk'[x] = wrk[x]
    BY <1>2, ClaimStartsHolds
  <2>2. wrk[x].job = j /\ (wrk[x].pc = "claimed" \/ wrk[x].pc = "body")
    BY <1>2, <2>1
  <2> QED
    BY <2>1, <2>2 DEF TimelyInductive, RunnersHoldLease, Executing
<1>3. Starts(v) \/ Starts(w) => FALSE
  <2> HIDE DEF Starts
  <2> QED
    BY <1>2
<1> QED
  BY <1>1, <1>3 DEF TimelyInductive, SoleRunner

LEMMA SlotLeasesNext ==
  ASSUME Inductive, TimelyInductive, Next
  PROVE  SlotLeasesAgree'
<1> SUFFICES ASSUME NEW s \in Slots, slot'[s].job # NoJob
             PROVE  slot'[s].lease = job'[slot'[s].job].lease
  BY DEF SlotLeasesAgree
<1>1. job \in [Jobs -> Row] /\ slot \in [Slots -> SlotRow] /\ slot[s] \in SlotRow
  BY DEF Inductive, TypeOK
<1> DEFINE j == slot[s].job
<1>2. j # NoJob => /\ j \in Jobs /\ job[j] \in Row /\ slot[s].lease = job[j].lease
                   /\ job[j].status = "running" /\ job[j].owner = slot[s].owner
  BY <1>1 DEF TimelyInductive, SlotLeasesAgree, SlotRow, Inductive, SlotsFollowLeases, SlotsFollow
<1> HIDE DEF j
<1>3. ASSUME NEW i \in Jobs, Submit(i) \/ Poll(i) \/ CancelJob(i) \/ AbandonJob(i)
      PROVE  slot'[s] = slot[s] /\ (j # NoJob => job'[j].lease = job[j].lease)
  <2>1. slot' = slot
    BY <1>3 DEF Submit, Poll, CancelJob, AbandonJob
  <2>2. \/ job[i].status = "none" /\ \E r : job' = [job EXCEPT ![i] = r]
        \/ job' = [job EXCEPT ![i].client = ClientTicks]
        \/ job' = [job EXCEPT ![i] = StoppedRow(job[i])]
    BY <1>3 DEF Submit, Poll, CancelJob, AbandonJob
  <2>3. j # NoJob => StoppedRow(job[j]).lease = job[j].lease
    BY <1>2 DEF StoppedRow, Row
  <2> QED
    BY <1>1, <1>2, <2>1, <2>2, <2>3 DEF Row
<1>4. ASSUME NEW v \in Workers, Claim(v)
      PROVE  slot'[s].lease = job'[slot'[s].job].lease
  <2>1. PICK skip \in Skips :
          ClaimFindsNothing(v, skip) \/ ClaimDefers(v, skip) \/ ClaimStarts(v, skip)
    BY <1>4 DEF Claim
  <2> DEFINE rows == SweptRows(skip)
             slots == SweptSlots(skip)
  <2>2. DOMAIN rows = Jobs /\ DOMAIN slots = Slots
    BY DEF SweptRows, SweptSlots
  <2>3. slots[s] = FreeSlot \/ slots[s] = slot[s]
    BY DEF SweptSlots
  <2>4. slots[s].job # NoJob => /\ slots[s] = slot[s] /\ j # NoJob
                                /\ rows[j] = job[j]
    BY <1>2, <2>3 DEF FreeSlot, SweptSlots, SweptRows, Expires, j
  <2>5. ASSUME NEW k \in Jobs, rows[k].status = "queued", slots[s].job # NoJob
        PROVE  slots[s].job # k
    BY <1>2, <2>4, <2>5 DEF j
  <2>6. CASE ClaimFindsNothing(v, skip)
    BY <1>2, <2>4, <2>6 DEF ClaimFindsNothing, j
  <2>7. CASE ClaimDefers(v, skip)
    <3>1. PICK k \in Jobs : rows[k].status = "queued" /\ job' = [rows EXCEPT ![k].notBefore = BackoffTicks]
      BY <2>7 DEF ClaimDefers, Oldest, Claimable
    <3>2. slot' = slots
      BY <2>7 DEF ClaimDefers
    <3> HIDE DEF rows, slots
    <3> QED
      BY <1>2, <2>2, <2>4, <2>5, <3>1, <3>2 DEF j
  <2>8. CASE ClaimStarts(v, skip)
    <3>1. PICK k \in Jobs :
            /\ rows[k].status = "queued" /\ job' = [rows EXCEPT ![k] = StartedRow(rows[k], v)]
            /\ \/ slot' = slots
               \/ \E t \in Takeable(slots, skip) :
                    slot' = [slots EXCEPT ![t] = [job |-> k, owner |-> v, lease |-> LeaseTicks]]
      BY <2>8 DEF ClaimStarts, Claims, Oldest, Claimable
    <3>2. rows[k] \in Row
      <4> HIDE DEF rows
      <4> QED
        BY SweptRowsOK DEF rows, Inductive
    <3>3. StartedRow(rows[k], v).lease = LeaseTicks
      <4> HIDE DEF rows
      <4> QED
        BY <3>2 DEF StartedRow, Row
    <3> HIDE DEF rows, slots
    <3>4. CASE slot'[s] = slots[s]
      BY <1>2, <2>2, <2>4, <2>5, <3>1, <3>4 DEF j
    <3>5. CASE slot'[s] # slots[s]
      <4>1. slot'[s] = [job |-> k, owner |-> v, lease |-> LeaseTicks]
        BY <2>2, <3>1, <3>5 DEF Takeable
      <4> QED
        BY <2>2, <3>1, <3>3, <4>1
    <3> QED
      BY <3>4, <3>5
  <2> QED
    BY <2>1, <2>6, <2>7, <2>8
<1>5. ASSUME NEW v \in Workers, Finish(v)
      PROVE  slot'[s] = slot[s] /\ (j # NoJob => job'[j] = job[j])
  <2>1. \/ UNCHANGED <<job, slot>>
        \/ /\ slot' = [t \in Slots |-> IF slot[t].job = wrk[v].job THEN FreeSlot ELSE slot[t]]
           /\ job' = [job EXCEPT ![wrk[v].job] = FinishedRow(job[wrk[v].job], wrk[v].outcome)]
    BY <1>5 DEF Finish
  <2>2. FreeSlot.job = NoJob
    BY DEF FreeSlot
  <2> QED
    BY <1>1, <1>2, <2>1, <2>2 DEF j
<1>6. ASSUME NEW p \in inflight, Commit(p)
      PROVE  slot'[s].lease = job'[slot'[s].job].lease
  <2>1. /\ p \in Pending /\ p.job \in Jobs
        /\ job' = [job EXCEPT ![p.job] = CommittedRow(job[p.job], p)]
        /\ slot' = CommittedSlots(p)
    BY <1>6 DEF Commit, Inductive, TypeOK, Pending
  <2>2. slot'[s].job = j /\ j # NoJob
    BY <1>1, <2>1 DEF CommittedSlots, SlotRow, j
  <2>3. CASE p.job = j
    <3>1. job'[j] = CommittedRow(job[j], p)
      BY <1>1, <2>1, <2>3
    <3>2. job'[j].lease = IF p.kind = "heartbeat" THEN p.lease ELSE job[j].lease
      BY <1>2, <2>2, <3>1 DEF CommittedRow, Row
    <3>3. p.kind = "heartbeat" => slot[s].owner = p.worker
      BY <1>2, <2>2, <2>3 DEF TimelyInductive, ReadsInTime, Held, Verdicts
    <3>4. slot'[s].lease = IF p.kind = "heartbeat" THEN p.lease ELSE slot[s].lease
      BY <1>1, <2>1, <2>3, <3>3 DEF CommittedSlots, SlotRow, j
    <3> QED
      BY <1>2, <2>2, <3>2, <3>4
  <2>4. CASE p.job # j
    <3>1. job'[j] = job[j] /\ slot'[s] = slot[s]
      BY <1>1, <1>2, <2>1, <2>2, <2>4 DEF CommittedSlots, j
    <3> QED
      BY <1>2, <2>2, <3>1
  <2> QED
    BY <2>3, <2>4
<1>7. ASSUME Tick
      PROVE  slot'[s].lease = job'[slot'[s].job].lease
  <2>1. slot'[s] = [slot[s] EXCEPT !.lease = Less(slot[s].lease)]
    BY <1>7 DEF Tick
  <2>2. slot'[s].job = j /\ slot'[s].lease = Less(slot[s].lease)
    BY <1>1, <2>1 DEF SlotRow, j
  <2>3. job'[j].lease = Less(job[j].lease)
    BY <1>2, <1>7, <2>2 DEF Tick, Aged, Row
  <2> QED
    BY <1>2, <2>2, <2>3
<1>8. ASSUME NEW v \in Workers, \/ LoadJob(v) \/ LoadFails(v) \/ BodyReturns(v) \/ BodyRaises(v)
                                \/ BodyStops(v) \/ FinishFails(v) \/ HeartbeatRead(v) \/ MonitorRead(v)
                                \/ Spawn(v) \/ Crash(v)
      PROVE  slot' = slot /\ job' = job
  BY <1>8 DEF LoadJob, LoadFails, BodyReturns, BodyRaises, BodyStops, EndsWith, FinishFails,
              HeartbeatRead, MonitorRead, Spawn, Crash
<1>9. ASSUME NEW i \in Jobs, TabCloses(i)
      PROVE  slot' = slot /\ job' = job
  BY <1>9 DEF TabCloses
<1> QED
  BY <1>2, <1>3, <1>4, <1>5, <1>6, <1>7, <1>8, <1>9 DEF Next, j

LEMMA ReadsInTimeNext ==
  ASSUME Inductive, Inductive', PendingIsOfJob, TimelyInductive, Next, ~Tick
  PROVE  ReadsInTime'
<1> DEFINE Good(p) ==
      /\ p.stop => p.gone \/ job'[p.job].cancel
      /\ p.live => wrk'[p.worker].job = p.job
      /\ p.kind = "heartbeat" =>
           /\ p.lease = LeaseTicks
           /\ job'[p.job].status \in Verdicts \/ Held(p.job, p.worker)'
<1> SUFFICES ASSUME NEW q \in inflight'
             PROVE  Good(q)
  BY DEF ReadsInTime, Held
<1> USE DEF TimelyInductive
<1>1. wrk \in [Workers -> Worker] /\ q.worker \in Workers /\ q.job \in Jobs
  BY DEF Inductive, TypeOK, Pending
<1>2. ASSUME NEW p \in inflight, q.worker = p.worker, q.job = p.job, q.kind = p.kind,
             q.gone = p.gone, q.stop = p.stop, q.lease = p.lease, q.live => p.live
      PROVE  Good(q)
  <2>1. /\ p.stop => p.gone \/ job[p.job].cancel
        /\ p.live => wrk[p.worker].job = p.job
        /\ p.kind = "heartbeat" =>
             /\ p.lease = LeaseTicks
             /\ job[p.job].status \in Verdicts \/ Held(p.job, p.worker)
    BY DEF ReadsInTime
  <2>2. p.job \in Jobs /\ p.worker \in Workers /\ job[p.job].status # "none"
    BY <1>1, <1>2 DEF PendingIsOfJob
  <2>3. /\ job[p.job].cancel => job'[p.job].cancel
        /\ job[p.job].status \in Verdicts => job'[p.job].status \in Verdicts
    BY <2>2, SubmittedKeeps
  <2>4. ASSUME Held(p.job, p.worker)
        PROVE  job'[p.job].status \in Verdicts \/ Held(p.job, p.worker)'
    <3>1. CASE Finish(p.worker) /\ wrk[p.worker].job = p.job
      <4>1. job'[p.job] = FinishedRow(job[p.job], wrk[p.worker].outcome) /\ wrk[p.worker].outcome \in Verdicts
        BY <2>2, <2>4, <3>1, BusyOK DEF Finish, Held, Inductive, TypeOK
      <4>2. job[p.job] \in Row
        BY <2>2 DEF Inductive, TypeOK
      <4> QED
        BY <4>1, <4>2 DEF FinishedRow, Settled, Row, Verdicts
    <3>2. CASE ~(Finish(p.worker) /\ wrk[p.worker].job = p.job)
      BY <2>2, <2>4, <3>2, HeldNext
    <3> QED
      BY <3>1, <3>2
  <2>5. q.live => wrk'[p.worker].job = wrk[p.worker].job
    <3>1. ASSUME q.live
          PROVE  wrk'[p.worker].pc \in {"body", "finish"} /\ wrk[p.worker].pc # "idle"
      BY <1>2, <3>1 DEF Inductive, LiveThreadsExecute, Executing
    <3> QED
      BY <2>2, <3>1, WorkerMoves, ClaimStartsHolds
  <2> QED
    BY <1>2, <2>1, <2>3, <2>4, <2>5
<1>3. ASSUME NEW w \in Workers, NEW kind \in {"heartbeat", "monitor"}, NEW gone \in BOOLEAN,
             Reads(w, kind, gone), Mine(w), kind = "heartbeat" => Executing(w) /\ wrk[w].beating,
             job' = job, wrk' = wrk, q \notin inflight
      PROVE  Good(q)
  <2>1. /\ q.worker = w /\ q.job = wrk[w].job /\ q.kind = kind /\ q.gone = gone
        /\ q.stop => q.gone \/ job[wrk[w].job].cancel
        /\ kind = "heartbeat" => q.lease = LeaseTicks
    BY <1>3 DEF Reads
  <2>2. kind = "heartbeat" => Held(wrk[w].job, w)'
    BY <1>3 DEF RunnersHoldLease, Held
  <2> QED
    BY <1>3, <2>1, <2>2
<1> HIDE DEF Good
<1>4. q \in inflight => Good(q)
  BY <1>2
<1>5. ASSUME NEW w \in Workers, Finish(w) \/ FinishFails(w)
      PROVE  Good(q)
  <2>1. inflight' = Orphaned(w) \/ inflight' = inflight
    BY <1>5 DEF Finish, FinishFails
  <2>2. CASE inflight' = Orphaned(w)
    <3>1. PICK p \in inflight : q = p \/ q = [p EXCEPT !.live = FALSE]
      BY <2>2 DEF Orphaned
    <3>2. p \in Pending
      BY DEF Inductive, TypeOK
    <3>3. /\ q.worker = p.worker /\ q.job = p.job /\ q.kind = p.kind /\ q.gone = p.gone
          /\ q.stop = p.stop /\ q.lease = p.lease /\ (q.live => p.live)
      BY <3>1, <3>2 DEF Pending
    <3> QED
      BY <1>2, <3>3
  <2> QED
    BY <1>4, <2>1, <2>2
<1>6. ASSUME NEW w \in Workers, HeartbeatRead(w), q \notin inflight
      PROVE  Good(q)
  <2>1. /\ Executing(w) /\ wrk[w].beating /\ Mine(w) /\ job' = job /\ wrk' = wrk
        /\ Reads(w, "heartbeat", ClientGone(job[wrk[w].job]))
    BY <1>6 DEF HeartbeatRead
  <2>2. ClientGone(job[wrk[w].job]) \in BOOLEAN
    BY <2>1, BusyOK DEF ClientGone, Executing, Inductive, TypeOK, Row
  <2> QED
    BY <1>3, <1>6, <2>1, <2>2
<1>7. ASSUME NEW w \in Workers, MonitorRead(w), q \notin inflight
      PROVE  Good(q)
  <2>1. Mine(w) /\ job' = job /\ wrk' = wrk /\ Reads(w, "monitor", TRUE)
    BY <1>7 DEF MonitorRead
  <2> QED
    BY <1>3, <1>7, <2>1
<1>8. ASSUME NEW w \in Workers, \/ Claim(w) \/ LoadJob(w) \/ LoadFails(w) \/ BodyReturns(w)
                                \/ BodyRaises(w) \/ BodyStops(w) \/ Spawn(w) \/ Crash(w)
      PROVE  q \in inflight
  BY <1>8 DEF Claim, ClaimFindsNothing, ClaimDefers, ClaimStarts, Claims, LoadJob, LoadFails,
              BodyReturns, BodyRaises, BodyStops, EndsWith, Spawn, Crash
<1>9. ASSUME NEW i \in Jobs, Submit(i) \/ Poll(i) \/ CancelJob(i) \/ TabCloses(i) \/ AbandonJob(i)
      PROVE  q \in inflight
  BY <1>9 DEF Submit, Poll, CancelJob, TabCloses, AbandonJob
<1>10. ASSUME NEW p \in inflight, Commit(p)
       PROVE  q \in inflight
  BY <1>10 DEF Commit
<1> QED
  BY <1>4, <1>5, <1>6, <1>7, <1>8, <1>9, <1>10 DEF Next

\* Time passes only when no thread and no transaction is late.
LEMMA TickOnTime ==
  ASSUME Inductive, PendingIsOfJob, TimelyInductive, Tick, OnTime
  PROVE  RunnersHoldLease' /\ ReadsInTime'
<1>1. ReadsInTime'
  BY DEF Tick, OnTime, ReadsInTime
<1>2. ASSUME NEW w \in Workers, wrk[w].pc \in {"claimed", "body", "finish"}
      PROVE  \E j \in Jobs :
               /\ wrk'[w].job = j
               /\ wrk'[w].pc = "claimed" \/ (wrk'[w].pc \in {"body", "finish"} /\ wrk'[w].beating) =>
                    Held(j, w)' /\ (job'[j].task \in SlotTasks => HasSlot(j, w)')
               /\ wrk'[w].pc = "body" /\ ~wrk'[w].beating => job'[j].cancel
               /\ job'[j].status # "none"
  <2>1. PICK j \in Jobs : wrk[w].job = j /\ wrk[w].pc = "body" /\ wrk' = wrk
    BY <1>2, BusyOK DEF Tick, OnTime, Inductive
  <2>2. job[j] \in Row /\ job'[j] = Aged(job[j])
    BY <2>1 DEF Tick, Inductive, TypeOK
  <2>3. /\ job'[j].status = job[j].status /\ job'[j].task = job[j].task /\ job'[j].owner = job[j].owner
        /\ job'[j].cancel = job[j].cancel /\ job'[j].lease = Less(job[j].lease)
    BY <2>2 DEF Aged, Row
  <2>4. /\ job[j].status # "none" /\ (~wrk[w].beating => job[j].cancel)
        /\ wrk[w].beating => Held(j, w) /\ (job[j].task \in SlotTasks => HasSlot(j, w))
    BY <2>1 DEF TimelyInductive, RunnersHoldLease, Executing
  <2>5. ASSUME wrk[w].beating
        PROVE  Held(j, w)' /\ (job'[j].task \in SlotTasks => HasSlot(j, w)')
    <3>1. job[j].lease > 1 /\ job[j].lease \in Nat
      BY <2>1, <2>2, <2>4, <2>5 DEF OnTime, Mine, Held, Row
    <3>2. Less(job[j].lease) > 0
      BY <3>1 DEF Less
    <3>3. job'[j].task \in SlotTasks => HasSlot(j, w)'
      <4>1. Next /\ ~Finish(w)
        BY <2>1 DEF Next, Finish
      <4> QED
        BY <2>3, <2>4, <2>5, <4>1, SlotNext DEF TimelyInductive
    <3> QED
      BY <2>3, <2>4, <2>5, <3>2, <3>3 DEF Held
  <2> QED
    BY <2>1, <2>3, <2>4, <2>5 DEF Held, HasSlot
<1>3. wrk' = wrk
  BY DEF Tick
<1> QED
  BY <1>1, <1>2, <1>3 DEF RunnersHoldLease, Executing, Held, HasSlot

LEMMA TimelyNext ==
  ASSUME Inductive, PendingIsOfJob, TimelyInductive, [Next]_vars, Timely
  PROVE  TimelyInductive'
<1>1. CASE UNCHANGED vars
  BY <1>1 DEF vars, TimelyInductive, RunnersHoldLease, SoleRunner, SlotLeasesAgree, ReadsInTime,
              Executing, Held, HasSlot
<1>2. CASE Next /\ ~Tick
  BY <1>2, NextInductive, RunnersHoldLeaseNext, SoleRunnerNext, SlotLeasesNext, ReadsInTimeNext
     DEF TimelyInductive
<1>3. CASE Tick
  BY <1>3, TickOnTime, SoleRunnerNext, SlotLeasesNext DEF TimelyInductive, Next, Tick
<1> QED
  BY <1>1, <1>2, <1>3

\* Where only task bodies take long, one worker runs a job, with its lease and
\* its slot, unless the job was asked to stop.
THEOREM OneRunner == ASSUME Timely PROVE Spec => []OneLeasedRunner
<1>1. Init => TimelyInductive
  BY DEF Init, AtRest, FreeSlot, TimelyInductive, RunnersHoldLease, SoleRunner, SlotLeasesAgree,
         ReadsInTime, Executing
<1>2. Inductive /\ PendingIsOfJob /\ TimelyInductive /\ [Next]_vars => TimelyInductive'
  BY TimelyNext
<1>3. TimelyInductive => OneLeasedRunner
  <2>1. TimelyInductive => SingleExecution
    BY DEF TimelyInductive, SoleRunner, SingleExecution
  <2>2. TimelyInductive => RunnerIsLeased
    BY DEF TimelyInductive, RunnersHoldLease, RunnerIsLeased, Executing, Held, HasSlot, Mine
  <2> QED
    BY <2>1, <2>2 DEF OneLeasedRunner
<1> QED
  BY <1>1, <1>2, <1>3, InvariantHolds, ReadsAreOfJobs, PTL DEF Spec

=============================================================================
