---------------------------- MODULE MailRunProofs ----------------------------
(* Proofs about MailRun, for any jobs, messages, attempts and bounds. *)
EXTENDS MailRun, TLAPS

USE DEF Jobs, Runs

\* The constants, where only their types are needed.
LEMMA Constants ==
  /\ MaxAttempts \in Nat /\ MaxAttempts > 0 /\ StaleTicks \in Nat /\ StaleTicks > 0
  /\ \A j \in Jobs : Messages[j] \in Nat /\ Messages[j] > 0
  /\ \A r \in Runs : r[1] \in Jobs /\ r[2] \in 1..MaxAttempts /\ r = <<r[1], r[2]>>
BY RunConstants

\* What the invariant says of one run.
LEMMA OfRun ==
  ASSUME Inductive, NEW r \in Runs
  PROVE /\ run[r] \in Run /\ entry[r] \in Entry /\ taken[r] \in Nat
        /\ Agrees(run[r], taken[r], Messages[r[1]]) /\ Owns(run[r], entry[r])
        /\ Tells(entry[r], taken[r], Messages[r[1]])
        /\ Messages[r[1]] \in Nat \ {0}
BY RunConstants DEF Inductive, TypeOK, LocalsAgree, OwnEntry, LogTellsWhatLeft

\* The initial states satisfy the invariant.
LEMMA InitHolds == Init => Inductive
<1> SUFFICES ASSUME Init PROVE Inductive
  OBVIOUS
<1> USE Constants DEF Init
<1>1. TypeOK
  BY RunConstants DEF TypeOK, Row, JobStatuses, Run, Pcs, Entry, LogStatuses, NewRun
<1>2. AttemptsStartOnce /\ Overlap /\ LocalsAgree /\ OwnEntry /\ LogTellsWhatLeft
  BY DEF AttemptsStartOnce, Overlap, OneRunAtATime, Active, ActivePcs, LocalsAgree, Agrees,
     OwnEntry, Owns, LogTellsWhatLeft, Tells, NewRun
<1> QED
  BY <1>1, <1>2 DEF Inductive

-----------------------------------------------------------------------------
\* A step of one run, told by what it leaves in the three functions: the
\* invariant needs to be looked at for this run only.
LEMMA OneRunSteps ==
  ASSUME Inductive, NEW r \in Runs, NEW x \in Run, NEW e \in Entry, NEW t \in Nat,
         run' = [run EXCEPT ![r] = x], entry' = [entry EXCEPT ![r] = e],
         taken' = [taken EXCEPT ![r] = t],
         job' = job, busy' \in 0..StaleTicks, deaths' \in Nat,
         run[r].pc # "none",
         Agrees(x, t, Messages[r[1]]), Owns(x, e), Tells(e, t, Messages[r[1]]),
         RunsShort =>
           /\ x.pc \in ActivePcs => busy' > 0 /\ \A q \in Runs : Active(q) => q = r
           /\ busy' = 0 => \A q \in Runs : Active(q) => q = r
  PROVE  Inductive'
<1>1. /\ run'[r] = x /\ entry'[r] = e /\ taken'[r] = t
      /\ \A q \in Runs : q # r => run'[q] = run[q] /\ entry'[q] = entry[q] /\ taken'[q] = taken[q]
  BY DEF Inductive, TypeOK
<1>2. TypeOK'
  BY DEF Inductive, TypeOK
<1>3. AttemptsStartOnce'
  <2> SUFFICES ASSUME NEW j \in Jobs, NEW a \in 1..MaxAttempts, a > job[j].attempt
               PROVE run'[<<j, a>>].pc = "none"
    BY DEF Inductive, AttemptsStartOnce
  <2>1. <<j, a>> \in Runs /\ run[<<j, a>>].pc = "none"
    BY DEF Inductive, AttemptsStartOnce
  <2> QED
    BY <1>1, <2>1
<1>4. Overlap'
  <2> SUFFICES ASSUME RunsShort
               PROVE /\ \A p, q \in Runs : Active(p)' /\ Active(q)' => p = q
                     /\ \A q \in Runs : Active(q)' => busy' > 0
    BY DEF Overlap, OneRunAtATime
  <2>1. \A q \in Runs : q # r => (Active(q)' <=> Active(q))
    BY <1>1 DEF Active
  <2>2. Active(r)' <=> x.pc \in ActivePcs
    BY <1>1 DEF Active
  <2>3. /\ \A p, q \in Runs : Active(p) /\ Active(q) => p = q
        /\ \A q \in Runs : Active(q) => busy > 0
    BY DEF Inductive, Overlap, OneRunAtATime
  <2>4. busy' # 0 <=> busy' > 0
    BY Constants
  <2> QED
    BY <2>1, <2>2, <2>3, <2>4
<1>5. LocalsAgree' /\ OwnEntry' /\ LogTellsWhatLeft'
  BY <1>1 DEF Inductive, LocalsAgree, OwnEntry, LogTellsWhatLeft
<1> QED
  BY <1>2, <1>3, <1>4, <1>5 DEF Inductive

\* A step that only moves one run on, within its active part or out of it.
LEMMA OneRunGoesOn ==
  ASSUME Inductive, NEW r \in Runs, NEW x \in Run,
         run' = [run EXCEPT ![r] = x], UNCHANGED <<job, busy, entry, taken>>, deaths' \in Nat,
         run[r].pc # "none", x.pc \in ActivePcs => Active(r),
         Agrees(x, taken[r], Messages[r[1]]), Owns(x, entry[r])
  PROVE  Inductive'
<1>1. entry' = [entry EXCEPT ![r] = entry[r]] /\ taken' = [taken EXCEPT ![r] = taken[r]]
  BY DEF Inductive, TypeOK
<1>2. entry[r] \in Entry /\ taken[r] \in Nat /\ Tells(entry[r], taken[r], Messages[r[1]])
  BY OfRun
<1>3. busy' \in 0..StaleTicks /\ job' = job
  BY DEF Inductive, TypeOK
<1>4. RunsShort =>
        /\ x.pc \in ActivePcs => busy' > 0 /\ \A q \in Runs : Active(q) => q = r
        /\ busy' = 0 => \A q \in Runs : Active(q) => q = r
  BY <1>3 DEF Inductive, Overlap, OneRunAtATime
<1> QED
  BY <1>1, <1>2, <1>3, <1>4, OneRunSteps

-----------------------------------------------------------------------------
\* The queue's steps on a row leave the runs alone, but for Start.
LEMMA RowSteps ==
  ASSUME Inductive, NEW j \in Jobs, Submit(j) \/ CancelJob(j) \/ Recover(j)
  PROVE  Inductive'
<1> USE Constants
<1>1. UNCHANGED <<busy, run, entry, taken, deaths>>
  BY DEF Submit, CancelJob, Recover
<1>2. job[j] \in Row /\ job[j].attempt \in 0..MaxAttempts
  BY DEF Inductive, TypeOK, Row
<1>3. PICK new \in Row :
        /\ job' = [job EXCEPT ![j] = new] /\ new.attempt = job[j].attempt
        /\ new.status \in {"absent", "queued"} => job[j].attempt < MaxAttempts
  <2>0. job \in [Jobs -> Row]
    BY DEF Inductive, TypeOK
  <2>1. CASE Submit(j)
    <3> DEFINE new == [job[j] EXCEPT !.status = "queued"]
    <3>1. job' = [job EXCEPT ![j] = new]
      BY <2>0, <2>1 DEF Submit
    <3>2. job[j].attempt < MaxAttempts
      BY <2>1 DEF Submit, Inductive, AttemptsStartOnce
    <3>3. new \in Row /\ new.attempt = job[j].attempt
      BY <1>2 DEF Row, JobStatuses
    <3> QED
      BY <3>1, <3>2, <3>3
  <2>2. CASE CancelJob(j)
    <3> DEFINE s == IF job[j].status = "queued" THEN "cancelled" ELSE job[j].status
               new == [job[j] EXCEPT !.cancel = TRUE, !.status = s]
    <3>1. s \in {"cancelled", "running"}
      BY <2>2 DEF CancelJob
    <3>2. job' = [job EXCEPT ![j] = new]
      BY <2>0, <2>2, <1>2 DEF CancelJob, Row
    <3>3. new \in Row /\ new.attempt = job[j].attempt /\ new.status = s
      BY <3>1, <1>2 DEF Row, JobStatuses
    <3> QED
      BY <3>1, <3>2, <3>3
  <2>3. CASE Recover(j)
    <3> DEFINE s == IF job[j].cancel THEN "cancelled"
                    ELSE IF job[j].attempt >= MaxAttempts THEN "error" ELSE "queued"
               new == [job[j] EXCEPT !.status = s]
    <3>1. s \in JobStatuses /\ (s \in {"absent", "queued"} => job[j].attempt < MaxAttempts)
      BY <1>2 DEF JobStatuses
    <3>2. job' = [job EXCEPT ![j] = new]
      BY <2>0, <2>3 DEF Recover
    <3>3. new \in Row /\ new.attempt = job[j].attempt /\ new.status = s
      BY <3>1, <1>2 DEF Row
    <3> QED
      BY <3>1, <3>2, <3>3
  <2> QED
    BY <2>1, <2>2, <2>3
<1>4. TypeOK'
  BY <1>1, <1>3 DEF Inductive, TypeOK
<1>5. AttemptsStartOnce'
  <2>1. job'[j] = new /\ \A i \in Jobs : i # j => job'[i] = job[i]
    BY <1>3 DEF Inductive, TypeOK
  <2> QED
    BY <1>1, <1>3, <2>1 DEF Inductive, AttemptsStartOnce
<1>6. Overlap' /\ LocalsAgree' /\ OwnEntry' /\ LogTellsWhatLeft'
  BY <1>1 DEF Inductive, Overlap, OneRunAtATime, Active, LocalsAgree, OwnEntry, LogTellsWhatLeft
<1> QED
  BY <1>4, <1>5, <1>6 DEF Inductive

\* A claim starts the next attempt, whose run had not begun.
LEMMA StartStep == ASSUME Inductive, NEW j \in Jobs, Start(j) PROVE Inductive'
<1> USE Constants
<1>1. /\ job \in [Jobs -> Row] /\ job[j] \in Row /\ job[j].attempt \in 0..MaxAttempts
      /\ job[j].attempt < MaxAttempts
  BY DEF Inductive, TypeOK, Row, AttemptsStartOnce, Start
<1>2. PICK n \in 1..MaxAttempts : n = job[j].attempt + 1
  BY <1>1
<1> DEFINE r == <<j, n>>
           x == [run[r] EXCEPT !.pc = "claim"]
           new == [job[j] EXCEPT !.status = "running", !.attempt = n]
<1>3. new \in Row /\ new.attempt = n /\ new.status = "running" /\ r \in Runs
  <2>1. n \in 0..MaxAttempts /\ "running" \in JobStatuses
    BY DEF JobStatuses
  <2>2. job[j] \in Row
    BY <1>1
  <2>3. new \in Row /\ new.attempt = n /\ new.status = "running"
    BY <2>1, <2>2 DEF Row
  <2> QED
    BY <2>3
<1>4. run[r] \in Run /\ run[r].pc = "none"
  BY <1>1, <1>2, <1>3 DEF Inductive, TypeOK, AttemptsStartOnce
<1>5. x \in Run /\ x.pc = "claim" /\ x.sent = run[r].sent /\ x.status = run[r].status
  BY <1>4 DEF Run, Pcs
<1>6. /\ job' = [job EXCEPT ![j] = new] /\ run' = [run EXCEPT ![r] = x]
      /\ UNCHANGED <<busy, entry, taken, deaths>>
  BY <1>1, <1>2 DEF Start
<1>7. /\ job'[j] = new /\ \A i \in Jobs : i # j => job'[i] = job[i]
      /\ run'[r] = x /\ \A q \in Runs : q # r => run'[q] = run[q]
  BY <1>3, <1>6 DEF Inductive, TypeOK
<1> HIDE DEF new, x
<1>8. TypeOK'
  BY <1>3, <1>5, <1>6 DEF Inductive, TypeOK
<1>9. AttemptsStartOnce'
  <2> SUFFICES ASSUME NEW i \in Jobs
               PROVE /\ job'[i].status \in {"absent", "queued"} => job'[i].attempt < MaxAttempts
                     /\ \A a \in 1..MaxAttempts : a > job'[i].attempt => run'[<<i, a>>].pc = "none"
    BY DEF AttemptsStartOnce
  <2>1. CASE i = j
    <3> SUFFICES ASSUME NEW a \in 1..MaxAttempts, a > n PROVE run'[<<j, a>>].pc = "none"
      BY <2>1, <1>3, <1>7
    <3>1. <<j, a>> \in Runs /\ <<j, a>> # r /\ a > job[j].attempt
      BY <1>1, <1>2
    <3> QED
      BY <3>1, <1>7 DEF Inductive, AttemptsStartOnce
  <2>2. CASE i # j
    <3>1. \A a \in 1..MaxAttempts : <<i, a>> \in Runs /\ <<i, a>> # r
      BY <2>2
    <3> QED
      BY <2>2, <3>1, <1>7 DEF Inductive, AttemptsStartOnce
  <2> QED
    BY <2>1, <2>2
<1>10. Overlap'
  <2>1. ~Active(r)' /\ \A q \in Runs : q # r => (Active(q)' <=> Active(q))
    BY <1>5, <1>7 DEF Active, ActivePcs
  <2> QED
    BY <1>6, <2>1 DEF Inductive, Overlap, OneRunAtATime
<1>11. LocalsAgree' /\ OwnEntry' /\ LogTellsWhatLeft'
  <2>1. Agrees(x, taken[r], Messages[j]) /\ Owns(x, entry[r])
    <3>1. Agrees(run[r], taken[r], Messages[r[1]]) /\ Owns(run[r], entry[r]) /\ r[1] = j
      BY <1>3, OfRun
    <3> QED
      BY <3>1, <1>4, <1>5 DEF Agrees, Owns, ActivePcs
  <2> QED
    BY <1>3, <1>6, <1>7, <2>1 DEF Inductive, LocalsAgree, OwnEntry, LogTellsWhatLeft
<1> QED
  BY <1>8, <1>9, <1>10, <1>11 DEF Inductive

-----------------------------------------------------------------------------
\* The claim takes the free mail, or ends the run with a skipped entry.
LEMMA ClaimRunStep == ASSUME Inductive, NEW r \in Runs, ClaimRun(r) PROVE Inductive'
<1> USE Constants
<1> DEFINE x == [run[r] EXCEPT !.pc = IF busy > 0 THEN "verdict" ELSE "build"]
           e == [entry[r] EXCEPT !.status = IF busy > 0 THEN "skipped" ELSE "running"]
<1>1. /\ run[r] \in Run /\ entry[r] \in Entry /\ taken[r] \in Nat /\ run[r].pc = "claim"
      /\ Agrees(run[r], taken[r], Messages[r[1]])
  BY OfRun DEF ClaimRun, At
<1>2. /\ x \in Run /\ x.pc = (IF busy > 0 THEN "verdict" ELSE "build")
      /\ x.status = run[r].status /\ x.sent = run[r].sent
  BY <1>1 DEF Run, Pcs
<1>3. e \in Entry /\ e.status = (IF busy > 0 THEN "skipped" ELSE "running")
  BY <1>1 DEF Entry, LogStatuses
<1>4. /\ run' = [run EXCEPT ![r] = x] /\ entry' = [entry EXCEPT ![r] = e]
      /\ busy' = (IF busy > 0 THEN busy ELSE StaleTicks)
      /\ UNCHANGED <<job, taken, deaths>>
  BY DEF ClaimRun, Goes
<1>5. taken' = [taken EXCEPT ![r] = taken[r]]
  BY <1>4 DEF Inductive, TypeOK
<1> HIDE DEF x, e
<1>6. Agrees(x, taken[r], Messages[r[1]])
  BY <1>1, <1>2 DEF Agrees
<1>7. Owns(x, e)
  BY <1>2, <1>3 DEF Owns, ActivePcs
<1>8. Tells(e, taken[r], Messages[r[1]])
  BY <1>1, <1>3 DEF Tells, Agrees
<1>9. busy \in 0..StaleTicks /\ busy' \in 0..StaleTicks /\ deaths' \in Nat /\ busy' > 0
  BY <1>4 DEF Inductive, TypeOK
<1>10. RunsShort =>
         /\ x.pc \in ActivePcs => busy' > 0 /\ \A q \in Runs : Active(q) => q = r
         /\ busy' = 0 => \A q \in Runs : Active(q) => q = r
  BY <1>2, <1>9 DEF Inductive, Overlap, ActivePcs
<1>11. job' = job /\ run[r].pc # "none"
  BY <1>1, <1>4
<1> QED
  BY <1>1, <1>2, <1>3, <1>4, <1>5, <1>6, <1>7, <1>8, <1>9, <1>10, <1>11, OneRunSteps

\* A run whose claim raised has sent nothing and logged nothing.
LEMMA ClaimRunRaisesStep == ASSUME Inductive, NEW r \in Runs, ClaimRunRaises(r) PROVE Inductive'
<1> DEFINE x == [run[r] EXCEPT !.pc = "verdict"]
<1>1. run[r] \in Run /\ run[r].pc = "claim"
  BY OfRun DEF ClaimRunRaises, At
<1>2. x \in Run /\ x.pc = "verdict"
  BY <1>1 DEF Run, Pcs
<1>3. run' = [run EXCEPT ![r] = x] /\ UNCHANGED <<job, busy, entry, taken, deaths>>
  BY DEF ClaimRunRaises, Goes
<1> HIDE DEF x
<1>4. Agrees(x, taken[r], Messages[r[1]]) /\ Owns(x, entry[r]) /\ x.pc \notin ActivePcs
  BY <1>2 DEF Agrees, Owns, ActivePcs
<1> QED
  BY <1>1, <1>2, <1>3, <1>4, OneRunGoesOn DEF Inductive, TypeOK

\* A run that is still sending nothing, and one whose report is out.
LEMMA BuildStep == ASSUME Inductive, NEW r \in Runs, Build(r) PROVE Inductive'
<1>1. /\ run[r] \in Run /\ run[r].pc = "build" /\ Active(r)
      /\ Agrees(run[r], taken[r], Messages[r[1]]) /\ Owns(run[r], entry[r])
  BY OfRun DEF Build, At, Active, ActivePcs
<1>2. PICK x \in Run :
        /\ run' = [run EXCEPT ![r] = x] /\ x.sent = run[r].sent
        /\ \/ x.pc = "built" /\ x.status = run[r].status
           \/ x.pc = "finish" /\ x.status \in {"held", run[r].status}
  <2>1. CASE Goes(r, "built")
    <3> DEFINE x == [run[r] EXCEPT !.pc = "built"]
    <3>1. x \in Run /\ x.sent = run[r].sent /\ x.pc = "built" /\ x.status = run[r].status
      BY <1>1 DEF Run, Pcs
    <3> QED
      BY <2>1, <3>1 DEF Goes
  <2>2. CASE run' = [run EXCEPT ![r].pc = "finish", ![r].status = "held", ![r].result = "done"]
    <3> DEFINE x == [run[r] EXCEPT !.pc = "finish", !.status = "held", !.result = "done"]
    <3>1. x \in Run /\ x.sent = run[r].sent /\ x.pc = "finish" /\ x.status = "held"
      BY <1>1 DEF Run, Pcs
    <3>2. run' = [run EXCEPT ![r] = x]
      BY <2>2 DEF Inductive, TypeOK
    <3> QED
      BY <3>1, <3>2
  <2>3. CASE Raised(r)
    <3> DEFINE x == [run[r] EXCEPT !.pc = "finish", !.result = "error"]
    <3>1. x \in Run /\ x.sent = run[r].sent /\ x.pc = "finish" /\ x.status = run[r].status
      BY <1>1 DEF Run, Pcs
    <3>2. run' = [run EXCEPT ![r] = x]
      BY <2>3 DEF Inductive, TypeOK, Raised
    <3> QED
      BY <3>1, <3>2
  <2>4. CASE Cancelled(r)
    <3> DEFINE x == [run[r] EXCEPT !.pc = "finish", !.cancelled = TRUE, !.result = "cancelled"]
    <3>1. x \in Run /\ x.sent = run[r].sent /\ x.pc = "finish" /\ x.status = run[r].status
      BY <1>1 DEF Run, Pcs
    <3>2. run' = [run EXCEPT ![r] = x]
      BY <2>4 DEF Inductive, TypeOK, Cancelled
    <3> QED
      BY <3>1, <3>2
  <2> QED
    BY <2>1, <2>2, <2>3, <2>4 DEF Build
<1>3. Agrees(x, taken[r], Messages[r[1]]) /\ Owns(x, entry[r])
  BY <1>1, <1>2, OfRun DEF Agrees, Owns, ActivePcs
<1> QED
  BY <1>1, <1>2, <1>3, OneRunGoesOn DEF Build, Inductive, TypeOK

\* The last chance to stop before the first message leaves.
LEMMA StartSendingStep == ASSUME Inductive, NEW r \in Runs, StartSending(r) PROVE Inductive'
<1>1. /\ run[r] \in Run /\ run[r].pc = "built" /\ Active(r) /\ Messages[r[1]] \in Nat \ {0}
      /\ Agrees(run[r], taken[r], Messages[r[1]]) /\ Owns(run[r], entry[r])
  BY OfRun DEF StartSending, At, Active, ActivePcs
<1>2. PICK x \in Run :
        /\ run' = [run EXCEPT ![r] = x] /\ x.sent = run[r].sent /\ x.status = run[r].status
        /\ x.pc \in {"send", "finish"}
  <2>1. CASE Stops(r)
    <3> DEFINE x == [run[r] EXCEPT !.pc = "finish", !.cancelled = TRUE, !.result = "cancelled"]
    <3>1. x \in Run /\ x.sent = run[r].sent /\ x.pc = "finish" /\ x.status = run[r].status
      BY <1>1 DEF Run, Pcs
    <3>2. run' = [run EXCEPT ![r] = x]
      BY <2>1 DEF Inductive, TypeOK, StartSending, Cancelled
    <3> QED
      BY <3>1, <3>2
  <2>2. CASE ~Stops(r)
    <3> DEFINE x == [run[r] EXCEPT !.pc = "send"]
    <3>1. x \in Run /\ x.sent = run[r].sent /\ x.pc = "send" /\ x.status = run[r].status
      BY <1>1 DEF Run, Pcs
    <3>2. run' = [run EXCEPT ![r] = x]
      BY <2>2 DEF StartSending, Goes
    <3> QED
      BY <3>1, <3>2
  <2> QED
    BY <2>1, <2>2
<1>3. run[r].sent = 0 /\ taken[r] = 0 /\ run[r].status = "failed" /\ entry[r].status = "running"
  BY <1>1 DEF Agrees, Owns, ActivePcs
<1>4. Agrees(x, taken[r], Messages[r[1]]) /\ Owns(x, entry[r])
  BY <1>1, <1>2, <1>3 DEF Agrees, Owns
<1> QED
  BY <1>1, <1>2, <1>4, OneRunGoesOn DEF StartSending, Inductive, TypeOK

\* A step of a sending run: SMTP has taken t messages, and x is what the run
\* is then.
LEMMA SendingSteps ==
  ASSUME Inductive, NEW r \in Runs, run[r].pc = "send", NEW x \in Run, NEW t \in Nat,
         run' = [run EXCEPT ![r] = x], taken' = [taken EXCEPT ![r] = t],
         UNCHANGED <<job, busy, entry, deaths>>,
         x.pc \in ActivePcs, Agrees(x, t, Messages[r[1]])
  PROVE  Inductive'
<1>1. entry[r] \in Entry /\ entry[r].status = "running" /\ Active(r)
  BY OfRun DEF Owns, Active, ActivePcs
<1>2. Owns(x, entry[r]) /\ Tells(entry[r], t, Messages[r[1]])
  BY <1>1 DEF Owns, Tells, ActivePcs
<1>3. entry' = [entry EXCEPT ![r] = entry[r]] /\ busy' \in 0..StaleTicks /\ deaths' \in Nat
  BY DEF Inductive, TypeOK
<1>4. RunsShort => busy' > 0 /\ \A q \in Runs : Active(q) => q = r
  BY <1>1 DEF Inductive, Overlap, OneRunAtATime
<1>5. job' = job /\ run[r].pc # "none"
  OBVIOUS
<1> QED
  BY <1>1, <1>2, <1>3, <1>4, <1>5, OneRunSteps

\* A message that is delivered is listed.
LEMMA DeliverStep == ASSUME Inductive, NEW r \in Runs, Deliver(r) PROVE Inductive'
<1> DEFINE p == IF run[r].sent + 1 = Messages[r[1]] THEN "sent" ELSE "send"
           x == [run[r] EXCEPT !.sent = run[r].sent + 1, !.pc = p]
<1>1. /\ run[r] \in Run /\ run[r].pc = "send" /\ Messages[r[1]] \in Nat \ {0}
      /\ taken[r] \in Nat /\ Agrees(run[r], taken[r], Messages[r[1]])
  BY OfRun DEF Deliver, At
<1>2. run[r].sent \in Nat /\ taken[r] = run[r].sent /\ run[r].sent < Messages[r[1]]
      /\ run[r].status = "failed"
  BY <1>1 DEF Agrees, Run
<1>3. x \in Run /\ x.sent = run[r].sent + 1 /\ x.pc = p /\ x.status = run[r].status
  <2>1. p \in Pcs /\ run[r].sent + 1 \in Nat
    BY <1>2 DEF Pcs
  <2> HIDE DEF p
  <2> QED
    BY <1>1, <2>1 DEF Run
<1>4. run' = [run EXCEPT ![r] = x] /\ taken' = [taken EXCEPT ![r] = taken[r] + 1]
  BY DEF Deliver, Inductive, TypeOK
<1>5. Agrees(x, taken[r] + 1, Messages[r[1]]) /\ x.pc \in ActivePcs
  <2>1. p = "sent" <=> run[r].sent + 1 = Messages[r[1]]
    OBVIOUS
  <2>2. p = "sent" \/ p = "send"
    OBVIOUS
  <2> HIDE DEF x, p
  <2>3. p = "send" => x.sent < Messages[r[1]]
    BY <1>1, <1>2, <1>3, <2>1
  <2> QED
    BY <1>1, <1>2, <1>3, <2>1, <2>2, <2>3 DEF Agrees, ActivePcs
<1>6. taken[r] + 1 \in Nat /\ UNCHANGED <<job, busy, entry, deaths>>
  BY <1>1 DEF Deliver
<1> HIDE DEF x
<1> QED
  BY <1>1, <1>3, <1>4, <1>5, <1>6, SendingSteps

\* The delivery that raises may or may not have left.
LEMMA DeliverRaisesStep == ASSUME Inductive, NEW r \in Runs, DeliverRaises(r) PROVE Inductive'
<1> DEFINE x == [run[r] EXCEPT !.pc = "finish", !.result = "error"]
<1>1. /\ run[r] \in Run /\ run[r].pc = "send"
      /\ taken[r] \in Nat /\ Agrees(run[r], taken[r], Messages[r[1]])
  BY OfRun DEF DeliverRaises, At
<1>2. taken[r] = run[r].sent /\ run[r].status = "failed"
  BY <1>1 DEF Agrees
<1>3. x \in Run /\ x.sent = run[r].sent /\ x.pc = "finish" /\ x.status = run[r].status
  BY <1>1 DEF Run, Pcs
<1>4. PICK t \in {taken[r], taken[r] + 1} : taken' = [taken EXCEPT ![r] = t]
  BY DEF DeliverRaises, Inductive, TypeOK
<1>5. run' = [run EXCEPT ![r] = x] /\ UNCHANGED <<job, busy, entry, deaths>>
  BY DEF DeliverRaises, Raised, Inductive, TypeOK
<1>6. t \in Nat /\ t \in {x.sent, x.sent + 1}
  BY <1>1, <1>2, <1>3, <1>4
<1> HIDE DEF x
<1>7. Agrees(x, t, Messages[r[1]]) /\ x.pc \in ActivePcs
  BY <1>2, <1>3, <1>6 DEF Agrees, ActivePcs
<1> QED
  BY <1>1, <1>3, <1>4, <1>5, <1>6, <1>7, SendingSteps

\* Every message is out: the status becomes "sent", unless the lookup raised.
LEMMA ReportSentStep == ASSUME Inductive, NEW r \in Runs, ReportSent(r) PROVE Inductive'
<1>1. /\ run[r] \in Run /\ run[r].pc = "sent" /\ Active(r)
      /\ Agrees(run[r], taken[r], Messages[r[1]]) /\ Owns(run[r], entry[r])
  BY OfRun DEF ReportSent, At, Active, ActivePcs
<1>2. PICK x \in Run :
        /\ run' = [run EXCEPT ![r] = x] /\ x.sent = run[r].sent /\ x.pc = "finish"
        /\ x.status \in {"sent", run[r].status}
  <2>1. CASE Raised(r)
    <3> DEFINE x == [run[r] EXCEPT !.pc = "finish", !.result = "error"]
    <3>1. x \in Run /\ x.sent = run[r].sent /\ x.pc = "finish" /\ x.status = run[r].status
      BY <1>1 DEF Run, Pcs
    <3>2. run' = [run EXCEPT ![r] = x]
      BY <2>1 DEF Inductive, TypeOK, Raised
    <3> QED
      BY <3>1, <3>2
  <2>2. CASE ~Raised(r)
    <3>1. PICK c \in BOOLEAN : c <=> Stops(r)
      OBVIOUS
    <3>2. PICK z \in {"cancelled", "done"} : z = IF Stops(r) THEN "cancelled" ELSE "done"
      OBVIOUS
    <3> DEFINE x == [run[r] EXCEPT !.pc = "finish", !.status = "sent", !.cancelled = c, !.result = z]
    <3>3. x \in Run /\ x.sent = run[r].sent /\ x.pc = "finish" /\ x.status = "sent"
      BY <1>1 DEF Run, Pcs
    <3>4. run' = [run EXCEPT ![r].pc = "finish", ![r].status = "sent",
                             ![r].cancelled = c, ![r].result = z]
      BY <2>2, <3>1, <3>2 DEF ReportSent, Stops, Current
    <3>5. run' = [run EXCEPT ![r] = x]
      BY <3>4 DEF Inductive, TypeOK
    <3> QED
      BY <3>3, <3>5
  <2> QED
    BY <2>1, <2>2
<1>3. Agrees(x, taken[r], Messages[r[1]]) /\ Owns(x, entry[r])
  BY <1>1, <1>2, OfRun DEF Agrees, Owns, ActivePcs
<1> QED
  BY <1>1, <1>2, <1>3, OneRunGoesOn DEF ReportSent, Inductive, TypeOK

\* What the task function ends with belongs to a run that is not active.
LEMMA EndsRun == ASSUME NEW result \in {"done", "error", "cancelled"}
                 PROVE  Ends(result) \in Run /\ Ends(result).pc = "verdict"
BY DEF Ends, NewRun, Run, Pcs

LEMMA EndedRun == Ended \in Run /\ Ended.pc = "over"
BY DEF Ended, NewRun, Run, Pcs

\* The entry gets what the local variables say, and the mail is free: no
\* other run was active.
LEMMA FinishRunStep == ASSUME Inductive, NEW r \in Runs, FinishRun(r) PROVE Inductive'
<1> DEFINE x == Ends(run[r].result)
           e == [status |-> run[r].status, cancelled |-> run[r].cancelled, messages |-> run[r].sent]
<1>1. /\ run[r] \in Run /\ run[r].pc = "finish" /\ taken[r] \in Nat /\ Active(r)
      /\ Agrees(run[r], taken[r], Messages[r[1]])
  BY OfRun DEF FinishRun, At, Active, ActivePcs
<1>2. x \in Run /\ x.pc = "verdict" /\ e \in Entry
  BY <1>1, EndsRun DEF Run, Entry, LogStatuses
<1>3. /\ run' = [run EXCEPT ![r] = x] /\ entry' = [entry EXCEPT ![r] = e]
      /\ busy' = 0 /\ UNCHANGED <<job, taken, deaths>>
  BY DEF FinishRun
<1>4. Tells(e, taken[r], Messages[r[1]])
  BY <1>1 DEF Tells, Agrees, Run
<1>5. RunsShort => \A q \in Runs : Active(q) => q = r
  BY <1>1 DEF Inductive, Overlap, OneRunAtATime
<1> HIDE DEF x, e
<1>6. Agrees(x, taken[r], Messages[r[1]]) /\ Owns(x, e) /\ x.pc \notin ActivePcs
  BY <1>2 DEF Agrees, Owns, ActivePcs
<1>7. taken' = [taken EXCEPT ![r] = taken[r]] /\ busy' \in 0..StaleTicks /\ deaths' \in Nat
  BY <1>3, Constants DEF Inductive, TypeOK
<1>8. job' = job /\ run[r].pc # "none"
  BY <1>1, <1>3
<1> QED
  BY <1>1, <1>2, <1>3, <1>4, <1>5, <1>6, <1>7, <1>8, OneRunSteps

\* A run that leaves its entry "running" is over all the same.
LEMMA FinishRunRaisesStep == ASSUME Inductive, NEW r \in Runs, FinishRunRaises(r) PROVE Inductive'
<1> DEFINE x == Ends("error")
<1>1. run[r].pc = "finish"
  BY DEF FinishRunRaises, At
<1>2. x \in Run /\ x.pc = "verdict"
  BY EndsRun
<1>3. run' = [run EXCEPT ![r] = x] /\ UNCHANGED <<job, busy, entry, taken, deaths>>
  BY DEF FinishRunRaises
<1> HIDE DEF x
<1>4. Agrees(x, taken[r], Messages[r[1]]) /\ Owns(x, entry[r]) /\ x.pc \notin ActivePcs
  BY <1>2 DEF Agrees, Owns, ActivePcs
<1> QED
  BY <1>1, <1>2, <1>3, <1>4, OneRunGoesOn DEF Inductive, TypeOK

\* A worker that dies takes its run with it.
LEMMA DieStep == ASSUME Inductive, NEW r \in Runs, Die(r) PROVE Inductive'
<1>1. run[r].pc # "none" /\ deaths' \in Nat
  BY DEF Die, Executing, Inductive, TypeOK
<1>2. run' = [run EXCEPT ![r] = Ended] /\ UNCHANGED <<job, busy, entry, taken>>
  BY DEF Die
<1>3. Agrees(Ended, taken[r], Messages[r[1]]) /\ Owns(Ended, entry[r]) /\ Ended.pc \notin ActivePcs
  BY EndedRun DEF Agrees, Owns, ActivePcs
<1> QED
  BY <1>1, <1>2, <1>3, EndedRun, OneRunGoesOn

\* The verdict is written on the row only while the attempt is current.
LEMMA VerdictStep == ASSUME Inductive, NEW r \in Runs, Verdict(r) PROVE Inductive'
<1> DEFINE i == r[1]
           s == IF job[i].cancel /\ run[r].result = "done" THEN "cancelled" ELSE run[r].result
           new == IF Current(r) THEN [job[i] EXCEPT !.status = s] ELSE job[i]
<1>1. /\ i \in Jobs /\ job \in [Jobs -> Row] /\ job[i] \in Row
      /\ run[r] \in Run /\ run[r].pc = "verdict"
  BY Constants DEF Verdict, At, Inductive, TypeOK
<1>2. s \in {"done", "error", "cancelled"}
  BY <1>1 DEF Run
<1>3. new \in Row /\ new.attempt = job[i].attempt /\ new.status \in {job[i].status, s}
  BY <1>1, <1>2 DEF Row, JobStatuses
<1>4. job' = [job EXCEPT ![i] = new] /\ run' = [run EXCEPT ![r] = Ended]
      /\ UNCHANGED <<busy, entry, taken, deaths>>
  BY <1>1 DEF Verdict
<1>5. /\ job'[i] = new /\ \A k \in Jobs : k # i => job'[k] = job[k]
      /\ run'[r] = Ended /\ \A q \in Runs : q # r => run'[q] = run[q]
  BY <1>1, <1>4 DEF Inductive, TypeOK
<1> HIDE DEF new, s
<1>6. TypeOK'
  BY <1>1, <1>3, <1>4, EndedRun DEF Inductive, TypeOK
<1>7. AttemptsStartOnce'
  <2>1. \A k \in Jobs : /\ job'[k].attempt = job[k].attempt
                        /\ job'[k].status \in {"absent", "queued"} => job[k].status = job'[k].status
    BY <1>2, <1>3, <1>5
  <2>2. \A q \in Runs : run[q].pc = "none" => run'[q].pc = "none"
    BY <1>1, <1>5
  <2>3. \A k \in Jobs, a \in 1..MaxAttempts : <<k, a>> \in Runs
    OBVIOUS
  <2> QED
    BY <2>1, <2>2, <2>3 DEF Inductive, AttemptsStartOnce
<1>8. Overlap'
  <2>1. ~Active(r)' /\ \A q \in Runs : q # r => (Active(q)' <=> Active(q))
    BY <1>5, EndedRun DEF Active, ActivePcs
  <2> QED
    BY <1>4, <2>1 DEF Inductive, Overlap, OneRunAtATime
<1>9. LocalsAgree' /\ OwnEntry' /\ LogTellsWhatLeft'
  <2>1. Agrees(Ended, taken[r], Messages[r[1]]) /\ Owns(Ended, entry[r])
    BY EndedRun DEF Agrees, Owns, ActivePcs
  <2> QED
    BY <1>4, <1>5, <2>1 DEF Inductive, LocalsAgree, OwnEntry, LogTellsWhatLeft
<1> QED
  BY <1>6, <1>7, <1>8, <1>9 DEF Inductive

\* Time does not run out on an active run that is short.
LEMMA TickStep == ASSUME Inductive, Tick PROVE Inductive'
<1>1. /\ busy \in 0..StaleTicks /\ busy > 0 /\ busy' = busy - 1
      /\ UNCHANGED <<job, run, entry, taken, deaths>>
  BY DEF Tick, Inductive, TypeOK
<1>2. busy' \in 0..StaleTicks /\ (busy > 1 => busy' > 0)
  BY <1>1, Constants
<1>3. TypeOK' /\ AttemptsStartOnce'
  BY <1>1, <1>2 DEF Inductive, TypeOK, AttemptsStartOnce
<1>4. Overlap'
  BY <1>1, <1>2 DEF Tick, Inductive, Overlap, OneRunAtATime, Active
<1>5. LocalsAgree' /\ OwnEntry' /\ LogTellsWhatLeft'
  BY <1>1 DEF Inductive, LocalsAgree, OwnEntry, LogTellsWhatLeft
<1> QED
  BY <1>3, <1>4, <1>5 DEF Inductive

-----------------------------------------------------------------------------
\* Every step of the program preserves the invariant.
LEMMA NextHolds == Inductive /\ [Next]_vars => Inductive'
<1> SUFFICES ASSUME Inductive, [Next]_vars PROVE Inductive'
  OBVIOUS
<1>1. CASE UNCHANGED vars
  BY <1>1 DEF vars, Inductive, TypeOK, AttemptsStartOnce, Overlap, OneRunAtATime, Active,
     LocalsAgree, OwnEntry, LogTellsWhatLeft
<1>2. ASSUME NEW j \in Jobs, Submit(j) \/ CancelJob(j) \/ Start(j) \/ Recover(j) PROVE Inductive'
  BY <1>2, RowSteps, StartStep
<1>3. ASSUME NEW r \in Runs,
             \/ ClaimRun(r) \/ ClaimRunRaises(r) \/ Build(r) \/ StartSending(r) \/ Deliver(r)
             \/ DeliverRaises(r) \/ ReportSent(r) \/ FinishRun(r) \/ FinishRunRaises(r)
             \/ Verdict(r) \/ Die(r)
      PROVE Inductive'
  BY <1>3, ClaimRunStep, ClaimRunRaisesStep, BuildStep, StartSendingStep, DeliverStep,
     DeliverRaisesStep, ReportSentStep, FinishRunStep, FinishRunRaisesStep, VerdictStep, DieStep
<1> QED
  BY <1>1, <1>2, <1>3, TickStep DEF Next

\* The inductive invariant holds in every reachable state.
THEOREM InvariantHolds == Spec => []Inductive
<1>1. Init => Inductive
  BY InitHolds
<1>2. Inductive /\ [Next]_vars => Inductive'
  BY NextHolds
<1> QED
  BY <1>1, <1>2, PTL DEF Spec

\* Two runs of one mail never overlap, for any number of jobs, attempts and
\* deaths, when every run ends before it counts as dead (_claim_run).
THEOREM NoOverlap == ASSUME RunsShort PROVE Spec => []OneRunAtATime
<1>1. Inductive => OneRunAtATime
  BY DEF Inductive, Overlap
<1> QED
  BY <1>1, InvariantHolds, PTL

\* The send log is right about what left, however runs are cancelled,
\* recovered, interrupted or refused, and however long they take.
THEOREM LogIsTrue == Spec => []LogTellsWhatLeft
<1>1. Inductive => LogTellsWhatLeft
  BY DEF Inductive
<1> QED
  BY <1>1, InvariantHolds, PTL
=============================================================================
