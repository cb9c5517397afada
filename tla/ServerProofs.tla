---------------------------- MODULE ServerProofs ----------------------------
(***************************************************************************)
(* Proofs about Server for all values of its constants: the schedulers of  *)
(* Suite, the backups of Backup, the sweeps of Scratch, and the requests   *)
(* of Access.                                                              *)
(*                                                                         *)
(* Inductive is the conjunction of an invariant for each part with what    *)
(* relates them: SchedulersRun, that only a scheduler that is alive has a  *)
(* duty, and DaysInOrder, that the days are marked in their order as long  *)
(* as no orphan of a supervisor was missed.                                *)
(***************************************************************************)
EXTENDS Server, FiniteSetTheorems, TLAPS

-----------------------------------------------------------------------------
(* Suite. *)

\* A launch that goes on, and the ones that stay.
LEMMA GoesOn ==
  ASSUME SuiteTypeOK, NEW l \in Launches, NEW pc \in Stages, GoesTo(l, pc)
  PROVE  /\ launch' \in [Launches -> [pc: Stages, found: SUBSET Launches]]
         /\ launch'[l].pc = pc
         /\ \A k \in Launches \ {l} : launch'[k] = launch[k]
<1>1. launch \in [Launches -> [pc: Stages, found: SUBSET Launches]]
  BY DEF SuiteTypeOK
<1>2. [launch[l] EXCEPT !.pc = pc] \in [pc: Stages, found: SUBSET Launches] /\ [launch[l] EXCEPT !.pc = pc].pc = pc
  BY <1>1
<1>3. launch' = [launch EXCEPT ![l] = [launch[l] EXCEPT !.pc = pc]]
  BY DEF GoesTo
<1> QED
  BY <1>1, <1>2, <1>3

\* Processes that are killed.
LEMMA KilledOK ==
  ASSUME NEW rows \in [Roles -> Statuses], NEW roles \in SUBSET Roles
  PROVE  /\ Killed(rows, roles) \in [Roles -> Statuses]
         /\ \A r \in Roles : Killed(rows, roles)[r] = "alive" <=> rows[r] = "alive" /\ r \notin roles
  BY DEF Killed, Statuses

\* Supervisors that end, with what is in their trees.
LEMMA KillOK ==
  ASSUME SuiteTypeOK, NEW gone \in SUBSET Launches, NEW trees \in SUBSET Launches, Kill(gone, trees)
  PROVE  /\ child' \in [Launches -> [Roles -> Statuses]]
         /\ lock' \in Launches \cup {None}
         /\ lock' = IF lock \in gone THEN None ELSE lock
         /\ \A k \in Launches : child'[k]["scheduler"] = "alive" <=> child[k]["scheduler"] = "alive" /\ k \notin trees
<1>1. \A k \in Launches : child[k] \in [Roles -> Statuses] /\ Killed(child[k], Roles) \in [Roles -> Statuses]
  BY KilledOK DEF SuiteTypeOK
<1>2. child' \in [Launches -> [Roles -> Statuses]]
  BY <1>1 DEF Kill
<1>3. "scheduler" \in Roles
  BY SuiteConstants
<1>4. ASSUME NEW k \in Launches
      PROVE  child'[k]["scheduler"] = "alive" <=> child[k]["scheduler"] = "alive" /\ k \notin trees
  <2>1. Killed(child[k], Roles)["scheduler"] # "alive"
    BY <1>1, <1>3, KilledOK
  <2> QED
    BY <2>1 DEF Kill
<1> QED
  BY <1>2, <1>4 DEF Kill, SuiteTypeOK

\* A step that starts no scheduler and moves one launch.
LEMMA LaunchMoves ==
  ASSUME SuiteInductive, NEW l \in Launches, NEW pc \in Stages, GoesTo(l, pc), lock' = lock, missed \subseteq missed',
         \A k \in Launches : child'[k]["scheduler"] = "alive" => child[k]["scheduler"] = "alive",
         pc \in Holding <=> launch[l].pc \in Holding,
         pc \in {"release", "unlink", "drop"} => child'[l]["scheduler"] # "alive",
         pc \in Supervising \cup {"clear"} =>
           \/ launch[l].pc \in Supervising \cup {"clear"}
           \/ \A k \in Launches : child'[k]["scheduler"] # "alive"
  PROVE  LockIsHeld' /\ LeavesAlone' /\ OrphansAreMissed' /\ OneScheduler'
<1>1. /\ launch'[l].pc = pc
      /\ \A k \in Launches \ {l} : launch'[k] = launch[k]
  BY GoesOn DEF SuiteInductive
<1>2. LockIsHeld'
  BY <1>1 DEF LockIsHeld, SuiteInductive
<1>3. LeavesAlone'
  BY <1>1 DEF LeavesAlone, SuiteInductive
<1>4. OrphansAreMissed'
  BY <1>1 DEF OrphansAreMissed, SuiteInductive
<1>5. OneScheduler'
  BY <1>1 DEF OneScheduler, SuiteInductive
<1> QED
  BY <1>2, <1>3, <1>4, <1>5

\* A step after which no other launch supervises or is about to remove the pid
\* file, and which leaves that file alone.
LEMMA PidStays ==
  ASSUME DropsOwn, PidIsOwner, pidFile' = pidFile, cleaned \subseteq cleaned',
         \A k \in Launches : launch'[k].pc \in {"spawn", "watch"} => launch[k].pc \in {"spawn", "watch"},
         \A k \in Launches : launch'[k].pc = "drop" => launch[k].pc = "drop"
  PROVE  DropsOwn' /\ PidIsOwner'
  BY DEF DropsOwn, PidIsOwner, Stage

\* A step of one launch.
LEMMA SuiteKeeps ==
  ASSUME SuiteInductive, NEW l \in Launches,
         CleanupStep(l) \/ SupervisorStep(l) \/ Interrupt(l) \/ Crash(l) \/ \E r \in Roles : ChildEnds(l, r)
  PROVE  SuiteInductive' /\ missed \subseteq missed'
<1> USE SuiteConstants DEF Stage, Stages, Supervising, Holding
<1>1. SuiteTypeOK
  BY DEF SuiteInductive
<1>2. CASE Look(l)
  <2>1. launch' \in [Launches -> [pc: Stages, found: SUBSET Launches]]
    BY <1>1, <1>2 DEF Look, SuiteTypeOK, Supervisors
  <2>2. SuiteTypeOK'
    BY <1>1, <1>2, <2>1 DEF Look, SuiteTypeOK
  <2>3. launch'[l].pc \in {"ask", "reap"} /\ \A k \in Launches \ {l} : launch'[k] = launch[k]
    BY <1>1, <1>2 DEF Look, SuiteTypeOK
  <2>4. LockIsHeld' /\ LeavesAlone'
    BY <1>2, <2>3 DEF SuiteInductive, LockIsHeld, LeavesAlone, Look
  <2>5. OrphansAreMissed' /\ OneScheduler'
    BY <1>2, <2>3 DEF SuiteInductive, OrphansAreMissed, OneScheduler, Look
  <2>6. DropsOwn' /\ PidIsOwner'
    BY <1>2, <2>3, PidStays DEF SuiteInductive, Look
  <2> QED
    BY <1>2, <2>2, <2>4, <2>5, <2>6 DEF SuiteInductive, Look
<1>3. CASE Ask(l)
  <2>1. launch' \in [Launches -> [pc: Stages, found: SUBSET Launches]] /\ launch'[l].pc = "wait"
        /\ \A k \in Launches \ {l} : launch'[k] = launch[k]
    BY <1>1, <1>3, GoesOn DEF Ask
  <2>2. SuiteTypeOK'
    BY <1>1, <1>3, <2>1 DEF Ask, SuiteTypeOK
  <2>3. LockIsHeld' /\ LeavesAlone' /\ OrphansAreMissed' /\ OneScheduler'
    BY <1>3, LaunchMoves DEF Ask
  <2>4. DropsOwn' /\ PidIsOwner'
    BY <1>3, <2>1, PidStays DEF SuiteInductive, Ask
  <2> QED
    BY <1>3, <2>2, <2>3, <2>4 DEF SuiteInductive, Ask
<1>4. CASE Waited(l)
  <2> DEFINE left == launch[l].found \cap Supervisors
  <2>1. left \subseteq Launches /\ \A k \in left : launch[k].pc \in Supervising
    BY DEF Supervisors
  <2>2. Kill(left, left)
    BY <1>4 DEF Waited
  <2>3. l \notin left /\ launch[l].pc = "wait"
    BY <1>4 DEF Waited, Supervisors
  <2>4. /\ launch' \in [Launches -> [pc: Stages, found: SUBSET Launches]] /\ launch'[l].pc = "reap"
        /\ \A k \in Launches \ {l} : launch'[k].pc = IF k \in left THEN "over" ELSE launch[k].pc
    <3>1. \A k \in Launches : [launch[k] EXCEPT !.pc = "over"] \in [pc: Stages, found: SUBSET Launches]
                              /\ [launch[k] EXCEPT !.pc = "over"].pc = "over"
      BY <1>1 DEF SuiteTypeOK
    <3>2. launch' = [k \in Launches |->
       IF k = l THEN [pc |-> "reap", found |-> {}] ELSE IF k \in left THEN [launch[k] EXCEPT !.pc = "over"] ELSE launch[k]]
      BY <1>4 DEF Waited
    <3> HIDE DEF left
    <3> QED
      BY <1>1, <3>1, <3>2 DEF SuiteTypeOK
  <2>5. UNCHANGED <<stopFile, pidFile, jobObject, cleaned, missed, faults>>
    BY <1>4 DEF Waited
  <2> HIDE DEF left
  <2>6. /\ child' \in [Launches -> [Roles -> Statuses]]
        /\ lock' \in Launches \cup {None}
        /\ lock' = IF lock \in left THEN None ELSE lock
        /\ \A k \in Launches : child'[k]["scheduler"] = "alive" <=> child[k]["scheduler"] = "alive" /\ k \notin left
    BY <1>1, <2>1, <2>2, KillOK
  <2>7. SuiteTypeOK'
    BY <1>1, <2>6, <2>4, <2>5 DEF SuiteTypeOK
  <2>8. LockIsHeld'
    BY <2>1, <2>3, <2>6, <2>4 DEF SuiteInductive, LockIsHeld
  <2>9. LeavesAlone'
    BY <2>6, <2>4 DEF SuiteInductive, LeavesAlone
  <2>10. OrphansAreMissed'
    BY <2>1, <2>3, <2>6, <2>4, <2>5 DEF SuiteInductive, OrphansAreMissed
  <2>11. OneScheduler'
    BY <2>6, <2>5 DEF SuiteInductive, OneScheduler
  <2>12. DropsOwn' /\ PidIsOwner'
    BY <2>4, <2>5, PidStays DEF SuiteInductive
  <2> QED
    BY <2>5, <2>7, <2>8, <2>9, <2>10, <2>11, <2>12 DEF SuiteInductive
<1>5. CASE Reap(l)
  <2>1. Supervisors \subseteq Launches /\ l \notin Supervisors /\ launch[l].pc = "reap"
    BY <1>5 DEF Supervisors, Reap
  <2>2. /\ launch' \in [Launches -> [pc: Stages, found: SUBSET Launches]] /\ launch'[l].pc = "check"
        /\ \A k \in Launches \ {l} : launch'[k].pc = IF k \in Supervisors THEN "over" ELSE launch[k].pc
    <3>1. \A k \in Launches, pc \in Stages :
            [launch[k] EXCEPT !.pc = pc] \in [pc: Stages, found: SUBSET Launches] /\ [launch[k] EXCEPT !.pc = pc].pc = pc
      BY <1>1 DEF SuiteTypeOK
    <3>2. launch' = [k \in Launches |->
       IF k = l THEN [launch[l] EXCEPT !.pc = "check"]
       ELSE IF k \in Supervisors THEN [launch[k] EXCEPT !.pc = "over"] ELSE launch[k]]
      BY <1>5 DEF Reap
    <3> QED
      BY <1>1, <3>1, <3>2 DEF SuiteTypeOK
  <2>3. UNCHANGED <<stopFile, pidFile, jobObject, cleaned, missed, faults>> /\ Kill(Supervisors, Launches)
    BY <1>5 DEF Reap
  <2>4. /\ child' \in [Launches -> [Roles -> Statuses]]
        /\ lock' \in Launches \cup {None}
        /\ lock' = IF lock \in Supervisors THEN None ELSE lock
        /\ \A k \in Launches : child'[k]["scheduler"] # "alive"
    BY <1>1, <2>1, <2>3, KillOK
  <2>5. \A k \in Launches : launch'[k].pc \notin Supervising
    BY <2>1, <2>2 DEF Supervisors
  <2>6. lock' = None
    BY <1>1, <2>4 DEF SuiteInductive, LockIsHeld, Supervisors, SuiteTypeOK
  <2>7. SuiteTypeOK'
    BY <1>1, <2>2, <2>3, <2>4 DEF SuiteTypeOK
  <2>8. LockIsHeld'
    BY <2>5, <2>6 DEF LockIsHeld
  <2>9. LeavesAlone' /\ OrphansAreMissed' /\ OneScheduler'
    BY <2>4 DEF LeavesAlone, OrphansAreMissed, OneScheduler
  <2>10. DropsOwn' /\ PidIsOwner'
    BY <2>5 DEF DropsOwn, PidIsOwner
  <2> QED
    BY <2>3, <2>7, <2>8, <2>9, <2>10 DEF SuiteInductive
<1>6. CASE Check(l)
  <2> DEFINE pc == IF Remaining THEN "over" ELSE "clear"
  <2>1. GoesTo(l, pc) /\ pc \in {"over", "clear"} /\ UNCHANGED <<child, lock, stopFile, pidFile, jobObject, cleaned, missed, faults>>
    BY <1>6 DEF Check
  <2>2. pc = "clear" => \A k \in Launches : child'[k]["scheduler"] # "alive"
    BY <2>1 DEF Remaining, AliveOf
  <2> HIDE DEF pc
  <2>3. launch' \in [Launches -> [pc: Stages, found: SUBSET Launches]] /\ launch'[l].pc = pc
        /\ \A k \in Launches \ {l} : launch'[k] = launch[k]
    BY <1>1, <2>1, GoesOn
  <2>4. SuiteTypeOK'
    BY <1>1, <2>1, <2>3 DEF SuiteTypeOK
  <2>5. LockIsHeld' /\ LeavesAlone' /\ OrphansAreMissed' /\ OneScheduler'
    BY <1>6, <2>1, <2>2, LaunchMoves DEF Check
  <2>6. DropsOwn' /\ PidIsOwner'
    BY <2>1, <2>3, PidStays DEF SuiteInductive
  <2> QED
    BY <2>1, <2>4, <2>5, <2>6 DEF SuiteInductive
<1>7. CASE Clear(l)
  <2>1. launch' \in [Launches -> [pc: Stages, found: SUBSET Launches]] /\ launch'[l].pc = "lock"
        /\ \A k \in Launches \ {l} : launch'[k] = launch[k]
    BY <1>1, <1>7, GoesOn DEF Clear
  <2>2. SuiteTypeOK'
    BY <1>1, <1>7, <2>1 DEF Clear, SuiteTypeOK, Supervisors
  <2>3. LockIsHeld' /\ LeavesAlone' /\ OrphansAreMissed' /\ OneScheduler'
    BY <1>7, LaunchMoves DEF Clear
  <2>4. DropsOwn' /\ PidIsOwner'
    BY <1>7, <2>1 DEF SuiteInductive, DropsOwn, PidIsOwner, Clear, Supervisors
  <2> QED
    BY <1>7, <2>2, <2>3, <2>4 DEF SuiteInductive, Clear
<1>8. CASE Lock(l)
  <2> DEFINE pc == IF lock = None THEN "own" ELSE "over"
  <2>1. GoesTo(l, pc) /\ lock' = (IF lock = None THEN l ELSE lock) /\ launch[l].pc = "lock"
        /\ UNCHANGED <<child, stopFile, pidFile, jobObject, cleaned, missed, faults>>
    BY <1>8 DEF Lock
  <2>2. pc = (IF lock = None THEN "own" ELSE "over") /\ pc \in Stages
    OBVIOUS
  <2> HIDE DEF pc
  <2>3. launch' \in [Launches -> [pc: Stages, found: SUBSET Launches]] /\ launch'[l].pc = pc
        /\ \A k \in Launches \ {l} : launch'[k] = launch[k]
    BY <1>1, <2>1, <2>2, GoesOn
  <2>4. SuiteTypeOK'
    BY <1>1, <2>1, <2>3 DEF SuiteTypeOK
  <2>5. LockIsHeld'
    BY <1>1, <2>1, <2>2, <2>3 DEF SuiteInductive, LockIsHeld, SuiteTypeOK
  <2>6. LeavesAlone' /\ OneScheduler' /\ DropsOwn' /\ PidIsOwner'
    BY <2>1, <2>2, <2>3, PidStays DEF SuiteInductive, LeavesAlone, OneScheduler
  <2>7. OrphansAreMissed'
    BY <1>1, <2>1, <2>2, <2>3 DEF SuiteInductive, OrphansAreMissed, SuiteTypeOK
  <2> QED
    BY <2>1, <2>4, <2>5, <2>6, <2>7 DEF SuiteInductive
<1>9. CASE Own(l)
  <2>1. PICK pc \in {"spawn", "stop"} : GoesTo(l, pc)
    BY <1>9 DEF Own
  <2>2. /\ launch[l].pc = "own" /\ stopFile' = FALSE /\ pidFile' = l /\ faults' \in Nat
        /\ cleaned' \subseteq Launches /\ ((\E k \in Launches : launch[k].pc = "drop") => l \in cleaned')
        /\ UNCHANGED <<child, lock, jobObject, missed>>
    BY <1>1, <1>9 DEF Own, SuiteTypeOK
  <2>3. launch' \in [Launches -> [pc: Stages, found: SUBSET Launches]] /\ launch'[l].pc = pc
        /\ \A k \in Launches \ {l} : launch'[k] = launch[k]
    BY <1>1, <2>1, GoesOn
  <2>4. SuiteTypeOK'
    BY <1>1, <2>2, <2>3 DEF SuiteTypeOK
  <2>5. LockIsHeld' /\ LeavesAlone' /\ OrphansAreMissed' /\ OneScheduler'
    BY <2>1, <2>2, LaunchMoves
  <2>6. lock = l /\ \A k \in Launches \ {l} : launch'[k].pc \notin {"spawn", "watch"}
    BY <1>1, <2>2, <2>3 DEF SuiteInductive, LockIsHeld
  <2>7. DropsOwn' /\ PidIsOwner'
    BY <2>2, <2>3, <2>6 DEF DropsOwn, PidIsOwner
  <2> QED
    BY <2>2, <2>4, <2>5, <2>7 DEF SuiteInductive
<1>10. ASSUME \/ Spawn(l) \/ Respawn(l)
       PROVE  SuiteInductive' /\ missed \subseteq missed'
  <2>1. PICK r \in Roles : child' = [child EXCEPT ![l][r] = "alive"]
    BY <1>10 DEF Spawn, Respawn
  <2>2. launch[l].pc \in {"spawn", "watch"} /\ UNCHANGED <<lock, stopFile, pidFile, jobObject, cleaned, missed, faults>>
    BY <1>10 DEF Spawn, Respawn
  <2>3. /\ launch' \in [Launches -> [pc: Stages, found: SUBSET Launches]] /\ launch'[l].pc \in {"spawn", "watch"}
        /\ \A k \in Launches \ {l} : launch'[k] = launch[k]
    <3>1. GoesTo(l, "watch") \/ UNCHANGED launch
      BY <1>10 DEF Spawn, Respawn
    <3>2. CASE GoesTo(l, "watch")
      BY <1>1, <3>2, GoesOn
    <3> QED
      BY <1>1, <2>2, <3>1, <3>2 DEF SuiteTypeOK
  <2>4. child' \in [Launches -> [Roles -> Statuses]] /\ \A k \in Launches \ {l} : child'[k] = child[k]
    <3>1. child \in [Launches -> [Roles -> Statuses]] /\ "alive" \in Statuses
      BY <1>1 DEF SuiteTypeOK, Statuses
    <3>2. [child[l] EXCEPT ![r] = "alive"] \in [Roles -> Statuses]
      BY <3>1
    <3>3. child' = [child EXCEPT ![l] = [child[l] EXCEPT ![r] = "alive"]]
      BY <2>1
    <3> QED
      BY <3>1, <3>2, <3>3
  <2>5. SuiteTypeOK'
    BY <1>1, <2>2, <2>3, <2>4 DEF SuiteTypeOK
  <2>6. LockIsHeld' /\ LeavesAlone' /\ DropsOwn' /\ PidIsOwner'
    BY <2>2, <2>3, <2>4, PidStays DEF SuiteInductive, LockIsHeld, LeavesAlone
  <2>7. lock = l
    BY <2>2 DEF SuiteInductive, LockIsHeld
  <2>8. OrphansAreMissed'
    BY <2>2, <2>3, <2>4, <2>7 DEF SuiteInductive, OrphansAreMissed
  <2>9. OneScheduler'
    BY <2>2, <2>3, <2>4, <2>7 DEF SuiteInductive, OrphansAreMissed, OneScheduler
  <2> QED
    BY <2>2, <2>5, <2>6, <2>8, <2>9 DEF SuiteInductive
<1>11. ASSUME SeesStop(l) \/ Interrupt(l)
       PROVE  SuiteInductive' /\ missed \subseteq missed'
  <2>1. /\ launch[l].pc \in {"spawn", "watch"} /\ GoesTo(l, "stop") /\ faults' \in Nat
        /\ UNCHANGED <<child, lock, stopFile, pidFile, jobObject, cleaned, missed>>
    BY <1>1, <1>11 DEF SeesStop, Interrupt, SuiteTypeOK
  <2>2. launch' \in [Launches -> [pc: Stages, found: SUBSET Launches]] /\ launch'[l].pc = "stop"
        /\ \A k \in Launches \ {l} : launch'[k] = launch[k]
    BY <1>1, <2>1, GoesOn
  <2>3. SuiteTypeOK'
    BY <1>1, <2>1, <2>2 DEF SuiteTypeOK
  <2>4. LockIsHeld' /\ LeavesAlone' /\ OrphansAreMissed' /\ OneScheduler'
    BY <2>1, LaunchMoves
  <2>5. DropsOwn' /\ PidIsOwner'
    BY <2>1, <2>2, PidStays DEF SuiteInductive
  <2> QED
    BY <2>1, <2>3, <2>4, <2>5 DEF SuiteInductive
<1>12. CASE Terminate(l)
  <2>1. /\ launch[l].pc = "stop" /\ GoesTo(l, "release") /\ child' = [child EXCEPT ![l] = Killed(child[l], Roles \ Forked)]
        /\ UNCHANGED <<lock, stopFile, pidFile, jobObject, cleaned, missed, faults>>
    BY <1>12 DEF Terminate
  <2>2. launch' \in [Launches -> [pc: Stages, found: SUBSET Launches]] /\ launch'[l].pc = "release"
        /\ \A k \in Launches \ {l} : launch'[k] = launch[k]
    BY <1>1, <2>1, GoesOn
  <2>3. /\ child' \in [Launches -> [Roles -> Statuses]] /\ child'[l]["scheduler"] # "alive"
        /\ \A k \in Launches \ {l} : child'[k] = child[k]
    <3>1. child \in [Launches -> [Roles -> Statuses]]
      BY <1>1 DEF SuiteTypeOK
    <3>2. Killed(child[l], Roles \ Forked) \in [Roles -> Statuses] /\ Killed(child[l], Roles \ Forked)["scheduler"] # "alive"
      BY <3>1, KilledOK
    <3> QED
      BY <2>1, <3>1, <3>2
  <2>4. SuiteTypeOK'
    BY <1>1, <2>1, <2>2, <2>3 DEF SuiteTypeOK
  <2>5. LockIsHeld' /\ LeavesAlone' /\ OrphansAreMissed' /\ OneScheduler'
    <3>1. \A k \in Launches : child'[k]["scheduler"] = "alive" => child[k]["scheduler"] = "alive"
      BY <2>3
    <3> QED
      BY <2>1, <2>3, <3>1, LaunchMoves
  <2>6. DropsOwn' /\ PidIsOwner'
    BY <2>1, <2>2, PidStays DEF SuiteInductive
  <2> QED
    BY <2>1, <2>4, <2>5, <2>6 DEF SuiteInductive
<1>13. CASE Release(l)
  <2>1. /\ launch[l].pc = "release" /\ GoesTo(l, "unlink")
        /\ UNCHANGED <<child, stopFile, pidFile, jobObject, cleaned, missed, faults>>
    BY <1>13 DEF Release
  <2>2. launch' \in [Launches -> [pc: Stages, found: SUBSET Launches]] /\ launch'[l].pc = "unlink"
        /\ \A k \in Launches \ {l} : launch'[k] = launch[k]
    BY <1>1, <2>1, GoesOn
  <2>3. lock = l /\ lock' = None /\ child[l]["scheduler"] # "alive"
    BY <1>13, <2>1 DEF SuiteInductive, LockIsHeld, LeavesAlone, Release
  <2>4. SuiteTypeOK'
    BY <1>1, <2>1, <2>2, <2>3 DEF SuiteTypeOK
  <2>5. LockIsHeld' /\ LeavesAlone' /\ OneScheduler' /\ DropsOwn' /\ PidIsOwner'
    BY <2>1, <2>2, <2>3, PidStays DEF SuiteInductive, LockIsHeld, LeavesAlone, OneScheduler
  <2>6. OrphansAreMissed'
    BY <2>1, <2>2, <2>3 DEF SuiteInductive, OrphansAreMissed
  <2> QED
    BY <2>1, <2>4, <2>5, <2>6 DEF SuiteInductive
<1>14. ASSUME Leaves(l), launch[l].pc \in {"unlink", "drop"}, stopFile' \in BOOLEAN,
              pidFile' = pidFile \/ (pidFile' = None /\ launch[l].pc = "drop"),
              UNCHANGED <<lock, jobObject, cleaned, missed, faults>>
       PROVE  SuiteInductive' /\ missed \subseteq missed'
  <2>1. GoesTo(l, "over") /\ child' = IF jobObject THEN [child EXCEPT ![l] = Killed(child[l], Roles)] ELSE child
    BY <1>14 DEF Leaves
  <2>2. launch' \in [Launches -> [pc: Stages, found: SUBSET Launches]] /\ launch'[l].pc = "over"
        /\ \A k \in Launches \ {l} : launch'[k] = launch[k]
    BY <1>1, <2>1, GoesOn
  <2>3. /\ child' \in [Launches -> [Roles -> Statuses]]
        /\ \A k \in Launches : child'[k]["scheduler"] = "alive" => child[k]["scheduler"] = "alive"
    <3>1. child \in [Launches -> [Roles -> Statuses]]
      BY <1>1 DEF SuiteTypeOK
    <3>2. Killed(child[l], Roles) \in [Roles -> Statuses] /\ Killed(child[l], Roles)["scheduler"] # "alive"
      BY <3>1, KilledOK
    <3> QED
      BY <2>1, <3>1, <3>2
  <2>4. SuiteTypeOK'
    BY <1>1, <1>14, <2>2, <2>3 DEF SuiteTypeOK
  <2>5. LockIsHeld' /\ LeavesAlone' /\ OrphansAreMissed' /\ OneScheduler'
    BY <1>14, <2>1, <2>3, LaunchMoves
  <2>6. CASE pidFile' = pidFile
    <3>1. DropsOwn' /\ PidIsOwner'
      BY <1>14, <2>2, <2>6, PidStays DEF SuiteInductive
    <3> QED
      BY <1>14, <2>4, <2>5, <3>1 DEF SuiteInductive
  <2>7. CASE launch[l].pc = "drop"
    <3>1. \A k \in Launches : launch'[k].pc \in {"spawn", "watch"} => k \in cleaned'
      BY <1>14, <2>2, <2>7 DEF SuiteInductive, DropsOwn
    <3>2. DropsOwn' /\ PidIsOwner'
      BY <3>1 DEF DropsOwn, PidIsOwner
    <3> QED
      BY <1>14, <2>4, <2>5, <3>2 DEF SuiteInductive
  <2> QED
    BY <1>14, <2>6, <2>7
<1>17. CASE Unlink(l)
  <2>1. launch[l].pc = "unlink" /\ stopFile' = FALSE /\ UNCHANGED <<lock, pidFile, jobObject, cleaned, missed, faults>>
    BY <1>17 DEF Unlink
  <2>2. CASE Leaves(l)
    BY <1>14, <2>1, <2>2
  <2>3. CASE pidFile = l /\ GoesTo(l, "drop") /\ UNCHANGED child
    <3>1. launch' \in [Launches -> [pc: Stages, found: SUBSET Launches]] /\ launch'[l].pc = "drop"
          /\ \A k \in Launches \ {l} : launch'[k] = launch[k]
      BY <1>1, <2>3, GoesOn
    <3>2. SuiteTypeOK'
      BY <1>1, <2>1, <2>3, <3>1 DEF SuiteTypeOK
    <3>3. LockIsHeld' /\ LeavesAlone' /\ OrphansAreMissed' /\ OneScheduler'
      <4>1. child[l]["scheduler"] # "alive"
        BY <2>1 DEF SuiteInductive, LeavesAlone
      <4> QED
        BY <2>1, <2>3, <4>1, LaunchMoves
    <3>4. \A k \in Launches : launch'[k].pc \in {"spawn", "watch"} => k \in cleaned'
      BY <2>1, <2>3, <3>1 DEF SuiteInductive, PidIsOwner
    <3>5. DropsOwn' /\ PidIsOwner'
      BY <3>4 DEF DropsOwn, PidIsOwner
    <3> QED
      BY <2>1, <3>2, <3>3, <3>5 DEF SuiteInductive
  <2> QED
    BY <1>17, <2>2, <2>3 DEF Unlink
<1>18. CASE Drop(l)
  <2>1. /\ Leaves(l) /\ launch[l].pc = "drop" /\ pidFile' = None /\ stopFile' \in BOOLEAN
        /\ UNCHANGED <<lock, jobObject, cleaned, missed, faults>>
    BY <1>1, <1>18 DEF Drop, SuiteTypeOK
  <2> QED
    BY <1>14, <2>1
<1>15. CASE Crash(l)
  <2>1. /\ launch[l].pc \in Supervising /\ GoesTo(l, "over") /\ faults' \in Nat
        /\ Kill({l}, IF jobObject THEN {l} ELSE {})
        /\ UNCHANGED <<stopFile, pidFile, jobObject, cleaned>>
    BY <1>1, <1>15 DEF Crash, Supervisors, SuiteTypeOK
  <2>2. /\ missed \subseteq missed' /\ missed' \subseteq Launches
        /\ ~jobObject => \A k \in Launches \ {l} : launch[k].pc \in Supervising \cup {"clear"} => k \in missed'
    BY <1>1, <1>15 DEF Crash, SuiteTypeOK
  <2>3. launch' \in [Launches -> [pc: Stages, found: SUBSET Launches]] /\ launch'[l].pc = "over"
        /\ \A k \in Launches \ {l} : launch'[k] = launch[k]
    BY <1>1, <2>1, GoesOn
  <2>4. /\ child' \in [Launches -> [Roles -> Statuses]]
        /\ lock' \in Launches \cup {None}
        /\ lock' = IF lock = l THEN None ELSE lock
        /\ \A k \in Launches : child'[k]["scheduler"] = "alive" => child[k]["scheduler"] = "alive"
        /\ jobObject => child'[l]["scheduler"] # "alive"
    <3>1. CASE jobObject
      <4>1. Kill({l}, {l})
        BY <2>1, <3>1
      <4> QED
        BY <1>1, <3>1, <4>1, KillOK
    <3>2. CASE ~jobObject
      <4>1. Kill({l}, {})
        BY <2>1, <3>2
      <4> QED
        BY <1>1, <3>2, <4>1, KillOK
    <3> QED
      BY <3>1, <3>2
  <2>5. SuiteTypeOK'
    BY <1>1, <2>1, <2>2, <2>3, <2>4 DEF SuiteTypeOK
  <2>6. LockIsHeld'
    BY <1>1, <2>3, <2>4 DEF SuiteInductive, LockIsHeld, SuiteTypeOK
  <2>7. LeavesAlone' /\ DropsOwn' /\ PidIsOwner'
    BY <2>1, <2>3, <2>4, PidStays DEF SuiteInductive, LeavesAlone
  <2>8. OneScheduler'
    BY <2>2, <2>4 DEF SuiteInductive, OneScheduler
  <2>9. OrphansAreMissed'
    <3> SUFFICES ASSUME NEW m \in Launches, NEW k \in Launches, m # k, child'[m]["scheduler"] = "alive", lock' # m,
                        launch'[k].pc \in Supervising \cup {"clear"}
                 PROVE  k \in missed'
      BY DEF OrphansAreMissed
    <3>1. k # l /\ launch[k].pc \in Supervising \cup {"clear"} /\ child[m]["scheduler"] = "alive"
      BY <2>3, <2>4
    <3>2. CASE lock = m
      <4>1. m = l
        BY <1>1, <2>4, <3>2
      <4> QED
        BY <2>2, <2>4, <3>1, <4>1
    <3>3. CASE lock # m
      BY <2>2, <3>1, <3>3 DEF SuiteInductive, OrphansAreMissed
    <3> QED
      BY <3>2, <3>3
  <2> QED
    BY <2>2, <2>5, <2>6, <2>7, <2>8, <2>9 DEF SuiteInductive
<1>16. ASSUME NEW r \in Roles, ChildEnds(l, r)
       PROVE  SuiteInductive' /\ missed \subseteq missed'
  <2>1. PICK how \in {"exited", "crashed"} : child' = [child EXCEPT ![l][r] = how]
    BY <1>16 DEF ChildEnds
  <2>2. faults' \in Nat /\ UNCHANGED <<launch, lock, stopFile, pidFile, jobObject, cleaned, missed>>
    BY <1>1, <1>16 DEF ChildEnds, SuiteTypeOK
  <2>3. /\ child' \in [Launches -> [Roles -> Statuses]]
        /\ \A k \in Launches : child'[k]["scheduler"] = "alive" => child[k]["scheduler"] = "alive"
    <3>1. child \in [Launches -> [Roles -> Statuses]] /\ how \in Statuses /\ how # "alive"
      BY <1>1 DEF SuiteTypeOK, Statuses
    <3>2. [child[l] EXCEPT ![r] = how] \in [Roles -> Statuses]
      BY <3>1
    <3>3. child' = [child EXCEPT ![l] = [child[l] EXCEPT ![r] = how]]
      BY <2>1
    <3> QED
      BY <3>1, <3>2, <3>3
  <2>4. SuiteTypeOK'
    BY <1>1, <2>2, <2>3 DEF SuiteTypeOK
  <2>5. LockIsHeld' /\ LeavesAlone' /\ OrphansAreMissed' /\ OneScheduler' /\ DropsOwn' /\ PidIsOwner'
    BY <2>2, <2>3, PidStays DEF SuiteInductive, LockIsHeld, LeavesAlone, OrphansAreMissed, OneScheduler
  <2> QED
    BY <2>2, <2>4, <2>5 DEF SuiteInductive
<1> QED
  BY <1>2, <1>3, <1>4, <1>5, <1>6, <1>7, <1>8, <1>9, <1>10, <1>11, <1>12, <1>13, <1>15, <1>16, <1>17, <1>18
  DEF CleanupStep, SupervisorStep

\* A step of the supervisors or of the windows.
LEMMA SuiteStepKeeps ==
  ASSUME SuiteInductive, SuiteNext
  PROVE  SuiteInductive' /\ missed \subseteq missed'
<1>1. PICK l \in Launches :
        CleanupStep(l) \/ SupervisorStep(l) \/ Interrupt(l) \/ Crash(l) \/ \E r \in Roles : ChildEnds(l, r)
  BY DEF SuiteNext
<1> QED
  BY <1>1, SuiteKeeps
-----------------------------------------------------------------------------
(* The backups. *)

DumpFile == [by: Dumpers, state: {"open", "whole", "rest"}, age: Nat]
Work == [does: {"idle", "due", "locked", "dumping", "pruning", "over"}, day: Days]
AnyWhole(files) == \E f \in files : f.state = "whole"

\* The image of a finite set under a function is finite.
LEMMA ImageFinite ==
  ASSUME NEW S, IsFiniteSet(S), NEW T, NEW f, f = [x \in S |-> f[x]], T = {f[x] : x \in S}
  PROVE  IsFiniteSet(T)
<1>1. f \in Surjection(S, T)
  BY DEF Surjection
<1> QED
  BY <1>1, FS_Surjection

\* Files that are aged again, one that is written to beside them, and those without an open one.
LEMMA AgedOK ==
  ASSUME NEW files \in SUBSET DumpFile, IsFiniteSet(files)
  PROVE  /\ Aged(files) \subseteq DumpFile /\ IsFiniteSet(Aged(files))
         /\ AnyWhole(files) => AnyWhole(Aged(files))
<1> DEFINE Younger(f) == Cardinality({g \in files : g.age < f.age})
           a == [f \in files |-> [f EXCEPT !.age = Younger(f)]]
<1>1. \A f \in files : Younger(f) \in Nat
  <2> SUFFICES ASSUME NEW f \in files
               PROVE  Younger(f) \in Nat
    OBVIOUS
  <2>1. IsFiniteSet({g \in files : g.age < f.age})
    BY FS_Subset
  <2> QED
    BY <2>1, FS_CardinalityType
<1>2. Aged(files) = {a[f] : f \in files}
  BY DEF Aged
<1> HIDE DEF Younger
<1>3. \A f \in files : a[f] \in DumpFile /\ a[f].state = f.state
  BY <1>1 DEF DumpFile
<1>4. a = [x \in files |-> a[x]]
  OBVIOUS
<1> HIDE DEF a
<1>5. IsFiniteSet(Aged(files))
  BY <1>2, <1>4, ImageFinite
<1> QED
  BY <1>2, <1>3, <1>5 DEF AnyWhole

LEMMA NewestOK ==
  ASSUME NEW files \in SUBSET DumpFile, IsFiniteSet(files), NEW d \in Dumpers, NEW state \in {"open", "whole", "rest"}
  PROVE  /\ Newest(d, state, files) \subseteq DumpFile /\ IsFiniteSet(Newest(d, state, files))
         /\ AnyWhole(files) => AnyWhole(Newest(d, state, files))
         /\ state = "whole" => \E f \in Newest(d, state, files) : f.state = "whole" /\ f.age = 0
<1> DEFINE new == [by |-> d, state |-> state, age |-> 0]
           a == [f \in files |-> [f EXCEPT !.age = f.age + 1]]
           old == {a[f] : f \in files}
<1>1. Newest(d, state, files) = old \cup {new}
  BY DEF Newest
<1>2. \A f \in files : a[f] \in DumpFile /\ a[f].state = f.state
  BY DEF DumpFile
<1>3. a = [x \in files |-> a[x]]
  OBVIOUS
<1>4. new \in DumpFile /\ new.state = state /\ new.age = 0
  BY DEF DumpFile
<1> HIDE DEF a, new
<1>5. IsFiniteSet(old)
  BY <1>3, ImageFinite
<1>6. IsFiniteSet(old \cup {new})
  BY <1>5, FS_AddElement
<1>7. AnyWhole(files) => AnyWhole(old)
  BY <1>2 DEF AnyWhole
<1> QED
  BY <1>1, <1>2, <1>4, <1>6, <1>7 DEF AnyWhole

LEMMA WithoutOK ==
  ASSUME BackupTypeOK, NEW d
  PROVE  /\ Without(d) \subseteq DumpFile /\ IsFiniteSet(Without(d))
         /\ AnyWhole(dumps) => AnyWhole(Without(d))
<1> DEFINE files == {f \in dumps : ~(f.by = d /\ f.state = "open")}
<1>1. files \subseteq DumpFile /\ IsFiniteSet(files)
  BY FS_Subset DEF BackupTypeOK, DumpFile
<1>2. AnyWhole(dumps) => AnyWhole(files)
  BY DEF AnyWhole
<1> QED
  BY <1>1, <1>2, AgedOK DEF Without

\* One that goes on, and the others.
LEMMA Works ==
  ASSUME BackupTypeOK, NEW d \in Dumpers, NEW w \in Work, dumper' = [dumper EXCEPT ![d] = w]
  PROVE  dumper' \in [Dumpers -> Work] /\ dumper'[d] = w /\ \A e \in Dumpers \ {d} : dumper'[e] = dumper[e]
  BY DEF BackupTypeOK, Work

\* A backup that goes on, and one that is over.
LEMMA DoesOK ==
  ASSUME BackupTypeOK, NEW d \in Dumpers, NEW what \in {"idle", "due", "locked", "dumping", "pruning", "over"}, Does(d, what)
  PROVE  /\ dumper' \in [Dumpers -> Work] /\ dumper'[d].does = what /\ dumper'[d].day = dumper[d].day
         /\ \A e \in Dumpers \ {d} : dumper'[e] = dumper[e]
<1> DEFINE w == [dumper[d] EXCEPT !.does = what]
<1>1. w \in Work /\ w.does = what /\ w.day = dumper[d].day
  BY DEF BackupTypeOK, Work
<1>2. dumper' = [dumper EXCEPT ![d] = w]
  BY DEF Does
<1> HIDE DEF w
<1> QED
  BY <1>1, <1>2, Works

LEMMA DoneOK ==
  ASSUME BackupTypeOK, NEW d \in Dumpers, Done(d)
  PROVE  /\ dumper' \in [Dumpers -> Work] /\ dumper'[d].does \in {"idle", "over"}
         /\ \A e \in Dumpers \ {d} : dumper'[e] = dumper[e]
         /\ runLock' \in Schedulers \cup {Nobody}
<1> DEFINE w == [does |-> IF d \in Schedulers THEN "idle" ELSE "over", day |-> 0]
<1>1. 0 \in Days
  BY BackupConstants DEF Days
<1>2. w \in Work /\ w.does \in {"idle", "over"}
  BY <1>1 DEF Work
<1>3. dumper' = [dumper EXCEPT ![d] = w]
  BY DEF Done
<1> HIDE DEF w
<1>4. runLock' \in Schedulers \cup {Nobody}
  BY DEF Done, BackupTypeOK
<1> QED
  BY <1>2, <1>3, <1>4, Works

\* The date on the clock is one of the days, and does not go back.
LEMMA DivGrows ==
  ASSUME NEW a \in Nat, NEW b \in Nat, a <= b, NEW d \in Nat, d > 0
  PROVE  a \div d \in Nat /\ b \div d \in Nat /\ a \div d <= b \div d
  OBVIOUS

\* Today is one of the days of the bound.
LEMMA TodayIsDay == BackupTypeOK => Today \in Days /\ Today \in Nat
  BY BackupConstants, DivGrows DEF Today, Days, BackupTypeOK

\* A backup that begins beside no other.
LEMMA Begun ==
  ASSUME BackupInductive, NEW d \in Dumpers, dumper[d].does \notin {"dumping", "pruning"}, Begins(d), succeeded' = succeeded,
         dumper' \in [Dumpers -> Work], dumper'[d].does = "dumping", \A e \in Dumpers \ {d} : dumper'[e] = dumper[e]
  PROVE  /\ dumps' \subseteq DumpFile /\ IsFiniteSet(dumps') /\ crossed' \in BOOLEAN
         /\ OneAtATime' /\ NewestIsWhole' /\ GoodBackupKept'
<1>1. BackupTypeOK /\ dumps \subseteq DumpFile /\ IsFiniteSet(dumps)
  BY DEF BackupInductive, BackupTypeOK, DumpFile
<1>2. /\ dumps' \subseteq DumpFile /\ IsFiniteSet(dumps')
      /\ AnyWhole(dumps) => AnyWhole(dumps')
  BY <1>1, NewestOK DEF Begins
<1>3. crossed' = (crossed \/ \E x \in Dumpers : dumper[x].does \in {"dumping", "pruning"})
  BY DEF Begins
<1>4. crossed' \in BOOLEAN
  BY <1>1, <1>3 DEF BackupTypeOK
<1>5. OneAtATime'
  BY <1>3 DEF OneAtATime
<1>6. NewestIsWhole'
  BY <1>3 DEF NewestIsWhole, Doing
<1>7. GoodBackupKept'
  BY <1>2, <1>3 DEF GoodBackupKept, BackupInductive, AnyWhole
<1> QED
  BY <1>2, <1>4, <1>5, <1>6, <1>7

\* A step that leaves the files, and begins or completes no backup.
LEMMA FilesStay ==
  ASSUME BackupInductive, UNCHANGED <<dumps, crossed, succeeded>>,
         \A e \in Dumpers : dumper'[e].does \in {"dumping", "pruning"} => dumper'[e].does = dumper[e].does
  PROVE  OneAtATime' /\ NewestIsWhole' /\ GoodBackupKept'
<1>1. OneAtATime'
  BY DEF OneAtATime, BackupInductive
<1>2. NewestIsWhole'
  BY DEF NewestIsWhole, Doing, BackupInductive
<1>3. GoodBackupKept'
  BY DEF GoodBackupKept, BackupInductive
<1> QED
  BY <1>1, <1>2, <1>3

\* A step on the backups by one of those who make them.  While there is one
\* scheduler no other scheduler is at one.
LEMMA DutyKeeps ==
  ASSUME BackupInductive, DaysInOrder, UNCHANGED missed, NEW d \in Dumpers,
         d \in Launches => (missed = {} => \A k \in Launches \ {d} : dumper[k].does = "idle"),
         \/ d \in Launches /\ (BackupTick(d) \/ TakeRunLock(d) \/ Mark(d))
         \/ RunNow(d) \/ Writes(d) \/ Dumped(d) \/ Prune(d)
  PROVE  BackupInductive' /\ DaysInOrder' /\ \A e \in Dumpers \ {d} : dumper'[e] = dumper[e]
<1> USE BackupConstants, SchedulersAreChildren
<1>1. BackupTypeOK /\ dumps \subseteq DumpFile /\ IsFiniteSet(dumps) /\ dumper \in [Dumpers -> Work]
  BY DEF BackupInductive, BackupTypeOK, DumpFile, Work
<1>2. Launches \subseteq Dumpers
  BY DEF Dumpers
<1>3. lastRun \in Int /\ Today \in Days /\ Today \in Nat /\ \A e \in Dumpers : dumper[e].day \in Days /\ dumper[e].day \in Nat
  BY <1>1, TodayIsDay DEF BackupTypeOK, Days, Work
<1>4. CASE d \in Launches /\ BackupTick(d)
  <2>1. [does |-> "due", day |-> Today] \in Work
    BY <1>3 DEF Work
  <2>2. /\ dumper' \in [Dumpers -> Work] /\ dumper'[d] = [does |-> "due", day |-> Today]
        /\ \A e \in Dumpers \ {d} : dumper'[e] = dumper[e]
    BY <1>1, <1>4, <2>1, Works DEF BackupTick
  <2>3. UNCHANGED <<minute, backupAt, lastRun, runLock, dumps, begun, crossed, succeeded>>
    BY <1>4 DEF BackupTick
  <2>4. BackupTypeOK'
    BY <1>1, <2>2, <2>3 DEF BackupTypeOK, Work
  <2>5. OneAtATime' /\ NewestIsWhole' /\ GoodBackupKept'
    <3>1. \A e \in Dumpers : dumper'[e].does \in {"dumping", "pruning"} => dumper'[e].does = dumper[e].does
      BY <2>2
    <3> QED
      BY <2>3, <3>1, FilesStay
  <2>6. DaysInOrder'
    BY <1>2, <1>3, <2>2, <2>3 DEF DaysInOrder, Today
  <2> QED
    BY <2>2, <2>4, <2>5, <2>6 DEF BackupInductive
<1>5. CASE d \in Launches /\ TakeRunLock(d)
  <2>1. /\ UNCHANGED <<minute, backupAt, lastRun, dumps, begun, crossed, succeeded>> /\ dumper[d].does = "due"
        /\ (runLock' = d /\ Does(d, "locked")) \/ Done(d)
    BY <1>5 DEF TakeRunLock, Doing
  <2>2. /\ dumper' \in [Dumpers -> Work] /\ runLock' \in Schedulers \cup {Nobody}
        /\ \A e \in Dumpers \ {d} : dumper'[e] = dumper[e]
        /\ \/ dumper'[d].does = "locked" /\ dumper'[d].day = dumper[d].day
           \/ dumper'[d].does \in {"idle", "over"}
    BY <1>1, <1>5, <2>1, DoesOK, DoneOK
  <2>3. BackupTypeOK'
    BY <1>1, <2>1, <2>2 DEF BackupTypeOK, Work
  <2>4. OneAtATime' /\ NewestIsWhole' /\ GoodBackupKept'
    <3>1. \A e \in Dumpers : dumper'[e].does \in {"dumping", "pruning"} => dumper'[e].does = dumper[e].does
      BY <2>2
    <3> QED
      BY <2>1, <3>1, FilesStay
  <2>5. DaysInOrder'
    BY <1>2, <1>3, <2>1, <2>2 DEF DaysInOrder, Today
  <2> QED
    BY <2>2, <2>3, <2>4, <2>5 DEF BackupInductive
<1>6. CASE d \in Launches /\ Mark(d) /\ lastRun = dumper[d].day
  <2>1. /\ UNCHANGED <<minute, backupAt, lastRun, dumps, begun, crossed, succeeded>> /\ Done(d)
    BY <1>6 DEF Mark
  <2>2. /\ dumper' \in [Dumpers -> Work] /\ runLock' \in Schedulers \cup {Nobody}
        /\ \A e \in Dumpers \ {d} : dumper'[e] = dumper[e]
        /\ dumper'[d].does \in {"idle", "over"}
    BY <1>1, <2>1, DoneOK
  <2>3. BackupTypeOK'
    BY <1>1, <2>1, <2>2 DEF BackupTypeOK, Work
  <2>4. OneAtATime' /\ NewestIsWhole' /\ GoodBackupKept'
    <3>1. \A e \in Dumpers : dumper'[e].does \in {"dumping", "pruning"} => dumper'[e].does = dumper[e].does
      BY <2>2
    <3> QED
      BY <2>1, <3>1, FilesStay
  <2>5. DaysInOrder'
    BY <1>2, <1>3, <2>1, <2>2 DEF DaysInOrder, Today
  <2> QED
    BY <2>2, <2>3, <2>4, <2>5 DEF BackupInductive
<1>7. CASE d \in Launches /\ Mark(d) /\ lastRun # dumper[d].day
  <2> DEFINE day == dumper[d].day
  <2>1. /\ dumper[d].does = "locked" /\ lastRun' = day /\ Does(d, "dumping") /\ begun' = [begun EXCEPT ![day] = begun[day] + 1]
        /\ Begins(d) /\ UNCHANGED <<minute, backupAt, runLock, succeeded>>
    BY <1>7 DEF Mark, Doing
  <2>2. /\ dumper' \in [Dumpers -> Work] /\ dumper'[d].does = "dumping"
        /\ \A e \in Dumpers \ {d} : dumper'[e] = dumper[e]
    BY <1>1, <2>1, DoesOK
  <2>3. day \in Days /\ day \in Nat /\ day <= Today /\ (missed = {} => lastRun <= day)
    BY <1>3, <1>7, <2>1 DEF DaysInOrder
  <2>4. lastRun \in Int /\ lastRun # day
    BY <1>3, <1>7
  <2> HIDE DEF day
  <2>5. /\ dumps' \subseteq DumpFile /\ IsFiniteSet(dumps') /\ crossed' \in BOOLEAN
        /\ OneAtATime' /\ NewestIsWhole' /\ GoodBackupKept'
    BY <2>1, <2>2, Begun
  <2>6. begun' \in [Days -> Nat] /\ begun'[day] = begun[day] + 1 /\ \A x \in Days \ {day} : begun'[x] = begun[x]
    BY <1>1, <2>1, <2>3 DEF BackupTypeOK
  <2>7. BackupTypeOK'
    BY <1>1, <2>1, <2>2, <2>3, <2>5, <2>6 DEF BackupTypeOK, Work, DumpFile
  <2>8. lastRun' <= Today'
    BY <2>1, <2>3 DEF Today
  <2>9. ASSUME NEW l \in Launches, dumper'[l].does \in {"due", "locked"}
        PROVE  dumper'[l].day <= Today' /\ (missed' = {} => lastRun' <= dumper'[l].day)
    <3>1. l # d /\ dumper'[l] = dumper[l]
      BY <1>2, <2>2, <2>9
    <3>2. missed' = {} => FALSE
      BY <1>7, <2>9, <3>1
    <3> QED
      BY <2>1, <2>9, <3>1, <3>2 DEF DaysInOrder, Today
  <2>10. ASSUME missed' = {}, NEW x \in Days
         PROVE  begun'[x] = 0 \/ (begun'[x] = 1 /\ x <= lastRun')
    <3>1. begun[x] = 0 \/ (begun[x] = 1 /\ x <= lastRun)
      BY <2>10 DEF DaysInOrder
    <3>2. lastRun < day /\ x \in Nat
      BY <2>3, <2>4, <2>10 DEF Days
    <3>3. CASE x = day
      <4>1. begun[day] = 0
        BY <1>3, <2>3, <3>1, <3>2, <3>3
      <4>2. begun'[day] = 1 /\ day <= day
        BY <2>3, <2>6, <4>1
      <4> QED
        BY <2>1, <3>3, <4>2
    <3>4. CASE x # day
      BY <2>1, <2>3, <2>4, <2>6, <3>1, <3>2, <3>4
    <3> QED
      BY <3>3, <3>4
  <2>11. DaysInOrder'
    BY <2>8, <2>9, <2>10 DEF DaysInOrder
  <2> QED
    BY <2>2, <2>5, <2>7, <2>11 DEF BackupInductive
<1>8. CASE RunNow(d)
  <2>1. /\ dumper[d].does = "idle" /\ Does(d, "dumping") /\ Begins(d) /\ d \in RunNows
        /\ UNCHANGED <<minute, backupAt, lastRun, runLock, begun, succeeded>>
    BY <1>8 DEF RunNow, Doing
  <2>2. /\ dumper' \in [Dumpers -> Work] /\ dumper'[d].does = "dumping"
        /\ \A e \in Dumpers \ {d} : dumper'[e] = dumper[e]
    BY <1>1, <2>1, DoesOK
  <2>3. /\ dumps' \subseteq DumpFile /\ IsFiniteSet(dumps') /\ crossed' \in BOOLEAN
        /\ OneAtATime' /\ NewestIsWhole' /\ GoodBackupKept'
    BY <2>1, <2>2, Begun
  <2>4. BackupTypeOK'
    BY <1>1, <2>1, <2>2, <2>3 DEF BackupTypeOK, Work, DumpFile
  <2>5. DaysInOrder'
    BY <1>2, <1>3, <2>1, <2>2 DEF DaysInOrder, Today
  <2> QED
    BY <2>2, <2>3, <2>5, <2>4 DEF BackupInductive
<1>9. CASE Writes(d)
  <2>1. /\ dumper[d].does = "dumping" /\ dumps' = Newest(d, "open", Without(d))
        /\ UNCHANGED <<minute, backupAt, lastRun, runLock, dumper, begun, crossed, succeeded>>
    BY <1>9 DEF Writes, Doing
  <2>2. dumps' \subseteq DumpFile /\ IsFiniteSet(dumps') /\ (AnyWhole(dumps) => AnyWhole(dumps'))
    BY <1>1, <2>1, WithoutOK, NewestOK
  <2>3. BackupTypeOK'
    BY <1>1, <2>1, <2>2 DEF BackupTypeOK, DumpFile
  <2>4. OneAtATime'
    BY <2>1 DEF BackupInductive, OneAtATime
  <2>5. NewestIsWhole'
    BY <2>1 DEF BackupInductive, OneAtATime, NewestIsWhole, Doing
  <2>6. GoodBackupKept'
    BY <2>1, <2>2 DEF BackupInductive, GoodBackupKept, AnyWhole
  <2>7. DaysInOrder'
    BY <2>1 DEF DaysInOrder, Today
  <2> QED
    BY <2>1, <2>3, <2>4, <2>5, <2>6, <2>7 DEF BackupInductive
<1>10. CASE Dumped(d) /\ dumps' = Newest(d, "whole", Without(d)) /\ succeeded' = TRUE /\ Does(d, "pruning") /\ UNCHANGED runLock
  <2>1. /\ dumper[d].does = "dumping"
        /\ UNCHANGED <<minute, backupAt, lastRun, begun, crossed>>
    BY <1>10 DEF Dumped, Doing
  <2>2. /\ dumps' \subseteq DumpFile /\ IsFiniteSet(dumps') /\ \E f \in dumps' : f.state = "whole" /\ f.age = 0
    BY <1>1, <1>10, WithoutOK, NewestOK
  <2>3. /\ dumper' \in [Dumpers -> Work] /\ dumper'[d].does = "pruning"
        /\ \A e \in Dumpers \ {d} : dumper'[e] = dumper[e]
    BY <1>1, <1>10, DoesOK
  <2>4. BackupTypeOK'
    BY <1>1, <1>10, <2>1, <2>2, <2>3 DEF BackupTypeOK, DumpFile, Work
  <2>5. OneAtATime'
    BY <2>1, <2>3 DEF BackupInductive, OneAtATime
  <2>6. NewestIsWhole' /\ GoodBackupKept'
    BY <2>2 DEF NewestIsWhole, GoodBackupKept
  <2>7. DaysInOrder'
    BY <1>2, <1>3, <2>1, <2>3 DEF DaysInOrder, Today
  <2> QED
    BY <2>3, <2>4, <2>5, <2>6, <2>7 DEF BackupInductive
<1>11. CASE Dumped(d) /\ dumps' = Without(d) /\ Done(d) /\ UNCHANGED succeeded
  <2>1. /\ dumper[d].does = "dumping"
        /\ UNCHANGED <<minute, backupAt, lastRun, begun, crossed>>
    BY <1>11 DEF Dumped, Doing
  <2>2. dumps' \subseteq DumpFile /\ IsFiniteSet(dumps') /\ (AnyWhole(dumps) => AnyWhole(dumps'))
    BY <1>1, <1>11, WithoutOK
  <2>3. /\ dumper' \in [Dumpers -> Work] /\ runLock' \in Schedulers \cup {Nobody}
        /\ \A e \in Dumpers \ {d} : dumper'[e] = dumper[e]
        /\ dumper'[d].does \in {"idle", "over"}
    BY <1>1, <1>11, DoneOK
  <2>4. BackupTypeOK'
    BY <1>1, <1>11, <2>1, <2>2, <2>3 DEF BackupTypeOK, DumpFile, Work
  <2>5. OneAtATime'
    BY <2>1, <2>3 DEF BackupInductive, OneAtATime
  <2>6. NewestIsWhole'
    BY <2>1, <2>3 DEF BackupInductive, OneAtATime, NewestIsWhole, Doing
  <2>7. GoodBackupKept'
    BY <1>11, <2>1, <2>2 DEF BackupInductive, GoodBackupKept, AnyWhole
  <2>8. DaysInOrder'
    BY <1>2, <1>3, <2>1, <2>3 DEF DaysInOrder, Today
  <2> QED
    BY <2>3, <2>4, <2>5, <2>6, <2>8, <2>7 DEF BackupInductive
<1>12. CASE Prune(d)
  <2>11. PICK kept \in 1..MaxBackups : dumps' = Aged({f \in dumps : f.age < kept \/ f.state = "open"})
    BY <1>12 DEF Prune
  <2> DEFINE files == {f \in dumps : f.age < kept \/ f.state = "open"}
  <2>1. /\ dumper[d].does = "pruning" /\ dumps' = Aged(files) /\ Done(d)
        /\ UNCHANGED <<minute, backupAt, lastRun, begun, crossed, succeeded>>
    BY <1>12, <2>11 DEF Prune, Doing
  <2>2. files \in SUBSET DumpFile /\ IsFiniteSet(files)
    BY <1>1, FS_Subset
  <2>3. ~crossed => AnyWhole(files)
    BY <1>1, <2>1 DEF BackupInductive, NewestIsWhole, Doing, AnyWhole
  <2> HIDE DEF files
  <2>4. dumps' \subseteq DumpFile /\ IsFiniteSet(dumps') /\ (~crossed => AnyWhole(dumps'))
    BY <2>1, <2>2, <2>3, AgedOK
  <2>5. /\ dumper' \in [Dumpers -> Work] /\ runLock' \in Schedulers \cup {Nobody}
        /\ \A e \in Dumpers \ {d} : dumper'[e] = dumper[e]
        /\ dumper'[d].does \in {"idle", "over"}
    BY <1>1, <2>1, DoneOK
  <2>6. BackupTypeOK'
    BY <1>1, <2>1, <2>4, <2>5 DEF BackupTypeOK, DumpFile, Work
  <2>7. OneAtATime'
    BY <2>1, <2>5 DEF BackupInductive, OneAtATime
  <2>8. NewestIsWhole'
    BY <2>1, <2>5 DEF BackupInductive, OneAtATime, NewestIsWhole, Doing
  <2>9. GoodBackupKept'
    BY <2>1, <2>4 DEF GoodBackupKept, AnyWhole
  <2>10. DaysInOrder'
    BY <1>2, <1>3, <2>1, <2>5 DEF DaysInOrder, Today
  <2> QED
    BY <2>5, <2>6, <2>7, <2>8, <2>10, <2>9 DEF BackupInductive
<1> QED
  <2>1. Mark(d) => (lastRun = dumper[d].day) \/ (lastRun # dumper[d].day)
    OBVIOUS
  <2>2. Dumped(d) => \/ dumps' = Newest(d, "whole", Without(d)) /\ succeeded' = TRUE /\ Does(d, "pruning") /\ UNCHANGED runLock
                     \/ dumps' = Without(d) /\ Done(d) /\ UNCHANGED succeeded
    BY DEF Dumped
  <2> QED
    BY <1>4, <1>5, <1>6, <1>7, <1>8, <1>9, <1>10, <1>11, <1>12, <2>2

\* The processes in gone end.
LEMMA StoppedKeeps ==
  ASSUME BackupInductive, DaysInOrder, NEW gone \in SUBSET Launches, Stopped(gone), missed \subseteq missed'
  PROVE  /\ BackupInductive' /\ DaysInOrder'
         /\ \A l \in Launches : IF l \in gone THEN dumper'[l].does = "idle" ELSE dumper'[l] = dumper[l]
<1> USE SchedulersAreChildren
<1> DEFINE a == [f \in dumps |-> IF f.by \in gone /\ f.state = "open" THEN [f EXCEPT !.state = "rest"] ELSE f]
<1>1. BackupTypeOK /\ dumps \subseteq DumpFile /\ IsFiniteSet(dumps) /\ dumper \in [Dumpers -> Work] /\ Launches \subseteq Dumpers
  BY DEF BackupInductive, BackupTypeOK, DumpFile, Work, Dumpers
<1>2. UNCHANGED <<minute, backupAt, lastRun, begun, crossed, succeeded>>
  BY DEF Stopped
<1>3. dumps' = {a[f] : f \in dumps}
  BY DEF Stopped
<1>4. \A f \in dumps : a[f] \in DumpFile /\ (f.state = "whole" => a[f] = f)
  BY <1>1 DEF DumpFile
<1>5. a = [x \in dumps |-> a[x]]
  OBVIOUS
<1> HIDE DEF a
<1>6. dumps' \subseteq DumpFile /\ IsFiniteSet(dumps')
  BY <1>1, <1>3, <1>4, <1>5, ImageFinite
<1>7. \A f \in dumps : f.state = "whole" => f \in dumps'
  BY <1>3, <1>4
<1>8. 0 \in Days
  BY BackupConstants DEF Days
<1>9. /\ dumper' \in [Dumpers -> Work]
      /\ \A d \in Dumpers : IF d \in gone THEN dumper'[d].does = "idle" ELSE dumper'[d] = dumper[d]
  BY <1>1, <1>8 DEF Stopped, Work
<1>10. runLock' \in Schedulers \cup {Nobody}
  BY <1>1 DEF Stopped, BackupTypeOK
<1>11. BackupTypeOK'
  BY <1>1, <1>2, <1>6, <1>9, <1>10 DEF BackupTypeOK, DumpFile, Work
<1>12. OneAtATime'
  BY <1>2, <1>9 DEF OneAtATime, BackupInductive
<1>13. NewestIsWhole'
  BY <1>2, <1>7, <1>9 DEF NewestIsWhole, Doing, BackupInductive
<1>14. GoodBackupKept'
  BY <1>2, <1>7 DEF GoodBackupKept, BackupInductive
<1>15. DaysInOrder'
  BY <1>1, <1>2, <1>9 DEF DaysInOrder, Today
<1> QED
  BY <1>1, <1>9, <1>11, <1>12, <1>13, <1>14, <1>15 DEF BackupInductive

\* The time passes, and the admin sets another.
LEMMA MinuteKeeps ==
  ASSUME BackupInductive, DaysInOrder, UNCHANGED missed, Minute \/ PutBackupSettings
  PROVE  BackupInductive' /\ DaysInOrder' /\ UNCHANGED dumper
<1>1. BackupTypeOK /\ \A l \in Launches : dumper[l].day \in Nat
  BY SchedulersAreChildren DEF BackupInductive, BackupTypeOK, Dumpers, Days
<1>2. /\ minute' \in 0..MaxMinute /\ minute \in Nat /\ minute' \in Nat /\ minute <= minute'
      /\ backupAt' \in Times \cup {Nobody}
      /\ UNCHANGED <<lastRun, runLock, dumper, dumps, begun, crossed, succeeded>>
  BY <1>1, BackupConstants DEF Minute, PutBackupSettings, BackupTypeOK
<1>3. BackupTypeOK'
  BY <1>1, <1>2 DEF BackupTypeOK
<1>4. OneAtATime' /\ NewestIsWhole' /\ GoodBackupKept'
  BY <1>2 DEF BackupInductive, OneAtATime, NewestIsWhole, GoodBackupKept, Doing
<1>5. Today <= Today' /\ Today \in Nat /\ Today' \in Nat
  <2>1. DayMinutes \in Nat /\ DayMinutes > 0
    BY BackupConstants
  <2>2. minute \div DayMinutes \in Nat /\ minute' \div DayMinutes \in Nat /\ minute \div DayMinutes <= minute' \div DayMinutes
    BY <1>2, <2>1, DivGrows
  <2> QED
    BY <2>2 DEF Today
<1>6. lastRun \in Int
  BY <1>1 DEF BackupTypeOK, Days
<1>7. DaysInOrder'
  BY <1>1, <1>2, <1>5, <1>6 DEF DaysInOrder
<1> QED
  BY <1>2, <1>3, <1>4, <1>7 DEF BackupInductive

-----------------------------------------------------------------------------
(* The files of the users. *)

\* Where the files are.
LEMMA FilesOK ==
  /\ \A u \in Uploads : Input(u) \in Files /\ Parsed(u) \in Files
  /\ \A u \in Uploads : Input(u) \notin Previews /\ Parsed(u) \notin Previews
  /\ \A u, v : Input(u) # Parsed(v)
  /\ \A u, v : Parsed(u) = Parsed(v) => u = v
  /\ Previews \subseteq Files
<1>1. \A u \in Uploads : Input(u) \in Uploads \X {"input", "parsed"} /\ Parsed(u) \in Uploads \X {"input", "parsed"}
  BY DEF Input, Parsed
<1> QED
  BY <1>1, ScratchConstants DEF Files, Input, Parsed

\* Tokens that are deleted, and the ones that stay.
LEMMA DeletedOK ==
  ASSUME token \in [Uploads -> Token], NEW us \in SUBSET Uploads
  PROVE  /\ Deleted(us) \in [Uploads -> Token]
         /\ \A u \in Uploads :
              /\ Deleted(us)[u].expires = token[u].expires /\ Deleted(us)[u].stored = token[u].stored
              /\ Deleted(us)[u].state = IF u \in us THEN "deleted" ELSE token[u].state
  BY DEF Deleted, Token

\* A token that goes on.
LEMMA TokenOK ==
  ASSUME NEW t \in Token, NEW what \in {"none", "parsing", "live", "deleted"}, NEW n \in Int
  PROVE  /\ [[t EXCEPT !.state = what] EXCEPT !.stored = n] \in Token
         /\ [[t EXCEPT !.state = what] EXCEPT !.stored = n].stored = n
         /\ [[t EXCEPT !.state = what] EXCEPT !.expires = n] \in Token
         /\ [[t EXCEPT !.state = what] EXCEPT !.expires = n].stored = t.stored
<1>1. [t EXCEPT !.state = what] \in Token /\ [t EXCEPT !.state = what].stored = t.stored
  BY DEF Token
<1>2. \A x \in Token : /\ [x EXCEPT !.stored = n] \in Token /\ [x EXCEPT !.stored = n].stored = n
                       /\ [x EXCEPT !.expires = n] \in Token /\ [x EXCEPT !.expires = n].stored = x.stored
  BY DEF Token
<1> QED
  BY <1>1, <1>2

\* Files that are unlinked.
LEMMA UnlinkedOK ==
  ASSUME file \in [Files -> 0..MaxNow \cup {Absent}], NEW files
  PROVE  /\ Unlinked(files) \in [Files -> 0..MaxNow \cup {Absent}]
         /\ \A f \in Files : Unlinked(files)[f] = IF f \in files THEN Absent ELSE file[f]
  BY DEF Unlinked, Absent

\* What an expired token takes along: no preview, and rows that nobody has a right to.
LEMMA ExpiredOK ==
  ASSUME ScratchTypeOK
  PROVE  /\ Expired \subseteq Uploads
         /\ \A p \in Previews : p \notin FilesOf(Expired)
         /\ \A u \in Uploads : Parsed(u) \in FilesOf(Expired) => u \in Expired /\ ~Fresh(u) /\ token[u].state = "live"
<1>1. \A u \in Uploads : token[u].expires \in Int /\ now \in Int
  BY DEF ScratchTypeOK, Token
<1>2. \A u \in Expired : token[u].expires < now /\ token[u].state = "live"
  BY DEF Expired
<1>3. \A u \in Uploads : Parsed(u) \in FilesOf(Expired) => u \in Expired
  BY FilesOK DEF FilesOf, Expired
<1>4. \A p \in Previews : p \notin FilesOf(Expired)
  BY FilesOK DEF FilesOf, Expired
<1> QED
  BY <1>1, <1>2, <1>3, <1>4 DEF Expired, Fresh

\* The tokens that have expired go with their files: nothing that waits is hurt.
LEMMA Pruned ==
  ASSUME ScratchInductive, token' = Deleted(Expired), file' = Unlinked(FilesOf(Expired)), UNCHANGED <<now, keep, made>>
  PROVE  /\ file' \in [Files -> 0..MaxNow \cup {Absent}] /\ token' \in [Uploads -> Token]
         /\ RowsAreDated' /\ PreviewsAreDated'
         /\ \A u \in Uploads : /\ token[u].state \in {"live", "deleted"} => token'[u].state \in {"live", "deleted"}
                               /\ Fresh(u)' <=> Fresh(u)
                               /\ There(Parsed(u)) \/ ~Fresh(u) => There(Parsed(u))' \/ ~Fresh(u)'
<1>1. ScratchTypeOK /\ token \in [Uploads -> Token] /\ file \in [Files -> 0..MaxNow \cup {Absent}]
  BY DEF ScratchInductive, ScratchTypeOK
<1>2. /\ token' \in [Uploads -> Token]
      /\ \A u \in Uploads :
              /\ token'[u].expires = token[u].expires /\ token'[u].stored = token[u].stored
              /\ token'[u].state = IF u \in Expired THEN "deleted" ELSE token[u].state
  BY <1>1, DeletedOK, ExpiredOK
<1>3. /\ file' \in [Files -> 0..MaxNow \cup {Absent}]
      /\ \A f \in Files : file'[f] = IF f \in FilesOf(Expired) THEN Absent ELSE file[f]
  BY <1>1, UnlinkedOK
<1>4. RowsAreDated'
  BY <1>2, <1>3, FilesOK DEF RowsAreDated, ScratchInductive, Parsed, Input
<1>5. PreviewsAreDated'
  BY <1>1, <1>3, FilesOK, ExpiredOK DEF PreviewsAreDated, ScratchInductive
<1>6. \A u \in Uploads : Fresh(u)' <=> Fresh(u)
  BY <1>2 DEF Fresh
<1>7. \A u \in Uploads : There(Parsed(u)) \/ ~Fresh(u) => There(Parsed(u))' \/ ~Fresh(u)'
  BY <1>1, <1>3, <1>6, FilesOK, ExpiredOK DEF There, Parsed
<1> QED
  BY <1>2, <1>3, <1>4, <1>5, <1>6, <1>7

\* Requests that stay while nothing that they wait for is taken.
LEMMA Waits ==
  ASSUME ScratchInductive, UNCHANGED report,
         \A u \in Uploads : /\ token[u].state \in {"live", "deleted"} => token'[u].state \in {"live", "deleted"}
                            /\ token[u].state \in {"live", "deleted"} /\ (There(Parsed(u)) \/ ~Fresh(u))
                               => There(Parsed(u))' \/ ~Fresh(u)'
  PROVE  RowsWait' /\ ReportFindsRows'
<1>1. ReportFindsRows'
  BY DEF ScratchInductive, ReportFindsRows
<1>2. ASSUME NEW r \in Reports, report[r].pc = "queued"
      PROVE  There(Parsed(report[r].of))' \/ ~Fresh(report[r].of)'
  <2>1. PICK u \in Uploads : u = report[r].of
    BY <1>2 DEF ScratchInductive, RowsWait
  <2>2. token[u].state \in {"live", "deleted"} /\ (There(Parsed(u)) \/ ~Fresh(u))
    BY <1>2, <2>1 DEF ScratchInductive, RowsWait
  <2>3. There(Parsed(u))' \/ ~Fresh(u)'
    BY <2>2
  <2> QED
    BY <2>1, <2>3 DEF There, Parsed, Fresh
<1>3. RowsWait'
  BY <1>2 DEF ScratchInductive, RowsWait
<1> QED
  BY <1>1, <1>3

\* A report that goes on, and the others.
LEMMA Reported ==
  ASSUME report \in [Reports -> Report], NEW r \in Reports, NEW x \in Report, report' = [report EXCEPT ![r] = x]
  PROVE  report' \in [Reports -> Report] /\ report'[r] = x /\ \A q \in Reports \ {r} : report'[q] = report[q]
  OBVIOUS

\* The users' steps.
LEMMA UserKeeps ==
  ASSUME ScratchInductive, UserStep
  PROVE  ScratchInductive'
<1>1. ScratchTypeOK /\ token \in [Uploads -> Token] /\ file \in [Files -> 0..MaxNow \cup {Absent}] /\ now \in Nat /\ MaxNow \in Nat
      /\ keep.least \in Nat /\ report \in [Reports -> Report]
  <2>1. ScratchTypeOK /\ Keeps \subseteq Nat /\ MaxNow \in Nat
    BY ScratchConstants DEF ScratchInductive
  <2>2. keep.least \in Keeps /\ now \in 0..MaxNow
    BY <2>1 DEF ScratchTypeOK
  <2>3. token \in [Uploads -> Token] /\ file \in [Files -> 0..MaxNow \cup {Absent}] /\ report \in [Reports -> Report]
    BY <2>1 DEF ScratchTypeOK
  <2>4. keep.least \in Nat
    BY <2>1, <2>2, Zenon
  <2>5. now \in Nat
    BY <2>1, <2>2
  <2> QED
    BY <2>1, <2>3, <2>4, <2>5
<1>2. \A u \in Uploads : token[u].expires \in Int /\ token[u].stored \in Int
  BY <1>1 DEF Token
<1>3. CASE Later
  <2>1. now' = now + 1 /\ now < MaxNow /\ UNCHANGED <<keep, file, token, report, made, lastSweep>>
    BY <1>3 DEF Later
  <2>2. ScratchTypeOK'
    BY <1>1, <2>1 DEF ScratchTypeOK
  <2>3. RowsAreDated'
    BY <2>1 DEF ScratchInductive, RowsAreDated
  <2>4. PreviewsAreDated'
    BY <1>1, <2>1, ScratchConstants DEF ScratchInductive, PreviewsAreDated, ScratchTypeOK
  <2>5. \A u \in Uploads : Fresh(u)' => Fresh(u)
    BY <1>1, <1>2, <2>1 DEF Fresh
  <2>6. RowsWait' /\ ReportFindsRows'
    BY <2>1, <2>5, Waits DEF There
  <2> QED
    BY <2>2, <2>3, <2>4, <2>6 DEF ScratchInductive
<1>4. ASSUME NEW u \in Uploads, Upload(u)
      PROVE  ScratchInductive'
  <2> DEFINE t == [[token[u] EXCEPT !.state = "parsing"] EXCEPT !.stored = now]
  <2>1. token[u].state = "none" /\ UNCHANGED <<now, keep, report, made, lastSweep>>
    BY <1>4 DEF Upload
  <2>2. t \in Token /\ t.stored = now
    <3>1. token[u] \in Token /\ now \in Int
      BY <1>1
    <3> QED
      BY <3>1, TokenOK
  <2>3. token' = [token EXCEPT ![u] = t]
    BY <1>1, <1>4 DEF Upload
  <2> HIDE DEF t
  <2>4. token' \in [Uploads -> Token] /\ token'[u].stored = now /\ \A v \in Uploads \ {u} : token'[v] = token[v]
    BY <1>1, <2>2, <2>3
  <2>5. file' = [file EXCEPT ![Input(u)] = now, ![Parsed(u)] = now]
    BY <1>4 DEF Upload
  <2>6. now \in 0..MaxNow
    BY <1>1 DEF ScratchTypeOK
  <2>7. /\ file' \in [Files -> 0..MaxNow \cup {Absent}]
        /\ file'[Parsed(u)] = now
        /\ \A f \in Files : f # Parsed(u) /\ f # Input(u) => file'[f] = file[f]
    BY <1>1, <2>5, <2>6, FilesOK
  <2>8. ScratchTypeOK'
    BY <1>1, <2>1, <2>4, <2>7 DEF ScratchTypeOK
  <2>9. RowsAreDated'
    <3> SUFFICES ASSUME NEW v \in Uploads
                 PROVE  file'[Parsed(v)] \in {token'[v].stored, Absent}
      BY DEF RowsAreDated, Parsed
    <3>1. CASE v = u
      BY <2>4, <2>7, <3>1
    <3>2. CASE v # u
      <4>1. Parsed(v) \in Files /\ Parsed(v) # Parsed(u) /\ Parsed(v) # Input(u)
        BY <3>2, FilesOK
      <4> QED
        BY <2>4, <2>7, <3>2, <4>1 DEF ScratchInductive, RowsAreDated
    <3> QED
      BY <3>1, <3>2
  <2>10. PreviewsAreDated'
    BY <2>1, <2>7, FilesOK DEF ScratchInductive, PreviewsAreDated
  <2>11. RowsWait' /\ ReportFindsRows'
    <3>1. ASSUME NEW v \in Uploads, token[v].state \in {"live", "deleted"}
          PROVE  /\ token'[v] = token[v] /\ file'[Parsed(v)] = file[Parsed(v)]
                 /\ There(Parsed(v)) \/ ~Fresh(v) => There(Parsed(v))' \/ ~Fresh(v)'
      <4>1. v # u
        BY <2>1, <3>1
      <4>2. token'[v] = token[v] /\ file'[Parsed(v)] = file[Parsed(v)]
        BY <2>4, <2>7, <4>1, FilesOK
      <4> QED
        BY <2>1, <4>2 DEF There, Fresh, Parsed
    <3> QED
      BY <2>1, <3>1, Waits
  <2> QED
    BY <2>8, <2>9, <2>10, <2>11 DEF ScratchInductive
<1>5. ASSUME NEW u \in Uploads, Stash(u)
      PROVE  ScratchInductive'
  <2>1. token[u].state = "parsing" /\ UNCHANGED <<now, keep, report, made, lastSweep>>
    BY <1>5 DEF Stash
  <2>2. CASE token' = [Deleted(Expired) EXCEPT ![u].state = "live", ![u].expires = now + TokenTtl]
             /\ file' = Unlinked(FilesOf(Expired))
    <3> DEFINE D == Deleted(Expired)
               t == [[D[u] EXCEPT !.state = "live"] EXCEPT !.expires = now + TokenTtl]
    <3>1. /\ D \in [Uploads -> Token]
          /\ \A v \in Uploads :
               /\ D[v].expires = token[v].expires /\ D[v].stored = token[v].stored
               /\ D[v].state = IF v \in Expired THEN "deleted" ELSE token[v].state
      BY <1>1, DeletedOK, ExpiredOK
    <3>2. token' = [D EXCEPT ![u] = t]
      BY <2>2, <3>1
    <3> HIDE DEF D
    <3>3. t \in Token /\ t.stored = D[u].stored
      <4>1. now + TokenTtl \in Int /\ D[u] \in Token
        BY <1>1, <3>1, ScratchConstants
      <4> QED
        BY <4>1, TokenOK
    <3> HIDE DEF t
    <3>4. /\ token' \in [Uploads -> Token] /\ token'[u].stored = token[u].stored
          /\ \A v \in Uploads \ {u} :
               /\ token'[v].expires = token[v].expires /\ token'[v].stored = token[v].stored
               /\ token'[v].state = IF v \in Expired THEN "deleted" ELSE token[v].state
      BY <3>1, <3>2, <3>3
    <3>5. /\ file' \in [Files -> 0..MaxNow \cup {Absent}]
          /\ \A f \in Files : file'[f] = IF f \in FilesOf(Expired) THEN Absent ELSE file[f]
      BY <1>1, <2>2, UnlinkedOK
    <3>6. ScratchTypeOK'
      BY <1>1, <2>1, <3>4, <3>5 DEF ScratchTypeOK
    <3>7. RowsAreDated'
      BY <3>4, <3>5, FilesOK DEF RowsAreDated, ScratchInductive, Parsed, Input
    <3>8. PreviewsAreDated'
      BY <1>1, <2>1, <3>5, FilesOK, ExpiredOK DEF PreviewsAreDated, ScratchInductive
    <3>9. ASSUME NEW v \in Uploads, token[v].state \in {"live", "deleted"}
          PROVE  /\ token'[v].state \in {"live", "deleted"}
                 /\ There(Parsed(v)) \/ ~Fresh(v) => There(Parsed(v))' \/ ~Fresh(v)'
      <4>1. v # u
        BY <2>1, <3>9
      <4>2. Fresh(v)' <=> Fresh(v)
        BY <2>1, <3>4, <4>1 DEF Fresh
      <4>3. There(Parsed(v)) => There(Parsed(v))' \/ ~Fresh(v)
        BY <1>1, <3>5, FilesOK, ExpiredOK DEF There, Parsed
      <4> QED
        BY <3>4, <3>9, <4>1, <4>2, <4>3
    <3>10. RowsWait' /\ ReportFindsRows'
      BY <2>1, <3>9, Waits
    <3> QED
      BY <3>6, <3>7, <3>8, <3>10 DEF ScratchInductive
  <2>3. CASE token' = [token EXCEPT ![u].state = "deleted"] /\ UNCHANGED file
    <3> DEFINE t == [token[u] EXCEPT !.state = "deleted"]
    <3>1. t \in Token /\ t.stored = token[u].stored /\ token' = [token EXCEPT ![u] = t]
      BY <1>1, <2>3 DEF Token
    <3> HIDE DEF t
    <3>2. token' \in [Uploads -> Token] /\ token'[u].stored = token[u].stored /\ \A v \in Uploads \ {u} : token'[v] = token[v]
      BY <1>1, <3>1
    <3>3. ScratchTypeOK'
      BY <1>1, <2>1, <2>3, <3>2 DEF ScratchTypeOK
    <3>4. RowsAreDated'
      BY <2>3, <3>2 DEF RowsAreDated, ScratchInductive
    <3>5. PreviewsAreDated'
      BY <2>1, <2>3 DEF PreviewsAreDated, ScratchInductive
    <3>6. ASSUME NEW v \in Uploads, token[v].state \in {"live", "deleted"}
          PROVE  /\ token'[v].state \in {"live", "deleted"}
                 /\ There(Parsed(v)) \/ ~Fresh(v) => There(Parsed(v))' \/ ~Fresh(v)'
      <4>1. token'[v] = token[v]
        BY <2>1, <3>2, <3>6
      <4> QED
        BY <2>1, <2>3, <3>6, <4>1 DEF There, Fresh
    <3>7. RowsWait' /\ ReportFindsRows'
      BY <2>1, <3>6, Waits
    <3> QED
      BY <3>3, <3>4, <3>5, <3>7 DEF ScratchInductive
  <2> QED
    BY <1>5, <2>2, <2>3 DEF Stash
<1>6. ASSUME NEW r \in Reports, NEW u \in Uploads, AskReport(r, u)
      PROVE  ScratchInductive'
  <2> DEFINE pc == IF token'[u].state = "live" THEN "asked" ELSE "refused"
             x == [report[r] EXCEPT !.pc = pc, !.of = u]
  <2>1. /\ report[r].pc = "none" /\ token[u].state \in {"live", "deleted"}
        /\ token' = Deleted(Expired) /\ file' = Unlinked(FilesOf(Expired)) /\ report' = [report EXCEPT ![r] = x]
        /\ UNCHANGED <<now, keep, made, lastSweep>>
    BY <1>6 DEF AskReport
  <2>2. x \in Report /\ x.pc \in {"asked", "refused"} /\ x.of = u /\ x.fair = report[r].fair
    <3>1. report[r] \in Report /\ pc \in {"asked", "refused"}
      BY <1>1
    <3> HIDE DEF pc
    <3> QED
      BY <3>1 DEF Report
  <2> HIDE DEF x
  <2>3. report' \in [Reports -> Report] /\ report'[r] = x /\ \A q \in Reports \ {r} : report'[q] = report[q]
    BY <1>1, <2>1, <2>2, Reported
  <2>4. /\ file' \in [Files -> 0..MaxNow \cup {Absent}] /\ token' \in [Uploads -> Token]
        /\ RowsAreDated' /\ PreviewsAreDated'
        /\ \A v \in Uploads : /\ token[v].state \in {"live", "deleted"} => token'[v].state \in {"live", "deleted"}
                              /\ Fresh(v)' <=> Fresh(v)
                              /\ There(Parsed(v)) \/ ~Fresh(v) => There(Parsed(v))' \/ ~Fresh(v)'
    BY <2>1, Pruned
  <2>5. ScratchTypeOK'
    BY <1>1, <2>1, <2>3, <2>4 DEF ScratchTypeOK
  <2>6. ReportFindsRows'
    BY <2>2, <2>3 DEF ScratchInductive, ReportFindsRows
  <2>7. ASSUME NEW q \in Reports
        PROVE  /\ report'[q].pc \in {"asked", "queued", "running"} =>
                    report'[q].of \in Uploads /\ token'[report'[q].of].state \in {"live", "deleted"}
               /\ report'[q].pc = "queued" => There(Parsed(report[q].of))' \/ ~Fresh(report[q].of)'
    <3>1. CASE q = r
      BY <2>1, <2>2, <2>3, <2>4, <3>1
    <3>2. CASE q # r /\ report[q].pc \in {"asked", "queued", "running"}
      <4>1. PICK v \in Uploads : v = report[q].of
        BY <3>2 DEF ScratchInductive, RowsWait
      <4>2. token[v].state \in {"live", "deleted"} /\ (report[q].pc = "queued" => There(Parsed(v)) \/ ~Fresh(v))
        BY <3>2, <4>1 DEF ScratchInductive, RowsWait
      <4>3. token'[v].state \in {"live", "deleted"} /\ (report[q].pc = "queued" => There(Parsed(v))' \/ ~Fresh(v)')
        BY <2>4, <4>2
      <4>4. report'[q] = report[q]
        BY <2>3, <3>2
      <4> QED
        BY <4>1, <4>3, <4>4 DEF There, Parsed, Fresh
    <3> QED
      BY <2>3, <3>1, <3>2
  <2>8. RowsWait'
    BY <2>2, <2>3, <2>7 DEF RowsWait, There, Parsed, Fresh
  <2> QED
    BY <2>4, <2>5, <2>6, <2>8 DEF ScratchInductive
<1>7. ASSUME NEW p \in Previews, Preview(p)
      PROVE  ScratchInductive'
  <2>1. /\ made' = [made EXCEPT ![p] = now] /\ file' = [file EXCEPT ![p] = now]
        /\ UNCHANGED <<now, keep, token, report, lastSweep>>
    BY <1>7 DEF Preview
  <2>2. now \in 0..MaxNow /\ p \in Files
    BY <1>1, FilesOK DEF ScratchTypeOK
  <2>3. /\ file' \in [Files -> 0..MaxNow \cup {Absent}] /\ file'[p] = now
        /\ \A f \in Files \ {p} : file'[f] = file[f]
    BY <1>1, <2>1, <2>2
  <2>4. made' \in [Previews -> Int] /\ made'[p] = now /\ \A q \in Previews \ {p} : made'[q] = made[q]
    BY <1>1, <2>1 DEF ScratchTypeOK
  <2>5. ScratchTypeOK'
    BY <1>1, <2>1, <2>3, <2>4 DEF ScratchTypeOK
  <2>6. \A u \in Uploads : file'[Parsed(u)] = file[Parsed(u)]
    BY <2>3, FilesOK
  <2>7. RowsAreDated'
    BY <2>1, <2>6 DEF ScratchInductive, RowsAreDated, Parsed
  <2>8. PreviewsAreDated'
    BY <2>1, <2>3, <2>4, FilesOK DEF ScratchInductive, PreviewsAreDated
  <2>9. RowsWait' /\ ReportFindsRows'
    <3>1. \A u \in Uploads : (There(Parsed(u)) => There(Parsed(u))') /\ (Fresh(u)' <=> Fresh(u)) /\ token'[u] = token[u]
      BY <2>1, <2>6 DEF There, Parsed, Fresh
    <3> QED
      BY <2>1, <3>1, Waits
  <2> QED
    BY <2>5, <2>7, <2>8, <2>9 DEF ScratchInductive
<1>8. ASSUME NEW r \in Reports, SubmitReport(r)
      PROVE  ScratchInductive'
  <2>1. /\ report[r].pc = "asked" /\ UNCHANGED <<now, keep, file, made, lastSweep>>
        /\ \/ There(Parsed(report[r].of)) /\ report' = [report EXCEPT ![r].pc = "queued"] /\ UNCHANGED token
           \/ report' = [report EXCEPT ![r].pc = "refused"] /\ token' = Deleted({report[r].of})
    BY <1>8 DEF SubmitReport
  <2>2. report[r].of \in Uploads /\ token[report[r].of].state \in {"live", "deleted"}
    BY <2>1 DEF ScratchInductive, RowsWait
  <2>3. PICK pc \in {"queued", "refused"} : report' = [report EXCEPT ![r].pc = pc] /\ (pc = "queued" => There(Parsed(report[r].of)))
    BY <2>1
  <2> DEFINE x == [report[r] EXCEPT !.pc = pc]
  <2>4. x \in Report /\ x.pc = pc /\ x.of = report[r].of /\ x.fair = report[r].fair /\ report' = [report EXCEPT ![r] = x]
    BY <1>1, <2>3 DEF Report
  <2> HIDE DEF x
  <2>5. report' \in [Reports -> Report] /\ report'[r] = x /\ \A q \in Reports \ {r} : report'[q] = report[q]
    BY <1>1, <2>4, Reported
  <2>6. /\ token' \in [Uploads -> Token]
        /\ \A u \in Uploads : /\ token'[u].expires = token[u].expires /\ token'[u].stored = token[u].stored
                              /\ token[u].state \in {"live", "deleted"} => token'[u].state \in {"live", "deleted"}
    <3>1. CASE UNCHANGED token
      BY <1>1, <3>1
    <3>2. CASE token' = Deleted({report[r].of})
      BY <1>1, <2>2, <3>2, DeletedOK
    <3> QED
      BY <2>1, <3>1, <3>2
  <2>7. ScratchTypeOK'
    BY <1>1, <2>1, <2>5, <2>6 DEF ScratchTypeOK
  <2>8. RowsAreDated' /\ PreviewsAreDated'
    BY <2>1, <2>6 DEF ScratchInductive, RowsAreDated, PreviewsAreDated
  <2>9. ReportFindsRows'
    BY <2>4, <2>5 DEF ScratchInductive, ReportFindsRows
  <2>10. ASSUME NEW q \in Reports, report'[q].pc \in {"asked", "queued", "running"}
         PROVE  /\ report'[q].of \in Uploads /\ token'[report'[q].of].state \in {"live", "deleted"}
                /\ report'[q].pc = "queued" => There(Parsed(report'[q].of)) \/ ~Fresh(report'[q].of)
    <3>1. CASE q = r
      BY <2>2, <2>3, <2>4, <2>5, <2>6, <3>1
    <3>2. CASE q # r
      BY <2>5, <2>6, <2>10, <3>2 DEF ScratchInductive, RowsWait
    <3> QED
      BY <3>1, <3>2
  <2>11. \A u \in Uploads : (There(Parsed(u)) => There(Parsed(u))') /\ (Fresh(u)' <=> Fresh(u))
    BY <2>1, <2>6 DEF There, Parsed, Fresh
  <2>12. RowsWait'
    <3> SUFFICES ASSUME NEW q \in Reports, report'[q].pc \in {"asked", "queued", "running"}
                 PROVE  /\ report'[q].of \in Uploads /\ token'[report'[q].of].state \in {"live", "deleted"}
                        /\ report'[q].pc = "queued" => There(Parsed(report[q].of))' \/ ~Fresh(report[q].of)'
      BY DEF RowsWait
    <3>1. PICK u \in Uploads : u = report'[q].of
      BY <2>10
    <3>2. report'[q].pc = "queued" => There(Parsed(u))' \/ ~Fresh(u)'
      BY <2>10, <2>11, <3>1
    <3> QED
      BY <2>10, <3>1, <3>2 DEF There, Parsed, Fresh
  <2> QED
    BY <2>7, <2>8, <2>9, <2>12 DEF ScratchInductive
<1>9. ASSUME NEW r \in Reports, RunReport(r) \/ EndReport(r)
      PROVE  ScratchInductive'
  <2>1. /\ UNCHANGED <<now, keep, token, made, lastSweep>>
        /\ file' = file \/ file' = Unlinked({Input(report[r].of)})
    BY <1>9 DEF RunReport, EndReport
  <2>2. PICK x \in Report : /\ x.pc \in {"running", "failed", "done"} /\ x.fair /\ x.of = report[r].of
                         /\ report[r].pc \in {"queued", "running"} /\ report' = [report EXCEPT ![r] = x]
    <3>1. CASE RunReport(r)
      <4> DEFINE pc == IF There(Parsed(report[r].of)) THEN "running" ELSE "failed"
                 fair == There(Parsed(report[r].of)) \/ ~Fresh(report[r].of)
                 x == [[report[r] EXCEPT !.pc = pc] EXCEPT !.fair = fair]
      <4>1. fair = TRUE
        BY <3>1 DEF RunReport, ScratchInductive, RowsWait
      <4>2. pc \in {"running", "failed"}
        OBVIOUS
      <4>3. report' = [report EXCEPT ![r].pc = pc, ![r].fair = fair]
        BY <3>1 DEF RunReport
      <4> HIDE DEF pc, fair
      <4>4. [report[r] EXCEPT !.pc = pc] \in Report /\ [report[r] EXCEPT !.pc = pc].pc = pc /\ [report[r] EXCEPT !.pc = pc].of = report[r].of
        BY <1>1, <4>2 DEF Report
      <4>5. x \in Report /\ x.pc = pc /\ x.fair /\ x.of = report[r].of
        BY <4>1, <4>4 DEF Report
      <4>6. report' = [report EXCEPT ![r] = x]
        BY <1>1, <4>3
      <4>7. report[r].pc = "queued"
        BY <3>1 DEF RunReport
      <4> QED
        BY <4>2, <4>5, <4>6, <4>7
    <3>2. CASE EndReport(r)
      <4> DEFINE x == [report[r] EXCEPT !.pc = "done"]
      <4>1. x \in Report /\ x.pc = "done" /\ x.fair = report[r].fair /\ x.of = report[r].of
        BY <1>1 DEF Report
      <4>2. report' = [report EXCEPT ![r] = x] /\ report[r].fair /\ report[r].pc = "running"
        BY <3>2 DEF EndReport, ScratchInductive, ReportFindsRows
      <4> QED
        BY <4>1, <4>2
    <3> QED
      BY <1>9, <3>1, <3>2
  <2>3. report' \in [Reports -> Report] /\ report'[r] = x /\ \A q \in Reports \ {r} : report'[q] = report[q]
    BY <1>1, <2>2, Reported
  <2>4. /\ file' \in [Files -> 0..MaxNow \cup {Absent}]
        /\ \A u \in Uploads : file'[Parsed(u)] = file[Parsed(u)]
        /\ \A p \in Previews : file'[p] = file[p]
    <3>1. CASE file' = file
      BY <1>1, <3>1
    <3>2. CASE EndReport(r)
      <4>1. file' = Unlinked({Input(report[r].of)}) /\ report[r].of \in Uploads
        BY <3>2 DEF EndReport, ScratchInductive, RowsWait
      <4> QED
        BY <1>1, <4>1, UnlinkedOK, FilesOK
    <3> QED
      BY <1>9, <3>1, <3>2 DEF RunReport
  <2>5. ScratchTypeOK'
    BY <1>1, <2>1, <2>3, <2>4 DEF ScratchTypeOK
  <2>6. RowsAreDated' /\ PreviewsAreDated'
    BY <2>1, <2>4 DEF ScratchInductive, RowsAreDated, PreviewsAreDated, Parsed
  <2>7. ReportFindsRows'
    BY <2>2, <2>3 DEF ScratchInductive, ReportFindsRows
  <2>8. \A u \in Uploads : (There(Parsed(u)) => There(Parsed(u))') /\ (Fresh(u)' <=> Fresh(u))
    BY <2>1, <2>4 DEF There, Parsed, Fresh
  <2>9. RowsWait'
    <3> SUFFICES ASSUME NEW q \in Reports, report'[q].pc \in {"asked", "queued", "running"}
                 PROVE  /\ report'[q].of \in Uploads /\ token'[report'[q].of].state \in {"live", "deleted"}
                        /\ report'[q].pc = "queued" => There(Parsed(report[q].of))' \/ ~Fresh(report[q].of)'
      BY DEF RowsWait
    <3>1. /\ report'[q].of = report[q].of /\ report[q].pc \in {"asked", "queued", "running"}
          /\ report'[q].pc = "queued" => report[q].pc = "queued"
      BY <2>2, <2>3
    <3>2. PICK u \in Uploads : u = report[q].of
      BY <3>1 DEF ScratchInductive, RowsWait
    <3>3. token[u].state \in {"live", "deleted"} /\ (report'[q].pc = "queued" => There(Parsed(u)) \/ ~Fresh(u))
      BY <3>1, <3>2 DEF ScratchInductive, RowsWait
    <3>4. token'[u].state \in {"live", "deleted"} /\ (report'[q].pc = "queued" => There(Parsed(u))' \/ ~Fresh(u)')
      BY <2>1, <2>8, <3>3
    <3> QED
      BY <3>1, <3>2, <3>4 DEF There, Parsed, Fresh
  <2> QED
    BY <2>5, <2>6, <2>7, <2>9 DEF ScratchInductive
<1> QED
  BY <1>3, <1>4, <1>5, <1>6, <1>7, <1>8, <1>9 DEF UserStep

\* The admin's retention: what was too old for it still is.
LEMMA RetentionKeeps ==
  ASSUME ScratchInductive, PutRetention
  PROVE  ScratchInductive'
<1>1. /\ ScratchTypeOK /\ Keeps \subseteq Nat /\ now \in Int
      /\ \A u \in Uploads : token[u].expires \in Int /\ token[u].stored \in Int
  BY ScratchConstants DEF ScratchInductive, ScratchTypeOK, Token
<1>2. /\ keep' \in [set: Keeps, least: Keeps] /\ keep'.least <= keep'.set /\ keep'.least <= keep.least
      /\ keep'.least \in Int /\ keep.least \in Int
      /\ UNCHANGED <<now, file, token, report, made, lastSweep>>
  <2>1. PICK k \in Keeps : keep' = [set |-> k, least |-> IF k < keep.least THEN k ELSE keep.least]
    BY DEF PutRetention
  <2>2. keep.least \in Keeps /\ keep.least \in Nat /\ k \in Nat
    BY <1>1 DEF ScratchTypeOK
  <2> QED
    BY <1>1, <2>1, <2>2 DEF PutRetention
<1>3. ScratchTypeOK'
  BY <1>1, <1>2 DEF ScratchTypeOK
<1>4. RowsAreDated' /\ PreviewsAreDated'
  BY <1>2 DEF ScratchInductive, RowsAreDated, PreviewsAreDated
<1>5. \A u \in Uploads : Fresh(u)' => Fresh(u)
  BY <1>1, <1>2 DEF Fresh
<1>6. RowsWait' /\ ReportFindsRows'
  BY <1>2, <1>5, Waits DEF There
<1> QED
  BY <1>3, <1>4, <1>6 DEF ScratchInductive

\* The sweeps of a scheduler, and its end.
LEMMA SweepKeeps ==
  ASSUME ScratchInductive, NEW l \in Launches, SweepScratch(l) \/ SweepTokens(l)
  PROVE  ScratchInductive'
<1>1. ScratchTypeOK /\ token \in [Uploads -> Token] /\ file \in [Files -> 0..MaxNow \cup {Absent}] /\ now \in Nat
  BY DEF ScratchInductive, ScratchTypeOK
<1>2. CASE SweepScratch(l)
  <2>1. /\ lastSweep' = [lastSweep EXCEPT ![l] = now] /\ file' = Unlinked(Old)
        /\ UNCHANGED <<now, keep, token, report, made>>
    BY <1>2 DEF SweepScratch
  <2>2. lastSweep' \in [Sweepers -> -SweepEvery..MaxNow]
    <3>1. now \in -SweepEvery..MaxNow
      BY <1>1, ScratchConstants DEF ScratchTypeOK
    <3> QED
      BY <1>1, <2>1, <3>1 DEF ScratchTypeOK
  <2>3. /\ file' \in [Files -> 0..MaxNow \cup {Absent}]
        /\ \A f \in Files : file'[f] = IF f \in Old THEN Absent ELSE file[f]
    BY <1>1, <2>1, UnlinkedOK
  <2>4. ScratchTypeOK'
    BY <1>1, <2>1, <2>2, <2>3 DEF ScratchTypeOK
  <2>5. RowsAreDated'
    BY <2>1, <2>3, FilesOK DEF RowsAreDated, ScratchInductive, Parsed
  <2>6. PreviewsAreDated'
    <3> SUFFICES ASSUME NEW p \in Previews, made[p] # Absent, now <= made[p] + PreviewKeep
                 PROVE  file'[p] = made[p]
      BY <2>1 DEF PreviewsAreDated
    <3>1. file[p] = made[p] /\ made[p] \in Int
      BY <1>1 DEF ScratchInductive, PreviewsAreDated, ScratchTypeOK
    <3>2. p \notin Old
      BY <1>1, <3>1, ScratchConstants DEF Old, KeptFor
    <3> QED
      BY <2>3, <3>1, <3>2, FilesOK
  <2>7. ASSUME NEW u \in Uploads, There(Parsed(u)) \/ ~Fresh(u)
        PROVE  There(Parsed(u))' \/ ~Fresh(u)'
    <3>1. Fresh(u)' <=> Fresh(u)
      BY <2>1 DEF Fresh
    <3>2. CASE ~Fresh(u)
      BY <3>1, <3>2
    <3>3. CASE There(Parsed(u)) /\ Parsed(u) \notin Old
      BY <2>3, <3>3, FilesOK DEF There, Parsed
    <3>4. CASE There(Parsed(u)) /\ Parsed(u) \in Old
      <4>1. file[Parsed(u)] = token[u].stored
        BY <3>4 DEF ScratchInductive, RowsAreDated, There
      <4>2. now - file[Parsed(u)] > keep.set
        BY <3>4, FilesOK DEF Old, KeptFor
      <4>3. keep.set \in Nat /\ keep.least \in Nat /\ keep.least <= keep.set /\ token[u].stored \in Int
        BY <1>1, ScratchConstants DEF ScratchTypeOK, Token
      <4>4. ~Fresh(u)
        BY <1>1, <4>1, <4>2, <4>3 DEF Fresh
      <4> QED
        BY <3>1, <4>4
    <3> QED
      BY <2>7, <3>2, <3>3, <3>4
  <2>8. RowsWait' /\ ReportFindsRows'
    BY <2>1, <2>7, Waits
  <2> QED
    BY <2>4, <2>5, <2>6, <2>8 DEF ScratchInductive
<1>3. CASE SweepTokens(l)
  <2>1. /\ token' = Deleted(Expired) /\ file' = Unlinked(FilesOf(Expired))
        /\ UNCHANGED <<now, keep, report, made, lastSweep>>
    BY <1>3 DEF SweepTokens
  <2>2. /\ file' \in [Files -> 0..MaxNow \cup {Absent}] /\ token' \in [Uploads -> Token]
        /\ RowsAreDated' /\ PreviewsAreDated'
        /\ \A v \in Uploads : /\ token[v].state \in {"live", "deleted"} => token'[v].state \in {"live", "deleted"}
                              /\ Fresh(v)' <=> Fresh(v)
                              /\ There(Parsed(v)) \/ ~Fresh(v) => There(Parsed(v))' \/ ~Fresh(v)'
    BY <2>1, Pruned
  <2>3. ScratchTypeOK'
    BY <1>1, <2>1, <2>2 DEF ScratchTypeOK
  <2>4. RowsWait' /\ ReportFindsRows'
    BY <2>1, <2>2, Waits
  <2> QED
    BY <2>2, <2>3, <2>4 DEF ScratchInductive
<1> QED
  BY <1>2, <1>3

\* What an instance without a step on the files keeps.
LEMMA ScratchStays == ScratchInductive /\ UNCHANGED <<now, keep, file, token, report, made>> /\ lastSweep' \in [Sweepers -> -SweepEvery..MaxNow]
                      => ScratchInductive'
<1> SUFFICES ASSUME ScratchInductive, UNCHANGED <<now, keep, file, token, report, made>>,
                    lastSweep' \in [Sweepers -> -SweepEvery..MaxNow]
             PROVE  ScratchInductive'
  OBVIOUS
<1>1. ScratchTypeOK'
  BY DEF ScratchInductive, ScratchTypeOK
<1>2. RowsAreDated' /\ PreviewsAreDated'
  BY DEF ScratchInductive, RowsAreDated, PreviewsAreDated
<1>3. RowsWait' /\ ReportFindsRows'
  <2>1. \A u \in Uploads : (There(Parsed(u)) => There(Parsed(u))') /\ (Fresh(u)' <=> Fresh(u)) /\ token'[u] = token[u]
    BY DEF There, Parsed, Fresh
  <2> QED
    BY <2>1, Waits
<1> QED
  BY <1>1, <1>2, <1>3 DEF ScratchInductive

\* A scheduler that ends has swept nothing when it starts again.
LEMMA SweepersStoppedKeeps ==
  ASSUME ScratchInductive, NEW gone, SweepersStopped(gone)
  PROVE  ScratchInductive'
<1>1. -SweepEvery \in -SweepEvery..MaxNow
  BY ScratchConstants
<1>2. lastSweep \in [Sweepers -> -SweepEvery..MaxNow]
  BY DEF ScratchInductive, ScratchTypeOK
<1>3. lastSweep' \in [Sweepers -> -SweepEvery..MaxNow]
  BY <1>1, <1>2 DEF SweepersStopped
<1> QED
  BY <1>3, ScratchStays DEF SweepersStopped

-----------------------------------------------------------------------------
(* The requests: AccessInductive holds at first, each action keeps it, and *)
(* it implies what is promised of logins, sessions, links and admins.      *)
(* It is two: LimiterOK, of the attempts that were counted, and RowsOK, of *)
(* the account, the cookie, the requests, links and admins.                *)

\* What AccessConstants says of the constants.
LEMMA AccessParams ==
  ASSUME AccessConstants
  PROVE  /\ Callers = Logins /\ LimitKeys = {ClientKey, AccountKey} /\ ClientKey # AccountKey
         /\ Limit \in Nat /\ Window \in Nat /\ LockWait \in Nat /\ MaxTime \in Nat
         /\ NoOne \notin Callers /\ NoOne \notin LimitKeys
         /\ Logins \subseteq Requests /\ Activities \subseteq Requests /\ Logouts \subseteq Requests
         /\ Resets \subseteq Requests /\ Removals \subseteq Requests
  BY DEF AccessConstants, Requests

CallStates == {"idle", "wait", "locked", "allowed", "blocked", "busy", "failed"}
Outcomes == {"none", "allowed", "blocked", "failed"}

-----------------------------------------------------------------------------
(* The rate limit. *)

FiniteEvents == \A k \in LimitKeys : IsFiniteSet(events[k])
Counting == FiniteEvents /\ StillCounted /\ WindowBounded
Calling == LocksAreLetGo /\ CallsAreTimed /\ LetAreTimed /\ LetOnce /\ CountsOnce /\ LoginsGoOn
LimiterOK == RateLimitTypeOK /\ Counting /\ Calling

\* A call that goes on, and the others.
LEMMA Called ==
  ASSUME call \in [Callers -> Call], NEW c \in Callers, NEW x \in Call, call' = [call EXCEPT ![c] = x]
  PROVE  call' \in [Callers -> Call] /\ call'[c] = x /\ \A d \in Callers \ {c} : call'[d] = call[d]
  BY DEF Call

\* Its fields.
LEMMA CallFields ==
  ASSUME NEW t \in Call, NEW pc \in CallStates, NEW o \in Outcomes
  PROVE  /\ [t EXCEPT !.pc = pc] \in Call /\ [t EXCEPT !.pc = pc].pc = pc /\ [t EXCEPT !.pc = pc].key = t.key
         /\ [t EXCEPT !.pc = pc].now = t.now /\ [t EXCEPT !.pc = pc].outcome = t.outcome
         /\ [t EXCEPT !.outcome = o] \in Call /\ [t EXCEPT !.outcome = o].pc = t.pc /\ [t EXCEPT !.outcome = o].key = t.key
         /\ [t EXCEPT !.outcome = o].now = t.now /\ [t EXCEPT !.outcome = o].outcome = o
  BY DEF Call, CallStates, Outcomes

\* A call that is over, or has not begun.
LEMMA IdleOK ==
  ASSUME NEW pc \in CallStates
  PROVE  LET x == [Idle EXCEPT !.pc = pc] IN x \in Call /\ x.pc = pc /\ x.key = NoOne
  BY DEF Idle, Call, CallStates

\* A step that leaves the limiter, and sends no login back.
LEMMA LimiterStays ==
  ASSUME LimiterOK, UNCHANGED limiter,
         \A r \in Logins : req'[r].pc \in {"none", "client"} => req'[r].pc = req[r].pc
  PROVE  LimiterOK'
<1>1. RateLimitTypeOK' /\ FiniteEvents' /\ StillCounted' /\ WindowBounded' /\ LocksAreLetGo' /\ CallsAreTimed' /\ LetAreTimed' /\ LetOnce'
      /\ CountsOnce'
  BY DEF LimiterOK, Counting, Calling, RateLimitTypeOK, FiniteEvents, StillCounted, WindowBounded, LocksAreLetGo, CallsAreTimed,
     LetAreTimed, LetOnce, CountsOnce, limiter
<1>2. LoginsGoOn'
  BY DEF LimiterOK, Calling, LoginsGoOn, At, limiter
<1> QED
  BY <1>1, <1>2 DEF LimiterOK, Counting, Calling

\* The counters stay when no attempt is counted.
LEMMA CountingStays ==
  ASSUME LimiterOK, UNCHANGED <<clock, events, let>>
  PROVE  Counting' /\ LetAreTimed' /\ LetOnce' /\ clock' \in 0..MaxTime
         /\ events' \in [LimitKeys -> SUBSET [by: Callers, now: 0..MaxTime]]
  BY DEF LimiterOK, Counting, Calling, RateLimitTypeOK, FiniteEvents, StillCounted, WindowBounded, LetAreTimed, LetOnce

\* The time passes.
LEMMA TickKeeps ==
  ASSUME AccessConstants, LimiterOK, Second, UNCHANGED req
  PROVE  LimiterOK'
<1>1. clock' = clock + 1 /\ clock < MaxTime /\ UNCHANGED <<bucketLock, events, call, let>>
  BY DEF Second
<1>2. clock \in Nat /\ MaxTime \in Nat /\ Window \in Nat
  BY AccessParams DEF LimiterOK, RateLimitTypeOK
<1>3. RateLimitTypeOK'
  BY <1>1, <1>2 DEF LimiterOK, RateLimitTypeOK
<1>4. FiniteEvents' /\ WindowBounded' /\ LocksAreLetGo' /\ LetOnce' /\ CountsOnce' /\ LoginsGoOn'
  BY <1>1 DEF LimiterOK, Counting, Calling, FiniteEvents, WindowBounded, LocksAreLetGo, LetOnce, CountsOnce, LoginsGoOn, At
<1>5. LetAreTimed'
  BY <1>1, <1>2 DEF LimiterOK, Calling, LetAreTimed
<1>6. CallsAreTimed'
  BY <1>1, <1>2 DEF LimiterOK, Calling, CallsAreTimed
<1>7. StillCounted'
  BY <1>1, <1>2 DEF LimiterOK, Counting, Calling, StillCounted, LetAreTimed
<1> QED
  BY <1>3, <1>4, <1>5, <1>6, <1>7 DEF LimiterOK, Counting, Calling

\* A login takes up a key it has no attempt for yet.
LEMMA EnterKeeps ==
  ASSUME AccessConstants, LimiterOK, NEW r \in Logins, NEW k \in LimitKeys, Enter(r, k),
         call[r].pc \notin {"wait", "locked"}, \A e \in let[k] : e.by # r,
         k = ClientKey => \A e \in let[AccountKey] : e.by # r,
         req'[r].pc = (IF k = ClientKey THEN "client" ELSE "account"), \A q \in Logins \ {r} : req'[q] = req[q]
  PROVE  LimiterOK'
<1> DEFINE x == [pc |-> "wait", key |-> k, now |-> clock, outcome |-> "none"]
<1>1. Callers = Logins /\ NoOne \notin Callers
  BY AccessParams
<1>2. call' = [call EXCEPT ![r] = x] /\ UNCHANGED <<clock, bucketLock, events, let>>
  BY DEF Enter
<1>3. clock \in 0..MaxTime /\ clock \in Int /\ call \in [Callers -> Call] /\ bucketLock \in [LimitKeys -> Callers \cup {NoOne}]
  BY DEF LimiterOK, RateLimitTypeOK
<1>4. x \in Call /\ x.pc = "wait" /\ x.key = k /\ x.now = clock /\ x.outcome = "none"
  BY <1>3 DEF Call
<1> HIDE DEF x
<1>5. call' \in [Callers -> Call] /\ call'[r] = x /\ \A d \in Callers \ {r} : call'[d] = call[d]
  BY <1>1, <1>2, <1>3, <1>4, Called
<1>6. Counting' /\ LetAreTimed' /\ LetOnce'
  BY <1>2, CountingStays
<1>7. RateLimitTypeOK'
  BY <1>2, <1>5 DEF LimiterOK, RateLimitTypeOK
<1>8. LocksAreLetGo'
  <2>1. \A j \in LimitKeys : bucketLock[j] # NoOne => bucketLock[j] # r /\ bucketLock[j] \in Callers
    BY <1>3 DEF LimiterOK, Calling, LocksAreLetGo
  <2> QED
    BY <1>2, <1>5, <2>1 DEF LimiterOK, Calling, LocksAreLetGo
<1>9. CallsAreTimed'
  BY <1>2, <1>3, <1>4, <1>5 DEF LimiterOK, Calling, CallsAreTimed
<1>10. CountsOnce'
  BY <1>2, <1>4, <1>5 DEF LimiterOK, Calling, CountsOnce
<1>11. LoginsGoOn'
  BY <1>1, <1>2, <1>4, <1>5 DEF LimiterOK, Calling, LoginsGoOn, At
<1> QED
  BY <1>6, <1>7, <1>8, <1>9, <1>10, <1>11 DEF LimiterOK, Calling

\* The attempt of a login that was in time for the lock.
LEMMA AcquireKeeps ==
  ASSUME AccessConstants, LimiterOK, NEW r \in Logins, Acquire(r), UNCHANGED req
  PROVE  LimiterOK'
<1> DEFINE k == call[r].key
           x == [call[r] EXCEPT !.pc = "locked"]
<1>1. Callers = Logins /\ NoOne \notin Callers
  BY AccessParams
<1>2. /\ call[r].pc = "wait" /\ bucketLock[k] = NoOne /\ bucketLock' = [bucketLock EXCEPT ![k] = r] /\ call' = [call EXCEPT ![r] = x]
      /\ UNCHANGED <<clock, events, let>>
  BY DEF Acquire
<1>3. call \in [Callers -> Call] /\ bucketLock \in [LimitKeys -> Callers \cup {NoOne}]
  BY DEF LimiterOK, RateLimitTypeOK
<1>4. x \in Call /\ x.pc = "locked" /\ x.key = k /\ x.now = call[r].now /\ x.outcome = call[r].outcome
  <2>1. call[r] \in Call /\ "locked" \in CallStates /\ "none" \in Outcomes
    BY <1>1, <1>3 DEF CallStates, Outcomes
  <2> QED
    BY <2>1, CallFields
<1>5. k \in LimitKeys
  BY <1>1, <1>2 DEF LimiterOK, Calling, CallsAreTimed
<1> HIDE DEF x, k
<1>6. call' \in [Callers -> Call] /\ call'[r] = x /\ \A d \in Callers \ {r} : call'[d] = call[d]
  BY <1>1, <1>2, <1>3, <1>4, Called
<1>7. bucketLock' \in [LimitKeys -> Callers \cup {NoOne}] /\ bucketLock'[k] = r /\ \A j \in LimitKeys \ {k} : bucketLock'[j] = bucketLock[j]
  BY <1>1, <1>2, <1>3, <1>5
<1>8. Counting' /\ LetAreTimed' /\ LetOnce'
  BY <1>2, CountingStays
<1>9. RateLimitTypeOK'
  BY <1>2, <1>6, <1>7 DEF LimiterOK, RateLimitTypeOK
<1>10. LocksAreLetGo'
  <2> SUFFICES ASSUME NEW j \in LimitKeys, bucketLock'[j] # NoOne
               PROVE  call'[bucketLock'[j]].pc = "locked" /\ call'[bucketLock'[j]].key = j
    BY DEF LocksAreLetGo
  <2>1. CASE j = k
    BY <1>4, <1>6, <1>7, <2>1
  <2>2. CASE j # k
    <3>1. bucketLock'[j] = bucketLock[j] /\ bucketLock[j] \in Callers /\ call[bucketLock[j]].pc = "locked" /\ call[bucketLock[j]].key = j
      BY <1>3, <1>7, <2>2 DEF LimiterOK, Calling, LocksAreLetGo
    <3>2. bucketLock[j] # r
      BY <1>2, <3>1
    <3> QED
      BY <1>6, <3>1, <3>2
  <2> QED
    BY <2>1, <2>2
<1>11. CallsAreTimed'
  BY <1>1, <1>2, <1>4, <1>6 DEF LimiterOK, Calling, CallsAreTimed, k
<1>12. CountsOnce'
  BY <1>1, <1>2, <1>4, <1>6 DEF LimiterOK, Calling, CountsOnce, k
<1>13. LoginsGoOn'
  BY <1>1, <1>2, <1>4, <1>6 DEF LimiterOK, Calling, LoginsGoOn, At, k
<1> QED
  BY <1>8, <1>9, <1>10, <1>11, <1>12, <1>13 DEF LimiterOK, Calling

\* A call that ends, and lets go of the lock if it has it.
LEMMA EndsKeeps ==
  ASSUME AccessConstants, LimiterOK, NEW r \in Logins, NEW pc \in CallStates \ {"wait", "locked", "idle"},
         call' = [call EXCEPT ![r] = [Idle EXCEPT !.pc = pc]], UNCHANGED <<clock, events, let, req>>,
         req[r].pc \in {"client", "account"},
         \/ call[r].pc = "wait" /\ UNCHANGED bucketLock
         \/ call[r].pc = "locked" /\ bucketLock' = [bucketLock EXCEPT ![call[r].key] = NoOne]
  PROVE  LimiterOK'
<1> DEFINE x == [Idle EXCEPT !.pc = pc]
<1>1. Callers = Logins /\ NoOne \notin Callers /\ NoOne \notin LimitKeys
  BY AccessParams
<1>2. x \in Call /\ x.pc = pc /\ x.key = NoOne
  BY IdleOK
<1>3. call \in [Callers -> Call] /\ bucketLock \in [LimitKeys -> Callers \cup {NoOne}]
  BY DEF LimiterOK, RateLimitTypeOK
<1>4. call' = [call EXCEPT ![r] = x]
  OBVIOUS
<1> HIDE DEF x
<1>5. call' \in [Callers -> Call] /\ call'[r] = x /\ \A d \in Callers \ {r} : call'[d] = call[d]
  BY <1>1, <1>2, <1>3, <1>4, Called
<1>6. Counting' /\ LetAreTimed' /\ LetOnce'
  BY CountingStays
<1>7. /\ bucketLock' \in [LimitKeys -> Callers \cup {NoOne}]
      /\ \A j \in LimitKeys : bucketLock'[j] # NoOne => bucketLock'[j] = bucketLock[j] /\ bucketLock[j] # r
  <2>1. \A j \in LimitKeys : bucketLock[j] # NoOne => call[bucketLock[j]].pc = "locked" /\ call[bucketLock[j]].key = j
    BY DEF LimiterOK, Calling, LocksAreLetGo
  <2>2. CASE call[r].pc = "wait" /\ UNCHANGED bucketLock
    BY <1>3, <2>1, <2>2
  <2>3. CASE call[r].pc = "locked" /\ bucketLock' = [bucketLock EXCEPT ![call[r].key] = NoOne]
    BY <1>3, <2>1, <2>3
  <2> QED
    BY <2>2, <2>3
<1>8. RateLimitTypeOK'
  BY <1>5, <1>7 DEF LimiterOK, RateLimitTypeOK
<1>9. LocksAreLetGo'
  BY <1>3, <1>5, <1>7 DEF LimiterOK, Calling, LocksAreLetGo
<1>10. CallsAreTimed'
  BY <1>1, <1>2, <1>5 DEF LimiterOK, Calling, CallsAreTimed
<1>11. CountsOnce'
  BY <1>1, <1>2, <1>5 DEF LimiterOK, Calling, CountsOnce
<1>12. LoginsGoOn'
  BY <1>1, <1>2, <1>5 DEF LimiterOK, Calling, LoginsGoOn, At
<1> QED
  BY <1>6, <1>8, <1>9, <1>10, <1>11, <1>12 DEF LimiterOK, Calling

\* The transaction has an outcome.
LEMMA OutcomeKeeps ==
  ASSUME AccessConstants, LimiterOK, NEW r \in Logins, NEW o \in Outcomes \ {"none"},
         call[r].pc = "locked", call' = [call EXCEPT ![r].outcome = o], UNCHANGED <<clock, bucketLock, req>>,
         \A k \in LimitKeys : \A e \in let'[k] : e \in let[k] \/ (k = call[r].key /\ e.by = r),
         req[r].pc \in {"client", "account"}
  PROVE  /\ call' \in [Callers -> Call] /\ LocksAreLetGo' /\ CallsAreTimed' /\ CountsOnce' /\ LoginsGoOn'
<1> DEFINE k == call[r].key
           x == [call[r] EXCEPT !.outcome = o]
<1>1. Callers = Logins /\ NoOne \notin LimitKeys /\ ClientKey # AccountKey /\ ClientKey \in LimitKeys /\ AccountKey \in LimitKeys
  BY AccessParams
<1>2. call \in [Callers -> Call] /\ bucketLock \in [LimitKeys -> Callers \cup {NoOne}] /\ k \in LimitKeys
  BY <1>1 DEF LimiterOK, RateLimitTypeOK, Calling, CallsAreTimed
<1>3. x \in Call /\ x.pc = "locked" /\ x.key = k /\ x.now = call[r].now /\ x.outcome = o
  <2>1. call[r] \in Call /\ o \in Outcomes /\ "locked" \in CallStates
    BY <1>1, <1>2 DEF CallStates
  <2> QED
    BY <2>1, CallFields
<1>4. call' = [call EXCEPT ![r] = x]
  OBVIOUS
<1> HIDE DEF x, k
<1>5. call' \in [Callers -> Call] /\ call'[r] = x /\ \A d \in Callers \ {r} : call'[d] = call[d]
  BY <1>1, <1>2, <1>3, <1>4, Called
<1>6. LocksAreLetGo'
  BY <1>1, <1>2, <1>3, <1>5 DEF LimiterOK, Calling, LocksAreLetGo, k
<1>7. CallsAreTimed'
  BY <1>1, <1>3, <1>5 DEF LimiterOK, Calling, CallsAreTimed, k
<1>8. CountsOnce'
  BY <1>1, <1>3, <1>5 DEF LimiterOK, Calling, CountsOnce, CallsAreTimed
<1>9. LoginsGoOn'
  <2> SUFFICES ASSUME NEW q \in Logins
               PROVE  /\ req[q].pc = "none" => call'[q].pc = "idle"
                      /\ req[q].pc = "client" => call'[q].key \in {ClientKey, NoOne}
                      /\ req[q].pc \in {"none", "client"} => \A e \in let'[AccountKey] : e.by # q
                      /\ req[q].pc = "none" => \A e \in let'[ClientKey] : e.by # q
    BY DEF LoginsGoOn, At
  <2>1. /\ req[q].pc = "none" => call[q].pc = "idle"
        /\ req[q].pc = "client" => call[q].key \in {ClientKey, NoOne}
        /\ req[q].pc \in {"none", "client"} => \A e \in let[AccountKey] : e.by # q
        /\ req[q].pc = "none" => \A e \in let[ClientKey] : e.by # q
    BY DEF LimiterOK, Calling, LoginsGoOn, At
  <2>2. CASE q = r
    <3>1. req[q].pc = "client" => k = ClientKey
      BY <1>1, <1>2, <2>1, <2>2 DEF k
    <3> QED
      BY <1>1, <1>3, <1>5, <2>1, <2>2, <3>1 DEF k
  <2>3. CASE q # r
    BY <1>1, <1>5, <2>1, <2>3 DEF k
  <2> QED
    BY <2>2, <2>3
<1> QED
  BY <1>5, <1>6, <1>7, <1>8, <1>9

\* An attempt that is let through is not one too many in its window.
LEMMA CountedInWindow ==
  ASSUME AccessConstants, LimiterOK, NEW r \in Logins, call[r].pc = "locked", call[r].outcome = "none",
         NEW e, e.by = r, e.now = call[r].now, e.at = clock,
         NEW old, old \subseteq let[call[r].key],
         \A x, y, z \in old \cup {e} : ~(x.at - y.at >= Window - (z.at - z.now)),
         Cardinality(Recent(r)) < Limit
  PROVE  IsFiniteSet(old \cup {e}) /\ Cardinality(old \cup {e}) <= Limit
<1> DEFINE k == call[r].key
           g == [w \in old |-> [by |-> w.by, now |-> w.now]]
<1>1. Callers = Logins /\ Window \in Nat /\ Limit \in Nat
  BY AccessParams
<1>2. k \in LimitKeys /\ call[r].now \in 0..clock /\ clock \in Nat
  BY <1>1 DEF LimiterOK, Calling, CallsAreTimed, RateLimitTypeOK
<1>3. IsFiniteSet(Recent(r))
  <2>1. IsFiniteSet(events[k])
    BY <1>2 DEF LimiterOK, Counting, FiniteEvents
  <2> QED
    BY <2>1, FS_Subset DEF Recent
<1>4. ASSUME NEW w \in old
      PROVE  [by |-> w.by, now |-> w.now] \in Recent(r)
  <2>1. w.now \in 0..clock /\ w.at \in w.now..clock
    BY <1>2 DEF LimiterOK, Calling, LetAreTimed
  <2>2. ~(e.at - w.at >= Window - (w.at - w.now))
    OBVIOUS
  <2>3. w.now > clock - Window
    BY <1>1, <1>2, <2>1, <2>2
  <2>4. [by |-> w.by, now |-> w.now] \in events[k]
    BY <1>2, <2>3 DEF LimiterOK, Counting, StillCounted
  <2>5. w.now > call[r].now - Window
    BY <1>1, <1>2, <2>1, <2>3
  <2> QED
    BY <2>4, <2>5 DEF Recent
<1>5. \A v, w \in old : v.by = w.by => v = w
  BY <1>2 DEF LimiterOK, Calling, LetOnce
<1>6. \A v, w \in old : g[v] = g[w] => v = w
  <2> SUFFICES ASSUME NEW v \in old, NEW w \in old, g[v] = g[w]
               PROVE  v.by = w.by
    BY <1>5
  <2>1. g[v].by = v.by /\ g[w].by = w.by
    OBVIOUS
  <2> QED
    BY <2>1
<1>7. g \in [old -> Recent(r)]
  BY <1>4
<1> HIDE DEF g
<1>8. g \in Injection(old, Recent(r))
  BY <1>6, <1>7 DEF Injection, IsInjective
<1>9. IsFiniteSet(old) /\ Cardinality(old) <= Cardinality(Recent(r))
  BY <1>3, <1>8, FS_Injection
<1>10. Cardinality(old) \in Nat /\ Cardinality(Recent(r)) \in Nat
  BY <1>3, <1>9, FS_CardinalityType
<1>11. IsFiniteSet(old \cup {e}) /\ Cardinality(old \cup {e}) \in {Cardinality(old), Cardinality(old) + 1}
  BY <1>9, FS_AddElement
<1> QED
  BY <1>1, <1>9, <1>10, <1>11

\* The transaction: the attempt counts if it is let through.
LEMMA CountKeeps ==
  ASSUME AccessConstants, LimiterOK, NEW r \in Logins, Count(r), UNCHANGED req, req[r].pc \in {"client", "account"}
  PROVE  LimiterOK'
<1> DEFINE k == call[r].key
           allowed == Cardinality(Recent(r)) < Limit
           ev == [by |-> r, now |-> call[r].now]
           e == [by |-> r, now |-> call[r].now, at |-> clock]
           kept == Recent(r) \cup IF allowed THEN {ev} ELSE {}
<1>1. Callers = Logins /\ Window \in Nat /\ Limit \in Nat /\ MaxTime \in Nat
  BY AccessParams
<1>2. /\ call[r].pc = "locked" /\ call[r].outcome = "none"
      /\ events' = [events EXCEPT ![k] = kept]
      /\ call' = [call EXCEPT ![r].outcome = IF allowed THEN "allowed" ELSE "blocked"]
      /\ let' = IF allowed THEN [let EXCEPT ![k] = let[k] \cup {e}] ELSE let
      /\ UNCHANGED <<clock, bucketLock>>
  BY DEF Count
<1>3. k \in LimitKeys /\ call[r].now \in 0..clock /\ clock \in 0..MaxTime /\ clock \in Nat
  BY <1>1, <1>2 DEF LimiterOK, Calling, CallsAreTimed, RateLimitTypeOK
<1>4. events \in [LimitKeys -> SUBSET [by: Callers, now: 0..MaxTime]] /\ IsFiniteSet(events[k])
  BY <1>3 DEF LimiterOK, RateLimitTypeOK, Counting, FiniteEvents
<1>5. Recent(r) \subseteq events[k] /\ \A f \in events[k] : f.now > call[r].now - Window => f \in Recent(r)
  BY DEF Recent
<1>6. kept \subseteq [by: Callers, now: 0..MaxTime] /\ IsFiniteSet(kept)
  <2>1. IsFiniteSet(Recent(r))
    BY <1>4, <1>5, FS_Subset
  <2>2. ev \in [by: Callers, now: 0..MaxTime]
    BY <1>1, <1>3
  <2>3. IsFiniteSet(Recent(r) \cup {ev})
    BY <2>1, FS_AddElement
  <2> QED
    BY <1>3, <1>4, <1>5, <2>1, <2>2, <2>3
<1>7. Recent(r) \subseteq kept /\ (allowed => ev \in kept)
  OBVIOUS
<1>8. e.by = r /\ e.now = call[r].now /\ e.at = clock /\ ev = [by |-> e.by, now |-> e.now]
  OBVIOUS
<1>9. PICK o \in Outcomes \ {"none"} : call' = [call EXCEPT ![r].outcome = o]
  <2>1. (IF allowed THEN "allowed" ELSE "blocked") \in Outcomes \ {"none"}
    BY DEF Outcomes
  <2> QED
    BY <1>2, <2>1
<1> HIDE DEF kept, ev, e
<1>10. \A j \in LimitKeys : events'[j] = IF j = k THEN kept ELSE events[j]
  BY <1>2, <1>4
<1>11. \A j \in LimitKeys : \A d \in let'[j] : d \in let[j] \/ (j = k /\ d = e /\ allowed)
  BY <1>2
<1> HIDE DEF allowed
<1>12. /\ call' \in [Callers -> Call] /\ LocksAreLetGo' /\ CallsAreTimed' /\ CountsOnce' /\ LoginsGoOn'
  <2>1. \A j \in LimitKeys : \A d \in let'[j] : d \in let[j] \/ (j = call[r].key /\ d.by = r)
    BY <1>8, <1>11
  <2> QED
    BY <1>2, <1>9, <2>1, OutcomeKeeps
<1>13. RateLimitTypeOK'
  BY <1>2, <1>3, <1>4, <1>6, <1>12 DEF LimiterOK, RateLimitTypeOK
<1>14. FiniteEvents'
  BY <1>6, <1>10 DEF LimiterOK, Counting, FiniteEvents
<1>15. LetAreTimed'
  <2> SUFFICES ASSUME NEW j \in LimitKeys, NEW d \in let'[j]
               PROVE  d.by \in Callers /\ d.now \in 0..clock /\ d.at \in d.now..clock
    BY <1>2 DEF LetAreTimed
  <2>1. CASE d \in let[j]
    BY <2>1 DEF LimiterOK, Calling, LetAreTimed
  <2>2. CASE d = e
    BY <1>1, <1>3, <1>8, <2>2
  <2> QED
    BY <1>11, <2>1, <2>2
<1>16. LetOnce'
  <2>1. \A d \in let[k] : d.by # r
    BY <1>1, <1>2 DEF LimiterOK, Calling, CountsOnce
  <2> QED
    BY <1>8, <1>11, <2>1 DEF LimiterOK, Calling, LetOnce
<1>17. StillCounted'
  <2> SUFFICES ASSUME NEW j \in LimitKeys, NEW d \in let'[j], d.now > clock - Window
               PROVE  [by |-> d.by, now |-> d.now] \in events'[j]
    BY <1>2 DEF StillCounted
  <2>1. CASE d \in let[j]
    <3>1. d.now \in Nat /\ [by |-> d.by, now |-> d.now] \in events[j]
      BY <2>1 DEF LimiterOK, Calling, Counting, LetAreTimed, StillCounted
    <3>2. d.now > call[r].now - Window
      BY <1>1, <1>3, <3>1
    <3> QED
      BY <1>5, <1>7, <1>10, <3>1, <3>2
  <2>2. CASE j = k /\ d = e /\ allowed
    BY <1>7, <1>8, <1>10, <2>2
  <2> QED
    BY <1>11, <2>1, <2>2
<1>18. WindowBounded'
  <2> SUFFICES ASSUME NEW j \in LimitKeys, NEW late \in SUBSET let'[j], Cardinality(late) > Limit,
                      \A x, y, z \in late : ~(x.at - y.at >= Window - (z.at - z.now))
               PROVE  FALSE
    BY DEF WindowBounded
  <2>1. CASE late \subseteq let[j]
    BY <2>1 DEF LimiterOK, Counting, WindowBounded
  <2>2. CASE j = k /\ e \in late /\ allowed
    <3> DEFINE old == late \ {e}
    <3>1. old \cup {e} = late /\ old \subseteq let[k]
      BY <1>11, <2>2
    <3> HIDE DEF old
    <3>2. Cardinality(Recent(r)) < Limit
      BY <2>2 DEF allowed
    <3>3. IsFiniteSet(late) /\ Cardinality(late) <= Limit
      BY <1>2, <1>8, <3>1, <3>2, CountedInWindow
    <3>4. Cardinality(late) \in Nat
      BY <3>3, FS_CardinalityType
    <3> QED
      BY <1>1, <3>3, <3>4
  <2> QED
    BY <1>11, <2>1, <2>2
<1> QED
  BY <1>12, <1>13, <1>14, <1>15, <1>16, <1>17, <1>18 DEF LimiterOK, Counting, Calling

\* Whatever a login does in enforce.
LEMMA EnforceKeeps ==
  ASSUME AccessConstants, LimiterOK, NEW r \in Logins, Enforce(r), UNCHANGED req, req[r].pc \in {"client", "account"}
  PROVE  LimiterOK'
<1>1. CASE Acquire(r)
  BY <1>1, AcquireKeeps
<1>2. CASE TimesOut(r)
  <2>1. call[r].pc = "wait" /\ call' = [call EXCEPT ![r] = [Idle EXCEPT !.pc = "busy"]] /\ UNCHANGED <<clock, bucketLock, events, let>>
    BY <1>2 DEF TimesOut
  <2>2. "busy" \in CallStates \ {"wait", "locked", "idle"}
    BY DEF CallStates
  <2> QED
    BY <2>1, <2>2, EndsKeeps
<1>3. CASE Count(r)
  BY <1>3, CountKeeps
<1>4. CASE Fails(r)
  <2>1. call[r].pc = "locked" /\ call' = [call EXCEPT ![r].outcome = "failed"] /\ UNCHANGED <<clock, bucketLock, events, let>>
    BY <1>4 DEF Fails
  <2>2. "failed" \in Outcomes \ {"none"}
    BY DEF Outcomes
  <2>3. call' \in [Callers -> Call] /\ LocksAreLetGo' /\ CallsAreTimed' /\ CountsOnce' /\ LoginsGoOn'
    BY <2>1, <2>2, OutcomeKeeps
  <2>4. Counting' /\ LetAreTimed' /\ LetOnce'
    BY <2>1, CountingStays
  <2>5. RateLimitTypeOK'
    BY <2>1, <2>3 DEF LimiterOK, RateLimitTypeOK
  <2> QED
    BY <2>3, <2>4, <2>5 DEF LimiterOK, Calling
<1>5. CASE LetsGo(r)
  <2>1. /\ call[r].pc = "locked" /\ call[r].outcome # "none" /\ bucketLock' = [bucketLock EXCEPT ![call[r].key] = NoOne]
        /\ call' = [call EXCEPT ![r] = [Idle EXCEPT !.pc = call[r].outcome]] /\ UNCHANGED <<clock, events, let>>
    BY <1>5 DEF LetsGo
  <2>2. call[r].outcome \in CallStates \ {"wait", "locked", "idle"}
    BY <2>1, AccessParams DEF LimiterOK, RateLimitTypeOK, Call, CallStates
  <2> QED
    BY <2>1, <2>2, EndsKeeps
<1> QED
  BY <1>1, <1>2, <1>3, <1>4, <1>5 DEF Enforce

-----------------------------------------------------------------------------
(* Sessions, links and admins. *)

RequestStates == {"none", "client", "account", "check", "sent", "commit", "answer", "over"}

RowsTypeOK ==
  /\ user \in [pass: Passwords, active: BOOLEAN]
  /\ cookie \in Session
  /\ req \in [Requests -> Req]
  /\ link \in [Links -> [cred: Passwords \cup {-1}, used: SUBSET Resets]]
  /\ admins \subseteq Admins
  /\ strays \subseteq Logins \cup Activities
  /\ rushed \in BOOLEAN
RowsOK ==
  /\ RowsTypeOK /\ SessionsAreOfTheirPassword /\ OnlyStraysAnswer /\ LinksAreDated /\ Targets /\ LinkOnce /\ OneIsSpared

\* The invariant is that of the limiter and that of the rows.
LEMMA Parts ==
  (AccessInductive <=> LimiterOK /\ RowsOK) /\ (AccessInductive' <=> LimiterOK' /\ RowsOK')
<1>1. AccessInductive <=> LimiterOK /\ RowsOK
  BY DEF AccessInductive, AccessTypeOK, RowsOK, RowsTypeOK, LimiterOK, Counting, Calling, FiniteEvents
<1>2. AccessInductive' <=> LimiterOK' /\ RowsOK'
  BY DEF AccessInductive, AccessTypeOK, RowsOK, RowsTypeOK, LimiterOK, Counting, Calling, FiniteEvents
<1> QED
  BY <1>1, <1>2

\* A request that goes on, and the others.
LEMMA Asked ==
  ASSUME req \in [Requests -> Req], NEW r \in Requests, NEW x \in Req, req' = [req EXCEPT ![r] = x]
  PROVE  req' \in [Requests -> Req] /\ req'[r] = x /\ \A q \in Requests \ {r} : req'[q] = req[q]
  BY DEF Req

\* Its fields.
LEMMA ReqFields ==
  ASSUME NEW t \in Req, NEW pc \in RequestStates
  PROVE  /\ [t EXCEPT !.pc = pc] \in Req /\ [t EXCEPT !.pc = pc].pc = pc /\ [t EXCEPT !.pc = pc].got = t.got
         /\ [t EXCEPT !.pc = pc].seen = t.seen /\ [t EXCEPT !.pc = pc].on = t.on /\ [t EXCEPT !.pc = pc].after = t.after
  BY DEF Req, RequestStates

LEMMA GotFields ==
  ASSUME NEW t \in Req, NEW s \in Session
  PROVE  /\ [t EXCEPT !.got = s] \in Req /\ [t EXCEPT !.got = s].pc = t.pc /\ [t EXCEPT !.got = s].got = s
         /\ [t EXCEPT !.got = s].on = t.on /\ [t EXCEPT !.got = s].after = t.after
  BY DEF Req

LEMMA SeenFields ==
  ASSUME NEW t \in Req, NEW n \in Passwords
  PROVE  /\ [t EXCEPT !.seen = n] \in Req /\ [t EXCEPT !.seen = n].pc = t.pc /\ [t EXCEPT !.seen = n].got = t.got
         /\ [t EXCEPT !.seen = n].on = t.on /\ [t EXCEPT !.seen = n].after = t.after
  BY DEF Req

LEMMA OnFields ==
  ASSUME NEW t \in Req, NEW o \in Links \cup Admins \cup {NoOne}
  PROVE  /\ [t EXCEPT !.on = o] \in Req /\ [t EXCEPT !.on = o].pc = t.pc /\ [t EXCEPT !.on = o].got = t.got
         /\ [t EXCEPT !.on = o].on = o /\ [t EXCEPT !.on = o].after = t.after
  BY DEF Req

LEMMA AfterFields ==
  ASSUME NEW t \in Req, NEW S \in SUBSET Resets
  PROVE  /\ [t EXCEPT !.after = S] \in Req /\ [t EXCEPT !.after = S].pc = t.pc /\ [t EXCEPT !.after = S].got = t.got
         /\ [t EXCEPT !.after = S].on = t.on /\ [t EXCEPT !.after = S].after = S
  BY DEF Req

\* Passwords are numbered from nought.
LEMMA PasswordsOK ==
  ASSUME AccessConstants
  PROVE  Cardinality(Resets) \in Nat /\ Passwords = 0..Cardinality(Resets) /\ Passwords \subseteq Nat /\ 0 \in Passwords
  BY FS_CardinalityType DEF AccessConstants, Passwords

LEMMA NoSessionOK ==
  ASSUME AccessConstants
  PROVE  NoSession \in Session /\ NoSession.cred = NoSession.root
  BY PasswordsOK DEF NoSession, Session

\* A step of one request that writes no row and ends no logout.
LEMMA RequestMoves ==
  ASSUME AccessConstants, RowsOK, NEW r \in Requests, NEW x \in Req, req' = [req EXCEPT ![r] = x],
         UNCHANGED <<user, cookie, link, admins, strays, rushed>>,
         req[r].pc # "over", x.pc # "none", x.got.cred = x.got.root,
         x.pc = "answer" => r \in Logins \cup Activities,
         x.pc = "over" => r \notin Logouts /\ (r \in Resets => x.on = NoOne),
         r \in Resets => x.on \in Links \cup {NoOne} /\ x.after = {} /\ (x.pc = "commit" => x.on # NoOne /\ link[x.on].cred # -1),
         r \in Activities /\ x.pc \in {"sent", "answer"} => req[r].pc = "sent" \/ cookie # NoSession,
         r \in Removals => x.pc # "commit"
  PROVE  RowsOK'
<1>1. /\ Logins \subseteq Requests /\ Activities \subseteq Requests /\ Logouts \subseteq Requests
      /\ Resets \subseteq Requests /\ Removals \subseteq Requests
  BY AccessParams
<1>2. req' \in [Requests -> Req] /\ req'[r] = x /\ \A q \in Requests \ {r} : req'[q] = req[q]
  BY Asked DEF RowsOK, RowsTypeOK
<1>3. RowsTypeOK'
  BY <1>2 DEF RowsOK, RowsTypeOK
<1>4. SessionsAreOfTheirPassword'
  <2>1. cookie.cred = cookie.root /\ \A q \in Requests : req[q].got.cred = req[q].got.root
    BY DEF RowsOK, SessionsAreOfTheirPassword, Sessions
  <2>2. \A q \in Requests : req'[q].got.cred = req'[q].got.root
    BY <1>2, <2>1
  <2> QED
    BY <2>1, <2>2 DEF SessionsAreOfTheirPassword, Sessions
<1>5. OnlyStraysAnswer'
  <2>1. HasLoggedOut' => HasLoggedOut
    BY <1>1, <1>2 DEF HasLoggedOut, At
  <2>2. StrayOver => StrayOver'
    BY <1>1, <1>2 DEF StrayOver, At, RowsOK, RowsTypeOK
  <2>3. CASE HasLoggedOut /\ ~StrayOver
    <3>1. cookie = NoSession /\ \A q \in Activities : req[q].pc \in {"sent", "answer"} => q \in strays
      BY <2>3 DEF RowsOK, OnlyStraysAnswer
    <3>2. \A q \in Activities : req'[q].pc \in {"sent", "answer"} => req[q].pc \in {"sent", "answer"}
      BY <1>1, <1>2, <3>1
    <3> QED
      BY <3>1, <3>2 DEF OnlyStraysAnswer
  <2> QED
    BY <2>1, <2>2, <2>3 DEF OnlyStraysAnswer
<1>6. LinksAreDated'
  <2>1. Changed' = Changed
    BY <1>1, <1>2 DEF Changed, At
  <2> QED
    BY <1>1, <1>2, <2>1 DEF RowsOK, LinksAreDated, At
<1>7. Targets' /\ LinkOnce'
  BY <1>1, <1>2 DEF RowsOK, Targets, LinkOnce, At
<1>8. OneIsSpared'
  BY <1>1, <1>2 DEF RowsOK, OneIsSpared, At
<1> QED
  BY <1>3, <1>4, <1>5, <1>6, <1>7, <1>8 DEF RowsOK

\* The rows and the requests stay.
LEMMA RowsStay ==
  ASSUME RowsOK, UNCHANGED access
  PROVE  RowsOK'
  BY DEF RowsOK, RowsTypeOK, SessionsAreOfTheirPassword, Sessions, OnlyStraysAnswer, HasLoggedOut, StrayOver, LinksAreDated,
     Changed, Targets, LinkOnce, OneIsSpared, At, access

\* The requests that go on without writing a row.
LEMMA LoginKeeps ==
  ASSUME AccessConstants, RowsOK, clock \in Int, NEW r \in Logins,
         Attempt(r) \/ NextKey(r) \/ TurnedAway(r) \/ ReadUser(r) \/ Verified(r)
  PROVE  RowsOK'
<1>1. /\ r \in Requests /\ r \notin Activities /\ r \notin Logouts /\ r \notin Resets /\ r \notin Removals
      /\ req[r] \in Req /\ req[r].got.cred = req[r].got.root /\ user.pass \in Passwords
  BY AccessParams DEF AccessConstants, RowsOK, RowsTypeOK, SessionsAreOfTheirPassword, Sessions
<1>2. UNCHANGED <<user, cookie, link, admins, strays, rushed>>
  BY DEF Attempt, NextKey, TurnedAway, ReadUser, Verified
<1>3. ASSUME NEW pc \in RequestStates \ {"none", "answer"}, req[r].pc # "over", req' = [req EXCEPT ![r].pc = pc]
      PROVE  RowsOK'
  <2> DEFINE x == [req[r] EXCEPT !.pc = pc]
  <2>1. x \in Req /\ x.pc = pc /\ x.got = req[r].got /\ x.on = req[r].on /\ x.after = req[r].after
    BY <1>1, ReqFields
  <2>2. req' = [req EXCEPT ![r] = x]
    BY <1>3
  <2> HIDE DEF x
  <2>3. x.got.cred = x.got.root /\ x.pc # "answer" /\ x.pc # "none" /\ req[r].pc # "over"
    BY <1>1, <1>3, <2>1
  <2>4. x \in Req
    BY <2>1
  <2> QED
    BY <1>1, <1>2, <2>2, <2>3, <2>4, RequestMoves
<1>4. CASE Attempt(r)
  BY <1>3, <1>4 DEF Attempt, At, RequestStates
<1>5. CASE NextKey(r)
  BY <1>3, <1>5 DEF NextKey, At, RequestStates
<1>6. CASE TurnedAway(r)
  BY <1>3, <1>6 DEF TurnedAway, Ends, RequestStates
<1>7. CASE ReadUser(r)
  <2>1. CASE Ends(r)
    BY <1>3, <1>7, <2>1 DEF ReadUser, At, Ends, RequestStates
  <2>2. CASE req' = [req EXCEPT ![r].pc = "check", ![r].seen = user.pass]
    <3> DEFINE y == [req[r] EXCEPT !.pc = "check"]
               x == [y EXCEPT !.seen = user.pass]
    <3>1. y \in Req /\ y.pc = "check" /\ y.got = req[r].got
      BY <1>1, ReqFields DEF RequestStates
    <3>2. req' = [req EXCEPT ![r] = x]
      BY <1>1, <2>2 DEF RowsOK, RowsTypeOK
    <3> HIDE DEF y
    <3>3. x \in Req /\ x.pc = "check" /\ x.got = req[r].got
      BY <1>1, <3>1, SeenFields
    <3>4. req[r].pc # "over"
      BY <1>7 DEF ReadUser, At
    <3> HIDE DEF x
    <3> QED
      BY <1>1, <1>2, <3>2, <3>3, <3>4, RequestMoves
  <2> QED
    BY <1>7, <2>1, <2>2 DEF ReadUser
<1>8. CASE Verified(r)
  <2> DEFINE s == Opened(req[r].seen, req[r].seen)
             y == [req[r] EXCEPT !.pc = "answer"]
             x == [y EXCEPT !.got = s]
  <2>1. y \in Req /\ y.pc = "answer"
    BY <1>1, ReqFields DEF RequestStates
  <2>2. req' = [req EXCEPT ![r] = x]
    BY <1>1, <1>8 DEF Verified, RowsOK, RowsTypeOK
  <2>3. s.cred = s.root /\ (clock \in Int => s \in Session)
    BY <1>1 DEF Opened, Session, Req
  <2> HIDE DEF y, s
  <2>4. clock \in Int => x \in Req /\ x.pc = "answer" /\ x.got = s
    BY <2>1, <2>3, GotFields
  <2>5. req[r].pc # "over"
    BY <1>8 DEF Verified, At
  <2> HIDE DEF x
  <2> QED
    BY <1>1, <1>2, <2>2, <2>3, <2>4, <2>5, RequestMoves
<1> QED
  BY <1>4, <1>5, <1>6, <1>7, <1>8

\* The requests with the cookie, up to their answer.
LEMMA CookieKeeps ==
  ASSUME AccessConstants, RowsOK, clock \in Int, NEW r \in Requests, Send(r) \/ Activity(r)
  PROVE  RowsOK'
<1>1. /\ req[r] \in Req /\ req[r].got \in Session /\ req[r].got.cred = req[r].got.root /\ user.pass \in Passwords
      /\ cookie \in Session /\ cookie.cred = cookie.root
  BY DEF RowsOK, RowsTypeOK, SessionsAreOfTheirPassword, Sessions, Req
<1>2. UNCHANGED <<user, cookie, link, admins, strays, rushed>>
  BY DEF Send, Activity
<1>3. r \in Activities \cup Logouts /\ r \notin Resets /\ r \notin Removals /\ req[r].pc \in {"none", "sent"}
  BY DEF Send, Activity, At, AccessConstants
<1>4. CASE Send(r)
  <2> DEFINE y == [req[r] EXCEPT !.pc = "sent"]
             x == [y EXCEPT !.got = cookie]
  <2>1. y \in Req /\ y.pc = "sent"
    BY <1>1, ReqFields DEF RequestStates
  <2>2. req' = [req EXCEPT ![r] = x]
    BY <1>4 DEF Send, RowsOK, RowsTypeOK
  <2> HIDE DEF y
  <2>3. x \in Req /\ x.pc = "sent" /\ x.got = cookie
    BY <1>1, <2>1, GotFields
  <2>4. cookie # NoSession
    BY <1>4 DEF Send
  <2> HIDE DEF x
  <2>5. x.got.cred = x.got.root /\ req[r].pc # "over"
    BY <1>1, <1>3, <2>3
  <2> QED
    BY <1>2, <1>3, <2>2, <2>3, <2>4, <2>5, RequestMoves
<1>5. CASE Activity(r) /\ Welcome(req[r].got)
  <2> DEFINE s == Opened(user.pass, req[r].got.root)
             y == [req[r] EXCEPT !.pc = "answer"]
             x == [y EXCEPT !.got = s]
  <2>1. y \in Req /\ y.pc = "answer" /\ y.got = req[r].got
    BY <1>1, ReqFields DEF RequestStates
  <2>2. req' = [req EXCEPT ![r] = x]
    BY <1>5 DEF Activity, RowsOK, RowsTypeOK
  <2>3. s.cred = s.root /\ s \in Session
    BY <1>1, <1>5 DEF Opened, Session, Welcome
  <2> HIDE DEF y, s
  <2>4. x \in Req /\ x.pc = "answer" /\ x.got = s
    BY <2>1, <2>3, GotFields
  <2>5. req[r].pc = "sent" /\ r \in Activities
    BY <1>5 DEF Activity, At
  <2> HIDE DEF x
  <2>6. x.got.cred = x.got.root /\ x.pc # "over" /\ x.pc # "commit"
    BY <2>3, <2>4
  <2> QED
    BY <1>2, <1>3, <2>2, <2>4, <2>5, <2>6, RequestMoves
<1>6. CASE Activity(r) /\ ~Welcome(req[r].got)
  <2> DEFINE x == [req[r] EXCEPT !.pc = "over"]
  <2>1. x \in Req /\ x.pc = "over" /\ x.got = req[r].got
    BY <1>1, ReqFields DEF RequestStates
  <2>2. req' = [req EXCEPT ![r] = x] /\ r \in Activities /\ r \notin Logouts
    BY <1>6 DEF Activity, Ends, AccessConstants
  <2> HIDE DEF x
  <2>3. x.got.cred = x.got.root /\ req[r].pc # "over"
    BY <1>1, <1>3, <2>1
  <2> QED
    BY <1>2, <1>3, <2>1, <2>2, <2>3, RequestMoves
<1> QED
  BY <1>4, <1>5, <1>6

\* A use of a link, up to the new password.
LEMMA LinkKeeps ==
  ASSUME AccessConstants, RowsOK, NEW r \in Resets, NEW l \in Links, UseLink(r, l)
  PROVE  RowsOK'
<1>1. /\ r \in Requests /\ r \notin Activities /\ r \notin Logouts /\ r \notin Logins /\ r \notin Removals
      /\ req[r] \in Req /\ req[r].got.cred = req[r].got.root
      /\ link[l].used \in SUBSET Resets
  BY AccessParams DEF AccessConstants, RowsOK, RowsTypeOK, SessionsAreOfTheirPassword, Sessions
<1>2. UNCHANGED <<user, cookie, link, admins, strays, rushed>> /\ req[r].pc = "none"
  BY DEF UseLink, At
<1>3. CASE Matches(l)
  <2> DEFINE y == [req[r] EXCEPT !.pc = "commit"]
             z == [y EXCEPT !.on = l]
             x == [z EXCEPT !.after = link[l].used]
  <2>1. y \in Req /\ y.pc = "commit" /\ y.got = req[r].got
    BY <1>1, ReqFields DEF RequestStates
  <2>2. req' = [req EXCEPT ![r] = x]
    BY <1>1, <1>3 DEF UseLink, RowsOK, RowsTypeOK
  <2> HIDE DEF y
  <2>3. z \in Req /\ z.pc = "commit" /\ z.got = req[r].got /\ z.on = l
    BY <2>1, OnFields
  <2> HIDE DEF z
  <2>4. x \in Req /\ x.pc = "commit" /\ x.got = req[r].got /\ x.on = l /\ x.after = link[l].used
    BY <1>1, <2>3, AfterFields
  <2> HIDE DEF x
  <2>5. link[l].used = {}
    <3>1. link[l].cred = user.pass /\ user.pass \in Nat
      BY <1>3, PasswordsOK DEF Matches, RowsOK, RowsTypeOK
    <3> QED
      BY <3>1 DEF RowsOK, LinksAreDated
  <2>6. l # NoOne /\ x.got.cred = x.got.root /\ req[r].pc # "over" /\ link[l].cred # -1
    BY <1>1, <1>2, <2>4 DEF AccessConstants, UseLink
  <2> QED
    BY <1>1, <1>2, <2>2, <2>4, <2>5, <2>6, RequestMoves
<1>4. CASE ~Matches(l)
  <2> DEFINE x == [req[r] EXCEPT !.pc = "over"]
  <2>1. x \in Req /\ x.pc = "over" /\ x.got = req[r].got /\ x.on = req[r].on /\ x.after = req[r].after
    BY <1>1, ReqFields DEF RequestStates
  <2>2. req' = [req EXCEPT ![r] = x]
    BY <1>4 DEF UseLink, Ends
  <2> HIDE DEF x
  <2>3. req[r].on = NoOne /\ req[r].after = {}
    BY <1>2 DEF RowsOK, Targets, LinkOnce, At
  <2>4. x.got.cred = x.got.root /\ req[r].pc # "over"
    BY <1>1, <1>2, <2>1
  <2> QED
    BY <1>1, <1>2, <2>1, <2>2, <2>3, <2>4, RequestMoves
<1> QED
  BY <1>3, <1>4

\* A request that is over, and the others.
LEMMA EndsOK ==
  ASSUME req \in [Requests -> Req], NEW r \in Requests, Ends(r)
  PROVE  /\ req' \in [Requests -> Req]
         /\ req'[r].pc = "over" /\ req'[r].got = req[r].got /\ req'[r].on = req[r].on /\ req'[r].after = req[r].after
         /\ \A q \in Requests \ {r} : req'[q] = req[q]
<1> DEFINE x == [req[r] EXCEPT !.pc = "over"]
<1>1. x \in Req /\ x.pc = "over" /\ x.got = req[r].got /\ x.on = req[r].on /\ x.after = req[r].after
  BY ReqFields DEF RequestStates
<1>2. req' = [req EXCEPT ![r] = x]
  BY DEF Ends
<1> HIDE DEF x
<1> QED
  BY <1>1, <1>2, Asked

\* The answer of a request comes.
LEMMA ReceiveKeeps ==
  ASSUME AccessConstants, RowsOK, NEW r \in Requests, Receive(r)
  PROVE  RowsOK'
<1>1. /\ Logins \subseteq Requests /\ Activities \subseteq Requests /\ Logouts \subseteq Requests
      /\ Resets \subseteq Requests /\ Removals \subseteq Requests
  BY AccessParams
<1>2. /\ req[r].pc = "answer" /\ cookie' = req[r].got /\ strays' = (IF r \in Logins /\ r \notin strays THEN Logins ELSE strays)
      /\ Ends(r) /\ UNCHANGED <<user, link, admins, rushed>>
  BY DEF Receive, At
<1>3. r \in Logins \cup Activities /\ r \notin Logouts /\ r \notin Resets /\ r \notin Removals
  <2>1. r \in Logins \cup Activities
    BY <1>2 DEF RowsOK, Targets, At
  <2> QED
    BY <2>1 DEF AccessConstants
<1>4. /\ req \in [Requests -> Req] /\ req' \in [Requests -> Req]
      /\ req'[r].pc = "over" /\ req'[r].got = req[r].got
      /\ \A q \in Requests \ {r} : req'[q] = req[q]
  BY <1>2, EndsOK DEF RowsOK, RowsTypeOK
<1>5. RowsTypeOK'
  BY <1>2, <1>4 DEF RowsOK, RowsTypeOK, Req
<1>6. SessionsAreOfTheirPassword'
  <2>1. \A q \in Requests : req[q].got.cred = req[q].got.root
    BY DEF RowsOK, SessionsAreOfTheirPassword, Sessions
  <2>2. \A q \in Requests : req'[q].got.cred = req'[q].got.root
    BY <1>4, <2>1
  <2> QED
    BY <1>2, <2>1, <2>2 DEF SessionsAreOfTheirPassword, Sessions
<1>7. OnlyStraysAnswer'
  <2>1. HasLoggedOut' => HasLoggedOut
    BY <1>1, <1>3, <1>4 DEF HasLoggedOut, At
  <2>2. StrayOver /\ strays' = strays => StrayOver'
    BY <1>1, <1>4 DEF StrayOver, At, RowsOK, RowsTypeOK
  <2>3. r \in strays' => StrayOver'
    BY <1>4 DEF StrayOver, At
  <2>4. CASE r \in Logins
    BY <1>2, <2>3, <2>4 DEF OnlyStraysAnswer
  <2>5. CASE r \notin Logins /\ HasLoggedOut /\ ~StrayOver
    <3>1. r \in strays
      BY <1>2, <1>3, <2>5 DEF RowsOK, OnlyStraysAnswer
    <3> QED
      BY <1>2, <2>3, <2>5, <3>1 DEF OnlyStraysAnswer
  <2>6. CASE r \notin Logins /\ StrayOver
    BY <1>2, <2>2, <2>6 DEF OnlyStraysAnswer
  <2> QED
    BY <2>1, <2>4, <2>5, <2>6 DEF OnlyStraysAnswer
<1>8. LinksAreDated'
  <2>1. Changed' = Changed
    BY <1>1, <1>3, <1>4 DEF Changed, At
  <2> QED
    BY <1>1, <1>2, <1>3, <1>4, <2>1 DEF RowsOK, LinksAreDated, At
<1>9. Targets' /\ LinkOnce'
  BY <1>1, <1>3, <1>4 DEF RowsOK, Targets, LinkOnce, At
<1>10. OneIsSpared'
  BY <1>1, <1>2, <1>4 DEF RowsOK, OneIsSpared, At
<1> QED
  BY <1>5, <1>6, <1>7, <1>8, <1>9, <1>10 DEF RowsOK

\* The browser logs out.
LEMMA LoggedOutKeeps ==
  ASSUME AccessConstants, RowsOK, NEW r \in Requests, LoggedOut(r)
  PROVE  RowsOK'
<1>1. /\ Logins \subseteq Requests /\ Activities \subseteq Requests /\ Logouts \subseteq Requests
      /\ Resets \subseteq Requests /\ Removals \subseteq Requests
  BY AccessParams
<1>2. /\ req[r].pc = "sent" /\ cookie' = NoSession /\ strays' = {x \in Logins \cup Activities : InFlight(x)}
      /\ Ends(r) /\ UNCHANGED <<user, link, admins, rushed>> /\ r \in Logouts
  BY DEF LoggedOut, At
<1>3. r \notin Logins /\ r \notin Activities /\ r \notin Resets /\ r \notin Removals
  BY <1>2 DEF AccessConstants
<1>4. /\ req \in [Requests -> Req] /\ req' \in [Requests -> Req]
      /\ req'[r].pc = "over" /\ req'[r].got = req[r].got
      /\ \A q \in Requests \ {r} : req'[q] = req[q]
  BY <1>2, EndsOK DEF RowsOK, RowsTypeOK
<1>5. RowsTypeOK'
  BY <1>2, <1>4, NoSessionOK DEF RowsOK, RowsTypeOK
<1>6. SessionsAreOfTheirPassword'
  <2>1. \A q \in Requests : req[q].got.cred = req[q].got.root
    BY DEF RowsOK, SessionsAreOfTheirPassword, Sessions
  <2>2. \A q \in Requests : req'[q].got.cred = req'[q].got.root
    BY <1>4, <2>1
  <2> QED
    BY <1>2, <2>2, NoSessionOK DEF SessionsAreOfTheirPassword, Sessions
<1>7. OnlyStraysAnswer'
  BY <1>1, <1>2, <1>3, <1>4 DEF OnlyStraysAnswer, InFlight
<1>8. LinksAreDated'
  <2>1. Changed' = Changed
    BY <1>1, <1>3, <1>4 DEF Changed, At
  <2> QED
    BY <1>1, <1>2, <1>3, <1>4, <2>1 DEF RowsOK, LinksAreDated, At
<1>9. Targets' /\ LinkOnce'
  BY <1>1, <1>3, <1>4 DEF RowsOK, Targets, LinkOnce, At
<1>10. OneIsSpared'
  BY <1>1, <1>2, <1>3, <1>4 DEF RowsOK, OneIsSpared, At
<1> QED
  BY <1>5, <1>6, <1>7, <1>8, <1>9, <1>10 DEF RowsOK

\* A removal of an admin begins, when there are two and no other removal is under
\* way or the two are rushed,
LEMMA StartRemovalKeeps ==
  ASSUME AccessConstants, RowsOK, NEW r \in Removals, NEW x \in Admins, StartRemoval(r, x)
  PROVE  RowsOK'
<1>1. /\ Logins \subseteq Requests /\ Activities \subseteq Requests /\ Logouts \subseteq Requests
      /\ Resets \subseteq Requests /\ Removals \subseteq Requests /\ r \in Requests
      /\ r \notin Logins /\ r \notin Activities /\ r \notin Resets /\ r \notin Logouts
  BY AccessParams DEF AccessConstants
<1>2. /\ req[r].pc = "none" /\ x \in admins /\ Cardinality(admins) > 1
      /\ req' = [req EXCEPT ![r].pc = "commit", ![r].on = x]
      /\ rushed' = (rushed \/ \E q \in Removals : req[q].pc = "commit")
      /\ UNCHANGED <<user, cookie, link, admins, strays>>
  BY DEF StartRemoval, At
<1>3. /\ req' \in [Requests -> Req] /\ req'[r].pc = "commit" /\ req'[r].got = req[r].got /\ req'[r].on = x
      /\ \A q \in Requests \ {r} : req'[q] = req[q]
  <2> DEFINE y == [req[r] EXCEPT !.pc = "commit"]
             z == [y EXCEPT !.on = x]
  <2>1. req \in [Requests -> Req]
    BY DEF RowsOK, RowsTypeOK
  <2>2. y \in Req /\ y.pc = "commit" /\ y.got = req[r].got
    BY <1>1, <2>1, ReqFields DEF RequestStates
  <2>3. req' = [req EXCEPT ![r] = z]
    BY <1>1, <1>2, <2>1
  <2> HIDE DEF y
  <2>4. z \in Req /\ z.pc = "commit" /\ z.got = req[r].got /\ z.on = x
    BY <2>2, OnFields
  <2> HIDE DEF z
  <2>5. req' \in [Requests -> Req] /\ req'[r] = z /\ \A q \in Requests \ {r} : req'[q] = req[q]
    BY <1>1, <2>1, <2>3, <2>4, Asked
  <2> QED
    BY <2>4, <2>5
<1>4. PICK y \in admins : y # x
  <2> SUFFICES ASSUME \A y \in admins : y = x
               PROVE  FALSE
    OBVIOUS
  <2>1. admins = {x}
    BY <1>2
  <2>2. Cardinality({x}) = 1
    BY FS_Singleton
  <2> QED
    BY <1>2, <2>1, <2>2
<1>5. RowsTypeOK'
  BY <1>2, <1>3 DEF RowsOK, RowsTypeOK
<1>6. SessionsAreOfTheirPassword'
  <2>1. cookie.cred = cookie.root /\ \A q \in Requests : req[q].got.cred = req[q].got.root
    BY DEF RowsOK, SessionsAreOfTheirPassword, Sessions
  <2>2. \A q \in Requests : req'[q].got.cred = req'[q].got.root
    BY <1>1, <1>3, <2>1
  <2> QED
    BY <1>2, <2>1, <2>2 DEF SessionsAreOfTheirPassword, Sessions
<1>7. OnlyStraysAnswer'
  <2>1. HasLoggedOut' = HasLoggedOut
    BY <1>1, <1>3 DEF HasLoggedOut, At
  <2>2. StrayOver' = StrayOver
    BY <1>1, <1>2, <1>3 DEF StrayOver, At, RowsOK, RowsTypeOK
  <2>3. \A q \in Activities : req'[q] = req[q]
    BY <1>1, <1>3
  <2> QED
    BY <1>2, <2>1, <2>2, <2>3 DEF RowsOK, OnlyStraysAnswer
<1>8. LinksAreDated'
  <2>1. Changed' = Changed
    BY <1>1, <1>3 DEF Changed, At
  <2> QED
    BY <1>1, <1>2, <1>3, <2>1 DEF RowsOK, LinksAreDated, At
<1>9. Targets' /\ LinkOnce'
  BY <1>1, <1>3 DEF RowsOK, Targets, LinkOnce, At
<1>10. OneIsSpared'
  <2>1. ~rushed' => \A q \in Removals \ {r} : req'[q].pc # "commit"
    BY <1>1, <1>2, <1>3
  <2> QED
    BY <1>2, <1>3, <1>4, <2>1 DEF OneIsSpared, At
<1> QED
  BY <1>5, <1>6, <1>7, <1>8, <1>9, <1>10 DEF RowsOK

\* and is committed.
LEMMA RemoveKeeps ==
  ASSUME AccessConstants, RowsOK, NEW r \in Requests, Remove(r)
  PROVE  RowsOK'
<1>1. /\ Logins \subseteq Requests /\ Activities \subseteq Requests /\ Logouts \subseteq Requests
      /\ Resets \subseteq Requests /\ Removals \subseteq Requests
      /\ r \notin Logins /\ r \notin Activities /\ r \notin Resets /\ r \notin Logouts /\ r \in Removals
  BY AccessParams DEF AccessConstants, Remove
<1>2. /\ req[r].pc = "commit" /\ admins' = admins \ {req[r].on} /\ Ends(r) /\ UNCHANGED <<user, cookie, link, strays, rushed>>
  BY DEF Remove, At
<1>3. /\ req \in [Requests -> Req] /\ req' \in [Requests -> Req] /\ req'[r].pc = "over" /\ req'[r].got = req[r].got
      /\ \A q \in Requests \ {r} : req'[q] = req[q]
  BY <1>2, EndsOK DEF RowsOK, RowsTypeOK
<1>4. RowsTypeOK'
  BY <1>2, <1>3 DEF RowsOK, RowsTypeOK
<1>5. SessionsAreOfTheirPassword'
  <2>1. cookie.cred = cookie.root /\ \A q \in Requests : req[q].got.cred = req[q].got.root
    BY DEF RowsOK, SessionsAreOfTheirPassword, Sessions
  <2>2. \A q \in Requests : req'[q].got.cred = req'[q].got.root
    BY <1>3, <2>1
  <2> QED
    BY <1>2, <2>1, <2>2 DEF SessionsAreOfTheirPassword, Sessions
<1>6. OnlyStraysAnswer'
  <2>1. HasLoggedOut' = HasLoggedOut
    BY <1>1, <1>3 DEF HasLoggedOut, At
  <2>2. StrayOver' = StrayOver
    BY <1>1, <1>2, <1>3 DEF StrayOver, At, RowsOK, RowsTypeOK
  <2>3. \A q \in Activities : req'[q] = req[q]
    BY <1>1, <1>3
  <2> QED
    BY <1>2, <2>1, <2>2, <2>3 DEF RowsOK, OnlyStraysAnswer
<1>7. LinksAreDated'
  <2>1. Changed' = Changed
    BY <1>1, <1>3 DEF Changed, At
  <2> QED
    BY <1>1, <1>2, <1>3, <2>1 DEF RowsOK, LinksAreDated, At
<1>8. Targets' /\ LinkOnce'
  BY <1>1, <1>3 DEF RowsOK, Targets, LinkOnce, At
<1>9. OneIsSpared'
  BY <1>1, <1>2, <1>3 DEF RowsOK, OneIsSpared, At
<1> QED
  BY <1>4, <1>5, <1>6, <1>7, <1>8, <1>9 DEF RowsOK

\* A new password: one more has been changed, and the link is of an older one.
LEMMA ChangePasswordKeeps ==
  ASSUME AccessConstants, RowsOK, NEW r \in Requests, ChangePassword(r)
  PROVE  RowsOK'
<1> DEFINE l == req[r].on
           n == Cardinality(Changed) + 1
<1>1. /\ Logins \subseteq Requests /\ Activities \subseteq Requests /\ Logouts \subseteq Requests
      /\ Resets \subseteq Requests /\ Removals \subseteq Requests
      /\ r \notin Logins /\ r \notin Activities /\ r \notin Removals /\ r \notin Logouts /\ r \in Resets
  BY AccessParams DEF AccessConstants, ChangePassword
<1>2. /\ req[r].pc = "commit" /\ user' = [user EXCEPT !.pass = n]
      /\ link' = [link EXCEPT ![l].used = link[l].used \cup {r}]
      /\ Ends(r) /\ UNCHANGED <<cookie, admins, strays, rushed>>
  BY DEF ChangePassword, At, Changed
<1>3. /\ req \in [Requests -> Req] /\ req' \in [Requests -> Req]
      /\ req'[r].pc = "over" /\ req'[r].got = req[r].got /\ req'[r].on = l /\ req'[r].after = req[r].after
      /\ \A q \in Requests \ {r} : req'[q] = req[q]
  BY <1>2, EndsOK DEF RowsOK, RowsTypeOK
<1>4. l \in Links /\ l # NoOne
  BY <1>1, <1>2 DEF RowsOK, Targets, At
<1> HIDE DEF l
<1>5. IsFiniteSet(Changed) /\ IsFiniteSet(Changed \cup {r}) /\ Cardinality(Changed) \in Nat
      /\ Cardinality(Changed \cup {r}) = n /\ n \in Passwords
  <2>1. Changed \subseteq Resets /\ IsFiniteSet(Resets) /\ r \notin Changed
    BY <1>2 DEF Changed, At, AccessConstants
  <2>2. IsFiniteSet(Changed) /\ Cardinality(Changed) \in Nat
    BY <2>1, FS_Subset, FS_CardinalityType
  <2>3. IsFiniteSet(Changed \cup {r}) /\ Cardinality(Changed \cup {r}) = n
    BY <2>1, <2>2, FS_AddElement
  <2>4. Cardinality(Changed \cup {r}) <= Cardinality(Resets)
    BY <1>1, <2>1, FS_Subset
  <2> QED
    BY <2>2, <2>3, <2>4, PasswordsOK
<1>6. Changed' = Changed \cup {r}
  BY <1>1, <1>2, <1>3, <1>4 DEF Changed, At
<1> HIDE DEF n
<1>7. /\ user' \in [pass: Passwords, active: BOOLEAN] /\ user'.pass = n
  BY <1>2, <1>5 DEF RowsOK, RowsTypeOK
<1>8. /\ link' \in [Links -> [cred: Passwords \cup {-1}, used: SUBSET Resets]]
      /\ \A m \in Links : link'[m].cred = link[m].cred
      /\ \A m \in Links \ {l} : link'[m].used = link[m].used
  <2> DEFINE x == [link[l] EXCEPT !.used = link[l].used \cup {r}]
  <2>1. link \in [Links -> [cred: Passwords \cup {-1}, used: SUBSET Resets]]
    BY DEF RowsOK, RowsTypeOK
  <2>2. x \in [cred: Passwords \cup {-1}, used: SUBSET Resets] /\ x.cred = link[l].cred
    BY <1>1, <1>4, <2>1
  <2>3. link' = [link EXCEPT ![l] = x]
    BY <1>2
  <2> HIDE DEF x
  <2> QED
    BY <1>4, <2>1, <2>2, <2>3
<1>9. RowsTypeOK'
  BY <1>2, <1>3, <1>7, <1>8 DEF RowsOK, RowsTypeOK
<1>10. LinksAreDated'
  <2>1. user'.pass = Cardinality(Changed')
    BY <1>5, <1>6, <1>7
  <2>2. \A m \in Links : link'[m].cred < n
    <3>1. user.pass = Cardinality(Changed) /\ n = Cardinality(Changed) + 1
      BY DEF RowsOK, LinksAreDated, n
    <3>2. \A m \in Links : link[m].cred <= user.pass /\ link[m].cred \in Int
      BY PasswordsOK DEF RowsOK, LinksAreDated, RowsTypeOK
    <3> QED
      BY <1>5, <1>8, <3>1, <3>2
  <2>3. \A m \in Links : link'[m].cred = -1
                         => link'[m].used = {} /\ \A q \in Resets : At(q, "commit")' => req'[q].on # m
    <3>1. link[l].cred # -1
      BY <1>1, <1>2, <1>4 DEF RowsOK, LinksAreDated, At, l
    <3> QED
      BY <1>1, <1>3, <1>4, <1>8, <3>1 DEF RowsOK, LinksAreDated, At
  <2>4. n \in Int /\ \A m \in Links : link'[m].cred \in Int
    BY <1>5, <1>8, PasswordsOK
  <2> QED
    BY <1>7, <2>1, <2>2, <2>4, <2>3 DEF LinksAreDated
<1>11. SessionsAreOfTheirPassword'
  <2>1. cookie.cred = cookie.root /\ \A q \in Requests : req[q].got.cred = req[q].got.root
    BY DEF RowsOK, SessionsAreOfTheirPassword, Sessions
  <2>2. \A q \in Requests : req'[q].got.cred = req'[q].got.root
    BY <1>3, <2>1
  <2> QED
    BY <1>2, <2>1, <2>2 DEF SessionsAreOfTheirPassword, Sessions
<1>12. OnlyStraysAnswer'
  <2>1. HasLoggedOut' = HasLoggedOut
    BY <1>1, <1>3 DEF HasLoggedOut, At
  <2>2. StrayOver' = StrayOver
    BY <1>1, <1>2, <1>3 DEF StrayOver, At, RowsOK, RowsTypeOK
  <2>3. \A q \in Activities : req'[q] = req[q]
    BY <1>1, <1>3
  <2> QED
    BY <1>2, <2>1, <2>2, <2>3 DEF RowsOK, OnlyStraysAnswer
<1>13. Targets' /\ LinkOnce'
  BY <1>1, <1>3, <1>4 DEF RowsOK, Targets, LinkOnce, At
<1>14. OneIsSpared'
  BY <1>1, <1>2, <1>3 DEF RowsOK, OneIsSpared, At
<1> QED
  BY <1>9, <1>10, <1>11, <1>12, <1>13, <1>14 DEF RowsOK

\* A link is mailed, for the password of now; an account is switched on or off.
LEMMA MailKeeps ==
  ASSUME AccessConstants, RowsOK, (\E l \in Links : Mail(l)) \/ SetActive
  PROVE  RowsOK'
<1>1. UNCHANGED <<cookie, req, admins, strays, rushed>>
  BY DEF Mail, SetActive
<1>2. /\ user' \in [pass: Passwords, active: BOOLEAN] /\ user'.pass = user.pass
      /\ link' \in [Links -> [cred: Passwords \cup {-1}, used: SUBSET Resets]]
      /\ \A m \in Links : link'[m] = link[m] \/ (link[m].cred = -1 /\ link'[m].cred = user.pass /\ link'[m].used = link[m].used)
  <2>1. link \in [Links -> [cred: Passwords \cup {-1}, used: SUBSET Resets]] /\ user \in [pass: Passwords, active: BOOLEAN]
    BY DEF RowsOK, RowsTypeOK
  <2>2. ASSUME NEW l \in Links, Mail(l)
        PROVE  /\ user' = user /\ link' \in [Links -> [cred: Passwords \cup {-1}, used: SUBSET Resets]]
               /\ \A m \in Links : link'[m] = link[m] \/ (link[m].cred = -1 /\ link'[m].cred = user.pass /\ link'[m].used = link[m].used)
    <3> DEFINE x == [link[l] EXCEPT !.cred = user.pass]
    <3>1. x \in [cred: Passwords \cup {-1}, used: SUBSET Resets] /\ x.cred = user.pass /\ x.used = link[l].used
      BY <2>1
    <3>2. link' = [link EXCEPT ![l].cred = user.pass] /\ UNCHANGED user /\ link[l].cred = -1
      BY <2>2 DEF Mail
    <3>3. link' = [link EXCEPT ![l] = x]
      BY <3>2
    <3> HIDE DEF x
    <3>4. link' \in [Links -> [cred: Passwords \cup {-1}, used: SUBSET Resets]]
      BY <2>1, <3>1, <3>3
    <3>5. link'[l] = x /\ \A m \in Links \ {l} : link'[m] = link[m]
      BY <2>1, <3>3
    <3> QED
      BY <3>1, <3>2, <3>4, <3>5
  <2>3. ASSUME SetActive
        PROVE  user' \in [pass: Passwords, active: BOOLEAN] /\ user'.pass = user.pass /\ UNCHANGED link
    <3>1. user' = [user EXCEPT !.active = ~user.active] /\ UNCHANGED link
      BY <2>3 DEF SetActive
    <3>2. user.active = TRUE \/ user.active = FALSE
      BY <2>1
    <3> QED
      BY <2>1, <3>1, <3>2
  <2>4. CASE \E l \in Links : Mail(l)
    BY <2>1, <2>2, <2>4
  <2>5. CASE SetActive
    BY <2>1, <2>3, <2>5
  <2> QED
    BY <2>4, <2>5
<1>3. RowsTypeOK'
  BY <1>1, <1>2 DEF RowsOK, RowsTypeOK
<1>4. LinksAreDated'
  <2>1. Changed' = Changed
    BY <1>1 DEF Changed, At
  <2>2. \A m \in Links : link[m].cred \in Int /\ user.pass \in Nat
    BY PasswordsOK DEF RowsOK, RowsTypeOK
  <2>3. \A m \in Links : link[m].cred = -1 => link[m].used = {}
    BY DEF RowsOK, LinksAreDated
  <2> QED
    BY <1>1, <1>2, <2>1, <2>2, <2>3 DEF RowsOK, LinksAreDated, At
<1>5. SessionsAreOfTheirPassword' /\ Targets' /\ LinkOnce'
  BY <1>1 DEF RowsOK, SessionsAreOfTheirPassword, Sessions, Targets, LinkOnce, At
<1>6. OnlyStraysAnswer' /\ OneIsSpared'
  BY <1>1 DEF RowsOK, OnlyStraysAnswer, HasLoggedOut, StrayOver, OneIsSpared, At
<1> QED
  BY <1>3, <1>4, <1>5, <1>6 DEF RowsOK

-----------------------------------------------------------------------------
(* All of it. *)

\* It holds at first,
LEMMA AccessBegins ==
  ASSUME AccessConstants, NEW team, AccessInit(team)
  PROVE  AccessInductive
<1>1. /\ clock = 0 /\ 0 \in 0..MaxTime /\ Cardinality({}) = 0 /\ IsFiniteSet({})
      /\ Limit \in Nat /\ Callers = Logins /\ Logins \subseteq Requests
  BY AccessParams, FS_EmptySet DEF AccessInit, RateLimitInit
<1>2. /\ Idle \in Call /\ \A c \in Callers : call[c] = Idle
      /\ Idle.pc = "idle" /\ Idle.key = NoOne
  BY DEF AccessInit, RateLimitInit, Idle, Call
<1>3. \A k \in LimitKeys : events[k] = {} /\ let[k] = {} /\ bucketLock[k] = NoOne
  BY DEF AccessInit, RateLimitInit
<1>4. RateLimitTypeOK
  BY <1>1, <1>2 DEF AccessInit, RateLimitInit, RateLimitTypeOK
<1>5. Counting
  <2>1. FiniteEvents /\ StillCounted
    BY <1>1, <1>3 DEF FiniteEvents, StillCounted
  <2>2. ASSUME NEW k \in LimitKeys, NEW late \in SUBSET let[k]
        PROVE  ~(Cardinality(late) > Limit)
    <3>1. late = {}
      BY <1>3
    <3> QED
      BY <1>1, <3>1
  <2>3. WindowBounded
    BY <2>2 DEF WindowBounded
  <2> QED
    BY <2>1, <2>3 DEF Counting
<1>6. /\ req \in [Requests -> Req]
      /\ \A r \in Requests : /\ req[r].pc \in {"none", "over"} /\ req[r].got = NoSession
                             /\ req[r].on = NoOne /\ req[r].after = {}
  <2>1. NewReq \in Req /\ NewReq.pc = "none" /\ NewReq.got = NoSession /\ NewReq.on = NoOne /\ NewReq.after = {}
    BY PasswordsOK, NoSessionOK DEF NewReq, Req
  <2> DEFINE x == [NewReq EXCEPT !.pc = "over"]
  <2>2. "over" \in RequestStates
    BY DEF RequestStates
  <2>3. x \in Req /\ x.pc = "over" /\ x.got = NoSession /\ x.on = NoOne /\ x.after = {}
    BY <2>1, <2>2, ReqFields
  <2>4. req = [r \in Requests |-> IF r \in team THEN NewReq ELSE x]
    BY DEF AccessInit
  <2> HIDE DEF x
  <2> QED
    BY <2>1, <2>3, <2>4
<1>7. Calling
  <2>1. LocksAreLetGo /\ CallsAreTimed /\ LetAreTimed /\ LetOnce /\ CountsOnce
    BY <1>2, <1>3 DEF LocksAreLetGo, CallsAreTimed, LetAreTimed, LetOnce, CountsOnce
  <2>2. ClientKey \in LimitKeys /\ AccountKey \in LimitKeys
    BY DEF AccessConstants
  <2>3. LoginsGoOn
    BY <1>1, <1>2, <1>3, <1>6, <2>2 DEF LoginsGoOn, At
  <2> QED
    BY <2>1, <2>3 DEF Calling
<1>8. RowsTypeOK
  BY <1>6, PasswordsOK, NoSessionOK DEF AccessInit, RowsTypeOK
<1>9. SessionsAreOfTheirPassword
  BY <1>6, NoSessionOK DEF AccessInit, SessionsAreOfTheirPassword, Sessions
<1>10. OnlyStraysAnswer
  <2>1. ~HasLoggedOut
    BY <1>6, AccessParams DEF HasLoggedOut
  <2> QED
    BY <2>1 DEF OnlyStraysAnswer
<1>11. LinksAreDated
  <2>1. Changed = {}
    BY <1>6, AccessParams DEF Changed
  <2>2. user.pass = 0 /\ \A l \in Links : link[l].cred = -1 /\ link[l].used = {}
    BY DEF AccessInit
  <2>3. \A r \in Resets : ~At(r, "commit")
    BY <1>6, AccessParams DEF At
  <2> QED
    BY <1>1, <2>1, <2>2, <2>3 DEF LinksAreDated
<1>12. Targets /\ LinkOnce
  BY <1>6, AccessParams DEF Targets, LinkOnce, At
<1>13. OneIsSpared
  <2>1. \A r \in Removals : ~At(r, "commit")
    BY <1>6, AccessParams DEF At
  <2>2. admins = Admins /\ Admins # {}
    BY DEF AccessInit, AccessConstants
  <2> QED
    BY <2>1, <2>2 DEF OneIsSpared
<1>14. LimiterOK
  BY <1>4, <1>5, <1>7 DEF LimiterOK
<1>15. RowsOK
  BY <1>8, <1>9, <1>10, <1>11, <1>12, <1>13 DEF RowsOK
<1> QED
  BY <1>14, <1>15, Parts

\* each step keeps it,
LEMMA AccessKeeps ==
  ASSUME AccessConstants, AccessInductive, AccessNext
  PROVE  AccessInductive'
<1>1. LimiterOK /\ RowsOK
  BY Parts
<1>2. /\ req \in [Requests -> Req] /\ clock \in Int
      /\ Logins \subseteq Requests /\ Logins \cap (Activities \cup Logouts \cup Resets \cup Removals) = {}
  BY <1>1, AccessParams DEF RowsOK, RowsTypeOK, LimiterOK, RateLimitTypeOK, AccessConstants
<1>3. CASE SecondPasses
  <2>1. Second /\ UNCHANGED access /\ UNCHANGED req
    BY <1>3 DEF SecondPasses, access
  <2> QED
    BY <1>1, <2>1, TickKeeps, RowsStay, Parts
<1>4. CASE SetActive
  <2>1. UNCHANGED <<limiter, req>>
    BY <1>4 DEF SetActive
  <2> QED
    BY <1>1, <1>4, <2>1, LimiterStays, MailKeeps, Parts
<1>5. CASE \E l \in Links : Mail(l)
  <2>1. UNCHANGED <<limiter, req>>
    BY <1>5 DEF Mail
  <2> QED
    BY <1>1, <1>5, <2>1, LimiterStays, MailKeeps, Parts
<1>6. ASSUME NEW r \in Logins, Attempt(r)
      PROVE  LimiterOK' /\ RowsOK'
  <2>1. /\ Enter(r, ClientKey) /\ call[r].pc = "idle" /\ ClientKey # AccountKey /\ ClientKey \in LimitKeys
        /\ \A e \in let[ClientKey] : e.by # r
        /\ \A e \in let[AccountKey] : e.by # r
        /\ req' = [req EXCEPT ![r].pc = "client"]
    BY <1>1, <1>6 DEF Attempt, At, LimiterOK, Calling, LoginsGoOn, AccessConstants
  <2>2. req'[r].pc = "client" /\ \A q \in Logins \ {r} : req'[q] = req[q]
    BY <1>2, <2>1 DEF Req
  <2> QED
    BY <1>1, <1>2, <1>6, <2>1, <2>2, EnterKeeps, LoginKeeps
<1>7. ASSUME NEW r \in Logins, NextKey(r)
      PROVE  LimiterOK' /\ RowsOK'
  <2>1. /\ Enter(r, AccountKey) /\ call[r].pc = "allowed" /\ ClientKey # AccountKey /\ AccountKey \in LimitKeys
        /\ \A e \in let[AccountKey] : e.by # r
        /\ req' = [req EXCEPT ![r].pc = "account"]
    BY <1>1, <1>7 DEF NextKey, At, LimiterOK, Calling, LoginsGoOn, AccessConstants
  <2>2. req'[r].pc = "account" /\ \A q \in Logins \ {r} : req'[q] = req[q]
    BY <1>2, <2>1 DEF Req
  <2> QED
    BY <1>1, <1>2, <1>7, <2>1, <2>2, EnterKeeps, LoginKeeps
<1>8. ASSUME NEW r \in Logins, Limited(r)
      PROVE  LimiterOK' /\ RowsOK'
  <2>1. Enforce(r) /\ req[r].pc \in {"client", "account"} /\ UNCHANGED access /\ UNCHANGED req
    BY <1>8 DEF Limited, access
  <2> QED
    BY <1>1, <2>1, EnforceKeeps, RowsStay
<1>9. ASSUME NEW r \in Logins, TurnedAway(r) \/ ReadUser(r) \/ Verified(r)
      PROVE  LimiterOK' /\ RowsOK'
  <2>1. UNCHANGED limiter
    BY <1>9 DEF TurnedAway, ReadUser, Verified
  <2>2. req'[r].pc \in {"over", "check", "answer"} /\ \A q \in Logins \ {r} : req'[q] = req[q]
    BY <1>2, <1>9 DEF TurnedAway, ReadUser, Verified, Ends, Req
  <2>3. \A q \in Logins : req'[q].pc \in {"none", "client"} => req'[q].pc = req[q].pc
    BY <2>2
  <2> QED
    BY <1>1, <1>2, <1>9, <2>1, <2>3, LimiterStays, LoginKeeps
<1>10. ASSUME NEW r \in Requests, Send(r) \/ Activity(r) \/ Receive(r) \/ LoggedOut(r) \/ ChangePassword(r) \/ Remove(r)
      PROVE  LimiterOK' /\ RowsOK'
  <2>1. UNCHANGED limiter
    BY <1>10 DEF Send, Activity, Receive, LoggedOut, ChangePassword, Remove
  <2>2. CASE Send(r) \/ Activity(r)
    <3>1. r \notin Logins
      BY <1>2, <2>2 DEF Send, Activity
    <3>2. \A q \in Logins : req'[q] = req[q]
      BY <1>2, <2>2, <3>1 DEF Send, Activity, Ends
    <3> QED
      BY <1>1, <1>2, <2>1, <2>2, <3>2, LimiterStays, CookieKeeps
  <2>3. CASE Receive(r) \/ LoggedOut(r) \/ ChangePassword(r) \/ Remove(r)
    <3>1. Ends(r)
      BY <2>3 DEF Receive, LoggedOut, ChangePassword, Remove
    <3>2. req'[r].pc = "over" /\ \A q \in Requests \ {r} : req'[q] = req[q]
      BY <1>2, <3>1, EndsOK
    <3>3. \A q \in Logins : req'[q].pc \in {"none", "client"} => req'[q].pc = req[q].pc
      BY <1>2, <3>2
    <3> QED
      BY <1>1, <2>1, <2>3, <3>3, LimiterStays, ReceiveKeeps, LoggedOutKeeps, ChangePasswordKeeps, RemoveKeeps
  <2> QED
    BY <1>10, <2>2, <2>3
<1>11. ASSUME NEW r \in Resets, NEW l \in Links, UseLink(r, l)
       PROVE  LimiterOK' /\ RowsOK'
  <2>1. UNCHANGED limiter /\ \A q \in Logins : req'[q] = req[q]
    BY <1>2, <1>11 DEF UseLink, Ends
  <2> QED
    BY <1>1, <1>11, <2>1, LimiterStays, LinkKeeps
<1>12. ASSUME NEW r \in Removals, NEW x \in Admins, StartRemoval(r, x)
       PROVE  LimiterOK' /\ RowsOK'
  <2>1. UNCHANGED limiter /\ \A q \in Logins : req'[q] = req[q]
    BY <1>2, <1>12 DEF StartRemoval
  <2> QED
    BY <1>1, <1>12, <2>1, LimiterStays, StartRemovalKeeps
<1> QED
  <2>1. LimiterOK' /\ RowsOK'
    BY <1>3, <1>4, <1>5, <1>6, <1>7, <1>8, <1>9, <1>10, <1>11, <1>12, Parts DEF AccessNext
  <2> QED
    BY <2>1, Parts

\* as does a step of another part;
LEMMA AccessStays ==
  ASSUME AccessInductive, UNCHANGED serving
  PROVE  AccessInductive'
<1>1. LimiterOK /\ RowsOK /\ UNCHANGED limiter /\ UNCHANGED access /\ UNCHANGED req
  BY Parts DEF serving, access
<1>2. LimiterOK'
  BY <1>1, LimiterStays
<1>3. RowsOK'
  BY <1>1, RowsStay
<1> QED
  BY <1>2, <1>3, Parts

\* and it is what is promised: the last admin is spared, and whoever has logged out
\* has a session only by a stray.
LEMMA AccessHolds ==
  ASSUME AccessInductive
  PROVE  AccessIsConsistent /\ AccessRight
<1>1. AdminRemains
  BY DEF AccessInductive, OneIsSpared, AdminRemains
<1>2. LogoutStays
  BY DEF AccessInductive, OnlyStraysAnswer, HasLoggedOut, StrayOver, LogoutStays
<1> QED
  BY <1>1, <1>2 DEF AccessInductive, AccessIsConsistent, AccessRight

-----------------------------------------------------------------------------
(* The whole. *)

\* What a step leaves alone keeps what was true of it.
LEMMA SuiteStays ==
  ASSUME SuiteInductive, UNCHANGED suite
  PROVE  SuiteInductive' /\ UNCHANGED <<child, missed>>
  BY DEF SuiteInductive, SuiteTypeOK, LockIsHeld, LeavesAlone, OrphansAreMissed, OneScheduler, DropsOwn, PidIsOwner, Stage, suite

LEMMA BackupStays ==
  ASSUME BackupInductive, DaysInOrder, UNCHANGED backups, missed \subseteq missed'
  PROVE  BackupInductive' /\ DaysInOrder' /\ UNCHANGED dumper
<1>1. UNCHANGED <<minute, backupAt, lastRun, runLock, dumper, dumps, begun, crossed, succeeded>>
  BY DEF backups
<1>2. BackupInductive'
  BY <1>1 DEF BackupInductive, BackupTypeOK, OneAtATime, NewestIsWhole, GoodBackupKept, Doing
<1>3. missed' = {} => missed = {}
  OBVIOUS
<1>4. DaysInOrder'
  BY <1>1, <1>3 DEF DaysInOrder, Today
<1> QED
  BY <1>1, <1>2, <1>4

LEMMA SweepsStay ==
  ASSUME ScratchInductive, UNCHANGED scratch
  PROVE  ScratchInductive'
  BY ScratchStays DEF scratch, ScratchInductive, ScratchTypeOK

\* Without an orphan that was missed, one scheduler has duties.
LEMMA OneHasDuties ==
  ASSUME SuiteInductive, SchedulersRun, NEW l \in Launches, Runs(l), missed = {}
  PROVE  \A k \in Launches \ {l} : dumper[k].does = "idle"
  BY DEF SuiteInductive, OneScheduler, SchedulersRun, Runs

\* At first everything is idle.
LEMMA InitInductive == Init => Inductive
<1> SUFFICES ASSUME NEW x \in Scenarios,
                    SuiteInit(x.team, x.crashes), BackupInit(x.asked, x.times),
                    ScratchInit(x.uploads, x.reports, x.previews, x.keeps),
                    pass = [l \in Launches |-> "backup"], AccessInit(x.requests)
             PROVE  Inductive
  BY DEF Init
<1>1. /\ x.team \subseteq Launches /\ x.crashes \in Nat /\ x.times \subseteq Times \cup {Nobody} /\ x.keeps \subseteq Keeps
      /\ AccessConstants
  BY ServerConstants
<1>2. SuiteInductive
  <2>1. /\ launch \in [Launches -> [pc: Stages, found: SUBSET Launches]]
        /\ \A l \in Launches : launch[l].pc \in {"none", "over"}
    BY DEF SuiteInit, Stages
  <2>2. /\ child \in [Launches -> [Roles -> Statuses]]
        /\ \A l \in Launches : child[l]["scheduler"] # "alive"
    BY SuiteConstants DEF SuiteInit, Statuses
  <2>3. SuiteTypeOK
    BY <1>1, <2>1, <2>2 DEF SuiteInit, SuiteTypeOK
  <2>4. lock = None /\ None \notin Launches
    BY SuiteConstants DEF SuiteInit
  <2>5. LockIsHeld /\ LeavesAlone /\ OrphansAreMissed /\ OneScheduler /\ DropsOwn /\ PidIsOwner
    BY <2>1, <2>2, <2>4 DEF LockIsHeld, LeavesAlone, OrphansAreMissed, OneScheduler, DropsOwn, PidIsOwner, Holding, Stage
  <2> QED
    BY <2>3, <2>5 DEF SuiteInductive
<1>3. DayMinutes \in Nat \ {0} /\ MaxMinute \in Nat /\ minute = 0 /\ Today = 0 /\ 0 \in Days
  <2>1. DayMinutes \in Nat \ {0} /\ MaxMinute \in Nat /\ minute = 0
    BY BackupConstants DEF BackupInit
  <2>2. 0 \div DayMinutes = 0
    BY <2>1
  <2>3. MaxMinute \div DayMinutes \in Nat
    BY <2>1, DivGrows
  <2> QED
    BY <2>1, <2>2, <2>3 DEF Today, Days
<1>4. /\ dumper \in [Dumpers -> [does: {"idle", "due", "locked", "dumping", "pruning", "over"}, day: Days]]
      /\ \A d \in Dumpers : dumper[d].does \in {"idle", "over"}
      /\ \A l \in Launches : dumper[l].does = "idle"
  BY <1>3, SchedulersAreChildren, BackupConstants DEF BackupInit, Dumpers
<1>5. BackupInductive
  <2>1. BackupTypeOK
    <3>1. minute \in 0..MaxMinute /\ backupAt \in Times \cup {Nobody} /\ lastRun \in Days \cup {-1}
      BY <1>1, <1>3 DEF BackupInit
    <3>2. runLock \in Schedulers \cup {Nobody} /\ crossed \in BOOLEAN /\ succeeded \in BOOLEAN
      BY DEF BackupInit
    <3>3. dumps = {} /\ IsFiniteSet({})
      BY FS_EmptySet DEF BackupInit
    <3>4. dumps \subseteq [by: Dumpers, state: {"open", "whole", "rest"}, age: Nat] /\ IsFiniteSet(dumps)
      BY <3>3
    <3>5. begun \in [Days -> Nat]
      BY DEF BackupInit
    <3> QED
      BY <1>4, <3>1, <3>2, <3>4, <3>5 DEF BackupTypeOK
  <2>2. OneAtATime /\ NewestIsWhole /\ GoodBackupKept
    BY <1>4 DEF BackupInit, OneAtATime, NewestIsWhole, GoodBackupKept, Doing
  <2> QED
    BY <2>1, <2>2 DEF BackupInductive
<1>6. SchedulersRun /\ DaysInOrder
  <2>1. lastRun = -1 /\ \A d \in Days : begun[d] = 0
    BY DEF BackupInit
  <2> QED
    BY <1>3, <1>4, <2>1 DEF SchedulersRun, DaysInOrder
<1>7. ScratchInductive
  <2>1. /\ TokenTtl \in Nat /\ PreviewKeep \in Nat /\ SweepEvery \in Nat /\ MaxNow \in Nat /\ now = 0
        /\ \A f \in Files : file[f] = Absent
    BY ScratchConstants DEF ScratchInit
  <2>2. token \in [Uploads -> Token]
    BY DEF ScratchInit, Token
  <2>3. report \in [Reports -> Report] /\ \A r \in Reports : report[r].pc \in {"none", "refused"} /\ report[r].fair
    BY DEF ScratchInit, Report
  <2>4. /\ made \in [Previews -> Int]
        /\ \A p \in Previews : made[p] = Absent \/ made[p] = -PreviewKeep - 2
    BY <2>1 DEF ScratchInit, Absent
  <2>9. keep \in [set: Keeps, least: Keeps] /\ keep.least <= keep.set
    <3>1. PICK k \in x.keeps : keep = [set |-> k, least |-> k]
      BY DEF ScratchInit
    <3>2. k \in Keeps /\ k \in Nat
      BY <1>1, ScratchConstants
    <3> QED
      BY <3>1, <3>2
  <2>10. file \in [Files -> 0..MaxNow \cup {Absent}] /\ lastSweep \in [Sweepers -> -SweepEvery..MaxNow]
    BY <2>1 DEF ScratchInit
  <2>5. ScratchTypeOK
    BY <2>1, <2>2, <2>3, <2>4, <2>9, <2>10 DEF ScratchTypeOK
  <2>6. RowsAreDated
    BY <2>1, FilesOK DEF RowsAreDated
  <2>7. RowsWait /\ ReportFindsRows
    BY <2>3 DEF RowsWait, ReportFindsRows
  <2>8. PreviewsAreDated
    BY <2>1, <2>4 DEF PreviewsAreDated, Absent
  <2> QED
    BY <2>5, <2>6, <2>7, <2>8 DEF ScratchInductive
<1>8. AccessInductive
  BY <1>1, AccessBegins
<1>9. TypeOK
  BY <1>2, <1>5, <1>7 DEF TypeOK, SuiteInductive, BackupInductive, ScratchInductive
<1> QED
  BY <1>2, <1>5, <1>6, <1>7, <1>8, <1>9 DEF Inductive

\* A step of the suite, and what ends with a scheduler.
LEMMA SuiteStepInductive ==
  ASSUME Inductive, SuiteStep
  PROVE  Inductive'
<1> DEFINE gone == {l \in Launches : Runs(l) /\ child'[l]["scheduler"] # "alive"}
<1>1. /\ SuiteInductive /\ BackupInductive /\ ScratchInductive /\ AccessInductive /\ SchedulersRun /\ DaysInOrder
      /\ pass \in [Launches -> {"backup", "sweep", "tokens"}]
  BY DEF Inductive, TypeOK
<1>2. SuiteInductive' /\ missed \subseteq missed'
  BY <1>1, SuiteStepKeeps DEF SuiteStep
<1>3. AccessInductive'
  BY <1>1, AccessStays DEF SuiteStep
<1>4. \A l \in Launches : Runs(l) /\ l \notin gone => Runs(l)'
  BY DEF Runs
<1>5. /\ BackupInductive' /\ DaysInOrder' /\ ScratchInductive'
      /\ \A l \in Launches : IF l \in gone THEN dumper'[l].does = "idle" ELSE dumper'[l] = dumper[l]
      /\ pass' \in [Launches -> {"backup", "sweep", "tokens"}]
  <2>1. CASE gone = {}
    <3>1. UNCHANGED <<backups, scratch, pass>>
      BY <2>1 DEF SuiteStep
    <3> QED
      BY <1>1, <1>2, <2>1, <3>1, BackupStays, SweepsStay
  <2>2. CASE gone # {}
    <3>1. /\ Stopped(gone) /\ SweepersStopped(gone)
          /\ pass' = [l \in Launches |-> IF l \in gone THEN "backup" ELSE pass[l]]
      BY <2>2 DEF SuiteStep
    <3>2. gone \in SUBSET Launches
      OBVIOUS
    <3> HIDE DEF gone
    <3> QED
      BY <1>1, <1>2, <3>1, <3>2, StoppedKeeps, SweepersStoppedKeeps
  <2> QED
    BY <2>1, <2>2
<1>6. SchedulersRun'
  <2> HIDE DEF gone
  <2> QED
    BY <1>1, <1>4, <1>5 DEF SchedulersRun
<1>7. TypeOK'
  BY <1>2, <1>5 DEF TypeOK, SuiteInductive, BackupInductive, ScratchInductive
<1> QED
  BY <1>2, <1>3, <1>5, <1>6, <1>7 DEF Inductive

\* What is left to show of a step beside the suite's.
LEMMA RestInductive ==
  ASSUME Inductive, UNCHANGED suite, BackupInductive', DaysInOrder', ScratchInductive', AccessInductive',
         pass' \in [Launches -> {"backup", "sweep", "tokens"}],
         \A l \in Launches : dumper'[l].does # "idle" => Runs(l)
  PROVE  Inductive'
<1>1. SuiteInductive' /\ UNCHANGED child
  BY SuiteStays DEF Inductive
<1>2. SchedulersRun'
  BY <1>1 DEF SchedulersRun, Runs
<1>3. TypeOK'
  BY <1>1 DEF TypeOK, SuiteInductive, BackupInductive, ScratchInductive
<1> QED
  BY <1>1, <1>2, <1>3 DEF Inductive

\* A duty of a scheduler that runs: without an orphan that was missed, it is the only one.
LEMMA DutyInductive ==
  ASSUME Inductive, NEW l \in Launches, Duty(l) \/ DumpGrows(l)
  PROVE  Inductive'
<1>1. /\ SuiteInductive /\ BackupInductive /\ ScratchInductive /\ AccessInductive /\ SchedulersRun /\ DaysInOrder
      /\ pass \in [Launches -> {"backup", "sweep", "tokens"}]
      /\ UNCHANGED suite /\ UNCHANGED serving /\ Runs(l) /\ l \in Dumpers
  BY SchedulersAreChildren DEF Inductive, TypeOK, Duty, Tick, Sweep, Tokens, DumpGrows, Dumpers
<1>2. UNCHANGED missed /\ missed \subseteq missed' /\ AccessInductive'
  BY <1>1, SuiteStays, AccessStays
<1>3. missed = {} => \A k \in Launches \ {l} : dumper[k].does = "idle"
  BY <1>1, OneHasDuties
<1>4. \A k \in Launches : dumper[k].does # "idle" => Runs(k)
  BY <1>1 DEF SchedulersRun
<1>5. CASE Tick(l) \/ DumpGrows(l)
  <2>1. UNCHANGED scratch
    BY <1>5 DEF Tick, DumpGrows
  <2>2. pass' \in [Launches -> {"backup", "sweep", "tokens"}]
    <3>1. CASE UNCHANGED pass
      BY <1>1, <3>1
    <3>2. ASSUME NEW next \in {"backup", "sweep"}, pass' = [pass EXCEPT ![l] = next]
          PROVE  pass' \in [Launches -> {"backup", "sweep", "tokens"}]
      BY <1>1, <3>2
    <3>3. Tick(l) => \E next \in {"backup", "sweep"} : pass' = [pass EXCEPT ![l] = next]
      BY DEF Tick
    <3> QED
      BY <1>5, <3>1, <3>2, <3>3 DEF DumpGrows
  <2>3. CASE UNCHANGED backups
    <3>1. BackupInductive' /\ DaysInOrder' /\ UNCHANGED dumper
      BY <1>1, <1>2, <2>3, BackupStays
    <3>2. \A k \in Launches : dumper'[k].does # "idle" => Runs(k)
      BY <1>4, <3>1
    <3>3. ScratchInductive'
      BY <1>1, <2>1, SweepsStay
    <3> QED
      BY <1>1, <1>2, <2>2, <3>1, <3>2, <3>3, RestInductive
  <2>4. CASE BackupMoves(l) \/ Writes(l)
    <3>1. \/ l \in Launches /\ (BackupTick(l) \/ TakeRunLock(l) \/ Mark(l))
          \/ RunNow(l) \/ Writes(l) \/ Dumped(l) \/ Prune(l)
      BY <2>4 DEF BackupMoves
    <3>2. BackupInductive' /\ DaysInOrder' /\ \A e \in Dumpers \ {l} : dumper'[e] = dumper[e]
      BY <1>1, <1>2, <1>3, <3>1, DutyKeeps
    <3>3. \A k \in Launches : dumper'[k].does # "idle" => Runs(k)
      BY <1>1, <1>4, <3>2, SchedulersAreChildren DEF Dumpers
    <3>4. ScratchInductive'
      BY <1>1, <2>1, SweepsStay
    <3> QED
      BY <1>1, <1>2, <2>2, <3>2, <3>3, <3>4, RestInductive
  <2> QED
    BY <1>5, <2>3, <2>4 DEF Tick, DumpGrows
<1>6. CASE Sweep(l) \/ Tokens(l)
  <2>1. /\ UNCHANGED backups
        /\ SweepScratch(l) \/ SweepTokens(l) \/ UNCHANGED scratch
        /\ pass' = [pass EXCEPT ![l] = "tokens"] \/ pass' = [pass EXCEPT ![l] = "backup"]
    BY <1>6 DEF Sweep, Tokens
  <2>2. pass' \in [Launches -> {"backup", "sweep", "tokens"}]
    BY <1>1, <2>1
  <2>3. ScratchInductive'
    BY <1>1, <2>1, SweepKeeps, SweepsStay
  <2>4. BackupInductive' /\ DaysInOrder' /\ UNCHANGED dumper
    BY <1>1, <1>2, <2>1, BackupStays
  <2>5. \A k \in Launches : dumper'[k].does # "idle" => Runs(k)
    BY <1>4, <2>4
  <2> QED
    BY <1>1, <1>2, <2>2, <2>3, <2>4, <2>5, RestInductive
<1> QED
  BY <1>5, <1>6 DEF Duty

\* Admins, settings, the time, users and requests.
LEMMA OthersInductive ==
  ASSUME Inductive, AdminStep \/ Settings \/ Passes \/ Users \/ Serves \/ UNCHANGED vars
  PROVE  Inductive'
<1>1. /\ SuiteInductive /\ BackupInductive /\ ScratchInductive /\ AccessInductive /\ SchedulersRun /\ DaysInOrder
      /\ pass \in [Launches -> {"backup", "sweep", "tokens"}]
      /\ UNCHANGED suite /\ UNCHANGED pass
  BY DEF Inductive, TypeOK, AdminStep, Settings, Passes, Users, Serves, vars
<1>2. UNCHANGED missed /\ missed \subseteq missed' /\ pass' \in [Launches -> {"backup", "sweep", "tokens"}]
  BY <1>1, SuiteStays
<1>3. \A k \in Launches : dumper[k].does # "idle" => Runs(k)
  BY <1>1 DEF SchedulersRun
<1>4. AccessInductive'
  <2>1. CASE Serves
    BY <1>1, <2>1, ServerConstants, AccessKeeps DEF Serves
  <2>2. CASE UNCHANGED serving
    BY <1>1, <2>2, AccessStays
  <2> QED
    BY <2>1, <2>2 DEF AdminStep, Settings, Passes, Users, vars
<1>5. ScratchInductive'
  <2>1. CASE Users
    BY <1>1, <2>1, UserKeeps DEF Users
  <2>2. CASE UNCHANGED scratch
    BY <1>1, <2>2, SweepsStay
  <2>3. CASE PutRetention
    BY <1>1, <2>3, RetentionKeeps
  <2> QED
    BY <2>1, <2>2, <2>3 DEF AdminStep, Settings, Passes, Serves, vars
<1>6. BackupInductive' /\ DaysInOrder' /\ \A k \in Launches : dumper'[k] = dumper[k]
  <2>1. ASSUME NEW a \in RunNows, AdminBackup(a)
        PROVE  BackupInductive' /\ DaysInOrder' /\ \A k \in Launches : dumper'[k] = dumper[k]
    <3>1. a \in Dumpers /\ a \notin Launches /\ Launches \subseteq Dumpers
      BY SchedulersAreChildren, BackupConstants DEF Dumpers
    <3>2. RunNow(a) \/ Writes(a) \/ Dumped(a) \/ Prune(a)
      BY <2>1 DEF AdminBackup
    <3>3. BackupInductive' /\ DaysInOrder' /\ \A e \in Dumpers \ {a} : dumper'[e] = dumper[e]
      BY <1>1, <1>2, <3>1, <3>2, DutyKeeps
    <3> QED
      BY <3>1, <3>3
  <2>2. CASE (Settings /\ PutBackupSettings) \/ Passes
    BY <1>1, <1>2, <2>2, MinuteKeeps DEF Passes
  <2>3. CASE UNCHANGED backups
    BY <1>1, <1>2, <2>3, BackupStays
  <2> QED
    BY <2>1, <2>2, <2>3 DEF AdminStep, Settings, Users, Serves, vars
<1> QED
  BY <1>1, <1>2, <1>3, <1>4, <1>5, <1>6, RestInductive

\* The inductive invariant of the server, for any launches, crashes, uploads and requests.
THEOREM InvariantHolds == Spec => []Inductive
<1>1. Inductive /\ [Next]_vars => Inductive'
  BY SuiteStepInductive, DutyInductive, OthersInductive DEF Next
<1> QED
  BY InitInductive, <1>1, PTL DEF Spec

-----------------------------------------------------------------------------
(* The properties. *)

\* The state is well formed, the pid file names the supervisor that runs, no lock
\* of the rate limit outlives its request, and there is an admin.
THEOREM Consistent == Spec => []StateIsConsistent
<1>1. Inductive => StateIsConsistent
  BY AccessHolds DEF Inductive, SuiteInductive, StateIsConsistent
<1> QED
  BY InvariantHolds, <1>1, PTL

\* Whatever windows are opened and closed there is one scheduler, a second one only
\* after an orphan that a launch could not have seen.
THEOREM Single == Spec => []OneScheduler
<1>1. Inductive => OneScheduler
  BY DEF Inductive, SuiteInductive
<1> QED
  BY InvariantHolds, <1>1, PTL

\* One backup is started for each day, the last good one stays on disk, and neither
\* the rows of a report nor a preview are swept while they are needed.
THEOREM Duties == Spec => []DutiesKeepWhatIsNeeded
<1>1. Inductive => DutiesKeepWhatIsNeeded
  <2> SUFFICES ASSUME Inductive
               PROVE  DutiesKeepWhatIsNeeded
    OBVIOUS
  <2>1. missed = {} => OneBackupADay
    BY DEF Inductive, DaysInOrder, OneBackupADay
  <2>2. GoodBackupKept /\ ReportFindsRows
    BY DEF Inductive, BackupInductive, ScratchInductive
  <2>3. PreviewKept
    <3>1. \A p \in Previews : made[p] # Absent /\ now <= made[p] + PreviewKeep => file[p] = made[p]
      BY DEF Inductive, ScratchInductive, PreviewsAreDated
    <3> QED
      BY <3>1 DEF PreviewKept, There
  <2> QED
    BY <2>1, <2>2, <2>3 DEF DutiesKeepWhatIsNeeded, FilesAreKept
<1> QED
  BY InvariantHolds, <1>1, PTL

\* Whoever logs in is within the limits, the browser's session is of its password
\* and gone after a logout, and a link changes the password once.
THEOREM Right == Spec => []AccessRight
<1>1. Inductive => AccessRight
  BY AccessHolds DEF Inductive, AccessRight
<1> QED
  BY InvariantHolds, <1>1, PTL
=============================================================================
