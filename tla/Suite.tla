-------------------------------- MODULE Suite --------------------------------
(***************************************************************************)
(* Starting and stopping the suite: start_all.bat runs                     *)
(* backend/app/startup_cleanup.py and then backend/app/supervisor.py,      *)
(* which keeps the API, the workers and the one scheduler alive.           *)
(*                                                                         *)
(* Several windows may be opened, and closed, at any time.  They meet in   *)
(* the supervisor's file lock, the stop file and the pid file, and in the  *)
(* list of processes, by which a cleanup finds and kills what is left.     *)
(***************************************************************************)
EXTENDS Integers, FiniteSets

CONSTANTS
  Launches,  \* runs of start_all.bat
  Roles,     \* the supervisor's children, and what they start themselves
  Forked,    \* those they start: the workers of uvicorn
  None

ASSUME SuiteConstants == "scheduler" \in Roles \ Forked /\ None \notin Launches

VARIABLES
  launch,    \* how far each run of start_all.bat is, and the supervisors its cleanup found
  child,     \* the processes of each supervisor
  lock,      \* who holds suite-supervisor.lock
  stopFile,  \* is there a STOP_FILE?
  pidFile,   \* whose pid is in PID_FILE
  jobObject, \* did Windows grant the Job Object that kills the children with the supervisor?
  cleaned,   \* the supervisors whose pid a cleanup has removed, or who wrote it when another was about to remove it
  missed,    \* those who were past their cleanup when a supervisor left orphans behind
  faults     \* how many crashes there may still be

suite == <<launch, child, lock, stopFile, pidFile, jobObject, cleaned, missed, faults>>

Supervising == {"lock", "own", "spawn", "watch", "stop", "release", "unlink", "drop"}
Stages == {"none", "ask", "wait", "reap", "check", "clear", "over"} \cup Supervising
Statuses == {"none", "alive", "exited", "crashed"}

SuiteInit(team, crashes) ==
  /\ launch = [l \in Launches |-> [pc |-> IF l \in team THEN "none" ELSE "over", found |-> {}]]
  /\ child = [l \in Launches |-> [r \in Roles |-> "none"]]
  /\ lock = None
  /\ stopFile = FALSE
  /\ pidFile = None
  /\ jobObject \in BOOLEAN
  /\ cleaned = {}
  /\ missed = {}
  /\ faults = crashes

Stage(l, pc) == launch[l].pc = pc
Supervisors == {l \in Launches : launch[l].pc \in Supervising}
AliveOf(l) == {r \in Roles : child[l][r] = "alive"}

GoesTo(l, pc) == launch' = [launch EXCEPT ![l].pc = pc]
Killed(rows, roles) == [r \in Roles |-> IF r \in roles /\ rows[r] = "alive" THEN "crashed" ELSE rows[r]]

\* The end of the supervisors in gone, with the processes in their trees or not.
Kill(gone, trees) ==
  /\ child' = [l \in Launches |-> IF l \in trees THEN Killed(child[l], Roles) ELSE child[l]]
  /\ lock' = IF lock \in gone THEN None ELSE lock

-----------------------------------------------------------------------------
(* cleanup_previous_suite.  It lists the supervisors, *)

Look(l) ==
  /\ Stage(l, "none")
  /\ launch' = [launch EXCEPT ![l] = [pc |-> IF Supervisors = {} THEN "reap" ELSE "ask", found |-> Supervisors]]
  /\ UNCHANGED <<child, lock, stopFile, pidFile, jobObject, cleaned, missed, faults>>

\* asks them to stop,
Ask(l) ==
  /\ Stage(l, "ask")
  /\ stopFile' = TRUE
  /\ GoesTo(l, "wait")
  /\ UNCHANGED <<child, lock, pidFile, jobObject, cleaned, missed, faults>>

\* waits for some seconds, and kills those who are still there.
Waited(l) ==
  LET left == launch[l].found \cap Supervisors IN
  /\ Stage(l, "wait")
  /\ Kill(left, left)
  /\ launch' = [k \in Launches |->
       IF k = l THEN [pc |-> "reap", found |-> {}] ELSE IF k \in left THEN [launch[k] EXCEPT !.pc = "over"] ELSE launch[k]]
  /\ UNCHANGED <<stopFile, pidFile, jobObject, cleaned, missed, faults>>

\* Whatever process of the suite there is now goes too,
Reap(l) ==
  /\ Stage(l, "reap")
  /\ Kill(Supervisors, Launches)
  /\ launch' = [k \in Launches |->
       IF k = l THEN [launch[l] EXCEPT !.pc = "check"]
       ELSE IF k \in Supervisors THEN [launch[k] EXCEPT !.pc = "over"] ELSE launch[k]]
  /\ UNCHANGED <<stopFile, pidFile, jobObject, cleaned, missed, faults>>

Remaining == Supervisors # {} \/ \E k \in Launches : AliveOf(k) # {}

\* and there must be none, or this launch gives up after its time-out.
Check(l) ==
  /\ Stage(l, "check")
  /\ GoesTo(l, IF Remaining THEN "over" ELSE "clear")
  /\ UNCHANGED <<child, lock, stopFile, pidFile, jobObject, cleaned, missed, faults>>

Clear(l) ==
  /\ Stage(l, "clear")
  /\ stopFile' = FALSE /\ pidFile' = None
  /\ cleaned' = cleaned \cup Supervisors
  /\ GoesTo(l, "lock")
  /\ UNCHANGED <<child, lock, jobObject, missed, faults>>

-----------------------------------------------------------------------------
(* supervisor.main *)

\* Another supervisor is running: exit code 2.
Lock(l) ==
  /\ Stage(l, "lock")
  /\ IF lock = None THEN lock' = l /\ GoesTo(l, "own") ELSE GoesTo(l, "over") /\ UNCHANGED lock
  /\ UNCHANGED <<child, stopFile, pidFile, jobObject, cleaned, missed, faults>>

\* The stop file and the pid file, which a supervisor that leaves may just have
\* found to be its own, and app.initialize, which may fail.
Own(l) ==
  /\ Stage(l, "own")
  /\ stopFile' = FALSE /\ pidFile' = l
  /\ cleaned' = IF \E k \in Launches : Stage(k, "drop") THEN cleaned \cup {l} ELSE cleaned \ {l}
  /\ \/ GoesTo(l, "spawn") /\ UNCHANGED faults
     \/ GoesTo(l, "stop") /\ faults > 0 /\ faults' = faults - 1
  /\ UNCHANGED <<child, lock, jobObject, missed>>

Spawn(l) ==
  /\ Stage(l, "spawn")
  /\ \E r \in Roles : child[l][r] = "none" /\ child' = [child EXCEPT ![l][r] = "alive"]
  /\ IF Cardinality({r \in Roles : child[l][r] = "none"}) = 1 THEN GoesTo(l, "watch") ELSE UNCHANGED launch
  /\ UNCHANGED <<lock, stopFile, pidFile, jobObject, cleaned, missed, faults>>

\* Every child that is not there any more is started again.
Respawn(l) ==
  /\ Stage(l, "watch")
  /\ \E r \in Roles : child[l][r] \in {"exited", "crashed"} /\ child' = [child EXCEPT ![l][r] = "alive"]
  /\ UNCHANGED <<launch, lock, stopFile, pidFile, jobObject, cleaned, missed, faults>>

SeesStop(l) ==
  /\ Stage(l, "watch") /\ stopFile
  /\ GoesTo(l, "stop")
  /\ UNCHANGED <<child, lock, stopFile, pidFile, jobObject, cleaned, missed, faults>>

Interrupt(l) ==
  /\ launch[l].pc \in {"spawn", "watch"} /\ faults > 0
  /\ GoesTo(l, "stop") /\ faults' = faults - 1
  /\ UNCHANGED <<child, lock, stopFile, pidFile, jobObject, cleaned, missed>>

\* Mutant of Terminate: the lock is let go first.
Terminate_AfterLock(l) ==
  /\ Stage(l, "stop")
  /\ lock' = None
  /\ GoesTo(l, "release")
  /\ UNCHANGED <<child, stopFile, pidFile, jobObject, cleaned, missed, faults>>

\* The finally clause: its own children end before the lock is let go,
Terminate(l) ==
  /\ Stage(l, "stop")
  /\ child' = [child EXCEPT ![l] = Killed(@, Roles \ Forked)]
  /\ GoesTo(l, "release")
  /\ UNCHANGED <<lock, stopFile, pidFile, jobObject, cleaned, missed, faults>>

Release(l) ==
  /\ Stage(l, "release")
  /\ lock' = IF lock = l THEN None ELSE lock
  /\ GoesTo(l, "unlink")
  /\ UNCHANGED <<child, stopFile, pidFile, jobObject, cleaned, missed, faults>>

\* With the supervisor itself, what it had started goes.
Leaves(l) ==
  /\ child' = IF jobObject THEN [child EXCEPT ![l] = Killed(@, Roles)] ELSE child
  /\ GoesTo(l, "over")

\* Mutant of Unlink: the pid file goes, whoever has written it.
Unlink_AnyPid(l) ==
  /\ Stage(l, "unlink")
  /\ stopFile' = FALSE
  /\ GoesTo(l, "drop")
  /\ UNCHANGED <<child, lock, pidFile, jobObject, cleaned, missed, faults>>

\* The lock is free.  It removes the stop file, and reads whose the pid file is:
Unlink(l) ==
  /\ Stage(l, "unlink")
  /\ stopFile' = FALSE
  /\ IF pidFile = l THEN GoesTo(l, "drop") /\ UNCHANGED child ELSE Leaves(l)
  /\ UNCHANGED <<lock, pidFile, jobObject, cleaned, missed, faults>>

\* if it was its own, the file goes, which by now may be the next supervisor's.
Drop(l) ==
  /\ Stage(l, "drop")
  /\ pidFile' = None
  /\ Leaves(l)
  /\ UNCHANGED <<lock, stopFile, jobObject, cleaned, missed, faults>>

\* The window is closed, or the process is killed.
Crash(l) ==
  /\ l \in Supervisors /\ faults > 0
  /\ Kill({l}, IF jobObject THEN {l} ELSE {})
  /\ missed' = IF jobObject THEN missed ELSE missed \cup {k \in Launches \ {l} : launch[k].pc \in Supervising \cup {"clear"}}
  /\ GoesTo(l, "over") /\ faults' = faults - 1
  /\ UNCHANGED <<stopFile, pidFile, jobObject, cleaned>>

ChildEnds(l, r) ==
  /\ child[l][r] = "alive" /\ faults > 0
  /\ \E how \in {"exited", "crashed"} : child' = [child EXCEPT ![l][r] = how]
  /\ faults' = faults - 1
  /\ UNCHANGED <<launch, lock, stopFile, pidFile, jobObject, cleaned, missed>>

CleanupStep(l) == Look(l) \/ Ask(l) \/ Waited(l) \/ Reap(l) \/ Check(l) \/ Clear(l)
SupervisorStep(l) ==
  Lock(l) \/ Own(l) \/ Spawn(l) \/ Respawn(l) \/ SeesStop(l) \/ Terminate(l) \/ Release(l) \/ Unlink(l) \/ Drop(l)

SuiteNext ==
  \E l \in Launches :
    CleanupStep(l) \/ SupervisorStep(l) \/ Interrupt(l) \/ Crash(l) \/ \E r \in Roles : ChildEnds(l, r)

-----------------------------------------------------------------------------
(* Properties. *)

SuiteTypeOK ==
  /\ launch \in [Launches -> [pc: Stages, found: SUBSET Launches]]
  /\ child \in [Launches -> [Roles -> Statuses]]
  /\ lock \in Launches \cup {None}
  /\ stopFile \in BOOLEAN
  /\ pidFile \in Launches \cup {None}
  /\ jobObject \in BOOLEAN
  /\ cleaned \subseteq Launches /\ missed \subseteq Launches
  /\ faults \in Nat

\* There is one scheduler, whatever windows are opened and closed: a second one
\* only if Windows refused the Job Object and a supervisor died after the other
\* launch had made sure that nothing was left.
OneScheduler ==
  \A l, k \in Launches :
    l # k /\ child[l]["scheduler"] = "alive" /\ child[k]["scheduler"] = "alive"
    => l \in missed \/ k \in missed

\* A supervisor at work is the one in the pid file, unless a cleanup that saw
\* nothing a moment earlier has removed it, or it wrote the file between the two
\* steps in which one that was leaving compares the file and removes it.  One
\* that leaves later takes only its own.
PidIsOwner == \A l \in Launches : launch[l].pc \in {"spawn", "watch"} => pidFile = l \/ l \in cleaned

\* What holds in between: the supervisor with the lock is the one between taking
\* it and letting it go; it leaves without a scheduler; one about to remove the pid
\* file was alone with it, or the next one is known; and whoever is past the
\* cleanup while another's scheduler runs without its supervisor has missed it.
Holding == {"own", "spawn", "watch", "stop", "release"}
LockIsHeld == \A l \in Launches : lock = l <=> launch[l].pc \in Holding
LeavesAlone == \A l \in Launches : launch[l].pc \in {"release", "unlink", "drop"} => child[l]["scheduler"] # "alive"
DropsOwn ==
  \A k, l \in Launches : Stage(k, "drop") /\ launch[l].pc \in {"spawn", "watch"} => l \in cleaned
OrphansAreMissed ==
  \A l, k \in Launches :
    l # k /\ child[l]["scheduler"] = "alive" /\ lock # l /\ launch[k].pc \in Supervising \cup {"clear"} => k \in missed

SuiteInductive == SuiteTypeOK /\ LockIsHeld /\ LeavesAlone /\ OrphansAreMissed /\ OneScheduler /\ DropsOwn /\ PidIsOwner
=============================================================================
