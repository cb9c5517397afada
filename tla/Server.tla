-------------------------------- MODULE Server --------------------------------
(***************************************************************************)
(* The suite with its processes: Suite starts, restarts and kills the      *)
(* process whose loop makes the backups of Backup and the sweeps of        *)
(* Scratch (_loop of backend/app/scheduler.py), beside the API's, which    *)
(* serve the requests of Access.                                           *)
(*                                                                         *)
(* The loop does its duties one after the other; each pass begins with the *)
(* backup, which may take half an hour, and an exception in one duty does  *)
(* not keep it from the next.                                              *)
(***************************************************************************)
EXTENDS Suite, Backup, Scratch, Access

CONSTANT Scenarios  \* bounds: who takes part

ASSUME SchedulersAreChildren == Schedulers = Launches /\ Sweepers = Launches

VARIABLES
  pass,  \* the next duty of each scheduler process
  clocks  \* bound: does the time of Backup pass, that of Scratch, or that of Access, and is the retention changed?

ASSUME ServerConstants ==
  /\ AccessConstants
  /\ \A x \in Scenarios :
       /\ x.team \subseteq Launches /\ x.crashes \in Nat
       /\ x.asked \subseteq RunNows /\ x.times \subseteq Times \cup {Nobody} /\ x.keeps \subseteq Keeps

vars == <<suite, backups, scratch, pass, clocks, serving>>

Init ==
  \E x \in Scenarios :
    /\ SuiteInit(x.team, x.crashes)
    /\ BackupInit(x.asked, x.times)
    /\ ScratchInit(x.uploads, x.reports, x.previews, x.keeps)
    /\ pass = [l \in Launches |-> "backup"]
    /\ clocks = x.clocks
    /\ AccessInit(x.requests)
    /\ x.team = {} => jobObject

Runs(l) == child[l]["scheduler"] = "alive"

\* Whatever ends a scheduler process ends its part in everything.
SuiteStep ==
  /\ SuiteNext
  /\ LET gone == {l \in Launches : Runs(l) /\ child'[l]["scheduler"] # "alive"} IN
     IF gone = {}
     THEN UNCHANGED <<backups, scratch, pass>>
     ELSE /\ Stopped(gone) /\ SweepersStopped(gone)
          /\ pass' = [l \in Launches |-> IF l \in gone THEN "backup" ELSE pass[l]]
  /\ UNCHANGED <<clocks, serving>>

\* One _tick in each pass: the backup with all it does, or nothing, when the
\* minute is another one or something raises.
Tick(l) ==
  /\ Runs(l) /\ pass[l] = "backup"
  /\ \/ BackupMoves(l) /\ pass' = [pass EXCEPT ![l] = IF dumper'[l].does = "idle" THEN "sweep" ELSE @]
     \/ Doing(l, "idle") /\ pass' = [pass EXCEPT ![l] = "sweep"] /\ UNCHANGED backups
  /\ UNCHANGED <<suite, scratch, clocks, serving>>

DumpGrows(l) ==
  /\ Runs(l) /\ Writes(l)
  /\ UNCHANGED <<suite, scratch, pass, clocks, serving>>

\* The interval may not be over yet.
Sweep(l) ==
  /\ Runs(l) /\ pass[l] = "sweep"
  /\ IF now - lastSweep[l] >= SweepEvery THEN SweepScratch(l) ELSE UNCHANGED scratch
  /\ pass' = [pass EXCEPT ![l] = "tokens"]
  /\ UNCHANGED <<suite, backups, clocks, serving>>

\* The rest of the pass, which ends with its sleep, is the monitors' enqueues.
Tokens(l) ==
  /\ Runs(l) /\ pass[l] = "tokens"
  /\ IF Expired # {} THEN SweepTokens(l) ELSE UNCHANGED scratch
  /\ pass' = [pass EXCEPT ![l] = "backup"]
  /\ UNCHANGED <<suite, backups, clocks, serving>>

Duty(l) == Tick(l) \/ Sweep(l) \/ Tokens(l)

AdminStep ==
  /\ \E a \in RunNows : AdminBackup(a)
  /\ UNCHANGED <<suite, scratch, pass, clocks, serving>>

Settings ==
  /\ \/ "minutes" \in clocks /\ PutBackupSettings /\ UNCHANGED scratch
     \/ "retention" \in clocks /\ PutRetention /\ UNCHANGED backups
  /\ UNCHANGED <<suite, pass, clocks, serving>>

Passes ==
  /\ "minutes" \in clocks /\ Minute
  /\ UNCHANGED <<suite, scratch, pass, clocks, serving>>

Users ==
  /\ "files" \in clocks /\ UserStep
  /\ UNCHANGED <<suite, backups, pass, clocks, serving>>

\* Requests, which any API process may serve.
Serves ==
  /\ "requests" \in clocks /\ AccessNext
  /\ UNCHANGED <<suite, backups, scratch, pass, clocks>>

Next ==
  \/ SuiteStep
  \/ \E l \in Launches : Duty(l) \/ DumpGrows(l)
  \/ AdminStep \/ Settings \/ Passes \/ Users \/ Serves

Spec == Init /\ [][Next]_vars

-----------------------------------------------------------------------------
(* Properties. *)

TypeOK ==
  /\ SuiteTypeOK /\ BackupTypeOK /\ ScratchTypeOK
  /\ pass \in [Launches -> {"backup", "sweep", "tokens"}]

\* The state is well formed, and the pid file names the supervisor that runs, but
\* for the two moments of PidIsOwner; no lock of the rate limit outlives its
\* request, and there is an admin.
StateIsConsistent == TypeOK /\ PidIsOwner /\ AccessIsConsistent

\* The sweeps leave what is still needed.
FilesAreKept == ReportFindsRows /\ PreviewKept

\* The duties of the one scheduler are done once, and neither pruning nor a sweep
\* takes what is needed: the last good backup, the rows of a report, a preview.
DutiesKeepWhatIsNeeded == (missed = {} => OneBackupADay) /\ GoodBackupKept /\ FilesAreKept

\* What holds in between: only a scheduler that runs does its duties, and while
\* there is one scheduler the days come in order.
SchedulersRun == \A l \in Launches : dumper[l].does # "idle" => Runs(l)
DaysInOrder ==
  /\ lastRun <= Today
  /\ \A l \in Launches :
       dumper[l].does \in {"due", "locked"} => dumper[l].day <= Today /\ (missed = {} => lastRun <= dumper[l].day)
  /\ missed = {} => \A d \in Days : begun[d] = 0 \/ (begun[d] = 1 /\ d <= lastRun)

Inductive ==
  /\ TypeOK /\ SuiteInductive /\ BackupInductive /\ ScratchInductive /\ AccessInductive
  /\ SchedulersRun /\ DaysInOrder
=============================================================================
