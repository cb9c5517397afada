------------------------------- MODULE Backup -------------------------------
(***************************************************************************)
(* The database backups: _tick of backend/app/scheduler.py, in the loop of *)
(* the scheduler process, the admin's settings and run-now of              *)
(* backend/app/routers/system_admin_routes.py, and backend/app/backup.py.  *)
(*                                                                         *)
(* The loop compares the minute with the configured one.  A file lock and  *)
(* a file with the date of the last run keep it to one backup a day; the   *)
(* admin's run-now asks neither.                                           *)
(***************************************************************************)
EXTENDS Integers, FiniteSets

CONSTANTS
  Schedulers,  \* scheduler processes
  RunNows,     \* admins' requests for a backup
  DayMinutes,  \* minutes of a day
  MaxBackups,  \* the most that max_backups is set to
  Nobody,
  MaxMinute    \* bound

Dumpers == Schedulers \cup RunNows

Times == 0..DayMinutes - 1
Days == 0..(MaxMinute \div DayMinutes)

\* _validate_max_backups; distinct names.
ASSUME BackupConstants ==
  /\ DayMinutes \in Nat \ {0} /\ MaxBackups \in Nat \ {0} /\ MaxMinute \in Nat
  /\ Schedulers \cap RunNows = {} /\ Nobody \notin Dumpers \cup Times

VARIABLES
  minute,
  backupAt,   \* backup_time, as a minute of the day; Nobody when not enabled
  lastRun,    \* the day in backup-last-run.txt
  runLock,    \* who holds backup-scheduler.lock
  dumper,     \* what each of them is doing, and the day it is doing it for
  dumps,      \* the files of BACKUP_DIR; age is how many of them were written to later
  begun,      \* how many scheduled backups were started for each day
  crossed,    \* was a backup ever made beside another one?
  succeeded   \* has a backup ever succeeded?

backups == <<minute, backupAt, lastRun, runLock, dumper, dumps, begun, crossed, succeeded>>

Today == minute \div DayMinutes

BackupInit(asked, times) ==
  /\ minute = 0
  /\ backupAt \in times
  /\ lastRun = -1
  /\ runLock = Nobody
  /\ dumper = [d \in Dumpers |-> [does |-> IF d \in RunNows \ asked THEN "over" ELSE "idle", day |-> 0]]
  /\ dumps = {}
  /\ begun = [d \in Days |-> 0]
  /\ crossed = FALSE
  /\ succeeded = FALSE

Does(d, what) == dumper' = [dumper EXCEPT ![d].does = what]
Doing(d, what) == dumper[d].does = what

\* What follows when its work is over: the lock of a scheduler is let go.
Done(d) ==
  /\ dumper' = [dumper EXCEPT ![d] = [does |-> IF d \in Schedulers THEN "idle" ELSE "over", day |-> 0]]
  /\ runLock' = IF runLock = d THEN Nobody ELSE runLock

Minute ==
  /\ minute < MaxMinute
  /\ minute' = minute + 1
  /\ UNCHANGED <<backupAt, lastRun, runLock, dumper, dumps, begun, crossed, succeeded>>

\* put_backup_settings: whether and when.  Scratch has its PutRetention, and
\* Prune its number of files.
PutBackupSettings ==
  /\ backupAt' \in (Times \cup {Nobody}) \ {backupAt}
  /\ UNCHANGED <<minute, lastRun, runLock, dumper, dumps, begun, crossed, succeeded>>

\* The settings and the time are read first,
BackupTick(s) ==
  /\ Doing(s, "idle") /\ backupAt # Nobody /\ minute % DayMinutes = backupAt
  /\ dumper' = [dumper EXCEPT ![s] = [does |-> "due", day |-> Today]]
  /\ UNCHANGED <<minute, backupAt, lastRun, runLock, dumps, begun, crossed, succeeded>>

\* then the lock is taken, unless somebody has it.
TakeRunLock(s) ==
  /\ Doing(s, "due")
  /\ IF runLock = Nobody THEN runLock' = s /\ Does(s, "locked") ELSE Done(s)
  /\ UNCHANGED <<minute, backupAt, lastRun, dumps, begun, crossed, succeeded>>

\* The files that stay, and one that is written to.
Aged(files) == {[f EXCEPT !.age = Cardinality({g \in files : g.age < f.age})] : f \in files}
Newest(d, state, files) ==
  {[by |-> d, state |-> state, age |-> 0]} \cup {[f EXCEPT !.age = f.age + 1] : f \in files}

\* The file of a backup is there from the beginning.
Begins(d) ==
  /\ dumps' = Newest(d, "open", dumps)
  /\ crossed' = (crossed \/ \E x \in Dumpers : dumper[x].does \in {"dumping", "pruning"})

\* Mutant of Mark: the day is noted once the backup is over, which a stop of
\* the process prevents.
Mark_Late(s) ==
  /\ Doing(s, "locked")
  /\ IF lastRun = dumper[s].day
     THEN Done(s) /\ UNCHANGED <<dumps, begun, crossed>>
     ELSE Does(s, "dumping") /\ begun' = [begun EXCEPT ![dumper[s].day] = @ + 1] /\ Begins(s) /\ UNCHANGED runLock
  /\ UNCHANGED <<minute, backupAt, lastRun, succeeded>>

\* The day is written before the backup is made.
Mark(s) ==
  /\ Doing(s, "locked")
  /\ IF lastRun = dumper[s].day
     THEN Done(s) /\ UNCHANGED <<lastRun, dumps, begun, crossed>>
     ELSE /\ lastRun' = dumper[s].day
          /\ Does(s, "dumping") /\ begun' = [begun EXCEPT ![dumper[s].day] = @ + 1] /\ Begins(s)
          /\ UNCHANGED runLock
  /\ UNCHANGED <<minute, backupAt, succeeded>>

RunNow(a) ==
  /\ a \in RunNows /\ Doing(a, "idle")
  /\ Does(a, "dumping") /\ Begins(a)
  /\ UNCHANGED <<minute, backupAt, lastRun, runLock, begun, succeeded>>

Without(d) == Aged({f \in dumps : ~(f.by = d /\ f.state = "open")})

\* mysqldump writes on.
Writes(d) ==
  /\ Doing(d, "dumping")
  /\ dumps' = Newest(d, "open", Without(d))
  /\ UNCHANGED <<minute, backupAt, lastRun, runLock, dumper, begun, crossed, succeeded>>

\* Mutant of Dumped: what a failed dump has written is kept, and counts.
Dumped_KeepsRest(d) ==
  /\ Doing(d, "dumping")
  /\ \E whole \in BOOLEAN :
       /\ dumps' = Newest(d, IF whole THEN "whole" ELSE "rest", Without(d))
       /\ succeeded' = (succeeded \/ whole)
  /\ Does(d, "pruning")
  /\ UNCHANGED <<minute, backupAt, lastRun, runLock, begun, crossed>>

\* run_backup returns; after a failure its file is removed, and nothing is pruned.
Dumped(d) ==
  /\ Doing(d, "dumping")
  /\ \/ /\ dumps' = Newest(d, "whole", Without(d))
        /\ succeeded' = TRUE
        /\ Does(d, "pruning") /\ UNCHANGED runLock
     \/ dumps' = Without(d) /\ Done(d) /\ UNCHANGED succeeded
  /\ UNCHANGED <<minute, backupAt, lastRun, begun, crossed>>

\* _prune_old_backups: the oldest files go, whole or not, but for those that
\* are open.  kept is max_backups as it was set when the backup was asked for.
Prune(d) ==
  /\ Doing(d, "pruning")
  /\ \E kept \in 1..MaxBackups : dumps' = Aged({f \in dumps : f.age < kept \/ f.state = "open"})
  /\ Done(d)
  /\ UNCHANGED <<minute, backupAt, lastRun, begun, crossed, succeeded>>

BackupMoves(s) == BackupTick(s) \/ TakeRunLock(s) \/ Mark(s) \/ Dumped(s) \/ Prune(s)
AdminBackup(a) == RunNow(a) \/ Writes(a) \/ Dumped(a) \/ Prune(a)

\* The scheduler processes in gone end: what they had written stays, and the
\* system lets go of their lock.
Stopped(gone) ==
  /\ dumper' = [d \in Dumpers |-> IF d \in gone THEN [does |-> "idle", day |-> 0] ELSE dumper[d]]
  /\ runLock' = IF runLock \in gone THEN Nobody ELSE runLock
  /\ dumps' = {IF f.by \in gone /\ f.state = "open" THEN [f EXCEPT !.state = "rest"] ELSE f : f \in dumps}
  /\ UNCHANGED <<minute, backupAt, lastRun, begun, crossed, succeeded>>

-----------------------------------------------------------------------------
(* Properties. *)

BackupTypeOK ==
  /\ minute \in 0..MaxMinute
  /\ backupAt \in Times \cup {Nobody}
  /\ lastRun \in Days \cup {-1}
  /\ runLock \in Schedulers \cup {Nobody}
  /\ dumper \in [Dumpers -> [does: {"idle", "due", "locked", "dumping", "pruning", "over"}, day: Days]]
  /\ dumps \subseteq [by: Dumpers, state: {"open", "whole", "rest"}, age: Nat] /\ IsFiniteSet(dumps)
  /\ begun \in [Days -> Nat]
  /\ crossed \in BOOLEAN /\ succeeded \in BOOLEAN

\* One scheduled backup a day, whatever dies in the middle of one and starts
\* again in the same minute, and whatever time the admin sets that day.
OneBackupADay == \A d \in Days : begun[d] <= 1

\* From the first success on there is a complete backup on disk: neither a
\* failure, nor what a stop left behind, pushes the last good one out, unless
\* two backups were made at once.
GoodBackupKept == succeeded /\ ~crossed => \E f \in dumps : f.state = "whole"

\* What holds in between, unless two backups were made at once: there is one
\* that is being made, and when it is complete its file is the newest.
OneAtATime ==
  ~crossed => \A d, e \in Dumpers :
    dumper[d].does \in {"dumping", "pruning"} /\ dumper[e].does \in {"dumping", "pruning"} => d = e
NewestIsWhole ==
  ~crossed => \A d \in Dumpers : Doing(d, "pruning") => \E f \in dumps : f.state = "whole" /\ f.age = 0

BackupInductive == BackupTypeOK /\ OneAtATime /\ NewestIsWhole /\ GoodBackupKept
=============================================================================
