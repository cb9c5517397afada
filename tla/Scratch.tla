------------------------------- MODULE Scratch -------------------------------
(***************************************************************************)
(* The files under SCRATCH_DIR and who deletes them: the upload tokens of  *)
(* backend/app/routers/trial_balance.py, whose jobs read a file that was   *)
(* parsed by an earlier request, the previews of mails that wait for their *)
(* confirmation, and the two sweeps of backend/app/scheduler.py.           *)
(***************************************************************************)
EXTENDS Integers

CONSTANTS
  Uploads,      \* files for the Trial Balance, each with its token
  Reports,      \* requests of submit_process
  Previews,     \* directories of mails to be confirmed
  Sweepers,     \* scheduler processes
  TokenTtl,     \* _ACCOUNTS_TTL_SECONDS
  PreviewKeep,  \* _MAIL_PREVIEW_MAX_AGE_SECONDS
  SweepEvery,   \* _SCRATCH_SWEEP_INTERVAL_SECONDS
  Keeps,        \* values of scratch_cleanup_minutes
  NoUpload,
  MaxNow        \* bound

\* Numbers of seconds and of minutes; distinct names.
ASSUME ScratchConstants ==
  /\ {TokenTtl, PreviewKeep, SweepEvery, MaxNow} \subseteq Nat /\ Keeps \subseteq Nat
  /\ NoUpload \notin Uploads /\ Previews \cap (Uploads \X {"input", "parsed"}) = {}

Files == (Uploads \X {"input", "parsed"}) \cup Previews

VARIABLES
  now,
  keep,      \* scratch_cleanup_minutes, and the least that it ever was
  file,      \* for each file or directory when it was written; -1: it is not there
  token,     \* trial_balance_upload_tokens; stored: when the rows were written
  report,    \* what became of each request
  made,      \* when each preview was made
  lastSweep  \* _last_scratch_sweep of each scheduler process

scratch == <<now, keep, file, token, report, made, lastSweep>>

Absent == -1
Token == [state: {"none", "parsing", "live", "deleted"}, expires: Int, stored: Int]
Report == [pc: {"none", "asked", "queued", "running", "done", "refused", "failed"}, of: Uploads \cup {NoUpload},
           fair: BOOLEAN]

ScratchInit(uploads, reports, previews, retentions) ==
  /\ now = 0
  /\ \E k \in retentions : keep = [set |-> k, least |-> k]
  /\ file = [f \in Files |-> Absent]
  /\ token = [u \in Uploads |-> [state |-> IF u \in uploads THEN "none" ELSE "deleted", expires |-> 0, stored |-> 0]]
  /\ report = [r \in Reports |-> [pc |-> IF r \in reports THEN "none" ELSE "refused", of |-> NoUpload, fair |-> TRUE]]
  /\ made = [p \in Previews |-> IF p \in previews THEN Absent ELSE -PreviewKeep - 2]
  /\ lastSweep = [s \in Sweepers |-> -SweepEvery]

There(f) == file[f] # Absent
Input(u) == <<u, "input">>
Parsed(u) == <<u, "parsed">>
Unlinked(files) == [f \in Files |-> IF f \in files THEN Absent ELSE file[f]]

Later ==
  /\ now < MaxNow
  /\ now' = now + 1
  /\ UNCHANGED <<keep, file, token, report, made, lastSweep>>

\* put_backup_settings
PutRetention ==
  /\ \E k \in Keeps : k # keep.set /\ keep' = [set |-> k, least |-> IF k < keep.least THEN k ELSE keep.least]
  /\ UNCHANGED <<now, file, token, report, made, lastSweep>>

-----------------------------------------------------------------------------
(* parse_accounts *)

Expired == {u \in Uploads : token[u].state = "live" /\ token[u].expires < now}
FilesOf(us) == UNION {{Input(u), Parsed(u)} : u \in us}
Deleted(us) == [u \in Uploads |-> IF u \in us THEN [token[u] EXCEPT !.state = "deleted"] ELSE token[u]]

\* The upload is saved, and its rows are parsed and written.
Upload(u) ==
  /\ token[u].state = "none"
  /\ file' = [file EXCEPT ![Input(u)] = now, ![Parsed(u)] = now]
  /\ token' = [token EXCEPT ![u].state = "parsing", ![u].stored = now]
  /\ UNCHANGED <<now, keep, report, made, lastSweep>>

\* The expired tokens of everybody go, and the new one is committed.  Or the
\* process dies, and the files are nobody's.
Stash(u) ==
  /\ token[u].state = "parsing"
  /\ \/ /\ token' = [Deleted(Expired) EXCEPT ![u].state = "live", ![u].expires = now + TokenTtl]
        /\ file' = Unlinked(FilesOf(Expired))
     \/ token' = [token EXCEPT ![u].state = "deleted"] /\ UNCHANGED file
  /\ UNCHANGED <<now, keep, report, made, lastSweep>>

-----------------------------------------------------------------------------
(* submit_process and its job *)

\* The expired tokens go first; then this one is looked for.
AskReport(r, u) ==
  /\ report[r].pc = "none" /\ token[u].state \in {"live", "deleted"}
  /\ token' = Deleted(Expired)
  /\ file' = Unlinked(FilesOf(Expired))
  /\ report' = [report EXCEPT ![r] = [@ EXCEPT !.pc = IF token'[u].state = "live" THEN "asked" ELSE "refused", !.of = u]]
  /\ UNCHANGED <<now, keep, made, lastSweep>>

\* Without its file the token is of no use.
SubmitReport(r) ==
  LET u == report[r].of IN
  /\ report[r].pc = "asked"
  /\ IF There(Parsed(u))
     THEN report' = [report EXCEPT ![r].pc = "queued"] /\ UNCHANGED token
     ELSE report' = [report EXCEPT ![r].pc = "refused"] /\ token' = Deleted({u})
  /\ UNCHANGED <<now, keep, file, made, lastSweep>>

\* Is the file one that the job could count on?
Fresh(u) == now <= token[u].expires /\ now <= token[u].stored + keep.least

\* The job opens the parsed rows when it starts.  fair: it had a right to them.
RunReport(r) ==
  /\ report[r].pc = "queued"
  /\ report' = [report EXCEPT ![r].pc = IF There(Parsed(report[r].of)) THEN "running" ELSE "failed",
                              ![r].fair = There(Parsed(report[r].of)) \/ ~Fresh(report[r].of)]
  /\ UNCHANGED <<now, keep, file, token, made, lastSweep>>

\* Mutant of EndReport: the rows go with the upload.
EndReport_Both(r) ==
  /\ report[r].pc = "running"
  /\ report' = [report EXCEPT ![r].pc = "done"]
  /\ file' = Unlinked(FilesOf({report[r].of}))
  /\ UNCHANGED <<now, keep, token, made, lastSweep>>

\* The finally clause deletes the upload; the rows are kept for another report.
EndReport(r) ==
  /\ report[r].pc = "running"
  /\ report' = [report EXCEPT ![r].pc = "done"]
  /\ file' = Unlinked({Input(report[r].of)})
  /\ UNCHANGED <<now, keep, token, made, lastSweep>>

\* A preview is generated into a directory of its own.
Preview(p) ==
  /\ made[p] = Absent
  /\ made' = [made EXCEPT ![p] = now]
  /\ file' = [file EXCEPT ![p] = now]
  /\ UNCHANGED <<now, keep, token, report, lastSweep>>

-----------------------------------------------------------------------------
(* The sweeps of the scheduler. *)

KeptFor(f) == IF f \in Previews THEN PreviewKeep ELSE keep.set

Old == {f \in Files : There(f) /\ now - file[f] > KeptFor(f)}

\* _sweep_scratch
SweepScratch(s) ==
  /\ now - lastSweep[s] >= SweepEvery
  /\ lastSweep' = [lastSweep EXCEPT ![s] = now]
  /\ file' = Unlinked(Old)
  /\ UNCHANGED <<now, keep, token, report, made>>

\* _sweep_database_runtime_state
SweepTokens(s) ==
  /\ Expired # {}
  /\ token' = Deleted(Expired)
  /\ file' = Unlinked(FilesOf(Expired))
  /\ UNCHANGED <<now, keep, report, made, lastSweep>>

\* A new scheduler process has swept nothing yet.
SweepersStopped(gone) ==
  /\ lastSweep' = [s \in Sweepers |-> IF s \in gone THEN -SweepEvery ELSE lastSweep[s]]
  /\ UNCHANGED <<now, keep, file, token, report, made>>

UserStep ==
  \/ Later
  \/ \E u \in Uploads : Upload(u) \/ Stash(u)
  \/ \E r \in Reports : SubmitReport(r) \/ RunReport(r) \/ EndReport(r)
  \/ \E r \in Reports, u \in Uploads : AskReport(r, u)
  \/ \E p \in Previews : Preview(p)

-----------------------------------------------------------------------------
(* Properties. *)

ScratchTypeOK ==
  /\ now \in 0..MaxNow
  /\ keep \in [set: Keeps, least: Keeps] /\ keep.least <= keep.set
  /\ file \in [Files -> 0..MaxNow \cup {Absent}]
  /\ token \in [Uploads -> Token]
  /\ report \in [Reports -> Report]
  /\ made \in [Previews -> Int]
  /\ lastSweep \in [Sweepers -> -SweepEvery..MaxNow]

\* A report whose job starts while the token is good and younger than any
\* retention the admin has set finds its rows, however often the upload was reported
\* before and whoever pruned in between.
ReportFindsRows == \A r \in Reports : report[r].fair

\* The attachments of a preview are there for a day, whatever the retention.
PreviewKept ==
  \A p \in Previews : made[p] # Absent /\ now <= made[p] + PreviewKeep => There(p)

\* What holds in between: the rows are as old as the token says; a report that
\* waits has a token that was committed, and its rows unless that is too old; a
\* preview is as old as it was made.
RowsAreDated == \A u \in Uploads : file[Parsed(u)] \in {token[u].stored, Absent}
RowsWait ==
  \A r \in Reports :
    /\ report[r].pc \in {"asked", "queued", "running"} =>
         report[r].of \in Uploads /\ token[report[r].of].state \in {"live", "deleted"}
    /\ report[r].pc = "queued" => There(Parsed(report[r].of)) \/ ~Fresh(report[r].of)
PreviewsAreDated == \A p \in Previews : made[p] # Absent /\ now <= made[p] + PreviewKeep => file[p] = made[p]

ScratchInductive == ScratchTypeOK /\ RowsAreDated /\ RowsWait /\ PreviewsAreDated /\ ReportFindsRows
=============================================================================
