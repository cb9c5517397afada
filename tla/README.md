# A verification development of the RDC Accounts Suite

TLA+ models of the parts of the suite where processes, browsers, the database and the clock meet:
above all the durable job queue that every report, check and mail goes through. TLC checks the models on
small instances; TLAPS proves the main invariants for every value of the constants.

## 1. The system

`supervisor.py` starts N API processes (FastAPI), M job workers and one scheduler, all on one MySQL
database. API processes enqueue work (`jobs.submit_job`), workers claim and execute it, the scheduler
enqueues checks and mails that are due and sweeps expired state. The React frontend polls jobs and tells
the API when a tab goes away. Processes share no memory: every interaction is a row.

| Component | State | Operations | Interacts with | What makes it correct |
| --- | --- | --- | --- | --- |
| Durable job queue (`jobs.py`, `worker.py`) | `background_jobs`, `background_resource_slots`, per-worker threads and events | submit, poll, cancel, abandon, claim (two sweeps, memory gate, slot), load, heartbeat, client monitor, finish | API, browser, supervisor, tasks | every job settles; a lease and its slot agree; results only of the current attempt; mail batches start once; a stop request counts; detached work ignores its tab |
| One-shot actions (`claim_job_action`, `finish_job_action`, confirm-send routers) | `background_job_actions` | claim, send, finish, prune of the job | API processes, SMTP | a confirmed mail is sent at most once; who is told "sent" is told the truth |
| Scheduled report mail (`services/scheduled_report_mail.py`) | settings row (slots, `running_since`), send log | due slots, claim of a run, build, deliver, record | scheduler, queue, SMTP | each slot is mailed once; runs do not overlap; the log is true; no run blocks the next for ever |
| IOCL balance (`services/iocl_balance/monitor.py`) | check lock, checks, notifications | check, reminder decision, deliver | scheduler, queue, portal, SMTP | one check at a time; a due alert is eventually sent; reminders are spaced |
| Invoice booking tracker (`services/invoice_booking_tracker/monitor.py`) | check lock with renewals, checks, notifications | check, renew, deliver | scheduler, queue, portal, SMTP | one mail a day; a dead check does not block the day |
| Scheduler (`scheduler.py`, `backup.py`) | last-run file, sweep times | backup tick, scratch sweep, runtime sweep, enqueue | all of the above | one backup a day; no file removed under a job that needs it |
| Supervisor (`supervisor.py`, `startup_cleanup.py`) | children, pid file, stop file, lock | spawn, restart, stop, clean up | every process | one suite at a time; dead children come back |
| Browser tab (`job-lifecycle.ts`, `tab-session.ts`, `job_control.py`) | tab id, active panels | register, settle, abandon | job queue | only the owning tab ends a job |
| Authentication and rate limits (`auth.py`, `rate_limit.py`) | signed cookie, buckets | login, idle check, reset, enforce | MySQL `GET_LOCK` | limit per window over all processes |
| Audit trail (`audit_middleware.py`) | audit rows, file | deferred write | connection pool | never blocks a request |
| Upload tokens and scratch files (`routers/trial_balance.py`, `scheduler.py`) | token rows, files | stash, process, prune | queue | a queued job finds its input |
| Mapping stores (`soft_delete.py`, `*/mapping_store.py`) | keyed rows with `is_deleted` | sync, upsert, delete, restore, seed | admin pages, processors, start-up | the live rows are what their users made of them |
| Cashflow books (`services/ultrafine_cashflow/`) | statements, lines, splits, masters, workbooks | ingest, remove, override, map, archive, generate | queue, users | a bank line counts once; its rows add up to it; archiving unplaces nothing |
| RDC payables (`services/rdc_payables/`) | six mapping tables | parse, place, filter, sum up, edit | queue, users | all rows of the document, all paise on the first sheet, a held report can be mended |
| Debtors mail (`services/debtors_mailer/`, `untagged_invoices/`, `unapplied_receipts/`, `gst_invoice_adder/`) | two maps; threads and ERP connections of a build | build, cancel, warn, mend | queue, ERP | made of whole answers only; told to stop, it ends; what has no place is listed |
| Attachments (`services/attachment_fit.py`) | none | shrink, cut, pack | mail senders | each row in one mail, each mail within the limit |
| Reports worked out from sheets (creditors ageing, the two trial balances, unaccounted transactions, orders and receipts, open invoices, unapplied receipts, GST numbers, GSTR-2B, closing period) | none (files in, files out) | read, place, age, sum up, write formulas and stored values | workers, mapping stores | every row is somewhere once; formulas and stored values agree; what has no place is told |
| Finished files (`xlsb_writer.py`, `xlsb_convert.py`, `xlsx_formula_cache.py`, `mailer_shared.py`) | none | cache formula values, convert to `.xlsb`, show in a mail | report processors, mail senders | what is written is read back as meant; numbers are Excel's |
| Region move (`services/customer_region.py`) | two mapping tables | rename once at start-up | start-up, mapping stores | no name loses its incharge |
| Mails to customers and executives (payment reminder, balance confirmation, F&SE reminder) | address tables, PDFs, send history | preview, confirm, send in a batch, cancel | queue, users, SMTP | nobody is mailed twice for a click; what was reviewed is sent; the report is true |

Hard behaviours: snapshots read by one transaction and written by another; look-ups that are cut off;
unlocked read-modify-write of heartbeats, recovery of leases while the old worker still
runs, `SKIP LOCKED` claims, worker death at any line, failed transactions, threads that outlive their
execution, lost or late abandon requests, time-outs that race answers, schedule slots marked before the
work is queued. `PROJECT.json` lists each with its line and the properties that cover it.

## 2. Modules

| Module | What it is |
| --- | --- |
| `JobLifecycle` | abstract: what a client that polls `GET /jobs/{id}` may rely on for each job |
| `JobQueue` | `jobs.py` + `worker.py` + restart loop + the tab's requests; its properties and the refinement of `JobLifecycle` |
| `JobAction` | one-shot actions on finished jobs, the endpoints that mail under them, the tabs that click |
| `MailSchedule` | when an automatic report mail is due: settings row, saving, the scheduler's pass |
| `MailRun` | how such a mail runs: claim of the run, messages, record, over the part of the queue that starts it |
| `IoclBalance` | checks of the portal's balance: lock, daily mail, reminders, outbox |
| `InvoiceTracker` | checks of the invoice queue: renewed lock, single login, mail of the day |
| `RateLimit` | the sliding window of attempts under a named lock |
| `Access` | login, cookie, reset links and admins, over `RateLimit` |
| `Suite` | launches of the suite: clean-up of the last one, supervisor, children |
| `Backup`, `Scratch` | two duties of the scheduler's loop: the database backup, the sweep of files and tokens |
| `Server` | composes `Suite`, `Backup`, `Scratch` and `Access`: who may do a duty is decided by who lives |
| `Cashflow` | ingest jobs and users over one database, with snapshots; where the money of a bank line goes, and what each mapping request writes |
| `MappingStore` | keyed rows with soft delete under requests, reports and starts |
| `Payables` | the payables report and the tables that place it |
| `DebtorsBuild` | the threads, connections and stop events of a Debtors build |
| `DebtorsMail` | rows, summaries, warnings and mending of two of its reports, and how its workbooks become mails |
| `Desk` | composes the six tool modules |
| `Formulas` | what a formula comes to: in the mail's table, in the `.xlsx` cache, in the `.xlsb`, and in Excel |
| `Xlsb` | the `.xlsb` form of a finished workbook, over `Formulas`: records, numbers, formulas, layouts, blocks of rows |
| `Ledgers` | the creditors report: reading, ageing, sheets; the trial balances: placing by location, the groups and signs of Tally's |
| `Unaccounted` | placing of transactions, orders and receipts, and the tables of the workbooks |
| `OpenItems` | invoices and receipts by age, GST numbers |
| `Combiners` | cells of a table with its total lines; GSTR-2B exports and closing reports, made one workbook |
| `BulkMail` | preview, review and batches of mails, with the plan of the executives' mails |
| `ReportRules` | composes the modules from `Formulas` to `BulkMail`: one tool and one input at a time, or one mailing; adds the move of two tables to the regions of the ERP |
| `JobQueueProofs`, `JobActionProofs`, `MailRunProofs`, `InvoiceTrackerProofs`, `IoclBalanceProofs`, `ServerProofs`, `MailScheduleProofs`, `DeskProofs` | TLAPS proofs about the module they are named after |
| `MC*` | scenarios, small data and symmetry for TLC (`MCReportFiles` holds the files and mails of `MCReportRules`) |

How they compose: `JobQueue` implements `JobLifecycle` (`ImplementsLifecycle`). `MailSchedule` ends where
`submit_job` is called (`EnqueueSubmit`), `MailRun` begins there (`Submit`) and uses of the queue what
`JobQueue` shows: attempts are bounded, a recovered job is queued or settled, a verdict of an old attempt
is dropped. `IoclBalance` and `InvoiceTracker` do the same for their checks (`Again`). `JobAction` begins
with a job that `JobQueue` has settled as `done`. `Server` lets a scheduler's step happen only in a launch
whose child `scheduler` lives (`Suite`), so that a crash or a second launch meets a backup or a sweep
anywhere. The tools of `Desk` share no table and no thread, so a behaviour of it is the work with one of
them (`tool`); what it adds is one instance and one specification for the tools. `ReportRules` is the same for
the reports that read sheets and write sheets: a run of a tool is a function of its input, so it is one step from
an input to what came of it, except the mails, whose steps are those of users, worker and SMTP. In `Server`, the
logins of `Access` take the named lock on buckets that the API processes of any launch share.

Several modules choose a *scenario* in `Init`: who takes part and how many faults, edits or requests there
may be. A scenario bounds a run, it is no state of the program.

### JobQueue and the code

*State.* `job[j]` is the row of `background_jobs` (`models.py` `BackgroundJob`): `cod` is
`cancel_on_disconnect` (with a tab id), `cancel` is `cancel_requested`, `owner`/`lease` are
`lease_owner`/`lease_expires_at`. `slot[s]` is a row of `background_resource_slots`. `wrk[w]` is a worker
process: its place in `worker.run`/`execute_job`, the job and attempt it claimed, `cancel_event` (`stopEv`)
and whether the heartbeat thread still loops (`beating`). `inflight` holds what a heartbeat or monitor
thread has read and will write. `watched[j]` says that the panel that submitted the job is still open.

*Time.* A deadline is the number of ticks left until the comparison with `now` succeeds; `Tick` ages all of
them. `LeaseTicks = 2` gives a heartbeat room to be late once.

*Transactions.* Code under `FOR UPDATE` is one action with all its writes: `Claim` is
`_claim_next_job_once` with both sweeps, and `Skips` is any small set of rows that `SKIP LOCKED` passes
over in each of the four scans. `_heartbeat` and `_job_should_continue` select without a lock and update
by primary key, so each is a read (`HeartbeatRead`, `MonitorRead`) and a `Commit` that may come any time
later and touch whatever the row is by then. `get_job` is also unlocked but writes one column that nothing
reads once it matters, so `Poll` is one action.

*Failures.* `Crash` at any point; a supervisor restart is `Spawn` with a new identity, because
`worker_id` contains a fresh uuid. `LoadFails` is a failed load and also a claim whose commit succeeded but
whose answer was lost; `FinishFails` is a failed verdict transaction, with the code's asymmetry: a failed
`done` is caught and reported as an error, any other failure leaves the row to recovery. A heartbeat that
raises is one that is never taken.

*Bounds* (all are constants): workers are used once each; `MaxCrashes`, `MaxInflight` and `MaxLocked`
limit deaths, pending unlocked reads, and rows skipped per claim. Jobs are claimed in row order, because
`priority` is never anything but 100 and the order is then `created_at`.

*Left out:* progress and phase texts, owner checks, results (a result is just `done`), the row limits 100
and 20 of the sweeps (the models have fewer rows), lock-conflict retries (a retried transaction has no
effect before it commits), `prune_expired_jobs` (it hides settled rows, which no action here looks at;
it is `Prune` of `JobAction`).

### JobAction and the code

*State.* `action[j][a]` is the status of the `background_job_actions` row, `hidden[j]` is `is_deleted` of
the job. `req[r]` is one request inside an API process: where it is between `get_job`, the two statements
of `claim_job_action`, the loop over messages and `finish_job_action`. `tab[t]` is the page: the request it
waits for, and whether it was told that the mail is sent. `out[j][m]` counts how often SMTP, or the queue
for a batch that is handed over, has taken a message.

*Two kinds of jobs.* `Previews` have one action (`confirm-send`; `report_mail_routes`, `unaccounted_txn`,
the Ultrafine routers). `Reports` have one action per request (`finished_report_mail`), because `send()` of
`EmailReportCard.tsx` makes a new `request_id` each time.

*Steps.* A read and an insert are separate, since nothing locks between them; the unique key is the test
in `Insert`. `InsertRaises` and `SendRaises` may take effect before they fail. `Crash` ends an API process
at any line, `GiveUp` is the time-out of `fetch`, `Prune` may come at any time. *Left out:* validation of
the request, attachments, the send history.

### MailSchedule and the code

*Time and slots.* A moment is a tick; a slot key (`"YYYY-MM-DD HH:MM"`, compared as a string in the code,
which orders like the moments do) is the moment it names; 0 is "never". A day has `DayTicks` ticks.
Weekdays or days of the month are a set of days of a cycle of `CycleDays`; a calendar month is not modelled
beyond that. `SearchDays` is the 100 of `_next_clock_run`.

*Saving.* `save_settings` reads row and clock without a lock and commits later: `SaveBegin` and
`SaveCommit`. SQLAlchemy writes the attributes that differ from what was loaded (`Stored`). The scheduler
and the clock may get in between. A start that does overtake the save in this way is forgotten by
its commit: `done` is lowered to the time that the save took, and `OncePerSlot` holds from there.

*The scheduler.* `EnqueueMark` is the transaction of `enqueue_due_checks` for the application,
`EnqueueSubmit` the `submit_job` after it, which may also fail: the slot stays marked. A pass
may be as late as it likes, which covers outages over several slots. `done` is history for `OncePerSlot`.

*Left out:* rows from before slots or anchors existed (`last_attempt_date` alone, a missing
`last_every_slot` while the schedule is on), soft-deleted rows, two saves at the same time, validation of
wording and recipients.

### MailRun and the code

*State.* `busy` is the time left until `running_since` counts as dead (0 also when it is empty), shared by
all runs of the application. `run[<<j, a>>]` holds the place and the local variables of `run_mail_job` in
attempt `a` of job `j`; `entry` its row of `scheduled_report_mail_log`; `taken` what SMTP has taken.

*Steps.* `ClaimRun` is `_claim_run` under its row lock. `Build` is the report itself: it may return, hold
the mail, raise, or notice a stop request. `Stops` is the test of `_update_progress`: the row was asked to
stop or is no longer this attempt's. `FinishRun` clears `running_since` whoever set it, as the code does.
`DeliverRaises` may come after the server took the message.

*Queue.* `Recover` may come at any time unless `LeasesHold`, then only for a dead or stopped execution.
Scheduled jobs have owner 0, so only `Manual` ones can be cancelled; all are submitted with
`cancel_on_disconnect=False`, so no tab ends them.

*Left out:* `_retire_superseded_intro`, which rewrites a superseded default wording once and commits inside
`_claim_run` (see the hazards); the choice of sender and recipients; mails previewed by hand.

### IoclBalance and the code

*State.* `settings` is the row of `iocl_balance_settings` with its lock (`check_lock_*`), session and day mark;
`checks` and `notes` are `iocl_balance_checks` and the notifications, which are the outbox; `act` holds the
local variables of each attempt of `run_check_job`. A job comes from `EnqueueDue` (the scheduler),
`CheckNow` (a user) or `Again` (recovery). `Claim` takes the lock for `Lease`, `Fetch` is the portal with its
attempts, `Record` commits the check, its notes and the day mark, and delivery goes note by note through
`sending` to `sent` or `failed`. `PutSettings` and `PutSession` are the form and the session import.

*What the properties say.* `RemindersRight` reads the whole history: a balance below the threshold is told once
when it drops and again no sooner than the interval. `OneCheckOneMail` bounds the overlap of checks by the lease (`OneCheckWithinLease`) and
ties each note to what SMTP took (`OutboxIsTrue`, `MailedOnce`).

### InvoiceTracker and the code

As above, with three differences of the code. The lock is taken for `FirstLease`, which grows with the login timeout
(240 to 360 s), and renewed for `Window` (240 s) before each attempt, queue and page; `_renew_lock` reads the row without
locking it (`Heartbeat`) and writes by primary key (`RenewLock`), so that a renewal that comes late is written over the
lock of the check that has taken over. The portal takes one login per account, so that a check that does not log
out locks the next ones out (`StateIsConsistent` includes `AccountIsFreed`). The day's mail is a note with the day as its
key. `OneCheckOneMail` says that checks overlap only when one of them let its lock lapse, or such a one came late with its
release (`Raced`) or its renewal (`Rewritten`); `DeadCheckLetsGo`, that the lock of a check whose worker died can be taken again
a window later, or its first lease later if it had not renewed it, unless its lock was rewritten.

### RateLimit, Access and the code

`RateLimit` has `enforce` in steps: the time is taken (`Enter`), the named lock is awaited (`Acquire`,
`TimesOut`), the window is counted and written (`Count`), a database error may come (`Fails`), the lock is
released. An attempt is kept with the time at which it entered, which is what the code stores, and the time at which it
was counted: the named lock may let a later one in first. `Access` puts a login around it and adds the browser: `Send` takes the cookie it has, `Receive` the
cookie of an answer, in any order over requests. A cookie is a record of user, mark of the password and time;
a reset link holds the mark it was made for. `Server` runs them as its `Api`; `AccessRight` is the bound of the
window (`WindowBounded`), the cookie a browser ends with (`SessionsAreOfTheirPassword`, `LogoutStays`) and `LinkOnce`.

### Suite, Backup, Scratch, Server and the code

`Suite` follows a launch through `cleanup_previous_suite` (stop file, wait, kill, check) and
`supervisor.main` (lock, pid file, children, restart, shutdown). A launch may be killed at any stage; on a
closed window its children die with it where the job object was set up. A supervisor that leaves lets go of the
lock, then compares the pid file with its own pid (`Unlink`) and removes it (`Drop`), two steps between which the
next one may write its own: `cleaned` keeps those whose file may go that way, and `PidIsOwner` asks nothing of them. `Backup` has the tick at the configured
minute, the file lock, the growing dump, its rename and the pruning, and the admin's run-now. `Scratch` has
uploads, tokens, queued reports, previews and both sweeps, each of which is one step, and the retention, which the
admin may change at any time: a report has a right to its rows for the shortest one that was set. `max_backups` may
be any number up to the constant each time something is pruned. The dumps on disk are a set of
aged files, of which one may still grow; `missed` holds the launches that had found nothing left when, without a job object, another's supervisor died and left
its children.
`DutiesKeepWhatIsNeeded` has three parts: a day's backup is begun once (`OneBackupADay`, where `missed` is
empty: of two schedulers, one that stands still for a day may go on with an old day), the last good dump stays on
disk whatever is pruned (`GoodBackupKept`), and the sweeps leave what is needed (`FilesAreKept`).

### Cashflow and the code

*Tables.* All tables are one function from cells, `<<table, row, column>>`, to values. A request or a file of a
job reads the database once (`view`) and later commits the cells it *changed* relative to that view; MySQL's
REPEATABLE READ and SQLAlchemy's dirty columns are exactly this, and no row is locked by reading. Two inserts
of one unique key clash (`Clashes`), and the second transaction fails.

*Money* is in paise. `SplitEvenly` rounds half up and gives the last share the rest, as `_split_evenly`.

*Requests.* `Writes` is every mapping request, override, removal, setup and generate; `Ask` reads, `Answer`
commits. `LinesKept`: of identical lines as many are stored as the statement has that holds most of them, each came with the
upload it names, and one is out of the books only if a statement that holds it was removed. Its rows add up to the bank
amount unless they are flagged (`MoneyIsPlaced`, in `SheetsRight`).
`ArchiveUnplacesNothing`: archiving a name, a location, a CF location or a group, when nothing was committed since the
request read the books, takes no line's place away, but that of a line that is placed by its location's name alone.

### MappingStore and the code

`rows` is one table whose rows are edited one at a time (creators of the unaccounted report), `excluded` the
list that is loaded in one transaction and saved whole in another. Start-ups write to both in one transaction, which
fails as a whole where a row of theirs was added meanwhile. A report writes to `rows`, one creator after the other, each
read (`ReportFinds`) and committed (`ReportSaves`) apart.
`told` is what the users and the seed asked for in the order of their commits, `raced` that two whole-list saves
overlapped; such an overlap loses a change (see the limits), so `ListIsTold` speaks of the rest. Of a report
`EditsKept` says that it changes only the row it saves and no creator that was active when it read the map; of an
archived one, and of one saved since, it says nothing (see the limits).

### Payables and the code

A document is a sequence of header, noise, sentinel and bill rows; `Reduced` reads it inline, `Parallel` in
chunks over `Threads`. A bill has only what a rule looks at. `Place` follows the precedence of the code
(location code, site, invoice, vendor, region's incharge), `TypeOf` the order of the base types. `RunStarts`
loads the six tables, `RunEnds` writes or holds the report. `Revise` and `RenameEnds` are the edits; a rename
is two transactions, and the second may fail. `SheetsRight` of `Desk` is `PayablesRight` with
`MoneyIsPlaced` of the books, `DebtorsRight` and `MailsCarryAll` of the Debtors mail.

### DebtorsBuild and the code

Three reports in three threads, which share one ageing fetch under a lock (`_SharedAgeing`) and start
sub-fetches: slices, batches of the pool, open items, regions, register, locations and comments. Every call
has the connection it waits on, whether a watcher was started for it, and the answer: whole, cut or failed.
`Told` is `EitherEvent` of the job's cancel event and the build's stop event. `BuildIsHonest`: a build whose
mail goes out had every query answered to its end or known to have failed. `StopsWhenTold`: it ends.

### DebtorsMail and the code

The reports compute for each row its place (ERP region, else the mapping), the summaries and the
warnings, by the code's two different ways of comparing names, and users mend what is listed, in a
database that compares keys exactly (`utf8mb4_bin`), so that another spelling is a row of its own. The attachments are `fit_together`: compact, convert, cut, pack. File
sizes are given by `FileSize`, so that shrinking may or may not help and rows differ in weight.

### BulkMail and the code

`Preview` reads the saved addresses in the request, `PreviewBuilds` is the job; in between and later
`EditsMeanwhile` changes an address or the sender. `ConfirmSend` (reminders, confirmations) claims the preview,
`SendRows` and `SendBroadcast` (executives) claim nothing. `SendsOne` is one message: it may leave, fail, or fail
after the server took it; then the progress call may stop the batch. `BatchFails`, `WorkerDies` and `PdfSwept`
come at any time. `history` is the send history, which may refuse a line (`lossy`). `SendPlan` is the plan of the
executives' mails, from the rows of the tracker sheet (`Details`) to the recipients of each reminder and of the
broadcast. A customer is a cell of the upload; `Trimmed` and `Caseless` give the names by which saved addresses, PDFs and (for
confirmations) repetitions are found. `BulkMailRight` is `SentOnce`, `SentAsReviewed`, `ToldTheTruth`, `BatchIsRecorded` and `PlanAddsUp`.

### Formulas, Xlsb and the code

A formula is a tree; `ShownValue` (mail), `CachedValue` (`.xlsx`) and the writer's evaluation (`.xlsb`) are three
functions from a sheet to values, beside `TruthOf`, what Excel gives. Amounts are integers in hundredths. `Xlsb` has
record headers (seven bits a byte), the 30-bit form of numbers with its two flags (`RkBits` scales it down), the
format flags, the parser and the token order of formulas, the layout that is read from the parts, the feeding of
a sheet in blocks that end anywhere, and the choice of the fast or the slow route for a row. A reader
(`ReadRecord`, `ReadNumber`, `Rebuilt`, `ReadCell`) is written from the format, not from the writer, and `FilesRight`
says that it gives back what was meant. What the writer does not know is refused, and the caller keeps the `.xlsx`.

### The reports and the code

Each has one operator from an input to the report as it is written, cells with formulas included, and one property
over its cells, evaluated as Excel would and as a reader that does not calculate would.

* `Ledgers`, the creditors report: header search, period by priority, side by format or by mapping, the seven ageing limits, the three
  sheets with their `SUMIFS` (`CreditorsAddUp`).
* `Ledgers`, the trial balances: `LocationReport` (`PivotComplete`: what is not in the pivot is in the list of the unmapped);
  `TallyReport` works out which rows are groups from figures and indentation, and the sign of each from its ledgers
  (`GroupsFound`: on every tree of five and six rows without coincidences it finds exactly the groups, but for the
  groups of `TakesTwice`, see the limits). The property leaves out the inputs whose sums coincide (`generic`).
* `Unaccounted`: the chain saved site, shipped site, special site by creator, for three kinds of rows; the
  exclusions; the tables by place, month and vendor with totals over nested totals (`TransactionsPlaced`,
  `OrdersSorted`, `ReceiptsCounted`).
* `OpenItems`: buckets by age, amounts in lakhs with what is too small to show, total lines over ranges that begin
  below a title or without one; `GstReport` with the key of number and date.
* `Combiners`: duplicates, names, state codes (taken from the name, also of a file that cannot be read), two-level headings, columns to numbers,
  the Summary's `SUMIFS`; closing reports by
  their months, with subtotal rows and item groups.
* `ReportRules` itself, of the region move: the votes of the old places for their region's incharge, the names that follow, and what is archived
  (`RegionsMoved`).

## 3. Runs

The queue runs have `MaxAttempts = 2`, the default of `JOB_MAX_ATTEMPTS`.

| Run | Instance | Shows |
| --- | --- | --- |
| `queue_stalls` | 1 job, 3 worker identities (2 alive, 1 crash), 2 slots, tasks report/mail/oracle, 2 pending reads, 1 skipped row, any delay | a mail batch starts once; results only of the current attempt; detached work survives its tab; **implements `JobLifecycle`**; the inductive invariant of the proofs, with types and slots |
| `queue_live` | 2 Oracle jobs, 2 workers, 1 slot, 1 crash, short memory, 1 pending read, 1 skipped row, only task bodies are slow (`Timely`), `FairSpec` | `OneLeasedRunner`: one execution per job at a time, and a running body nobody asked to stop holds lease and slot; every job settles |
| `queue_hung` | 1 job, 3 worker identities, bodies may hang, `HungSpec` | a stop request still settles the job |
| `queue_gone_tab` | 1 job, 2 workers, `FairSpec`, any delay | **violation**: the job of a closed tab never ends |
| `action_races` | a preview of 2 messages, a report of 1, 3 clicks, 2 tabs | a previewed message goes out at most once; nobody is told a lie about success; nothing follows a verdict |
| `schedule_slots` | days of 4 ticks, cycle of 2 days, times {1, 2}, starts {0, 3}, steps {2, 3}, 2 saves, first tick in day 1, last tick 12 | no slot starts twice, except after a save that a start overtook; saving fires nothing that had come when it looked and the first mail of an every-few-hours schedule is on its grid (`FirstMailInTime`); the promised next run is when the scheduler finds the mail due |
| `mail_runs` | 1 manual job, 2 messages, 3 attempts, 1 death, any recovery | runs do not overlap while they are shorter than `_RUN_STALE_AFTER`; the log agrees with what left; a dead run lets go |
| `iocl_checks` | 2 scheduled jobs, 1 by hand, 1 mail by hand, 2 accounts, a balance on either side of the threshold; scenarios: three checks that overlap, two with a fault, a request or a settings change, one that is executed again with two faults | one check within the lease; drops are told and reminders spaced; the outbox is true |
| `tracker_checks` | 2 scheduled jobs, 1 by hand, 1 mail by hand; 1 page, window of 1, first lease of 2; scenarios: three checks that overlap, two days' checks that are executed again with two faults, a check by hand with a request and two faults | one check within its lease; a dead check lets go; the account is freed; the day's mail is sent once after it was recorded |
| `server_duties` | 3 launches with 2 crashes; a suite with backups and run-now; one with 2 uploads, 2 reports, a preview and sweeps; and requests: 3 logins over a limit of 2, or a login with two activities and a logout, or with two resets of one link, or two admins who remove each other | one scheduler; with it a backup a day, and the good file kept; no file removed under a job that may still need it (`DutiesKeepWhatIsNeeded`); the window is bounded, the cookie is right, a link works once (`AccessRight`); an admin remains unless two remove at once (in `StateIsConsistent`) |
| `report_desk` | six tools, see below | the properties of the tools |
| `report_rules` | eleven reports, nine kinds of file work, the region move and the mailings, see below | `LedgersRight`, `TransactionsRight`, `OpenItemsRight`, `CombinedRight`, `RegionsRight`, `FilesRight`, `BulkMailRight` |

The instance of `report_desk` (`MCDesk`): *cashflow*, two statements that share lines and one that cannot be
read, two jobs beside a user, every archive and edit over stored lines by two users, a line typed over by two,
3 requests (4 for a name that returns); *mappings*, three keys that are live, archived and new, two users with
2 row edits, a report and two starts, one user with two reports, 4 edits of the list, or 2 with two starts; *payables*, five bills (two IOCL deliveries around
the 25th, a derived site, a bill without dates, a credit), a document with its sentinel in the middle and 1 or
3 chunks, 2 edits of any table; *debtors build*, four builds: cancelled, failing in ageing and GST, without open
items and with failing batches, with failing small look-ups; *debtors reports*, every map of two names and four
spellings, with and without regions and look-ups, 2 edits; *attachments*, three books of 1 to 5 rows, three
limits, light and heavy rows, converters that help and that do not.

The instance of `report_rules` (`MCReportRules`) is inputs: *creditors*, bills of every age at a limit, on either
side, of parties in and out of the books, two headings, three states of the mapping; *locations*, three rows over
all segments and maps; *Tally*, every tree of five rows and depth 3 and of six rows and depth 4, with every choice of sides and of ledgers without movement, and a
group at the indentation of its children; *unaccounted*, every combination of sites, creators, months and
exclusions over three or four rows; *open items*, five rows with dates at the limits and amounts at half a
hundredth, below a lakh and of both signs; *combiners*, three uploads that may share name or content, with a cell
that is a number, blank or words, and a file without a usable sheet; *regions*, every pair of incharges of three old places, archived or not, with
places typed in other letters. *Files*: all ids and sizes around 7 and 14 bits, numbers on both sides of the short
form, formulas with every pair of operators, sheets cut after any row, books with formulas and strings by either
route. *Mails*: two or three customers or executives, two spellings of a mailbox, a PDF, up to 2 faults, cancels,
edits and deaths; names with blanks around them and in capitals.

Why these bounds are enough for the questions asked of the queue: the conflicts in this code are between one row (or one
slot) and at most three parties - an old execution, the recovery that takes its lease, and the new
execution - plus one tab. Two jobs are needed only to contend for a slot. Two attempts are the code's own
bound, and the third attempt it forbids is reachable if a check is off by one. What the slots and rows do
for any number of jobs, workers and slots is proved.

In `JobAction`, three clicks are one more than the two that race for a unique key, and two messages give a
failure between them. In `MailSchedule`, a step of 3 does not divide the day of 4 and a step of 2 does; two
times a day, two saves and two days of a cycle give every order of a slot, a save and a change of schedule.
In `MailRun`, three attempts that may overlap are one holder, one that is refused and one that comes after
either; runs of other jobs meet them in the same two places, the claim and the end, and the proofs have any
number of jobs and messages. In the monitors, three checks are a holder of the lock, one that finds it and one that
comes when it has run out. In the tools, a race is between two snapshots of one table, so two writers suffice,
with as many requests as the longest sequence that a property needs: upload, remove, upload; archive a name,
archive its place, bring the name back, ask again. In the reports a row is wrong alone (its place,
its age, its sign), or beside one other (the same key, a total over it, a nested total), so that three to five rows, with
every value at a limit, reach what more rows would. Tally's groups need six: a tree of six rows has a group after whose
nested last group more rows follow (depths 0, 1, 2, 3, 4, 2), the first that the code gets wrong, and groups in groups at their children's
indentation and beside ledgers without movement.

Deadlock checking is off where a run can come to rest: all jobs settled, all workers used up, all scenarios
played.

### Fairness

`SystemFairness`: the clock ticks; the supervisor respawns (`supervisor.py` loop); a live worker's loop,
threads and transactions proceed (weak fairness). Claiming has strong fairness in its unlocked form: rows
are locked only for short transactions, so a worker that polls again and again meets a moment when nothing
is skipped. `BodyFairness` (only in `FairSpec`): task functions return or raise, as their network and
portal calls carry time-outs. `HungSpec` drops it. No fairness for crashes, requests of the browser, or
skipped locks.

`FairSpec` of `MailRun`: the clock ticks; nothing else has to happen.

`BuildFairness` of `DebtorsBuild`: threads run, a connection is made or refused, a watcher that wakes every
quarter of a second wakes. The ERP need never answer: the Oracle calls carry no time-out, and `StopsWhenTold`
holds without one because a watcher cancels each call.

`LeasesHold` and `RunsShort` of `MailRun` are assumptions of a run, not code. `RunsShort` says that no run
takes 90 minutes; `OneRunAtATime` needs it, the log does not.

`Timely` is an assumption, not code: heartbeats get through (15 s against a lease of 120 s) and a
transaction does not take as long as a lease. `OneLeasedRunner` needs it: see the limits below.

### Finding

The one disagreement between code and documentation that a run states:

`queue_gone_tab`: a client-lease check that was read before a recovery and is committed after it leaves
the row `queued` with `cancel_requested`; the claim query and the expiry query both skip such rows.

### Limits of the code that the models have and no run states

The queue and its mails:

* Without `Timely` a worker that cannot reach the database for longer than a lease is not fenced, and its body
  goes on beside the recovered job. Only its result is discarded.
* After a stop request the heartbeat ends, and a body that has not reached its next check within a lease loses
  its Oracle slot while it still uses Oracle.
* Each click on Send has a new `request_id`. After the browser's 30 s time-out a second click mails again.
* A report mail may go out twice: `run_auto_mail_job` is rerun after a death (it is not in
  `_NO_RERUN_AFTER_CRASH`), so a worker that dies between `_finish_run` and the verdict leaves a job that
  mails once more. `LogTellsWhatLeft` makes both show in the log.
* A run whose worker died is started again after two minutes and refused by its own `running_since`.
* A cancel while the messages leave is noticed after them: the log then says "Cancelled before the mail was sent."
* A slot is marked as started before its job is submitted; a scheduler that stops in between loses it. A save that
  is open while a slot falls due and starts puts the mark back, and the slot starts again; one that is open while a
  slot falls due and has not started makes it due by its commit, a surprise mail (`scheduled_report_mail.py:701-709`).
  `OncePerSlot` and `FirstMailInTime` say that nothing earlier than the time the save took does either.

The monitors:

* A lock is released, and the tracker's is renewed, without `FOR UPDATE`, so a check that outlived its lease may clear its
  successor's lock, cut it short or lengthen it. A tracker's check that dies before its first renewal keeps the
  others out for up to 360 s, not the "~4 minutes" of `monitor.py:783`.
* A check during a change of the account writes the old session back. A worker that dies while a note is
  `sending` leaves it so for ever. A failed note is sent by later checks, oldest first, 50 at a time.
* The tracker tries the day's check once a day: a failure, or a recovery after 120 s within the 240 s window,
  loses the mail of that day.

Access and server:

* Two admins who remove each other at once leave none; two uses of one reset link that overlap both succeed; an
  activity answer that was in flight at a logout restores the cookie; a restored account takes its old cookie again.
* With `max_backups = 1` a run-now beside a scheduled backup can leave only the unfinished file; a pass of the
  scheduler that takes longer than a minute can step over the backup's minute.
* A token or a file may expire under a queued report, which then fails and says so.
* A supervisor that leaves may remove the pid file that the next one has written since it was compared.

Mails to customers and executives:

* A cancel inside a batch of customers' mails records the batch as "failed" without counts though mails left; a batch of
  executives' mails is then not recorded at all. A batch whose rows are all skipped is recorded as "failed".
* The executives' send claims nothing: a second click mails again. Two names that map to two spellings of one mailbox
  address it twice in a reminder.
* A reminder's upload is tested for repeated customers on the cells as written, which are trimmed only later
  (`ultrafine_payment_reminder/processing.py:66`, `:159`): `Acme` and `Acme ` of a workbook both pass, and both rows are mailed to
  the saved address of `Acme`. `SentOnce` takes them for two customers. Confirmations compare trimmed names without case.
* A party whose name ends in "total", or a row with a blank executive, is dropped from the plan.
* A sender that is removed before the batch starts leaves the PDFs to the sweep.

Files:

* A nested `SUBTOTAL` is counted twice in the grand total that the `.xlsb` stores (`xlsb_writer.py:498`); Excel
  recalculates it. `BinaryIsRight` therefore speaks of sheets without nested ones.
* In the `.xlsb`, a `SUM` over one text cell stores `#VALUE!`, booleans count in sums, forward references and cells
  beyond the limit count as 0, and a reversed area with mixed `$` gets its flags the wrong way round.
* A malformed formula raises `IndexError`, which the converter takes for a refusal. The `.xlsx` cache does not resolve
  arithmetic as the mail's table does.

Reports:

* A receipt without a supplier is counted for the first supplier in the stored pivot (`vendorwise_pivot.py:109`, `:220`) and
  is in no vendor's line; Excel refreshes the pivot when it opens. Rows of left-out months count as "unmatched", and a
  left-out order at an unmapped site goes to "Mapping Not Found".
* Tally: for a group the code keeps the last row it took, not the end of what is below that row
  (`trial_balance_formatter/processor.py:317-320`). After a group whose last row is a group of its own, the rows of the inner one
  are taken once more, so that the sums of the group around it do not come out, and it is not found: the
  double-counting that the docstring says is avoided (`:257-260`). It is then shown as a ledger and added beside its ledgers.
  `GroupsFound` excepts these groups and those above them.
* Unaccounted transactions: the list of unmapped sites passes over a blank site and counts no row without an invoice number
  (`excel_writers.py:498-503`).
* Tally: two sibling ledgers with equal figures before one without movement are taken for a group and its child
  (`trial_balance_formatter/processor.py:298-305`); a group without movement whose ledgers are on different sides is not
  recognised by its sums. Ledgers without movement take their group's habit.
* By location: the pivot goes by account code only; a row with a blank segment is neither in it nor told.
* Creditors: a ledger that is twice in the trial balance is listed twice and classed by its last row. Bills of parties
  outside it are on no sheet. Excel's `SUMIFS` ignore capitals, the stored values do not.
* Open invoices: at exactly half a hundredth of a lakh the stored figure may be 0.12 where Excel shows 0.13 (`untagged_invoices/processor.py:676`).
* GSTR-2B: duplicates are dropped before names are read (`combiner.py:216-242`), so that a badly named copy may push out the
  export it is a copy of. A column with one bad cell stays text, which the Summary passes over. A tab that cannot be
  read is dropped with a line in the log. Names that differ only in capitals count into each other in Excel.
* Regions: the incharge row of a place typed in small letters neither votes nor is archived though its names are moved; a
  place typed as a region's name in capitals loses its incharge to the region. The move renames one such row, for it takes
  the two spellings for one key (`customer_region.py:227`); the database does not (`database.py:19-38`).

The books and the mappings:

* Removing a statement takes the lines that a later, listed statement had counted as duplicates.
* Overlapping uploads at once: the unique key fails the second job after its earlier files were stored, and its
  months are not generated again. Two overrides of one line at once keep both splits, which are flagged.
* A name that returns through the fix panel while its location is archived is not asked for a place.
  Archiving a CF location does not see lines placed by the location's own name, nor rows saved meanwhile.
* Overlapping saves of the excluded POs lose a change (`unaccounted_txn.py:765-807`, against the advice of
  `soft_delete.py:101-108`). A report brings back a creator that was archived before it ran, which its
  map does not hold (`mappings.py:89-92`), and overwrites one that a user saved while it ran.
* Payables: regions asked for sites that are placed by a location code, or for bills pinned to no region, cannot
  be given by mapping the site. A rename whose second transaction fails leaves neither row.
* Debtors: a name mapped to
  nothing, a blank name and a failed look-up are not listed. GST numbers of failed batches stay blank, only a
  failure of all raises. A failed region look-up means that the mapping places every row.
* A last share of 0 % can be one paisa below zero. Packing is first-fit: no two mails fit together, but fewer
  mails may be possible.

## 4. Proofs

`JobQueueProofs` proves, for all constants that satisfy `QueueConstants` (no job, worker or slot count is
bounded, `Timely` may be either):

* `InvariantHolds`: `Spec => []Inductive`
* `TypeCorrect`: `Spec => []TypeOK` (a conjunct of the checked `Inductive`)
* `SlotsConsistent`: `Spec => []SlotsFollowLeases` (likewise)
* `MailAtMostOnce`: `Spec => []MailStartsOnce`
* `QueueImplementsLifecycle`: `Spec => ImplementsLifecycle`, the refinement of `JobLifecycle`
* `ResultsAreCurrent`: `Spec => ResultOfCurrentAttempt`, an action property
* `DetachedIsLeftAlone`: `Spec => DetachedSurvivesTab`, an action property

`SlotsFollowLeases` is not inductive alone: that recovery may free a slot safely needs that a running row
has an owner and a queued one has none (`RowsOK`); that a claim cannot create a second slot for a job needs
that a queued job holds none, which `SlotsFollowLeases` gives together with `RowsOK`; the tidiness of idle
workers in `TypeOK` needs that a thread which can still set an event belongs to an execution that has not
returned (`LiveThreadsExecute`); and `OwnersRunCurrentAttempt` ties a lease to the attempt its worker
claimed, for the action property about results. `Inductive` is their conjunction. The argument goes row
operator by row operator (`SettledOK`, `RecoveredRowOK`, `CommittedRowOK`, ...), then the two sweeps, then
one lemma per group of actions; steps that touch one row or one worker share `OneRow` and `OneWorker`.

The refinement goes row by row as well: `RowMoves` is what a step may do to one row as far as its client can tell,
each row operator is shown to be such a move (`StoppedMoves`, `RecoveredMoves`, ...), then the sweeps and the claim
(`SweptMoves`, `ClaimMoves`), then every action (`NextMoves`); `RowStepRefines` maps a move to a step or a stutter of
`JobLifecycle`. That a late commit of a thread never writes to a row before its submission needs one more invariant,
`PendingIsOfJob` (`ReadsAreOfJobs`). `ResultsAreCurrent` follows from the fence on `lease_owner` and
`OwnersRunCurrentAttempt`, `DetachedIsLeftAlone` from `DetachedHasNoTab` and `PendingIsOfJob`.

* `OneRunner`: `Spec => (Timely => []OneLeasedRunner)`

`OneRunner` is about time. Its invariant `TimelyInductive` says that a body that nobody asked to stop has the lease of its
job and a heartbeat (`RunnersHoldLease`), that no two workers execute one job (`SoleRunner`), that a slot is leased
as long as its job (`SlotLeasesAgree`), and that a heartbeat that was read and not written is of a job that its worker
still holds or that has a verdict (`ReadsInTime`). Every action but `Tick` needs only `Inductive` for it; `Tick` needs `OnTime`.

`JobActionProofs` proves, for any jobs, messages, clicks and tabs (`ActionConstants`):

* `InvariantHolds`: `Spec => []Inductive`
* `ConfirmSendsOnce`: `Spec => []MessageSentOnce`
* `SentMeansSent`: `Spec => []AnswersAreTrue`
* `VerdictIsFinal`: `Spec => NothingAfterVerdict`, an action property

At most one send per message needs a holder of the action (`HoldersClaimed`: sending only while the action
is in progress, and one sender per action), its position (`SentInOrder`: everything before `next` has gone
and nothing from `next` on), and that nothing has gone of an unclaimed preview (`UnclaimedUnsent`). That
"sent" is true needs `CompletedIsSent`; `Early` keeps `next`, `ok` and `answer` unset until their step.

`MailRunProofs` proves, for any jobs, messages, attempts and deaths (`RunConstants`):

* `InvariantHolds`: `Spec => []Inductive`
* `NoOverlap`: `Spec => []OneRunAtATime`, from the assumption `RunsShort`
* `LogIsTrue`: `Spec => []LogTellsWhatLeft`, without assumptions on time or leases

`OneRunAtATime` is inductive with "an active run keeps the mail busy" (`Overlap`); the log with the
agreement of the local variables (`LocalsAgree`), the ownership of an entry by its run (`OwnEntry`), and
the fact that each attempt starts once (`AttemptsStartOnce`), so that a run is never begun over its own old
entry. `OneRunSteps` does the common part of a step of one run; each action then only describes the new
record and shows the three facts about it.

`InvoiceTrackerProofs` proves, for any jobs, mails, window, pages and scenarios, and a first lease that is no shorter than
the window (`TrackerConstants`):

* `InvariantHolds`: `Spec => []Inductive`
* `TrackerConsistent`: `Spec => []StateIsConsistent`
* `ChecksAndMailsOnce`: `Spec => []OneCheckOneMail`
* `LockOfDeadCheckEnds`: `Spec => []DeadCheckLetsGo`

That an account is free again after a check needs that whoever scans is the one logged in (`ScannerIsLoggedIn`). That
checks do not overlap needs what a check knows of its lock (`LockIsKnown`): one that holds it knows how far it goes, which is
no further than the lease that it asked for last, and one that counts on it holds it, unless a late release or renewal came
between. That no mail goes twice needs that a note is sent by
the actor that made it `sending` and by no other (`OutboxOK`), and that an actor works on its own keys (`KeysOfActors`).

`IoclBalanceProofs` proves, for any accounts, balances, threshold, lease, interval and scenarios (`BalanceConstants`):

* `InvariantHolds`: `Spec => []Inductive`
* `BalanceConsistent`: `Spec => []StateIsConsistent`
* `CheckedAndMailedOnce`: `Spec => []OneCheckOneMail`
* `RemindersHold`: `Spec => []RemindersRight`

The lock and the outbox go as in the tracker (`LockIsKnown`, `OutboxOK`). That the saved session is of the
configured account needs that a check knows a session of its own account, or that a check has met a foreign one
(`SessionsKnown`). `RemindersRight` is about the whole history of checks: the settings know the newest balance and a
reminder has the time of its check (`LogOK`), and a check that has not recorded is not in the log and has no
reminder (`FreshIsNew`), so that a new row goes on with the last stretch below the threshold or begins one.
That there is a newest reminder, with which the interval is compared, follows from the well-foundedness of `<` (`NewestReminder`).

`ServerProofs` proves, for any launches, crashes, uploads, reports, requests, limits and windows
(`ServerConstants`, which has `AccessConstants` in it: kinds of requests are disjoint, there are finitely many admins and
at least one, the two keys of the limiter differ):

* `InvariantHolds`: `Spec => []Inductive`
* `Consistent`: `Spec => []StateIsConsistent`
* `Single`: `Spec => []OneScheduler`
* `Duties`: `Spec => []DutiesKeepWhatIsNeeded`
* `Right`: `Spec => []AccessRight`

`Inductive` has one invariant for each part of the server. *Suite*: the launch with the lock is the one between taking it and
letting it go (`LockIsHeld`), it leaves without a scheduler (`LeavesAlone`), and who is past its clean-up while another's
scheduler runs without its supervisor has missed it (`OrphansAreMissed`). *Backup*: one backup is made at a
time (`OneAtATime`), and when it is complete its file is the newest (`NewestIsWhole`), which pruning therefore spares; both
unless a run-now crossed a scheduled one. *Scratch*: rows are as old as their token says, a report that waits has them unless
they are too old (`RowsAreDated`, `RowsWait`), a preview is as old as it was made (`PreviewsAreDated`). *Access*: of the
limiter, that an attempt that was let through is in the row as long as it can count (`StillCounted`, with the times in
order: `CallsAreTimed`, `LetAreTimed`) and passes each key once (`LetOnce`, `CountsOnce`, `LoginsGoOn`); of
cookie, links and admins, that after a logout only strays answer (`OnlyStraysAnswer`), that a link is used for the password
it was mailed for (`LinksAreDated`), and that unless removals overlap there is an admin whom none is
about (`Targets`, `OneIsSpared`). Two conjuncts relate the parts: only a scheduler that runs does a duty
(`SchedulersRun`), and with one scheduler the days are marked in order (`DaysInOrder`). The steps of a login
are shown over `Access` alone, then those of `Server` over them. Cardinalities are compared with the library's facts on finite sets.

`MailScheduleProofs` proves, for any days, cycles, forms and saves (`ScheduleConstants`: a day has more than one tick, the
search is longer than a cycle, every form is one that the page accepts):

* `SettingsPageIsRight`: `Spec => []StateIsConsistent`
* `EachSlotOnce`: `Spec => OncePerSlot`, an action property
* `SavingSendsNothing`: `Spec => FirstMailInTime`, likewise

First the arithmetic: `Days` and `Slots` place a moment in its day and a slot on its grid, `ClockDueFinds` and `EveryDueFinds`
say what the two tests for a due mail find, `NextClockIs` and `NextEveryIs` that the search and the grid give the first
moment at which they will. That the state is well formed (`StateOK`: the row, a save under way and the marks are of moments
that were, the marks that it loaded not later than the row's) is inductive, and the promise of the settings page follows from it.
That no slot starts twice needs more: `Promise` adds that nothing is due at a moment that had its job, and that what is to
come is later than what was done. A commit keeps it because the row then counts as started at least what had come at the
time that the save took (`CommitStores`, `SavedIsToCome`), whatever the scheduler marked in between, and `done` is lowered to
that time.

`DeskProofs` proves, for the tools whose promises are about interleavings and not about sums:

* `MailsAreHonest`: `Spec => []BuildIsHonest`, for any slices and batches (`BuildConstants`: the queries have different names)
* `MappingsStay`: `Spec => MappingsKept`, an action property, for any keys, values, editors, reports and starts
  (`StoreConstants`: requests, seeds and what reports learn are of the table's keys and values)
* `LinesStay`: `Spec => []LinesKept`, for any statements, jobs, users and requests (`BooksConstants`: the lines are those of the
  statements, a database to begin with holds the lines of the statements it has)
* `ArchivingUnplacesNothing`: `Spec => ArchiveUnplacesNothing`, an action property, for any masters (`BooksConstants` once more:
  what a database to begin with and a request refer to are parties, locations, CF locations and groups, or none)

`BuildInductive` goes along the way of an answer: one thread has the lock of the shared ageing, and outside it no slice is
under way (`AgeingIsShared`); a query is cut off only after somebody was told to stop (`CutsAreTold`); who raises has recorded
the first error before the others are stopped (`FailuresAreRecorded`); a query goes on only while its report waits for it
(`QueriesAreAwaited`), and a report that is past a query has its answer (`AnswersAreThere`). So a mail without a recorded error
had all its answers, although each look-up alone cannot tell a cut from an empty answer. `StoreInductive` has the snapshots
in it: a save writes what differs from its own snapshot, so a request leaves the other rows, a start adds only keys that were
not there and a report only what it did not find; and unless two whole-list saves overlapped, the list is what was asked for.

`BooksInductive` says what the lines have to do with the statements (`BooksKept`: a line is there exactly if a stored statement
has it that often) of the database and of every snapshot that somebody still works on, with one relation between the two: what
the database does not have, no snapshot has (`Snapshot`). A job that commits late writes the lines that were not active in its
snapshot; each is of its statement (`StoringWrites`), and those it skips are in the database, if perhaps archived by then
(`StoringKeeps`). A removal archives the lines that its snapshot saw under the upload (`RemovingKeeps`), and all other requests
write elsewhere (`WritesElsewhere`). The numbers of identical lines then follow: the ones in the books are the first so many
(`KeptAreTheMost`), which is a bijection and not a sum.

`MastersInductive` says of the database and of every snapshot at work that each cell of a master, and each part that a person
typed, refers to something that can be; all twelve requests keep that (`WritesMasters`). With it the way of a line can be
followed before and after an archive, which changes one row, and the ratio sets of a group (`ArchiveFrame`): the name, typed or
by its alias, is still the line's name (`PartyStays`), its group has the same ratios in force (`RatioLinesStay`), the typed parts
are the same (`SplitsStay`), and each location with its CF location goes where it went (`PlaceStays`), since the archive was
refused if one of these were the archived row (`Unreferred`). The one way that the archive does not look at is a location without
a CF location of its own that goes to the one of its name; such a line may lose its place, and the property says so (`ByName`).

Only model-checked:

* What the tools (`Desk`), the reports and the mails (`ReportRules`, `BulkMail`) compute are sums over sets and folds over
  sequences (`SheetsRight`, all of `ReportRules`), and a sum for every input needs induction over data, which the provers
  cannot do here.
* All liveness (`FairSpec`, `HungSpec`, `BuildFairness`), with fairness and ENABLED outside the prover's reach.

## 5. Not modelled

* The looks of every workbook (fonts, widths, colours) and the reading of statement and report files cell by cell: no
  decision depends on it. The pictures, comments and styles of the `.xlsb` are refused or copied.
* The ERP converter and the figures of the cashflow summary; the edits of the trial-balance and creditors maps, which
  use the helpers of `MappingStore`; functions that nothing calls (`insert_gst_column`, `merge_xls_files`,
  `_add_mrn_summary_sheet`, `_fuzzy_keyword_match`, the whole-table saves).
* In the reports: `SequenceMatcher` is a set of keywords that a line resembles, the order of table groups and of a
  summary's lines is open, GST items with a number but no date are outside, three taxes are two, amounts are exact
  integers and the rounding of a half that no binary fraction is, is left open.
* SMTP, the portals' pages, Oracle's SQL, cryptography: external, met through their outcomes.
* The audit trail: a line appended and a row written after the response, which nobody waits for.
* The React pages, except the panel, tab and send button that `JobQueue` and `JobAction` have.
* `site_mapping.py`, `seed_data`: tables of data.
