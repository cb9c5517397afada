----------------------------- MODULE IoclBalance -----------------------------
(***************************************************************************)
(* The IOCL balance monitor: backend/app/services/iocl_balance/monitor.py  *)
(* and the routes of backend/app/routers/iocl_balance.py that write.       *)
(*                                                                         *)
(* A check takes the lease of the settings row, reads the balance from the *)
(* portal in a browser, records it together with the mails it calls for,   *)
(* and delivers what is waiting in the outbox.  Checks come from the       *)
(* scheduler and from "Check balance now"; the queue executes a job again  *)
(* when its worker dies.  "Send the mail now" puts its own mail into the   *)
(* same outbox.  One day has DayTicks ticks.                               *)
(***************************************************************************)
EXTENDS Integers, Sequences, FiniteSets

CONSTANTS
  Scheduled, Manual,   \* jobs of enqueue_due_check and of check_now
  Mails,               \* requests of send_now
  MaxAttempts,         \* executions of one job
  Accounts, Balances,
  Threshold,           \* alert_start_amount
  Interval, Repeat,    \* check_interval_minutes, alert_repeat_minutes
  Lease,               \* lease_seconds
  DayTicks, MorningAt, \* a day; daily_email_time
  CheckMaxAttempts,    \* CHECK_MAX_ATTEMPTS
  Batch,               \* deliveries of one check: 50
  None,
  Modes,               \* the sets of switches an administrator chooses from
  MaxTime,             \* bound
  Scenarios            \* bounds: who takes part, and how many faults and edits there may be

Jobs == Scheduled \cup Manual
Runs == Jobs \X (1..MaxAttempts)
Actors == Runs \cup Mails
Days == 0..(MaxTime \div DayTicks)

Never == -1

\* notification_key
Daily(d) == <<"daily", d>>
Reminder(r) == <<"threshold", r>>
ByHand(m) == <<"manual", m>>
Keys == {Daily(d) : d \in Days} \cup {Reminder(r) : r \in Runs} \cup {ByHand(m) : m \in Mails}

Switches == {"enabled", "daily", "alerts"}

\* The ranges of the fields that put_settings takes, and distinct names.
ASSUME BalanceConstants ==
  /\ MaxTime \in Nat /\ DayTicks \in Nat \ {0} /\ MaxAttempts \in Nat \ {0}
  /\ Lease \in Nat /\ Interval \in Nat /\ Repeat \in Nat \ {0}
  /\ Balances \subseteq Int /\ Threshold \in Int
  /\ None \notin Runs \cup Keys \cup Accounts \cup Balances /\ Mails \cap Runs = {}
  /\ Modes \subseteq SUBSET Switches
  /\ \A x \in Scenarios : x.faults \in Nat /\ x.edits \in Nat

VARIABLES
  clock,
  settings,   \* the row of iocl_balance_settings
  log,        \* the rows of iocl_balance_checks that say success
  note,       \* the rows of iocl_balance_notifications
  act,        \* what each execution of a check, and each request of send_now, is doing
  faults, edits   \* how many there may still be

vars == <<clock, settings, log, note, act, faults, edits>>

Settings ==
  [on: SUBSET Switches, account: Accounts, session: Accounts \cup {None},
   lock: Runs \cup {None}, until: Int, last: Balances \cup {None},
   dailySent: Days \cup {Never}, dailyTried: Int, nextCheck: Int]

CheckRow == [balance: Balances, at: Nat, alerts: BOOLEAN, by: Runs]

\* at is created_at, sent is sent_at; taken counts the times SMTP has taken
\* the mail, and doubtful those of them that raised all the same.
Note == [status: {"none", "pending", "sending", "sent", "failed"}, at: Int, sent: Int,
         taken: Nat, doubtful: Nat]

Pcs == {"none", "claim", "fetch", "record", "deliver", "sending", "taken",
        "release", "clear", "over", "dead"}

\* account and session are the snapshot of the claim, later the session of the
\* browser; until is when its lease ends.  odd is what the properties have to
\* know: "foreign", the account was changed before the check was recorded;
\* "raced", its release came after another check had taken the lock.
Act == [pc: Pcs, account: Accounts \cup {None}, session: Accounts \cup {None}, tries: Nat,
        balance: Balances \cup {None}, until: Int, todo: SUBSET Keys, cur: Keys \cup {None},
        odd: SUBSET {"foreign", "raced"}]

NewAct == [pc |-> "none", account |-> None, session |-> None, tries |-> 0, balance |-> None,
           until |-> Never, todo |-> {}, cur |-> None, odd |-> {}]

Init ==
  /\ clock = 0
  /\ \E a \in Accounts :
       settings = [on |-> Switches, account |-> a, session |-> None, lock |-> None, until |-> Never,
                   last |-> None, dailySent |-> Never, dailyTried |-> Never, nextCheck |-> 0]
  /\ log = <<>>
  /\ note = [k \in Keys |-> [status |-> "none", at |-> Never, sent |-> Never, taken |-> 0, doubtful |-> 0]]
  /\ \E x \in Scenarios :
       /\ act = [a \in Actors |-> IF a \in x.team THEN NewAct ELSE [NewAct EXCEPT !.pc = "over"]]
       /\ faults = x.faults /\ edits = x.edits

Today == clock \div DayTicks
Morning == clock % DayTicks >= MorningAt

At(a, pc) == act[a].pc = pc
Goes(a, pc) == act' = [act EXCEPT ![a].pc = pc]

\* The local variables are gone; what is kept is for the properties.
Ends(a, pc) ==
  act' = [act EXCEPT ![a] = [NewAct EXCEPT !.pc = pc, !.cur = act[a].cur, !.odd = act[a].odd]]

Tick ==
  /\ clock < MaxTime
  /\ clock' = clock + 1
  /\ UNCHANGED <<settings, log, note, act, faults, edits>>

-----------------------------------------------------------------------------
(* Where checks come from. *)

DailyDue ==
  /\ "daily" \in settings.on /\ Morning /\ settings.dailySent # Today
  /\ settings.dailyTried = Never \/ settings.dailyTried <= clock - Interval

IntervalDue == settings.nextCheck <= clock

\* enqueue_due_check; a stop of the scheduler between its commit and
\* submit_job loses the check.
EnqueueDue(j) ==
  /\ At(<<j, 1>>, "none")
  /\ "enabled" \in settings.on
  /\ DailyDue \/ IntervalDue
  /\ settings' = [settings EXCEPT !.nextCheck = clock + Interval,
                                  !.dailyTried = IF DailyDue THEN clock ELSE @]
  /\ \/ Goes(<<j, 1>>, "claim") /\ UNCHANGED faults
     \/ faults > 0 /\ faults' = faults - 1 /\ UNCHANGED act
  /\ UNCHANGED <<clock, log, note, edits>>

CheckNow(j) ==
  /\ At(<<j, 1>>, "none")
  /\ Goes(<<j, 1>>, "claim")
  /\ UNCHANGED <<clock, settings, log, note, faults, edits>>

\* The job queue executes the job of a dead worker again.
Again(j, n) ==
  /\ n > 1 /\ At(<<j, n - 1>>, "dead") /\ At(<<j, n>>, "none")
  /\ Goes(<<j, n>>, "claim")
  /\ UNCHANGED <<clock, settings, log, note, faults, edits>>

Executing(a) == act[a].pc \notin {"none", "over", "dead"}

Die(a) ==
  /\ Executing(a) /\ faults > 0
  /\ Ends(a, "dead") /\ faults' = faults - 1
  /\ UNCHANGED <<clock, settings, log, note, edits>>

-----------------------------------------------------------------------------
(* run_check_job. *)

\* Under FOR UPDATE.  The loser leaves a row that says "skipped", and ends.
Claim(r) ==
  /\ At(r, "claim")
  /\ IF settings.lock # None /\ settings.until > clock
     THEN Ends(r, "over") /\ UNCHANGED settings
     ELSE /\ settings' = [settings EXCEPT !.lock = r, !.until = clock + Lease]
          /\ act' = [act EXCEPT ![r].pc = "fetch", ![r].account = settings.account,
                                ![r].session = settings.session, ![r].until = clock + Lease]
  /\ UNCHANGED <<clock, log, note, faults, edits>>

\* One attempt of fetch_balance_with_retries.  Only the first uses the saved
\* session, and only if the portal still accepts it.
Fetch(r) ==
  /\ At(r, "fetch")
  /\ \/ \E b \in Balances, s \in {act[r].session, act[r].account} \ {None} :
          /\ act[r].tries > 0 => s = act[r].account
          /\ act' = [act EXCEPT ![r].pc = "record", ![r].balance = b, ![r].session = s]
     \/ IF act[r].tries + 1 < CheckMaxAttempts
        THEN act' = [act EXCEPT ![r].tries = @ + 1]
        ELSE Goes(r, "release")
  /\ UNCHANGED <<clock, settings, log, note, faults, edits>>

\* _add_or_refresh_daily_notification
DailyWanted(r) ==
  /\ r[1] \in Scheduled
  /\ "daily" \in settings.on /\ Morning /\ settings.dailySent # Today
  /\ note[Daily(Today)].status \in {"none", "failed"}

\* The newest reminder: last_notification.
Reminded == {note[Reminder(r)].at : r \in {x \in Runs : note[Reminder(x)].status # "none"}}
LastReminder == IF Reminded = {} THEN Never ELSE CHOOSE t \in Reminded : \A u \in Reminded : u <= t

\* Mutant of ReminderDue: the interval alone decides.
ReminderDue_NoEpisode(balance) ==
  balance < Threshold /\ (LastReminder = Never \/ LastReminder <= clock - Repeat)

\* Mutant of ReminderDue: one tick early.
ReminderDue_Early(balance) ==
  /\ balance < Threshold
  /\ \/ settings.last = None \/ settings.last >= Threshold
     \/ LastReminder = Never \/ LastReminder - 1 <= clock - Repeat

\* threshold_reminder_due
ReminderDue(balance) ==
  /\ balance < Threshold
  /\ \/ settings.last = None \/ settings.last >= Threshold
     \/ LastReminder = Never \/ LastReminder <= clock - Repeat

Outbox(r) ==
  [k \in Keys |->
     CASE k = Daily(Today) /\ DailyWanted(r) ->
            [note[k] EXCEPT !.status = "pending", !.at = IF @ = Never THEN clock ELSE @]
       [] k = Reminder(r) /\ "alerts" \in settings.on /\ ReminderDue(act[r].balance) ->
            [note[k] EXCEPT !.status = "pending", !.at = clock]
       [] OTHER -> note[k]]

Open(k, notes) == notes[k].status \in {"pending", "failed"}

\* The oldest of what is waiting, whatever its type, up to a batch.
IsBatch(ids, notes) ==
  /\ \A k \in ids : Open(k, notes)
  /\ Cardinality(ids) <= Batch
  /\ \A k \in Keys \ ids :
       Open(k, notes) => Cardinality(ids) = Batch /\ \A i \in ids : notes[i].at <= notes[k].at

\* The check row, the settings row and the outbox, in one transaction; then
\* the list of what to deliver.
Record(r) ==
  /\ At(r, "record")
  /\ log' = Append(log, [balance |-> act[r].balance, at |-> clock,
                         alerts |-> "alerts" \in settings.on, by |-> r])
  /\ settings' = [settings EXCEPT !.session = act[r].session, !.last = act[r].balance]
  /\ note' = Outbox(r)
  /\ \E ids \in SUBSET {k \in Keys : Open(k, Outbox(r))} :
       /\ IsBatch(ids, note')
       /\ act' = [act EXCEPT ![r] = [NewAct EXCEPT !.pc = "deliver", !.todo = ids, !.until = act[r].until,
                                                   !.odd = IF settings.account # act[r].account
                                                           THEN {"foreign"} ELSE {}]]
  /\ UNCHANGED <<clock, faults, edits>>

\* The except clause of a check after its claim, which leaves a row that says
\* "error".  progress_cb raises like this, too, after the last delivery even.
Raises(r) ==
  /\ act[r].pc \in {"record", "deliver", "sending", "taken"}
  /\ faults > 0 /\ faults' = faults - 1
  /\ Goes(r, "release")
  /\ UNCHANGED <<clock, settings, log, note, edits>>

\* Mutant of Release: the lock is cleared, whoever holds it.
Release_Any(r) ==
  /\ At(r, "release")
  /\ settings' = [settings EXCEPT !.lock = None, !.until = Never]
  /\ Ends(r, "over")
  /\ UNCHANGED <<clock, log, note, faults, edits>>

\* _release_check_lock reads the row without locking it,
Release(r) ==
  /\ At(r, "release")
  /\ IF settings.lock = r THEN Goes(r, "clear") ELSE Ends(r, "over")
  /\ UNCHANGED <<clock, settings, log, note, faults, edits>>

\* and clears the lock if it was its own.
Clear(r) ==
  /\ At(r, "clear")
  /\ settings' = [settings EXCEPT !.lock = None, !.until = Never]
  /\ act' = [act EXCEPT ![r] = [NewAct EXCEPT !.pc = "over", !.cur = act[r].cur,
                !.odd = act[r].odd \cup IF settings.lock \notin {r, None} THEN {"raced"} ELSE {}]]
  /\ UNCHANGED <<clock, log, note, faults, edits>>

-----------------------------------------------------------------------------
(* _deliver_notification, for a check or for send_now. *)

\* Mutant of StartDelivery: the status is not looked at again under the lock.
StartDelivery_Unchecked(a) ==
  /\ At(a, "deliver")
  /\ \E k \in act[a].todo :
       /\ note' = [note EXCEPT ![k].status = "sending"]
       /\ act' = [act EXCEPT ![a].todo = @ \ {k}, ![a].pc = "sending", ![a].cur = k]
  /\ UNCHANGED <<clock, settings, log, faults, edits>>

\* The next id of the list, under FOR UPDATE: skipped if somebody else has it.
StartDelivery(a) ==
  /\ At(a, "deliver")
  /\ \E k \in act[a].todo :
       /\ \A i \in act[a].todo : note[k].at <= note[i].at
       /\ IF Open(k, note)
          THEN /\ note' = [note EXCEPT ![k].status = "sending"]
               /\ act' = [act EXCEPT ![a].todo = @ \ {k}, ![a].pc = "sending", ![a].cur = k]
          ELSE /\ act' = [act EXCEPT ![a].todo = @ \ {k}]
               /\ UNCHANGED note
  /\ UNCHANGED <<clock, settings, log, faults, edits>>

Takes(a) ==
  /\ At(a, "sending")
  /\ note' = [note EXCEPT ![act[a].cur].taken = @ + 1]
  /\ Goes(a, "taken")
  /\ UNCHANGED <<clock, settings, log, faults, edits>>

\* send_mail raises, maybe after the server has taken the mail.
Refused(a) ==
  /\ At(a, "sending") /\ faults > 0
  /\ \E lost \in {0, 1} :
       note' = [note EXCEPT ![act[a].cur].status = "failed", ![act[a].cur].taken = @ + lost,
                            ![act[a].cur].doubtful = @ + lost]
  /\ act' = [act EXCEPT ![a].pc = "deliver", ![a].cur = None]
  /\ faults' = faults - 1
  /\ UNCHANGED <<clock, settings, log, edits>>

\* The day of last_daily_sent_date is the one of the delivery.
MarkSent(a) ==
  /\ At(a, "taken")
  /\ note' = [note EXCEPT ![act[a].cur].status = "sent", ![act[a].cur].sent = clock]
  /\ settings' = IF act[a].cur[1] = "daily" THEN [settings EXCEPT !.dailySent = Today] ELSE settings
  /\ act' = [act EXCEPT ![a].pc = "deliver", ![a].cur = None]
  /\ UNCHANGED <<clock, log, faults, edits>>

\* The list is done; a request just answers.
Delivered(a) ==
  /\ At(a, "deliver") /\ act[a].todo = {}
  /\ IF a \in Runs THEN Goes(a, "release") ELSE Ends(a, "over")
  /\ UNCHANGED <<clock, settings, log, note, faults, edits>>

\* send_manual_mail: a row of its own for the newest balance there is.
SendNow(m) ==
  /\ At(m, "none") /\ log # <<>>
  /\ note' = [note EXCEPT ![ByHand(m)].status = "pending", ![ByHand(m)].at = clock]
  /\ act' = [act EXCEPT ![m].pc = "deliver", ![m].todo = {ByHand(m)}]
  /\ UNCHANGED <<clock, settings, log, faults, edits>>

-----------------------------------------------------------------------------
(* The administrator. *)

\* Mutant of PutSettings: the saved session outlives the account.
PutSettings_KeepsSession(a, on) ==
  /\ edits > 0
  /\ settings' = [settings EXCEPT !.on = on, !.account = a,
                                  !.nextCheck = IF "enabled" \in on THEN clock ELSE 0]
  /\ edits' = edits - 1
  /\ UNCHANGED <<clock, log, note, act, faults>>

\* put_settings of an administrator whose version is the row's.
PutSettings(a, on) ==
  /\ edits > 0
  /\ settings' = [settings EXCEPT !.on = on, !.account = a,
                                  !.session = IF a = settings.account THEN @ ELSE None,
                                  !.nextCheck = IF "enabled" \in on THEN clock ELSE 0]
  /\ edits' = edits - 1
  /\ UNCHANGED <<clock, log, note, act, faults>>

\* import_session of a session of the configured account, clear_session.
PutSession(s) ==
  /\ edits > 0
  /\ settings' = [settings EXCEPT !.session = s]
  /\ edits' = edits - 1
  /\ UNCHANGED <<clock, log, note, act, faults>>

Next ==
  \/ Tick
  \/ \E j \in Scheduled : EnqueueDue(j)
  \/ \E j \in Manual : CheckNow(j)
  \/ \E j \in Jobs, n \in 1..MaxAttempts : Again(j, n)
  \/ \E r \in Runs :
       Claim(r) \/ Fetch(r) \/ Record(r) \/ Raises(r) \/ Release(r) \/ Clear(r)
  \/ \E m \in Mails : SendNow(m)
  \/ \E a \in Actors :
       Die(a) \/ StartDelivery(a) \/ Takes(a) \/ Refused(a) \/ MarkSent(a) \/ Delivered(a)
  \/ \E a \in Accounts, on \in Modes : PutSettings(a, on)
  \/ \E s \in {settings.account, None} : PutSession(s)

Spec == Init /\ [][Next]_vars

-----------------------------------------------------------------------------
(* Properties. *)

TypeOK ==
  /\ clock \in 0..MaxTime
  /\ settings \in Settings
  /\ log \in Seq(CheckRow)
  /\ note \in [Keys -> Note]
  /\ act \in [Actors -> Act]
  /\ faults \in Nat /\ edits \in Nat

OnPortal(r) == act[r].pc \notin {"none", "claim", "over", "dead"}

\* Two checks share the portal account only when one of them has outlived its
\* lease, or the release of one that had took the lock from its successor.
OneCheckWithinLease ==
  \A r, q \in Runs :
    /\ r # q /\ OnPortal(r) /\ OnPortal(q)
    /\ \A x \in Runs : "raced" \notin act[x].odd
    => act[r].until <= clock \/ act[q].until <= clock

RemindedAt(i) == note[Reminder(log[i].by)].status # "none"

\* Reminders of one stretch below the threshold are the interval apart,
\* whichever checks made them and however they overlapped.
RemindersSpaced ==
  \A i, j \in DOMAIN log :
    /\ i < j /\ RemindedAt(i) /\ RemindedAt(j)
    /\ \A k \in i..j : log[k].balance < Threshold
    => log[j].at - log[i].at >= Repeat

\* With alerts on, a balance that falls below the threshold calls for a mail
\* at once, and one that stays there never goes the interval without one.
DropsAreTold ==
  \A i \in DOMAIN log : log[i].alerts /\ log[i].balance < Threshold =>
    IF i = 1 \/ log[i - 1].balance >= Threshold
    THEN RemindedAt(i)
    ELSE \E j \in 1..i : RemindedAt(j) /\ log[i].at - log[j].at < Repeat

\* Every drop is told, and told again no sooner than the interval allows.
RemindersRight == RemindersSpaced /\ DropsAreTold

\* A mail of the outbox goes out once, however many checks and requests find
\* it there, but for tries that raised after the server had taken it.
MailedOnce == \A k \in Keys : note[k].taken <= note[k].doubtful + 1

\* A mail is left as "sending", out of reach of every later check, only by the
\* one that was interrupted while it sent it.
SendingHasOwner ==
  \A k \in Keys : note[k].status = "sending" => \E a \in Actors : act[a].cur = k

\* A day that counts as mailed is one on which a morning mail went out, never
\* one of reminders and mails sent by hand only.
DailyMarkTrue ==
  \A d \in Days : settings.dailySent = d =>
    \E e \in Days : note[Daily(e)].status = "sent" /\ note[Daily(e)].sent \div DayTicks = d

\* The saved session is the configured account's, unless the account was
\* changed under a check: such a check brings the old session back.
SessionOfAccount ==
  settings.session \notin {None, settings.account} => \E r \in Runs : "foreign" \in act[r].odd

\* The state is well formed, no mail is lost as "sending" without a worker that
\* died, and the saved session is the account's.
StateIsConsistent == TypeOK /\ SendingHasOwner /\ SessionOfAccount

\* What the outbox says of its mails, and the settings of the day, is so.
OutboxIsTrue == MailedOnce /\ DailyMarkTrue

\* Checks do not share the portal but when one outlived its lease, and nothing
\* that they or a request find in the outbox is mailed twice or told wrong.
OneCheckOneMail == OneCheckWithinLease /\ OutboxIsTrue

\* The inductive invariant behind the proofs.  A check that holds the lock knows
\* until when, and one whose lease still runs holds it, unless a late release
\* took it away.
LockIsKnown ==
  /\ \A r \in Runs : OnPortal(r) /\ settings.lock = r => act[r].until = settings.until
  /\ (\A x \in Runs : "raced" \notin act[x].odd) =>
       \A r \in Runs : OnPortal(r) /\ act[r].until > clock => settings.lock = r

\* A check that has not recorded yet has left nothing behind, and knows a session
\* of its account; who delivers nothing has no mail in hand.
Fresh(r) == act[r].pc \in {"none", "claim", "fetch", "record"}

FreshIsNew ==
  /\ \A r \in Runs : Fresh(r) => /\ act[r].odd = {} /\ note[Reminder(r)].status = "none"
                                /\ \A i \in DOMAIN log : log[i].by # r
  /\ \A m \in Mails : At(m, "none") => note[ByHand(m)].status = "none"
  /\ \A a \in Actors : Fresh(a) \/ At(a, "deliver") => act[a].cur = None

SessionsKnown ==
  \A r \in Runs :
    /\ At(r, "record") => act[r].balance \in Balances
    /\ act[r].pc \in {"fetch", "record"} /\ act[r].session \notin {None, act[r].account} =>
         \E q \in Runs : "foreign" \in act[q].odd

\* At most one delivers a row, and only while the row says "sending"; before it
\* has, every mail taken so far was one of a failure.
Delivering(a, k) == act[a].pc \in {"sending", "taken"} /\ act[a].cur = k

OutboxOK ==
  /\ \A a \in Actors : act[a].pc \in {"sending", "taken"} => act[a].cur \in Keys
  /\ \A k \in Keys :
       /\ note[k].taken <= note[k].doubtful + 1
       /\ note[k].status \in {"none", "pending", "failed"} => note[k].taken <= note[k].doubtful
       /\ \A a \in Actors : Delivering(a, k) =>
            /\ note[k].status = "sending"
            /\ At(a, "sending") => note[k].taken <= note[k].doubtful
            /\ \A b \in Actors : Delivering(b, k) => b = a

\* The settings know the newest balance; a reminder has the time of its check.
LogOK ==
  /\ settings.last = IF log = <<>> THEN None ELSE log[Len(log)].balance
  /\ \A i \in DOMAIN log : log[i].at <= clock /\ (RemindedAt(i) => note[Reminder(log[i].by)].at = log[i].at)
  /\ \A r \in Runs : note[Reminder(r)].status # "none" => \E i \in DOMAIN log : log[i].by = r

Inductive ==
  /\ StateIsConsistent /\ LockIsKnown /\ FreshIsNew /\ SessionsKnown
  /\ OutboxOK /\ DailyMarkTrue /\ LogOK /\ RemindersRight
=============================================================================
