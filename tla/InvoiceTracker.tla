---------------------------- MODULE InvoiceTracker ----------------------------
(***************************************************************************)
(* The invoice booking tracker:                                            *)
(* backend/app/services/invoice_booking_tracker/monitor.py and the routes  *)
(* of backend/app/routers/invoice_booking_tracker.py that start its work.  *)
(*                                                                         *)
(* A check takes the lock of the settings row, logs in to the DMS portal,  *)
(* which lets the account in once at a time, scans the pages of its work   *)
(* queues while it keeps renewing the lock, logs out, and mails the result *)
(* of a scheduled check.                                                   *)
(***************************************************************************)
EXTENDS Integers

CONSTANTS
  Scheduled, Manual,   \* jobs of enqueue_due_check and of check_now
  Mails,               \* requests of send_now
  MaxAttempts,         \* executions of one job
  QueueLease,          \* ticks until the job of a dead worker is executed again
  Window,              \* _LOCK_HEARTBEAT_WINDOW_SECONDS
  FirstLease,          \* max(Window, login_timeout_seconds + 60), which a renewal may shorten
  Pages,               \* heartbeats of one scan: one per work queue, one per page
  CheckMaxAttempts,    \* CHECK_MAX_ATTEMPTS
  DayTicks, MorningAt, \* a day; scheduled_email_time
  None,
  MaxTime,             \* bound
  Scenarios            \* bounds: who takes part, and how many faults there may be

Jobs == Scheduled \cup Manual
Runs == Jobs \X (1..MaxAttempts)
Actors == Runs \cup Mails
Days == 0..(MaxTime \div DayTicks)

Never == -1
Due == -2            \* of a heartbeat: it comes next

\* notification_key
Daily(d) == <<"scheduled", d>>
ByHand(m) == <<"manual", m>>
Keys == {Daily(d) : d \in Days} \cup {ByHand(m) : m \in Mails}

ASSUME TrackerConstants ==
  /\ MaxTime \in Nat /\ DayTicks \in Nat \ {0} /\ MaxAttempts \in Nat
  /\ Window \in Nat /\ FirstLease \in Nat /\ FirstLease >= Window /\ Pages \in Nat /\ CheckMaxAttempts \in Nat
  /\ None \notin Runs \cup Keys /\ Mails \cap Runs = {}
  /\ \A x \in Scenarios : x.team \subseteq Actors /\ x.faults \in Nat

VARIABLES
  clock,
  settings,   \* the row of invoice_booking_tracker_settings
  checked,    \* is there a successful check?
  portal,     \* who is logged in at the portal
  note,       \* the rows of invoice_booking_tracker_notifications
  act,        \* what each execution of a check, and each request of send_now, is doing
  faults      \* how many there may still be

vars == <<clock, settings, checked, portal, note, act, faults>>

Settings == [lock: Runs \cup {None}, until: Int, sentDay: Days \cup {Never},
             triedDay: Days \cup {Never}]

Note == [status: {"none", "pending", "sending", "sent", "failed"}, taken: Nat, doubtful: Nat]

Pcs == {"none", "claim", "login", "scan", "record", "deliver", "sending", "taken",
        "release", "clear", "over", "dead"}

\* seen is when the heartbeat under way has read that the lock is its own.  until
\* is when its lock ends, as far as it knows, and lease how long it took it for;
\* at is when it died.  odd: "raced", its release came after another check had
\* taken the lock; "rewrote", its renewal did; "stuck", the portal did not take
\* its logout.
Act == [pc: Pcs, tries: Nat, page: 0..Pages, seen: Int, until: Int, lease: {0, Window, FirstLease},
        at: Int, cur: Keys \cup {None}, odd: SUBSET {"raced", "rewrote", "stuck"}]

NewAct == [pc |-> "none", tries |-> 0, page |-> 0, seen |-> Never, until |-> Never, lease |-> 0,
           at |-> Never, cur |-> None, odd |-> {}]

Init ==
  /\ clock = 0
  /\ settings = [lock |-> None, until |-> Never, sentDay |-> Never, triedDay |-> Never]
  /\ checked = FALSE
  /\ portal = None
  /\ note = [k \in Keys |-> [status |-> "none", taken |-> 0, doubtful |-> 0]]
  /\ \E x \in Scenarios :
       /\ act = [a \in Actors |-> IF a \in x.team THEN NewAct ELSE [NewAct EXCEPT !.pc = "over"]]
       /\ faults = x.faults

Today == clock \div DayTicks
Morning == clock % DayTicks >= MorningAt

At(a, pc) == act[a].pc = pc
Goes(a, pc) == act' = [act EXCEPT ![a].pc = pc]

\* The local variables are gone; what is kept is for the properties.
Over(a, odd) == [NewAct EXCEPT !.pc = "over", !.cur = act[a].cur, !.odd = act[a].odd \cup odd]
Ends(a) == act' = [act EXCEPT ![a] = Over(a, {})]

Tick ==
  /\ clock < MaxTime
  /\ clock' = clock + 1
  /\ UNCHANGED <<settings, checked, portal, note, act, faults>>

-----------------------------------------------------------------------------
(* Where checks come from. *)

\* enqueue_due_check: one try a day, which is lost when the scheduler stops
\* between its commit and submit_job.
EnqueueDue(j) ==
  /\ At(<<j, 1>>, "none")
  /\ Morning /\ settings.triedDay # Today
  /\ settings' = [settings EXCEPT !.triedDay = Today]
  /\ \/ Goes(<<j, 1>>, "claim") /\ UNCHANGED faults
     \/ faults > 0 /\ faults' = faults - 1 /\ UNCHANGED act
  /\ UNCHANGED <<clock, checked, portal, note>>

CheckNow(j) ==
  /\ At(<<j, 1>>, "none")
  /\ Goes(<<j, 1>>, "claim")
  /\ UNCHANGED <<clock, settings, checked, portal, note, faults>>

\* The job queue executes the job of a dead worker again.
Again(j, n) ==
  /\ n > 1 /\ At(<<j, n - 1>>, "dead") /\ At(<<j, n>>, "none")
  /\ clock >= act[<<j, n - 1>>].at + QueueLease
  /\ Goes(<<j, n>>, "claim")
  /\ UNCHANGED <<clock, settings, checked, portal, note, faults>>

\* Nothing cleans up: not the lock, not the session at the portal.
Die(a) ==
  /\ act[a].pc \notin {"none", "over", "dead"} /\ faults > 0
  /\ act' = [act EXCEPT ![a] = [Over(a, {}) EXCEPT !.pc = "dead", !.at = clock,
                                                   !.lease = act[a].lease]]
  /\ faults' = faults - 1
  /\ UNCHANGED <<clock, settings, checked, portal, note>>

-----------------------------------------------------------------------------
(* run_check_job. *)

\* Under FOR UPDATE.  The loser leaves a row that says "skipped", and ends.
ClaimFor(r, lease) ==
  /\ At(r, "claim")
  /\ IF settings.lock # None /\ settings.until > clock
     THEN Ends(r) /\ UNCHANGED settings
     ELSE /\ settings' = [settings EXCEPT !.lock = r, !.until = clock + lease]
          /\ act' = [act EXCEPT ![r].pc = "login", ![r].seen = Due, ![r].until = clock + lease,
                                ![r].lease = FirstLease]
  /\ UNCHANGED <<clock, checked, portal, note, faults>>

\* Mutant of Claim: the lock is reserved for the whole scan.
Claim_UpFront(r) == ClaimFor(r, FirstLease + Pages * Window)

Claim(r) == ClaimFor(r, FirstLease)

\* A heartbeat comes before each attempt, queue and page.  _renew_lock reads the
\* row without locking it, and leaves the lock of another check alone,
Heartbeat(r) ==
  /\ act[r].seen = Due /\ (At(r, "login") \/ (At(r, "scan") /\ act[r].page < Pages))
  /\ act' = [act EXCEPT ![r].seen = IF settings.lock = r THEN clock ELSE Never]
  /\ UNCHANGED <<clock, settings, checked, portal, note, faults>>

\* and writes when the lock ends, whoever holds it by then.
RenewLock(r) ==
  /\ act[r].seen >= 0
  /\ \E now \in act[r].seen..clock :
       /\ settings' = [settings EXCEPT !.until = now + Window]
       /\ act' = [act EXCEPT
            ![r].seen = Never,
            ![r].until = IF settings.lock = r THEN now + Window ELSE @,
            ![r].lease = IF settings.lock = r THEN Window ELSE @,
            ![r].odd = IF settings.lock \in {r, None} THEN @ ELSE @ \cup {"rewrote"}]
  /\ UNCHANGED <<clock, checked, portal, note, faults>>

\* The attempt has raised: another one, or the check has failed.
NextTry(r) ==
  LET more == act[r].tries + 1 < CheckMaxAttempts
  IN [act[r] EXCEPT !.tries = @ + 1, !.page = 0, !.seen = IF more THEN Due ELSE Never,
                    !.pc = IF more THEN "login" ELSE "release"]

\* An attempt of fetch_tracker_with_retries logs in after its heartbeat, which
\* the portal refuses while the account is logged in.
Login(r) ==
  /\ At(r, "login") /\ act[r].seen = Never
  /\ IF portal = None
     THEN portal' = r /\ act' = [act EXCEPT ![r].pc = "scan", ![r].seen = Due]
     ELSE act' = [act EXCEPT ![r] = NextTry(r)] /\ UNCHANGED portal
  /\ UNCHANGED <<clock, settings, checked, note, faults>>

\* One more page, after a heartbeat.
ScanPage(r) ==
  /\ At(r, "scan") /\ act[r].page < Pages /\ act[r].seen = Never
  /\ act' = [act EXCEPT ![r].page = @ + 1, ![r].seen = Due]
  /\ UNCHANGED <<clock, settings, checked, portal, note, faults>>

\* Mutant of Leave: only a scan that succeeded logs out.
Leave_OnSuccess(r, next) ==
  \/ portal' = (IF next.pc = "record" THEN None ELSE portal) /\ act' = [act EXCEPT ![r] = next] /\ UNCHANGED faults
  \/ /\ faults > 0 /\ faults' = faults - 1
     /\ act' = [act EXCEPT ![r] = [next EXCEPT !.odd = @ \cup {"stuck"}]]
     /\ UNCHANGED portal

\* The finally clause of fetch_tracker; the logout may fail silently.
Leave(r, next) ==
  \/ portal' = None /\ act' = [act EXCEPT ![r] = next] /\ UNCHANGED faults
  \/ /\ faults > 0 /\ faults' = faults - 1
     /\ act' = [act EXCEPT ![r] = [next EXCEPT !.odd = @ \cup {"stuck"}]]
     /\ UNCHANGED portal

\* fetch_tracker returns after the last page, or raises at any.
Scanned(r) ==
  /\ At(r, "scan")
  /\ \/ act[r].page = Pages /\ Leave(r, [act[r] EXCEPT !.pc = "record", !.page = 0, !.tries = 0,
                                                         !.seen = Never])
     \/ Leave(r, NextTry(r))
  /\ UNCHANGED <<clock, settings, checked, note>>

\* Mutant of Record: what was already sent is put back as well.
Record_Resends(r) ==
  /\ At(r, "record")
  /\ checked' = TRUE
  /\ IF r[1] \in Scheduled
     THEN /\ note' = [note EXCEPT ![Daily(Today)].status = "pending"]
          /\ act' = [act EXCEPT ![r].pc = "deliver", ![r].cur = Daily(Today)]
     ELSE Goes(r, "release") /\ UNCHANGED note
  /\ UNCHANGED <<clock, settings, portal, faults>>

\* The check row and the mail of the day, in one transaction.
Record(r) ==
  /\ At(r, "record")
  /\ checked' = TRUE
  /\ IF r[1] \in Scheduled
     THEN /\ note' = [note EXCEPT ![Daily(Today)].status = IF @ \in {"none", "failed"} THEN "pending" ELSE @]
          /\ act' = [act EXCEPT ![r].pc = "deliver", ![r].cur = Daily(Today)]
     ELSE Goes(r, "release") /\ UNCHANGED note
  /\ UNCHANGED <<clock, settings, portal, faults>>

\* The except clause: a row that says "error".  The heartbeat before an attempt
\* is not retried either.
Raises(r) ==
  /\ (At(r, "login") /\ act[r].seen # Never) \/ act[r].pc \in {"record", "deliver"}
  /\ faults > 0 /\ faults' = faults - 1
  /\ act' = [act EXCEPT ![r].pc = "release", ![r].seen = Never]
  /\ UNCHANGED <<clock, settings, checked, portal, note>>

\* Mutant of Release: the lock is cleared, whoever holds it.
Release_Any(r) ==
  /\ At(r, "release")
  /\ settings' = [settings EXCEPT !.lock = None, !.until = Never]
  /\ Ends(r)
  /\ UNCHANGED <<clock, checked, portal, note, faults>>

\* _release_lock reads the row without locking it,
Release(r) ==
  /\ At(r, "release")
  /\ IF settings.lock = r THEN Goes(r, "clear") ELSE Ends(r)
  /\ UNCHANGED <<clock, settings, checked, portal, note, faults>>

\* and clears the lock if it was its own.
Clear(r) ==
  /\ At(r, "clear")
  /\ settings' = [settings EXCEPT !.lock = None, !.until = Never]
  /\ act' = [act EXCEPT ![r] = Over(r, IF settings.lock \notin {r, None} THEN {"raced"} ELSE {})]
  /\ UNCHANGED <<clock, checked, portal, note, faults>>

-----------------------------------------------------------------------------
(* _deliver_notification, for a check or for send_now. *)

\* What comes after the delivery.
Answered(a) == IF a \in Runs THEN [act[a] EXCEPT !.pc = "release", !.cur = None] ELSE Over(a, {})

\* Under FOR UPDATE: skipped if somebody else has sent it, or is about to.
StartDelivery(a) ==
  /\ At(a, "deliver")
  /\ IF note[act[a].cur].status \in {"pending", "failed"}
     THEN note' = [note EXCEPT ![act[a].cur].status = "sending"] /\ Goes(a, "sending")
     ELSE act' = [act EXCEPT ![a] = Answered(a)] /\ UNCHANGED note
  /\ UNCHANGED <<clock, settings, checked, portal, faults>>

Takes(a) ==
  /\ At(a, "sending")
  /\ note' = [note EXCEPT ![act[a].cur].taken = @ + 1]
  /\ Goes(a, "taken")
  /\ UNCHANGED <<clock, settings, checked, portal, faults>>

\* Anything raises, up to the commit of "sent": the mail counts as failed,
\* even when the server has taken it.
Refused(a) ==
  /\ act[a].pc \in {"sending", "taken"} /\ faults > 0
  /\ note' = [note EXCEPT ![act[a].cur].status = "failed",
                          ![act[a].cur].doubtful = @ + IF At(a, "taken") THEN 1 ELSE 0]
  /\ act' = [act EXCEPT ![a] = Answered(a)]
  /\ faults' = faults - 1
  /\ UNCHANGED <<clock, settings, checked, portal>>

MarkSent(a) ==
  /\ At(a, "taken")
  /\ note' = [note EXCEPT ![act[a].cur].status = "sent"]
  /\ settings' = IF act[a].cur[1] = "scheduled" THEN [settings EXCEPT !.sentDay = Today] ELSE settings
  /\ act' = [act EXCEPT ![a] = Answered(a)]
  /\ UNCHANGED <<clock, checked, portal, faults>>

\* send_manual_mail of the newest complete check.
SendNow(m) ==
  /\ At(m, "none") /\ checked
  /\ note' = [note EXCEPT ![ByHand(m)].status = "pending"]
  /\ act' = [act EXCEPT ![m].pc = "deliver", ![m].cur = ByHand(m)]
  /\ UNCHANGED <<clock, settings, checked, portal, faults>>

Next ==
  \/ Tick
  \/ \E j \in Scheduled : EnqueueDue(j)
  \/ \E j \in Manual : CheckNow(j)
  \/ \E j \in Jobs, n \in 1..MaxAttempts : Again(j, n)
  \/ \E r \in Runs :
       \/ Claim(r) \/ Heartbeat(r) \/ RenewLock(r) \/ Login(r) \/ ScanPage(r) \/ Scanned(r) \/ Record(r) \/ Raises(r)
       \/ Release(r) \/ Clear(r)
  \/ \E m \in Mails : SendNow(m)
  \/ \E a \in Actors : Die(a) \/ StartDelivery(a) \/ Takes(a) \/ Refused(a) \/ MarkSent(a)

Spec == Init /\ [][Next]_vars

-----------------------------------------------------------------------------
(* Properties. *)

TypeOK ==
  /\ clock \in 0..MaxTime
  /\ settings \in Settings
  /\ checked \in BOOLEAN
  /\ portal \in Runs \cup {None}
  /\ note \in [Keys -> Note]
  /\ act \in [Actors -> Act]
  /\ faults \in Nat

Working(r) == act[r].pc \notin {"none", "claim", "over", "dead"}

\* A renewal that read its own lock was written over the lock of the check that
\* had taken it since.
Rewritten == \E x \in Runs : "rewrote" \in act[x].odd
Raced == \E x \in Runs : "raced" \in act[x].odd

\* Two checks work at the same time only when one of them went longer than its
\* lease without a renewal, or one that had did not find out before its release or
\* its renewal came through and took away, or cut short, its successor's lock.
OneCheckWithinWindow ==
  \A r, q \in Runs :
    r # q /\ Working(r) /\ Working(q) /\ ~Raced /\ ~Rewritten
    => act[r].until <= clock \/ act[q].until <= clock

\* A check whose worker died keeps the others out for the window at most, or for
\* its first lease if it died before it renewed that, however long its scan would
\* have taken: only another check that is late with its own renewal can add to it.
DeadCheckLetsGo ==
  \A r \in Runs :
    At(r, "dead") /\ settings.lock = r /\ ~Rewritten => settings.until <= act[r].at + act[r].lease

\* A check that ends, whether it found anything or failed, leaves the account
\* logged out: only a dead worker or a portal that ignores the logout keeps
\* the staff out.
AccountIsFreed ==
  portal # None => At(portal, "scan") \/ At(portal, "dead") \/ "stuck" \in act[portal].odd

\* No mail goes out twice, even when a job is executed again or two checks
\* overlap, but for a failure after the server had taken it.
MailedOnce == \A k \in Keys : note[k].taken <= note[k].doubtful + 1

\* Checks that renew their lock in time do not overlap, and what they or a
\* request find in the outbox is not mailed twice.
OneCheckOneMail == OneCheckWithinWindow /\ MailedOnce

\* A day counts as mailed only by a scheduled mail of that day or, past
\* midnight, of the day before.
SentDayTrue ==
  settings.sentDay # Never => \E d \in Days : d <= settings.sentDay /\ note[Daily(d)].status = "sent"

\* The state is well formed, the account is logged out and the day is marked
\* by its mail.
StateIsConsistent == TypeOK /\ AccountIsFreed /\ SentDayTrue

\* The inductive invariant behind the proofs.  A check that scans is the one that
\* is logged in.  Heartbeats are of checks that log in or scan, and the token of
\* the lock is one of a check that had come to claim it.  A check that holds the
\* lock knows how far it goes, and one that still counts on it holds it, unless a
\* late release or renewal came between.
ScannerIsLoggedIn == \A r \in Runs : At(r, "scan") => portal = r

LockIsKnown ==
  /\ \A r \in Runs :
       /\ act[r].seen <= clock
       /\ act[r].seen # Never => At(r, "login") \/ At(r, "scan")
       /\ settings.lock = r => ~At(r, "none") /\ ~At(r, "claim")
  /\ ~Rewritten =>
       \A r \in Runs : Working(r) /\ settings.lock = r =>
         act[r].until = settings.until /\ settings.until <= clock + act[r].lease
  /\ ~Rewritten /\ ~Raced =>
       \A r \in Runs : Working(r) /\ act[r].until > clock => settings.lock = r

\* A check delivers the mail of a day that has come, a request its own, whose row
\* is not there before.
Delivers(a) == act[a].pc \in {"deliver", "sending", "taken"}

KeysOfActors ==
  /\ \A a \in Actors : Delivers(a) =>
       IF a \in Mails THEN act[a].cur = ByHand(a)
       ELSE \E d \in Days : act[a].cur = Daily(d) /\ d <= Today
  /\ \A m \in Mails : At(m, "none") => note[ByHand(m)].status = "none"

\* At most one delivers a row, and only while the row says "sending"; before it
\* has, every mail taken so far was one of a failure.
Delivering(a, k) == act[a].pc \in {"sending", "taken"} /\ act[a].cur = k

OutboxOK ==
  \A k \in Keys :
    /\ note[k].taken <= note[k].doubtful + 1
    /\ note[k].status \in {"none", "pending", "failed"} => note[k].taken <= note[k].doubtful
    /\ \A a \in Actors : Delivering(a, k) =>
         /\ note[k].status = "sending"
         /\ At(a, "sending") => note[k].taken <= note[k].doubtful
         /\ \A b \in Actors : Delivering(b, k) => b = a

Inductive ==
  /\ StateIsConsistent /\ DeadCheckLetsGo
  /\ ScannerIsLoggedIn /\ LockIsKnown /\ KeysOfActors /\ OutboxOK
=============================================================================
