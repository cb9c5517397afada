---------------------------- MODULE MailSchedule ----------------------------
(***************************************************************************)
(* When an automatic report mail is due: the settings row of one           *)
(* application (backend/app/services/scheduled_report_mail.py), the        *)
(* administrator who saves it, and the single scheduler process that marks *)
(* a due slot as started and then submits the job.                         *)
(*                                                                         *)
(* A moment is a number of ticks; the clock starts on day 1, so that 0 is  *)
(* "never".  A slot "YYYY-MM-DD HH:MM" is the moment it names.  The days   *)
(* of the weekly or monthly schedule are a set of days of a cycle.         *)
(***************************************************************************)
EXTENDS Integers, FiniteSetsExt

CONSTANTS
  DayTicks,     \* ticks of a day
  CycleDays,    \* days of the cycle that send_days or send_month_days choose from
  SearchDays,   \* how many days ahead next_run looks; 100 in the code
  Forms,        \* what the administrator may save
  Default,      \* what a new row holds
  LastTick, MaxSaves    \* bounds of the model

\* The settings that save_settings accepts.
Form == [enabled: BOOLEAN, onTimes: BOOLEAN, times: (SUBSET (0..DayTicks-1)) \ {{}},
         days: SUBSET (0..CycleDays-1), every: {0} \cup 1..DayTicks-1, start: 0..DayTicks-1]

Accepted(f) == f.enabled => (f.onTimes \/ f.every # 0) /\ (f.onTimes => f.days # {})

ASSUME ScheduleConstants ==
  /\ DayTicks \in Nat \ {0, 1} /\ CycleDays \in Nat \ {0} /\ SearchDays \in Nat
  /\ SearchDays > CycleDays
  /\ LastTick \in Nat /\ MaxSaves \in Nat
  /\ \A f \in Forms \cup {Default} : f \in Form /\ Accepted(f)
  /\ ~Default.enabled

VARIABLES
  now,        \* now_ist()
  row,        \* the settings, and up to which slot each schedule was started
  save,       \* a save that is under way
  sched,      \* the job that the scheduler has marked and not yet submitted
  done,       \* history: the latest moment and slots that a job was started for
  saves       \* how many saves there have been

vars == <<now, row, save, sched, done, saves>>

-----------------------------------------------------------------------------
(* The schedule. *)

DayStart(t) == (t \div DayTicks) * DayTicks

RunsOn(r, t) == (t \div DayTicks) % CycleDays \in r.days

SlotsOf(r, t) == {DayStart(t) + time : time \in r.times}

\* due_slot: the latest slot of today that has come and was not started; 0 if none.
ClockDue(r, t) ==
  LET due == {s \in SlotsOf(r, t) : r.attempted < s /\ s <= t}
  IN IF r.enabled /\ r.onTimes /\ RunsOn(r, t) /\ due # {} THEN Max(due) ELSE 0

\* Mutant of Anchor: counts from the coming start time.
Anchor_NextStart(start, every, t) ==
  LET first == DayStart(t) + start
  IN IF first > t THEN first ELSE first + ((t - first) \div every) * every

\* hourly_anchor: the slot that counts as done when the schedule is saved.
Anchor(start, every, t) ==
  LET first == DayStart(t) + start
  IN IF first > t THEN first - every ELSE first + ((t - first) \div every) * every

\* The latest slot of the every-few-hours schedule at t.
LatestEvery(r, t) ==
  IF r.lastEvery = 0 THEN Anchor(r.start, r.every, t)
  ELSE r.lastEvery + Max({0, (t - r.lastEvery) \div r.every}) * r.every

\* due_every_slot.
EveryDue(r, t) ==
  IF r.enabled /\ r.every # 0 /\ LatestEvery(r, t) > r.lastEvery THEN LatestEvery(r, t) ELSE 0

Due(r, t) == ClockDue(r, t) # 0 \/ EveryDue(r, t) # 0

\* _next_clock_run, as a set of at most one moment.
NextClock(r, t) ==
  LET open == {s \in UNION {SlotsOf(r, t + d * DayTicks) : d \in 0..SearchDays-1} :
                 RunsOn(r, s) /\ s > r.attempted}
  IN IF open = {} THEN {} ELSE {Max({Min(open), t})}

\* _next_every_run.
NextEvery(r, t) ==
  IF r.every = 0 THEN {}
  ELSE IF LatestEvery(r, t) > r.lastEvery THEN {Max({LatestEvery(r, t), t})}
  ELSE {Max({LatestEvery(r, t) + r.every, t})}

\* Mutant of NextRun: an every-few-hours mail hides the days and times.
NextRun_EveryFirst(r, t) ==
  LET upcoming == IF NextEvery(r, t) # {} THEN NextEvery(r, t)
                  ELSE IF r.onTimes THEN NextClock(r, t) ELSE {}
  IN IF r.enabled /\ upcoming # {} THEN Min(upcoming) ELSE 0

\* next_run: what the settings page promises; 0 when switched off.
NextRun(r, t) ==
  LET upcoming == (IF r.onTimes THEN NextClock(r, t) ELSE {}) \cup NextEvery(r, t)
  IN IF r.enabled /\ upcoming # {} THEN Min(upcoming) ELSE 0

-----------------------------------------------------------------------------
(* The administrator. *)

Idle == [on |-> FALSE, clock |-> 0, every |-> 0]
NotSaving == [on |-> FALSE]

Init ==
  /\ now \in DayTicks..2*DayTicks-1
  /\ row = [enabled |-> FALSE, onTimes |-> Default.onTimes, times |-> Default.times,
            days |-> Default.days, every |-> Default.every, start |-> Default.start,
            attempted |-> 0, lastEvery |-> 0]
  /\ save = NotSaving
  /\ sched = Idle
  /\ done = [at |-> 0, clock |-> 0, every |-> 0]
  /\ saves = 0

\* Mutant of PassedSlot: a slot of this very minute is not passed.
PassedSlot_Strict(f, t) ==
  LET passed == {s \in SlotsOf(f, t) : s < t} IN IF passed = {} THEN 0 ELSE Max(passed)

\* The last of today's times that has come; 0 if none.
PassedSlot(f, t) ==
  LET passed == {s \in SlotsOf(f, t) : s <= t} IN IF passed = {} THEN 0 ELSE Max(passed)

\* What the row holds after the UPDATE: an attribute that was left alone (0) or set to
\* the value it was loaded with is not written, whatever it is by now.
Stored(new, loaded, current) == IF new \in {0, loaded} THEN current ELSE new

\* save_settings loads the row and takes the time, without a lock.
SaveBegin(f) ==
  /\ ~save.on /\ saves < MaxSaves
  /\ save' = [on |-> TRUE, form |-> f, at |-> now,
              loaded |-> [attempted |-> row.attempted, lastEvery |-> row.lastEvery]]
  /\ saves' = saves + 1
  /\ UNCHANGED <<now, row, sched, done>>

\* db.commit: what counts as started is what had come at the time that was taken, and
\* a start since then is forgotten (done).
SaveCommit ==
  /\ save.on
  /\ LET f == save.form
         passed == IF f.enabled THEN PassedSlot(f, save.at) ELSE 0
         anchor == IF f.enabled /\ f.every # 0 THEN Anchor(f.start, f.every, save.at) ELSE 0
     IN row' = [enabled |-> f.enabled, onTimes |-> f.onTimes, times |-> f.times, days |-> f.days,
                every |-> f.every, start |-> f.start,
                attempted |-> Stored(passed, save.loaded.attempted, row.attempted),
                lastEvery |-> Stored(anchor, save.loaded.lastEvery, row.lastEvery)]
  /\ done' = [at |-> Min({done.at, save.at}), clock |-> Min({done.clock, save.at}),
              every |-> Min({done.every, save.at})]
  /\ save' = NotSaving
  /\ UNCHANGED <<now, sched, saves>>

-----------------------------------------------------------------------------
(* The scheduler. *)

\* Mutant of EnqueueMark: with both schedules due only one counts as started.
EnqueueMark_MarksOne ==
  /\ ~sched.on /\ Due(row, now)
  /\ sched' = [on |-> TRUE, clock |-> ClockDue(row, now),
               every |-> IF ClockDue(row, now) = 0 THEN EveryDue(row, now) ELSE 0]
  /\ row' = IF ClockDue(row, now) # 0 THEN [row EXCEPT !.attempted = ClockDue(row, now)]
            ELSE [row EXCEPT !.lastEvery = EveryDue(row, now)]
  /\ done' = [at |-> now, clock |-> Max({done.clock, sched'.clock}),
              every |-> Max({done.every, sched'.every})]
  /\ UNCHANGED <<now, save, saves>>

\* One pass of enqueue_due_checks, up to the commit under FOR UPDATE.
EnqueueMark ==
  /\ ~sched.on /\ Due(row, now)
  /\ sched' = [on |-> TRUE, clock |-> ClockDue(row, now), every |-> EveryDue(row, now)]
  /\ row' = [row EXCEPT
       !.attempted = IF ClockDue(row, now) # 0 THEN ClockDue(row, now) ELSE @,
       !.lastEvery = IF EveryDue(row, now) # 0 THEN EveryDue(row, now) ELSE @]
  /\ done' = [at |-> now, clock |-> Max({done.clock, ClockDue(row, now)}),
              every |-> Max({done.every, EveryDue(row, now)})]
  /\ UNCHANGED <<now, save, saves>>

\* submit_job is called.  Whether it returns or raises, or the scheduler is
\* stopped before it, the slot stays marked.
EnqueueSubmit ==
  /\ sched.on
  /\ sched' = Idle
  /\ UNCHANGED <<now, row, save, done, saves>>

Tick ==
  /\ now < LastTick
  /\ now' = now + 1
  /\ UNCHANGED <<row, save, sched, done, saves>>

Next ==
  \/ \E f \in Forms : SaveBegin(f)
  \/ SaveCommit \/ EnqueueMark \/ EnqueueSubmit \/ Tick

Spec == Init /\ [][Next]_vars

-----------------------------------------------------------------------------
(* Properties. *)

\* The settings keep their types, and no slot of the days / times schedule is
\* marked as started before it has come.
TypeOK ==
  /\ now \in DayTicks..(LastTick + 2 * DayTicks)
  /\ row \in [enabled: BOOLEAN, onTimes: BOOLEAN, times: SUBSET (0..DayTicks-1),
              days: SUBSET (0..CycleDays-1), every: 0..DayTicks-1, start: 0..DayTicks-1,
              attempted: 0..now, lastEvery: Nat]
  /\ save.on \in BOOLEAN /\ (save.on => save.form \in Forms)
  /\ sched \in [on: BOOLEAN, clock: Nat, every: Nat]

\* enqueue_due_checks starts a job "once per scheduled slot": no moment and no
\* slot of either schedule starts a second one, however long the scheduler was
\* down and however the settings are changed in between.  The one exception are
\* starts that overtook a save: the commit puts the mark back to the time the save
\* had taken (done is lowered to it), and only slots later than that start again.
OncePerSlot ==
  [][~sched.on /\ sched'.on =>
       /\ now > done.at
       /\ sched'.clock # 0 => sched'.clock > done.clock
       /\ sched'.every # 0 => sched'.every > done.every]_vars

\* "Saving must never fire a surprise mail": what is due once settings are saved has
\* come since the save took the time, so nothing is due if no time passed; and the
\* first mail of an every-few-hours schedule, unless that schedule started one while
\* the save was open, is at the first moment after that time that its start time and
\* steps give.
FirstMailInTime ==
  [][save.on /\ ~save'.on =>
       /\ \A s \in {ClockDue(row', now), EveryDue(row', now)} : s # 0 => s > save.at
       /\ row'.enabled /\ row'.every # 0 /\ row.lastEvery = save.loaded.lastEvery =>
            LET steps == {DayStart(save.at) + row'.start + k * row'.every : k \in 0..DayTicks}
            IN NextEvery(row', save.at) = {Min({s \in steps : s > save.at})}]_vars

\* The next run on the settings page is the first moment at which the
\* scheduler will find the mail due.
NextRunIsDue ==
  row.enabled =>
    LET next == NextRun(row, now)
    IN /\ next >= now
       /\ Due(row, next)
       /\ \A t \in now..next-1 : ~Due(row, t)

\* The settings are well formed, and the settings page tells the truth.
StateIsConsistent == TypeOK /\ NextRunIsDue
=============================================================================
