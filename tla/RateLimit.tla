------------------------------ MODULE RateLimit ------------------------------
(***************************************************************************)
(* SlidingWindowLimiter.enforce of backend/app/rate_limit.py: one row of   *)
(* recent attempts per key, shared by every API process, and one MySQL     *)
(* lock per key.  The time of an attempt is read before its wait for the   *)
(* lock, so attempts may be counted in another order than that of their    *)
(* times.                                                                  *)
(***************************************************************************)
EXTENDS Integers, FiniteSets

CONSTANTS
  Callers,    \* requests that call enforce
  LimitKeys,  \* the limiter_key values
  Limit,      \* attempts let through in a window, for each key
  Window,     \* window_seconds
  LockWait,   \* seconds GET_LOCK waits
  NoOne,
  MaxTime     \* bound

VARIABLES
  clock,
  bucketLock,       \* for each key, the caller whose connection holds its lock
  events,     \* rate_limit_buckets.events_json, and whose attempt each time is
  call,       \* where each caller is in enforce
  let         \* the attempts let through, when they came and when they were counted

limiter == <<clock, bucketLock, events, call, let>>

Call == [pc: {"idle", "wait", "locked", "allowed", "blocked", "busy", "failed"},
         key: LimitKeys \cup {NoOne}, now: Int, outcome: {"none", "allowed", "blocked", "failed"}]

Idle == [pc |-> "idle", key |-> NoOne, now |-> 0, outcome |-> "none"]

RateLimitInit ==
  /\ clock = 0
  /\ bucketLock = [k \in LimitKeys |-> NoOne]
  /\ events = [k \in LimitKeys |-> {}]
  /\ call = [c \in Callers |-> Idle]
  /\ let = [k \in LimitKeys |-> {}]

Second ==
  /\ clock < MaxTime
  /\ clock' = clock + 1
  /\ UNCHANGED <<bucketLock, events, call, let>>

\* now = time.time()
Enter(c, k) ==
  /\ call' = [call EXCEPT ![c] = [pc |-> "wait", key |-> k, now |-> clock, outcome |-> "none"]]
  /\ UNCHANGED <<clock, bucketLock, events, let>>

Acquire(c) ==
  /\ call[c].pc = "wait" /\ bucketLock[call[c].key] = NoOne
  /\ bucketLock' = [bucketLock EXCEPT ![call[c].key] = c]
  /\ call' = [call EXCEPT ![c].pc = "locked"]
  /\ UNCHANGED <<clock, events, let>>

\* GET_LOCK gives up: 503.
TimesOut(c) ==
  /\ call[c].pc = "wait" /\ bucketLock[call[c].key] # NoOne /\ clock >= call[c].now + LockWait
  /\ call' = [call EXCEPT ![c] = [Idle EXCEPT !.pc = "busy"]]
  /\ UNCHANGED <<clock, bucketLock, events, let>>

\* Mutant of Recent: an attempt of a later time than this one's is no recent one.
Recent_InOrder(c) ==
  {e \in events[call[c].key] : e.now > call[c].now - Window /\ e.now <= call[c].now}

\* The attempts that still count, at the time of this one.
Recent(c) == {e \in events[call[c].key] : e.now > call[c].now - Window}

\* The transaction on the bucket, up to its commit.
Count(c) ==
  LET k == call[c].key
      recent == Recent(c)
      allowed == Cardinality(recent) < Limit
  IN
  /\ call[c].pc = "locked" /\ call[c].outcome = "none"
  /\ events' = [events EXCEPT ![k] = recent \cup IF allowed THEN {[by |-> c, now |-> call[c].now]} ELSE {}]
  /\ call' = [call EXCEPT ![c].outcome = IF allowed THEN "allowed" ELSE "blocked"]
  /\ let' = IF allowed THEN [let EXCEPT ![k] = @ \cup {[by |-> c, now |-> call[c].now, at |-> clock]}] ELSE let
  /\ UNCHANGED <<clock, bucketLock>>

\* Its rollback: 500.
Fails(c) ==
  /\ call[c].pc = "locked" /\ call[c].outcome = "none"
  /\ call' = [call EXCEPT ![c].outcome = "failed"]
  /\ UNCHANGED <<clock, bucketLock, events, let>>

\* Mutant of LetsGo: the lock is let go only after a transaction that committed.
LetsGo_AfterCommit(c) ==
  /\ call[c].pc = "locked" /\ call[c].outcome # "none"
  /\ bucketLock' = IF call[c].outcome = "failed" THEN bucketLock ELSE [bucketLock EXCEPT ![call[c].key] = NoOne]
  /\ call' = [call EXCEPT ![c] = [Idle EXCEPT !.pc = call[c].outcome]]
  /\ UNCHANGED <<clock, events, let>>

\* The finally clause: RELEASE_LOCK, or the connection that holds it is dropped.
LetsGo(c) ==
  /\ call[c].pc = "locked" /\ call[c].outcome # "none"
  /\ bucketLock' = [bucketLock EXCEPT ![call[c].key] = NoOne]
  /\ call' = [call EXCEPT ![c] = [Idle EXCEPT !.pc = call[c].outcome]]
  /\ UNCHANGED <<clock, events, let>>

Enforce(c) == Acquire(c) \/ TimesOut(c) \/ Count(c) \/ Fails(c) \/ LetsGo(c)

-----------------------------------------------------------------------------

RateLimitTypeOK ==
  /\ clock \in 0..MaxTime
  /\ bucketLock \in [LimitKeys -> Callers \cup {NoOne}]
  /\ events \in [LimitKeys -> SUBSET [by: Callers, now: 0..MaxTime]]
  /\ call \in [Callers -> Call]

\* More attempts than the limit are let through in less than a window only by
\* as much as the slowest of them took to be counted: whatever the processes
\* and the order in which they get the lock, an attempt is never forgotten
\* early.
WindowBounded ==
  \A k \in LimitKeys : \A late \in SUBSET let[k] :
    Cardinality(late) > Limit
    => \E x, y, z \in late : x.at - y.at >= Window - (z.at - z.now)

\* The lock of a key is held only by a caller that is counting its attempt: a
\* transaction that fails does not leave everyone else with 503.
LocksAreLetGo ==
  \A k \in LimitKeys : bucketLock[k] # NoOne => call[bucketLock[k]].pc = "locked" /\ call[bucketLock[k]].key = k

\* What holds in between: the times are in order, every attempt let through is
\* in the row as long as it can count, and each caller passes a key once.
CallsAreTimed == \A c \in Callers : call[c].pc \in {"wait", "locked"} => call[c].key \in LimitKeys /\ call[c].now \in 0..clock
LetAreTimed ==
  \A k \in LimitKeys : \A e \in let[k] : e.by \in Callers /\ e.now \in 0..clock /\ e.at \in e.now..clock
StillCounted ==
  \A k \in LimitKeys : \A e \in let[k] : e.now > clock - Window => [by |-> e.by, now |-> e.now] \in events[k]
LetOnce == \A k \in LimitKeys : \A d, e \in let[k] : d.by = e.by => d = e
CountsOnce ==
  \A c \in Callers :
    call[c].pc \in {"wait", "locked"} /\ call[c].outcome = "none" => \A e \in let[call[c].key] : e.by # c
=============================================================================
