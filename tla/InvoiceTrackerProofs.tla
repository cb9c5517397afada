--------------------------- MODULE InvoiceTrackerProofs ---------------------------
(***************************************************************************)
(* Proofs about InvoiceTracker for all values of its constants that        *)
(* satisfy TrackerConstants: the settings row with its lock, the outbox    *)
(* and the account at the portal stay consistent, checks do not overlap,   *)
(* no mail goes out twice but a doubtful one.  The invariant is Inductive; *)
(* one lemma per conjunct shows that a step keeps it.                      *)
(***************************************************************************)
EXTENDS InvoiceTracker, TLAPS

-----------------------------------------------------------------------------
(* Keys, days and actors. *)

\* What TrackerConstants says of the constants.
LEMMA ParamsOK ==
  /\ MaxTime \in Nat /\ DayTicks \in Nat /\ DayTicks > 0 /\ MaxAttempts \in Nat
  /\ Window \in Nat /\ FirstLease \in Nat /\ Pages \in Nat /\ CheckMaxAttempts \in Nat
  /\ None \notin Runs /\ None \notin Keys
  /\ Runs \subseteq Actors /\ Mails \subseteq Actors
  BY TrackerConstants DEF Actors

\* Keys of different mails differ.
LEMMA KeysDiffer ==
  /\ \A d \in Days : Daily(d) \in Keys /\ Daily(d)[1] = "scheduled"
  /\ \A m \in Mails : ByHand(m) \in Keys /\ ByHand(m)[1] # "scheduled"
  /\ \A d, m : Daily(d) # ByHand(m)
  /\ \A d, e : Daily(d) = Daily(e) => d = e
  /\ \A m, n : ByHand(m) = ByHand(n) => m = n
  BY DEF Keys, Daily, ByHand

\* Division does not turn the order of two times round.
LEMMA DivGrows ==
  ASSUME NEW a \in Nat, NEW b \in Nat, a <= b, NEW d \in Nat, d > 0
  PROVE  a \div d \in Nat /\ b \div d \in Nat /\ a \div d <= b \div d
  OBVIOUS

\* The date on the clock is one of the days.
LEMMA TodayIsDay == clock \in 0..MaxTime => Today \in Days /\ Today \in Nat
  BY ParamsOK, DivGrows DEF Today, Days

\* The date does not go back.
LEMMA TodayGrows ==
  clock \in 0..MaxTime /\ clock' \in 0..MaxTime /\ clock' >= clock => Today' \in Nat /\ Today' >= Today
<1>1. Today = clock \div DayTicks /\ Today' = clock' \div DayTicks
  BY DEF Today
<1> SUFFICES ASSUME clock \in 0..MaxTime, clock' \in 0..MaxTime, clock' >= clock
             PROVE  Today' \in Nat /\ Today' >= Today
  OBVIOUS
<1>2. clock \in Nat /\ clock' \in Nat /\ clock <= clock'
  BY ParamsOK
<1>3. (clock \div DayTicks) \in Nat /\ (clock' \div DayTicks) \in Nat /\ (clock \div DayTicks) <= (clock' \div DayTicks)
  BY <1>2, ParamsOK, DivGrows
<1> QED
  BY <1>1, <1>3

\* What a delivery may find in cur.
LEMMA CurIsKey ==
  ASSUME KeysOfActors, NEW a \in Actors, Delivers(a)
  PROVE  /\ act[a].cur \in Keys
         /\ act[a].cur[1] = "scheduled" => \E d \in Days : act[a].cur = Daily(d) /\ d <= Today
         /\ \A m \in Mails : At(m, "none") => act[a].cur # ByHand(m)
  BY KeysDiffer DEF KeysOfActors, Delivers, At

\* Fields of an actor.
LEMMA ActFields ==
  ASSUME NEW k \in Act, NEW pc \in Pcs
  PROVE  /\ [k EXCEPT !.pc = pc] \in Act
         /\ \A n \in Int : [k EXCEPT !.pc = pc, !.seen = n] \in Act /\ [k EXCEPT !.seen = n] \in Act
         /\ \A p \in 0..Pages, n \in Int : [k EXCEPT !.page = p, !.seen = n] \in Act
         /\ \A p \in 0..Pages, t \in Nat, n \in Int : [k EXCEPT !.pc = pc, !.page = p, !.tries = t, !.seen = n] \in Act
         /\ \A n, u \in Int : [k EXCEPT !.pc = pc, !.seen = n, !.until = u, !.lease = FirstLease] \in Act
         /\ \A c \in Keys : [k EXCEPT !.pc = pc, !.cur = c] \in Act
  BY DEF Act

\* What an actor noticed is a set of oddities.
LEMMA ActOdd ==
  ASSUME NEW k \in Act, NEW odd \in SUBSET {"raced", "rewrote", "stuck"}
  PROVE  [k EXCEPT !.odd = odd] \in Act
  BY DEF Act

\* An actor that is over is an actor, and noticed what it had noticed and what is added.
LEMMA OverOK ==
  ASSUME TypeOK, NEW a \in Actors, NEW odd, odd \subseteq {"raced", "rewrote", "stuck"}
  PROVE  /\ Over(a, odd) \in Act /\ Over(a, odd).pc = "over" /\ Over(a, odd).seen = Never
         /\ Over(a, odd).odd = act[a].odd \cup odd
<1> DEFINE all == act[a].odd \cup odd
<1>1. act[a].cur \in Keys \cup {None} /\ all \in SUBSET {"raced", "rewrote", "stuck"}
  BY DEF TypeOK, Act
<1>2. Over(a, odd) = [pc |-> "over", tries |-> 0, page |-> 0, seen |-> -1, until |-> -1, lease |-> 0,
                      at |-> -1, cur |-> act[a].cur, odd |-> all]
  <2> HIDE DEF all
  <2>1. Over(a, odd) = [NewAct EXCEPT !.pc = "over", !.cur = act[a].cur, !.odd = all]
    BY DEF Over, all
  <2> QED
    BY <2>1 DEF NewAct, Never
<1> HIDE DEF all
<1>3. 0 \in 0..Pages /\ 0 \in Nat /\ -1 \in Int
  BY ParamsOK
<1>4. Over(a, odd) \in Act
  BY <1>1, <1>2, <1>3 DEF Act, Pcs
<1> QED
  BY <1>2, <1>4 DEF all, Never

\* An actor whose mail was answered is an actor that is done or lets the lock go.
LEMMA AnsweredOK ==
  ASSUME TypeOK, NEW a \in Actors
  PROVE  /\ Answered(a) \in Act /\ Answered(a).odd = act[a].odd
         /\ IF a \in Runs THEN Answered(a).pc = "release" /\ Answered(a).until = act[a].until
            ELSE Answered(a).pc = "over"
<1>1. CASE a \in Runs
  BY <1>1 DEF TypeOK, Answered, Act, Pcs
<1>2. CASE a \notin Runs
  <2>1. Answered(a) = Over(a, {})
    BY <1>2 DEF Answered
  <2>2. Over(a, {}) \in Act /\ Over(a, {}).pc = "over" /\ Over(a, {}).odd = act[a].odd \cup {}
    BY OverOK
  <2> QED
    BY <1>2, <2>1, <2>2
<1> QED
  BY <1>1, <1>2

\* An actor that tries again, or gives up, is an actor.
LEMMA NextTryOK ==
  ASSUME TypeOK, NEW r \in Runs
  PROVE  /\ NextTry(r) \in Act /\ NextTry(r).odd = act[r].odd
         /\ NextTry(r).until = act[r].until /\ NextTry(r).lease = act[r].lease
         /\ \/ NextTry(r).pc = "login" /\ NextTry(r).seen = Due
            \/ NextTry(r).pc = "release" /\ NextTry(r).seen = Never
<1>1. act[r] \in Act
  BY ParamsOK DEF TypeOK
<1>2. act[r].tries + 1 \in Nat /\ 0 \in 0..Pages /\ Due \in Int /\ Never \in Int
  BY <1>1, ParamsOK DEF Act, Due, Never
<1> DEFINE tries == act[r].tries + 1
           k == [act[r] EXCEPT !.pc = "login", !.page = 0, !.tries = tries, !.seen = Due]
           l == [act[r] EXCEPT !.pc = "release", !.page = 0, !.tries = tries, !.seen = Never]
<1>3. NextTry(r) = IF tries < CheckMaxAttempts THEN k ELSE l
  BY <1>1 DEF NextTry, Act
<1>4. /\ k \in Act /\ k.odd = act[r].odd /\ k.until = act[r].until /\ k.lease = act[r].lease
      /\ k.pc = "login" /\ k.seen = Due
      /\ l \in Act /\ l.odd = act[r].odd /\ l.until = act[r].until /\ l.lease = act[r].lease
      /\ l.pc = "release" /\ l.seen = Never
  <2>1. "login" \in Pcs /\ "release" \in Pcs
    BY DEF Pcs
  <2>2. k \in Act /\ l \in Act
    BY <1>1, <1>2, <2>1, ActFields
  <2> QED
    BY <1>1, <2>2 DEF Act
<1> HIDE DEF k, l
<1> QED
  BY <1>3, <1>4

\* A heartbeat changes no more than what its check knows of the lock, and when the
\* lock ends.
LEMMA BeatOK ==
  ASSUME TypeOK, NEW r \in Runs, Heartbeat(r) \/ RenewLock(r)
  PROVE  /\ act' = [act EXCEPT ![r] = act'[r]] /\ act'[r] \in Act
         /\ act'[r].pc = act[r].pc /\ act'[r].cur = act[r].cur /\ act[r].odd \subseteq act'[r].odd
         /\ settings' \in Settings /\ settings'.lock = settings.lock /\ settings'.sentDay = settings.sentDay
         /\ UNCHANGED <<clock, checked, portal, note, faults>>
<1>1. act \in [Actors -> Act] /\ r \in Actors /\ act[r] \in Act /\ settings \in Settings /\ clock \in Nat
  BY ParamsOK DEF TypeOK
<1>2. CASE Heartbeat(r)
  <2> DEFINE n == IF settings.lock = r THEN clock ELSE Never
  <2>1. n \in Int
    BY <1>1 DEF Never
  <2>2. act' = [act EXCEPT ![r].seen = n] /\ settings' = settings
    BY <1>2 DEF Heartbeat
  <2> HIDE DEF n
  <2> QED
    BY <1>1, <1>2, <2>1, <2>2 DEF Heartbeat, Act
<1>3. CASE RenewLock(r)
  <2>1. PICK now \in act[r].seen..clock :
          /\ settings' = [settings EXCEPT !.until = now + Window]
          /\ act' = [act EXCEPT
               ![r].seen = Never,
               ![r].until = IF settings.lock = r THEN now + Window ELSE act[r].until,
               ![r].lease = IF settings.lock = r THEN Window ELSE act[r].lease,
               ![r].odd = IF settings.lock \in {r, None} THEN act[r].odd ELSE act[r].odd \cup {"rewrote"}]
    BY <1>1, <1>3 DEF RenewLock, Act
  <2> DEFINE u == IF settings.lock = r THEN now + Window ELSE act[r].until
             l == IF settings.lock = r THEN Window ELSE act[r].lease
             o == IF settings.lock \in {r, None} THEN act[r].odd ELSE act[r].odd \cup {"rewrote"}
  <2>2. /\ now + Window \in Int /\ u \in Int /\ l \in {0, Window, FirstLease}
        /\ o \in SUBSET {"raced", "rewrote", "stuck"} /\ act[r].odd \subseteq o /\ Never \in Int
    BY <1>1, ParamsOK DEF Act, Never
  <2>3. act' = [act EXCEPT ![r].seen = Never, ![r].until = u, ![r].lease = l, ![r].odd = o]
    BY <2>1
  <2> HIDE DEF u, l, o
  <2>4. act'[r] = [act[r] EXCEPT !.seen = Never, !.until = u, !.lease = l, !.odd = o]
    BY <1>1, <2>3
  <2>5. /\ act' = [act EXCEPT ![r] = act'[r]] /\ act'[r] \in Act
        /\ act'[r].pc = act[r].pc /\ act'[r].cur = act[r].cur /\ act[r].odd \subseteq act'[r].odd
    BY <1>1, <2>2, <2>3, <2>4 DEF Act
  <2>6. settings' \in Settings /\ settings'.lock = settings.lock /\ settings'.sentDay = settings.sentDay
    BY <1>1, <2>1, <2>2 DEF Settings
  <2> QED
    BY <1>3, <2>5, <2>6 DEF RenewLock
<1> QED
  BY <1>2, <1>3

\* The invariant holds at the start.
LEMMA InitInductive == Init => Inductive
<1> SUFFICES ASSUME Init PROVE Inductive
  OBVIOUS
<1>1. PICK x \in Scenarios :
        /\ act = [a \in Actors |-> IF a \in x.team THEN NewAct ELSE [NewAct EXCEPT !.pc = "over"]]
        /\ faults = x.faults
  BY DEF Init
<1>2. NewAct \in Act /\ NewAct.pc = "none" /\ NewAct.seen = -1
  BY ParamsOK DEF NewAct, Act, Pcs, Never
<1>3. [NewAct EXCEPT !.pc = "over"] \in Act /\ [NewAct EXCEPT !.pc = "over"].pc = "over"
      /\ [NewAct EXCEPT !.pc = "over"].seen = -1
  BY <1>2 DEF Act, Pcs
<1>4. \A a \in Actors : act[a] \in Act /\ act[a].pc \in {"none", "over"} /\ act[a].seen = -1
  BY <1>1, <1>2, <1>3
<1>5. TypeOK
  <2>1. act \in [Actors -> Act] /\ faults \in Nat
    BY <1>1, <1>4, TrackerConstants
  <2>2. settings \in Settings
    BY ParamsOK DEF Init, Settings, Never
  <2>3. note \in [Keys -> Note]
    BY DEF Init, Note
  <2>4. clock = 0 /\ checked = FALSE /\ portal = None
    BY DEF Init
  <2>5. clock \in 0..MaxTime
    BY <2>4, ParamsOK
  <2>6. checked \in BOOLEAN
    BY <2>4, Zenon
  <2> QED
    BY <2>1, <2>2, <2>3, <2>4, <2>5, <2>6 DEF TypeOK
<1>6. AccountIsFreed /\ SentDayTrue /\ DeadCheckLetsGo
  BY <1>4, ParamsOK DEF Init, AccountIsFreed, SentDayTrue, DeadCheckLetsGo, At
<1>7. ScannerIsLoggedIn /\ LockIsKnown
  <2>1. clock = 0 /\ settings.lock = None /\ \A r \in Runs : act[r].seen = Never /\ r # None
    BY <1>4, ParamsOK DEF Init, Never
  <2>2. \A r \in Runs : ~At(r, "scan") /\ ~Working(r) /\ act[r].seen <= clock
    BY <1>4, <2>1, ParamsOK DEF At, Working, Never
  <2> QED
    BY <2>1, <2>2 DEF ScannerIsLoggedIn, LockIsKnown
<1>8. KeysOfActors /\ OutboxOK
  BY <1>4, KeysDiffer DEF Init, KeysOfActors, OutboxOK, Delivers, Delivering
<1> QED
  BY <1>5, <1>6, <1>7, <1>8 DEF Inductive, StateIsConsistent

-----------------------------------------------------------------------------
(* Types, and what every step lets grow. *)

\* What an actor remembers of the past only grows.
Grows(k, l) == l \in Act /\ k.odd \subseteq l.odd

\* A step that changes the entry of one actor keeps the type of all.
LEMMA OneActor ==
  ASSUME TypeOK, NEW a \in Actors, NEW k, Grows(act[a], k), act' = [act EXCEPT ![a] = k]
  PROVE  act' \in [Actors -> Act] /\ \A b \in Actors : Grows(act[b], act'[b])
  BY DEF TypeOK, Grows

\* Every action keeps the type of the actors, and no actor forgets what it noticed.
LEMMA ActNext ==
  ASSUME TypeOK, KeysOfActors, Next
  PROVE  act' \in [Actors -> Act] /\ \A b \in Actors : Grows(act[b], act'[b])
<1>0. act \in [Actors -> Act] /\ clock \in Nat /\ Runs \subseteq Actors /\ Mails \subseteq Actors
  BY ParamsOK DEF TypeOK
<1>1. ASSUME act' = act
      PROVE  act' \in [Actors -> Act] /\ \A b \in Actors : Grows(act[b], act'[b])
  BY <1>0, <1>1 DEF Grows
<1>2. ASSUME NEW a \in Actors, NEW pc \in Pcs
      PROVE  Grows(act[a], [act[a] EXCEPT !.pc = pc])
  BY <1>0 DEF Grows, Act
<1>3. ASSUME NEW a \in Actors, NEW odd, odd \subseteq {"raced", "rewrote", "stuck"}
      PROVE  Grows(act[a], Over(a, odd))
  <2>1. Over(a, odd) \in Act /\ Over(a, odd).odd = act[a].odd \cup odd
    BY <1>3, OverOK
  <2> QED
    BY <2>1 DEF Grows
<1>4. ASSUME NEW a \in Actors
      PROVE  Grows(act[a], Answered(a))
  BY AnsweredOK DEF Grows
<1>5. ASSUME NEW r \in Runs
      PROVE  Grows(act[r], NextTry(r))
  BY NextTryOK DEF Grows
<1>6. ASSUME NEW a \in Actors, NEW pc \in Pcs, Goes(a, pc)
      PROVE  \E k : Grows(act[a], k) /\ act' = [act EXCEPT ![a] = k]
  BY <1>0, <1>2, <1>6 DEF Goes
<1>7. ASSUME NEW a \in Actors, Ends(a)
      PROVE  \E k : Grows(act[a], k) /\ act' = [act EXCEPT ![a] = k]
  BY <1>3, <1>7 DEF Ends
<1>8. ASSUME NEW j \in Jobs, EnqueueDue(j) \/ CheckNow(j), act' # act
      PROVE  \E a \in Actors : \E k : Grows(act[a], k) /\ act' = [act EXCEPT ![a] = k]
  <2>1. Goes(<<j, 1>>, "claim")
    BY <1>8 DEF EnqueueDue, CheckNow
  <2>2. CASE <<j, 1>> \in Actors
    BY <1>6, <2>1, <2>2 DEF Pcs
  <2>3. CASE <<j, 1>> \notin Actors
    BY <1>0, <1>8, <2>1, <2>3 DEF Goes
  <2> QED
    BY <2>2, <2>3
<1>9. ASSUME NEW j \in Jobs, NEW n \in 1..MaxAttempts, Again(j, n)
      PROVE  \E a \in Actors : \E k : Grows(act[a], k) /\ act' = [act EXCEPT ![a] = k]
  <2>1. Goes(<<j, n>>, "claim") /\ <<j, n>> \in Actors
    BY <1>9 DEF Again, Actors, Runs
  <2> QED
    BY <1>6, <2>1 DEF Pcs
<1>10. ASSUME NEW a \in Actors, Die(a)
       PROVE  \E k : Grows(act[a], k) /\ act' = [act EXCEPT ![a] = k]
  <2> DEFINE k == [Over(a, {}) EXCEPT !.pc = "dead", !.at = clock, !.lease = act[a].lease]
  <2>1. Grows(act[a], k)
    <3>1. Grows(act[a], Over(a, {}))
      BY <1>3
    <3>2. clock \in Int /\ "dead" \in Pcs /\ act[a].lease \in {0, Window, FirstLease}
      BY <1>0 DEF Act, Pcs
    <3> QED
      BY <3>1, <3>2 DEF Grows, Act
  <2>2. act' = [act EXCEPT ![a] = k]
    BY <1>10 DEF Die
  <2> HIDE DEF k
  <2> QED
    BY <2>1, <2>2
<1>11. ASSUME NEW r \in Runs, Claim(r)
       PROVE  \E k : Grows(act[r], k) /\ act' = [act EXCEPT ![r] = k]
  <2>1. CASE Ends(r)
    BY <1>0, <1>7, <2>1
  <2> DEFINE k == [act[r] EXCEPT !.pc = "login", !.seen = Due, !.until = clock + FirstLease,
                                 !.lease = FirstLease]
  <2>2. CASE act' = [act EXCEPT ![r] = k]
    <3>1. clock + FirstLease \in Int /\ Due \in Int /\ act[r] \in Act /\ "login" \in Pcs
      BY <1>0, ParamsOK DEF Due, Pcs
    <3>2. k \in Act /\ k.odd = act[r].odd
      BY <3>1, ActFields DEF Act
    <3> QED
      BY <2>2, <3>2 DEF Grows
  <2>3. Ends(r) \/ act' = [act EXCEPT ![r] = k]
    BY <1>0, <1>11 DEF Claim, ClaimFor
  <2> QED
    BY <2>1, <2>2, <2>3
<1>12. ASSUME NEW r \in Runs, Heartbeat(r) \/ RenewLock(r) \/ Login(r) \/ ScanPage(r)
       PROVE  \E k : Grows(act[r], k) /\ act' = [act EXCEPT ![r] = k]
  <2>1. CASE Heartbeat(r) \/ RenewLock(r)
    BY <2>1, BeatOK DEF Grows
  <2>2. CASE Login(r)
    <3>0. act[r] \in Act /\ "scan" \in Pcs /\ Due \in Int
      BY <1>0 DEF Pcs, Due
    <3>1. Grows(act[r], [act[r] EXCEPT !.pc = "scan", !.seen = Due])
      BY <3>0, ActFields DEF Grows, Act
    <3> QED
      BY <1>0, <1>5, <2>2, <3>1 DEF Login
  <2>3. CASE ScanPage(r)
    <3>1. act[r].page + 1 \in 0..Pages /\ Due \in Int
      BY <1>0, <2>3, ParamsOK DEF ScanPage, Act, Due
    <3>2. Grows(act[r], [act[r] EXCEPT !.page = act[r].page + 1, !.seen = Due])
      BY <1>0, <3>1 DEF Grows, Act
    <3> QED
      BY <1>0, <2>3, <3>2 DEF ScanPage
  <2> QED
    BY <1>12, <2>1, <2>2, <2>3
<1>13. ASSUME NEW r \in Runs, Scanned(r)
       PROVE  \E k : Grows(act[r], k) /\ act' = [act EXCEPT ![r] = k]
  <2>1. ASSUME NEW next, Grows(act[r], next), Leave(r, next)
        PROVE  \E k : Grows(act[r], k) /\ act' = [act EXCEPT ![r] = k]
    <3>1. Grows(act[r], [next EXCEPT !.odd = next.odd \cup {"stuck"}])
      BY <2>1 DEF Grows, Act
    <3> QED
      BY <2>1, <3>1 DEF Leave
  <2>2. Grows(act[r], [act[r] EXCEPT !.pc = "record", !.page = 0, !.tries = 0, !.seen = Never])
    <3>1. 0 \in 0..Pages /\ 0 \in Nat /\ act[r] \in Act /\ Never \in Int
      BY <1>0, ParamsOK DEF Never
    <3>2. [act[r] EXCEPT !.pc = "record", !.page = 0, !.tries = 0, !.seen = Never] \in Act
      BY <3>1, ActFields DEF Pcs
    <3> QED
      BY <3>1, <3>2 DEF Grows, Act
  <2>3. Grows(act[r], NextTry(r))
    BY <1>5
  <2> QED
    BY <1>13, <2>1, <2>2, <2>3 DEF Scanned
<1>14. ASSUME NEW r \in Runs, Record(r)
       PROVE  \E k : Grows(act[r], k) /\ act' = [act EXCEPT ![r] = k]
  <2>1. Daily(Today) \in Keys
    BY TodayIsDay, KeysDiffer DEF TypeOK
  <2>2. Grows(act[r], [act[r] EXCEPT !.pc = "deliver", !.cur = Daily(Today)])
    BY <1>0, <2>1 DEF Grows, Act, Pcs
  <2>3. CASE Goes(r, "release")
    BY <1>0, <1>6, <2>3 DEF Pcs
  <2> QED
    BY <1>0, <1>14, <2>2, <2>3 DEF Record
<1>15. ASSUME NEW r \in Runs, Raises(r) \/ Release(r) \/ Clear(r)
       PROVE  \E k : Grows(act[r], k) /\ act' = [act EXCEPT ![r] = k]
  <2>1. CASE Raises(r)
    <3>0. act[r] \in Act /\ "release" \in Pcs /\ Never \in Int
      BY <1>0 DEF Pcs, Never
    <3>1. Grows(act[r], [act[r] EXCEPT !.pc = "release", !.seen = Never])
      BY <3>0, ActFields DEF Grows, Act
    <3> QED
      BY <1>0, <2>1, <3>1 DEF Raises
  <2> QED
    BY <1>0, <1>3, <1>6, <1>7, <1>15, <2>1 DEF Release, Clear, Pcs
<1>16. ASSUME NEW a \in Actors, StartDelivery(a) \/ Takes(a) \/ Refused(a) \/ MarkSent(a)
       PROVE  \E k : Grows(act[a], k) /\ act' = [act EXCEPT ![a] = k]
  BY <1>4, <1>6, <1>16 DEF StartDelivery, Takes, Refused, MarkSent, Pcs
<1>17. ASSUME NEW m \in Mails, SendNow(m)
       PROVE  \E k : Grows(act[m], k) /\ act' = [act EXCEPT ![m] = k]
  <2>0. act[m] \in Act /\ "deliver" \in Pcs /\ ByHand(m) \in Keys
    BY <1>0, KeysDiffer DEF Pcs
  <2>1. Grows(act[m], [act[m] EXCEPT !.pc = "deliver", !.cur = ByHand(m)])
    <3>1. [act[m] EXCEPT !.pc = "deliver", !.cur = ByHand(m)] \in Act
      BY <2>0, ActFields
    <3>2. [act[m] EXCEPT !.pc = "deliver", !.cur = ByHand(m)].odd = act[m].odd
      BY <2>0 DEF Act
    <3> QED
      BY <3>1, <3>2 DEF Grows
  <2> QED
    BY <1>0, <1>17, <2>1 DEF SendNow
<1>18. ASSUME Tick
       PROVE  act' = act
  BY <1>18 DEF Tick
<1>19. act' = act \/ \E a \in Actors : \E k : Grows(act[a], k) /\ act' = [act EXCEPT ![a] = k]
  BY <1>0, <1>8, <1>9, <1>10, <1>11, <1>12, <1>13, <1>14, <1>15, <1>16, <1>17, <1>18 DEF Next, Jobs
<1> QED
  BY <1>1, <1>19, OneActor

\* The type invariant is kept.
LEMMA TypeNext ==
  ASSUME TypeOK, KeysOfActors, Next
  PROVE  TypeOK' /\ clock' >= clock
<1>0. /\ settings \in Settings /\ note \in [Keys -> Note] /\ act \in [Actors -> Act] /\ clock \in Nat
      /\ Runs \subseteq Actors /\ Mails \subseteq Actors /\ Today \in Days
  BY ParamsOK, TodayIsDay DEF TypeOK
<1>1. act' \in [Actors -> Act]
  BY ActNext
<1>2. clock' \in 0..MaxTime /\ clock' >= clock
  <2>1. CASE Tick
    BY <1>0, <2>1, ParamsOK DEF Tick, TypeOK
  <2>2. CASE clock' = clock
    BY <1>0, <2>2 DEF TypeOK
  <2> QED
    BY <2>1, <2>2 DEF Next, EnqueueDue, CheckNow, Again, Claim, ClaimFor, Heartbeat, RenewLock, Login, ScanPage, Scanned,
       Record, Raises, Release, Clear, SendNow, Die, StartDelivery, Takes, Refused, MarkSent
<1>3. settings' \in Settings
  <2>1. ASSUME NEW j, EnqueueDue(j)
        PROVE  settings' \in Settings
    BY <1>0, <2>1 DEF EnqueueDue, Settings
  <2>2. ASSUME NEW r \in Runs, Claim(r)
        PROVE  settings' \in Settings
    <3>1. clock + FirstLease \in Int
      BY <1>0, ParamsOK
    <3>2. CASE settings' = settings
      BY <1>0, <3>2
    <3>3. CASE settings' = [settings EXCEPT !.lock = r, !.until = clock + FirstLease]
      BY <1>0, <3>1, <3>3 DEF Settings
    <3> QED
      BY <2>2, <3>2, <3>3 DEF Claim, ClaimFor
  <2>3. ASSUME NEW r \in Runs, Heartbeat(r) \/ RenewLock(r)
        PROVE  settings' \in Settings
    BY <2>3, BeatOK
  <2>4. ASSUME NEW r \in Runs, Clear(r)
        PROVE  settings' \in Settings
    <3>1. settings' = [settings EXCEPT !.lock = None, !.until = -1]
      BY <2>4 DEF Clear, Never
    <3>2. -1 \in Int
      OBVIOUS
    <3> QED
      BY <1>0, <3>1, <3>2 DEF Settings
  <2>5. ASSUME NEW a \in Actors, MarkSent(a)
        PROVE  settings' \in Settings
    BY <1>0, <2>5 DEF MarkSent, Settings
  <2>6. CASE settings' = settings
    BY <1>0, <2>6
  <2> QED
    BY <2>1, <2>2, <2>3, <2>4, <2>5, <2>6 DEF Next, Tick, CheckNow, Again, Login, ScanPage, Scanned, Record, Raises,
       Release, SendNow, Die, StartDelivery, Takes, Refused
<1>4. checked' \in BOOLEAN /\ portal' \in Runs \cup {None}
  <2>1. checked' = checked \/ checked' = TRUE
    BY DEF Next, Tick, EnqueueDue, CheckNow, Again, Claim, ClaimFor, Heartbeat, RenewLock, Login, ScanPage, Scanned, Leave,
       Record, Raises, Release, Clear, SendNow, Die, StartDelivery, Takes, Refused, MarkSent
  <2>2. checked' \in BOOLEAN
    BY <2>1, Zenon DEF TypeOK
  <2>3. portal' = portal \/ portal' = None \/ \E r \in Runs : portal' = r
    BY DEF Next, Tick, EnqueueDue, CheckNow, Again, Claim, ClaimFor, Heartbeat, RenewLock, Login, ScanPage, Scanned, Leave,
       Record, Raises, Release, Clear, SendNow, Die, StartDelivery, Takes, Refused, MarkSent
  <2> QED
    BY <2>2, <2>3 DEF TypeOK
<1>6. faults' \in Nat
  <2>1. faults' = faults \/ (faults > 0 /\ faults' = faults - 1)
    BY DEF Next, Tick, EnqueueDue, CheckNow, Again, Claim, ClaimFor, Heartbeat, RenewLock, Login, ScanPage, Scanned, Leave,
       Record, Raises, Release, Clear, SendNow, Die, StartDelivery, Takes, Refused, MarkSent
  <2> QED
    BY <2>1 DEF TypeOK
<1>5. note' \in [Keys -> Note]
  <2>1. ASSUME NEW k, NEW status \in {"pending", "sending", "sent"}, note' = [note EXCEPT ![k].status = status]
        PROVE  note' \in [Keys -> Note]
    BY <1>0, <2>1 DEF Note
  <2>2. ASSUME NEW a \in Actors, Takes(a)
        PROVE  note' \in [Keys -> Note]
    <3>1. act[a].cur \in Keys
      BY <2>2, CurIsKey DEF Takes, At, Delivers
    <3>2. note' = [note EXCEPT ![act[a].cur] = [note[act[a].cur] EXCEPT !.taken = note[act[a].cur].taken + 1]]
      BY <2>2 DEF Takes
    <3>3. [note[act[a].cur] EXCEPT !.taken = note[act[a].cur].taken + 1] \in Note
      BY <1>0, <3>1 DEF Note
    <3> QED
      BY <1>0, <3>2, <3>3
  <2>3. ASSUME NEW a \in Actors, Refused(a)
        PROVE  note' \in [Keys -> Note]
    <3>1. act[a].cur \in Keys
      BY <2>3, CurIsKey DEF Refused, Delivers
    <3> DEFINE n == IF At(a, "taken") THEN 1 ELSE 0
               m == note[act[a].cur].doubtful + n
    <3>2. note' = [note EXCEPT ![act[a].cur] = [note[act[a].cur] EXCEPT !.status = "failed", !.doubtful = m]]
      BY <2>3 DEF Refused
    <3>3. m \in Nat
      <4>1. note[act[a].cur].doubtful \in Nat /\ n \in Nat
        BY <1>0, <3>1 DEF Note
      <4> QED
        BY <4>1
    <3> HIDE DEF m
    <3>4. [note[act[a].cur] EXCEPT !.status = "failed", !.doubtful = m] \in Note
      BY <1>0, <3>1, <3>3 DEF Note
    <3> QED
      BY <1>0, <3>2, <3>4
  <2>4. ASSUME NEW r \in Runs, Record(r)
        PROVE  note' \in [Keys -> Note]
    BY <1>0, <2>4 DEF Record, Note
  <2>5. CASE note' = note
    BY <1>0, <2>5
  <2> QED
    BY <2>1, <2>2, <2>3, <2>4, <2>5 DEF Next, Tick, EnqueueDue, CheckNow, Again, Claim, ClaimFor, Heartbeat, RenewLock, Login, ScanPage, Scanned,
       Raises, Release, Clear, SendNow, Die, StartDelivery, MarkSent
<1> QED
  BY <1>1, <1>2, <1>3, <1>4, <1>5, <1>6 DEF TypeOK

-----------------------------------------------------------------------------
(* The account at the portal. *)

\* A check that reads pages is logged in, and holds its own session.
LEMMA ScanKept ==
  ASSUME TypeOK, Next, \A r \in Runs : ~Login(r) /\ ~Scanned(r), NEW b \in Actors
  PROVE  /\ portal' = portal
         /\ At(b, "scan")' => At(b, "scan")
         /\ At(b, "scan") => At(b, "scan")' \/ At(b, "dead")'
         /\ At(b, "dead") => At(b, "dead")'
<1>0. act \in [Actors -> Act] /\ Runs \subseteq Actors /\ Mails \subseteq Actors /\ act[b] \in Act
  BY ParamsOK DEF TypeOK
<1> DEFINE Kept == /\ portal' = portal
                   /\ act'[b].pc = "scan" => act[b].pc = "scan"
                   /\ act[b].pc = "scan" => act'[b].pc = "scan" \/ act'[b].pc = "dead"
                   /\ act[b].pc = "dead" => act'[b].pc = "dead"
<1>1. ASSUME NEW a \in Actors, NEW k, k.pc # "scan", act[a].pc \notin {"scan", "dead"},
             act' = [act EXCEPT ![a] = k], portal' = portal
      PROVE  Kept
  BY <1>0, <1>1
<1>2. ASSUME NEW a \in Actors, NEW pc \in Pcs \ {"scan"}, act[a].pc \notin {"scan", "dead"},
             Goes(a, pc), portal' = portal
      PROVE  Kept
  BY <1>0, <1>2 DEF Goes, Act
<1>3. ASSUME NEW a \in Actors, NEW odd, act[a].pc \notin {"scan", "dead"},
             act' = [act EXCEPT ![a] = Over(a, odd)], portal' = portal
      PROVE  Kept
  <2>1. Over(a, odd).pc = "over"
    BY DEF Over, NewAct
  <2> QED
    BY <1>1, <1>3, <2>1
<1>4. ASSUME NEW a \in Actors, act[a].pc \notin {"scan", "dead"},
             act' = [act EXCEPT ![a] = Answered(a)], portal' = portal
      PROVE  Kept
  <2>1. Answered(a).pc # "scan"
    BY AnsweredOK
  <2> QED
    BY <1>1, <1>4, <2>1
<1>5. ASSUME NEW j \in Jobs, EnqueueDue(j) \/ CheckNow(j)
      PROVE  Kept
  <2>1. portal' = portal /\ act[<<j, 1>>].pc = "none" /\ (act' = act \/ Goes(<<j, 1>>, "claim"))
    BY <1>5 DEF EnqueueDue, CheckNow, At
  <2>2. CASE <<j, 1>> \in Actors
    BY <1>2, <2>1, <2>2 DEF Pcs
  <2>3. CASE <<j, 1>> \notin Actors
    BY <1>0, <2>1, <2>3 DEF Goes
  <2> QED
    BY <2>2, <2>3
<1>6. ASSUME NEW j \in Jobs, NEW n \in 1..MaxAttempts, Again(j, n)
      PROVE  Kept
  <2>1. <<j, n>> \in Actors
    BY DEF Actors, Runs
  <2> QED
    BY <1>2, <1>6, <2>1 DEF Again, At, Pcs
<1>7. ASSUME NEW a \in Actors, Die(a)
      PROVE  Kept
  <2>1. [Over(a, {}) EXCEPT !.pc = "dead", !.at = clock, !.lease = act[a].lease].pc = "dead"
    BY DEF Over, NewAct
  <2> QED
    BY <1>0, <1>7, <2>1 DEF Die
<1>8. ASSUME NEW r \in Runs, Claim(r)
      PROVE  Kept
  <2>1. CASE act' = [act EXCEPT ![r].pc = "login", ![r].seen = Due, ![r].until = clock + FirstLease,
                                ![r].lease = FirstLease]
    BY <1>0, <1>8, <2>1 DEF Claim, ClaimFor, At, Act
  <2> QED
    BY <1>0, <1>3, <1>8, <2>1 DEF Claim, ClaimFor, Ends, At
<1>9. ASSUME NEW r \in Runs, Heartbeat(r) \/ RenewLock(r) \/ ScanPage(r)
      PROVE  Kept
  <2>1. CASE Heartbeat(r) \/ RenewLock(r)
    BY <1>0, <2>1, BeatOK
  <2>2. CASE ScanPage(r)
    BY <1>0, <2>2 DEF ScanPage, At, Act
  <2> QED
    BY <1>9, <2>1, <2>2
<1>10. ASSUME NEW r \in Runs, Record(r)
       PROVE  Kept
  <2>1. CASE act' = [act EXCEPT ![r].pc = "deliver", ![r].cur = Daily(Today)]
    BY <1>0, <1>10, <2>1 DEF Record, At, Act
  <2> QED
    BY <1>0, <1>2, <1>10, <2>1 DEF Record, At, Pcs
<1>11. ASSUME NEW r \in Runs, Raises(r) \/ Release(r) \/ Clear(r)
       PROVE  Kept
  <2>1. CASE Raises(r)
    BY <1>0, <2>1 DEF Raises, At, Act
  <2> QED
    BY <1>0, <1>2, <1>3, <1>11, <2>1 DEF Release, Clear, Ends, At, Pcs
<1>12. ASSUME NEW a \in Actors, StartDelivery(a) \/ Takes(a) \/ Refused(a) \/ MarkSent(a)
       PROVE  Kept
  BY <1>2, <1>4, <1>12 DEF StartDelivery, Takes, Refused, MarkSent, At, Pcs
<1>13. ASSUME NEW m \in Mails, SendNow(m)
       PROVE  Kept
  BY <1>0, <1>13 DEF SendNow, At, Act
<1>14. ASSUME Tick
       PROVE  Kept
  BY <1>14 DEF Tick
<1>15. Kept
  <2> HIDE DEF Kept
  <2> QED
    BY <1>5, <1>6, <1>7, <1>8, <1>9, <1>10, <1>11, <1>12, <1>13, <1>14 DEF Next, Jobs
<1> QED
  BY <1>15 DEF At

\* What the portal has for a session follows from who is scanning.
LEMMA PortalNext ==
  ASSUME TypeOK, KeysOfActors, AccountIsFreed, ScannerIsLoggedIn, Next
  PROVE  AccountIsFreed' /\ ScannerIsLoggedIn'
<1>0. /\ act \in [Actors -> Act] /\ Runs \subseteq Actors /\ portal \in Runs \cup {None} /\ None \notin Runs
      /\ act' \in [Actors -> Act] /\ \A b \in Actors : act[b].odd \subseteq act'[b].odd
  BY ParamsOK, ActNext DEF TypeOK, Grows
<1>1. ASSUME NEW r \in Runs, Login(r)
      PROVE  AccountIsFreed' /\ ScannerIsLoggedIn'
  <2>1. CASE portal = None
    <3>1. portal' = r /\ act' = [act EXCEPT ![r].pc = "scan", ![r].seen = Due]
      BY <1>1, <2>1 DEF Login
    <3>2. act'[r].pc = "scan" /\ \A b \in Runs \ {r} : act'[b] = act[b]
      BY <1>0, <3>1 DEF Act
    <3> QED
      BY <1>0, <2>1, <3>1, <3>2 DEF AccountIsFreed, ScannerIsLoggedIn, At
  <2>2. CASE portal # None
    <3>1. portal' = portal /\ act' = [act EXCEPT ![r] = NextTry(r)] /\ act[r].pc = "login"
      BY <1>1, <2>2 DEF Login, At
    <3>2. act'[r].pc # "scan" /\ \A b \in Runs \ {r} : act'[b] = act[b]
      BY <1>0, <3>1, NextTryOK
    <3> QED
      BY <1>0, <3>1, <3>2 DEF AccountIsFreed, ScannerIsLoggedIn, At
  <2> QED
    BY <2>1, <2>2
<1>2. ASSUME NEW r \in Runs, Scanned(r)
      PROVE  AccountIsFreed' /\ ScannerIsLoggedIn'
  <2>1. ASSUME NEW next \in Act, next.pc # "scan", Leave(r, next)
        PROVE  AccountIsFreed' /\ ScannerIsLoggedIn'
    <3>1. portal = r
      BY <1>2 DEF Scanned, ScannerIsLoggedIn
    <3>2. PICK k \in Act : /\ act' = [act EXCEPT ![r] = k] /\ k.pc # "scan"
                           /\ portal' = None \/ (portal' = portal /\ "stuck" \in k.odd)
      <4>1. "stuck" \in (next.odd \cup {"stuck"}) /\ (next.odd \cup {"stuck"}) \in SUBSET {"raced", "rewrote", "stuck"}
        BY DEF Act
      <4>2. /\ [next EXCEPT !.odd = next.odd \cup {"stuck"}] \in Act
            /\ [next EXCEPT !.odd = next.odd \cup {"stuck"}].pc = next.pc
            /\ "stuck" \in [next EXCEPT !.odd = next.odd \cup {"stuck"}].odd
        BY <4>1, ActOdd DEF Act
      <4> QED
        BY <2>1, <4>2 DEF Leave
    <3>3. act'[r] = k /\ \A b \in Runs \ {r} : act'[b] = act[b]
      BY <1>0, <3>2
    <3> QED
      BY <1>0, <3>1, <3>2, <3>3 DEF AccountIsFreed, ScannerIsLoggedIn, At
  <2>2. /\ [act[r] EXCEPT !.pc = "record", !.page = 0, !.tries = 0, !.seen = Never] \in Act
        /\ [act[r] EXCEPT !.pc = "record", !.page = 0, !.tries = 0, !.seen = Never].pc # "scan"
    <3>1. 0 \in 0..Pages /\ 0 \in Nat /\ act[r] \in Act /\ Never \in Int
      BY <1>0, ParamsOK DEF Never
    <3>2. [act[r] EXCEPT !.pc = "record", !.page = 0, !.tries = 0, !.seen = Never] \in Act
      BY <3>1, ActFields DEF Pcs
    <3> QED
      BY <3>1, <3>2 DEF Act
  <2>3. NextTry(r) \in Act /\ NextTry(r).pc # "scan"
    BY NextTryOK
  <2> QED
    BY <1>2, <2>1, <2>2, <2>3 DEF Scanned
<1>3. CASE \A r \in Runs : ~Login(r) /\ ~Scanned(r)
  <2>1. \A b \in Runs :
          /\ portal' = portal
          /\ act'[b].pc = "scan" => act[b].pc = "scan"
          /\ act[b].pc = "scan" => act'[b].pc = "scan" \/ act'[b].pc = "dead"
          /\ act[b].pc = "dead" => act'[b].pc = "dead"
    BY <1>0, <1>3, ScanKept DEF At
  <2>2. ScannerIsLoggedIn'
    BY <2>1 DEF ScannerIsLoggedIn, At
  <2>3. ASSUME portal' # None
        PROVE  At(portal, "scan")' \/ At(portal, "dead")' \/ "stuck" \in act'[portal'].odd
    <3>1. PICK b \in Runs : b = portal /\ b = portal' /\ act[b].odd \subseteq act'[b].odd
      <4>1. portal' \in Runs
        BY <2>3, TypeNext DEF TypeOK
      <4>2. portal' = portal
        BY <1>0, <1>3, <4>1, ScanKept
      <4> QED
        BY <1>0, <4>1, <4>2
    <3>2. act[b].pc = "scan" \/ act[b].pc = "dead" \/ "stuck" \in act[b].odd
      BY <1>0, <3>1 DEF AccountIsFreed, At
    <3> QED
      BY <2>1, <3>1, <3>2 DEF At
  <2> QED
    BY <2>2, <2>3 DEF AccountIsFreed
<1> QED
  BY <1>1, <1>2, <1>3

-----------------------------------------------------------------------------
(* The lock of the settings row. *)

\* A run that leaves the lock alone.
Unlocking(k, l) ==
  /\ l.pc \notin {"none", "claim", "over", "dead"} =>
       k.pc \notin {"none", "claim", "over", "dead"} /\ l.until = k.until /\ l.lease = k.lease
  /\ l.pc \in {"none", "claim"} => k.pc \in {"none", "claim"}
  /\ l.pc = "dead" => /\ l.lease = k.lease
                      /\ \/ k.pc \notin {"none", "over", "dead"} /\ l.at = clock
                         \/ k.pc = "dead" /\ l.at = k.at
  /\ l.seen # Never => l.pc \in {"login", "scan"} /\ l.seen <= clock

\* A lock that a late release or renewal has come across stays one.
LEMMA OddStays ==
  ASSUME \A r \in Runs : Grows(act[r], act'[r])
  PROVE  (~Rewritten' => ~Rewritten) /\ (~Raced' => ~Raced)
  BY DEF Rewritten, Raced, Grows

\* A step that leaves the lock alone keeps what is known of it.
LEMMA LockQuiet ==
  ASSUME TypeOK, TypeOK', LockIsKnown, DeadCheckLetsGo,
         settings'.lock = settings.lock, settings'.until = settings.until, clock' >= clock,
         \A r \in Runs : Grows(act[r], act'[r]) /\ Unlocking(act[r], act'[r])
  PROVE  LockIsKnown' /\ DeadCheckLetsGo'
<1>0. /\ clock \in Nat /\ clock' \in Nat /\ settings.until \in Int
      /\ \A r \in Runs : /\ act[r].until \in Int /\ act[r].at \in Int /\ act[r].lease \in Nat
                        /\ act'[r].seen \in Int
  BY ParamsOK DEF TypeOK, Settings, Act
<1>1. ASSUME NEW r \in Runs
      PROVE  /\ act'[r].seen <= clock'
             /\ act'[r].seen # Never => At(r, "login")' \/ At(r, "scan")'
             /\ settings'.lock = r => ~At(r, "none")' /\ ~At(r, "claim")'
  <2>1. act'[r].seen <= clock'
    BY <1>0, <1>1 DEF Unlocking, Never
  <2> QED
    BY <1>1, <2>1 DEF Unlocking, LockIsKnown, At
<1>2. ASSUME NEW r \in Runs, Working(r)'
      PROVE  Working(r) /\ act'[r].until = act[r].until /\ act'[r].lease = act[r].lease
  BY <1>2 DEF Working, Unlocking
<1>3. ASSUME ~Rewritten', NEW r \in Runs, Working(r)', settings'.lock = r
      PROVE  act'[r].until = settings'.until /\ settings'.until <= clock' + act'[r].lease
  <2>1. act[r].until = settings.until /\ settings.until <= clock + act[r].lease
    BY <1>2, <1>3, OddStays DEF LockIsKnown
  <2> QED
    BY <1>0, <1>2, <1>3, <2>1
<1>4. ASSUME ~Rewritten', ~Raced', NEW r \in Runs, Working(r)', act'[r].until > clock'
      PROVE  settings'.lock = r
  <2>1. Working(r) /\ act[r].until > clock
    BY <1>0, <1>2, <1>4
  <2> QED
    BY <1>4, <2>1, OddStays DEF LockIsKnown
<1>5. LockIsKnown'
  BY <1>1, <1>3, <1>4 DEF LockIsKnown
<1>6. ASSUME NEW r \in Runs, At(r, "dead")', settings'.lock = r, ~Rewritten'
      PROVE  settings'.until <= act'[r].at + act'[r].lease
  <2>0. ~Rewritten
    BY <1>6, OddStays
  <2>1. CASE act[r].pc \notin {"none", "over", "dead"} /\ act'[r].at = clock
    <3>1. Working(r)
      BY <1>6, <2>1 DEF LockIsKnown, Working, At
    <3> QED
      BY <1>0, <1>6, <2>0, <2>1, <3>1 DEF LockIsKnown, Unlocking, At
  <2>2. CASE act[r].pc = "dead" /\ act'[r].at = act[r].at
    BY <1>6, <2>0, <2>2 DEF DeadCheckLetsGo, At, Unlocking
  <2> QED
    BY <1>6, <2>1, <2>2 DEF Unlocking, At
<1> QED
  BY <1>5, <1>6 DEF DeadCheckLetsGo

\* A run that takes the lock, or renews it, for n from now on at most.
LEMMA LockTaken ==
  ASSUME TypeOK, TypeOK', LockIsKnown, DeadCheckLetsGo, clock' = clock, NEW r \in Runs,
         settings'.lock = r, act'[r].until = settings'.until, settings'.until <= clock + act'[r].lease,
         \A q \in Runs : Grows(act[q], act'[q]) /\ (q # r => act'[q] = act[q]),
         act'[r].pc \in {"login", "scan"}, act'[r].seen < 0,
         settings.lock \notin {r, None} => settings.until <= clock
  PROVE  LockIsKnown' /\ DeadCheckLetsGo'
<1>0. /\ clock \in Nat /\ settings.until \in Int /\ act'[r].seen \in Int
      /\ \A q \in Runs : act[q].until \in Int
  BY ParamsOK DEF TypeOK, Settings, Act
<1>1. ASSUME NEW q \in Runs
      PROVE  /\ act'[q].seen <= clock'
             /\ act'[q].seen # Never => At(q, "login")' \/ At(q, "scan")'
             /\ settings'.lock = q => ~At(q, "none")' /\ ~At(q, "claim")'
  <2>1. CASE q = r
    BY <1>0, <2>1 DEF At
  <2>2. CASE q # r
    BY <2>2 DEF LockIsKnown, At
  <2> QED
    BY <2>1, <2>2
<1>2. ASSUME NEW q \in Runs, q # r, ~Rewritten', ~Raced', Working(q)', act'[q].until > clock'
      PROVE  FALSE
  <2>1. Working(q) /\ act[q].until > clock /\ ~Rewritten /\ ~Raced
    BY <1>2, OddStays DEF Working
  <2>2. settings.lock = q /\ act[q].until = settings.until
    BY <2>1 DEF LockIsKnown
  <2> QED
    BY <1>0, <1>2, <2>1, <2>2, ParamsOK
<1>3. LockIsKnown'
  BY <1>1, <1>2 DEF LockIsKnown
<1>4. DeadCheckLetsGo'
  BY DEF DeadCheckLetsGo, At
<1> QED
  BY <1>3, <1>4

\* A renewal is of the check's own lock, or it is not: then nobody holds it, or it
\* is written over.
LEMMA LockRenewed ==
  ASSUME TypeOK, TypeOK', LockIsKnown, DeadCheckLetsGo, NEW r \in Runs, RenewLock(r),
         \A q \in Runs : Grows(act[q], act'[q])
  PROVE  LockIsKnown' /\ DeadCheckLetsGo'
<1>0. /\ act \in [Actors -> Act] /\ r \in Actors /\ Runs \subseteq Actors /\ settings \in Settings
      /\ clock \in Nat /\ clock' = clock
      /\ act'[r].pc = act[r].pc /\ settings'.lock = settings.lock
      /\ \A q \in Runs : q # r => act'[q] = act[q]
  BY ParamsOK, BeatOK DEF TypeOK
<1>1. act[r].seen >= 0 /\ act[r].seen # Never /\ act[r].pc \in {"login", "scan"} /\ act[r].seen \in Int
  BY <1>0 DEF RenewLock, LockIsKnown, At, Act, Never
<1>2. PICK now \in act[r].seen..clock :
        /\ settings' = [settings EXCEPT !.until = now + Window]
        /\ act' = [act EXCEPT
             ![r].seen = Never,
             ![r].until = IF settings.lock = r THEN now + Window ELSE act[r].until,
             ![r].lease = IF settings.lock = r THEN Window ELSE act[r].lease,
             ![r].odd = IF settings.lock \in {r, None} THEN act[r].odd ELSE act[r].odd \cup {"rewrote"}]
  BY <1>0 DEF RenewLock, Act
<1>3. /\ settings'.until = now + Window /\ now \in Int /\ now <= clock /\ act'[r].seen = Never
      /\ act'[r].until = (IF settings.lock = r THEN now + Window ELSE act[r].until)
      /\ act'[r].lease = (IF settings.lock = r THEN Window ELSE act[r].lease)
      /\ act'[r].odd = (IF settings.lock \in {r, None} THEN act[r].odd ELSE act[r].odd \cup {"rewrote"})
  BY <1>0, <1>1, <1>2 DEF Settings, Act
<1>4. CASE settings.lock = r
  <2>1. act'[r].until = settings'.until /\ settings'.until <= clock + act'[r].lease /\ act'[r].seen < 0
    BY <1>0, <1>3, <1>4, ParamsOK DEF Never
  <2> QED
    BY <1>0, <1>1, <1>4, <2>1, LockTaken
<1>5. ASSUME NEW q \in Runs
      PROVE  /\ act'[q].seen <= clock'
             /\ act'[q].seen # Never => At(q, "login")' \/ At(q, "scan")'
             /\ settings'.lock = q => ~At(q, "none")' /\ ~At(q, "claim")'
  <2>1. CASE q = r
    BY <1>0, <1>1, <1>3, <2>1 DEF At, Never
  <2>2. CASE q # r
    BY <1>0, <2>2 DEF LockIsKnown, At
  <2> QED
    BY <2>1, <2>2
<1>6. CASE settings.lock = None
  <2>1. \A q \in Runs : settings'.lock # q
    BY <1>0, <1>6, ParamsOK
  <2>2. ASSUME ~Rewritten', ~Raced', NEW q \in Runs, Working(q)', act'[q].until > clock'
        PROVE  FALSE
    <3>1. act'[q].until = act[q].until /\ act'[q].pc = act[q].pc
      BY <1>0, <1>3, <1>6, ParamsOK
    <3>2. Working(q) /\ act[q].until > clock /\ ~Rewritten /\ ~Raced
      BY <1>0, <2>2, <3>1, OddStays DEF Working
    <3> QED
      BY <1>0, <2>1, <3>2 DEF LockIsKnown
  <2> QED
    BY <1>5, <2>1, <2>2 DEF LockIsKnown, DeadCheckLetsGo
<1>7. CASE settings.lock \notin {r, None}
  <2>1. Rewritten'
    BY <1>3, <1>7 DEF Rewritten
  <2> QED
    BY <1>5, <2>1 DEF LockIsKnown, DeadCheckLetsGo
<1> QED
  BY <1>4, <1>6, <1>7

\* What is known of the lock is kept.
LEMMA LockNext ==
  ASSUME TypeOK, TypeOK', KeysOfActors, LockIsKnown, DeadCheckLetsGo, Next
  PROVE  LockIsKnown' /\ DeadCheckLetsGo'
<1>0. /\ act \in [Actors -> Act] /\ act' \in [Actors -> Act] /\ Runs \subseteq Actors /\ Mails \subseteq Actors
      /\ settings \in Settings /\ clock \in Nat /\ Window \in Nat
      /\ clock' >= clock /\ \A b \in Actors : Grows(act[b], act'[b])
  BY ParamsOK, TypeNext, ActNext DEF TypeOK
<1> DEFINE SameLock == settings'.lock = settings.lock /\ settings'.until = settings.until
           Quiet == SameLock /\ \A r \in Runs : Unlocking(act[r], act'[r])
<1>1. ASSUME Quiet
      PROVE  LockIsKnown' /\ DeadCheckLetsGo'
  BY <1>0, <1>1, LockQuiet
<1>19. ASSUME NEW r \in Runs
       PROVE  Unlocking(act[r], act[r])
  BY DEF LockIsKnown, Unlocking, At
<1>2. ASSUME NEW a \in Actors, NEW k, a \in Runs => Unlocking(act[a], k), SameLock,
             act' = [act EXCEPT ![a] = k]
      PROVE  Quiet
  <2>1. ASSUME NEW r \in Runs
        PROVE  Unlocking(act[r], act'[r])
    <3>1. act'[r] = IF r = a THEN k ELSE act[r]
      BY <1>0, <1>2
    <3> QED
      BY <1>2, <1>19, <3>1
  <2> QED
    BY <1>2, <2>1
<1>3. ASSUME act' = act, SameLock
      PROVE  Quiet
  BY <1>3, <1>19
<1>4. ASSUME NEW a \in Actors, NEW pc, Goes(a, pc), SameLock, pc # "dead",
             pc # "none", pc = "claim" => act[a].pc = "none",
             act[a].pc \in {"none", "claim", "over", "dead"} => pc = "claim",
             act[a].pc \notin {"login", "scan"}
      PROVE  Quiet
  <2>1. CASE a \in Runs
    <3>1. act[a].seen = Never
      BY <1>4, <2>1 DEF LockIsKnown, At
    <3>2. Unlocking(act[a], [act[a] EXCEPT !.pc = pc])
      BY <1>0, <1>4, <3>1 DEF Unlocking, Act
    <3> QED
      BY <1>0, <1>2, <1>4, <3>2 DEF Goes
  <2>2. CASE a \notin Runs
    BY <1>0, <1>2, <1>4, <2>2 DEF Goes
  <2> QED
    BY <2>1, <2>2
<1>5. ASSUME NEW a \in Actors, NEW odd, act' = [act EXCEPT ![a] = Over(a, odd)], SameLock
      PROVE  Quiet
  <2>1. Over(a, odd).pc = "over" /\ Over(a, odd).seen = Never
    BY DEF Over, NewAct
  <2> QED
    BY <1>2, <1>5, <2>1 DEF Unlocking
<1>6. ASSUME NEW j \in Jobs, EnqueueDue(j) \/ CheckNow(j)
      PROVE  Quiet
  <2>1. SameLock /\ (act' = act \/ (Goes(<<j, 1>>, "claim") /\ act[<<j, 1>>].pc = "none"))
    BY <1>0, <1>6 DEF EnqueueDue, CheckNow, Settings, At
  <2>2. CASE <<j, 1>> \in Actors
    BY <1>3, <1>4, <2>1, <2>2
  <2>3. CASE <<j, 1>> \notin Actors
    BY <1>0, <1>3, <2>1, <2>3 DEF Goes
  <2> QED
    BY <2>2, <2>3
<1>7. ASSUME NEW j \in Jobs, NEW n \in 1..MaxAttempts, Again(j, n)
      PROVE  Quiet
  <2>1. <<j, n>> \in Actors
    BY DEF Actors, Runs
  <2> QED
    BY <1>4, <1>7, <2>1 DEF Again, At
<1>8. ASSUME NEW a \in Actors, Die(a)
      PROVE  Quiet
  <2> DEFINE k == [Over(a, {}) EXCEPT !.pc = "dead", !.at = clock, !.lease = act[a].lease]
  <2>1. k.pc = "dead" /\ k.at = clock /\ k.lease = act[a].lease /\ k.seen = Never
    BY DEF Over, NewAct
  <2>2. act' = [act EXCEPT ![a] = k] /\ SameLock /\ act[a].pc \notin {"none", "over", "dead"}
    BY <1>8 DEF Die
  <2> HIDE DEF k
  <2>3. Unlocking(act[a], k)
    BY <2>1, <2>2 DEF Unlocking
  <2> QED
    BY <1>2, <2>2, <2>3
<1>9. ASSUME NEW r \in Runs, Claim(r)
      PROVE  LockIsKnown' /\ DeadCheckLetsGo'
  <2>1. CASE settings.lock # None /\ settings.until > clock
    BY <1>0, <1>1, <1>5, <1>9, <2>1 DEF Claim, ClaimFor, Ends
  <2>2. CASE ~(settings.lock # None /\ settings.until > clock)
    <3>1. /\ settings' = [settings EXCEPT !.lock = r, !.until = clock + FirstLease]
          /\ act' = [act EXCEPT ![r].pc = "login", ![r].seen = Due, ![r].until = clock + FirstLease,
                                ![r].lease = FirstLease]
          /\ clock' = clock
      BY <1>9, <2>2 DEF Claim, ClaimFor
    <3>2. /\ settings'.lock = r /\ settings'.until = clock + FirstLease
          /\ act'[r].pc = "login" /\ act'[r].until = clock + FirstLease
          /\ act'[r].lease = FirstLease /\ act'[r].seen = Due
          /\ \A q \in Runs : q # r => act'[q] = act[q]
      BY <1>0, <3>1 DEF Settings, Act
    <3>3. settings.lock \notin {r, None} => settings.until <= clock
      BY <1>0, <2>2 DEF Settings
    <3>4. settings'.until <= clock + act'[r].lease /\ act'[r].seen < 0
      BY <1>0, <3>2, ParamsOK DEF Due
    <3> QED
      BY <1>0, <3>1, <3>2, <3>3, <3>4, LockTaken
  <2> QED
    BY <2>1, <2>2
<1>10. ASSUME NEW r \in Runs, Heartbeat(r) \/ Login(r) \/ ScanPage(r)
       PROVE  Quiet
  <2>0. SameLock /\ act[r].pc \in {"login", "scan"} /\ r \in Actors
    BY <1>0, <1>10 DEF Heartbeat, Login, ScanPage, At
  <2>1. CASE Heartbeat(r)
    <3> DEFINE n == IF settings.lock = r THEN clock ELSE Never
    <3>1. act' = [act EXCEPT ![r].seen = n] /\ n <= clock
      BY <1>0, <2>1 DEF Heartbeat, Never
    <3> HIDE DEF n
    <3>2. Unlocking(act[r], [act[r] EXCEPT !.seen = n])
      BY <1>0, <2>0, <3>1 DEF Unlocking, Act
    <3>3. act' = [act EXCEPT ![r] = [act[r] EXCEPT !.seen = n]]
      BY <1>0, <3>1
    <3> QED
      BY <1>2, <2>0, <3>2, <3>3
  <2>2. CASE Login(r) /\ portal = None
    <3>1. act' = [act EXCEPT ![r] = [act[r] EXCEPT !.pc = "scan", !.seen = Due]]
      BY <1>0, <2>2 DEF Login
    <3>2. Unlocking(act[r], [act[r] EXCEPT !.pc = "scan", !.seen = Due])
      BY <1>0, <2>0 DEF Unlocking, Act, Due
    <3> QED
      BY <1>2, <2>0, <3>1, <3>2
  <2>3. CASE Login(r) /\ portal # None
    <3>1. Unlocking(act[r], NextTry(r))
      BY <1>0, <2>0, NextTryOK DEF Unlocking, Due
    <3> QED
      BY <1>2, <2>0, <2>3, <3>1 DEF Login
  <2>4. CASE ScanPage(r)
    <3>1. act' = [act EXCEPT ![r] = [act[r] EXCEPT !.page = act[r].page + 1, !.seen = Due]]
      BY <1>0, <2>4 DEF ScanPage
    <3>2. Unlocking(act[r], [act[r] EXCEPT !.page = act[r].page + 1, !.seen = Due])
      BY <1>0, <2>0 DEF Unlocking, Act, Due
    <3> QED
      BY <1>2, <2>0, <3>1, <3>2
  <2> QED
    BY <1>10, <2>1, <2>2, <2>3, <2>4
<1>11. ASSUME NEW r \in Runs, Scanned(r)
       PROVE  Quiet
  <2>0. SameLock /\ act[r].pc = "scan" /\ r \in Actors
    BY <1>0, <1>11 DEF Scanned, At
  <2>1. ASSUME NEW next \in Act, Unlocking(act[r], next), Leave(r, next)
        PROVE  Quiet
    <3>1. Unlocking(act[r], [next EXCEPT !.odd = next.odd \cup {"stuck"}])
      BY <2>1 DEF Unlocking, Act
    <3>2. PICK k : act' = [act EXCEPT ![r] = k] /\ Unlocking(act[r], k)
      BY <2>1, <3>1 DEF Leave
    <3> QED
      BY <1>2, <2>0, <3>2
  <2> DEFINE k == [act[r] EXCEPT !.pc = "record", !.page = 0, !.tries = 0, !.seen = Never]
  <2>2. k \in Act /\ Unlocking(act[r], k)
    <3>1. 0 \in 0..Pages /\ 0 \in Nat /\ act[r] \in Act /\ Never \in Int
      BY <1>0, ParamsOK DEF Never
    <3>2. k \in Act
      BY <3>1, ActFields DEF Pcs
    <3> QED
      BY <2>0, <3>1, <3>2 DEF Act, Unlocking
  <2>3. NextTry(r) \in Act /\ Unlocking(act[r], NextTry(r))
    BY <1>0, <2>0, NextTryOK DEF Unlocking, Due
  <2> HIDE DEF k
  <2>4. Leave(r, k) \/ Leave(r, NextTry(r))
    BY <1>11 DEF Scanned, k
  <2> QED
    BY <2>1, <2>2, <2>3, <2>4
<1>12. ASSUME NEW r \in Runs, Record(r)
       PROVE  Quiet
  <2>1. SameLock /\ act[r].pc = "record"
    BY <1>12 DEF Record, At
  <2>2. CASE act' = [act EXCEPT ![r].pc = "deliver", ![r].cur = Daily(Today)]
    <3>1. Unlocking(act[r], [act[r] EXCEPT !.pc = "deliver", !.cur = Daily(Today)])
      BY <1>0, <2>1 DEF Unlocking, Act, LockIsKnown, At
    <3>2. act' = [act EXCEPT ![r] = [act[r] EXCEPT !.pc = "deliver", !.cur = Daily(Today)]]
      BY <1>0, <2>2
    <3> QED
      BY <1>0, <1>2, <2>1, <3>1, <3>2
  <2> QED
    BY <1>0, <1>4, <1>12, <2>1, <2>2 DEF Record
<1>13. ASSUME NEW r \in Runs, Raises(r) \/ Release(r)
       PROVE  Quiet
  <2>1. CASE Raises(r)
    <3>1. Unlocking(act[r], [act[r] EXCEPT !.pc = "release", !.seen = Never])
      BY <1>0, <2>1 DEF Raises, Unlocking, At, Act
    <3>2. SameLock /\ act' = [act EXCEPT ![r] = [act[r] EXCEPT !.pc = "release", !.seen = Never]]
      BY <1>0, <2>1 DEF Raises
    <3> QED
      BY <1>0, <1>2, <3>1, <3>2
  <2>2. CASE Release(r)
    BY <1>0, <1>4, <1>5, <2>2 DEF Release, Ends, At
  <2> QED
    BY <1>13, <2>1, <2>2
<1>14. ASSUME NEW r \in Runs, Clear(r)
       PROVE  LockIsKnown' /\ DeadCheckLetsGo'
  <2>1. settings'.lock = None /\ settings'.until = -1 /\ clock' = clock
    BY <1>0, <1>14 DEF Clear, Settings, Never
  <2>2. act'[r].pc = "over" /\ act'[r].seen = Never /\ \A q \in Runs : q # r => act'[q] = act[q]
    BY <1>0, <1>14 DEF Clear, Over, NewAct
  <2>3. settings.lock \notin {r, None} => Raced'
    <3>1. Over(r, {"raced"}).odd = act[r].odd \cup {"raced"}
      BY <1>0, OverOK
    <3> QED
      BY <1>0, <1>14, <3>1 DEF Clear, Raced
  <2>4. ASSUME NEW q \in Runs, ~Rewritten', ~Raced', Working(q)', act'[q].until > clock'
        PROVE  FALSE
    <3>1. q # r /\ Working(q) /\ act[q].until > clock
      BY <2>1, <2>2, <2>4 DEF Working
    <3>2. settings.lock = q
      BY <1>0, <2>4, <3>1, OddStays DEF LockIsKnown
    <3> QED
      BY <2>3, <2>4, <3>1, <3>2, ParamsOK
  <2>5. ASSUME NEW q \in Runs
        PROVE  act'[q].seen <= clock' /\ (act'[q].seen # Never => At(q, "login")' \/ At(q, "scan")')
    BY <1>0, <2>1, <2>2 DEF LockIsKnown, At, Never
  <2>6. LockIsKnown'
    BY <2>1, <2>4, <2>5, ParamsOK DEF LockIsKnown
  <2>7. DeadCheckLetsGo'
    BY <2>1, ParamsOK DEF DeadCheckLetsGo
  <2> QED
    BY <2>6, <2>7
<1>15. ASSUME NEW a \in Actors, StartDelivery(a) \/ Takes(a) \/ Refused(a) \/ MarkSent(a)
       PROVE  Quiet
  <2>1. SameLock /\ act[a].pc \in {"deliver", "sending", "taken"}
    BY <1>0, <1>15 DEF StartDelivery, Takes, Refused, MarkSent, At, Settings
  <2>2. a \in Runs => Unlocking(act[a], Answered(a))
    <3> SUFFICES ASSUME a \in Runs PROVE Unlocking(act[a], Answered(a))
      OBVIOUS
    <3>1. act[a] \in Act /\ act[a].seen = Never
      BY <1>0, <2>1 DEF LockIsKnown, At
    <3> QED
      BY <2>1, <3>1 DEF Unlocking, Answered, Act
  <2> QED
    BY <1>2, <1>4, <1>15, <2>1, <2>2 DEF StartDelivery, Takes, Refused, MarkSent
<1>18. ASSUME NEW r \in Runs, RenewLock(r)
       PROVE  LockIsKnown' /\ DeadCheckLetsGo'
  BY <1>0, <1>18, LockRenewed
<1>16. ASSUME NEW m \in Mails, SendNow(m)
       PROVE  Quiet
  <2>1. m \notin Runs
    BY TrackerConstants
  <2>2. act' = [act EXCEPT ![m] = [act[m] EXCEPT !.pc = "deliver", !.cur = ByHand(m)]] /\ SameLock
    BY <1>0, <1>16 DEF SendNow
  <2> QED
    BY <1>0, <1>2, <2>1, <2>2
<1>17. ASSUME Tick
       PROVE  Quiet
  BY <1>3, <1>17 DEF Tick
<1> HIDE DEF Quiet
<1> QED
  BY <1>1, <1>6, <1>7, <1>8, <1>9, <1>10, <1>11, <1>12, <1>13, <1>14, <1>15, <1>16, <1>17, <1>18
     DEF Next, Jobs

-----------------------------------------------------------------------------
(* The outbox. *)

\* A delivery that failed keeps what the provider took, and the doubt it is given.
LEMMA FailedNote ==
  ASSUME NEW k \in Note, NEW d \in Nat
  PROVE  LET n == [k EXCEPT !.status = "failed", !.doubtful = d]
         IN  n \in Note /\ n.status = "failed" /\ n.taken = k.taken /\ n.doubtful = d
  BY DEF Note

\* What a step that delivers nothing does to actor a: at most a check begins
\* to, with the mail of the day.
Undelivering(a, k, l) ==
  /\ l.pc \in {"sending", "taken"} => l.pc = k.pc /\ l.cur = k.cur
  /\ l.pc = "deliver" => \/ k.pc = "deliver" /\ l.cur = k.cur
                         \/ a \notin Mails /\ l.cur = Daily(Today)
  /\ l.pc = "none" => k.pc = "none"

MailInv == KeysOfActors /\ OutboxOK /\ SentDayTrue

\* A step that delivers nothing keeps the outbox consistent.
LEMMA MailQuiet ==
  ASSUME TypeOK, TypeOK', MailInv, note' = note, settings'.sentDay = settings.sentDay, clock' >= clock,
         \A a \in Actors : Undelivering(a, act[a], act'[a])
  PROVE  MailInv'
<1>0. /\ Today \in Int /\ Today \in Days /\ Today' \in Int /\ Today' >= Today
      /\ \A d \in Days : d \in Int
  BY TodayIsDay, TodayGrows DEF TypeOK, Days
<1>1. KeysOfActors'
  <2>1. ASSUME NEW a \in Actors, Delivers(a)'
        PROVE  IF a \in Mails THEN act'[a].cur = ByHand(a)
               ELSE \E d \in Days : act'[a].cur = Daily(d) /\ d <= Today'
    <3>1. CASE Delivers(a) /\ act'[a].cur = act[a].cur
      <4>1. IF a \in Mails THEN act[a].cur = ByHand(a)
            ELSE \E d \in Days : act[a].cur = Daily(d) /\ d <= Today
        BY <3>1 DEF MailInv, KeysOfActors
      <4>2. ASSUME NEW d \in Days, d <= Today
            PROVE  d <= Today'
        <5>1. d \in Int /\ Today \in Int /\ Today' \in Int /\ Today' >= Today
          BY <1>0
        <5> QED
          BY <4>2, <5>1
      <4> QED
        BY <3>1, <4>1, <4>2
    <3>2. CASE a \notin Mails /\ act'[a].cur = Daily(Today)
      BY <1>0, <3>2
    <3> QED
      BY <2>1, <3>1, <3>2 DEF Delivers, Undelivering
  <2>2. ASSUME NEW m \in Mails, At(m, "none")'
        PROVE  note'[ByHand(m)].status = "none"
    BY <2>2, ParamsOK DEF MailInv, KeysOfActors, At, Undelivering
  <2> QED
    BY <2>1, <2>2 DEF KeysOfActors
<1>2. OutboxOK'
  <2>1. ASSUME NEW a \in Actors, NEW k \in Keys, Delivering(a, k)'
        PROVE  Delivering(a, k) /\ act'[a].pc = act[a].pc
    BY <2>1 DEF Delivering, Undelivering
  <2> QED
    BY <2>1 DEF MailInv, OutboxOK, At
<1>3. SentDayTrue'
  BY DEF MailInv, SentDayTrue
<1> QED
  BY <1>1, <1>2, <1>3 DEF MailInv

\* May actor a deliver the mail with key c?
MayDeliver(a, c) == IF a \in Mails THEN c = ByHand(a) ELSE \E d \in Days : c = Daily(d) /\ d <= Today

\* Actor a turns the row c into n, and nobody else delivers that row.
LEMMA DeliveryStep ==
  ASSUME TypeOK, TypeOK', MailInv, clock' = clock, NEW a \in Actors, NEW c \in Keys,
         \A b \in Actors \ {a} : act'[b] = act[b],
         act'[a].pc # "none", Delivers(a)' => act'[a].cur = c /\ MayDeliver(a, c),
         \A m \in Mails \ {a} : At(m, "none") => c # ByHand(m),
         NEW n \in Note, note' = [note EXCEPT ![c] = n],
         note[c].status # "sent" \/ n.status = "sent",
         n.taken <= n.doubtful + 1, n.status \in {"none", "pending", "failed"} => n.taken <= n.doubtful,
         act'[a].pc \in {"sending", "taken"} => n.status = "sending",
         act'[a].pc = "sending" => n.taken <= n.doubtful,
         \A b \in Actors \ {a} : ~Delivering(b, c)
  PROVE  /\ KeysOfActors' /\ OutboxOK' /\ note'[c] = n
         /\ \A d \in Days : note[Daily(d)].status = "sent" => note'[Daily(d)].status = "sent"
<1>1. Mails \subseteq Actors /\ note \in [Keys -> Note] /\ Today' = Today
  BY ParamsOK DEF TypeOK, Today
<1>2. note'[c] = n /\ \A k \in Keys : k # c => note'[k] = note[k]
  BY <1>1
<1>3. KeysOfActors'
  <2>1. ASSUME NEW b \in Actors, Delivers(b)'
        PROVE  IF b \in Mails THEN act'[b].cur = ByHand(b)
               ELSE \E d \in Days : act'[b].cur = Daily(d) /\ d <= Today'
    <3>1. CASE b = a
      BY <1>1, <2>1, <3>1 DEF MayDeliver
    <3>2. CASE b # a
      <4>1. Delivers(b) /\ act'[b].cur = act[b].cur
        BY <2>1, <3>2 DEF Delivers
      <4> QED
        BY <1>1, <4>1 DEF MailInv, KeysOfActors
    <3> QED
      BY <3>1, <3>2
  <2>2. ASSUME NEW m \in Mails, At(m, "none")'
        PROVE  note'[ByHand(m)].status = "none"
    <3>1. At(m, "none") /\ m # a
      BY <1>1, <2>2 DEF At
    <3> QED
      BY <1>1, <1>2, <3>1, KeysDiffer DEF MailInv, KeysOfActors
  <2> QED
    BY <2>1, <2>2 DEF KeysOfActors
<1>4. ASSUME NEW k \in Keys
      PROVE  /\ note'[k].taken <= note'[k].doubtful + 1
             /\ note'[k].status \in {"none", "pending", "failed"} => note'[k].taken <= note'[k].doubtful
             /\ \A b \in Actors : Delivering(b, k)' =>
                  /\ note'[k].status = "sending"
                  /\ At(b, "sending")' => note'[k].taken <= note'[k].doubtful
                  /\ \A d \in Actors : Delivering(d, k)' => d = b
  <2>1. CASE k = c
    <3>1. ASSUME NEW b \in Actors, Delivering(b, k)'
          PROVE  b = a
      BY <2>1, <3>1 DEF Delivering
    <3> QED
      BY <1>2, <2>1, <3>1 DEF Delivering, At
  <2>2. CASE k # c
    <3>1. ASSUME NEW b \in Actors, Delivering(b, k)'
          PROVE  b # a /\ Delivering(b, k) /\ act'[b] = act[b]
      BY <2>2, <3>1 DEF Delivering, Delivers
    <3> QED
      BY <1>2, <2>2, <3>1 DEF MailInv, OutboxOK, At
  <2> QED
    BY <2>1, <2>2
<1>5. OutboxOK'
  BY <1>4 DEF OutboxOK
<1>6. \A d \in Days : note[Daily(d)].status = "sent" => note'[Daily(d)].status = "sent"
  BY <1>2, KeysDiffer
<1> QED
  BY <1>2, <1>3, <1>5, <1>6

\* Recording the mail of the day keeps the outbox consistent.
LEMMA RecordMails ==
  ASSUME TypeOK, TypeOK', MailInv, NEW r \in Runs, Record(r)
  PROVE  MailInv'
<1> DEFINE c == Daily(Today)
<1>0. /\ act \in [Actors -> Act] /\ note \in [Keys -> Note] /\ r \in Actors /\ r \notin Mails
      /\ Today \in Days /\ Today \in Int /\ c \in Keys /\ clock' = clock /\ clock \in Nat
      /\ settings' = settings /\ act[r].pc = "record"
  <2>1. r \notin Mails
    BY TrackerConstants
  <2> QED
    BY <2>1, ParamsOK, TodayIsDay, KeysDiffer DEF TypeOK, Record, At
<1>1. CASE note' = note
  <2>1. act'[r].pc \in {"deliver", "release"} /\ (act'[r].pc = "deliver" => act'[r].cur = c)
    <3>1. CASE act' = [act EXCEPT ![r].pc = "deliver", ![r].cur = c]
      BY <1>0, <3>1 DEF Act
    <3>2. CASE Goes(r, "release")
      BY <1>0, <3>2 DEF Goes, Act
    <3> QED
      BY <3>1, <3>2 DEF Record
  <2>2. \A b \in Actors : b # r => act'[b] = act[b]
    BY <1>0 DEF Record, Goes
  <2>3. \A b \in Actors : Undelivering(b, act[b], act'[b])
    BY <1>0, <2>1, <2>2 DEF Undelivering
  <2> QED
    BY <1>0, <1>1, <2>3, MailQuiet
<1>2. CASE note' # note
  <2> DEFINE n == [note[c] EXCEPT !.status = "pending"]
  <2>1. /\ note[c].status \in {"none", "failed"}
        /\ note' = [note EXCEPT ![c] = n]
        /\ act' = [act EXCEPT ![r].pc = "deliver", ![r].cur = c]
    <3>1. /\ note' = [note EXCEPT ![c].status = IF note[c].status \in {"none", "failed"} THEN "pending" ELSE note[c].status]
          /\ act' = [act EXCEPT ![r].pc = "deliver", ![r].cur = c]
      BY <1>2 DEF Record
    <3>2. note[c].status \in {"none", "failed"}
      BY <1>0, <1>2, <3>1 DEF Note
    <3> QED
      BY <3>1, <3>2
  <2>2. n \in Note /\ n.status = "pending" /\ n.taken <= n.doubtful /\ n.taken <= n.doubtful + 1
    BY <1>0, <2>1 DEF Note, MailInv, OutboxOK
  <2>3. act'[r].pc = "deliver" /\ act'[r].cur = c /\ \A b \in Actors \ {r} : act'[b] = act[b]
    BY <1>0, <2>1 DEF Act
  <2>4. MayDeliver(r, c) /\ \A m \in Mails : c # ByHand(m)
    BY <1>0, KeysDiffer DEF MayDeliver
  <2>5. \A b \in Actors \ {r} : ~Delivering(b, c)
    BY <1>0, <2>1 DEF MailInv, OutboxOK
  <2> HIDE DEF n, c
  <2>6. /\ KeysOfActors' /\ OutboxOK'
        /\ \A d \in Days : note[Daily(d)].status = "sent" => note'[Daily(d)].status = "sent"
    BY <1>0, <2>1, <2>2, <2>3, <2>4, <2>5, DeliveryStep
  <2> QED
    BY <1>0, <2>6 DEF MailInv, SentDayTrue
<1> QED
  BY <1>1, <1>2

\* Sending by hand keeps the outbox consistent.
LEMMA SendNowMails ==
  ASSUME TypeOK, TypeOK', MailInv, NEW m \in Mails, SendNow(m)
  PROVE  MailInv'
<1> DEFINE c == ByHand(m)
           n == [note[c] EXCEPT !.status = "pending"]
<1>0. /\ act \in [Actors -> Act] /\ note \in [Keys -> Note] /\ m \in Actors /\ c \in Keys
      /\ clock' = clock /\ settings' = settings /\ note[c].status = "none"
      /\ note' = [note EXCEPT ![c] = n]
      /\ act' = [act EXCEPT ![m].pc = "deliver", ![m].cur = c]
  BY ParamsOK, KeysDiffer DEF TypeOK, SendNow, MailInv, KeysOfActors
<1>1. n \in Note /\ n.status = "pending" /\ n.taken <= n.doubtful /\ n.taken <= n.doubtful + 1
  BY <1>0 DEF Note, MailInv, OutboxOK
<1>2. act'[m].pc = "deliver" /\ act'[m].cur = c /\ \A b \in Actors \ {m} : act'[b] = act[b]
  BY <1>0 DEF Act
<1>3. MayDeliver(m, c) /\ \A o \in Mails \ {m} : c # ByHand(o)
  BY KeysDiffer DEF MayDeliver
<1>4. \A b \in Actors \ {m} : ~Delivering(b, c)
  BY <1>0 DEF MailInv, OutboxOK
<1> HIDE DEF n, c
<1>5. /\ KeysOfActors' /\ OutboxOK'
      /\ \A d \in Days : note[Daily(d)].status = "sent" => note'[Daily(d)].status = "sent"
  BY <1>0, <1>1, <1>2, <1>3, <1>4, DeliveryStep
<1> QED
  BY <1>0, <1>5 DEF MailInv, SentDayTrue

\* The steps of a delivery keep the outbox consistent.
LEMMA DeliveryMails ==
  ASSUME TypeOK, TypeOK', MailInv, NEW a \in Actors,
         StartDelivery(a) \/ Takes(a) \/ Refused(a) \/ MarkSent(a)
  PROVE  MailInv'
<1> DEFINE c == act[a].cur
<1>0. /\ act \in [Actors -> Act] /\ note \in [Keys -> Note] /\ settings \in Settings /\ clock' = clock
      /\ act[a].pc \in {"deliver", "sending", "taken"}
  BY DEF TypeOK, StartDelivery, Takes, Refused, MarkSent, At
<1>1. /\ c \in Keys /\ MayDeliver(a, c) /\ note[c] \in Note
      /\ \A m \in Mails \ {a} : At(m, "none") => c # ByHand(m)
      /\ c[1] = "scheduled" => \E d \in Days : c = Daily(d) /\ d <= Today
  <2>1. Delivers(a) /\ KeysOfActors
    BY <1>0 DEF Delivers, MailInv
  <2>2. /\ c \in Keys /\ \A m \in Mails : At(m, "none") => c # ByHand(m)
        /\ c[1] = "scheduled" => \E d \in Days : c = Daily(d) /\ d <= Today
    BY <2>1, CurIsKey
  <2> QED
    BY <1>0, <2>1, <2>2 DEF KeysOfActors, MayDeliver
<1>2. /\ Answered(a) \in Act /\ Answered(a).pc \in {"release", "over"}
  BY AnsweredOK
<1>3. ASSUME NEW pc \in Pcs, Goes(a, pc)
      PROVE  act'[a].pc = pc /\ act'[a].cur = c /\ \A b \in Actors \ {a} : act'[b] = act[b]
  BY <1>0, <1>3 DEF Goes, Act
<1>4. ASSUME act' = [act EXCEPT ![a] = Answered(a)]
      PROVE  act'[a].pc \in {"release", "over"} /\ \A b \in Actors \ {a} : act'[b] = act[b]
  BY <1>0, <1>2, <1>4
<1>5. act[a].pc \in {"sending", "taken"} =>
        /\ note[c].status = "sending" /\ \A b \in Actors \ {a} : ~Delivering(b, c)
        /\ act[a].pc = "sending" => note[c].taken <= note[c].doubtful
  BY <1>1 DEF MailInv, OutboxOK, Delivering, At
<1>6. note[c].taken <= note[c].doubtful + 1
  BY <1>1 DEF MailInv, OutboxOK
<1> HIDE DEF c
<1>7. ASSUME StartDelivery(a), note[c].status \in {"pending", "failed"}
      PROVE  MailInv'
  <2> DEFINE n == [note[c] EXCEPT !.status = "sending"]
  <2>1. note' = [note EXCEPT ![c] = n] /\ Goes(a, "sending") /\ settings' = settings
    BY <1>7 DEF StartDelivery, c
  <2>2. n \in Note /\ n.status = "sending" /\ n.taken <= n.doubtful /\ n.taken <= n.doubtful + 1
    BY <1>1, <1>7 DEF Note, MailInv, OutboxOK
  <2>3. act'[a].pc = "sending" /\ act'[a].cur = c /\ \A b \in Actors \ {a} : act'[b] = act[b]
    BY <1>3, <2>1 DEF Pcs
  <2>4. \A b \in Actors \ {a} : ~Delivering(b, c)
    BY <1>1, <1>7 DEF MailInv, OutboxOK
  <2> HIDE DEF n
  <2>5. /\ KeysOfActors' /\ OutboxOK'
        /\ \A d \in Days : note[Daily(d)].status = "sent" => note'[Daily(d)].status = "sent"
    BY <1>0, <1>1, <1>7, <2>1, <2>2, <2>3, <2>4, DeliveryStep
  <2> QED
    BY <2>1, <2>5 DEF MailInv, SentDayTrue
<1>8. ASSUME StartDelivery(a), note[c].status \notin {"pending", "failed"}
      PROVE  MailInv'
  <2>1. act' = [act EXCEPT ![a] = Answered(a)] /\ note' = note /\ settings' = settings
    BY <1>8 DEF StartDelivery, c
  <2>2. \A b \in Actors : Undelivering(b, act[b], act'[b])
    BY <1>4, <2>1 DEF Undelivering
  <2>3. settings'.sentDay = settings.sentDay /\ clock' >= clock
    BY <1>0, <1>4, <2>1 DEF TypeOK
  <2> QED
    BY <1>0, <2>1, <2>2, <2>3, MailQuiet
<1>9. ASSUME Takes(a)
      PROVE  MailInv'
  <2> DEFINE n == [note[c] EXCEPT !.taken = note[c].taken + 1]
  <2>1. note' = [note EXCEPT ![c] = n] /\ Goes(a, "taken") /\ settings' = settings /\ act[a].pc = "sending"
    BY <1>9 DEF Takes, At, c
  <2>2. n \in Note /\ n.status = "sending" /\ n.taken <= n.doubtful + 1
    BY <1>1, <1>5, <2>1 DEF Note
  <2>3. act'[a].pc = "taken" /\ act'[a].cur = c /\ \A b \in Actors \ {a} : act'[b] = act[b]
    BY <1>3, <2>1 DEF Pcs
  <2> HIDE DEF n
  <2>4. /\ KeysOfActors' /\ OutboxOK'
        /\ \A d \in Days : note[Daily(d)].status = "sent" => note'[Daily(d)].status = "sent"
    BY <1>0, <1>1, <1>5, <2>1, <2>2, <2>3, DeliveryStep
  <2> QED
    BY <2>1, <2>4 DEF MailInv, SentDayTrue
<1>10. ASSUME Refused(a)
       PROVE  MailInv'
  <2> DEFINE lost == IF At(a, "taken") THEN 1 ELSE 0
             n == [note[c] EXCEPT !.status = "failed", !.doubtful = note[c].doubtful + lost]
  <2>1. /\ note' = [note EXCEPT ![c] = n] /\ settings' = settings /\ act[a].pc \in {"sending", "taken"}
        /\ act' = [act EXCEPT ![a] = Answered(a)]
    BY <1>0, <1>1, <1>10 DEF Refused, Note, c
  <2>2. lost \in Nat /\ note[c].taken <= note[c].doubtful + lost
    BY <1>1, <1>5, <1>6, <2>1 DEF At, Note
  <2> HIDE DEF lost
  <2>0. note[c].doubtful + lost \in Nat /\ note[c].taken \in Nat
    BY <1>1, <2>2 DEF Note
  <2>m. n \in Note /\ n.status = "failed" /\ n.taken = note[c].taken /\ n.doubtful = note[c].doubtful + lost
    BY <1>1, <2>0, FailedNote
  <2>3. n \in Note /\ n.status = "failed" /\ n.taken <= n.doubtful /\ n.taken <= n.doubtful + 1
    BY <2>0, <2>2, <2>m
  <2>4. act'[a].pc \in {"release", "over"} /\ \A b \in Actors \ {a} : act'[b] = act[b]
    BY <1>4, <2>1
  <2>5. ~Delivers(a)'
    BY <2>4 DEF Delivers
  <2> HIDE DEF n
  <2>6. /\ KeysOfActors' /\ OutboxOK'
        /\ \A d \in Days : note[Daily(d)].status = "sent" => note'[Daily(d)].status = "sent"
    BY <1>0, <1>1, <1>5, <2>1, <2>3, <2>4, <2>5, DeliveryStep
  <2> QED
    BY <2>1, <2>6 DEF MailInv, SentDayTrue
<1>11. ASSUME MarkSent(a)
       PROVE  MailInv'
  <2> DEFINE n == [note[c] EXCEPT !.status = "sent"]
  <2>1. /\ note' = [note EXCEPT ![c] = n] /\ act[a].pc = "taken"
        /\ act' = [act EXCEPT ![a] = Answered(a)]
        /\ settings' = IF c[1] = "scheduled" THEN [settings EXCEPT !.sentDay = Today] ELSE settings
    BY <1>11 DEF MarkSent, At, c
  <2>2. n \in Note /\ n.status = "sent" /\ n.taken <= n.doubtful + 1
    BY <1>1, <1>6 DEF Note
  <2>3. act'[a].pc \in {"release", "over"} /\ \A b \in Actors \ {a} : act'[b] = act[b]
    BY <1>4, <2>1
  <2>4. ~Delivers(a)'
    BY <2>3 DEF Delivers
  <2> HIDE DEF n
  <2>5. /\ KeysOfActors' /\ OutboxOK' /\ note'[c] = n
        /\ \A d \in Days : note[Daily(d)].status = "sent" => note'[Daily(d)].status = "sent"
    BY <1>0, <1>1, <1>5, <2>1, <2>2, <2>3, <2>4, DeliveryStep
  <2>6. SentDayTrue'
    <3>1. CASE c[1] = "scheduled"
      <4>1. settings'.sentDay = Today
        BY <1>0, <2>1, <3>1 DEF Settings
      <4>2. PICK d \in Days : c = Daily(d) /\ d <= Today
        BY <1>1, <3>1
      <4> QED
        BY <2>2, <2>5, <4>1, <4>2 DEF SentDayTrue
    <3>2. CASE c[1] # "scheduled"
      BY <2>1, <2>5, <3>2 DEF MailInv, SentDayTrue
    <3> QED
      BY <3>1, <3>2
  <2> QED
    BY <2>5, <2>6 DEF MailInv
<1> QED
  BY <1>7, <1>8, <1>9, <1>10, <1>11

\* The outbox is kept consistent.
LEMMA MailNext ==
  ASSUME TypeOK, TypeOK', MailInv, Next
  PROVE  MailInv'
<1>0. /\ act \in [Actors -> Act] /\ act' \in [Actors -> Act] /\ Runs \subseteq Actors /\ Mails \subseteq Actors
      /\ settings \in Settings /\ note \in [Keys -> Note] /\ clock' >= clock
      /\ Today \in Days /\ \A d \in Days : d \in Int
  BY ParamsOK, TypeNext, TodayIsDay DEF TypeOK, MailInv, Days
<1> DEFINE SameMail == note' = note /\ settings'.sentDay = settings.sentDay
           Quiet == SameMail /\ \A a \in Actors : Undelivering(a, act[a], act'[a])
<1>1. ASSUME Quiet
      PROVE  MailInv'
  BY <1>0, <1>1, MailQuiet
<1>2. ASSUME NEW a \in Actors, NEW k, Undelivering(a, act[a], k), SameMail, act' = [act EXCEPT ![a] = k]
      PROVE  Quiet
  BY <1>0, <1>2 DEF Undelivering
<1>3. ASSUME act' = act, SameMail
      PROVE  Quiet
  BY <1>3 DEF Undelivering
<1>4. ASSUME NEW a \in Actors, NEW pc, Goes(a, pc), SameMail, pc \notin {"none", "deliver", "sending", "taken"}
      PROVE  Quiet
  <2>1. Undelivering(a, act[a], [act[a] EXCEPT !.pc = pc])
    BY <1>0, <1>4 DEF Undelivering, Act
  <2> QED
    BY <1>0, <1>2, <1>4, <2>1 DEF Goes
<1>5. ASSUME NEW a \in Actors, NEW odd, act' = [act EXCEPT ![a] = Over(a, odd)], SameMail
      PROVE  Quiet
  <2>1. Over(a, odd).pc = "over"
    BY DEF Over, NewAct
  <2> QED
    BY <1>2, <1>5, <2>1 DEF Undelivering
<1>6. ASSUME NEW j \in Jobs, EnqueueDue(j) \/ CheckNow(j)
      PROVE  Quiet
  <2>1. SameMail /\ (act' = act \/ Goes(<<j, 1>>, "claim"))
    BY <1>0, <1>6 DEF EnqueueDue, CheckNow, Settings
  <2>2. CASE <<j, 1>> \in Actors
    BY <1>3, <1>4, <2>1, <2>2
  <2>3. CASE <<j, 1>> \notin Actors
    BY <1>0, <1>3, <2>1, <2>3 DEF Goes
  <2> QED
    BY <2>2, <2>3
<1>7. ASSUME NEW j \in Jobs, NEW n \in 1..MaxAttempts, Again(j, n)
      PROVE  Quiet
  <2>1. <<j, n>> \in Actors
    BY DEF Actors, Runs
  <2> QED
    BY <1>4, <1>7, <2>1 DEF Again
<1>8. ASSUME NEW a \in Actors, Die(a)
      PROVE  Quiet
  <2>1. [Over(a, {}) EXCEPT !.pc = "dead", !.at = clock, !.lease = act[a].lease].pc = "dead"
    BY DEF Over, NewAct
  <2> QED
    BY <1>2, <1>8, <2>1 DEF Die, Undelivering
<1>9. ASSUME NEW r \in Runs, Claim(r)
      PROVE  Quiet
  <2>1. CASE settings.lock # None /\ settings.until > clock
    BY <1>0, <1>5, <1>9, <2>1 DEF Claim, ClaimFor, Ends
  <2>2. CASE ~(settings.lock # None /\ settings.until > clock)
    <3> DEFINE k == [act[r] EXCEPT !.pc = "login", !.seen = Due, !.until = clock + FirstLease,
                                   !.lease = FirstLease]
    <3>1. SameMail /\ act' = [act EXCEPT ![r] = k]
      BY <1>0, <1>9, <2>2 DEF Claim, ClaimFor, Settings
    <3>2. Undelivering(r, act[r], k)
      BY <1>0 DEF Undelivering, Act
    <3> HIDE DEF k
    <3> QED
      BY <1>0, <1>2, <3>1, <3>2
  <2> QED
    BY <2>1, <2>2
<1>10. ASSUME NEW r \in Runs, Heartbeat(r) \/ RenewLock(r) \/ Login(r) \/ ScanPage(r)
       PROVE  Quiet
  <2>1. SameMail
    BY <1>0, <1>10, BeatOK DEF Login, ScanPage
  <2>2. CASE Heartbeat(r) \/ RenewLock(r)
    <3>1. Undelivering(r, act[r], act'[r])
      BY <2>2, BeatOK DEF Undelivering
    <3> QED
      BY <1>0, <1>2, <2>1, <2>2, <3>1, BeatOK
  <2>3. CASE Login(r) \/ ScanPage(r)
    <3>1. act'[r].pc \in {"login", "scan", "release"} /\ \A q \in Actors : q # r => act'[q] = act[q]
      <4>1. CASE Login(r) /\ portal = None
        BY <1>0, <4>1 DEF Login, Act
      <4>2. CASE Login(r) /\ portal # None
        BY <1>0, <4>2, NextTryOK DEF Login
      <4>3. CASE ScanPage(r)
        BY <1>0, <4>3 DEF ScanPage, At, Act
      <4> QED
        BY <2>3, <4>1, <4>2, <4>3
    <3> QED
      BY <2>1, <3>1 DEF Undelivering
  <2> QED
    BY <1>10, <2>2, <2>3
<1>11. ASSUME NEW r \in Runs, Scanned(r)
       PROVE  Quiet
  <2>1. ASSUME NEW next \in Act, next.pc \in {"login", "record", "release"}, Leave(r, next)
        PROVE  Quiet
    <3>1. PICK k : act' = [act EXCEPT ![r] = k] /\ k.pc = next.pc
      BY <2>1 DEF Leave, Act
    <3>2. Undelivering(r, act[r], k)
      BY <2>1, <3>1 DEF Undelivering
    <3> QED
      BY <1>0, <1>2, <1>11, <3>1, <3>2 DEF Scanned
  <2>2. /\ [act[r] EXCEPT !.pc = "record", !.page = 0, !.tries = 0, !.seen = Never] \in Act
        /\ [act[r] EXCEPT !.pc = "record", !.page = 0, !.tries = 0, !.seen = Never].pc = "record"
    <3>1. 0 \in 0..Pages /\ 0 \in Nat /\ act[r] \in Act /\ Never \in Int
      BY <1>0, ParamsOK DEF Never
    <3>2. [act[r] EXCEPT !.pc = "record", !.page = 0, !.tries = 0, !.seen = Never] \in Act
      BY <3>1, ActFields DEF Pcs
    <3> QED
      BY <3>1, <3>2 DEF Act
  <2>3. NextTry(r) \in Act /\ NextTry(r).pc \in {"login", "release"}
    BY NextTryOK
  <2> QED
    BY <1>11, <2>1, <2>2, <2>3 DEF Scanned
<1>12. ASSUME NEW r \in Runs, Raises(r) \/ Release(r)
       PROVE  Quiet
  <2>1. CASE Raises(r)
    <3>1. Undelivering(r, act[r], [act[r] EXCEPT !.pc = "release", !.seen = Never])
      BY <1>0 DEF Undelivering, Act
    <3>2. SameMail /\ act' = [act EXCEPT ![r] = [act[r] EXCEPT !.pc = "release", !.seen = Never]]
      BY <1>0, <2>1 DEF Raises
    <3> QED
      BY <1>0, <1>2, <3>1, <3>2
  <2> QED
    BY <1>0, <1>4, <1>5, <1>12, <2>1 DEF Release, Ends
<1>13. ASSUME NEW r \in Runs, Clear(r)
       PROVE  Quiet
  <2>1. SameMail
    BY <1>0, <1>13 DEF Clear, Settings
  <2> QED
    BY <1>0, <1>5, <1>13, <2>1 DEF Clear
<1>14. ASSUME Tick
       PROVE  Quiet
  BY <1>3, <1>14 DEF Tick
<1> HIDE DEF Quiet
<1> QED
  BY <1>1, <1>6, <1>7, <1>8, <1>9, <1>10, <1>11, <1>12, <1>13, <1>14, RecordMails, SendNowMails, DeliveryMails
     DEF Next, Jobs

-----------------------------------------------------------------------------
(* The theorems. *)

\* The invariant is inductive.
LEMMA NextInductive == ASSUME Inductive, [Next]_vars PROVE Inductive'
<1>1. CASE UNCHANGED vars
  BY <1>1 DEF vars, Inductive, StateIsConsistent, TypeOK, AccountIsFreed, SentDayTrue, DeadCheckLetsGo,
              ScannerIsLoggedIn, LockIsKnown, Rewritten, Raced, KeysOfActors, OutboxOK, Working, Delivers, Delivering, At, Today
<1>2. CASE Next
  <2>1. TypeOK'
    BY <1>2, TypeNext DEF Inductive, StateIsConsistent
  <2>2. AccountIsFreed' /\ ScannerIsLoggedIn'
    BY <1>2, PortalNext DEF Inductive, StateIsConsistent
  <2>3. LockIsKnown' /\ DeadCheckLetsGo'
    BY <1>2, <2>1, LockNext DEF Inductive, StateIsConsistent
  <2>4. KeysOfActors' /\ OutboxOK' /\ SentDayTrue'
    BY <1>2, <2>1, MailNext DEF Inductive, StateIsConsistent, MailInv
  <2> QED
    BY <2>1, <2>2, <2>3, <2>4 DEF Inductive, StateIsConsistent
<1> QED
  BY <1>1, <1>2

\* The inductive invariant holds in every reachable state.
THEOREM InvariantHolds == Spec => []Inductive
<1>1. Init => Inductive
  BY InitInductive
<1>2. Inductive /\ [Next]_vars => Inductive'
  BY NextInductive
<1> QED
  BY <1>1, <1>2, PTL DEF Spec

\* The settings row, the outbox and the account at the portal stay consistent:
\* after a check nobody is logged in, unless its worker died or the portal
\* ignored the logout, and a day is marked by a mail that was sent.
THEOREM TrackerConsistent == Spec => []StateIsConsistent
<1>1. Inductive => StateIsConsistent
  BY DEF Inductive
<1> QED
  BY <1>1, InvariantHolds, PTL

\* Checks that renew their lock before it lapses do not overlap, but for a release
\* or a renewal that comes after a successor has the lock; and no mail goes out
\* twice, but for a doubtful one.
THEOREM ChecksAndMailsOnce == Spec => []OneCheckOneMail
<1>1. Inductive => OneCheckWithinWindow
  <2> SUFFICES ASSUME Inductive, NEW r \in Runs, NEW q \in Runs, r # q, Working(r), Working(q),
                      ~Raced, ~Rewritten, ~(act[r].until <= clock), ~(act[q].until <= clock)
               PROVE  FALSE
    BY DEF OneCheckWithinWindow
  <2>1. clock \in Int /\ act[r].until \in Int /\ act[q].until \in Int
    BY ParamsOK DEF Inductive, StateIsConsistent, TypeOK, Act
  <2>2. settings.lock = r /\ settings.lock = q
    BY <2>1 DEF Inductive, LockIsKnown
  <2> QED
    BY <2>2
<1>2. Inductive => MailedOnce
  BY DEF Inductive, OutboxOK, MailedOnce
<1> QED
  BY <1>1, <1>2, InvariantHolds, PTL DEF OneCheckOneMail

\* A dead check holds the lock for the window, or for its first lease, at most,
\* unless another check's late renewal is written over it.
THEOREM LockOfDeadCheckEnds == Spec => []DeadCheckLetsGo
<1>1. Inductive => DeadCheckLetsGo
  BY DEF Inductive
<1> QED
  BY <1>1, InvariantHolds, PTL
=============================================================================
