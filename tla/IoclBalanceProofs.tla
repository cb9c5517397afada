-------------------------- MODULE IoclBalanceProofs --------------------------
(***************************************************************************)
(* Proofs about IoclBalance for all values of its constants that satisfy   *)
(* BalanceConstants: the lock with its lease, the session, the outbox and  *)
(* the log stay consistent, checks do not share the portal account, no     *)
(* mail goes out twice but a doubtful one, reminders come when they are    *)
(* due.  The invariant is Inductive; a lemma for each part of it shows     *)
(* that a step keeps it.                                                   *)
(***************************************************************************)
EXTENDS IoclBalance, WellFoundedInduction, TLAPS

-----------------------------------------------------------------------------
(* Constants, keys and days. *)

\* What BalanceConstants says of the constants.
LEMMA ParamsOK ==
  /\ MaxTime \in Nat /\ DayTicks \in Nat /\ DayTicks > 0 /\ MaxAttempts \in Nat /\ 1 \in 1..MaxAttempts
  /\ Lease \in Nat /\ Interval \in Nat /\ Repeat \in Nat /\ Repeat > 0
  /\ Balances \subseteq Int /\ Threshold \in Int
  /\ None \notin Runs /\ None \notin Keys /\ None \notin Accounts /\ None \notin Balances
  /\ Runs \subseteq Actors /\ Mails \subseteq Actors /\ Mails \cap Runs = {}
  BY BalanceConstants DEF Actors

\* Keys of different mails differ.
LEMMA KeysDiffer ==
  /\ \A d \in Days : Daily(d) \in Keys /\ Daily(d)[1] = "daily"
  /\ \A r \in Runs : Reminder(r) \in Keys /\ Reminder(r)[1] # "daily"
  /\ \A m \in Mails : ByHand(m) \in Keys /\ ByHand(m)[1] # "daily"
  /\ \A d, r : Daily(d) # Reminder(r)
  /\ \A d, m : Daily(d) # ByHand(m)
  /\ \A r, m : Reminder(r) # ByHand(m)
  /\ \A d, e : Daily(d) = Daily(e) => d = e
  /\ \A r, q : Reminder(r) = Reminder(q) => r = q
  /\ \A m, n : ByHand(m) = ByHand(n) => m = n
  BY DEF Keys, Daily, Reminder, ByHand

\* Division does not turn the order of two times round.
LEMMA DivGrows ==
  ASSUME NEW a \in Nat, NEW b \in Nat, a <= b, NEW d \in Nat, d > 0
  PROVE  a \div d \in Nat /\ b \div d \in Nat /\ a \div d <= b \div d
  OBVIOUS

\* The date on the clock is one of the days.
LEMMA TodayIsDay == clock \in 0..MaxTime => Today \in Days /\ Today \in Nat
  BY ParamsOK, DivGrows DEF Today, Days

-----------------------------------------------------------------------------
(* The steps of one actor. *)

\* Marks and phases of an actor.
Odd == {"foreign", "raced"}
Portal(k) == k.pc \notin {"none", "claim", "over", "dead"}
Early(k) == k.pc \in {"none", "claim", "fetch", "record"}

\* Fields of an actor.
LEMMA Moved ==
  ASSUME NEW k \in Act, NEW pc \in Pcs
  PROVE  [k EXCEPT !.pc = pc] \in Act
  BY DEF Act

\* An execution that has not begun is well formed.
LEMMA NewActOK == NewAct \in Act /\ NewAct.cur = None
  BY DEF NewAct, Act, Pcs, Never

Gone(pc, c, odd) == [NewAct EXCEPT !.pc = pc, !.cur = c, !.odd = odd]

\* An execution that has ended or died keeps what the properties know of it.
LEMMA GoneOK ==
  ASSUME NEW pc \in Pcs, NEW c \in Keys \cup {None}, NEW odd \in SUBSET Odd
  PROVE  /\ Gone(pc, c, odd) \in Act
         /\ Gone(pc, c, odd).pc = pc /\ Gone(pc, c, odd).cur = c /\ Gone(pc, c, odd).odd = odd
<1>1. ASSUME NEW k \in Act
      PROVE  LET l == [k EXCEPT !.pc = pc, !.cur = c, !.odd = odd]
             IN  l \in Act /\ l.pc = pc /\ l.cur = c /\ l.odd = odd
  BY DEF Act, Odd
<1> QED
  BY <1>1, NewActOK DEF Gone

Claimed(k, a, s, n) == [k EXCEPT !.pc = "fetch", !.account = a, !.session = s, !.until = n]

\* A claimed check has a lease and a snapshot of the account and its session.
LEMMA ClaimedOK ==
  ASSUME NEW k \in Act, NEW a \in Accounts, NEW s \in Accounts \cup {None}, NEW n \in Int
  PROVE  LET l == Claimed(k, a, s, n)
         IN  l \in Act /\ l.pc = "fetch" /\ l.account = a /\ l.session = s /\ l.until = n /\ l.odd = k.odd /\ l.cur = k.cur
  BY DEF Act, Pcs, Claimed

Fetched(k, b, s) == [k EXCEPT !.pc = "record", !.balance = b, !.session = s]

\* A fetched check has a balance.
LEMMA FetchedOK ==
  ASSUME NEW k \in Act, NEW b \in Balances, NEW s \in Accounts \cup {None}
  PROVE  LET l == Fetched(k, b, s)
         IN  /\ l \in Act /\ l.pc = "record" /\ l.balance = b /\ l.session = s
             /\ l.account = k.account /\ l.until = k.until /\ l.odd = k.odd /\ l.cur = k.cur
  BY DEF Act, Pcs, Fetched

Retried(k) == [k EXCEPT !.tries = @ + 1]

\* A failed attempt counts, and nothing else.
LEMMA RetriedOK ==
  ASSUME NEW k \in Act
  PROVE  LET l == Retried(k)
         IN  /\ l \in Act /\ l.pc = k.pc /\ l.session = k.session /\ l.balance = k.balance
             /\ l.account = k.account /\ l.until = k.until /\ l.odd = k.odd /\ l.cur = k.cur
<1>1. k.tries + 1 \in Nat
  BY DEF Act
<1> QED
  BY <1>1 DEF Act, Retried

Delivers(T, n, odd) == [NewAct EXCEPT !.pc = "deliver", !.todo = T, !.until = n, !.odd = odd]

\* A recorded check has a list to deliver.
LEMMA DeliversOK ==
  ASSUME NEW T \in SUBSET Keys, NEW n \in Int, NEW odd \in SUBSET Odd
  PROVE  LET l == Delivers(T, n, odd)
         IN  l \in Act /\ l.pc = "deliver" /\ l.todo = T /\ l.until = n /\ l.odd = odd /\ l.cur = None
<1>1. ASSUME NEW k \in Act
      PROVE  LET l == [k EXCEPT !.pc = "deliver", !.todo = T, !.until = n, !.odd = odd]
             IN  l \in Act /\ l.pc = "deliver" /\ l.todo = T /\ l.until = n /\ l.odd = odd /\ l.cur = k.cur
  BY DEF Act, Odd, Pcs
<1> QED
  BY <1>1, NewActOK DEF Delivers

\* Steps of a delivery keep an execution well formed.
LEMMA Listed ==
  ASSUME NEW k \in Act, NEW T \in SUBSET Keys, NEW pc \in Pcs, NEW c \in Keys \cup {None}
  PROVE  /\ [k EXCEPT !.todo = T] \in Act
         /\ [k EXCEPT !.pc = pc, !.todo = T] \in Act
         /\ [k EXCEPT !.pc = pc, !.cur = c] \in Act
         /\ [k EXCEPT !.todo = T, !.pc = pc, !.cur = c] \in Act
  BY DEF Act

\* What a step does to an actor, k before it and l after it.
Kept(a, k, l) ==
  /\ k.odd \subseteq l.odd
  /\ Early(l) => Early(k) /\ l.odd = k.odd /\ l.cur = k.cur
  /\ l.pc = "none" => k.pc = "none"
  /\ l.pc = "deliver" => l.cur = None \/ (k.pc = "deliver" /\ l.cur = k.cur)
  /\ l.cur = k.cur \/ k.cur = None \/ Refused(a) \/ MarkSent(a)
  /\ Portal(l) => (Portal(k) /\ l.until = k.until) \/ Claim(a) \/ a \in Mails
  /\ l.pc = "record" => (k.pc = "record" /\ l.balance = k.balance) \/ l.balance \in Balances
  /\ l.pc \in {"fetch", "record"} =>
       \/ Claim(a)
       \/ k.pc \in {"fetch", "record"} /\ l.account = k.account /\ l.session \in {k.session, k.account}
  /\ l.pc \in {"sending", "taken"} => (l.pc = k.pc /\ l.cur = k.cur) \/ StartDelivery(a) \/ Takes(a)

\* A step of one actor.
OneStep(a, l) == l \in Act /\ Kept(a, act[a], l) /\ act' = [act EXCEPT ![a] = l]

\* A step of one actor leaves the others alone.
LEMMA OneActor ==
  ASSUME TypeOK, NEW a \in Actors, NEW l, OneStep(a, l)
  PROVE  act' \in [Actors -> Act] /\ \A b \in Actors : Kept(b, act[b], act'[b])
<1>1. \A b \in Actors \ {a} : act'[b] = act[b]
  BY DEF OneStep, TypeOK
<1>2. \A b \in Actors \ {a} : Kept(b, act[b], act[b])
  BY DEF Kept
<1>3. act'[a] = l /\ act' \in [Actors -> Act]
  BY DEF OneStep, TypeOK
<1> QED
  BY <1>1, <1>2, <1>3 DEF OneStep

\* Every action is a step of one actor, or of none.
LEMMA ActNext ==
  ASSUME TypeOK, FreshIsNew, OutboxOK, Next
  PROVE  act' \in [Actors -> Act] /\ \A b \in Actors : Kept(b, act[b], act'[b])
<1>1. /\ act \in [Actors -> Act] /\ clock \in Nat /\ Runs \subseteq Actors /\ Mails \subseteq Actors /\ Lease \in Nat
      /\ settings \in Settings /\ Odd = {"foreign", "raced"}
  BY ParamsOK DEF TypeOK, Odd
<1>2. ASSUME act' = act
      PROVE  act' \in [Actors -> Act] /\ \A b \in Actors : Kept(b, act[b], act'[b])
  BY <1>1, <1>2 DEF Kept
<1>3. ASSUME NEW a \in Actors, NEW pc \in Pcs, Goes(a, pc),
             \/ pc \in {"over", "dead"} \/ (pc = "claim" /\ act[a].pc = "none")
             \/ pc \in {"release", "clear"} /\ Portal(act[a])
             \/ Takes(a) /\ pc = "taken"
      PROVE  \E l : OneStep(a, l)
  <2> DEFINE l == [act[a] EXCEPT !.pc = pc]
  <2>1. l \in Act /\ act' = [act EXCEPT ![a] = l]
    BY <1>1, <1>3, Moved DEF Goes
  <2>2. Kept(a, act[a], l)
    BY <1>1, <1>3 DEF Kept, Portal, Early, Act, Takes, At
  <2>3. OneStep(a, l)
    BY <2>1, <2>2 DEF OneStep
  <2> QED
    BY <2>3
<1>4. ASSUME NEW a \in Actors, NEW pc \in {"over", "dead"}, NEW odd \in SUBSET Odd, act[a].odd \subseteq odd,
             act' = [act EXCEPT ![a] = Gone(pc, act[a].cur, odd)]
      PROVE  \E l : OneStep(a, l)
  <2> DEFINE l == Gone(pc, act[a].cur, odd)
  <2>1. act[a].cur \in Keys \cup {None} /\ pc \in Pcs
    BY <1>1 DEF Act, Pcs
  <2>2. l \in Act /\ l.pc = pc /\ l.cur = act[a].cur /\ l.odd = odd
    BY <2>1, GoneOK
  <2> HIDE DEF l
  <2>3. Kept(a, act[a], l)
    BY <1>4, <2>2 DEF Kept, Portal, Early
  <2>4. OneStep(a, l)
    BY <1>4, <2>2, <2>3 DEF OneStep, l
  <2> QED
    BY <2>4
<1>5. ASSUME NEW a \in Actors, NEW pc \in {"over", "dead"}, Ends(a, pc)
      PROVE  \E l : OneStep(a, l)
  <2>1. act[a].odd \in SUBSET Odd
    BY <1>1 DEF Act
  <2> QED
    BY <1>4, <1>5, <2>1 DEF Ends, Gone
<1>6. ASSUME NEW j \in Jobs, EnqueueDue(j) \/ CheckNow(j), act' # act
      PROVE  \E a \in Actors : \E l : OneStep(a, l)
  <2>1. Goes(<<j, 1>>, "claim") /\ <<j, 1>> \in Actors /\ act[<<j, 1>>].pc = "none"
    BY <1>1, <1>6, ParamsOK DEF EnqueueDue, CheckNow, At, Runs
  <2> QED
    BY <1>3, <2>1 DEF Pcs
<1>7. ASSUME NEW j \in Jobs, NEW n \in 1..MaxAttempts, Again(j, n)
      PROVE  \E a \in Actors : \E l : OneStep(a, l)
  <2>1. Goes(<<j, n>>, "claim") /\ <<j, n>> \in Actors /\ act[<<j, n>>].pc = "none"
    BY <1>7 DEF Again, Actors, Runs, At
  <2> QED
    BY <1>3, <2>1 DEF Pcs
<1>8. ASSUME NEW a \in Actors, Die(a)
      PROVE  \E l : OneStep(a, l)
  BY <1>5, <1>8 DEF Die
<1>9. ASSUME NEW r \in Runs, Claim(r)
      PROVE  \E l : OneStep(r, l)
  <2>1. CASE Ends(r, "over")
    BY <1>1, <1>5, <2>1
  <2>2. CASE act' = [act EXCEPT ![r].pc = "fetch", ![r].account = settings.account,
                                ![r].session = settings.session, ![r].until = clock + Lease]
    <3>1. PICK x \in Accounts, y \in Accounts \cup {None}, n \in Int :
            act' = [act EXCEPT ![r].pc = "fetch", ![r].account = x, ![r].session = y, ![r].until = n]
      <4>1. /\ settings.account \in Accounts /\ settings.session \in Accounts \cup {None}
            /\ clock + Lease \in Int
        BY <1>1 DEF Settings
      <4> QED
        BY <2>2, <4>1
    <3> DEFINE l == Claimed(act[r], x, y, n)
    <3>2. act[r] \in Act /\ act[r].pc = "claim"
      BY <1>1, <1>9 DEF Claim, At
    <3>3. l \in Act /\ l.pc = "fetch" /\ l.odd = act[r].odd /\ l.cur = act[r].cur
      BY <3>2, ClaimedOK
    <3>4. act' = [act EXCEPT ![r] = l]
      BY <1>1, <3>1, <3>2 DEF Claimed
    <3> HIDE DEF l
    <3>5. Kept(r, act[r], l)
      BY <1>9, <3>2, <3>3 DEF Kept, Portal, Early
    <3>6. OneStep(r, l)
      BY <3>3, <3>5, <3>4 DEF OneStep
    <3> QED
      BY <3>6
  <2> QED
    BY <1>9, <2>1, <2>2 DEF Claim
<1>10. ASSUME NEW r \in Runs, Fetch(r)
      PROVE  \E l : OneStep(r, l)
  <2>1. r \in Actors /\ act[r] \in Act /\ act[r].pc = "fetch"
    BY <1>1, <1>10 DEF Fetch, At
  <2>2. ASSUME NEW b \in Balances, NEW s \in {act[r].session, act[r].account} \ {None},
               act' = [act EXCEPT ![r].pc = "record", ![r].balance = b, ![r].session = s]
        PROVE  \E l : OneStep(r, l)
    <3> DEFINE l == Fetched(act[r], b, s)
    <3>1. s \in Accounts \cup {None}
      BY <2>1 DEF Act
    <3>2. /\ l \in Act /\ l.pc = "record" /\ l.balance = b /\ l.session = s
          /\ l.account = act[r].account /\ l.until = act[r].until /\ l.odd = act[r].odd /\ l.cur = act[r].cur
      BY <2>1, <3>1, FetchedOK
    <3>3. act' = [act EXCEPT ![r] = l]
      BY <1>1, <2>2 DEF Fetched
    <3> HIDE DEF l
    <3>4. Kept(r, act[r], l)
      BY <2>1, <3>2 DEF Kept, Portal, Early
    <3>5. OneStep(r, l)
      BY <3>2, <3>3, <3>4 DEF OneStep
    <3> QED
      BY <3>5
  <2>3. CASE act' = [act EXCEPT ![r].tries = @ + 1]
    <3> DEFINE l == Retried(act[r])
    <3>1. /\ l \in Act /\ l.pc = act[r].pc /\ l.session = act[r].session /\ l.balance = act[r].balance
          /\ l.account = act[r].account /\ l.until = act[r].until /\ l.odd = act[r].odd /\ l.cur = act[r].cur
      BY <2>1, RetriedOK
    <3>2. act' = [act EXCEPT ![r] = l]
      BY <1>1, <2>1, <2>3 DEF Retried
    <3> HIDE DEF l
    <3>3. Kept(r, act[r], l)
      BY <2>1, <3>1 DEF Kept, Portal, Early
    <3>4. OneStep(r, l)
      BY <3>1, <3>2, <3>3 DEF OneStep
    <3> QED
      BY <3>4
  <2>4. CASE Goes(r, "release")
    BY <1>3, <2>1, <2>4 DEF Pcs, Portal
  <2> QED
    BY <1>10, <2>2, <2>3, <2>4 DEF Fetch
<1>11. ASSUME NEW r \in Runs, Record(r)
       PROVE  \E l : OneStep(r, l)
  <2>1. r \in Actors /\ act[r] \in Act /\ act[r].pc = "record" /\ act[r].odd = {} /\ act[r].cur = None
    BY <1>1, <1>11 DEF Record, At, FreshIsNew, Fresh
  <2>2. PICK ids \in SUBSET Keys :
          act' = [act EXCEPT ![r] = [NewAct EXCEPT !.pc = "deliver", !.todo = ids, !.until = act[r].until,
                                       !.odd = IF settings.account # act[r].account THEN {"foreign"} ELSE {}]]
    BY <1>11 DEF Record
  <2> DEFINE odd == IF settings.account # act[r].account THEN {"foreign"} ELSE {}
             l == Delivers(ids, act[r].until, odd)
  <2>3. odd \in SUBSET Odd /\ act[r].until \in Int
    BY <1>1, <2>1 DEF Act
  <2>4. act' = [act EXCEPT ![r] = l]
    BY <2>2 DEF Delivers
  <2> HIDE DEF odd
  <2>5. l \in Act /\ l.pc = "deliver" /\ l.until = act[r].until /\ l.cur = None
    BY <2>3, DeliversOK
  <2> HIDE DEF l
  <2>6. Kept(r, act[r], l)
    BY <2>1, <2>5 DEF Kept, Portal, Early
  <2>7. OneStep(r, l)
    BY <2>4, <2>5, <2>6 DEF OneStep
  <2> QED
    BY <2>7
<1>12. ASSUME NEW r \in Runs, Raises(r) \/ Release(r)
       PROVE  \E l : OneStep(r, l)
  BY <1>1, <1>3, <1>5, <1>12 DEF Raises, Release, Pcs, Portal, At
<1>13. ASSUME NEW r \in Runs, Clear(r)
       PROVE  \E l : OneStep(r, l)
  <2> DEFINE odd == act[r].odd \cup IF settings.lock \notin {r, None} THEN {"raced"} ELSE {}
  <2>1. odd \in SUBSET Odd /\ act[r].odd \subseteq odd
    BY <1>1 DEF Act
  <2>2. act' = [act EXCEPT ![r] = Gone("over", act[r].cur, odd)]
    BY <1>13 DEF Clear, Gone
  <2> HIDE DEF odd
  <2> QED
    BY <1>1, <1>4, <2>1, <2>2
<1>14. ASSUME NEW a \in Actors, StartDelivery(a)
       PROVE  \E l : OneStep(a, l)
  <2>1. PICK k \in act[a].todo :
          \/ act' = [act EXCEPT ![a].todo = @ \ {k}, ![a].pc = "sending", ![a].cur = k]
          \/ act' = [act EXCEPT ![a].todo = @ \ {k}]
    BY <1>14, Zenon DEF StartDelivery
  <2> DEFINE T == act[a].todo \ {k}
  <2>2. act[a] \in Act /\ act[a].pc = "deliver" /\ act[a].cur = None
    BY <1>1, <1>14 DEF StartDelivery, At, FreshIsNew
  <2>3. k \in Keys \cup {None} /\ T \in SUBSET Keys /\ "sending" \in Pcs
    BY <2>2 DEF Act, Pcs
  <2>4. \/ act' = [act EXCEPT ![a] = [act[a] EXCEPT !.todo = T, !.pc = "sending", !.cur = k]]
        \/ act' = [act EXCEPT ![a] = [act[a] EXCEPT !.todo = T]]
    BY <1>1, <2>2, <2>1
  <2> HIDE DEF T
  <2>5. /\ [act[a] EXCEPT !.todo = T, !.pc = "sending", !.cur = k] \in Act
        /\ [act[a] EXCEPT !.todo = T] \in Act
    BY <2>2, <2>3, Listed
  <2>6. /\ Kept(a, act[a], [act[a] EXCEPT !.todo = T, !.pc = "sending", !.cur = k])
        /\ Kept(a, act[a], [act[a] EXCEPT !.todo = T])
    BY <1>14, <2>2 DEF Kept, Portal, Early, Act
  <2> QED
    BY <2>4, <2>5, <2>6 DEF OneStep
<1>15. ASSUME NEW a \in Actors, Takes(a)
       PROVE  \E l : OneStep(a, l)
  BY <1>3, <1>15 DEF Takes, Pcs
<1>16. ASSUME NEW a \in Actors, Refused(a) \/ MarkSent(a)
       PROVE  \E l : OneStep(a, l)
  <2> DEFINE l == [act[a] EXCEPT !.pc = "deliver", !.cur = None]
  <2>1. act' = [act EXCEPT ![a] = l] /\ act[a] \in Act /\ Portal(act[a])
    BY <1>1, <1>16 DEF Refused, MarkSent, Portal, At
  <2>2. l \in Act
    BY <2>1, Listed DEF Pcs
  <2>3. Kept(a, act[a], l)
    BY <1>16, <2>1 DEF Kept, Early, Portal, Act
  <2>4. OneStep(a, l)
    BY <2>1, <2>2, <2>3 DEF OneStep
  <2> QED
    BY <2>4
<1>17. ASSUME NEW a \in Actors, Delivered(a)
       PROVE  \E l : OneStep(a, l)
  BY <1>3, <1>5, <1>17 DEF Delivered, At, Portal, Pcs
<1>18. ASSUME NEW m \in Mails, SendNow(m)
       PROVE  \E l : OneStep(m, l)
  <2> DEFINE l == [act[m] EXCEPT !.pc = "deliver", !.todo = {ByHand(m)}]
  <2>1. act' = [act EXCEPT ![m] = l] /\ act[m] \in Act /\ act[m].pc = "none" /\ act[m].cur = None
    BY <1>1, <1>18 DEF SendNow, At, FreshIsNew, Fresh
  <2>2. l \in Act
    <3>1. {ByHand(m)} \in SUBSET Keys /\ "deliver" \in Pcs
      BY KeysDiffer DEF Pcs
    <3> QED
      BY <2>1, <3>1, Listed
  <2>3. Kept(m, act[m], l)
    BY <2>1 DEF Kept, Early, Portal, Act
  <2>4. OneStep(m, l)
    BY <2>1, <2>2, <2>3 DEF OneStep
  <2> QED
    BY <2>4
<1>19. act' = act \/ \E a \in Actors : \E l : OneStep(a, l)
  <2>1. CASE Tick \/ (\E a \in Accounts, on \in Modes : PutSettings(a, on))
              \/ (\E s \in {settings.account, None} : PutSession(s))
    BY <2>1 DEF Tick, PutSettings, PutSession
  <2> QED
    BY <1>1, <1>6, <1>7, <1>8, <1>9, <1>10, <1>11, <1>12, <1>13, <1>14, <1>15, <1>16, <1>17, <1>18, <2>1
    DEF Next, Jobs
<1> QED
  BY <1>2, <1>19, OneActor

-----------------------------------------------------------------------------
(* What each variable may change by. *)

\* Only a few actions change the lock, the log, the mark of the day and the clock.
LEMMA Frames ==
  ASSUME TypeOK, Next
  PROVE  /\ (\A r \in Runs : ~Claim(r) /\ ~Clear(r)) =>
              settings'.lock = settings.lock /\ settings'.until = settings.until
         /\ (\A r \in Runs : ~Record(r)) => log' = log /\ settings'.last = settings.last
         /\ (\A a \in Actors : ~MarkSent(a)) => settings'.dailySent = settings.dailySent
         /\ clock' \in 0..MaxTime /\ clock' >= clock /\ (~Tick => clock' = clock)
         /\ faults' \in Nat /\ edits' \in Nat
<1>1. settings \in Settings /\ clock \in 0..MaxTime /\ faults \in Nat /\ edits \in Nat /\ MaxTime \in Nat
  BY ParamsOK DEF TypeOK
<1>2. (\A r \in Runs : ~Claim(r) /\ ~Clear(r)) =>
        settings'.lock = settings.lock /\ settings'.until = settings.until
  BY <1>1 DEF Settings, Next, Tick, EnqueueDue, CheckNow, Again, Die, Fetch, Record, Raises, Release, SendNow,
              StartDelivery, Takes, Refused, MarkSent, Delivered, PutSettings, PutSession
<1>3. (\A r \in Runs : ~Record(r)) => log' = log /\ settings'.last = settings.last
  BY <1>1 DEF Settings, Next, Tick, EnqueueDue, CheckNow, Again, Die, Claim, Clear, Fetch, Raises, Release, SendNow,
              StartDelivery, Takes, Refused, MarkSent, Delivered, PutSettings, PutSession
<1>4. (\A a \in Actors : ~MarkSent(a)) => settings'.dailySent = settings.dailySent
  BY <1>1 DEF Settings, Next, Tick, EnqueueDue, CheckNow, Again, Die, Claim, Clear, Fetch, Record, Raises, Release,
              SendNow, StartDelivery, Takes, Refused, Delivered, PutSettings, PutSession
<1>5. (Tick /\ clock < MaxTime /\ clock' = clock + 1) \/ clock' = clock
  BY DEF Next, Tick, EnqueueDue, CheckNow, Again, Die, Claim, Clear, Fetch, Record, Raises, Release,
         SendNow, StartDelivery, Takes, Refused, MarkSent, Delivered, PutSettings, PutSession
<1>6. ~Tick => clock' = clock
  BY <1>5
<1>7. clock' \in 0..MaxTime /\ clock' >= clock
  BY <1>1, <1>5
<1>8. faults' = faults \/ (faults > 0 /\ faults' = faults - 1)
  BY DEF Next, Tick, EnqueueDue, CheckNow, Again, Die, Claim, Clear, Fetch, Record, Raises, Release,
         SendNow, StartDelivery, Takes, Refused, MarkSent, Delivered, PutSettings, PutSession
<1>9. edits' = edits \/ (edits > 0 /\ edits' = edits - 1)
  BY DEF Next, Tick, EnqueueDue, CheckNow, Again, Die, Claim, Clear, Fetch, Record, Raises, Release,
         SendNow, StartDelivery, Takes, Refused, MarkSent, Delivered, PutSettings, PutSession
<1> QED
  BY <1>1, <1>2, <1>3, <1>4, <1>6, <1>7, <1>8, <1>9

Delivery(a) == StartDelivery(a) \/ Takes(a) \/ Refused(a) \/ MarkSent(a)

\* A row with another status.
LEMMA RowStatus ==
  ASSUME NEW k \in Note, NEW status \in {"pending", "sending", "sent", "failed"}
  PROVE  LET n == [k EXCEPT !.status = status]
         IN  n \in Note /\ n.status = status /\ n.at = k.at /\ n.taken = k.taken /\ n.doubtful = k.doubtful
  BY DEF Note

Sent(k, t) == [k EXCEPT !.status = "sent", !.sent = t]

\* A row marked as sent.
LEMMA RowSent ==
  ASSUME NEW k \in Note, NEW t \in Int
  PROVE  LET n == Sent(k, t)
         IN  /\ n \in Note /\ n.status = "sent" /\ n.at = k.at /\ n.taken = k.taken /\ n.doubtful = k.doubtful
             /\ n.sent = t
  BY DEF Note, Sent

Called(k, t) == [k EXCEPT !.status = "pending", !.at = t]

\* A row that a request puts into the outbox.
LEMMA RowCalled ==
  ASSUME NEW k \in Note, NEW t \in Int
  PROVE  LET n == Called(k, t)
         IN  /\ n \in Note /\ n.status = "pending" /\ n.at = t /\ n.taken = k.taken /\ n.doubtful = k.doubtful
             /\ n.sent = k.sent
  BY DEF Note, Called

\* A row whose mail the server has taken.
LEMMA RowTaken ==
  ASSUME NEW k \in Note
  PROVE  LET n == [k EXCEPT !.taken = k.taken + 1]
         IN  /\ n \in Note /\ n.status = k.status /\ n.at = k.at /\ n.taken = k.taken + 1
             /\ n.doubtful = k.doubtful /\ k.taken \in Nat /\ k.doubtful \in Nat
<1>1. k.taken + 1 \in Nat /\ k.taken \in Nat /\ k.doubtful \in Nat
  BY DEF Note
<1> QED
  BY <1>1 DEF Note

Failed(k, t, d) == [k EXCEPT !.status = "failed", !.taken = t, !.doubtful = d]

\* A row whose delivery has failed.
LEMMA RowFailed ==
  ASSUME NEW k \in Note, NEW lost \in {0, 1}
  PROVE  LET n == Failed(k, k.taken + lost, k.doubtful + lost)
         IN  /\ n \in Note /\ n.status = "failed" /\ n.at = k.at /\ n.taken = k.taken + lost
             /\ n.doubtful = k.doubtful + lost /\ k.taken \in Nat /\ k.doubtful \in Nat
<1>1. k.taken \in Nat /\ k.doubtful \in Nat /\ lost \in Nat
  BY DEF Note
<1>2. PICK t \in Nat, d \in Nat : t = k.taken + lost /\ d = k.doubtful + lost
  BY <1>1
<1>3. LET n == Failed(k, t, d)
      IN  n \in Note /\ n.status = "failed" /\ n.at = k.at /\ n.taken = t /\ n.doubtful = d
  BY DEF Note, Failed
<1> QED
  BY <1>1, <1>2, <1>3

\* A delivery turns one row, which has a status already, into another such.
LEMMA DeliveryRow ==
  ASSUME TypeOK, OutboxOK, NEW a \in Actors, Delivery(a)
  PROVE  \/ note' = note
         \/ \E k \in Keys, n \in Note :
              /\ note' = [note EXCEPT ![k] = n]
              /\ n.status # "none" /\ note[k].status # "none" /\ n.at = note[k].at
<1>1. note \in [Keys -> Note] /\ act \in [Actors -> Act] /\ clock \in Int
  BY DEF TypeOK
<1> DEFINE c == act[a].cur
<1>2. act[a].pc \in {"sending", "taken"} => c \in Keys /\ note[c].status = "sending"
  BY DEF OutboxOK, Delivering
<1>3. CASE StartDelivery(a)
  <2>1. PICK k \in act[a].todo : note' = note \/ (Open(k, note) /\ note' = [note EXCEPT ![k].status = "sending"])
    BY <1>3 DEF StartDelivery
  <2>2. k \in Keys
    BY <1>1 DEF Act
  <2> DEFINE n == [note[k] EXCEPT !.status = "sending"]
  <2>3. n \in Note /\ n.status = "sending" /\ n.at = note[k].at
    BY <1>1, <2>2, RowStatus
  <2>4. note' = note \/ (note' = [note EXCEPT ![k] = n] /\ note[k].status # "none")
    BY <1>1, <2>1, <2>2 DEF Open
  <2> HIDE DEF n
  <2> QED
    BY <2>2, <2>3, <2>4
<1>4. CASE Takes(a)
  <2> DEFINE n == [note[c] EXCEPT !.taken = note[c].taken + 1]
  <2>1. c \in Keys /\ note[c].status = "sending" /\ note' = [note EXCEPT ![c] = n]
    BY <1>1, <1>2, <1>4 DEF Takes, At
  <2>2. n \in Note /\ n.status = "sending" /\ n.at = note[c].at
    BY <1>1, <2>1, RowTaken
  <2> HIDE DEF n
  <2> QED
    BY <2>1, <2>2
<1>5. CASE Refused(a)
  <2>1. PICK lost \in {0, 1} :
          note' = [note EXCEPT ![c].status = "failed", ![c].taken = @ + lost, ![c].doubtful = @ + lost]
    BY <1>5 DEF Refused
  <2> DEFINE n == Failed(note[c], note[c].taken + lost, note[c].doubtful + lost)
  <2>2. c \in Keys /\ note[c].status = "sending"
    BY <1>1, <1>2, <1>5 DEF Refused, At
  <2>3. n \in Note /\ n.status = "failed" /\ n.at = note[c].at
    BY <1>1, <2>2, RowFailed
  <2>4. note' = [note EXCEPT ![c] = n]
    BY <1>1, <2>1, <2>2 DEF Failed
  <2> HIDE DEF n
  <2> QED
    BY <2>2, <2>3, <2>4
<1>6. CASE MarkSent(a)
  <2> DEFINE n == Sent(note[c], clock)
  <2>1. c \in Keys /\ note[c].status = "sending" /\ note' = [note EXCEPT ![c] = n]
    BY <1>1, <1>2, <1>6 DEF MarkSent, At, Sent
  <2>2. n \in Note /\ n.status = "sent" /\ n.at = note[c].at
    BY <1>1, <2>1, RowSent
  <2> HIDE DEF n
  <2> QED
    BY <2>1, <2>2
<1> QED
  BY <1>3, <1>4, <1>5, <1>6 DEF Delivery

\* A check calls for the mail of the day and for its own reminder, no other.
LEMMA RecordRows ==
  ASSUME TypeOK, FreshIsNew, NEW r \in Runs, Record(r)
  PROVE  /\ note' \in [Keys -> Note]
         /\ \A k \in Keys :
              \/ note'[k] = note[k]
              \/ /\ note[k].status \in {"none", "failed"} /\ note'[k].status = "pending"
                 /\ note'[k].taken = note[k].taken /\ note'[k].doubtful = note[k].doubtful
         /\ \A q \in Runs \ {r} : note'[Reminder(q)] = note[Reminder(q)]
         /\ \A m \in Mails : note'[ByHand(m)] = note[ByHand(m)]
         /\ IF "alerts" \in settings.on /\ ReminderDue(act[r].balance)
            THEN note'[Reminder(r)].status # "none" /\ note'[Reminder(r)].at = clock
            ELSE note'[Reminder(r)] = note[Reminder(r)]
<1>1. note \in [Keys -> Note] /\ clock \in Int /\ Today \in Days /\ note' = Outbox(r)
  BY TodayIsDay DEF TypeOK, Record
<1>2. note[Reminder(r)].status = "none"
  BY DEF FreshIsNew, Fresh, Record, At
<1> DEFINE alert == "alerts" \in settings.on /\ ReminderDue(act[r].balance)
           daily == DailyWanted(r)
<1>3. ASSUME NEW k \in Keys
      PROVE  note'[k] = CASE k = Daily(Today) /\ daily ->
                               [note[k] EXCEPT !.status = "pending", !.at = IF note[k].at = Never THEN clock ELSE note[k].at]
                          [] k = Reminder(r) /\ alert -> [note[k] EXCEPT !.status = "pending", !.at = clock]
                          [] OTHER -> note[k]
  BY <1>1 DEF Outbox
<1>4. daily => note[Daily(Today)].status \in {"none", "failed"}
  BY DEF DailyWanted
<1> HIDE DEF alert, daily
<1>5. ASSUME NEW k \in Keys, k = Daily(Today), daily
      PROVE  \E t \in Int : note'[k] = Called(note[k], t)
  <2> DEFINE t == IF note[k].at = Never THEN clock ELSE note[k].at
  <2>1. t \in Int
    BY <1>1 DEF Note
  <2>2. k # Reminder(r)
    BY <1>5, KeysDiffer
  <2>3. note'[k] = [note[k] EXCEPT !.status = "pending", !.at = t]
    BY <1>3, <1>5, <2>2
  <2>4. note'[k] = Called(note[k], t)
    BY <2>3 DEF Called
  <2> HIDE DEF t
  <2> QED
    BY <2>1, <2>4
<1>6. ASSUME NEW k \in Keys, k = Reminder(r), alert
      PROVE  note'[k] = Called(note[k], clock)
  BY <1>3, <1>6, KeysDiffer DEF Called
<1>7. ASSUME NEW k \in Keys, ~(k = Daily(Today) /\ daily), ~(k = Reminder(r) /\ alert)
      PROVE  note'[k] = note[k]
  BY <1>3, <1>7
<1>8. ASSUME NEW k \in Keys
      PROVE  /\ note'[k] \in Note
             /\ \/ note'[k] = note[k]
                \/ /\ note[k].status \in {"none", "failed"} /\ note'[k].status = "pending"
                   /\ note'[k].taken = note[k].taken /\ note'[k].doubtful = note[k].doubtful
  <2>1. CASE k = Daily(Today) /\ daily
    BY <1>1, <1>4, <1>5, <2>1, RowCalled
  <2>2. CASE k = Reminder(r) /\ alert
    BY <1>1, <1>2, <1>6, <2>2, RowCalled
  <2>3. CASE ~(k = Daily(Today) /\ daily) /\ ~(k = Reminder(r) /\ alert)
    BY <1>1, <1>7, <2>3
  <2> QED
    BY <2>1, <2>2, <2>3
<1>9. note' \in [Keys -> Note]
  <2> DEFINE row(k) == CASE k = Daily(Today) /\ DailyWanted(r) ->
                              [note[k] EXCEPT !.status = "pending", !.at = IF note[k].at = Never THEN clock ELSE note[k].at]
                         [] k = Reminder(r) /\ "alerts" \in settings.on /\ ReminderDue(act[r].balance) ->
                              [note[k] EXCEPT !.status = "pending", !.at = clock]
                         [] OTHER -> note[k]
  <2>1. note' = [k \in Keys |-> row(k)]
    BY <1>1 DEF Outbox
  <2> HIDE DEF row
  <2> QED
    BY <1>8, <2>1
<1>10. \A q \in Runs \ {r} : note'[Reminder(q)] = note[Reminder(q)]
  BY <1>7, KeysDiffer
<1>11. \A m \in Mails : note'[ByHand(m)] = note[ByHand(m)]
  BY <1>7, KeysDiffer
<1>12. IF alert THEN note'[Reminder(r)].status # "none" /\ note'[Reminder(r)].at = clock
       ELSE note'[Reminder(r)] = note[Reminder(r)]
  BY <1>1, <1>6, <1>7, KeysDiffer, RowCalled
<1> QED
  BY <1>8, <1>9, <1>10, <1>11, <1>12 DEF alert

\* A request puts its own mail into the outbox.
LEMMA SendNowRow ==
  ASSUME TypeOK, NEW m \in Mails, SendNow(m)
  PROVE  /\ note' = [note EXCEPT ![ByHand(m)] = Called(note[ByHand(m)], clock)]
         /\ Called(note[ByHand(m)], clock) \in Note /\ Called(note[ByHand(m)], clock).status = "pending"
         /\ Called(note[ByHand(m)], clock).taken = note[ByHand(m)].taken
         /\ Called(note[ByHand(m)], clock).doubtful = note[ByHand(m)].doubtful
<1>1. ByHand(m) \in Keys /\ note \in [Keys -> Note] /\ clock \in Int
  BY KeysDiffer DEF TypeOK
<1>2. note' = [note EXCEPT ![ByHand(m)] = Called(note[ByHand(m)], clock)]
  BY <1>1 DEF SendNow, Called
<1> QED
  BY <1>1, <1>2, RowCalled

\* Who changes the outbox.
LEMMA NoteNext ==
  ASSUME Next
  PROVE  \/ note' = note
         \/ \E r \in Runs : Record(r)
         \/ \E m \in Mails : SendNow(m)
         \/ \E a \in Actors : Delivery(a)
  BY DEF Next, Tick, EnqueueDue, CheckNow, Again, Die, Claim, Clear, Fetch, Raises, Release,
         Delivered, PutSettings, PutSession, Delivery

\* Who changes the account or the session of the settings.
LEMMA SessionNext ==
  ASSUME TypeOK, Next
  PROVE  \/ settings'.account = settings.account /\ settings'.session = settings.session
         \/ \E r \in Runs : Record(r)
         \/ \E a \in Accounts, on \in Modes : PutSettings(a, on)
         \/ \E s \in {settings.account, None} : PutSession(s)
<1>1. settings \in Settings
  BY DEF TypeOK
<1> QED
  BY <1>1 DEF Settings, Next, Tick, EnqueueDue, CheckNow, Again, Die, Claim, Clear, Fetch, Raises, Release, SendNow,
              StartDelivery, Takes, Refused, MarkSent, Delivered

\* The type invariant is kept.
LEMMA TypeNext ==
  ASSUME TypeOK, FreshIsNew, OutboxOK, SessionsKnown, Next
  PROVE  TypeOK'
<1>1. /\ settings \in Settings /\ note \in [Keys -> Note] /\ act \in [Actors -> Act] /\ clock \in Nat
      /\ log \in Seq(CheckRow) /\ Runs \subseteq Actors /\ Mails \subseteq Actors /\ Today \in Days /\ clock \in Int
  BY ParamsOK, TodayIsDay DEF TypeOK
<1>2. act' \in [Actors -> Act] /\ clock' \in 0..MaxTime /\ faults' \in Nat /\ edits' \in Nat
  BY ActNext, Frames
<1>3. settings' \in Settings
  <2>1. ASSUME NEW j, EnqueueDue(j)
        PROVE  settings' \in Settings
    <3> DEFINE tried == IF DailyDue THEN clock ELSE settings.dailyTried
               next == clock + Interval
    <3>1. settings' = [settings EXCEPT !.nextCheck = next, !.dailyTried = tried]
      BY <2>1 DEF EnqueueDue
    <3>2. next \in Int /\ tried \in Int
      BY <1>1, ParamsOK DEF Settings
    <3> HIDE DEF next, tried
    <3> QED
      BY <1>1, <3>1, <3>2 DEF Settings
  <2>2. ASSUME NEW r \in Runs, Claim(r)
        PROVE  settings' \in Settings
    <3>1. PICK n \in Int : settings' = settings \/ settings' = [settings EXCEPT !.lock = r, !.until = n]
      <4>1. clock + Lease \in Int
        BY <1>1, ParamsOK
      <4> QED
        BY <2>2, <4>1 DEF Claim
    <3> QED
      BY <1>1, <3>1 DEF Settings
  <2>3. ASSUME NEW r \in Runs, Record(r)
        PROVE  settings' \in Settings
    <3>1. settings' = [settings EXCEPT !.session = act[r].session, !.last = act[r].balance]
      BY <2>3 DEF Record
    <3>2. act[r].session \in Accounts \cup {None} /\ act[r].balance \in Balances \cup {None}
      BY <1>1 DEF Act
    <3> QED
      BY <1>1, <3>1, <3>2 DEF Settings
  <2>4. ASSUME NEW r \in Runs, Clear(r)
        PROVE  settings' \in Settings
    <3>1. PICK n \in Int : settings' = [settings EXCEPT !.lock = None, !.until = n]
      <4>1. Never \in Int /\ settings' = [settings EXCEPT !.lock = None, !.until = Never]
        BY <2>4 DEF Clear, Never
      <4> QED
        BY <4>1
    <3> QED
      BY <1>1, <3>1 DEF Settings
  <2>5. ASSUME NEW a \in Actors, MarkSent(a)
        PROVE  settings' \in Settings
    BY <1>1, <2>5 DEF MarkSent, Settings
  <2>6. ASSUME NEW a \in Accounts, NEW on \in Modes, PutSettings(a, on)
        PROVE  settings' \in Settings
    <3>1. PICK s \in Accounts \cup {None}, n \in Int :
            settings' = [settings EXCEPT !.on = on, !.account = a, !.session = s, !.nextCheck = n]
      <4>1. (IF a = settings.account THEN settings.session ELSE None) \in Accounts \cup {None}
        BY <1>1 DEF Settings
      <4>2. (IF "enabled" \in on THEN clock ELSE 0) \in Int
        BY <1>1
      <4> QED
        BY <2>6, <4>1, <4>2 DEF PutSettings
    <3>2. on \in SUBSET Switches
      BY BalanceConstants
    <3> QED
      BY <1>1, <3>1, <3>2 DEF Settings
  <2>7. ASSUME NEW s \in {settings.account, None}, PutSession(s)
        PROVE  settings' \in Settings
    BY <1>1, <2>7 DEF PutSession, Settings
  <2>8. CASE settings' = settings
    BY <1>1, <2>8
  <2> QED
    BY <2>1, <2>2, <2>3, <2>4, <2>5, <2>6, <2>7, <2>8 DEF Next, Tick, CheckNow, Again, Fetch, Raises, Release,
       SendNow, Die, StartDelivery, Takes, Refused, Delivered
<1>4. note' \in [Keys -> Note]
  <2>1. ASSUME NEW k \in Keys, NEW n \in Note, note' = [note EXCEPT ![k] = n]
        PROVE  note' \in [Keys -> Note]
    BY <1>1, <2>1
  <2>2. ASSUME NEW m \in Mails, SendNow(m)
        PROVE  note' \in [Keys -> Note]
    BY <2>1, <2>2, SendNowRow, KeysDiffer
  <2>3. ASSUME NEW a \in Actors, Delivery(a)
        PROVE  note' \in [Keys -> Note]
    BY <1>1, <2>1, <2>3, DeliveryRow
  <2> QED
    BY <1>1, <2>2, <2>3, NoteNext, RecordRows
<1>5. log' \in Seq(CheckRow)
  <2>1. ASSUME NEW r \in Runs, Record(r)
        PROVE  log' \in Seq(CheckRow)
    <3> DEFINE row == [balance |-> act[r].balance, at |-> clock, alerts |-> "alerts" \in settings.on, by |-> r]
    <3>1. act[r].balance \in Balances /\ ("alerts" \in settings.on) \in BOOLEAN
      BY <2>1 DEF Record, SessionsKnown
    <3>2. row \in CheckRow /\ log' = Append(log, row)
      BY <1>1, <2>1, <3>1 DEF CheckRow, Record
    <3> QED
      BY <1>1, <3>2
  <2> QED
    BY <1>1, <2>1, Frames
<1> QED
  BY <1>2, <1>3, <1>4, <1>5 DEF TypeOK

-----------------------------------------------------------------------------
(* The lock. *)

\* A check takes the lock, or ends.
LEMMA ClaimStep ==
  ASSUME TypeOK, NEW r \in Runs, Claim(r)
  PROVE  /\ \A b \in Actors \ {r} : act'[b] = act[b]
         /\ settings'.account = settings.account /\ settings'.session = settings.session
         /\ \/ settings' = settings /\ act'[r].pc = "over"
            \/ /\ settings.lock = None \/ settings.until <= clock
               /\ settings'.lock = r /\ settings'.until = clock + Lease /\ act'[r].until = clock + Lease
               /\ act'[r].pc = "fetch" /\ act'[r].account = settings.account /\ act'[r].session = settings.session
<1>1. /\ act \in [Actors -> Act] /\ r \in Actors /\ settings \in Settings /\ act[r] \in Act
      /\ clock \in Int /\ settings.until \in Int /\ clock + Lease \in Int
  BY ParamsOK DEF TypeOK, Settings
<1>2. CASE settings.lock # None /\ settings.until > clock
  <2>1. settings' = settings /\ act' = [act EXCEPT ![r] = Gone("over", act[r].cur, act[r].odd)]
    BY <1>2 DEF Claim, Ends, Gone
  <2>2. Gone("over", act[r].cur, act[r].odd).pc = "over"
    BY DEF Gone, NewAct
  <2> QED
    BY <1>1, <2>1, <2>2
<1>3. CASE ~(settings.lock # None /\ settings.until > clock)
  <2>1. PICK n \in Int : n = clock + Lease
    BY <1>1
  <2>2. /\ settings' = [settings EXCEPT !.lock = r, !.until = n]
        /\ act' = [act EXCEPT ![r].pc = "fetch", ![r].account = settings.account,
                              ![r].session = settings.session, ![r].until = n]
    BY <1>3, <2>1 DEF Claim
  <2>3. /\ settings'.lock = r /\ settings'.until = n
        /\ settings'.account = settings.account /\ settings'.session = settings.session
    BY <1>1, <2>2 DEF Settings
  <2>4. /\ \A b \in Actors \ {r} : act'[b] = act[b]
        /\ act'[r].until = n /\ act'[r].pc = "fetch" /\ act'[r].account = settings.account
        /\ act'[r].session = settings.session
    BY <1>1, <2>2 DEF Act
  <2>5. settings.lock = None \/ settings.until <= clock
    BY <1>1, <1>3
  <2> QED
    BY <2>1, <2>3, <2>4, <2>5
<1> QED
  BY <1>2, <1>3

\* A check lets the lock go, whoever has it.
LEMMA ClearStep ==
  ASSUME TypeOK, NEW r \in Runs, Clear(r)
  PROVE  /\ \A b \in Actors \ {r} : act'[b] = act[b]
         /\ settings'.lock = None /\ act'[r].pc = "over"
         /\ settings.lock \notin {r, None} => "raced" \in act'[r].odd
<1>1. act \in [Actors -> Act] /\ r \in Actors /\ settings \in Settings /\ act[r] \in Act
  BY ParamsOK DEF TypeOK
<1> DEFINE odd == act[r].odd \cup IF settings.lock \notin {r, None} THEN {"raced"} ELSE {}
<1>2. act' = [act EXCEPT ![r] = Gone("over", act[r].cur, odd)] /\ settings'.lock = None
  BY <1>1 DEF Clear, Gone, Settings
<1>3. settings.lock \notin {r, None} => "raced" \in odd
  OBVIOUS
<1>4. act[r].cur \in Keys \cup {None} /\ odd \in SUBSET Odd /\ "over" \in Pcs
  BY <1>1 DEF Act, Odd, Pcs
<1> HIDE DEF odd
<1>5. Gone("over", act[r].cur, odd).pc = "over" /\ Gone("over", act[r].cur, odd).odd = odd
  BY <1>4, GoneOK
<1> QED
  BY <1>1, <1>2, <1>3, <1>5

\* What is known of the lock is kept.
LEMMA LockNext ==
  ASSUME TypeOK, TypeOK', FreshIsNew, OutboxOK, LockIsKnown, Next
  PROVE  LockIsKnown'
<1>1. /\ act \in [Actors -> Act] /\ act' \in [Actors -> Act] /\ Runs \subseteq Actors /\ Mails \cap Runs = {}
      /\ settings \in Settings /\ settings' \in Settings /\ clock \in Int /\ clock' \in Int /\ clock' >= clock /\ None \notin Runs
      /\ \A b \in Runs : act[b].until \in Int /\ act'[b].until \in Int /\ settings.until \in Int
  <2>1. /\ act \in [Actors -> Act] /\ act' \in [Actors -> Act] /\ Runs \subseteq Actors /\ Mails \cap Runs = {}
        /\ settings \in Settings /\ settings' \in Settings /\ clock \in Int /\ clock' \in Int /\ clock' >= clock
        /\ None \notin Runs
    BY ParamsOK, Frames DEF TypeOK
  <2>2. settings.until \in Int /\ \A k \in Act : k.until \in Int
    BY <2>1 DEF Settings, Act
  <2> QED
    BY <2>1, <2>2
<1>2. \A b \in Actors : Kept(b, act[b], act'[b])
  BY ActNext
<1>3. \A b \in Actors : act[b].odd \subseteq act'[b].odd
  BY <1>2 DEF Kept
<1>4. \A r \in Runs : Portal(act'[r]) => (Portal(act[r]) /\ act'[r].until = act[r].until) \/ Claim(r)
  BY <1>1, <1>2 DEF Kept
<1>5. \A r \in Runs : (OnPortal(r) <=> Portal(act[r])) /\ (Portal(act'[r]) <=> OnPortal(r)')
  BY DEF OnPortal, Portal
<1>6. CASE \A r \in Runs : ~Claim(r) /\ ~Clear(r)
  <2>1. settings'.lock = settings.lock /\ settings'.until = settings.until
    BY <1>6, Frames
  <2>2. \A r \in Runs : Portal(act'[r]) => Portal(act[r]) /\ act'[r].until = act[r].until
    BY <1>4, <1>6
  <2> QED
    BY <1>1, <1>3, <1>5, <2>1, <2>2 DEF LockIsKnown
<1>7. ASSUME NEW r \in Runs, Claim(r)
      PROVE  LockIsKnown'
  <2>1. \A b \in Runs \ {r} : act'[b] = act[b]
    BY <1>1, <1>7, ClaimStep
  <2>2. CASE settings' = settings /\ act'[r].pc = "over"
    <3>1. ~Portal(act'[r])
      BY <2>2 DEF Portal
    <3> QED
      BY <1>1, <1>3, <1>5, <2>1, <2>2, <3>1 DEF LockIsKnown
  <2>3. CASE /\ settings.lock = None \/ settings.until <= clock
             /\ settings'.lock = r /\ settings'.until = clock + Lease /\ act'[r].until = clock + Lease
    <3>1. ASSUME \A x \in Runs : "raced" \notin act'[x].odd, NEW q \in Runs, Portal(act'[q]), act'[q].until > clock'
          PROVE  q = r
      <4> SUFFICES ASSUME q # r PROVE FALSE
        OBVIOUS
      <4>1. Portal(act[q]) /\ act[q].until > clock /\ act[q].until \in Int
        BY <1>1, <2>1, <3>1
      <4>2. settings.lock = q
        BY <1>1, <1>3, <1>5, <3>1, <4>1 DEF LockIsKnown
      <4>3. act[q].until = settings.until
        BY <1>5, <4>1, <4>2 DEF LockIsKnown
      <4> QED
        BY <1>1, <2>3, <4>1, <4>2, <4>3
    <3> QED
      BY <1>1, <1>5, <2>1, <2>3, <3>1 DEF LockIsKnown
  <2> QED
    BY <1>7, <2>2, <2>3, ClaimStep
<1>8. ASSUME NEW r \in Runs, Clear(r)
      PROVE  LockIsKnown'
  <2>1. /\ \A b \in Runs \ {r} : act'[b] = act[b]
        /\ settings'.lock = None /\ ~Portal(act'[r])
        /\ settings.lock \notin {r, None} => "raced" \in act'[r].odd
    BY <1>1, <1>8, ClearStep DEF Portal
  <2>2. ASSUME \A x \in Runs : "raced" \notin act'[x].odd, NEW q \in Runs, Portal(act'[q]), act'[q].until > clock'
        PROVE  FALSE
    <3>1. q # r /\ Portal(act[q]) /\ act[q].until > clock
      BY <1>1, <2>1, <2>2
    <3>2. settings.lock = q
      BY <1>1, <1>3, <1>5, <2>2, <3>1 DEF LockIsKnown
    <3> QED
      BY <1>1, <2>1, <2>2, <3>1, <3>2
  <2> QED
    BY <1>1, <1>5, <2>1, <2>2 DEF LockIsKnown
<1> QED
  BY <1>6, <1>7, <1>8

-----------------------------------------------------------------------------
(* Checks that have not recorded yet, and their sessions. *)

\* The row that r leaves.
IsRow(row, r) ==
  row.balance = act[r].balance /\ row.at = clock /\ row.by = r /\ (row.alerts <=> "alerts" \in settings.on)

\* What a step does to the log.
LEMMA LogGrows ==
  ASSUME TypeOK, Next
  PROVE  \/ log' = log /\ settings'.last = settings.last /\ \A r \in Runs : ~Record(r)
         \/ \E r \in Runs :
              /\ Record(r) /\ clock' = clock
              /\ settings'.last = act[r].balance
              /\ Len(log) \in Nat /\ Len(log') = Len(log) + 1 /\ DOMAIN log = 1..Len(log) /\ DOMAIN log' = 1..Len(log) + 1
              /\ \A i \in 1..Len(log) : log'[i] = log[i]
              /\ IsRow(log'[Len(log) + 1], r)
<1>1. CASE \A r \in Runs : ~Record(r)
  BY <1>1, Frames
<1>2. ASSUME NEW r \in Runs, Record(r)
      PROVE  /\ clock' = clock /\ settings'.last = act[r].balance
             /\ Len(log) \in Nat /\ Len(log') = Len(log) + 1 /\ DOMAIN log = 1..Len(log) /\ DOMAIN log' = 1..Len(log) + 1
             /\ \A i \in 1..Len(log) : log'[i] = log[i]
             /\ IsRow(log'[Len(log) + 1], r)
  <2>1. settings \in Settings /\ log \in Seq(CheckRow)
    BY DEF TypeOK
  <2> DEFINE row == [balance |-> act[r].balance, at |-> clock, alerts |-> "alerts" \in settings.on, by |-> r]
  <2>2. log' = Append(log, row)
    BY <1>2 DEF Record
  <2>3. clock' = clock /\ settings'.last = act[r].balance
    BY <1>2, <2>1 DEF Record, Settings
  <2>4. IsRow(row, r)
    BY DEF IsRow
  <2> HIDE DEF row
  <2>5. /\ Len(log) \in Nat /\ Len(log') = Len(log) + 1 /\ DOMAIN log = 1..Len(log) /\ DOMAIN log' = 1..Len(log) + 1
        /\ \A i \in 1..Len(log) : log'[i] = log[i]
        /\ log'[Len(log) + 1] = row
    BY <2>1, <2>2
  <2> QED
    BY <2>3, <2>5, <2>4
<1> QED
  BY <1>1, <1>2

\* A check that records goes on to deliver; if the account was changed under it,
\* it is marked.
LEMMA RecordStep ==
  ASSUME TypeOK, NEW r \in Runs, Record(r)
  PROVE  /\ \A b \in Actors \ {r} : act'[b] = act[b]
         /\ act[r].pc = "record" /\ act'[r].pc = "deliver"
         /\ settings.account # act[r].account => "foreign" \in act'[r].odd
         /\ settings'.account = settings.account /\ settings'.session = act[r].session
         /\ settings'.dailySent = settings.dailySent
<1>1. act \in [Actors -> Act] /\ r \in Actors /\ act[r] \in Act /\ settings \in Settings
  BY ParamsOK DEF TypeOK
<1>2. PICK ids \in SUBSET Keys :
        act' = [act EXCEPT ![r] = [NewAct EXCEPT !.pc = "deliver", !.todo = ids, !.until = act[r].until,
                                     !.odd = IF settings.account # act[r].account THEN {"foreign"} ELSE {}]]
  BY DEF Record
<1> DEFINE odd == IF settings.account # act[r].account THEN {"foreign"} ELSE {}
<1>3. act' = [act EXCEPT ![r] = Delivers(ids, act[r].until, odd)]
  BY <1>2 DEF Delivers
<1>4. odd \in SUBSET Odd /\ act[r].until \in Int /\ (settings.account # act[r].account => "foreign" \in odd)
  BY <1>1 DEF Act, Odd
<1> HIDE DEF odd
<1>5. Delivers(ids, act[r].until, odd).pc = "deliver" /\ Delivers(ids, act[r].until, odd).odd = odd
  BY <1>4, DeliversOK
<1>6. /\ settings'.account = settings.account /\ settings'.session = act[r].session
      /\ settings'.dailySent = settings.dailySent /\ act[r].pc = "record"
  BY <1>1 DEF Record, Settings, At
<1> QED
  BY <1>1, <1>3, <1>4, <1>5, <1>6

\* No row that has a status loses it, and only a check that records, a request or
\* a delivery changes one.
LEMMA RowsNext ==
  ASSUME TypeOK, FreshIsNew, OutboxOK, Next
  PROVE  /\ \A r \in Runs : note[Reminder(r)].status = "none" =>
              note'[Reminder(r)].status = "none" \/ Record(r)
         /\ \A r \in Runs : note[Reminder(r)].status # "none" =>
              note'[Reminder(r)].status # "none" /\ note'[Reminder(r)].at = note[Reminder(r)].at
         /\ \A m \in Mails : note[ByHand(m)].status = "none" =>
              note'[ByHand(m)].status = "none" \/ SendNow(m)
<1>1. note \in [Keys -> Note]
  BY DEF TypeOK
<1>2. ASSUME NEW r \in Runs, Record(r), NEW q \in Runs
      PROVE  /\ q # r => note'[Reminder(q)] = note[Reminder(q)]
             /\ q = r => note[Reminder(q)].status = "none"
  <2>1. act[r].pc = "record"
    BY <1>2 DEF Record, At
  <2>2. note[Reminder(r)].status = "none"
    BY <2>1 DEF FreshIsNew, Fresh
  <2> QED
    BY <1>2, <2>2, RecordRows
<1>3. ASSUME NEW r \in Runs, Record(r), NEW m \in Mails
      PROVE  note'[ByHand(m)] = note[ByHand(m)]
  BY <1>3, RecordRows
<1>4. ASSUME NEW m \in Mails, SendNow(m)
      PROVE  \A k \in Keys \ {ByHand(m)} : note'[k] = note[k]
  BY <1>1, <1>4, SendNowRow
<1>5. ASSUME NEW a \in Actors, Delivery(a), NEW k \in Keys
      PROVE  note'[k] = note[k] \/ (note[k].status # "none" /\ note'[k].status # "none" /\ note'[k].at = note[k].at)
  BY <1>1, <1>5, DeliveryRow
<1>6. CASE note' = note
  BY <1>6
<1>7. CASE \E r \in Runs : Record(r)
  BY <1>2, <1>3, <1>7
<1>8. CASE \E m \in Mails : SendNow(m)
  BY <1>4, <1>8, KeysDiffer
<1>9. CASE \E a \in Actors : Delivery(a)
  BY <1>5, <1>9, KeysDiffer
<1> QED
  BY <1>6, <1>7, <1>8, <1>9, NoteNext

\* A check that has not recorded has left nothing behind.
LEMMA FreshNext ==
  ASSUME TypeOK, TypeOK', FreshIsNew, OutboxOK, Next
  PROVE  FreshIsNew'
<1>1. Runs \subseteq Actors /\ Mails \subseteq Actors /\ act \in [Actors -> Act] /\ act' \in [Actors -> Act]
  BY ParamsOK DEF TypeOK
<1>2. \A b \in Actors : Kept(b, act[b], act'[b])
  BY ActNext
<1>3. \A b \in Actors : Early(act'[b]) => Early(act[b]) /\ act'[b].odd = act[b].odd /\ act'[b].cur = act[b].cur
  BY <1>2 DEF Kept
<1>4. \A b \in Actors : act'[b].pc = "none" => act[b].pc = "none"
  BY <1>2 DEF Kept
<1>5. \A b \in Actors : act'[b].pc = "deliver" => act'[b].cur = None \/ (act[b].pc = "deliver" /\ act'[b].cur = act[b].cur)
  BY <1>2 DEF Kept
<1>6. \A r \in Runs : Record(r) => act'[r].pc = "deliver"
  BY RecordStep
<1>7. \A m \in Mails : SendNow(m) => act'[m].pc = "deliver"
  <2> SUFFICES ASSUME NEW m \in Mails, SendNow(m) PROVE act'[m].pc = "deliver"
    OBVIOUS
  <2>1. act' = [act EXCEPT ![m].pc = "deliver", ![m].todo = {ByHand(m)}] /\ m \in Actors /\ act[m] \in Act
    BY <1>1 DEF SendNow
  <2> QED
    BY <1>1, <2>1 DEF Act
<1>8. ASSUME NEW r \in Runs, Early(act'[r])
      PROVE  act'[r].odd = {} /\ note'[Reminder(r)].status = "none" /\ \A i \in DOMAIN log' : log'[i].by # r
  <2>1. Early(act[r]) /\ act'[r].odd = act[r].odd /\ ~Record(r)
    BY <1>1, <1>3, <1>6, <1>8 DEF Early
  <2>2. act[r].odd = {} /\ note[Reminder(r)].status = "none" /\ \A i \in DOMAIN log : log[i].by # r
    BY <2>1 DEF FreshIsNew, Fresh, Early
  <2>3. note'[Reminder(r)].status = "none"
    BY <2>1, <2>2, RowsNext
  <2>4. \A i \in DOMAIN log' : log'[i].by # r
    <3>1. CASE log' = log
      BY <2>2, <3>1
    <3>2. CASE log' # log
      <4>1. PICK q \in Runs :
              /\ Record(q) /\ Len(log) \in Nat /\ DOMAIN log = 1..Len(log) /\ DOMAIN log' = 1..Len(log) + 1
              /\ \A i \in 1..Len(log) : log'[i] = log[i]
              /\ log'[Len(log) + 1].by = q
        BY <3>2, LogGrows DEF IsRow
      <4>2. q # r
        BY <2>1, <4>1
      <4>3. \A i \in 1..Len(log) + 1 : i \in 1..Len(log) \/ i = Len(log) + 1
        BY <4>1
      <4> QED
        BY <2>2, <4>1, <4>2, <4>3
    <3> QED
      BY <3>1, <3>2
  <2> QED
    BY <2>1, <2>2, <2>3, <2>4
<1>9. ASSUME NEW m \in Mails, act'[m].pc = "none"
      PROVE  note'[ByHand(m)].status = "none"
  <2>1. act[m].pc = "none" /\ ~SendNow(m)
    BY <1>1, <1>4, <1>7, <1>9
  <2> QED
    BY <2>1, RowsNext DEF FreshIsNew, At
<1>10. ASSUME NEW a \in Actors, Early(act'[a]) \/ act'[a].pc = "deliver"
      PROVE  act'[a].cur = None
  <2>1. Early(act[a]) \/ act[a].pc = "deliver" => act[a].cur = None
    BY DEF FreshIsNew, Fresh, Early, At
  <2> QED
    BY <1>3, <1>5, <1>10, <2>1
<1> QED
  BY <1>8, <1>9, <1>10 DEF FreshIsNew, Fresh, Early, At

\* The saved session is known, and so is the one of a check.
LEMMA SessionsNext ==
  ASSUME TypeOK, TypeOK', FreshIsNew, OutboxOK, SessionsKnown, SessionOfAccount, Next
  PROVE  SessionsKnown' /\ SessionOfAccount'
<1>1. Runs \subseteq Actors /\ act \in [Actors -> Act] /\ act' \in [Actors -> Act] /\ settings \in Settings
  BY ParamsOK DEF TypeOK
<1>2. \A b \in Actors : Kept(b, act[b], act'[b])
  BY ActNext
<1>3. ASSUME \E q \in Runs : "foreign" \in act[q].odd
      PROVE  \E q \in Runs : "foreign" \in act'[q].odd
  BY <1>1, <1>2, <1>3 DEF Kept
<1>4. ASSUME NEW r \in Runs, act'[r].pc = "record"
      PROVE  act'[r].balance \in Balances
  BY <1>1, <1>2, <1>4 DEF Kept, SessionsKnown, At
<1>5. ASSUME NEW r \in Runs, act'[r].pc \in {"fetch", "record"}, act'[r].session \notin {None, act'[r].account}
      PROVE  \E q \in Runs : "foreign" \in act'[q].odd
  <2>1. CASE Claim(r)
    <3>1. act'[r].account = settings.account /\ act'[r].session = settings.session
      BY <1>5, <2>1, ClaimStep
    <3> QED
      BY <1>3, <1>5, <3>1 DEF SessionOfAccount
  <2>2. CASE /\ act[r].pc \in {"fetch", "record"} /\ act'[r].account = act[r].account
             /\ act'[r].session \in {act[r].session, act[r].account}
    BY <1>3, <1>5, <2>2 DEF SessionsKnown
  <2> QED
    BY <1>1, <1>2, <1>5, <2>1, <2>2 DEF Kept
<1>6. ASSUME settings'.session \notin {None, settings'.account}
      PROVE  \E q \in Runs : "foreign" \in act'[q].odd
  <2>1. CASE settings'.account = settings.account /\ settings'.session = settings.session
    BY <1>3, <1>6, <2>1 DEF SessionOfAccount
  <2>2. ASSUME NEW r \in Runs, Record(r)
        PROVE  \E q \in Runs : "foreign" \in act'[q].odd
    <3>1. CASE settings.account # act[r].account
      BY <2>2, <3>1, RecordStep
    <3>2. CASE settings.account = act[r].account
      <4>1. act[r].session \notin {None, act[r].account} /\ act[r].pc = "record"
        BY <1>6, <2>2, <3>2, RecordStep
      <4> QED
        BY <1>3, <4>1 DEF SessionsKnown
    <3> QED
      BY <3>1, <3>2
  <2>3. ASSUME NEW a \in Accounts, NEW on \in Modes, PutSettings(a, on)
        PROVE  \E q \in Runs : "foreign" \in act'[q].odd
    <3>1. settings'.account = a /\ settings'.session = IF a = settings.account THEN settings.session ELSE None
      BY <1>1, <2>3 DEF PutSettings, Settings
    <3> QED
      BY <1>3, <1>6, <3>1 DEF SessionOfAccount
  <2>4. ASSUME NEW s \in {settings.account, None}, PutSession(s)
        PROVE  FALSE
    BY <1>1, <1>6, <2>4 DEF PutSession, Settings
  <2> QED
    BY <2>1, <2>2, <2>3, <2>4, SessionNext
<1> QED
  BY <1>4, <1>5, <1>6 DEF SessionsKnown, SessionOfAccount, At

-----------------------------------------------------------------------------
(* The outbox. *)

MailInv == OutboxOK /\ SendingHasOwner /\ DailyMarkTrue

\* A row that a check or a request put into the outbox, or that nobody touched.
Waits(n, m) == \/ m = n
               \/ /\ n.status \in {"none", "failed"} /\ m.status = "pending"
                  /\ m.taken = n.taken /\ m.doubtful = n.doubtful

\* A step that delivers nothing keeps the outbox consistent.
LEMMA MailQuiet ==
  ASSUME TypeOK, TypeOK', MailInv, \A k \in Keys : Waits(note[k], note'[k]),
         settings'.dailySent = settings.dailySent,
         \A a \in Actors : act'[a].pc \in {"sending", "taken"} => act'[a].pc = act[a].pc /\ act'[a].cur = act[a].cur,
         \A a \in Actors : act'[a].cur = act[a].cur \/ act[a].cur = None
  PROVE  MailInv'
<1>1. None \notin Keys /\ \A d \in Days : Daily(d) \in Keys
  BY ParamsOK, KeysDiffer
<1>2. SendingHasOwner'
  <2> SUFFICES ASSUME NEW k \in Keys, note'[k].status = "sending" PROVE \E a \in Actors : act'[a].cur = k
    BY DEF SendingHasOwner
  <2>1. note[k].status = "sending"
    BY DEF Waits
  <2>2. PICK a \in Actors : act[a].cur = k
    BY <2>1 DEF MailInv, SendingHasOwner
  <2> QED
    BY <1>1, <2>2
<1>3. DailyMarkTrue'
  <2> SUFFICES ASSUME NEW d \in Days, settings'.dailySent = d
               PROVE  \E e \in Days : note'[Daily(e)].status = "sent" /\ note'[Daily(e)].sent \div DayTicks = d
    BY DEF DailyMarkTrue
  <2>1. PICK e \in Days : note[Daily(e)].status = "sent" /\ note[Daily(e)].sent \div DayTicks = d
    BY DEF MailInv, DailyMarkTrue
  <2>2. note'[Daily(e)] = note[Daily(e)]
    BY <1>1, <2>1 DEF Waits
  <2> QED
    BY <2>1, <2>2
<1>4. \A a \in Actors : act'[a].pc \in {"sending", "taken"} => act'[a].cur \in Keys
  BY DEF MailInv, OutboxOK
<1>5. ASSUME NEW k \in Keys
      PROVE  /\ note'[k].taken <= note'[k].doubtful + 1
             /\ note'[k].status \in {"none", "pending", "failed"} => note'[k].taken <= note'[k].doubtful
  <2>1. /\ note[k].taken <= note[k].doubtful + 1
        /\ note[k].status \in {"none", "pending", "failed"} => note[k].taken <= note[k].doubtful
    BY DEF MailInv, OutboxOK
  <2> QED
    BY <2>1 DEF Waits
<1>6. ASSUME NEW k \in Keys, NEW a \in Actors, act'[a].pc \in {"sending", "taken"}, act'[a].cur = k
      PROVE  /\ note'[k].status = "sending"
             /\ act'[a].pc = "sending" => note'[k].taken <= note'[k].doubtful
             /\ \A b \in Actors : act'[b].pc \in {"sending", "taken"} /\ act'[b].cur = k => b = a
  <2>1. Delivering(a, k)
    BY <1>6 DEF Delivering
  <2>2. /\ note[k].status = "sending"
        /\ act[a].pc = "sending" => note[k].taken <= note[k].doubtful
        /\ \A b \in Actors : act[b].pc \in {"sending", "taken"} /\ act[b].cur = k => b = a
    BY <2>1 DEF MailInv, OutboxOK, Delivering, At
  <2>3. note'[k] = note[k]
    BY <2>2 DEF Waits
  <2> QED
    BY <1>6, <2>2, <2>3
<1> QED
  BY <1>2, <1>3, <1>4, <1>5, <1>6 DEF MailInv, OutboxOK, Delivering, At

\* Actor a turns the row c into n, and nobody else delivers that row.
LEMMA MailStep ==
  ASSUME TypeOK, TypeOK', MailInv, NEW a \in Actors, NEW c \in Keys, NEW n \in Note,
         note' = [note EXCEPT ![c] = n], \A b \in Actors \ {a} : act'[b] = act[b],
         \A b \in Actors \ {a} : ~Delivering(b, c),
         act[a].cur \in {None, c}, note[c].status # "sent",
         act'[a].pc \in {"sending", "taken"} => act'[a].cur = c /\ n.status = "sending",
         act'[a].pc = "sending" => n.taken <= n.doubtful,
         n.status = "sending" => act'[a].cur = c,
         n.taken <= n.doubtful + 1,
         n.status \in {"none", "pending", "failed"} => n.taken <= n.doubtful,
         \/ settings'.dailySent = settings.dailySent
         \/ \E e \in Days : c = Daily(e) /\ n.status = "sent" /\ n.sent \div DayTicks = settings'.dailySent
  PROVE  MailInv'
<1>1. /\ None \notin Keys /\ \A d \in Days : Daily(d) \in Keys
      /\ note \in [Keys -> Note] /\ note'[c] = n /\ \A k \in Keys \ {c} : note'[k] = note[k]
  BY ParamsOK, KeysDiffer DEF TypeOK
<1>2. SendingHasOwner'
  <2> SUFFICES ASSUME NEW k \in Keys, note'[k].status = "sending" PROVE \E b \in Actors : act'[b].cur = k
    BY DEF SendingHasOwner
  <2>1. CASE k = c
    BY <1>1, <2>1
  <2>2. CASE k # c
    <3>1. PICK b \in Actors : act[b].cur = k
      BY <1>1, <2>2 DEF MailInv, SendingHasOwner
    <3> QED
      BY <1>1, <2>2, <3>1
  <2> QED
    BY <2>1, <2>2
<1>3. DailyMarkTrue'
  <2> SUFFICES ASSUME NEW d \in Days, settings'.dailySent = d
               PROVE  \E e \in Days : note'[Daily(e)].status = "sent" /\ note'[Daily(e)].sent \div DayTicks = d
    BY DEF DailyMarkTrue
  <2>1. CASE settings'.dailySent = settings.dailySent
    <3>1. PICK e \in Days : note[Daily(e)].status = "sent" /\ note[Daily(e)].sent \div DayTicks = d
      BY <2>1 DEF MailInv, DailyMarkTrue
    <3>2. note'[Daily(e)] = note[Daily(e)]
      BY <1>1, <3>1
    <3> QED
      BY <3>1, <3>2
  <2>2. CASE settings'.dailySent # settings.dailySent
    BY <1>1, <2>2
  <2> QED
    BY <2>1, <2>2
<1>4. \A b \in Actors : act'[b].pc \in {"sending", "taken"} => act'[b].cur \in Keys
  BY DEF MailInv, OutboxOK
<1>5. ASSUME NEW k \in Keys
      PROVE  /\ note'[k].taken <= note'[k].doubtful + 1
             /\ note'[k].status \in {"none", "pending", "failed"} => note'[k].taken <= note'[k].doubtful
  BY <1>1 DEF MailInv, OutboxOK
<1>6. ASSUME NEW k \in Keys, NEW b \in Actors, act'[b].pc \in {"sending", "taken"}, act'[b].cur = k
      PROVE  /\ note'[k].status = "sending"
             /\ act'[b].pc = "sending" => note'[k].taken <= note'[k].doubtful
             /\ \A x \in Actors : act'[x].pc \in {"sending", "taken"} /\ act'[x].cur = k => x = b
  <2>1. CASE k = c
    <3>1. \A x \in Actors : act'[x].pc \in {"sending", "taken"} /\ act'[x].cur = c => x = a
      BY DEF Delivering
    <3> QED
      BY <1>1, <1>6, <2>1, <3>1
  <2>2. CASE k # c
    <3>1. \A x \in Actors : act'[x].pc \in {"sending", "taken"} /\ act'[x].cur = k => x # a /\ act'[x] = act[x]
      BY <2>2
    <3>2. Delivering(b, k) /\ act'[b] = act[b]
      BY <1>6, <3>1 DEF Delivering
    <3>3. /\ note[k].status = "sending"
          /\ act[b].pc = "sending" => note[k].taken <= note[k].doubtful
          /\ \A x \in Actors : act[x].pc \in {"sending", "taken"} /\ act[x].cur = k => x = b
      BY <3>2 DEF MailInv, OutboxOK, Delivering, At
    <3> QED
      BY <1>1, <1>6, <2>2, <3>1, <3>2, <3>3
  <2> QED
    BY <2>1, <2>2
<1> QED
  BY <1>2, <1>3, <1>4, <1>5, <1>6 DEF MailInv, OutboxOK, Delivering, At

\* A delivery keeps the outbox consistent.
LEMMA DeliveryMails ==
  ASSUME TypeOK, TypeOK', FreshIsNew, MailInv, NEW a \in Actors, Delivery(a)
  PROVE  MailInv'
<1> DEFINE c == act[a].cur
<1>1. /\ act \in [Actors -> Act] /\ note \in [Keys -> Note] /\ settings \in Settings /\ clock \in Int
      /\ act[a] \in Act
  BY DEF TypeOK
<1>2. ASSUME act[a].pc \in {"sending", "taken"}
      PROVE  /\ c \in Keys /\ note[c] \in Note /\ note[c].status = "sending"
             /\ note[c].taken <= note[c].doubtful + 1 /\ note[c].taken \in Nat /\ note[c].doubtful \in Nat
             /\ act[a].pc = "sending" => note[c].taken <= note[c].doubtful
             /\ \A b \in Actors \ {a} : ~Delivering(b, c)
  <2>1. c \in Keys /\ Delivering(a, c)
    BY <1>2 DEF MailInv, OutboxOK, Delivering
  <2>2. /\ note[c].status = "sending" /\ note[c].taken <= note[c].doubtful + 1
        /\ act[a].pc = "sending" => note[c].taken <= note[c].doubtful
        /\ \A b \in Actors : Delivering(b, c) => b = a
    BY <2>1 DEF MailInv, OutboxOK, At
  <2>3. note[c] \in Note /\ note[c].taken \in Nat /\ note[c].doubtful \in Nat
    BY <1>1, <2>1 DEF Note
  <2> QED
    BY <2>1, <2>2, <2>3
<1>3. CASE StartDelivery(a)
  <2>1. act[a].pc = "deliver" /\ c = None
    BY <1>3 DEF StartDelivery, At, FreshIsNew
  <2>2. PICK k \in act[a].todo :
          IF Open(k, note)
          THEN /\ note' = [note EXCEPT ![k].status = "sending"]
               /\ act' = [act EXCEPT ![a].todo = @ \ {k}, ![a].pc = "sending", ![a].cur = k]
          ELSE act' = [act EXCEPT ![a].todo = @ \ {k}] /\ note' = note
    BY <1>3, Zenon DEF StartDelivery
  <2>3. settings' = settings /\ k \in Keys
    BY <1>1, <1>3 DEF StartDelivery, Act
  <2>4. CASE ~Open(k, note)
    <3>1. /\ note' = note /\ \A b \in Actors \ {a} : act'[b] = act[b]
          /\ act'[a].pc = act[a].pc /\ act'[a].cur = act[a].cur
      BY <1>1, <2>2, <2>4 DEF Act
    <3>2. \A b \in Actors : act'[b].pc = act[b].pc /\ act'[b].cur = act[b].cur
      BY <3>1
    <3> QED
      BY <2>3, <3>1, <3>2, MailQuiet DEF Waits
  <2>5. CASE Open(k, note)
    <3> DEFINE n == [note[k] EXCEPT !.status = "sending"]
    <3>1. /\ \A b \in Actors \ {a} : act'[b] = act[b]
          /\ act'[a].pc = "sending" /\ act'[a].cur = k
      BY <1>1, <2>2, <2>5 DEF Act
    <3>2. n \in Note /\ n.status = "sending" /\ n.taken = note[k].taken /\ n.doubtful = note[k].doubtful
      BY <1>1, <2>3, RowStatus
    <3>3. note' = [note EXCEPT ![k] = n]
      BY <1>1, <2>2, <2>3, <2>5
    <3>4. /\ note[k].status \in {"pending", "failed"} /\ note[k].taken <= note[k].doubtful
          /\ note[k].taken \in Nat /\ note[k].doubtful \in Nat
      BY <1>1, <2>3, <2>5 DEF Open, MailInv, OutboxOK, Note
    <3>5. \A b \in Actors \ {a} : ~Delivering(b, k)
      BY <2>3, <3>4 DEF MailInv, OutboxOK
    <3> HIDE DEF n
    <3>6. n.taken <= n.doubtful /\ n.taken <= n.doubtful + 1
      BY <3>2, <3>4
    <3>7. settings'.dailySent = settings.dailySent /\ act[a].cur \in {None, k} /\ note[k].status # "sent"
      BY <2>1, <2>3, <3>4
    <3> QED
      BY <2>3, <3>1, <3>2, <3>3, <3>5, <3>6, <3>7, MailStep
  <2> QED
    BY <2>4, <2>5
<1>4. CASE Takes(a)
  <2>1. act[a].pc = "sending" /\ settings' = settings
    BY <1>4 DEF Takes, At
  <2> DEFINE n == [note[c] EXCEPT !.taken = note[c].taken + 1]
  <2>2. note' = [note EXCEPT ![c] = n]
    BY <1>4 DEF Takes
  <2>3. /\ n \in Note /\ n.status = "sending" /\ n.taken = note[c].taken + 1 /\ n.doubtful = note[c].doubtful
    BY <1>2, <2>1, RowTaken
  <2>4. /\ \A b \in Actors \ {a} : act'[b] = act[b]
        /\ act'[a].pc = "taken" /\ act'[a].cur = c
    BY <1>1, <1>4 DEF Takes, Goes, Act
  <2> HIDE DEF n
  <2>5. n.taken <= n.doubtful + 1
    BY <1>2, <2>1, <2>3
  <2>6. settings'.dailySent = settings.dailySent /\ act[a].cur \in {None, c} /\ note[c].status # "sent" /\ c \in Keys
    BY <1>2, <2>1
  <2>7. \A b \in Actors \ {a} : ~Delivering(b, c)
    BY <1>2, <2>1
  <2> QED
    BY <2>2, <2>3, <2>4, <2>5, <2>6, <2>7, MailStep
<1>5. ASSUME act' = [act EXCEPT ![a].pc = "deliver", ![a].cur = None]
      PROVE  /\ \A b \in Actors \ {a} : act'[b] = act[b]
             /\ act'[a].pc = "deliver" /\ act'[a].cur = None
  BY <1>1, <1>5 DEF Act
<1>6. CASE Refused(a)
  <2>1. act[a].pc = "sending" /\ settings' = settings
    BY <1>6 DEF Refused, At
  <2>2. PICK lost \in {0, 1} :
          note' = [note EXCEPT ![c].status = "failed", ![c].taken = @ + lost, ![c].doubtful = @ + lost]
    BY <1>6 DEF Refused
  <2> DEFINE n == Failed(note[c], note[c].taken + lost, note[c].doubtful + lost)
  <2>3. note' = [note EXCEPT ![c] = n]
    BY <1>1, <1>2, <2>1, <2>2 DEF Failed
  <2>4. n \in Note /\ n.status = "failed" /\ n.taken = note[c].taken + lost /\ n.doubtful = note[c].doubtful + lost
    BY <1>2, <2>1, RowFailed
  <2>5. /\ \A b \in Actors \ {a} : act'[b] = act[b]
        /\ act'[a].pc = "deliver" /\ act'[a].cur = None
    BY <1>5, <1>6 DEF Refused
  <2> HIDE DEF n
  <2>6. n.taken <= n.doubtful /\ n.taken <= n.doubtful + 1
    BY <1>2, <2>1, <2>4
  <2>7. settings'.dailySent = settings.dailySent /\ act[a].cur \in {None, c} /\ note[c].status # "sent" /\ c \in Keys
    BY <1>2, <2>1
  <2>8. \A b \in Actors \ {a} : ~Delivering(b, c)
    BY <1>2, <2>1
  <2> QED
    BY <2>3, <2>4, <2>5, <2>6, <2>7, <2>8, MailStep
<1>7. CASE MarkSent(a)
  <2>1. act[a].pc = "taken"
    BY <1>7 DEF MarkSent, At
  <2> DEFINE n == Sent(note[c], clock)
  <2>2. note' = [note EXCEPT ![c] = n]
    BY <1>1, <1>2, <1>7, <2>1 DEF MarkSent, Sent
  <2>3. n \in Note /\ n.status = "sent" /\ n.taken = note[c].taken /\ n.doubtful = note[c].doubtful /\ n.sent = clock
    BY <1>1, <1>2, <2>1, RowSent
  <2>4. /\ \A b \in Actors \ {a} : act'[b] = act[b]
        /\ act'[a].pc = "deliver" /\ act'[a].cur = None
    BY <1>5, <1>7 DEF MarkSent
  <2>5. \/ settings'.dailySent = settings.dailySent
        \/ c[1] = "daily" /\ settings'.dailySent = Today
    BY <1>1, <1>7 DEF MarkSent, Settings
  <2>6. c[1] = "daily" => \E e \in Days : c = Daily(e)
    <3>1. c \in Keys
      BY <1>2, <2>1
    <3> QED
      BY <3>1, KeysDiffer DEF Keys
  <2> HIDE DEF n
  <2>7. \/ settings'.dailySent = settings.dailySent
        \/ \E e \in Days : c = Daily(e) /\ n.status = "sent" /\ n.sent \div DayTicks = settings'.dailySent
    BY <2>3, <2>5, <2>6 DEF Today
  <2>8. n.taken <= n.doubtful + 1 /\ act[a].cur \in {None, c} /\ note[c].status # "sent" /\ c \in Keys
    BY <1>2, <2>1, <2>3
  <2>9. \A b \in Actors \ {a} : ~Delivering(b, c)
    BY <1>2, <2>1
  <2> QED
    BY <2>2, <2>3, <2>4, <2>7, <2>8, <2>9, MailStep
<1> QED
  BY <1>3, <1>4, <1>6, <1>7 DEF Delivery

\* The outbox is kept consistent.
LEMMA MailNext ==
  ASSUME TypeOK, TypeOK', FreshIsNew, MailInv, Next
  PROVE  MailInv'
<1>1. CASE \A a \in Actors : ~Delivery(a)
  <2>1. \A a \in Actors : Kept(a, act[a], act'[a])
    BY ActNext DEF MailInv
  <2>2. /\ \A a \in Actors : act'[a].pc \in {"sending", "taken"} => act'[a].pc = act[a].pc /\ act'[a].cur = act[a].cur
        /\ \A a \in Actors : act'[a].cur = act[a].cur \/ act[a].cur = None
    BY <1>1, <2>1 DEF Kept, Delivery
  <2>3. settings'.dailySent = settings.dailySent
    BY <1>1, Frames DEF Delivery
  <2>4. \A k \in Keys : Waits(note[k], note'[k])
    <3>1. CASE note' = note
      BY <3>1 DEF Waits
    <3>2. ASSUME NEW r \in Runs, Record(r)
          PROVE  \A k \in Keys : Waits(note[k], note'[k])
      BY <3>2, RecordRows DEF Waits
    <3>3. ASSUME NEW m \in Mails, SendNow(m)
          PROVE  \A k \in Keys : Waits(note[k], note'[k])
      <4>1. note \in [Keys -> Note] /\ note[ByHand(m)].status = "none"
        BY <3>3 DEF TypeOK, SendNow, FreshIsNew
      <4> DEFINE n == Called(note[ByHand(m)], clock)
      <4>2. note' = [note EXCEPT ![ByHand(m)] = n] /\ Waits(note[ByHand(m)], n)
        BY <3>3, <4>1, SendNowRow DEF Waits
      <4> HIDE DEF n
      <4> QED
        BY <4>1, <4>2 DEF Waits
    <3> QED
      BY <1>1, <3>1, <3>2, <3>3, NoteNext
  <2> QED
    BY <2>2, <2>3, <2>4, MailQuiet
<1>2. CASE \E a \in Actors : Delivery(a)
  BY <1>2, DeliveryMails
<1> QED
  BY <1>1, <1>2

-----------------------------------------------------------------------------
(* The log and its reminders. *)

\* Of the reminders there are, one is the newest.
LEMMA NewestReminder ==
  ASSUME TypeOK, LogOK, Reminded # {}
  PROVE  /\ LastReminder \in Reminded
         /\ \A t \in Reminded : t <= LastReminder
<1>1. \A t \in Reminded : t \in Int /\ t <= clock /\ clock - t \in Nat
  <2> SUFFICES ASSUME NEW r \in Runs, note[Reminder(r)].status # "none"
               PROVE  note[Reminder(r)].at \in Int /\ note[Reminder(r)].at <= clock /\ clock - note[Reminder(r)].at \in Nat
    BY DEF Reminded
  <2>1. PICK i \in DOMAIN log : log[i].by = r
    BY DEF LogOK
  <2>2. note[Reminder(r)].at = log[i].at /\ log[i].at <= clock
    BY <2>1 DEF LogOK, RemindedAt
  <2>3. note[Reminder(r)].at \in Int /\ clock \in Int
    BY KeysDiffer DEF TypeOK, Note
  <2> QED
    BY <2>2, <2>3
<1> DEFINE ages == {clock - t : t \in Reminded}
<1>2. ages \subseteq Nat /\ ages # {}
  BY <1>1
<1>3. \E x \in ages : \A y \in ages : x <= y
  <2> HIDE DEF ages
  <2> DEFINE R == {ss \in Nat \X Nat : ss[1] < ss[2]}
  <2>1. IsWellFoundedOn(R, Nat)
    BY NatLessThanWellFounded DEF OpToRel
  <2>2. \A x, y \in Nat : x < y => <<x, y>> \in R
    OBVIOUS
  <2> HIDE DEF R
  <2>3. PICK x \in ages : \A y \in ages : ~ (<<y, x>> \in R)
    BY <1>2, <2>1, WFMin
  <2>4. \A y \in ages : ~ (y < x)
    BY <1>2, <2>2, <2>3
  <2>5. \A y \in ages : x <= y
    BY <1>2, <2>4
  <2> QED
    BY <2>5
<1>4. PICK x \in ages : \A y \in ages : x <= y
  BY <1>3
<1>5. PICK t \in Reminded : x = clock - t
  OBVIOUS
<1>6. ASSUME NEW u \in Reminded
      PROVE  u <= t
  <2>1. clock - u \in ages
    OBVIOUS
  <2>2. clock - t <= clock - u
    BY <1>4, <1>5, <2>1
  <2>3. u \in Int /\ t \in Int /\ clock \in Int
    BY <1>1 DEF TypeOK
  <2> QED
    BY <2>2, <2>3
<1> QED
  BY <1>5, <1>6 DEF LastReminder

\* A step that records nothing leaves log and reminders as they are.
LEMMA QuietLog ==
  ASSUME TypeOK, LogOK, RemindersRight, clock' >= clock, clock' \in Int,
         log' = log, settings'.last = settings.last,
         \A r \in Runs : note[Reminder(r)].status = "none" => note'[Reminder(r)].status = "none",
         \A r \in Runs : note[Reminder(r)].status # "none" =>
           note'[Reminder(r)].status # "none" /\ note'[Reminder(r)].at = note[Reminder(r)].at
  PROVE  LogOK' /\ RemindersRight'
<1>1. /\ \A i \in DOMAIN log : log[i].by \in Runs /\ log[i].at \in Int
      /\ clock \in Int
  <2>1. log \in Seq(CheckRow) /\ clock \in 0..MaxTime
    BY DEF TypeOK
  <2>2. \A i \in DOMAIN log : log[i] \in CheckRow
    BY <2>1
  <2>3. \A row \in CheckRow : row.by \in Runs /\ row.at \in Int
    BY DEF CheckRow
  <2> QED
    BY <2>1, <2>2, <2>3
<1>2. \A i \in DOMAIN log :
        /\ note'[Reminder(log[i].by)].status # "none" <=> note[Reminder(log[i].by)].status # "none"
        /\ note[Reminder(log[i].by)].status # "none" =>
             note'[Reminder(log[i].by)].at = note[Reminder(log[i].by)].at
  BY <1>1
<1>3. LogOK'
  <2>1. settings'.last = IF log' = <<>> THEN None ELSE log'[Len(log')].balance
    BY DEF LogOK
  <2>2. \A i \in DOMAIN log' :
          log'[i].at <= clock' /\ (RemindedAt(i)' => note'[Reminder(log'[i].by)].at = log'[i].at)
    <3>1. \A i \in DOMAIN log : log[i].at <= clock /\ (RemindedAt(i) => note[Reminder(log[i].by)].at = log[i].at)
      BY DEF LogOK
    <3>2. \A i \in DOMAIN log : log[i].at <= clock'
      BY <1>1, <3>1
    <3> QED
      BY <1>2, <3>1, <3>2 DEF RemindedAt
  <2>3. \A r \in Runs : note'[Reminder(r)].status # "none" => \E i \in DOMAIN log' : log'[i].by = r
    BY DEF LogOK
  <2> QED
    BY <2>1, <2>2, <2>3 DEF LogOK
<1>4. RemindersSpaced'
  BY <1>2 DEF RemindersRight, RemindersSpaced, RemindedAt
<1>5. DropsAreTold'
  <2>1. \A i \in DOMAIN log : RemindedAt(i)' <=> RemindedAt(i)
    BY <1>2 DEF RemindedAt
  <2>2. \A i \in DOMAIN log : \A j \in 1..i : j \in DOMAIN log
    BY DEF TypeOK
  <2>3. DropsAreTold
    BY DEF RemindersRight
  <2> QED
    BY <2>1, <2>2, <2>3 DEF DropsAreTold
<1> QED
  BY <1>3, <1>4, <1>5 DEF RemindersRight

\* A check that records keeps the log and the reminders right.
LEMMA RecordLog ==
  ASSUME TypeOK, TypeOK', FreshIsNew, OutboxOK, LogOK, RemindersRight, Next, NEW r \in Runs, Record(r),
         clock' = clock, settings'.last = act[r].balance,
         Len(log) \in Nat, Len(log') = Len(log) + 1, DOMAIN log = 1..Len(log), DOMAIN log' = 1..Len(log) + 1,
         \A i \in 1..Len(log) : log'[i] = log[i],
         IsRow(log'[Len(log) + 1], r)
  PROVE  LogOK' /\ RemindersRight'
<1>1. PICK n \in Nat : n = Len(log) + 1
  OBVIOUS
<1>2. /\ \A i \in 1..Len(log) : log[i].by \in Runs /\ log[i].at \in Nat /\ log[i].balance \in Int
      /\ clock \in Nat /\ Threshold \in Int /\ Repeat \in Nat /\ Repeat > 0 /\ n \in Nat
      /\ None \notin Balances /\ \A i \in 1..Len(log) : log[i].balance \in Balances
  <2>1. log \in Seq(CheckRow) /\ clock \in Nat
    BY ParamsOK DEF TypeOK
  <2>2. \A i \in DOMAIN log : log[i] \in CheckRow
    BY <2>1
  <2>3. \A row \in CheckRow : row.by \in Runs /\ row.at \in Nat /\ row.balance \in Balances
    BY DEF CheckRow
  <2>4. \A i \in 1..Len(log) : log[i].by \in Runs /\ log[i].at \in Nat /\ log[i].balance \in Balances
    BY <2>2, <2>3
  <2>5. \A b \in Balances : b \in Int
    BY ParamsOK
  <2> QED
    BY <2>1, <2>4, <2>5, ParamsOK
<1>3. \A i \in 1..Len(log) : log[i].by # r
  <2>1. At(r, "record")
    BY DEF Record
  <2> QED
    BY <2>1 DEF FreshIsNew, Fresh, At
<1>4. \A i \in 1..Len(log) : note'[Reminder(log[i].by)] = note[Reminder(log[i].by)]
  BY <1>2, <1>3, RecordRows
<1>5. /\ log'[n].by = r /\ log'[n].at = clock /\ log'[n].balance = act[r].balance
      /\ log'[n].alerts <=> "alerts" \in settings.on
  BY <1>1 DEF IsRow
<1>6. note[Reminder(r)].status = "none"
  <2>1. At(r, "record")
    BY DEF Record
  <2> QED
    BY <2>1 DEF FreshIsNew, Fresh, At
<1>7. IF "alerts" \in settings.on /\ ReminderDue(act[r].balance)
      THEN note'[Reminder(r)].status # "none" /\ note'[Reminder(r)].at = clock
      ELSE note'[Reminder(r)].status = "none"
  BY <1>6, RecordRows
<1>8. settings.last = IF Len(log) = 0 THEN None ELSE log[Len(log)].balance
  BY DEF LogOK, TypeOK
<1>9. \A i \in 1..Len(log) :
        log[i].at <= clock /\ (note[Reminder(log[i].by)].status # "none" => note[Reminder(log[i].by)].at = log[i].at)
  BY DEF LogOK, RemindedAt
<1>10. \A i \in 1..n : i \in 1..Len(log) \/ i = n
  BY <1>1, <1>2
<1>11. \A i \in 1..Len(log) :
        /\ RemindedAt(i)' <=> RemindedAt(i)
        /\ RemindedAt(i) => note[Reminder(log[i].by)].at = log[i].at
  BY <1>4, <1>9 DEF RemindedAt
<1>12. RemindedAt(n)' <=> "alerts" \in settings.on /\ ReminderDue(act[r].balance)
  <2>1. RemindedAt(n)' <=> note'[Reminder(r)].status # "none"
    BY <1>5 DEF RemindedAt
  <2> QED
    BY <1>7, <2>1
<1>13. DOMAIN log' = 1..n /\ DOMAIN log = 1..Len(log) /\ Len(log') = n
  BY <1>1
<1>14. ASSUME NEW i \in 1..Len(log), RemindedAt(i)
       PROVE  Reminded # {} /\ LastReminder \in Int /\ log[i].at <= LastReminder
  <2>1. log[i].at \in Reminded
    BY <1>2, <1>11, <1>14 DEF Reminded, RemindedAt
  <2>2. LastReminder \in Reminded /\ log[i].at <= LastReminder
    BY <2>1, NewestReminder
  <2>3. \A q \in Runs : note[Reminder(q)].at \in Int
    BY KeysDiffer DEF TypeOK, Note
  <2> QED
    BY <2>1, <2>2, <2>3 DEF Reminded
<1>15. LogOK'
  <2>1. settings'.last = IF log' = <<>> THEN None ELSE log'[Len(log')].balance
    BY <1>2, <1>5, <1>13 DEF TypeOK
  <2>2. \A i \in DOMAIN log' :
          log'[i].at <= clock' /\ (RemindedAt(i)' => note'[Reminder(log'[i].by)].at = log'[i].at)
    <3>1. ASSUME NEW i \in 1..Len(log)
          PROVE  log'[i].at <= clock' /\ (RemindedAt(i)' => note'[Reminder(log'[i].by)].at = log'[i].at)
      BY <1>4, <1>9, <1>11
    <3>2. log'[n].at <= clock' /\ (RemindedAt(n)' => note'[Reminder(log'[n].by)].at = log'[n].at)
      BY <1>2, <1>5, <1>7, <1>12
    <3> QED
      BY <1>10, <1>13, <3>1, <3>2 DEF RemindedAt
  <2>3. ASSUME NEW q \in Runs, note'[Reminder(q)].status # "none"
        PROVE  \E i \in DOMAIN log' : log'[i].by = q
    <3>1. CASE q = r
      BY <1>2, <1>5, <1>13, <3>1
    <3>2. CASE q # r
      <4>1. note[Reminder(q)].status # "none"
        BY <2>3, <3>2, RecordRows
      <4>2. PICK i \in 1..Len(log) : log[i].by = q
        BY <4>1 DEF LogOK
      <4>3. i \in 1..n
        BY <1>2, <4>2, <1>1
      <4> QED
        BY <1>13, <4>2, <4>3
    <3> QED
      BY <3>1, <3>2
  <2> QED
    BY <2>1, <2>2, <2>3 DEF LogOK
<1>16. RemindersSpaced'
  <2> SUFFICES ASSUME NEW i \in 1..n, NEW j \in 1..n, i < j, RemindedAt(i)', RemindedAt(j)',
                      \A k \in i..j : log'[k].balance < Threshold
               PROVE  log'[j].at - log'[i].at >= Repeat
    BY <1>13 DEF RemindersSpaced
  <2>1. i \in 1..Len(log) /\ RemindedAt(i)
    BY <1>2, <1>11, <1>1
  <2>2. CASE j \in 1..Len(log)
    <3>1. RemindedAt(j) /\ \A k \in i..j : log[k].balance < Threshold
      BY <1>2, <1>11, <2>1, <2>2
    <3>2. RemindersSpaced
      BY DEF RemindersRight
    <3>3. log[j].at - log[i].at >= Repeat
      BY <1>13, <2>1, <2>2, <3>1, <3>2 DEF RemindersSpaced
    <3> QED
      BY <2>1, <2>2, <3>3
  <2>3. CASE j = n
    <3>1. Len(log) \in i..j /\ Len(log) # 0 /\ Len(log) \in 1..Len(log)
      BY <1>2, <2>1, <2>3, <1>1
    <3>2. settings.last < Threshold /\ settings.last \in Int /\ settings.last # None
      BY <1>2, <1>8, <3>1
    <3>3. LastReminder = Never \/ LastReminder <= clock - Repeat
      <4>1. ReminderDue(act[r].balance)
        BY <1>12, <2>3 DEF RemindedAt
      <4>2. ~(settings.last >= Threshold)
        BY <1>2, <3>2
      <4> QED
        BY <3>2, <4>1, <4>2 DEF ReminderDue
    <3>4. LastReminder \in Int /\ log[i].at <= LastReminder
      BY <1>14, <2>1
    <3>5. LastReminder # Never
      BY <1>2, <2>1, <3>4 DEF Never
    <3>6. log[i].at <= clock - Repeat
      BY <1>2, <2>1, <3>3, <3>4, <3>5
    <3>7. log'[j].at = clock /\ log'[i].at = log[i].at /\ log[i].at \in Int
      BY <1>2, <1>5, <2>1, <2>3
    <3> QED
      BY <1>2, <3>6, <3>7
  <2> QED
    BY <1>10, <2>2, <2>3
<1>17. DropsAreTold'
  <2> SUFFICES ASSUME NEW i \in 1..n, log'[i].alerts, log'[i].balance < Threshold
               PROVE  IF i = 1 \/ log'[i - 1].balance >= Threshold
                      THEN RemindedAt(i)'
                      ELSE \E j \in 1..i : RemindedAt(j)' /\ log'[i].at - log'[j].at < Repeat
    BY <1>13 DEF DropsAreTold
  <2>1. CASE i \in 1..Len(log)
    <3>1. i # 1 => i - 1 \in 1..Len(log)
      BY <1>2, <2>1
    <3>2. \A j \in 1..i : j \in 1..Len(log)
      BY <1>2, <2>1
    <3>3. IF i = 1 \/ log[i - 1].balance >= Threshold
          THEN RemindedAt(i)
          ELSE \E j \in 1..i : RemindedAt(j) /\ log[i].at - log[j].at < Repeat
      <4>1. DropsAreTold
        BY DEF RemindersRight
      <4> QED
        BY <1>13, <2>1, <4>1 DEF DropsAreTold
    <3> QED
      BY <1>11, <2>1, <3>1, <3>2, <3>3
  <2>2. CASE i = n
    <3>1. "alerts" \in settings.on /\ act[r].balance < Threshold
      BY <1>5, <2>2
    <3>2. RemindedAt(n)' <=> ReminderDue(act[r].balance)
      BY <1>12, <3>1
    <3>3. CASE n = 1 \/ log'[n - 1].balance >= Threshold
      <4>1. settings.last = None \/ settings.last >= Threshold
        <5>1. CASE n = 1
          BY <1>2, <1>8, <5>1, <1>1
        <5>2. CASE n # 1 /\ log'[n - 1].balance >= Threshold
          <6>1. n - 1 = Len(log) /\ Len(log) # 0 /\ Len(log) \in 1..Len(log)
            BY <1>2, <5>2, <1>1
          <6> QED
            BY <1>8, <5>2, <6>1
        <5> QED
          BY <3>3, <5>1, <5>2
      <4>2. RemindedAt(n)'
        BY <3>1, <3>2, <4>1 DEF ReminderDue
      <4> QED
        BY <2>2, <3>3, <4>2 DEF RemindedAt
    <3>4. CASE ~(n = 1 \/ log'[n - 1].balance >= Threshold)
      <4>1. CASE RemindedAt(n)'
        <5>1. n \in 1..i /\ log'[i].at - log'[n].at < Repeat
          BY <1>2, <1>5, <2>2
        <5> QED
          BY <2>2, <3>4, <4>1, <5>1 DEF RemindedAt
      <4>2. CASE ~RemindedAt(n)'
        <5>1. LastReminder # Never /\ ~(LastReminder <= clock - Repeat)
          BY <3>1, <3>2, <4>2 DEF ReminderDue
        <5>2. Reminded # {}
          BY <5>1 DEF LastReminder
        <5>3. PICK q \in Runs : note[Reminder(q)].status # "none" /\ note[Reminder(q)].at = LastReminder
          BY <5>2, NewestReminder DEF Reminded
        <5>4. PICK j \in 1..Len(log) : log[j].by = q
          BY <5>3 DEF LogOK
        <5>5. RemindedAt(j) /\ log[j].at = LastReminder
          BY <1>9, <5>3, <5>4 DEF RemindedAt
        <5>6. j \in 1..i /\ RemindedAt(j)' /\ log'[j].at = LastReminder /\ log'[i].at = clock
          BY <1>2, <1>5, <1>11, <2>2, <5>4, <5>5, <1>1
        <5>7. clock - LastReminder < Repeat
          BY <1>2, <5>1, <5>4, <5>5
        <5> QED
          BY <2>2, <3>4, <5>6, <5>7
      <4> QED
        BY <4>1, <4>2
    <3> QED
      BY <3>3, <3>4
  <2> QED
    BY <1>10, <2>1, <2>2
<1> QED
  BY <1>15, <1>16, <1>17 DEF RemindersRight

\* The log and the reminders stay right.
LEMMA LogNext ==
  ASSUME TypeOK, TypeOK', FreshIsNew, OutboxOK, LogOK, RemindersRight, Next
  PROVE  LogOK' /\ RemindersRight'
<1>1. CASE log' = log /\ settings'.last = settings.last /\ \A r \in Runs : ~Record(r)
  <2>1. clock' >= clock /\ clock' \in Int
    BY Frames
  <2>2. /\ \A r \in Runs : note[Reminder(r)].status = "none" => note'[Reminder(r)].status = "none"
        /\ \A r \in Runs : note[Reminder(r)].status # "none" =>
             note'[Reminder(r)].status # "none" /\ note'[Reminder(r)].at = note[Reminder(r)].at
    BY <1>1, RowsNext
  <2> QED
    BY <1>1, <2>1, <2>2, QuietLog
<1>2. CASE \E r \in Runs :
             /\ Record(r) /\ clock' = clock
             /\ settings'.last = act[r].balance
             /\ Len(log) \in Nat /\ Len(log') = Len(log) + 1 /\ DOMAIN log = 1..Len(log) /\ DOMAIN log' = 1..Len(log) + 1
             /\ \A i \in 1..Len(log) : log'[i] = log[i]
             /\ IsRow(log'[Len(log) + 1], r)
  BY <1>2, RecordLog
<1> QED
  BY <1>1, <1>2, LogGrows

-----------------------------------------------------------------------------
(* The theorems. *)

\* Init establishes the invariant.
LEMMA InitInductive == Init => Inductive
<1> SUFFICES ASSUME Init
             PROVE  Inductive
  OBVIOUS
<1>1. PICK x \in Scenarios :
        /\ act = [a \in Actors |-> IF a \in x.team THEN NewAct ELSE [NewAct EXCEPT !.pc = "over"]]
        /\ faults = x.faults /\ edits = x.edits
  BY DEF Init
<1>2. faults \in Nat /\ edits \in Nat
  BY <1>1, BalanceConstants
<1>3. \A a \in Actors : /\ act[a].pc \in {"none", "over"} /\ act[a].cur = None /\ act[a].odd = {}
                        /\ act[a] \in Act
  BY <1>1, NewActOK, Moved DEF NewAct, Pcs
<1>4. act \in [Actors -> Act]
  BY <1>1, <1>3
<1>5. Runs \subseteq Actors /\ Mails \subseteq Actors
  BY ParamsOK
<1>6. PICK who \in Accounts :
        settings = [on |-> Switches, account |-> who, session |-> None, lock |-> None, until |-> Never,
                    last |-> None, dailySent |-> Never, dailyTried |-> Never, nextCheck |-> 0]
  BY DEF Init
<1>7. settings \in Settings /\ settings.lock = None /\ settings.session = None /\ settings.last = None
      /\ settings.dailySent = Never
  BY <1>6 DEF Settings, Never
<1>8. clock = 0 /\ clock \in 0..MaxTime /\ log = <<>> /\ log \in Seq(CheckRow) /\ DOMAIN log = {}
  BY ParamsOK DEF Init
<1>9. /\ note \in [Keys -> Note]
      /\ \A k \in Keys : note[k].status = "none" /\ note[k].taken = 0 /\ note[k].doubtful = 0
  BY DEF Init, Note, Never
<1>10. /\ \A r \in Runs : Reminder(r) \in Keys
       /\ \A m \in Mails : ByHand(m) \in Keys
  BY KeysDiffer
<1>11. TypeOK
  BY <1>2, <1>4, <1>7, <1>8, <1>9 DEF TypeOK
<1>12. SendingHasOwner /\ SessionOfAccount
  BY <1>7, <1>9 DEF SendingHasOwner, SessionOfAccount
<1>13. LockIsKnown
  BY <1>3, <1>5, <1>7 DEF LockIsKnown, OnPortal
<1>14. FreshIsNew
  BY <1>3, <1>5, <1>8, <1>9, <1>10 DEF FreshIsNew, Fresh, At
<1>15. SessionsKnown
  BY <1>3, <1>5 DEF SessionsKnown, At
<1>16. OutboxOK
  BY <1>3, <1>9 DEF OutboxOK, Delivering
<1>17. DailyMarkTrue
  BY <1>7 DEF DailyMarkTrue, Days, Never
<1>18. LogOK
  BY <1>7, <1>8, <1>9, <1>10 DEF LogOK
<1>19. RemindersRight
  BY <1>8 DEF RemindersRight, RemindersSpaced, DropsAreTold
<1> QED
  BY <1>11, <1>12, <1>13, <1>14, <1>15, <1>16, <1>17, <1>18, <1>19 DEF Inductive, StateIsConsistent

\* Every step keeps the invariant.
LEMMA NextInductive == Inductive /\ [Next]_vars => Inductive'
<1>1. ASSUME Inductive, Next
      PROVE  Inductive'
  <2>1. TypeOK /\ SendingHasOwner /\ SessionOfAccount /\ LockIsKnown /\ FreshIsNew /\ SessionsKnown
        /\ OutboxOK /\ DailyMarkTrue /\ LogOK /\ RemindersRight
    BY <1>1 DEF Inductive, StateIsConsistent
  <2>2. TypeOK'
    BY <1>1, <2>1, TypeNext
  <2>3. LockIsKnown'
    BY <1>1, <2>1, <2>2, LockNext
  <2>4. FreshIsNew'
    BY <1>1, <2>1, <2>2, FreshNext
  <2>5. SessionsKnown' /\ SessionOfAccount'
    BY <1>1, <2>1, <2>2, SessionsNext
  <2>6. OutboxOK' /\ SendingHasOwner' /\ DailyMarkTrue'
    BY <1>1, <2>1, <2>2, MailNext DEF MailInv
  <2>7. LogOK' /\ RemindersRight'
    BY <1>1, <2>1, <2>2, LogNext
  <2> QED
    BY <2>2, <2>3, <2>4, <2>5, <2>6, <2>7 DEF Inductive, StateIsConsistent
<1>2. ASSUME Inductive, UNCHANGED vars
      PROVE  Inductive'
  BY <1>2 DEF vars, Inductive, StateIsConsistent, TypeOK, SendingHasOwner, SessionOfAccount, LockIsKnown,
       OnPortal, FreshIsNew, Fresh, At, SessionsKnown, OutboxOK, Delivering, DailyMarkTrue, LogOK, RemindedAt,
       RemindersRight, RemindersSpaced, DropsAreTold
<1> QED
  BY <1>1, <1>2

\* The inductive invariant holds in every reachable state.
THEOREM InvariantHolds == Spec => []Inductive
  BY InitInductive, NextInductive, PTL DEF Spec

\* The monitor's state is well formed at all times; a row left as "sending" has
\* a worker that was interrupted while it sent it, and the saved session is that of
\* the configured account but when the account was changed under a check.
THEOREM BalanceConsistent == Spec => []StateIsConsistent
<1>1. Inductive => StateIsConsistent
  BY DEF Inductive
<1> QED
  BY <1>1, InvariantHolds, PTL

\* Two checks that both have their lease never share the portal account, no mail of
\* the outbox is sent twice but after a doubtful failure, and the day counts as
\* mailed only when its mail has gone out.
THEOREM CheckedAndMailedOnce == Spec => []OneCheckOneMail
<1>1. Inductive => OneCheckOneMail
  <2> SUFFICES ASSUME Inductive
               PROVE  OneCheckOneMail
    OBVIOUS
  <2>1. LockIsKnown /\ OutboxOK /\ DailyMarkTrue /\ TypeOK
    BY DEF Inductive, StateIsConsistent
  <2>2. \A r \in Runs : act[r].until \in Int
    BY <2>1, ParamsOK DEF TypeOK, Act
  <2>3. OneCheckWithinLease
    <3> SUFFICES ASSUME NEW r \in Runs, NEW q \in Runs, r # q, OnPortal(r), OnPortal(q),
                        \A x \in Runs : "raced" \notin act[x].odd,
                        ~(act[r].until <= clock), ~(act[q].until <= clock)
                 PROVE  FALSE
      BY DEF OneCheckWithinLease
    <3>1. act[r].until > clock /\ act[q].until > clock
      BY <2>1, <2>2 DEF TypeOK
    <3> QED
      BY <2>1, <3>1 DEF LockIsKnown
  <2>4. MailedOnce
    BY <2>1 DEF MailedOnce, OutboxOK
  <2> QED
    BY <2>1, <2>3, <2>4 DEF OneCheckOneMail, OutboxIsTrue
<1> QED
  BY <1>1, InvariantHolds, PTL

\* Reminders of one stretch below the threshold are the interval apart, and with
\* alerts on every drop is told, at once and again each interval.
THEOREM RemindersHold == Spec => []RemindersRight
<1>1. Inductive => RemindersRight
  BY DEF Inductive
<1> QED
  BY <1>1, InvariantHolds, PTL
=============================================================================
