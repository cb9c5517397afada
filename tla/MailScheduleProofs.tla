------------------------- MODULE MailScheduleProofs -------------------------
(***************************************************************************)
(* Proofs about MailSchedule: the settings page tells the truth about the  *)
(* next run, whatever the settings; no slot starts a second job except     *)
(* where a start overtook a save; and a save makes nothing due that had    *)
(* come when it looked at the clock.                                       *)
(***************************************************************************)
EXTENDS MailSchedule, WellFoundedInduction, TLAPS

-----------------------------------------------------------------------------
(* Numbers. *)

\* Division by a positive number rounds down.
LEMMA Division ==
  ASSUME NEW t \in Int, NEW d \in Nat \ {0}
  PROVE  /\ t \div d \in Int /\ (t \div d) * d <= t /\ t < (t \div d) * d + d
         /\ t \in Nat => t \div d \in Nat
  BY SMT

\* A quotient and a remainder are the only ones.
LEMMA Quotient ==
  ASSUME NEW t \in Int, NEW q \in Int, NEW d \in Nat \ {0}, q * d <= t, t < q * d + d
  PROVE  t \div d = q /\ t % d = t - q * d
  BY SMT

LEMMA QuotientGrows ==
  ASSUME NEW a \in Int, NEW b \in Int, NEW d \in Nat \ {0}, a <= b
  PROVE  a \div d <= b \div d
  BY SMT

LEMMA ProductGrows ==
  ASSUME NEW a \in Int, NEW b \in Int, NEW d \in Nat, a <= b
  PROVE  a * d <= b * d
  BY SMT

\* What Min and Max of FiniteSetsExt give.
LEMMA MinOfNat ==
  ASSUME NEW S \in SUBSET Nat, S # {}
  PROVE  Min(S) \in S /\ \A y \in S : Min(S) <= y
<1> DEFINE R == {ss \in Nat \X Nat : ss[1] < ss[2]}
<1>1. IsWellFoundedOn(R, Nat)
  BY NatLessThanWellFounded DEF OpToRel
<1>2. \A x, y \in Nat : x < y => <<x, y>> \in R
  OBVIOUS
<1> HIDE DEF R
<1>3. PICK x \in S : \A y \in S : ~ (<<y, x>> \in R)
  BY <1>1, WFMin
<1>4. \A y \in S : ~ (y < x)
  BY <1>2, <1>3
<1>5. \A y \in S : x <= y
  BY <1>4
<1> QED
  BY <1>5 DEF Min

LEMMA MaxOfNat ==
  ASSUME NEW n \in Nat, NEW S \in SUBSET (0..n), S # {}
  PROVE  Max(S) \in S /\ \A y \in S : y <= Max(S)
<1> DEFINE T == {n - y : y \in S}
<1>1. T \in SUBSET Nat /\ T # {}
  <2>1. \A y \in S : n - y \in Nat
    OBVIOUS
  <2> QED
    BY <2>1
<1>2. PICK x \in S : Min(T) = n - x
  BY <1>1, MinOfNat
<1>3. \A y \in S : y <= x
  BY <1>1, <1>2, MinOfNat
<1> QED
  BY <1>3 DEF Max

LEMMA MaxOfTwo ==
  ASSUME NEW a \in Int, NEW b \in Int
  PROVE  Max({a, b}) = IF a <= b THEN b ELSE a
<1> DEFINE m == IF a <= b THEN b ELSE a
<1>1. m \in {a, b} /\ \A y \in {a, b} : m >= y
  OBVIOUS
<1>2. \A x \in {a, b} : (\A y \in {a, b} : x >= y) => x = m
  OBVIOUS
<1> QED
  BY <1>1, <1>2 DEF Max

LEMMA MaxOfOne ==
  ASSUME NEW a \in Int
  PROVE  Max({a}) = a /\ Min({a}) = a
  BY DEF Max, Min

LEMMA MinOfTwo ==
  ASSUME NEW a \in Int, NEW b \in Int
  PROVE  Min({a, b}) = IF a <= b THEN a ELSE b
<1> DEFINE m == IF a <= b THEN a ELSE b
<1>1. m \in {a, b} /\ \A y \in {a, b} : m <= y
  OBVIOUS
<1>2. \A x \in {a, b} : (\A y \in {a, b} : x <= y) => x = m
  OBVIOUS
<1> QED
  BY <1>1, <1>2 DEF Min

-----------------------------------------------------------------------------
(* The schedule. *)

\* A row as the program leaves it: no slot is started before its time, times and
\* days are named if they are used, and there is a slot to count the hours from.
Settings ==
  [enabled: BOOLEAN, onTimes: BOOLEAN, times: SUBSET (0..DayTicks-1), days: SUBSET (0..CycleDays-1),
   every: 0..DayTicks-1, start: 0..DayTicks-1, attempted: Nat, lastEvery: Nat]

RowOK(r, t) ==
  /\ r \in Settings /\ r.attempted <= t
  /\ r.times # {}
  /\ r.enabled => (r.onTimes \/ r.every # 0) /\ (r.onTimes => r.days # {}) /\ (r.every # 0 => r.lastEvery # 0)

\* A moment is in its day, and the moments of a day share its start and number.
LEMMA Days ==
  ASSUME NEW t \in Nat
  PROVE  /\ DayStart(t) \in Nat /\ DayStart(t) <= t /\ t < DayStart(t) + DayTicks
         /\ t \div DayTicks \in Nat
         /\ DayTicks <= t => DayTicks <= DayStart(t)
         /\ \A u \in Nat : DayStart(t) <= u /\ u < DayStart(t) + DayTicks => u \div DayTicks = t \div DayTicks
         /\ \A u \in Nat : t <= u => DayStart(t) <= DayStart(u)
<1> USE ScheduleConstants
<1> DEFINE D == DayTicks  q == t \div D
<1>0. D \in Nat \ {0}
  OBVIOUS
<1>1. q \in Int /\ q * D <= t /\ t < q * D + D
  BY <1>0, Division
<1>2. q \in Nat
  BY <1>0, Division
<1>3. q * D \in Nat
  BY <1>0, <1>2
<1>4. ASSUME D <= t
      PROVE  D <= q * D
  <2>1. D \div D = 1
    BY <1>0, Quotient
  <2>2. 1 <= q
    BY <1>0, <1>4, <2>1, QuotientGrows
  <2> QED
    BY <1>0, <1>2, <2>2, ProductGrows
<1>5. ASSUME NEW u \in Nat, DayStart(t) <= u, u < DayStart(t) + D
      PROVE  u \div D = q
  <2>1. q * D <= u /\ u < q * D + D
    BY <1>5 DEF DayStart
  <2> QED
    BY <1>0, <1>2, <2>1, Quotient
<1>6. ASSUME NEW u \in Nat, t <= u
      PROVE  DayStart(t) <= DayStart(u)
  <2>1. u \div D \in Int /\ q <= u \div D
    BY <1>0, <1>6, QuotientGrows, Division
  <2> QED
    BY <1>0, <1>2, <2>1, ProductGrows DEF DayStart
<1> QED
  BY <1>1, <1>2, <1>3, <1>4, <1>5, <1>6 DEF DayStart

\* A slot is a moment of its day; that day has the same slots.
LEMMA Slots ==
  ASSUME NEW r, r.times \in SUBSET (0..DayTicks-1), NEW t \in Nat, NEW s \in SlotsOf(r, t)
  PROVE  /\ s \in Nat /\ DayStart(t) <= s /\ s < DayStart(t) + DayTicks
         /\ s \div DayTicks = t \div DayTicks /\ DayStart(s) = DayStart(t)
         /\ SlotsOf(r, s) = SlotsOf(r, t) /\ RunsOn(r, s) = RunsOn(r, t)
<1> USE ScheduleConstants
<1>1. PICK time \in r.times : s = DayStart(t) + time
  BY DEF SlotsOf
<1>2. s \in Nat /\ DayStart(t) <= s /\ s < DayStart(t) + DayTicks
  <2>1. time \in 0..DayTicks-1
    BY <1>1
  <2>2. DayStart(t) \in Nat
    BY Days
  <2> QED
    BY <1>1, <2>1, <2>2
<1>3. s \div DayTicks = t \div DayTicks
  <2>1. \A u \in Nat : DayStart(t) <= u /\ u < DayStart(t) + DayTicks => u \div DayTicks = t \div DayTicks
    BY Days
  <2> QED
    BY <1>2, <2>1
<1> QED
  BY <1>2, <1>3 DEF DayStart, SlotsOf, RunsOn

\* due_slot finds the latest slot of the day that has come and was not started.
LEMMA ClockDueFinds ==
  ASSUME NEW r \in Settings, NEW t \in Nat
  PROVE  /\ ClockDue(r, t) \in 0..t
         /\ ClockDue(r, t) # 0 =>
              /\ r.enabled /\ r.onTimes /\ RunsOn(r, t)
              /\ ClockDue(r, t) \in SlotsOf(r, t) /\ r.attempted < ClockDue(r, t)
         /\ \A s \in SlotsOf(r, t) :
              r.enabled /\ r.onTimes /\ RunsOn(r, t) /\ r.attempted < s /\ s <= t
                => ClockDue(r, t) # 0 /\ s <= ClockDue(r, t)
<1> DEFINE due == {s \in SlotsOf(r, t) : r.attempted < s /\ s <= t}
<1>1. r.times \in SUBSET (0..DayTicks-1) /\ r.attempted \in Nat
  BY DEF Settings
<1>2. due \in SUBSET (0..t)
  BY <1>1, Slots
<1>3. due # {} => Max(due) \in due /\ \A y \in due : y <= Max(due)
  BY <1>2, MaxOfNat
<1>4. due # {} => Max(due) # 0 /\ Max(due) \in 0..t
  BY <1>1, <1>2, <1>3
<1>5. ClockDue(r, t) = IF r.enabled /\ r.onTimes /\ RunsOn(r, t) /\ due # {} THEN Max(due) ELSE 0
  BY DEF ClockDue
<1> HIDE DEF due
<1>6. \A s \in SlotsOf(r, t) : r.attempted < s /\ s <= t => s \in due
  BY DEF due
<1>7. \A s \in due : s \in SlotsOf(r, t) /\ r.attempted < s
  BY DEF due
<1> QED
  BY <1>3, <1>4, <1>5, <1>6, <1>7

\* The latest slot of the every-few-hours schedule is the last one that was started,
\* or a step or more after it and less than a step ago.
LEMMA LatestEveryIs ==
  ASSUME NEW r \in Settings, r.every # 0, r.lastEvery # 0, NEW t \in Nat
  PROVE  /\ LatestEvery(r, t) \in Nat
         /\ t < r.lastEvery + r.every => LatestEvery(r, t) = r.lastEvery
         /\ r.lastEvery + r.every <= t =>
              /\ r.lastEvery + r.every <= LatestEvery(r, t) /\ LatestEvery(r, t) <= t
              /\ t < LatestEvery(r, t) + r.every
<1> DEFINE e == r.every  l == r.lastEvery  gap == t - l  k == gap \div e
<1>1. e \in Nat \ {0} /\ l \in Nat /\ gap \in Int
  BY ScheduleConstants DEF Settings
<1>2. LatestEvery(r, t) = l + Max({0, k}) * e
  BY DEF LatestEvery
<1>3. gap = t - l
  OBVIOUS
<1> HIDE DEF e, l, gap
<1>4. k \in Int /\ k * e <= gap /\ gap < k * e + e
  BY <1>1, Division
<1>5. CASE gap < e
  <2>1. e \div e = 1 /\ 1 * e = e
    BY <1>1, Quotient
  <2>2. k <= 0
    BY <1>1, <1>4, <1>5, ProductGrows
  <2>3. Max({0, k}) = 0
    BY <1>4, <2>2, MaxOfTwo
  <2> QED
    BY <1>1, <1>2, <1>3, <1>5, <2>3 DEF e, l
<1>6. CASE e <= gap
  <2>1. 1 <= k
    BY <1>1, <1>4, <1>6, ProductGrows
  <2>2. Max({0, k}) = k
    BY <1>4, <2>1, MaxOfTwo
  <2>3. 1 * e <= k * e /\ k * e \in Int
    BY <1>1, <1>4, <2>1, ProductGrows
  <2> HIDE DEF k
  <2>4. l + k * e \in Nat /\ l + e <= l + k * e /\ l + k * e <= t /\ t < l + k * e + e
    BY <1>1, <1>3, <1>4, <2>3
  <2> QED
    BY <1>1, <1>2, <1>3, <1>6, <2>2, <2>4 DEF e, l
<1> QED
  BY <1>1, <1>5, <1>6

\* due_every_slot finds a slot exactly from a step after the last one on.
LEMMA EveryDueFinds ==
  ASSUME NEW r \in Settings, NEW t \in Nat, RowOK(r, t)
  PROVE  /\ EveryDue(r, t) \in 0..t
         /\ EveryDue(r, t) # 0 <=> r.enabled /\ r.every # 0 /\ r.lastEvery + r.every <= t
         /\ EveryDue(r, t) # 0 => r.lastEvery + r.every <= EveryDue(r, t)
<1>1. CASE ~(r.enabled /\ r.every # 0)
  BY <1>1 DEF EveryDue
<1>2. CASE r.enabled /\ r.every # 0
  <2>1. r.every \in Nat /\ r.lastEvery \in Nat /\ r.lastEvery # 0
    BY <1>2, ScheduleConstants DEF RowOK, Settings
  <2>2. /\ LatestEvery(r, t) \in Nat
        /\ t < r.lastEvery + r.every => LatestEvery(r, t) = r.lastEvery
        /\ r.lastEvery + r.every <= t =>
             r.lastEvery + r.every <= LatestEvery(r, t) /\ LatestEvery(r, t) <= t
    BY <1>2, <2>1, LatestEveryIs
  <2>3. EveryDue(r, t) = IF LatestEvery(r, t) > r.lastEvery THEN LatestEvery(r, t) ELSE 0
    BY <1>2 DEF EveryDue
  <2> QED
    BY <1>2, <2>1, <2>2, <2>3
<1> QED
  BY <1>1, <1>2

\* RowOK does not depend on how far the clock has come since.
LEMMA RowStaysOK ==
  ASSUME NEW r, NEW t \in Nat, NEW u \in Nat, t <= u, RowOK(r, t)
  PROVE  RowOK(r, u)
  BY DEF RowOK, Settings

\* _next_clock_run gives the first moment that is due by days and times.
LEMMA NextClockIs ==
  ASSUME NEW r \in Settings, NEW t \in Nat, RowOK(r, t), r.enabled, r.onTimes
  PROVE  \E n \in Nat : /\ NextClock(r, t) = {n} /\ t <= n /\ ClockDue(r, n) # 0
                        /\ \A u \in Nat : t <= u /\ u < n => ClockDue(r, u) = 0
<1> USE ScheduleConstants
<1> DEFINE D == DayTicks
           C == CycleDays
           ahead == UNION {SlotsOf(r, t + d * D) : d \in 0..SearchDays-1}
           open == {s \in ahead : RunsOn(r, s) /\ s > r.attempted}
<1>1. r.times \in SUBSET (0..D-1) /\ r.times # {} /\ r.attempted \in Nat /\ r.attempted <= t
      /\ r.days \in SUBSET (0..C-1) /\ r.days # {}
  BY DEF RowOK, Settings
<1>2. \A d \in Nat : t + d * D \in Nat /\ DayStart(t + d * D) = DayStart(t) + d * D /\ (t + d * D) \div D = t \div D + d
  <2> SUFFICES ASSUME NEW d \in Nat
               PROVE  t + d * D \in Nat /\ DayStart(t + d * D) = DayStart(t) + d * D /\ (t + d * D) \div D = t \div D + d
    OBVIOUS
  <2> DEFINE q == t \div D
  <2>1. q \in Nat /\ q * D <= t /\ t < q * D + D
    BY Division
  <2>2. q * D \in Nat /\ d * D \in Nat /\ (q + d) * D = q * D + d * D /\ t + d * D \in Nat
    BY <2>1
  <2>3. (q + d) * D <= t + d * D /\ t + d * D < (q + d) * D + D
    BY <2>1, <2>2
  <2>4. (t + d * D) \div D = q + d
    BY <2>1, <2>2, <2>3, Quotient
  <2> QED
    BY <2>2, <2>4 DEF DayStart
<1>3. \A s \in ahead : \E d \in 0..SearchDays-1 : s \in SlotsOf(r, t + d * D)
  OBVIOUS
<1>4. ASSUME NEW s \in ahead
      PROVE  s \in Nat /\ DayStart(t) <= s
  <2>1. PICK d \in 0..SearchDays-1 : s \in SlotsOf(r, t + d * D)
    BY <1>3
  <2>0. d \in Nat
    OBVIOUS
  <2>1a. d * D \in Nat
    BY <2>0
  <2>2. t + d * D \in Nat /\ DayStart(t + d * D) = DayStart(t) + d * D /\ d * D \in Nat
    BY <1>2, <2>0, <2>1a
  <2>3. s \in Nat /\ DayStart(t + d * D) <= s
    BY <1>1, <2>1, <2>2, Slots
  <2> QED
    BY <2>2, <2>3, Days
<1>5. open # {}
  <2>1. PICK x \in r.days, time \in r.times : TRUE
    BY <1>1
  <2> DEFINE q == t \div D
             m == q % C
             d == IF x > m THEN x - m ELSE x - m + C
             s == DayStart(t + d * D) + time
  <2>2. q \in Nat /\ m \in 0..C-1 /\ q = (q \div C) * C + m /\ q \div C \in Nat
    <3>1. q \in Nat
      BY Days
    <3>2. q \div C \in Nat /\ (q \div C) * C <= q /\ q < (q \div C) * C + C
      BY <3>1, Division
    <3>3. q % C = q - (q \div C) * C
      BY <3>1, <3>2, Quotient
    <3> DEFINE p == (q \div C) * C
    <3>4. p \in Nat /\ p <= q /\ q < p + C /\ m = q - p /\ C \in Nat
      BY <3>2, <3>3
    <3> HIDE DEF p, q, m
    <3>5. m \in 0..C-1 /\ q = p + m
      BY <3>1, <3>4
    <3> QED
      BY <3>1, <3>2, <3>5 DEF p
  <2>3. x \in 0..C-1 /\ time \in 0..D-1
    BY <1>1, <2>1
  <2>4. d \in 1..C
    BY <2>2, <2>3
  <2>5. (q + d) % C = x
    <3> DEFINE w == q \div C
    <3>1. w \in Nat /\ w * C \in Nat /\ (w + 1) * C = w * C + C
      BY <2>2
    <3>2. q + d = w * C + x \/ q + d = (w + 1) * C + x
      BY <2>2, <2>3, <3>1
    <3> DEFINE z == q + d
    <3>3. z \in Nat
      BY <2>2, <2>4
    <3>4. z = w * C + x \/ z = (w + 1) * C + x
      BY <3>2
    <3> HIDE DEF z, w
    <3>5. ASSUME z = w * C + x PROVE z % C = x
      BY <2>3, <3>1, <3>3, <3>5, Quotient
    <3>6. ASSUME z = (w + 1) * C + x PROVE z % C = x
      BY <2>3, <3>1, <3>3, <3>6, Quotient
    <3>7. z % C = x
      BY <3>4, <3>5, <3>6
    <3> QED
      BY <3>7 DEF z
  <2>6. d \in Nat /\ d \in 0..SearchDays-1
    BY <2>4
  <2>7. t + d * D \in Nat /\ DayStart(t + d * D) = DayStart(t) + d * D /\ (t + d * D) \div D = q + d
    BY <1>2, <2>6
  <2>8. s \in SlotsOf(r, t + d * D)
    BY <2>1 DEF SlotsOf
  <2> HIDE DEF s, d
  <2>9. s \in Nat /\ DayStart(t + d * D) <= s /\ s \div D = (t + d * D) \div D
    BY <1>1, <2>7, <2>8, Slots
  <2>10. RunsOn(r, s)
    BY <2>1, <2>5, <2>7, <2>9 DEF RunsOn
  <2>11. t < s
    <3>1. DayStart(t) \in Nat /\ t < DayStart(t) + D
      BY Days
    <3>2. 1 * D <= d * D
      BY <2>4, <2>6, ProductGrows
    <3>3. d * D \in Nat
      BY <2>6
    <3> QED
      BY <2>7, <2>9, <3>1, <3>2, <3>3
  <2>12. s \in ahead
    BY <2>6, <2>8
  <2>13. s > r.attempted
    BY <1>1, <2>9, <2>11
  <2> QED
    BY <2>10, <2>12, <2>13
<1>6. open \in SUBSET Nat
  BY <1>4
<1> DEFINE first == Min(open)
           n == IF first <= t THEN t ELSE first
<1>7. first \in open /\ \A s \in open : first <= s
  BY <1>5, <1>6, MinOfNat
<1>8. first \in Nat /\ DayStart(t) <= first /\ RunsOn(r, first) /\ first > r.attempted /\ first \in ahead
  BY <1>4, <1>7
<1>9. NextClock(r, t) = {n}
  <2>1. NextClock(r, t) = IF open = {} THEN {} ELSE {Max({first, t})}
    BY DEF NextClock
  <2> HIDE DEF first, open
  <2>2. Max({first, t}) = n
    BY <1>8, MaxOfTwo
  <2> QED
    BY <1>5, <2>1, <2>2
<1>10. first \in SlotsOf(r, first)
  <2>1. PICK d \in 0..SearchDays-1 : first \in SlotsOf(r, t + d * D)
    BY <1>3, <1>8
  <2>1a. d \in Nat
    BY <2>1
  <2>2. t + d * D \in Nat
    BY <1>2, <2>1a
  <2>3. SlotsOf(r, first) = SlotsOf(r, t + d * D)
    BY <1>1, <2>1, <2>2, Slots
  <2> QED
    BY <2>1, <2>3
<1> HIDE DEF first, open, ahead
<1>11. n \in Nat /\ t <= n
  BY <1>8
<1>12. ClockDue(r, n) # 0
  <2>1. CASE first <= t
    <3>1. DayStart(first) = DayStart(t) /\ first \div D = t \div D
      <4>1. first < DayStart(t) + D
        BY <1>8, <2>1, Days
      <4>2. first \div D = t \div D
        BY <1>8, <4>1, Days
      <4> QED
        BY <4>2 DEF DayStart
    <3>2. first \in SlotsOf(r, t) /\ RunsOn(r, t)
      BY <1>8, <1>10, <3>1 DEF SlotsOf, RunsOn
    <3> QED
      BY <1>8, <2>1, <3>2, ClockDueFinds
  <2>2. CASE first > t
    BY <1>8, <1>10, <2>2, ClockDueFinds
  <2> QED
    BY <1>8, <2>1, <2>2
<1>13. ASSUME NEW u \in Nat, t <= u, u < n, ClockDue(r, u) # 0
       PROVE  FALSE
  <2> DEFINE s == ClockDue(r, u)
  <2>1. s \in 0..u /\ RunsOn(r, u) /\ s \in SlotsOf(r, u) /\ r.attempted < s
    BY <1>13, ClockDueFinds
  <2>2. first > t /\ u < first
    BY <1>8, <1>13
  <2>3. PICK d \in 0..SearchDays-1 : first \in SlotsOf(r, t + d * D)
    BY <1>3, <1>8
  <2>0. d \in Nat
    OBVIOUS
  <2>4. t + d * D \in Nat /\ DayStart(t + d * D) = DayStart(t) + d * D /\ (t + d * D) \div D = t \div D + d
    BY <1>2, <2>0
  <2>5. first \div D = t \div D + d
    BY <1>1, <2>3, <2>4, Slots
  <2> DEFINE e == u \div D - t \div D
  <2>6. u \div D \in Nat /\ t \div D \in Nat /\ t \div D <= u \div D /\ u \div D <= first \div D
    <3>1. u \div D \in Nat /\ t \div D \in Nat
      BY Days
    <3>2. t \div D <= u \div D
      BY <1>13, QuotientGrows
    <3>3. u \div D <= first \div D
      BY <1>8, <2>2, QuotientGrows
    <3> QED
      BY <3>1, <3>2, <3>3
  <2>7. e \in 0..SearchDays-1 /\ t \div D + e = u \div D
    BY <2>5, <2>6
  <2>8. DayStart(t + e * D) = DayStart(u)
    BY <1>2, <2>7 DEF DayStart
  <2>9. s \in SlotsOf(r, t + e * D)
    BY <2>1, <2>8 DEF SlotsOf
  <2>10. s \in ahead
    BY <2>7, <2>9 DEF ahead
  <2>11. RunsOn(r, s)
    BY <1>1, <2>1, Slots
  <2>12. s \in open
    BY <2>1, <2>10, <2>11 DEF open
  <2> QED
    BY <1>7, <1>8, <1>13, <2>1, <2>2, <2>12
<1> QED
  BY <1>9, <1>11, <1>12, <1>13

\* _next_every_run gives the first moment that is due by hours.
LEMMA NextEveryIs ==
  ASSUME NEW r \in Settings, NEW t \in Nat, RowOK(r, t), r.enabled, r.every # 0
  PROVE  \E n \in Nat : /\ NextEvery(r, t) = {n} /\ t <= n /\ EveryDue(r, n) # 0
                        /\ \A u \in Nat : t <= u /\ u < n => EveryDue(r, u) = 0
<1>1. r.every \in Nat /\ r.lastEvery \in Nat /\ r.lastEvery # 0
  BY ScheduleConstants DEF RowOK, Settings
<1> DEFINE latest == LatestEvery(r, t)
           n == IF r.lastEvery + r.every <= t THEN t ELSE r.lastEvery + r.every
<1>2. /\ latest \in Nat
      /\ t < r.lastEvery + r.every => latest = r.lastEvery
      /\ r.lastEvery + r.every <= t => r.lastEvery + r.every <= latest /\ latest <= t
  BY <1>1, LatestEveryIs
<1>3. NextEvery(r, t) = {n}
  <2>1. NextEvery(r, t) = IF latest > r.lastEvery THEN {Max({latest, t})} ELSE {Max({latest + r.every, t})}
    BY DEF NextEvery
  <2> HIDE DEF latest
  <2>2. Max({latest, t}) = (IF latest <= t THEN t ELSE latest)
        /\ Max({latest + r.every, t}) = IF latest + r.every <= t THEN t ELSE latest + r.every
    BY <1>1, <1>2, MaxOfTwo
  <2> QED
    BY <1>1, <1>2, <2>1, <2>2
<1>4. n \in Nat /\ t <= n
  BY <1>1
<1>5. RowOK(r, n) /\ EveryDue(r, n) # 0
  BY <1>1, <1>4, RowStaysOK, EveryDueFinds
<1>6. \A u \in Nat : t <= u /\ u < n => EveryDue(r, u) = 0
  BY <1>1, <1>4, RowStaysOK, EveryDueFinds
<1> QED
  BY <1>3, <1>4, <1>5, <1>6

\* What next_run promises: it is due then, and not before.
LEMMA NextRunIs ==
  ASSUME NEW r \in Settings, NEW t \in Nat, RowOK(r, t), r.enabled
  PROVE  /\ NextRun(r, t) \in Nat /\ t <= NextRun(r, t) /\ Due(r, NextRun(r, t))
         /\ \A u \in Nat : t <= u /\ u < NextRun(r, t) => ~Due(r, u)
<1>0. r.onTimes \in BOOLEAN /\ (r.onTimes \/ r.every # 0)
  BY DEF RowOK, Settings
<1>1. ~r.onTimes => \A u \in Nat : ClockDue(r, u) = 0
  BY DEF ClockDue
<1>2. r.every = 0 => NextEvery(r, t) = {} /\ \A u \in Nat : EveryDue(r, u) = 0
  BY DEF NextEvery, EveryDue
<1> DEFINE upcoming == (IF r.onTimes THEN NextClock(r, t) ELSE {}) \cup NextEvery(r, t)
<1>3. NextRun(r, t) = IF upcoming # {} THEN Min(upcoming) ELSE 0
  BY DEF NextRun
<1>4. CASE r.onTimes /\ r.every = 0
  <2>1. PICK n \in Nat : /\ NextClock(r, t) = {n} /\ t <= n /\ ClockDue(r, n) # 0
                         /\ \A u \in Nat : t <= u /\ u < n => ClockDue(r, u) = 0
    BY <1>4, NextClockIs
  <2>2. NextRun(r, t) = n
    <3>1. upcoming = {n}
      BY <1>2, <1>4, <2>1
    <3> QED
      BY <1>3, <3>1, MaxOfOne
  <2> QED
    BY <1>2, <1>4, <2>1, <2>2 DEF Due
<1>5. CASE ~r.onTimes
  <2>1. PICK n \in Nat : /\ NextEvery(r, t) = {n} /\ t <= n /\ EveryDue(r, n) # 0
                         /\ \A u \in Nat : t <= u /\ u < n => EveryDue(r, u) = 0
    BY <1>0, <1>5, NextEveryIs
  <2>2. NextRun(r, t) = n
    <3>1. upcoming = {n}
      BY <1>5, <2>1
    <3> QED
      BY <1>3, <3>1, MaxOfOne
  <2> QED
    BY <1>1, <1>5, <2>1, <2>2 DEF Due
<1>6. CASE r.onTimes /\ r.every # 0
  <2>1. PICK n \in Nat : /\ NextClock(r, t) = {n} /\ t <= n /\ ClockDue(r, n) # 0
                         /\ \A u \in Nat : t <= u /\ u < n => ClockDue(r, u) = 0
    BY <1>6, NextClockIs
  <2>2. PICK m \in Nat : /\ NextEvery(r, t) = {m} /\ t <= m /\ EveryDue(r, m) # 0
                         /\ \A u \in Nat : t <= u /\ u < m => EveryDue(r, u) = 0
    BY <1>6, NextEveryIs
  <2>3. NextRun(r, t) = IF n <= m THEN n ELSE m
    <3>1. upcoming = {n, m}
      BY <1>6, <2>1, <2>2
    <3> QED
      BY <1>3, <3>1, MinOfTwo
  <2> QED
    BY <2>1, <2>2, <2>3 DEF Due
<1> QED
  BY <1>0, <1>4, <1>5, <1>6

-----------------------------------------------------------------------------
(* What a save writes. *)

\* The last of today's times that has come is at least every slot that has come.
LEMMA PassedSlotIs ==
  ASSUME NEW f \in Form, NEW t \in Nat
  PROVE  /\ PassedSlot(f, t) \in 0..t
         /\ \A s \in SlotsOf(f, t) : s <= t => s <= PassedSlot(f, t)
<1> DEFINE passed == {s \in SlotsOf(f, t) : s <= t}
<1>1. f.times \in SUBSET (0..DayTicks-1)
  BY DEF Form
<1>2. passed \in SUBSET (0..t)
  BY <1>1, Slots
<1>3. passed # {} => Max(passed) \in passed /\ \A y \in passed : y <= Max(passed)
  BY <1>2, MaxOfNat
<1>4. PassedSlot(f, t) = IF passed = {} THEN 0 ELSE Max(passed)
  BY DEF PassedSlot
<1>5. \A s \in SlotsOf(f, t) : s <= t => s \in passed
  OBVIOUS
<1> HIDE DEF passed
<1>6. PassedSlot(f, t) \in 0..t
  <2>1. CASE passed = {}
    BY <1>4, <2>1
  <2>2. CASE passed # {}
    <3>1. Max(passed) \in 0..t
      BY <1>2, <1>3, <2>2
    <3> QED
      BY <1>4, <2>2, <3>1
  <2> QED
    BY <2>1, <2>2
<1>7. \A s \in SlotsOf(f, t) : s <= t => s <= PassedSlot(f, t)
  BY <1>3, <1>4, <1>5
<1> QED
  BY <1>6, <1>7

\* The step after the anchor is to come, and a whole number of steps from today's start
\* time; the step before it, unless it is that start time, has come.
LEMMA AnchorIs ==
  ASSUME NEW f \in Form, f.every # 0, NEW t \in Nat, DayTicks <= t
  PROVE  /\ Anchor(f.start, f.every, t) \in Nat /\ Anchor(f.start, f.every, t) # 0
         /\ t < Anchor(f.start, f.every, t) + f.every
         /\ \E k \in 0..DayTicks : /\ Anchor(f.start, f.every, t) + f.every = DayStart(t) + f.start + k * f.every
                                   /\ k = 0 \/ Anchor(f.start, f.every, t) <= t
<1> USE ScheduleConstants
<1> DEFINE e == f.every  first == DayStart(t) + f.start  gap == t - first  k == gap \div e
<1>1. e \in Nat \ {0} /\ e < DayTicks /\ f.start \in 0..DayTicks-1
  BY DEF Form
<1>2. DayStart(t) \in Nat /\ DayTicks <= DayStart(t) /\ DayStart(t) <= t /\ t < DayStart(t) + DayTicks
  BY Days
<1>3. first \in Nat /\ DayTicks <= first /\ first < DayStart(t) + DayTicks
  BY <1>1, <1>2
<1>4. Anchor(f.start, f.every, t) = IF first > t THEN first - e ELSE first + k * e
  BY DEF Anchor
<1>5. CASE first > t
  <2>1. Anchor(f.start, f.every, t) = first - e /\ first - e + e = first
    BY <1>1, <1>3, <1>4, <1>5
  <2>2. first = DayStart(t) + f.start + 0 * e /\ 0 \in 0..DayTicks
    BY <1>1, <1>2
  <2> QED
    BY <1>1, <1>3, <1>5, <2>1, <2>2
<1>6. CASE first <= t
  <2>1. gap \in Nat
    BY <1>3, <1>6
  <2>2. gap = t - first /\ gap < DayTicks
    BY <1>1, <1>2, <1>3
  <2>3. Anchor(f.start, f.every, t) = first + k * e
    BY <1>3, <1>4, <1>6
  <2>4. first = DayStart(t) + f.start /\ e = f.every
    OBVIOUS
  <2>5. e \in Nat \ {0}
    BY <1>1
  <2> HIDE DEF e, first, gap
  <2>6. k \in Nat /\ k * e <= gap /\ gap < k * e + e
    BY <2>1, <2>5, Division
  <2> HIDE DEF k
  <2>7. k <= k * e /\ k * e \in Nat /\ (k + 1) * e = k * e + e
    BY <2>5, <2>6
  <2>8. k + 1 \in 0..DayTicks
    <3> DEFINE p == k * e
    <3>1. p \in Nat /\ k <= p /\ p <= gap
      BY <2>6, <2>7
    <3> HIDE DEF p
    <3> QED
      BY <2>1, <2>2, <2>6, <3>1
  <2>9. /\ first + k * e \in Nat /\ first + k * e # 0 /\ first + k * e <= t
        /\ t < first + k * e + e /\ first + k * e + e = first + (k + 1) * e
    <3> DEFINE p == k * e
    <3>1. p \in Nat /\ p <= gap /\ gap < p + e /\ (k + 1) * e = p + e
      BY <2>6, <2>7
    <3> HIDE DEF p
    <3>2. /\ first + p \in Nat /\ first + p # 0 /\ first + p <= t
          /\ t < first + p + e /\ first + p + e = first + (k + 1) * e
      BY <1>3, <2>1, <2>2, <2>5, <3>1
    <3> QED
      BY <3>2 DEF p
  <2> QED
    BY <2>3, <2>4, <2>8, <2>9
<1> QED
  BY <1>3, <1>2, <1>5, <1>6

-----------------------------------------------------------------------------
(* The settings page tells the truth. *)

\* What a save under way may have in mind.
SaveOK ==
  /\ save.on \in BOOLEAN
  /\ save.on =>
       /\ save.form \in Forms /\ save.at \in DayTicks..now
       /\ save.loaded.attempted \in 0..row.attempted
       /\ save.loaded.lastEvery \in 0..row.lastEvery

StateOK ==
  /\ now \in DayTicks..(LastTick + 2 * DayTicks)
  /\ RowOK(row, now)
  /\ SaveOK
  /\ sched \in [on: BOOLEAN, clock: Nat, every: Nat]
  /\ done \in [at: 0..now, clock: 0..now, every: 0..now]

\* What is saved is a form that the program accepts.
LEMMA FormsAreAccepted ==
  ASSUME NEW f \in Forms
  PROVE  f \in Form /\ Accepted(f)
  BY ScheduleConstants

LEMMA NowIsNat ==
  ASSUME StateOK
  PROVE  now \in Nat /\ DayTicks <= now
  BY ScheduleConstants DEF StateOK

LEMMA InitOK ==
  Init => StateOK
<1> USE ScheduleConstants
<1> SUFFICES ASSUME Init
             PROVE  StateOK
  OBVIOUS
<1>1. Default \in Form /\ ~Default.enabled
  OBVIOUS
<1>2. now \in DayTicks..(LastTick + 2 * DayTicks) /\ now \in Nat
  BY DEF Init
<1>3. RowOK(row, now)
  <2>1. row \in Settings /\ row.attempted = 0 /\ ~row.enabled /\ row.times = Default.times
    BY <1>1 DEF Init, Settings, Form
  <2>2. Default.times # {}
    BY <1>1 DEF Form
  <2> QED
    BY <1>2, <2>1, <2>2 DEF RowOK
<1>4. SaveOK
  BY DEF Init, SaveOK, NotSaving
<1>5. sched \in [on: BOOLEAN, clock: Nat, every: Nat] /\ done \in [at: 0..now, clock: 0..now, every: 0..now]
  BY <1>2 DEF Init, Idle
<1> QED
  BY <1>2, <1>3, <1>4, <1>5 DEF StateOK

\* What the scheduler marks are slots that have come.
LEMMA DueIsPast ==
  ASSUME StateOK
  PROVE  ClockDue(row, now) \in 0..now /\ EveryDue(row, now) \in 0..now
  BY NowIsNat, ClockDueFinds, EveryDueFinds DEF StateOK, RowOK

\* A mark only goes up.
LEMMA MarksGrow ==
  ASSUME StateOK
  PROVE  /\ ClockDue(row, now) # 0 => row.attempted < ClockDue(row, now)
         /\ EveryDue(row, now) # 0 => row.lastEvery <= EveryDue(row, now)
<1>1. now \in Nat /\ RowOK(row, now) /\ row \in Settings
  BY NowIsNat DEF StateOK, RowOK
<1>2. ClockDue(row, now) # 0 => row.attempted < ClockDue(row, now)
  BY <1>1, ClockDueFinds
<1>3. ASSUME EveryDue(row, now) # 0
      PROVE  row.lastEvery <= EveryDue(row, now)
  <2>1. row.lastEvery + row.every <= EveryDue(row, now) /\ EveryDue(row, now) \in 0..now
    BY <1>1, <1>3, EveryDueFinds
  <2>2. row.lastEvery \in Nat /\ row.every \in Nat
    BY <1>1, ScheduleConstants DEF Settings
  <2> QED
    BY <1>1, <2>1, <2>2
<1> QED
  BY <1>2, <1>3

\* What is stored is the new value or a later one that is there.
LEMMA StoredIs ==
  ASSUME NEW n \in Nat, NEW l \in Nat, NEW c \in Nat, l <= c
  PROVE  /\ Stored(n, l, c) \in {n, c} /\ n <= Stored(n, l, c)
         /\ c = l /\ n # 0 => Stored(n, l, c) = n
  BY DEF Stored

\* A commit stores the form, and counts as started at least what had come at the time
\* that the save took.
LEMMA CommitStores ==
  ASSUME StateOK, SaveCommit
  PROVE  /\ save.form \in Form /\ Accepted(save.form) /\ save.at \in DayTicks..now /\ save.at \in Nat
         /\ row'.enabled = save.form.enabled /\ row'.onTimes = save.form.onTimes
         /\ row'.times = save.form.times /\ row'.days = save.form.days
         /\ row'.every = save.form.every /\ row'.start = save.form.start
         /\ row' \in Settings /\ row'.attempted <= now
         /\ row'.enabled => PassedSlot(save.form, save.at) <= row'.attempted
         /\ row'.enabled /\ row'.every # 0 =>
              /\ Anchor(row'.start, row'.every, save.at) <= row'.lastEvery
              /\ row.lastEvery = save.loaded.lastEvery => row'.lastEvery = Anchor(row'.start, row'.every, save.at)
<1> USE ScheduleConstants
<1> DEFINE f == save.form
           passed == IF f.enabled THEN PassedSlot(f, save.at) ELSE 0
           anchor == IF f.enabled /\ f.every # 0 THEN Anchor(f.start, f.every, save.at) ELSE 0
           a == Stored(passed, save.loaded.attempted, row.attempted)
           l == Stored(anchor, save.loaded.lastEvery, row.lastEvery)
<1>1. row' = [enabled |-> f.enabled, onTimes |-> f.onTimes, times |-> f.times, days |-> f.days,
              every |-> f.every, start |-> f.start, attempted |-> a, lastEvery |-> l]
  BY DEF SaveCommit
<1>2. /\ now \in Nat /\ row.attempted \in Nat /\ row.attempted <= now /\ row.lastEvery \in Nat
      /\ f \in Forms /\ save.at \in DayTicks..now
      /\ save.loaded.attempted \in 0..row.attempted /\ save.loaded.lastEvery \in 0..row.lastEvery
  BY NowIsNat DEF StateOK, SaveOK, RowOK, Settings, SaveCommit
<1>3. f \in Form /\ Accepted(f) /\ save.at \in Nat /\ DayTicks <= save.at
  BY <1>2, FormsAreAccepted
<1>4. passed \in 0..save.at
  BY <1>3, PassedSlotIs
<1>5. anchor \in Nat /\ (f.enabled /\ f.every # 0 => anchor # 0 /\ anchor = Anchor(f.start, f.every, save.at))
  BY <1>3, AnchorIs
<1>6. f.enabled \in BOOLEAN /\ f.onTimes \in BOOLEAN /\ f.times \in SUBSET (0..DayTicks-1)
      /\ f.days \in SUBSET (0..CycleDays-1) /\ f.every \in 0..DayTicks-1 /\ f.start \in 0..DayTicks-1
  BY <1>3 DEF Form
<1> HIDE DEF passed, anchor
<1>7. a \in {passed, row.attempted} /\ passed <= a
  BY <1>2, <1>4, StoredIs
<1>8. /\ l \in {anchor, row.lastEvery} /\ anchor <= l
      /\ row.lastEvery = save.loaded.lastEvery /\ anchor # 0 => l = anchor
  BY <1>2, <1>5, StoredIs
<1> HIDE DEF a, l, f
<1>9. a \in 0..now /\ l \in Nat
  BY <1>2, <1>4, <1>5, <1>7, <1>8
<1>10. row' \in Settings /\ row'.attempted <= now
  BY <1>1, <1>2, <1>6, <1>9 DEF Settings
<1>11. row'.enabled => PassedSlot(f, save.at) <= row'.attempted
  BY <1>1, <1>7 DEF passed
<1>12. row'.enabled /\ row'.every # 0 =>
         /\ Anchor(row'.start, row'.every, save.at) <= row'.lastEvery
         /\ row.lastEvery = save.loaded.lastEvery => row'.lastEvery = Anchor(row'.start, row'.every, save.at)
  BY <1>1, <1>5, <1>8
<1> QED
  BY <1>1, <1>2, <1>3, <1>10, <1>11, <1>12 DEF f

LEMMA NextOK ==
  StateOK /\ [Next]_vars => StateOK'
<1> USE ScheduleConstants
<1> SUFFICES ASSUME StateOK, [Next]_vars
             PROVE  StateOK'
  OBVIOUS
<1>0. now \in Nat /\ DayTicks <= now /\ RowOK(row, now) /\ SaveOK
  BY NowIsNat DEF StateOK
<1>1. ASSUME NEW f \in Forms, SaveBegin(f)
      PROVE  StateOK'
  <2>1. row.attempted \in Nat /\ row.lastEvery \in Nat
    BY <1>0 DEF RowOK, Settings
  <2>2. save'.on = TRUE /\ save'.form = f /\ save'.at = now
        /\ save'.loaded.attempted = row.attempted /\ save'.loaded.lastEvery = row.lastEvery
        /\ now' = now /\ row' = row
    BY <1>1 DEF SaveBegin
  <2>3. SaveOK'
    <3>1. save'.form \in Forms
      BY <2>2
    <3>2. save'.at \in DayTicks..now' /\ save'.loaded.attempted \in 0..row'.attempted
          /\ save'.loaded.lastEvery \in 0..row'.lastEvery
      BY <1>0, <2>1, <2>2
    <3> QED
      BY <2>2, <3>1, <3>2 DEF SaveOK
  <2> QED
    BY <1>1, <2>3 DEF StateOK, SaveBegin
<1>2. ASSUME SaveCommit
      PROVE  StateOK'
  <2>1. /\ row' \in Settings /\ row'.attempted <= now /\ row'.times # {}
        /\ row'.enabled => (row'.onTimes \/ row'.every # 0) /\ (row'.onTimes => row'.days # {})
    BY <1>2, CommitStores DEF Accepted, Form
  <2>2. row'.enabled /\ row'.every # 0 => row'.lastEvery # 0
    <3> SUFFICES ASSUME row'.enabled, row'.every # 0
                 PROVE  row'.lastEvery # 0
      OBVIOUS
    <3> DEFINE anchor == Anchor(row'.start, row'.every, save.at)
    <3>1. save.form \in Form /\ save.at \in Nat /\ DayTicks <= save.at /\ anchor <= row'.lastEvery
          /\ row'.start = save.form.start /\ row'.every = save.form.every
      BY <1>2, CommitStores
    <3>2. anchor \in Nat /\ anchor # 0
      BY <3>1, AnchorIs
    <3> HIDE DEF anchor
    <3> QED
      BY <3>1, <3>2
  <2>3. RowOK(row', now)
    BY <2>1, <2>2 DEF RowOK
  <2>4. now' = now /\ sched' = sched /\ save' = NotSaving
        /\ done' = [at |-> Min({done.at, save.at}), clock |-> Min({done.clock, save.at}), every |-> Min({done.every, save.at})]
    BY <1>2 DEF SaveCommit
  <2>5. SaveOK'
    BY <2>4 DEF SaveOK, NotSaving
  <2>6. done' \in [at: 0..now, clock: 0..now, every: 0..now]
    <3>1. save.at \in Nat /\ done.at \in 0..now /\ done.clock \in 0..now /\ done.every \in 0..now
      BY <1>2, CommitStores DEF StateOK
    <3>2. \A d \in 0..now : Min({d, save.at}) \in 0..now
      BY <1>0, <3>1, MinOfTwo
    <3> QED
      BY <2>4, <3>1, <3>2
  <2> QED
    BY <2>3, <2>4, <2>5, <2>6 DEF StateOK
<1>3. ASSUME EnqueueMark
      PROVE  StateOK'
  <2>1. ClockDue(row, now) \in 0..now /\ EveryDue(row, now) \in 0..now
    BY DueIsPast
  <2>2. row \in Settings
    BY <1>0 DEF RowOK
  <2> DEFINE c == ClockDue(row, now)  e == EveryDue(row, now)
  <2>3. row' = [row EXCEPT !.attempted = IF c # 0 THEN c ELSE @, !.lastEvery = IF e # 0 THEN e ELSE @]
    BY <1>3 DEF EnqueueMark
  <2>4. sched' = [on |-> TRUE, clock |-> c, every |-> e]
        /\ done' = [at |-> now, clock |-> Max({done.clock, c}), every |-> Max({done.every, e})]
    BY <1>3 DEF EnqueueMark
  <2>5. c \in 0..now /\ e \in 0..now
    BY <2>1
  <2> HIDE DEF c, e
  <2>6. RowOK(row', now) /\ (row.lastEvery # 0 => row'.lastEvery # 0)
    <3>1. row' \in Settings
      <4>1. row.attempted \in Nat /\ row.lastEvery \in Nat /\ c \in Nat /\ e \in Nat
        BY <1>0, <2>2, <2>5 DEF Settings
      <4>2. (IF c # 0 THEN c ELSE row.attempted) \in Nat /\ (IF e # 0 THEN e ELSE row.lastEvery) \in Nat
        BY <4>1
      <4> QED
        BY <2>2, <2>3, <4>2 DEF Settings
    <3>2. row'.attempted <= now
      BY <1>0, <2>2, <2>3, <2>5 DEF RowOK, Settings
    <3>3. row.lastEvery # 0 => row'.lastEvery # 0
      BY <2>2, <2>3, <2>5 DEF Settings
    <3>4. row'.enabled = row.enabled /\ row'.onTimes = row.onTimes /\ row'.times = row.times
          /\ row'.days = row.days /\ row'.every = row.every
      BY <2>2, <2>3 DEF Settings
    <3> QED
      BY <1>0, <3>1, <3>2, <3>3, <3>4 DEF RowOK
  <2>7. sched' \in [on: BOOLEAN, clock: Nat, every: Nat]
    BY <1>0, <2>4, <2>5
  <2>8. done' \in [at: 0..now, clock: 0..now, every: 0..now]
    <3>1. done.clock \in 0..now /\ done.every \in 0..now
      BY DEF StateOK
    <3>2. Max({done.clock, c}) \in 0..now /\ Max({done.every, e}) \in 0..now
      BY <1>0, <2>5, <3>1, MaxOfTwo
    <3> QED
      BY <1>0, <2>4, <3>2
  <2>9. now' = now /\ save' = save
    BY <1>3 DEF EnqueueMark
  <2>10. SaveOK'
    <3>1. row.attempted \in Nat /\ row.lastEvery \in Nat /\ row'.attempted \in Nat /\ row'.lastEvery \in Nat
      BY <1>0, <2>6 DEF RowOK, Settings
    <3>2. row.attempted <= row'.attempted /\ row.lastEvery <= row'.lastEvery
      <4>1. (c # 0 => row.attempted < c) /\ (e # 0 => row.lastEvery <= e)
        BY MarksGrow DEF c, e
      <4> QED
        BY <2>2, <2>3, <2>5, <3>1, <4>1 DEF Settings
    <3> QED
      BY <1>0, <2>9, <3>1, <3>2 DEF SaveOK
  <2> QED
    BY <2>6, <2>7, <2>8, <2>9, <2>10 DEF StateOK
<1>4. ASSUME EnqueueSubmit
      PROVE  StateOK'
  BY <1>4 DEF EnqueueSubmit, StateOK, SaveOK, Idle
<1>5. ASSUME Tick
      PROVE  StateOK'
  <2>1. now' = now + 1 /\ now < LastTick /\ UNCHANGED <<row, save, sched, done, saves>>
    BY <1>5 DEF Tick
  <2>2. RowOK(row, now + 1)
    BY <1>0, RowStaysOK
  <2>3. now' \in DayTicks..(LastTick + 2 * DayTicks)
    BY <1>0, <2>1
  <2>4. SaveOK'
    BY <1>0, <2>1 DEF SaveOK
  <2>5. done' \in [at: 0..now', clock: 0..now', every: 0..now']
    BY <1>0, <2>1 DEF StateOK
  <2> QED
    BY <2>1, <2>2, <2>3, <2>4, <2>5 DEF StateOK
<1>6. CASE UNCHANGED vars
  BY <1>6 DEF StateOK, SaveOK, vars
<1> QED
  BY <1>1, <1>2, <1>3, <1>4, <1>5, <1>6 DEF Next

LEMMA OKIsConsistent ==
  StateOK => StateIsConsistent
<1> SUFFICES ASSUME StateOK
             PROVE  StateIsConsistent
  OBVIOUS
<1>1. now \in Nat /\ RowOK(row, now) /\ row \in Settings
  BY NowIsNat DEF StateOK, RowOK
<1>2. TypeOK
  <2>1. row \in [enabled: BOOLEAN, onTimes: BOOLEAN, times: SUBSET (0..DayTicks-1),
                 days: SUBSET (0..CycleDays-1), every: 0..DayTicks-1, start: 0..DayTicks-1,
                 attempted: 0..now, lastEvery: Nat]
    BY <1>1 DEF RowOK, Settings
  <2> QED
    BY <2>1 DEF StateOK, SaveOK, TypeOK
<1>3. NextRunIsDue
  <2> SUFFICES ASSUME row.enabled
               PROVE  /\ NextRun(row, now) >= now
                      /\ Due(row, NextRun(row, now))
                      /\ \A t \in now..NextRun(row, now) - 1 : ~Due(row, t)
    BY DEF NextRunIsDue
  <2>1. /\ NextRun(row, now) \in Nat /\ now <= NextRun(row, now) /\ Due(row, NextRun(row, now))
        /\ \A u \in Nat : now <= u /\ u < NextRun(row, now) => ~Due(row, u)
    BY <1>1, NextRunIs
  <2> HIDE DEF NextRun
  <2> QED
    BY <1>1, <2>1
<1> QED
  BY <1>2, <1>3 DEF StateIsConsistent

\* The settings are always well formed, and the next run on the settings page is the
\* first moment at which the scheduler will find the mail due: whatever the days, the
\* times and the hours, also while a save is under way and the scheduler gets between
\* what it read and its commit.
THEOREM SettingsPageIsRight ==
  Spec => []StateIsConsistent
<1>1. Init => StateOK
  BY InitOK
<1>2. StateOK /\ [Next]_vars => StateOK'
  BY NextOK
<1>3. StateOK => StateIsConsistent
  BY OKIsConsistent
<1> QED
  BY <1>1, <1>2, <1>3, PTL DEF Spec

-----------------------------------------------------------------------------
(* No slot starts a second job. *)

\* Nothing is due at a moment that has had its job, and what is still to come of
\* either schedule is later than all that was started.
Promise ==
  /\ StateOK
  /\ done.at = now => ~Due(row, now)
  /\ row.enabled =>
       \A s \in Nat : DayStart(now) <= s /\ s \in SlotsOf(row, s) /\ row.attempted < s => done.clock < s
  /\ row.enabled /\ row.every # 0 => done.every < row.lastEvery + row.every

\* What a commit leaves of the schedules comes after the time that the save took.
LEMMA SavedIsToCome ==
  ASSUME StateOK, SaveCommit
  PROVE  /\ RowOK(row', now)
         /\ row'.enabled =>
              \A s \in Nat : DayStart(now) <= s /\ s \in SlotsOf(row', s) /\ row'.attempted < s => save.at < s
         /\ row'.enabled /\ row'.every # 0 => save.at < row'.lastEvery + row'.every
<1> DEFINE f == save.form
<1>1. /\ now \in Nat /\ f \in Form /\ save.at \in Nat /\ save.at <= now /\ DayTicks <= save.at
      /\ row'.enabled = f.enabled /\ row'.times = f.times /\ row'.every = f.every /\ row'.start = f.start
      /\ row' \in Settings /\ row'.attempted \in Nat
  BY NowIsNat, CommitStores DEF Settings
<1>2. RowOK(row', now)
  <2>1. StateOK'
    BY NextOK DEF Next
  <2>2. now' = now
    BY DEF SaveCommit
  <2> QED
    BY <2>1, <2>2 DEF StateOK
<1>3. ASSUME row'.enabled, NEW s \in Nat, DayStart(now) <= s, s \in SlotsOf(row', s), row'.attempted < s, s <= save.at
      PROVE  FALSE
  <2>1. DayStart(s) = DayStart(save.at)
    <3>1. DayStart(save.at) <= s /\ s < DayStart(save.at) + DayTicks
      <4>1. DayStart(save.at) <= DayStart(now) /\ DayStart(save.at) \in Nat /\ DayStart(now) \in Nat
            /\ save.at < DayStart(save.at) + DayTicks
        BY <1>1, Days
      <4> QED
        BY <1>1, <1>3, <4>1, ScheduleConstants
    <3>2. s \div DayTicks = save.at \div DayTicks
      BY <1>1, <3>1, Days
    <3> QED
      BY <3>2 DEF DayStart
  <2>2. s \in SlotsOf(f, save.at)
    BY <1>1, <1>3, <2>1 DEF SlotsOf
  <2>3. PassedSlot(f, save.at) \in Nat /\ s <= PassedSlot(f, save.at)
    BY <1>1, <1>3, <2>2, PassedSlotIs
  <2>4. PassedSlot(f, save.at) <= row'.attempted
    BY <1>3, CommitStores
  <2> QED
    BY <1>1, <1>3, <2>3, <2>4
<1>4. ASSUME row'.enabled, row'.every # 0
      PROVE  save.at < row'.lastEvery + row'.every
  <2> DEFINE anchor == Anchor(row'.start, row'.every, save.at)
  <2>1. anchor \in Nat /\ save.at < anchor + row'.every
    BY <1>1, <1>4, AnchorIs
  <2>2. anchor <= row'.lastEvery
    BY <1>4, CommitStores
  <2>3. row'.lastEvery \in Nat /\ row'.every \in Nat
    BY <1>1, ScheduleConstants DEF Settings
  <2> HIDE DEF anchor
  <2> QED
    BY <1>1, <2>1, <2>2, <2>3
<1>5. \A s \in Nat : row'.enabled /\ DayStart(now) <= s /\ s \in SlotsOf(row', s) /\ row'.attempted < s => save.at < s
  <2> SUFFICES ASSUME NEW s \in Nat, row'.enabled, DayStart(now) <= s, s \in SlotsOf(row', s), row'.attempted < s
               PROVE  save.at < s
    OBVIOUS
  <2> QED
    BY <1>1, <1>3
<1> QED
  BY <1>2, <1>4, <1>5

\* What a commit makes due came after the time that the save took.
LEMMA SavedIsDueLater ==
  ASSUME StateOK, SaveCommit
  PROVE  /\ ClockDue(row', now) # 0 => save.at < ClockDue(row', now)
         /\ EveryDue(row', now) # 0 => save.at < EveryDue(row', now)
         /\ save.at = now => ~Due(row', now)
<1>1. now \in Nat /\ DayTicks <= now /\ RowOK(row', now) /\ row' \in Settings /\ save.at \in Nat
  BY NowIsNat, SavedIsToCome, CommitStores DEF RowOK
<1>2. ASSUME ClockDue(row', now) # 0
      PROVE  save.at < ClockDue(row', now) /\ ClockDue(row', now) \in 0..now
  <2> DEFINE s == ClockDue(row', now)
  <2>1. s \in 0..now /\ row'.enabled /\ s \in SlotsOf(row', now) /\ row'.attempted < s
    BY <1>1, <1>2, ClockDueFinds
  <2>2. row'.times \in SUBSET (0..DayTicks-1)
    BY <1>1 DEF Settings
  <2>3. s \in Nat /\ DayStart(now) <= s /\ SlotsOf(row', s) = SlotsOf(row', now)
    BY <1>1, <2>1, <2>2, Slots
  <2> HIDE DEF s
  <2>4. save.at < s /\ s \in 0..now
    BY <1>1, <2>1, <2>3, SavedIsToCome
  <2> QED
    BY <2>4 DEF s
<1>3. ASSUME EveryDue(row', now) # 0
      PROVE  save.at < EveryDue(row', now) /\ EveryDue(row', now) \in 0..now
  <2>1. /\ row'.enabled /\ row'.every # 0 /\ row'.lastEvery + row'.every <= EveryDue(row', now)
        /\ EveryDue(row', now) \in 0..now
    BY <1>1, <1>3, EveryDueFinds
  <2>2. save.at < row'.lastEvery + row'.every
    BY <2>1, SavedIsToCome
  <2>3. row'.lastEvery \in Nat /\ row'.every \in Nat
    BY <1>1, ScheduleConstants DEF Settings
  <2> QED
    BY <1>1, <2>1, <2>2, <2>3
<1>4. save.at = now => ~Due(row', now)
  BY <1>1, <1>2, <1>3 DEF Due
<1> QED
  BY <1>2, <1>3, <1>4

\* What is marked is later than all that was started.
LEMMA MarksAreNew ==
  ASSUME Promise, EnqueueMark
  PROVE  /\ done.at < now
         /\ ClockDue(row, now) # 0 => done.clock < ClockDue(row, now)
         /\ EveryDue(row, now) # 0 => done.every < EveryDue(row, now)
<1>1. now \in Nat /\ RowOK(row, now) /\ row \in Settings /\ done.at \in 0..now /\ done.clock \in 0..now /\ done.every \in 0..now
  BY NowIsNat DEF Promise, StateOK, RowOK
<1>2. done.at # now
  BY DEF Promise, EnqueueMark
<1>3. ASSUME ClockDue(row, now) # 0
      PROVE  done.clock < ClockDue(row, now)
  <2> DEFINE s == ClockDue(row, now)
  <2>1. s \in 0..now /\ row.enabled /\ s \in SlotsOf(row, now) /\ row.attempted < s
    BY <1>1, <1>3, ClockDueFinds
  <2>2. row.times \in SUBSET (0..DayTicks-1)
    BY <1>1 DEF Settings
  <2>3. s \in Nat /\ DayStart(now) <= s /\ SlotsOf(row, s) = SlotsOf(row, now)
    BY <1>1, <2>1, <2>2, Slots
  <2> HIDE DEF s
  <2>4. done.clock < s
    BY <2>1, <2>3 DEF Promise
  <2> QED
    BY <2>4 DEF s
<1>4. ASSUME EveryDue(row, now) # 0
      PROVE  done.every < EveryDue(row, now)
  <2>1. row.enabled /\ row.every # 0 /\ row.lastEvery + row.every <= EveryDue(row, now) /\ EveryDue(row, now) \in 0..now
    BY <1>1, <1>4, EveryDueFinds
  <2>2. row.lastEvery \in Nat /\ row.every \in Nat
    BY <1>1, ScheduleConstants DEF Settings
  <2>3. done.every < row.lastEvery + row.every
    BY <2>1 DEF Promise
  <2> QED
    BY <1>1, <2>1, <2>2, <2>3
<1> QED
  BY <1>1, <1>2, <1>3, <1>4

LEMMA InitPromises ==
  Init => Promise
<1> SUFFICES ASSUME Init
             PROVE  Promise
  OBVIOUS
<1>1. StateOK /\ now \in Nat /\ DayTicks <= now
  BY InitOK, NowIsNat
<1>2. ~row.enabled /\ ~save.on /\ done.at = 0
  BY DEF Init, NotSaving
<1> QED
  BY <1>1, <1>2, ScheduleConstants DEF Promise

LEMMA NextPromises ==
  Promise /\ [Next]_vars => Promise'
<1> SUFFICES ASSUME Promise, [Next]_vars
             PROVE  Promise'
  OBVIOUS
<1>1. StateOK /\ StateOK'
  BY NextOK DEF Promise
<1>2. now \in Nat /\ DayTicks <= now /\ RowOK(row, now) /\ row \in Settings
      /\ done.at \in 0..now /\ done.clock \in 0..now /\ done.every \in 0..now
  BY <1>1, NowIsNat DEF StateOK, RowOK
<1>3. ASSUME NEW f \in Forms, SaveBegin(f)
      PROVE  Promise'
  BY <1>1, <1>3 DEF SaveBegin, Promise
<1>4. ASSUME SaveCommit
      PROVE  Promise'
  <2>1. now' = now /\ save.at \in Nat /\ save.at <= now /\ DayStart(now) \in Nat
        /\ done' = [at |-> Min({done.at, save.at}), clock |-> Min({done.clock, save.at}), every |-> Min({done.every, save.at})]
    BY <1>1, <1>2, <1>4, CommitStores, Days DEF SaveCommit
  <2>2. done'.at <= save.at /\ done'.clock <= save.at /\ done'.every <= save.at
        /\ done'.at \in Nat /\ done'.clock \in Nat /\ done'.every \in Nat
    <3>1. \A d \in 0..now : Min({d, save.at}) \in Nat /\ Min({d, save.at}) <= save.at
      BY <1>2, <2>1, MinOfTwo
    <3> QED
      BY <1>2, <2>1, <3>1
  <2>3. done'.at = now' => ~Due(row', now')
    <3>1. done'.at = now => save.at = now
      BY <1>2, <2>1, <2>2
    <3> QED
      BY <1>1, <1>4, <2>1, <3>1, SavedIsDueLater
  <2>4. row'.enabled =>
          \A s \in Nat : DayStart(now') <= s /\ s \in SlotsOf(row', s) /\ row'.attempted < s => done'.clock < s
    <3> SUFFICES ASSUME row'.enabled, NEW s \in Nat, DayStart(now) <= s, s \in SlotsOf(row', s), row'.attempted < s
                 PROVE  done'.clock < s
      BY <2>1
    <3>1. save.at < s
      BY <1>1, <1>4, SavedIsToCome
    <3> QED
      BY <2>1, <2>2, <3>1
  <2>5. ASSUME row'.enabled, row'.every # 0
        PROVE  done'.every < row'.lastEvery + row'.every
    <3>1. save.at < row'.lastEvery + row'.every
      BY <1>1, <1>4, <2>5, SavedIsToCome
    <3>2. row'.lastEvery \in Nat /\ row'.every \in Nat
      BY <1>1, <1>4, CommitStores, ScheduleConstants DEF Settings
    <3> QED
      BY <2>1, <2>2, <3>1, <3>2
  <2> QED
    BY <1>1, <2>3, <2>4, <2>5 DEF Promise
<1>5. ASSUME EnqueueMark
      PROVE  Promise'
  <2> DEFINE c == ClockDue(row, now)  e == EveryDue(row, now)
  <2>1. /\ row' = [row EXCEPT !.attempted = IF c # 0 THEN c ELSE @, !.lastEvery = IF e # 0 THEN e ELSE @]
        /\ done' = [at |-> now, clock |-> Max({done.clock, c}), every |-> Max({done.every, e})]
        /\ now' = now
    BY <1>5 DEF EnqueueMark
  <2>2. c \in 0..now /\ e \in 0..now
    BY <1>1, DueIsPast
  <2>3. (c # 0 => done.clock < c) /\ (e # 0 => done.every < e)
    BY <1>5, MarksAreNew
  <2>4. done'.at = now /\ done'.clock = (IF c # 0 THEN c ELSE done.clock) /\ done'.every = (IF e # 0 THEN e ELSE done.every)
    <3>1. done.clock \in Nat /\ done.every \in Nat
      BY <1>1, <1>2 DEF StateOK
    <3> HIDE DEF c, e
    <3>2. c \in Int /\ e \in Int
      BY <2>2, <1>2
    <3>3. Max({done.clock, c}) = IF c # 0 THEN c ELSE done.clock
      BY <1>2, <2>2, <2>3, <3>1, <3>2, MaxOfTwo
    <3>4. Max({done.every, e}) = IF e # 0 THEN e ELSE done.every
      BY <1>2, <2>2, <2>3, <3>1, <3>2, MaxOfTwo
    <3> QED
      BY <2>1, <3>3, <3>4
  <2>5. /\ row'.enabled = row.enabled /\ row'.onTimes = row.onTimes /\ row'.times = row.times /\ row'.days = row.days
        /\ row'.every = row.every
        /\ row'.attempted = (IF c # 0 THEN c ELSE row.attempted) /\ row'.lastEvery = (IF e # 0 THEN e ELSE row.lastEvery)
    <3> HIDE DEF c, e
    <3> QED
      BY <1>2, <2>1 DEF Settings
  <2>6. RowOK(row', now) /\ row' \in Settings
    BY <1>1, <2>1 DEF StateOK, RowOK
  <2>7. ClockDue(row', now) = 0
    <3> SUFFICES ASSUME ClockDue(row', now) # 0
                 PROVE  FALSE
      OBVIOUS
    <3> DEFINE s == ClockDue(row', now)
    <3>1. s \in 0..now /\ row'.enabled /\ row'.onTimes /\ RunsOn(row', now) /\ s \in SlotsOf(row', now) /\ row'.attempted < s
      BY <1>2, <2>6, ClockDueFinds
    <3>2. row.enabled /\ row.onTimes /\ RunsOn(row, now) /\ s \in SlotsOf(row, now)
      BY <2>5, <3>1 DEF SlotsOf, RunsOn
    <3> HIDE DEF s
    <3>3. row.attempted < s
      BY <1>2, <2>2, <2>5, <3>1, ClockDueFinds DEF Settings
    <3>4. c # 0 /\ s <= c
      BY <1>2, <3>1, <3>2, <3>3, ClockDueFinds
    <3> HIDE DEF c
    <3> QED
      BY <1>2, <2>2, <2>5, <3>1, <3>4
  <2>8. EveryDue(row', now) = 0
    <3> SUFFICES ASSUME EveryDue(row', now) # 0
                 PROVE  FALSE
      OBVIOUS
    <3>1. row'.enabled /\ row'.every # 0 /\ row'.lastEvery + row'.every <= now
      BY <1>2, <2>6, EveryDueFinds
    <3>2. CASE e = 0
      <4>1. row.enabled /\ row.every # 0 /\ row.lastEvery + row.every <= now
        BY <2>5, <3>1, <3>2
      <4> QED
        BY <1>2, <3>2, <4>1, EveryDueFinds
    <3>3. CASE e # 0
      <4>1. e = LatestEvery(row, now) /\ row.every # 0
        BY <3>3 DEF EveryDue
      <4>2. row.lastEvery # 0
        BY <1>2, <2>5, <3>1 DEF RowOK
      <4>3. now < LatestEvery(row, now) + row.every
        BY <1>2, <4>1, <4>2, LatestEveryIs, EveryDueFinds, <3>3
      <4>4. row'.lastEvery = e /\ row'.every = row.every
        BY <2>5, <3>3
      <4>5. row.every \in Nat
        BY <1>2, ScheduleConstants DEF Settings
      <4> QED
        BY <1>2, <2>2, <3>1, <4>1, <4>3, <4>4, <4>5
    <3> QED
      BY <3>2, <3>3
  <2>9. row'.enabled =>
          \A s \in Nat : DayStart(now) <= s /\ s \in SlotsOf(row', s) /\ row'.attempted < s => done'.clock < s
    <3> SUFFICES ASSUME row'.enabled, NEW s \in Nat, DayStart(now) <= s, s \in SlotsOf(row', s), row'.attempted < s
                 PROVE  done'.clock < s
      OBVIOUS
    <3>1. CASE c # 0
      BY <2>4, <2>5, <3>1
    <3>2. CASE c = 0
      <4>1. row.enabled /\ s \in SlotsOf(row, s) /\ row.attempted < s
        BY <2>5, <3>2 DEF SlotsOf
      <4>2. done.clock < s
        BY <4>1 DEF Promise
      <4> QED
        BY <2>4, <3>2, <4>2
    <3> QED
      BY <3>1, <3>2
  <2>10. ASSUME row'.enabled, row'.every # 0
         PROVE  done'.every < row'.lastEvery + row'.every
    <3>1. row.every \in Nat /\ row.every # 0
      BY <1>2, <2>5, <2>10, ScheduleConstants DEF Settings
    <3>2. CASE e # 0
      <4> HIDE DEF e
      <4> QED
        BY <1>2, <2>2, <2>4, <2>5, <3>1, <3>2
    <3>3. CASE e = 0
      <4>1. done.every < row.lastEvery + row.every
        BY <2>5, <2>10 DEF Promise
      <4> QED
        BY <2>4, <2>5, <3>3, <4>1
    <3> QED
      BY <3>2, <3>3
  <2> QED
    BY <1>1, <2>1, <2>7, <2>8, <2>9, <2>10 DEF Promise, Due
<1>6. ASSUME EnqueueSubmit
      PROVE  Promise'
  BY <1>1, <1>6 DEF EnqueueSubmit, Promise
<1>7. ASSUME Tick
      PROVE  Promise'
  <2>1. now' = now + 1 /\ UNCHANGED <<row, done>>
    BY <1>7 DEF Tick
  <2>2. done'.at # now'
    BY <1>2, <2>1
  <2>3. DayStart(now) <= DayStart(now') /\ DayStart(now) \in Nat /\ DayStart(now') \in Nat
    BY <1>2, <2>1, Days
  <2>4. row'.enabled =>
          \A s \in Nat : DayStart(now') <= s /\ s \in SlotsOf(row', s) /\ row'.attempted < s => done'.clock < s
    BY <2>1, <2>3 DEF Promise
  <2> QED
    BY <1>1, <2>1, <2>2, <2>4 DEF Promise
<1>8. CASE UNCHANGED vars
  BY <1>1, <1>8 DEF vars, Promise
<1> QED
  BY <1>3, <1>4, <1>5, <1>6, <1>7, <1>8 DEF Next

\* However long the scheduler was down and however the settings are changed, no
\* moment and no slot of either schedule starts a second job, except a slot that
\* came while a save was open and was started before its commit.
THEOREM EachSlotOnce ==
  Spec => OncePerSlot
<1>1. Promise /\ [Next]_vars =>
        [~sched.on /\ sched'.on =>
           /\ now > done.at
           /\ sched'.clock # 0 => sched'.clock > done.clock
           /\ sched'.every # 0 => sched'.every > done.every]_vars
  <2> SUFFICES ASSUME Promise, Next, ~sched.on, sched'.on
               PROVE  /\ now > done.at
                      /\ sched'.clock # 0 => sched'.clock > done.clock
                      /\ sched'.every # 0 => sched'.every > done.every
    OBVIOUS
  <2>1. EnqueueMark
    BY DEF Next, SaveBegin, SaveCommit, EnqueueSubmit, Tick, Idle
  <2>2. sched'.clock = ClockDue(row, now) /\ sched'.every = EveryDue(row, now)
    BY <2>1 DEF EnqueueMark
  <2>3. /\ done.at < now
        /\ ClockDue(row, now) # 0 => done.clock < ClockDue(row, now)
        /\ EveryDue(row, now) # 0 => done.every < EveryDue(row, now)
    BY <2>1, MarksAreNew
  <2>4. now \in Nat /\ done.at \in 0..now /\ done.clock \in 0..now /\ done.every \in 0..now
        /\ ClockDue(row, now) \in 0..now /\ EveryDue(row, now) \in 0..now
    BY NowIsNat, DueIsPast DEF Promise, StateOK
  <2> QED
    BY <2>2, <2>3, <2>4
<1>2. Init => Promise
  BY InitPromises
<1>3. Promise /\ [Next]_vars => Promise'
  BY NextPromises
<1> QED
  BY <1>1, <1>2, <1>3, PTL DEF Spec, OncePerSlot

\* Saving the settings makes nothing due that had come when the save took the time,
\* and the first mail after it is at the first moment after that time that the start
\* time and the steps give, if none was started meanwhile.
THEOREM SavingSendsNothing ==
  Spec => FirstMailInTime
<1> DEFINE steps(r, t) == {DayStart(t) + r.start + k * r.every : k \in 0..DayTicks}
           later(r, t) == {s \in steps(r, t) : s > t}
<1>1. Promise /\ [Next]_vars =>
        [save.on /\ ~save'.on =>
           /\ \A s \in {ClockDue(row', now), EveryDue(row', now)} : s # 0 => s > save.at
           /\ row'.enabled /\ row'.every # 0 /\ row.lastEvery = save.loaded.lastEvery =>
                NextEvery(row', save.at) = {Min(later(row', save.at))}]_vars
  <2> SUFFICES ASSUME Promise, Next, save.on, ~save'.on
               PROVE  /\ \A s \in {ClockDue(row', now), EveryDue(row', now)} : s # 0 => s > save.at
                      /\ row'.enabled /\ row'.every # 0 /\ row.lastEvery = save.loaded.lastEvery =>
                           NextEvery(row', save.at) = {Min(later(row', save.at))}
    OBVIOUS
  <2>1. SaveCommit
    BY DEF Next, SaveBegin, EnqueueMark, EnqueueSubmit, Tick
  <2>2. StateOK /\ now \in Nat /\ save.at \in Nat /\ DayTicks <= save.at
    BY <2>1, NowIsNat, CommitStores DEF Promise
  <2>3. \A s \in {ClockDue(row', now), EveryDue(row', now)} : s # 0 => s > save.at
    <3>1. RowOK(row', now) /\ row' \in Settings
      BY <2>1, <2>2, SavedIsToCome DEF RowOK
    <3>2. ClockDue(row', now) \in Nat /\ EveryDue(row', now) \in Nat
      BY <2>2, <3>1, ClockDueFinds, EveryDueFinds
    <3>3. /\ ClockDue(row', now) # 0 => save.at < ClockDue(row', now)
          /\ EveryDue(row', now) # 0 => save.at < EveryDue(row', now)
      BY <2>1, <2>2, SavedIsDueLater
    <3> QED
      BY <2>2, <3>2, <3>3
  <2>4. ASSUME row'.enabled, row'.every # 0, row.lastEvery = save.loaded.lastEvery
        PROVE  NextEvery(row', save.at) = {Min(later(row', save.at))}
    <3> DEFINE r == row'  t == save.at  a == Anchor(r.start, r.every, t)
    <3>1. r \in Settings /\ r.lastEvery = a /\ r.start = save.form.start /\ r.every = save.form.every /\ save.form \in Form
      BY <2>1, <2>2, <2>4, CommitStores
    <3>2. a \in Nat /\ a # 0 /\ t < a + r.every
      BY <2>2, <2>4, <3>1, AnchorIs
    <3>3. PICK k \in 0..DayTicks : a + r.every = DayStart(t) + r.start + k * r.every /\ (k = 0 \/ a <= t)
      BY <2>2, <2>4, <3>1, AnchorIs
    <3>4. r.every \in Nat \ {0} /\ r.start \in Nat /\ DayStart(t) \in Nat
      <4>1. DayStart(t) \in Nat
        BY <2>2, Days
      <4>2. r.every # 0
        BY <2>4
      <4> HIDE DEF r
      <4>3. r.every \in 0..DayTicks-1 /\ r.start \in 0..DayTicks-1
        BY <3>1 DEF Settings
      <4> QED
        BY <4>1, <4>2, <4>3, ScheduleConstants
    <3>5. NextEvery(r, t) = {a + r.every}
      <4>1. LatestEvery(r, t) = a
        BY <2>2, <2>4, <3>1, <3>2, LatestEveryIs
      <4>2. NextEvery(r, t) = {Max({a + r.every, t})}
        BY <2>4, <3>1, <4>1, <3>2 DEF NextEvery
      <4> HIDE DEF r, a
      <4>3. Max({a + r.every, t}) = a + r.every
        BY <2>2, <3>2, <3>4, MaxOfTwo
      <4> QED
        BY <4>2, <4>3
    <3>6. Min(later(r, t)) = a + r.every
      <4> DEFINE S == later(r, t)
      <4>1. \A s \in S : \E i \in 0..DayTicks : s = DayStart(t) + r.start + i * r.every /\ t < s
        OBVIOUS
      <4>2. a + r.every \in S
        BY <3>2, <3>3
      <4> HIDE DEF r, a, S
      <4>3. ASSUME NEW s \in S
            PROVE  s \in Nat /\ a + r.every <= s
        <5>1. PICK i \in 0..DayTicks : s = DayStart(t) + r.start + i * r.every /\ t < s
          BY <4>1
        <5>2. i \in Nat /\ k \in Nat
          BY ScheduleConstants
        <5>3. i * r.every \in Nat /\ k * r.every \in Nat
          BY <3>4, <5>2
        <5>4. s \in Nat
          BY <3>4, <5>1, <5>3
        <5>5. CASE k <= i
          <6>1. k * r.every <= i * r.every
            BY <3>4, <5>2, <5>5, ProductGrows
          <6> QED
            BY <3>3, <3>4, <5>1, <5>3, <5>4, <6>1
        <5>6. CASE i < k
          <6>1. (i + 1) * r.every <= k * r.every
            BY <3>4, <5>2, <5>6, ProductGrows
          <6>2. (i + 1) * r.every = i * r.every + r.every
            <7> DEFINE e == r.every
            <7>1. e \in Nat
              BY <3>4
            <7> HIDE DEF e
            <7>2. (i + 1) * e = i * e + e
              BY <5>2, <7>1
            <7> QED
              BY <7>2 DEF e
          <6>3. a <= t
            BY <3>3, <5>2, <5>6
          <6> QED
            BY <2>2, <3>2, <3>3, <3>4, <5>1, <5>3, <6>1, <6>2, <6>3
        <5> QED
          BY <5>2, <5>4, <5>5, <5>6
      <4>4. S \in SUBSET Nat
        BY <4>3
      <4>5. Min(S) \in S /\ Min(S) <= a + r.every
        BY <4>2, <4>4, MinOfNat
      <4>6. Min(S) = a + r.every
        BY <3>2, <3>4, <4>3, <4>5
      <4> QED
        BY <4>6 DEF S
    <3> QED
      BY <3>5, <3>6
  <2> QED
    BY <2>3, <2>4
<1>2. Init => Promise
  BY InitPromises
<1>3. Promise /\ [Next]_vars => Promise'
  BY NextPromises
<1> QED
  BY <1>1, <1>2, <1>3, PTL DEF Spec, FirstMailInTime

=============================================================================
