--------------------------- MODULE RequestProofs ---------------------------
(***************************************************************************)
(* What single requests are answered: the search of cron.js passes over no *)
(* run (Cron), a client that stays is told the truth about the rows of its *)
(* query (QueryStream), a download gets the file of the last upload        *)
(* (RecordBlobs), and no query reads a table its caller may not            *)
(* (SqlTables).                                                            *)
(*                                                                         *)
(* A leap of the search lands on the beginning of the next day or hour, or *)
(* of the first month after, and every minute it passes has the field that *)
(* was found wrong: SearchInv.  The stream's answer is decided by how far  *)
(* the fetching came when the race was won, and by the rows handed over    *)
(* until then: FetchInv, OpenInv and EndInv.  The row and the file of a    *)
(* settled record are those of its last upload, but while a change of it   *)
(* has done a part of what it does, and nothing that a calm request read   *)
(* has changed since: BlobInv.  Each statement is proved in three parts:   *)
(* types, the records of its own path, and Holds of its own request;       *)
(* OthersTrue and OthersHold are about all others, Together joins them.    *)
(* Walk and Reads are defined by recursion on a query's tree: there are    *)
(* solutions up to every depth, they agree, and so there is such a         *)
(* function (TreeFunctionExists).  What the binder reads of a node is what *)
(* the walk names of it or what a CTE in sight read before (Within), if    *)
(* the walk holds no name for a CTE's that is none to the binder.          *)
(***************************************************************************)
EXTENDS Cron, QueryStream, RecordBlobs, SqlTables, SequenceTheorems, WellFoundedInduction, TLAPS

----------------------------------------------------------------------------
(* Multiples and quotients *)

LEMMA TimesMonotone ==
  ASSUME NEW a \in Nat, NEW b \in Nat, NEW m \in Nat, a <= b
  PROVE  a * m \in Nat /\ a * m <= b * m
<1>1. PICK k \in Nat : b = a + k
  <2>1. b - a \in Nat /\ b = a + (b - a)
    OBVIOUS
  <2> QED
    BY <2>1
<1>2. b * m = a * m + k * m /\ k * m \in Nat /\ a * m \in Nat
  BY <1>1
<1> QED
  BY <1>2

LEMMA DivBounds ==
  ASSUME NEW m \in Nat, m # 0, NEW t \in Nat
  PROVE  t \div m \in Nat /\ (t \div m) * m <= t /\ t < (t \div m + 1) * m
<1>1. t = m * (t \div m) + (t % m) /\ t % m \in 0..(m - 1) /\ t \div m \in Nat
  OBVIOUS
<1> DEFINE q == t \div m
<1>2. q \in Nat /\ t = m * q + (t % m)
  BY <1>1
<1> HIDE DEF q
<1>3. q * m = m * q /\ (q + 1) * m = m * q + m /\ m * q \in Nat
  BY <1>2
<1>4. q * m <= t /\ t < (q + 1) * m
  BY <1>1, <1>2, <1>3
<1> QED
  BY <1>2, <1>4 DEF q

\* A number between two multiples has the quotient of the lower one.
LEMMA DivBetween ==
  ASSUME NEW m \in Nat, m # 0, NEW t \in Nat, NEW q \in Nat, NEW r \in Nat,
         q * m <= t, t < r * m
  PROVE  t \div m \in q..(r - 1)
<1> DEFINE s == t \div m
<1>1. s \in Nat /\ s * m <= t /\ t < (s + 1) * m
  BY DivBounds
<1> HIDE DEF s
<1>2. q <= s
  <2>1. SUFFICES ASSUME s + 1 <= q PROVE FALSE
    BY <1>1
  <2>2. (s + 1) * m <= q * m
    BY <1>1, <2>1, TimesMonotone
  <2>3. (s + 1) * m \in Nat /\ q * m \in Nat
    BY <1>1, TimesMonotone
  <2> QED
    BY <1>1, <2>2, <2>3
<1>3. s <= r - 1
  <2>1. SUFFICES ASSUME r <= s PROVE FALSE
    BY <1>1
  <2>2. r * m <= s * m /\ r * m \in Nat /\ s * m \in Nat
    BY <1>1, <2>1, TimesMonotone
  <2> QED
    BY <1>1, <2>2
<1> QED
  BY <1>1, <1>2, <1>3 DEF s

LEMMA DivMonotone ==
  ASSUME NEW m \in Nat, m # 0, NEW s \in Nat, NEW t \in Nat, s <= t
  PROVE  s \div m <= t \div m
<1> DEFINE q == s \div m
           r == t \div m + 1
<1>1. q \in Nat /\ q * m <= s /\ r \in Nat /\ t < r * m
  BY DivBounds
<1>2. q * m \in Nat /\ r * m \in Nat
  BY <1>1, TimesMonotone
<1> HIDE DEF q, r
<1>3. q * m <= t
  BY <1>1, <1>2
<1>4. t \div m \in q..(r - 1)
  BY <1>1, <1>3, DivBetween
<1> QED
  BY <1>1, <1>4 DEF q

\* A set of numbers has a least one.
LEMMA LeastIs ==
  ASSUME NEW T, T \subseteq Nat, T # {}
  PROVE  Least(T) \in T /\ \A y \in T : Least(T) <= y
<1>1. PICK x \in T : \A y \in T : ~ (<<y, x>> \in OpToRel(<, Nat))
  BY NatLessThanWellFounded, WFMin
<1>2. \A y \in T : ~(y < x)
  BY <1>1 DEF OpToRel
<1>3. \A y \in T : x <= y
  BY <1>2
<1> QED
  BY <1>3 DEF Least

----------------------------------------------------------------------------
(* Days, hours and minutes *)

PerDay == Hours * Minutes

LEMMA DayIsLong == PerDay \in Nat /\ PerDay # 0
<1>1. Hours \in Nat /\ Minutes \in Nat /\ 1 <= Hours /\ Minutes # 0
  BY CronAssumption
<1>2. 1 * Minutes <= Hours * Minutes /\ 1 * Minutes = Minutes /\ Hours * Minutes \in Nat
  BY <1>1, TimesMonotone
<1> QED
  BY <1>1, <1>2 DEF PerDay

\* The minutes before the first one of a day x and not before t are those of the
\* days from the day of t to the day before x.
LEMMA DaysBetween ==
  ASSUME NEW t \in Nat, NEW x \in Nat, NEW u \in t..(x * Hours * Minutes - 1)
  PROVE  u \in Nat /\ DayOf(u) \in DayOf(t)..(x - 1)
<1>1. x * Hours * Minutes = x * PerDay /\ x * PerDay \in Nat
  <2>1. x \in Nat /\ Hours \in Nat /\ Minutes \in Nat
    BY CronAssumption
  <2>2. (x * Hours) * Minutes = x * (Hours * Minutes)
    BY <2>1
  <2> QED
    BY <2>1, <2>2, DayIsLong, TimesMonotone DEF PerDay
<1>2. u \in Nat /\ t <= u /\ u < x * PerDay
  BY <1>1
<1>3. DayOf(t) = t \div PerDay /\ DayOf(u) = u \div PerDay
  BY DEF DayOf, PerDay
<1>4. t \div PerDay \in Nat /\ (t \div PerDay) * PerDay <= t
  BY DayIsLong, DivBounds
<1>5. (t \div PerDay) * PerDay \in Nat
  BY <1>4, DayIsLong, TimesMonotone
<1>6. (t \div PerDay) * PerDay <= u
  BY <1>2, <1>4, <1>5
<1>7. u \div PerDay \in (t \div PerDay)..(x - 1)
  BY <1>2, <1>4, <1>6, DayIsLong, DivBetween
<1> QED
  BY <1>2, <1>3, <1>7

LEMMA DayNat == ASSUME NEW t \in Nat PROVE DayOf(t) \in Nat
  BY DayIsLong, DivBounds DEF DayOf, PerDay

\* A later day begins later.
LEMMA DayEnds ==
  ASSUME NEW t \in Nat, NEW x \in Nat, x > DayOf(t)
  PROVE  x * Hours * Minutes \in Nat /\ x * Hours * Minutes > t
<1>1. x * Hours * Minutes = x * PerDay /\ x * PerDay \in Nat
  <2>1. x \in Nat /\ Hours \in Nat /\ Minutes \in Nat
    BY CronAssumption
  <2>2. (x * Hours) * Minutes = x * (Hours * Minutes)
    BY <2>1
  <2> QED
    BY <2>1, <2>2, DayIsLong, TimesMonotone DEF PerDay
<1>2. DayOf(t) + 1 \in Nat /\ t < (DayOf(t) + 1) * PerDay
  <2>1. DayOf(t) = t \div PerDay
    BY DEF DayOf, PerDay
  <2> QED
    BY <2>1, DayIsLong, DivBounds, DayNat
<1>3. (DayOf(t) + 1) * PerDay <= x * PerDay /\ (DayOf(t) + 1) * PerDay \in Nat
  BY <1>2, DayIsLong, DayNat, TimesMonotone
<1> QED
  BY <1>1, <1>2, <1>3

LEMMA DayMonotone ==
  ASSUME NEW s \in Nat, NEW t \in Nat, s <= t
  PROVE  DayOf(s) <= DayOf(t)
  BY DayIsLong, DivMonotone DEF DayOf, PerDay

LEMMA HourAfterIs ==
  ASSUME NEW t \in Nat
  PROVE  /\ HourAfter(t) \in Nat /\ HourAfter(t) > t
         /\ \A u \in t..(HourAfter(t) - 1) : HourOf(u) = HourOf(t)
<1> DEFINE q == t \div Minutes
<1>1. Minutes \in Nat /\ Minutes # 0
  BY CronAssumption
<1>2. q \in Nat /\ q * Minutes <= t /\ t < (q + 1) * Minutes
  BY <1>1, DivBounds
<1>3. HourAfter(t) = (q + 1) * Minutes
  BY DEF HourAfter
<1> HIDE DEF q
<1>4. q * Minutes \in Nat /\ (q + 1) * Minutes \in Nat
  BY <1>1, <1>2, TimesMonotone
<1>5. ASSUME NEW u \in t..(HourAfter(t) - 1) PROVE HourOf(u) = HourOf(t)
  <2>1. u \in Nat /\ q * Minutes <= u /\ u < (q + 1) * Minutes
    BY <1>2, <1>3, <1>4
  <2>2. u \div Minutes \in q..((q + 1) - 1)
    BY <1>1, <1>2, <2>1, DivBetween
  <2>3. u \div Minutes = q
    BY <1>2, <2>2
  <2> QED
    BY <2>3 DEF HourOf, q
<1> QED
  BY <1>2, <1>3, <1>4, <1>5

\* The next hour begins no later than the next day.
LEMMA HourInDay ==
  ASSUME NEW t \in Nat
  PROVE  HourAfter(t) <= DayAfter(t) /\ DayAfter(t) \in Nat
<1> DEFINE q == t \div Minutes
           r == (DayOf(t) + 1) * Hours
<1>1. Minutes \in Nat /\ Minutes # 0 /\ Hours \in Nat /\ DayOf(t) + 1 \in Nat
  BY CronAssumption, DayNat
<1>2. r \in Nat /\ DayAfter(t) = r * Minutes /\ HourAfter(t) = (q + 1) * Minutes
  BY <1>1, TimesMonotone DEF DayAfter, HourAfter
<1>3. r * Minutes \in Nat /\ t < r * Minutes
  BY <1>1, <1>2, DayNat, DayEnds
<1>4. q \in Nat /\ q * Minutes <= t
  BY <1>1, DivBounds
<1>5. t \div Minutes \in q..(r - 1)
  <2> HIDE DEF r
  <2> QED
    BY <1>1, <1>2, <1>3, <1>4, DivBetween
<1>6. (q + 1) * Minutes <= r * Minutes
  <2>1. q + 1 \in Nat /\ q + 1 <= r
    BY <1>2, <1>4, <1>5
  <2> HIDE DEF q, r
  <2> QED
    BY <1>1, <1>2, <2>1, TimesMonotone
<1> QED
  BY <1>2, <1>3, <1>6

----------------------------------------------------------------------------
(* What the search skips *)

\* "*" restricts nothing.
LEMMA StarIsAll ==
  ASSUME NEW min \in Int, NEW max \in Int
  PROVE  Field(Star, min, max) = min..max
<1> DEFINE p == [kind |-> "*", a |-> 0, b |-> 0, step |-> 0]
<1>1. p.kind = "*" /\ p.step = 0
  OBVIOUS
<1>2. Item(p, min, max) = {v \in min..max : (v - min) % 1 = 0}
  BY <1>1 DEF Item
<1>3. \A n \in Int : n % 1 = 0
  OBVIOUS
<1>4. Item(p, min, max) = min..max
  <2>1. \A v \in min..max : (v - min) % 1 = 0
    BY <1>3
  <2> QED
    BY <1>2, <2>1
<1> QED
  BY <1>4 DEF Field, Star

InCalendar(t) == t \in Nat /\ DayOf(t) \in DOMAIN Calendar

\* The search's test of a day agrees with the definition of a due minute.
LEMMA DueIs ==
  ASSUME NEW t, InCalendar(t)
  PROVE  CronDue(t) <=> MonthIn(t) /\ DayIn(t) /\ HourIn(t) /\ MinuteIn(t)
<1> DEFINE dom == Calendar[DayOf(t)].date \in Field(cron.day, 1, LastDate)
           dow == DayOf(t) % Week \in Field(cron.weekday, 0, Week - 1)
<1>1. cron.day = Star => dom
  BY StarIsAll, CronAssumption DEF InCalendar
<1>2. cron.weekday = Star => dow
  <2>1. DayOf(t) % Week \in 0..(Week - 1)
    BY CronAssumption DEF InCalendar
  <2> QED
    BY <2>1, StarIsAll, CronAssumption
<1>3. DayIn(t) <=> IF cron.day = Star
                   THEN IF cron.weekday = Star THEN TRUE ELSE dow
                   ELSE IF cron.weekday = Star THEN dom ELSE dom \/ dow
  BY DEF DayIn, Restricted
<1>4. CronDue(t) <=> /\ MonthIn(t) /\ HourIn(t) /\ MinuteIn(t)
                     /\ IF Star \notin {cron.day, cron.weekday} THEN dom \/ dow ELSE dom /\ dow
  BY DEF CronDue
<1> HIDE DEF dom, dow
<1> QED
  BY <1>1, <1>2, <1>3, <1>4

\* The minutes from t up to, and without, u may be skipped: none is due.
Skipped(t, u) == \A v \in t..(u - 1) : InCalendar(v) /\ ~CronDue(v)

LEMMA SkippedMonth ==
  ASSUME NEW t, InCalendar(t), ~MonthIn(t),
         \E x \in DOMAIN Calendar : x > DayOf(t) /\ Calendar[x].date = 1
  PROVE  MonthAfter(t) \in Nat /\ MonthAfter(t) > t /\ Skipped(t, MonthAfter(t))
<1> DEFINE S == {x \in DOMAIN Calendar : x > DayOf(t) /\ Calendar[x].date = 1}
           x == Least(S)
<1>1. t \in Nat /\ DayOf(t) \in Nat /\ S \subseteq Nat /\ S # {}
  BY DayNat, CronAssumption DEF InCalendar
<1>2. x \in S /\ \A y \in S : x <= y
  BY <1>1, LeastIs
<1>3. MonthAfter(t) = x * Hours * Minutes
  BY DEF MonthAfter
<1>4. x \in Nat /\ x > DayOf(t) /\ x \in DOMAIN Calendar
  BY <1>1, <1>2
<1> HIDE DEF x
<1>5. x * Hours * Minutes \in Nat /\ x * Hours * Minutes > t
  BY <1>1, <1>4, DayEnds
<1>6. ASSUME NEW v \in t..(x * Hours * Minutes - 1) PROVE InCalendar(v) /\ ~CronDue(v)
  <2>0. v \in Nat /\ DayOf(v) \in DayOf(t)..(x - 1)
    BY <1>1, <1>4, <1>6, DaysBetween
  <2>1. DayOf(v) \in DayOf(t)..(x - 1) /\ InCalendar(v)
    <3>1. DayOf(v) \in 0..x
      BY <1>1, <1>4, <2>0
    <3> QED
      BY <1>4, <2>0, <3>1, CronAssumption DEF InCalendar
  <2>2. Calendar[DayOf(v)].month = Calendar[DayOf(t)].month
    <3>1. SUFFICES ASSUME Calendar[DayOf(v)].month # Calendar[DayOf(t)].month PROVE FALSE
      OBVIOUS
    <3>2. DayOf(t) < DayOf(v)
      BY <1>1, <2>1, <3>1
    <3>3. PICK z \in (DayOf(t) + 1)..DayOf(v) : Calendar[z].date = 1
      BY <2>1, <3>1, <3>2, CronAssumption DEF InCalendar
    <3>4. z \in 0..x /\ z > DayOf(t) /\ z < x
      BY <1>1, <1>4, <2>1, <3>3
    <3>5. z \in S
      BY <1>4, <3>3, <3>4, CronAssumption
    <3> QED
      BY <1>2, <1>4, <3>4, <3>5
  <2>3. ~MonthIn(v)
    BY <2>2 DEF MonthIn
  <2> QED
    BY <2>1, <2>3 DEF CronDue
<1> QED
  BY <1>3, <1>4, <1>5, <1>6 DEF Skipped

LEMMA SkippedDay ==
  ASSUME NEW t, InCalendar(t), ~DayIn(t)
  PROVE  DayAfter(t) \in Nat /\ DayAfter(t) > t /\ Skipped(t, DayAfter(t))
<1>1. t \in Nat /\ DayOf(t) \in Nat /\ DayOf(t) + 1 \in Nat
  BY DayNat DEF InCalendar
<1>2. DayAfter(t) \in Nat /\ DayAfter(t) > t
  BY <1>1, DayEnds DEF DayAfter
<1>3. ASSUME NEW v \in t..(DayAfter(t) - 1) PROVE InCalendar(v) /\ ~CronDue(v)
  <2>1. v \in Nat /\ DayOf(v) \in DayOf(t)..((DayOf(t) + 1) - 1)
    BY <1>1, <1>3, DaysBetween DEF DayAfter
  <2>2. DayOf(v) = DayOf(t) /\ InCalendar(v)
    BY <1>1, <2>1 DEF InCalendar
  <2>3. DayIn(v) <=> DayIn(t)
    BY <2>2 DEF DayIn
  <2> QED
    BY <2>2, <2>3, DueIs
<1> QED
  BY <1>2, <1>3 DEF Skipped

LEMMA SkippedHour ==
  ASSUME NEW t, InCalendar(t), ~HourIn(t)
  PROVE  HourAfter(t) \in Nat /\ HourAfter(t) > t /\ Skipped(t, HourAfter(t))
<1>1. t \in Nat
  BY DEF InCalendar
<1>2. HourAfter(t) \in Nat /\ HourAfter(t) > t
  BY <1>1, HourAfterIs
<1>3. ASSUME NEW v \in t..(HourAfter(t) - 1) PROVE InCalendar(v) /\ ~CronDue(v)
  <2>1. ~CronDue(v)
    BY <1>1, HourAfterIs DEF CronDue, HourIn
  <2>2. v \in t..(DayOf(t) + 1) * Hours * Minutes - 1
    BY <1>1, <1>2, HourInDay DEF DayAfter
  <2>3. v \in Nat /\ DayOf(v) \in DayOf(t)..((DayOf(t) + 1) - 1) /\ DayOf(t) \in Nat
    BY <1>1, <2>2, DayNat, DaysBetween
  <2> QED
    BY <2>1, <2>3 DEF InCalendar
<1> QED
  BY <1>2, <1>3 DEF Skipped

----------------------------------------------------------------------------
(* The search *)

Soon == from + RunsAsked * Horizon

\* Every minute the search has passed is one of the runs found if it is due, and
\* the runs come no later than they could, within the calendar.
SearchInv ==
  /\ from \in Froms /\ d \in Nat /\ runs \in Seq(Nat)
  /\ cronStage \in {"searching", "done", "null"}
  /\ Len(runs) <= RunsAsked /\ (cronStage = "searching" => Len(runs) < RunsAsked)
  /\ from < d /\ \A i \in DOMAIN runs : runs[i] \in (from + 1)..(d - 1)
  /\ LastRun <= from + Len(runs) * Horizon
  /\ \A i \in DOMAIN runs : runs[i] > IF i = 1 THEN from ELSE runs[i - 1]
  /\ \A t \in 0..(d - 1) : InCalendar(t)
  /\ \A t \in (from + 1)..(d - 1) : CronDue(t) <=> \E i \in DOMAIN runs : runs[i] = t
  /\ cronStage = "null" => d > LastRun + Horizon
\* Whether a minute is due, and in the calendar, never changes.
LEMMA SearchSame ==
  ASSUME UNCHANGED cron, NEW t
  PROVE  (CronDue(t)' <=> CronDue(t)) /\ (InCalendar(t)' <=> InCalendar(t))
  BY DEF CronDue, MonthIn, HourIn, MinuteIn, InCalendar

LEMMA RunsInHorizon ==
  ASSUME SearchInv, Searching
  PROVE  InCalendar(d) /\ \E x \in DOMAIN Calendar : x > DayOf(d) /\ Calendar[x].date = 1
<1>1. d <= Soon /\ d \in Nat /\ Soon \in Nat
  <2>1. from \in Nat /\ Horizon \in Nat /\ RunsAsked \in Nat /\ Len(runs) \in Nat /\ d \in Nat
    BY CronAssumption DEF SearchInv
  <2>2. Len(runs) + 1 <= RunsAsked /\ d <= LastRun + Horizon
        /\ LastRun <= from + Len(runs) * Horizon
    BY <2>1 DEF SearchInv, Searching
  <2>3. (Len(runs) + 1) * Horizon <= RunsAsked * Horizon /\ (Len(runs) + 1) * Horizon \in Nat
    BY <2>1, <2>2, TimesMonotone
  <2>4. (Len(runs) + 1) * Horizon = Len(runs) * Horizon + Horizon /\ Len(runs) * Horizon \in Nat
    BY <2>1
  <2>5. LastRun \in Nat
    BY <2>1 DEF LastRun, SearchInv
  <2>6. RunsAsked * Horizon \in Nat
    BY <2>1
  <2> QED
    BY <2>1, <2>2, <2>3, <2>4, <2>5, <2>6 DEF Soon
<1>2. PICK x \in DOMAIN Calendar : x > DayOf(Soon) /\ Calendar[x].date = 1
  BY CronAssumption DEF SearchInv, Soon
<1>3. DayOf(d) <= DayOf(Soon) /\ DayOf(d) \in Nat /\ DayOf(Soon) \in Nat
  BY <1>1, DayMonotone, DayNat
<1>4. x \in Nat /\ DayOf(d) \in 0..x
  BY <1>2, <1>3, CronAssumption
<1> QED
  BY <1>1, <1>2, <1>3, <1>4, CronAssumption DEF InCalendar

\* A step of the search over minutes that are not due.
LEMMA SkipKeeps ==
  ASSUME SearchInv, cronStage = "searching", NEW t \in Nat, t > d, Skipped(d, t), Skip(t)
  PROVE  SearchInv'
<1>1. UNCHANGED <<cron, from, runs, cronStage, LastRun>> /\ d' = t /\ d \in Nat /\ from \in Nat
  BY CronAssumption DEF Skip, LastRun, SearchInv
<1>2. ASSUME NEW u \in 0..(t - 1) PROVE InCalendar(u)'
  <2>1. u \in 0..(d - 1) \/ u \in d..(t - 1)
    BY <1>1
  <2>2. InCalendar(u)
    BY <2>1 DEF SearchInv, Skipped
  <2> QED
    BY <2>2 DEF InCalendar, DayOf
<1>3. ASSUME NEW u \in (from + 1)..(t - 1)
      PROVE  CronDue(u)' <=> \E i \in DOMAIN runs : runs[i] = u
  <2>1. CronDue(u)' <=> CronDue(u)
    BY <1>1 DEF CronDue, MonthIn, HourIn, MinuteIn
  <2>2. CASE u \in (from + 1)..(d - 1)
    BY <2>1, <2>2 DEF SearchInv
  <2>3. CASE u \in d..(t - 1)
    <3>1. ~CronDue(u)
      BY <2>3 DEF Skipped
    <3>2. \A i \in DOMAIN runs : runs[i] # u
      BY <1>1, <2>3 DEF SearchInv
    <3> QED
      BY <2>1, <3>1, <3>2
  <2> QED
    BY <1>1, <2>2, <2>3
<1>4. \A i \in DOMAIN runs : runs[i] \in (from + 1)..(t - 1)
  BY <1>1 DEF SearchInv
<1> QED
  BY <1>1, <1>2, <1>3, <1>4 DEF SearchInv

\* A minute that is due is the next run.
LEMMA FoundKeeps ==
  ASSUME SearchInv, Found
  PROVE  SearchInv'
<1> DEFINE n == Len(runs)
<1>1. /\ n \in Nat /\ DOMAIN runs = 1..n /\ d \in Nat /\ from \in Nat /\ Horizon \in Nat
      /\ n + 1 <= RunsAsked /\ RunsAsked \in Nat
      /\ cronStage = "searching" /\ Searching
  <2>1. runs \in Seq(Nat) /\ d \in Nat /\ from \in Nat /\ cronStage = "searching" /\ Searching
        /\ (cronStage = "searching" => Len(runs) < RunsAsked)
    BY CronAssumption DEF SearchInv, Found, Searching
  <2>2. Horizon \in Nat /\ RunsAsked \in Nat
    BY CronAssumption
  <2>3. Len(runs) \in Nat /\ DOMAIN runs = 1..Len(runs)
    BY <2>1
  <2> QED
    BY <2>1, <2>2, <2>3
<1>2. /\ runs' = Append(runs, d) /\ runs' \in Seq(Nat) /\ d' = d + 1 /\ UNCHANGED <<cron, from>>
      /\ cronStage' = IF n + 1 = RunsAsked THEN "done" ELSE "searching"
  BY <1>1 DEF Found, SearchInv
<1>3. Len(runs') = n + 1 /\ DOMAIN runs' = 1..(n + 1) /\ runs'[n + 1] = d
      /\ \A i \in 1..n : runs'[i] = runs[i]
  <2>1. runs \in Seq(Nat)
    BY DEF SearchInv
  <2>2. /\ Append(runs, d) \in Seq(Nat) /\ Len(Append(runs, d)) = Len(runs) + 1
        /\ \A i \in 1..Len(runs) : Append(runs, d)[i] = runs[i]
        /\ Append(runs, d)[Len(runs) + 1] = d
    BY <1>1, <2>1, AppendProperties
  <2>3. DOMAIN runs' = 1..Len(runs')
    BY <1>2
  <2> QED
    BY <1>2, <2>2, <2>3
<1>4. LastRun \in Nat /\ LastRun < d
  BY <1>1, SMTT(60) DEF LastRun, SearchInv
<1>5. LastRun' = d
  BY <1>1, <1>2, <1>3 DEF LastRun
<1>6. LastRun' <= from + Len(runs') * Horizon
  <2>1. d <= LastRun + Horizon /\ LastRun <= from + n * Horizon
    BY <1>1 DEF Searching, SearchInv
  <2>2. (n + 1) * Horizon = n * Horizon + Horizon /\ n * Horizon \in Nat
    BY <1>1
  <2> HIDE DEF n
  <2> QED
    BY <1>1, <1>3, <1>4, <1>5, <2>1, <2>2
<1>7. \A i \in DOMAIN runs' : runs'[i] \in (from + 1)..d
  <2>1. \A i \in 1..n : runs[i] \in (from + 1)..(d - 1)
    BY <1>1 DEF SearchInv
  <2>2. from < d
    BY DEF SearchInv
  <2> QED
    BY <1>1, <1>3, <2>1, <2>2
<1>8. \A i \in DOMAIN runs' : runs'[i] > IF i = 1 THEN from ELSE runs'[i - 1]
  <2>1. ASSUME NEW i \in 1..n PROVE runs'[i] > IF i = 1 THEN from ELSE runs'[i - 1]
    <3>1. runs[i] > IF i = 1 THEN from ELSE runs[i - 1]
      BY <1>1, <2>1 DEF SearchInv
    <3>2. i # 1 => i - 1 \in 1..n
      BY <1>1
    <3>3. runs'[i] = runs[i] /\ (i # 1 => runs'[i - 1] = runs[i - 1])
      BY <1>3, <3>2
    <3> QED
      BY <3>1, <3>3
  <2>2. d > IF n + 1 = 1 THEN from ELSE runs'[n]
    <3>1. CASE n = 0
      BY <3>1 DEF SearchInv
    <3>2. CASE n # 0
      <4>1. n \in 1..n /\ runs[n] \in (from + 1)..(d - 1)
        BY <1>1, <3>2 DEF SearchInv
      <4> QED
        BY <1>1, <1>3, <3>2, <4>1
    <3> QED
      BY <3>1, <3>2
  <2>3. ASSUME NEW i \in 1..(n + 1) PROVE i \in 1..n \/ i = n + 1
    BY <1>1
  <2> QED
    BY <1>1, <1>3, <2>1, <2>2, <2>3
<1>9. InCalendar(d) /\ CronDue(d)
  BY RunsInHorizon, DueIs, <1>1 DEF Found
<1>10. \A t \in 0..d : InCalendar(t)'
  <2>1. ASSUME NEW t \in 0..d PROVE InCalendar(t)
    <3>1. t = d \/ t \in 0..(d - 1)
      BY <1>1
    <3> QED
      BY <1>9, <3>1 DEF SearchInv
  <2> QED
    BY <1>2, <2>1, SearchSame
<1>11. ASSUME NEW t \in (from + 1)..d
       PROVE  CronDue(t)' <=> \E i \in DOMAIN runs' : runs'[i] = t
  <2>1. CronDue(t)' <=> CronDue(t)
    BY <1>2, SearchSame
  <2>2. CASE t = d
    BY <1>1, <1>3, <1>9, <2>1, <2>2
  <2>3. CASE t \in (from + 1)..(d - 1)
    <3>1. CronDue(t) <=> \E i \in 1..n : runs[i] = t
      BY <1>1, <2>3 DEF SearchInv
    <3>2. t # d
      BY <1>1, <2>3
    <3>3. ASSUME NEW i \in 1..(n + 1) PROVE i \in 1..n \/ i = n + 1
      BY <1>1
    <3> QED
      BY <1>1, <1>3, <2>1, <3>1, <3>2, <3>3
  <2> QED
    BY <1>1, <2>2, <2>3
<1>12. from < d' /\ d' \in Nat /\ d' - 1 = d
  BY <1>1, <1>2 DEF SearchInv
<1>13. cronStage' \in {"searching", "done"} /\ Len(runs') <= RunsAsked
       /\ (cronStage' = "searching" => Len(runs') < RunsAsked)
  <2> HIDE DEF n
  <2> QED
    BY <1>1, <1>2, <1>3
<1> QED
  BY <1>2, <1>6, <1>7, <1>8, <1>10, <1>11, <1>12, <1>13 DEF SearchInv

LEMMA SearchStep == SearchInv /\ [CronNext]_cronvars => SearchInv'
<1> SUFFICES ASSUME SearchInv, [CronNext]_cronvars PROVE SearchInv'
  OBVIOUS
<1>1. CASE NextMonth
  <2>1. Searching /\ cronStage = "searching" /\ ~MonthIn(d) /\ Skip(MonthAfter(d))
    BY <1>1 DEF NextMonth, Searching
  <2> QED
    BY <2>1, RunsInHorizon, SkippedMonth, SkipKeeps
<1>2. CASE NextDay
  <2>1. Searching /\ cronStage = "searching" /\ ~DayIn(d) /\ Skip(DayAfter(d))
    BY <1>2 DEF NextDay, Searching
  <2> QED
    BY <2>1, RunsInHorizon, SkippedDay, SkipKeeps
<1>3. CASE NextHour
  <2>1. Searching /\ cronStage = "searching" /\ ~HourIn(d) /\ Skip(HourAfter(d))
    BY <1>3 DEF NextHour, Searching
  <2> QED
    BY <2>1, RunsInHorizon, SkippedHour, SkipKeeps
<1>4. CASE NextMinute
  <2>1. Searching /\ cronStage = "searching" /\ ~MinuteIn(d) /\ Skip(d + 1)
    BY <1>4 DEF NextMinute, Searching
  <2>2. InCalendar(d) /\ d \in Nat /\ ~CronDue(d)
    BY <2>1, RunsInHorizon DEF CronDue, SearchInv
  <2>3. Skipped(d, d + 1) /\ d + 1 \in Nat
    BY <2>2 DEF Skipped
  <2> QED
    BY <2>1, <2>2, <2>3, SkipKeeps
<1>5. CASE Found
  BY <1>5, FoundKeeps
<1>6. CASE GiveUp
  <2>1. d > LastRun + Horizon
    <3>1. LastRun \in Nat /\ Horizon \in Nat /\ d \in Nat
      BY CronAssumption, SMTT(60) DEF LastRun, SearchInv
    <3> QED
      BY <1>6, <3>1 DEF GiveUp, Searching
  <2>2. UNCHANGED <<cron, from, runs, d, LastRun>> /\ cronStage' = "null"
    BY <1>6 DEF GiveUp, LastRun
  <2> QED
    BY <2>1, <2>2, SearchSame DEF SearchInv
<1>7. CASE UNCHANGED cronvars
  <2>1. UNCHANGED <<cron, from, runs, d, LastRun, cronStage>>
    BY <1>7 DEF cronvars, LastRun
  <2> QED
    BY <2>1, SearchSame DEF SearchInv
<1> QED
  BY <1>1, <1>2, <1>3, <1>4, <1>5, <1>6, <1>7 DEF CronNext
LEMMA SearchStarts == CronInit => SearchInv
<1> SUFFICES ASSUME CronInit PROVE SearchInv
  OBVIOUS
<1>1. from \in Froms /\ from \in Nat /\ d = from + 1 /\ runs = <<>> /\ cronStage = "searching"
      /\ RunsAsked \in Nat \ {0} /\ Horizon \in Nat
  BY CronAssumption DEF CronInit
<1>2. runs \in Seq(Nat) /\ Len(runs) = 0 /\ DOMAIN runs = {} /\ LastRun = from
  BY <1>1 DEF LastRun
<1>3. ASSUME NEW t \in 0..(d - 1) PROVE InCalendar(t)
  <2>1. RunsAsked * Horizon \in Nat /\ Soon \in Nat /\ t \in Nat /\ t <= Soon
    BY <1>1 DEF Soon
  <2>2. DayOf(t) <= DayOf(Soon) /\ DayOf(t) \in Nat /\ DayOf(Soon) \in Nat
    BY <2>1, DayMonotone, DayNat
  <2>3. PICK x \in DOMAIN Calendar : x > DayOf(Soon) /\ Calendar[x].date = 1
    BY <1>1, CronAssumption DEF Soon
  <2>4. x \in Nat /\ DayOf(t) \in 0..x
    BY <2>2, <2>3, CronAssumption
  <2> QED
    BY <2>1, <2>3, <2>4, CronAssumption DEF InCalendar
<1>4. 0 * Horizon = 0
  BY <1>1
<1> QED
  BY <1>1, <1>2, <1>3, <1>4 DEF SearchInv

LEMMA SearchTells == SearchInv => NoRunSkipped
<1> SUFFICES ASSUME SearchInv PROVE NoRunSkipped
  OBVIOUS
<1>1. ASSUME NEW t \in (from + 1)..(IF cronStage = "null" THEN LastRun + Horizon ELSE d - 1)
      PROVE  t \in (from + 1)..(d - 1)
  <2>1. LastRun \in Nat /\ Horizon \in Nat /\ d \in Nat /\ from \in Nat
    BY CronAssumption, SMTT(60) DEF LastRun, SearchInv
  <2>2. cronStage = "null" => d > LastRun + Horizon
    BY DEF SearchInv
  <2> QED
    BY <1>1, <2>1, <2>2
<1>2. \A t \in (from + 1)..(d - 1) : CronDue(t) <=> \E i \in DOMAIN runs : runs[i] = t
  BY DEF SearchInv
<1>3. \A i \in DOMAIN runs : runs[i] > IF i = 1 THEN from ELSE runs[i - 1]
  BY DEF SearchInv
<1> QED
  BY <1>1, <1>2, <1>3 DEF NoRunSkipped

\* For any expression, calendar, start, horizon and number of runs asked for, the
\* search finds every minute that is due, in order, although it leaps over
\* months, days and hours.
THEOREM NoneEverSkipped == CronSpec => []NoRunSkipped
  BY SearchStarts, SearchStep, SearchTells, PTL DEF CronSpec

----------------------------------------------------------------------------
(* Streamed query results (QueryStream) *)

LEMMA LowerOfTwo ==
  ASSUME NEW a \in Int, NEW b \in Int
  PROVE  Min({a, b}) = IF a <= b THEN a ELSE b
<1>1. CASE a <= b
  <2>1. a \in {a, b} /\ \A y \in {a, b} : a <= y
    BY <1>1
  <2>2. Min({a, b}) \in {a, b} /\ \A y \in {a, b} : Min({a, b}) <= y
    BY <2>1 DEF Min
  <2> QED
    BY <1>1, <2>2
<1>2. CASE ~(a <= b)
  <2>1. b \in {a, b} /\ \A y \in {a, b} : b <= y
    BY <1>2
  <2>2. Min({a, b}) \in {a, b} /\ \A y \in {a, b} : Min({a, b}) <= y
    BY <2>1 DEF Min
  <2> QED
    BY <1>2, <2>2
<1> QED
  BY <1>1, <1>2

LEMMA CapOrTotal ==
  ASSUME StreamTypeOK
  PROVE  Min({cap, total}) = IF cap <= total THEN cap ELSE total
<1>1. cap \in Int /\ total \in Int
  BY StreamAssumption DEF StreamTypeOK
<1> QED
  BY <1>1, LowerOfTwo

\* Rows that were fetched and are not yet handed over.
InHand == IF fetcher = "rows" THEN chunk ELSE 0

\* How far the fetching has come.
FetchInv ==
  /\ fetched <= cap /\ fetched <= total
  /\ truncated => fetched = cap /\ total > cap
  /\ fetcher \in {"slot", "open"} => fetched = 0 /\ ~truncated
  /\ fetcher = "fetch" => ~truncated /\ (streaming <=> format = "ndjson")
  /\ fetcher \in {"rows", "drain"} => (streaming <=> format = "ndjson")
  /\ race = "won" => /\ fetcher = "returned" /\ fetched = Min({cap, total})
                     /\ truncated <=> total > cap

\* What a client that is still there has got.
OpenInv ==
  response = "open" =>
    /\ \A i \in 1..Len(body) : body[i] = "rows"
    /\ body = << >> => rowsSent = 0
    /\ body # << >> => streaming
    /\ IF format = "ndjson" THEN rowsSent + InHand = fetched ELSE body = << >>

\* What a client was told.
EndInv ==
  response = "ended" =>
    /\ race # "open"
    /\ Len(body) > 0 /\ body[Len(body)] \in Trailers
    /\ \A i \in 1..(Len(body) - 1) : body[i] = "rows"
    /\ body[Len(body)] = "summary" => race = "won" /\ rowsSent = fetched
    /\ body[Len(body)] = "refused" => rowsSent = 0

StreamInv == StreamTypeOK /\ FetchInv /\ OpenInv /\ EndInv

LEMMA StreamStarts == StreamInit => StreamInv
<1> SUFFICES ASSUME StreamInit PROVE StreamInv
  OBVIOUS
<1>1. StreamTypeOK
  <2>1. << >> \in Seq({"rows"} \cup Trailers)
    OBVIOUS
  <2>2. 0 \in 0..MaxRows /\ 0 \in 0..ChunkRows
    BY StreamAssumption
  <2> QED
    BY <2>1, <2>2 DEF StreamInit, StreamTypeOK
<1> QED
  BY <1>1 DEF StreamInit, StreamInv, FetchInv, OpenInv, EndInv, InHand, StreamTypeOK

\* A step that writes nothing and leaves the response as it is.
LEMMA SilentStep ==
  ASSUME StreamTypeOK, OpenInv, EndInv, UNCHANGED <<format, body, rowsSent, response>>,
         rowsSent + InHand = fetched => rowsSent + InHand' = fetched',
         streaming => streaming',
         response = "ended" /\ race # "open" => race' = race,
         race = "won" => UNCHANGED fetched
  PROVE  OpenInv' /\ EndInv'
<1>1. OpenInv'
  BY DEF OpenInv
<1>2. EndInv'
  BY DEF EndInv
<1> QED
  BY <1>1, <1>2

\* A result that was cut is cut at the cap.
LEMMA AfterRowsWon ==
  ASSUME StreamTypeOK, FetchInv, truncated
  PROVE  fetched = Min({cap, total}) /\ total > cap
<1>1. cap \in Int /\ total \in Int /\ fetched = cap /\ total > cap
  BY DEF StreamTypeOK, FetchInv
<1> QED
  BY <1>1, LowerOfTwo

LEMMA StreamStep == StreamInv /\ [StreamNext]_streamVars => StreamInv'
<1> SUFFICES ASSUME StreamInv, [StreamNext]_streamVars PROVE StreamInv'
  OBVIOUS
<1> USE DEF StreamInv
<1>1. CASE Connected
  <2>1. StreamTypeOK' /\ FetchInv'
    BY <1>1 DEF Connected, StreamTypeOK, FetchInv
  <2>2. OpenInv' /\ EndInv'
    BY <1>1, SilentStep DEF Connected, FetchInv, InHand
  <2> QED
    BY <2>1, <2>2
<1>2. CASE Opened
  <2>1. StreamTypeOK' /\ FetchInv'
    BY <1>2 DEF Opened, StreamTypeOK, FetchInv
  <2>2. OpenInv'
    BY <1>2 DEF Opened, FetchInv, InHand, OpenInv
  <2>3. EndInv'
    BY <1>2 DEF Opened, EndInv
  <2> QED
    BY <2>1, <2>2, <2>3
<1>3. CASE QueryFails
  <2>1. StreamTypeOK' /\ FetchInv'
    BY <1>3 DEF QueryFails, Settles, StreamTypeOK, FetchInv
  <2>2. OpenInv' /\ EndInv'
    BY <1>3, SilentStep DEF QueryFails, Settles, FetchInv, InHand
  <2> QED
    BY <2>1, <2>2
<1>4. CASE StopFetching
  <2>1. StreamTypeOK' /\ FetchInv'
    BY <1>4 DEF StopFetching, isCancelled, StreamTypeOK, FetchInv
  <2>2. OpenInv' /\ EndInv'
    BY <1>4, SilentStep DEF StopFetching, FetchInv, InHand
  <2> QED
    BY <2>1, <2>2
<1>5. CASE ResultEnds
  <2>1. cap \in Int /\ total \in Int /\ fetched \in Int
    BY DEF StreamTypeOK
  <2>2. fetched = Min({cap, total}) /\ ~truncated /\ ~(total > cap)
    BY <1>5, <2>1, CapOrTotal DEF ResultEnds, FetchInv
  <2>3. StreamTypeOK' /\ FetchInv'
    BY <1>5, <2>2 DEF ResultEnds, Settles, StreamTypeOK, FetchInv
  <2>4. OpenInv' /\ EndInv'
    BY <1>5, SilentStep DEF ResultEnds, Settles, FetchInv, InHand
  <2> QED
    BY <2>3, <2>4
<1>6. CASE MoreThanCap
  <2>1. cap \in Int /\ total \in Int /\ fetched \in Int
    BY DEF StreamTypeOK
  <2>2. fetched = Min({cap, total}) /\ fetched = cap /\ total > cap
    BY <1>6, <2>1, CapOrTotal DEF MoreThanCap, FetchInv
  <2>3. StreamTypeOK' /\ FetchInv'
    BY <1>6, <2>2 DEF MoreThanCap, Settles, StreamTypeOK, FetchInv
  <2>4. OpenInv' /\ EndInv'
    BY <1>6, SilentStep DEF MoreThanCap, Settles, FetchInv, InHand
  <2> QED
    BY <2>3, <2>4
<1>7. CASE ChunkComes
  <2>1. cap \in 1..MaxRows /\ total \in 0..MaxRows /\ fetched \in 0..MaxRows
        /\ ChunkRows \in Nat \ {0} /\ MaxRows \in Nat
    BY StreamAssumption DEF StreamTypeOK
  <2>2. fetched < cap /\ fetched < total
    BY <1>7, <2>1, CapOrTotal DEF ChunkComes
  <2>3. PICK n \in 1..Min({ChunkRows, total - fetched}) :
          /\ chunk' = Min({n, cap - fetched})
          /\ truncated' = (fetched + n > cap)
          /\ fetched' = fetched + chunk'
    BY <1>7 DEF ChunkComes
  <2>4. n \in Nat /\ 1 <= n /\ n <= ChunkRows /\ n <= total - fetched
    <3>1. total - fetched \in Int /\ ChunkRows \in Int
      BY <2>1
    <3>2. Min({ChunkRows, total - fetched})
            = IF ChunkRows <= total - fetched THEN ChunkRows ELSE total - fetched
      BY <3>1, LowerOfTwo
    <3> QED
      BY <2>1, <2>3, <3>2
  <2>5. chunk' = IF n <= cap - fetched THEN n ELSE cap - fetched
    <3>1. n \in Int /\ cap - fetched \in Int
      BY <2>1, <2>4
    <3>2. Min({n, cap - fetched}) = IF n <= cap - fetched THEN n ELSE cap - fetched
      BY <3>1, LowerOfTwo
    <3> QED
      BY <2>3, <3>2
  <2>6. /\ chunk' \in 0..ChunkRows /\ fetched' \in 0..MaxRows
        /\ fetched' <= cap /\ fetched' <= total /\ truncated' \in BOOLEAN
        /\ truncated' => fetched' = cap /\ total > cap
    <3>1. cap \in Nat /\ total \in Nat /\ fetched \in Nat /\ chunk' \in Nat
      BY <2>1, <2>2, <2>4, <2>5
    <3> DEFINE c == chunk'
               g == fetched'
               f == fetched
    <3>2. /\ c \in Nat /\ f \in Nat /\ g = f + c
          /\ c = IF n <= cap - f THEN n ELSE cap - f
          /\ truncated' = (f + n > cap)
      BY <2>3, <2>5, <3>1
    <3>3. f < cap /\ f < total
      BY <2>2
    <3> HIDE DEF c, g, f
    <3>4. n <= total - f
      BY <2>4 DEF f
    <3>5. g \in Nat /\ g <= cap /\ g <= total /\ c <= ChunkRows
      <4>1. n \in Nat /\ n <= ChunkRows /\ ChunkRows \in Nat
        BY <2>1, <2>4
      <4>2. c <= n /\ c <= cap - f
        BY <3>1, <3>2, <4>1
      <4>3. c <= ChunkRows
        BY <3>2, <4>1, <4>2
      <4>4. g \in Nat
        BY <3>2
      <4>5. g <= cap
        BY <3>1, <3>2, <4>2
      <4>6. g <= total
        BY <3>1, <3>2, <3>4, <4>1, <4>2
      <4> QED
        BY <4>3, <4>4, <4>5, <4>6
    <3>6. truncated' => g = cap /\ total > cap
      <4>1. SUFFICES ASSUME truncated' PROVE g = cap /\ total > cap
        OBVIOUS
      <4>2. f + n > cap /\ n \in Nat
        BY <2>4, <3>2, <4>1
      <4>3. ~(n <= cap - f)
        BY <3>1, <3>2, <4>2
      <4>4. c = cap - f
        BY <3>2, <4>3
      <4>5. g = cap
        BY <3>1, <3>2, <4>4
      <4>6. total > cap
        BY <3>1, <3>2, <3>4, <4>2
      <4> QED
        BY <4>5, <4>6
    <3>7. c \in 0..ChunkRows /\ g \in 0..MaxRows
      BY <2>1, <3>1, <3>2, <3>5
    <3>8. truncated' \in BOOLEAN
      BY <3>2
    <3> QED
      BY <3>5, <3>6, <3>7, <3>8 DEF c, g, f
  <2>7. /\ fetcher = "fetch" /\ fetcher' = "rows"
        /\ UNCHANGED <<format, cap, total, race, streaming, body, rowsSent, response>>
    BY <1>7 DEF ChunkComes
  <2>8. race # "won"
    BY <2>7 DEF FetchInv
  <2>9. StreamTypeOK' /\ FetchInv'
    BY <2>6, <2>7, <2>8 DEF StreamTypeOK, FetchInv
  <2>10. rowsSent + InHand = fetched => rowsSent + InHand' = fetched'
    BY <2>1, <2>3, <2>6, <2>7 DEF InHand, StreamTypeOK
  <2>11. OpenInv' /\ EndInv'
    BY <2>7, <2>8, <2>10, SilentStep
  <2> QED
    BY <2>9, <2>11
<1>8. CASE HandOver
  <2>1. /\ fetcher = "rows" /\ fetcher' \in {"drain", AfterRows}
        /\ fetcher' = "returned" => truncated
        /\ race' = race \/ (race' = "won" /\ race = "open" /\ fetcher' = "returned")
        /\ UNCHANGED <<format, cap, total, fetched, chunk, truncated, streaming, response>>
    BY <1>8 DEF HandOver, AfterRows, Settles
  <2>2. race # "won" /\ (streaming <=> format = "ndjson")
    BY <2>1 DEF FetchInv
  <2>3. FetchInv'
    BY <2>1, <2>2, AfterRowsWon DEF FetchInv, AfterRows
  <2>4. CASE format = "ndjson" /\ response = "open"
    <3>1. body' = Append(body, "rows") /\ rowsSent' = rowsSent + chunk
      BY <1>8, <2>4 DEF HandOver, MayWrite
    <3>2. body \in Seq({"rows"} \cup Trailers) /\ rowsSent \in Nat /\ chunk \in Nat
          /\ fetched \in 0..MaxRows
      BY StreamAssumption DEF StreamTypeOK
    <3>3. rowsSent' = fetched
      BY <2>1, <2>4, <3>1 DEF OpenInv, InHand
    <3>4. /\ body' \in Seq({"rows"} \cup Trailers) /\ body' # << >>
          /\ \A i \in 1..Len(body') : body'[i] = "rows"
      <4>1. \A i \in 1..Len(body) : body[i] = "rows"
        BY <2>4 DEF OpenInv
      <4>2. Len(body') = Len(body) + 1 /\ body'[Len(body) + 1] = "rows" /\ Len(body) \in Nat
            /\ \A i \in 1..Len(body) : body'[i] = body[i]
        BY <3>1, <3>2
      <4>3. \A i \in 1..(Len(body) + 1) : i \in 1..Len(body) \/ i = Len(body) + 1
        BY <4>2
      <4>4. body' \in Seq({"rows"} \cup Trailers)
        BY <3>1, <3>2
      <4> QED
        BY <4>1, <4>2, <4>3, <4>4
    <3>5. StreamTypeOK'
      BY <2>1, <3>2, <3>3, <3>4 DEF StreamTypeOK, AfterRows
    <3>6. InHand' = 0
      BY <2>1 DEF InHand, AfterRows
    <3>7. OpenInv' /\ EndInv'
      BY <2>1, <2>2, <2>4, <3>2, <3>3, <3>4, <3>6 DEF OpenInv, EndInv
    <3> QED
      BY <2>3, <3>5, <3>7
  <2>5. CASE ~(format = "ndjson" /\ response = "open")
    <3>1. UNCHANGED <<body, rowsSent>>
      BY <1>8, <2>5 DEF HandOver, MayWrite
    <3>2. StreamTypeOK'
      BY <2>1, <3>1 DEF StreamTypeOK, AfterRows
    <3>3. OpenInv' /\ EndInv'
      BY <2>1, <2>5, <3>1 DEF OpenInv, EndInv
    <3> QED
      BY <2>3, <3>2, <3>3
  <2> QED
    BY <2>4, <2>5
<1>9. CASE Drained
  <2>1. StreamTypeOK' /\ FetchInv'
    BY <1>9, AfterRowsWon DEF Drained, AfterRows, Settles, StreamTypeOK, FetchInv
  <2>2. OpenInv' /\ EndInv'
    BY <1>9, SilentStep DEF Drained, AfterRows, Settles, FetchInv, InHand
  <2> QED
    BY <2>1, <2>2
<1>10. CASE Deadline
  <2>1. StreamTypeOK' /\ FetchInv'
    BY <1>10 DEF Deadline, StreamTypeOK, FetchInv
  <2>2. OpenInv' /\ EndInv'
    BY <1>10, SilentStep DEF Deadline, InHand
  <2> QED
    BY <2>1, <2>2
<1>11. CASE ClientLeaves
  <2>1. StreamTypeOK' /\ FetchInv'
    BY <1>11 DEF ClientLeaves, Settles, StreamTypeOK, FetchInv
  <2>2. OpenInv' /\ EndInv'
    BY <1>11 DEF ClientLeaves, OpenInv, EndInv
  <2> QED
    BY <2>1, <2>2
<1>12. CASE HandlerEnds
  <2>1. /\ race # "open" /\ response = "open" /\ response' = "ended"
        /\ UNCHANGED <<format, cap, total, fetcher, fetched, chunk, truncated, race, streaming>>
    BY <1>12 DEF HandlerEnds
  <2>2. FetchInv' /\ OpenInv'
    BY <2>1 DEF FetchInv, OpenInv
  <2>3. body \in Seq({"rows"} \cup Trailers) /\ rowsSent \in 0..MaxRows /\ fetched \in 0..MaxRows
    BY DEF StreamTypeOK
  <2>4. CASE format = "json" /\ race = "won"
    <3>1. body' = <<"rows", "summary">> /\ rowsSent' = fetched
      BY <1>12, <2>4 DEF HandlerEnds
    <3>2. body' \in Seq({"rows"} \cup Trailers) /\ Len(body') = 2 /\ body'[1] = "rows"
          /\ body'[2] = "summary"
      BY <3>1 DEF Trailers
    <3>3. StreamTypeOK'
      BY <2>1, <2>3, <3>1, <3>2 DEF StreamTypeOK
    <3>4. \A i \in 1..(2 - 1) : i = 1
      OBVIOUS
    <3>5. EndInv'
      BY <2>1, <2>4, <3>1, <3>2, <3>4 DEF EndInv, Trailers
    <3> QED
      BY <2>2, <3>3, <3>5
  <2>5. CASE ~(format = "json" /\ race = "won")
    <3>1. body' = Append(body, Trailer) /\ rowsSent' = rowsSent /\ Trailer \in Trailers
      BY <1>12, <2>5 DEF HandlerEnds, Trailer, Trailers
    <3>2. /\ body' \in Seq({"rows"} \cup Trailers) /\ Len(body) \in Nat
          /\ Len(body') = Len(body) + 1 /\ body'[Len(body) + 1] = Trailer
          /\ \A i \in 1..Len(body) : body'[i] = body[i]
      BY <2>3, <3>1
    <3>3. StreamTypeOK'
      BY <2>1, <2>3, <3>1, <3>2 DEF StreamTypeOK
    <3>4. \A i \in 1..(Len(body') - 1) : body'[i] = "rows"
      <4>1. 1..(Len(body') - 1) = 1..Len(body)
        BY <3>2
      <4> QED
        BY <2>1, <3>2, <4>1 DEF OpenInv
    <3>5. Trailer = "summary" => race = "won" /\ rowsSent = fetched
      <4>1. Trailer = "summary" => race = "won" /\ format = "ndjson"
        BY <2>5 DEF Trailer, StreamTypeOK
      <4>2. race = "won" => fetcher = "returned"
        BY DEF FetchInv
      <4> QED
        BY <2>1, <2>3, <4>1, <4>2 DEF OpenInv, InHand
    <3>6. Trailer = "refused" => rowsSent = 0
      BY <2>1 DEF Trailer, OpenInv
    <3>7. EndInv'
      BY <2>1, <3>1, <3>2, <3>4, <3>5, <3>6 DEF EndInv
    <3> QED
      BY <2>2, <3>3, <3>7
  <2> QED
    BY <2>4, <2>5
<1>13. CASE UNCHANGED streamVars
  <2>1. StreamTypeOK' /\ FetchInv'
    BY <1>13 DEF streamVars, StreamTypeOK, FetchInv
  <2>2. OpenInv' /\ EndInv'
    BY <1>13 DEF streamVars, OpenInv, EndInv, InHand
  <2> QED
    BY <2>1, <2>2
<1> QED
  BY <1>1, <1>2, <1>3, <1>4, <1>5, <1>6, <1>7, <1>8, <1>9, <1>10, <1>11, <1>12, <1>13
     DEF StreamNext

LEMMA StreamTells == StreamInv => StreamTypeOK /\ ToldTruth
  BY CapOrTotal DEF StreamInv, EndInv, FetchInv, ToldTruth

\* Whatever the size of chunks and results, a client that stays to the end can
\* tell a whole result from one that was cut, and one that was cut from an error.
THEOREM AlwaysToldTruth == StreamSpec => [](StreamTypeOK /\ ToldTruth)
  BY StreamStarts, StreamStep, StreamTells, PTL DEF StreamSpec

----------------------------------------------------------------------------
(* Records and their files (RecordBlobs) *)

Here == RecordIds(recordRows)
BlobRows == [by : Requests \cup {Earlier}, id : Records, old : BOOLEAN]
UploadSteps == {"table", "known", "unknown", "create", "alter", "count", "write", "store"}
PruneSteps == {"evaluate", "collect", "purge", "sweep"}

\* What a request does next is a step of what it asks.
Fits(op, step) ==
  /\ step \in UploadSteps => op = "upload"
  /\ step = "select" => op \in {"download", "remove"}
  /\ step = "read" => op = "download"
  /\ step = "unlink" => op = "remove"
  /\ step = "delete" => op \in {"remove", "drop"}
  /\ step = "patch" => op = "patch"
  /\ step \in PruneSteps => op = "prune"
OfItsOwn(r) == Fits(ask[r].op, reached[r])

BlobsTyped ==
  /\ ask \in [Requests -> [op : Ops, id : Records]]
  /\ reached = [r \in Requests |-> reached[r]] /\ heard = [r \in Requests |-> heard[r]]
  /\ seenRow = [r \in Requests |-> seenRow[r]]
  /\ blobFiles = [f \in Paths |-> blobFiles[f]] /\ last = [i \in Records |-> last[i]]
  /\ recordRows \subseteq BlobRows /\ settled \subseteq Records /\ calm \subseteq Requests
  /\ \A r \in Requests : OfItsOwn(r) /\ seenRow[r] \subseteq Records

\* A request that is still calm has no change beside it.
Apart ==
  \A r \in calm, q \in Requests :
    Active(r) /\ q # r /\ Active(q) /\ Changes(q) => ~Meet(q, r)

\* A change of i has done a part of what it does.
Halfway(q, i) ==
  \/ /\ PathOf[Id(q)] = PathOf[i]
     /\ reached[q] = "store" \/ (reached[q] = "delete" /\ ask[q].op = "remove")
  \/ reached[q] = "sweep" /\ q \notin calm

\* Row and file are those of the last upload.
Truthful(i) == IF i \in Here THEN blobFiles[PathOf[i]] = last[i] ELSE last[i] = NoFile
SettledTrue == \A i \in settled : Truthful(i) \/ \E q \in Requests : Halfway(q, i)

\* What a calm request has read or written is still so.
Holds(q) ==
  /\ reached[q] # "idle"
  /\ reached[q] = "store" => blobFiles[PathOf[Id(q)]] = q
  /\ reached[q] \in {"write", "store"} => (seenRow[q] # {} <=> Id(q) \in Here)
  /\ reached[q] = "read" => Id(q) \in Here
  /\ reached[q] = "purge" => seenRow[q] \subseteq RecordIds(OldRows)
  /\ reached[q] = "sweep" =>
       \A j \in seenRow[q], i \in settled : PathOf[i] = PathOf[j] => i \notin Here

NotHeard == \A r \in Requests : reached[r] # "done" => heard[r] = NoFile

\* The inductive invariant of DownloadsTrue.
BlobInv ==
  BlobsTyped /\ Apart /\ SettledTrue /\ (\A q \in calm : Holds(q)) /\ NotHeard

LEMMA HereIs == \A i : RowsAt(i) # {} <=> i \in Here
  BY DEF RowsAt, Here, RecordIds

LEMMA HereTouched ==
  ASSUME recordRows \subseteq BlobRows, NEW i,
         recordRows' = (recordRows \ RowsAt(i)) \cup {[w EXCEPT !.old = FALSE] : w \in RowsAt(i)}
  PROVE  Here' = Here /\ recordRows' \subseteq BlobRows
<1>1. \A w \in RowsAt(i) : /\ w \in recordRows /\ w.id = i
                           /\ [w EXCEPT !.old = FALSE].id = i /\ [w EXCEPT !.old = FALSE] \in BlobRows
  BY DEF RowsAt, BlobRows
<1>2. recordRows' \subseteq BlobRows
  BY <1>1
<1>3. ASSUME NEW j \in Here PROVE j \in Here'
  <2>1. PICK w \in recordRows : w.id = j
    BY <1>3 DEF Here, RecordIds
  <2>2. CASE w \in RowsAt(i)
    <3>1. [w EXCEPT !.old = FALSE] \in recordRows' /\ [w EXCEPT !.old = FALSE].id = j
      BY <1>1, <2>1, <2>2
    <3> QED
      BY <3>1 DEF Here, RecordIds
  <2>3. CASE w \notin RowsAt(i)
    BY <2>1, <2>3 DEF Here, RecordIds
  <2> QED
    BY <2>2, <2>3
<1>4. ASSUME NEW j \in Here' PROVE j \in Here
  <2>1. PICK w \in recordRows' : w.id = j
    BY <1>4 DEF Here, RecordIds
  <2>2. CASE w \in recordRows
    BY <2>1, <2>2 DEF Here, RecordIds
  <2>3. CASE w \notin recordRows
    <3>1. PICK v \in RowsAt(i) : w = [v EXCEPT !.old = FALSE]
      BY <2>1, <2>3
    <3> QED
      BY <1>1, <2>1, <3>1 DEF Here, RecordIds
  <2> QED
    BY <2>2, <2>3
<1> QED
  BY <1>2, <1>3, <1>4

LEMMA HereDeleted ==
  ASSUME NEW i, recordRows' = recordRows \ RowsAt(i) PROVE Here' = Here \ {i}
  BY DEF RowsAt, Here, RecordIds

LEMMA HereAdded ==
  ASSUME NEW i, NEW w, w.id = i, recordRows' = recordRows \cup {w} PROVE Here' = Here \cup {i}
  BY DEF Here, RecordIds

----------------------------------------------------------------------------
\* Of the statements, those that change neither files nor which records there are.
Quiet(r) ==
  /\ reached[r] \notin {"store", "sweep", "delete", "idle", "done", "failed"}
  /\ UNCHANGED <<ask, calm, blobFiles, last, settled>> /\ Here' = Here
  /\ \E s : reached' = [reached EXCEPT ![r] = s]

LEMMA QuietTrue ==
  ASSUME BlobInv, NEW r \in Requests, Quiet(r) PROVE SettledTrue'
<1>1. PICK s : reached' = [reached EXCEPT ![r] = s]
  BY DEF Quiet
<1>2. ASSUME NEW i \in settled, ~Truthful(i) PROVE \E q \in Requests : Halfway(q, i)'
  <2>1. PICK q \in Requests : Halfway(q, i)
    BY <1>2 DEF BlobInv, SettledTrue
  <2>2. q # r
    BY <2>1 DEF Halfway, Quiet
  <2>3. reached'[q] = reached[q]
    BY <1>1, <2>2 DEF BlobInv, BlobsTyped
  <2>4. Halfway(q, i)'
    BY <2>1, <2>3 DEF Halfway, Quiet, Id
  <2> QED
    BY <2>4
<1>3. \A i \in settled : Truthful(i) => Truthful(i)'
  BY DEF Truthful, Quiet
<1> QED
  BY <1>2, <1>3 DEF SettledTrue, Quiet

\* What a change that is no prune job does to other paths: nothing.
Aside(r) ==
  \A i \in Records : PathOf[i] # PathOf[Id(r)] =>
    /\ i \in Here' <=> i \in Here
    /\ blobFiles'[PathOf[i]] = blobFiles[PathOf[i]] /\ last'[i] = last[i]
    /\ i \in settled' <=> i \in settled

Step(r) ==
  /\ Active(r) /\ UNCHANGED <<ask, calm>>
  /\ \E s : reached' = [reached EXCEPT ![r] = s]
  /\ \A q \in Requests : q # r => seenRow'[q] = seenRow[q]
  /\ ask[r].op = "download" => UNCHANGED <<recordRows, blobFiles, last, settled>>
  /\ ask[r].op \notin {"download", "prune"} => Aside(r)

LEMMA OthersHold ==
  ASSUME BlobInv, NEW r \in Requests, Step(r), NEW q \in calm, q # r
  PROVE  Holds(q)'
<1>1. Holds(q) /\ q \in Requests /\ reached = [p \in Requests |-> reached[p]]
  BY DEF BlobInv, BlobsTyped
<1>2. PICK s : reached' = [reached EXCEPT ![r] = s]
  BY DEF Step
<1>3. reached'[q] = reached[q] /\ seenRow'[q] = seenRow[q] /\ Id(q)' = Id(q)
  BY <1>1, <1>2 DEF Step, Id
<1>4. CASE ~Active(q)
  BY <1>1, <1>3, <1>4 DEF Holds, Active
<1>5. CASE Active(q) /\ ask[r].op = "download"
  <2>1. UNCHANGED <<recordRows, blobFiles, settled>>
    BY <1>5 DEF Step
  <2> QED
    BY <1>1, <1>3, <2>1 DEF Holds, Here, OldRows
<1>6. CASE Active(q) /\ ask[r].op # "download"
  <2>1. ~Meet(r, q)
    BY <1>1, <1>6 DEF BlobInv, Apart, Step, Changes
  <2>2. ask[r].op # "prune" /\ ask[q].op # "prune" /\ PathOf[Id(q)] # PathOf[Id(r)]
    BY <2>1 DEF Meet
  <2>3. reached[q] \notin {"purge", "sweep"} /\ Id(q) \in Records
    BY <1>1, <2>2 DEF BlobInv, BlobsTyped, OfItsOwn, Fits, PruneSteps, Id
  <2>4. /\ Id(q) \in Here' <=> Id(q) \in Here
        /\ blobFiles'[PathOf[Id(q)]] = blobFiles[PathOf[Id(q)]]
    BY <1>6, <2>2, <2>3 DEF Step, Aside
  <2> QED
    BY <1>1, <1>3, <2>3, <2>4 DEF Holds
<1> QED
  BY <1>4, <1>5, <1>6

\* A change of one path keeps what is settled about others.
LEMMA OthersTrue ==
  ASSUME BlobInv, BlobsTyped', NEW r \in Requests, Step(r),
         ask[r].op \notin {"download", "prune"}, NEW i \in settled', PathOf[i] # PathOf[Id(r)]
  PROVE  Truthful(i)' \/ \E q \in Requests : Halfway(q, i)'
<1>1. /\ i \in Records /\ i \in settled /\ (i \in Here' <=> i \in Here)
      /\ blobFiles'[PathOf[i]] = blobFiles[PathOf[i]] /\ last'[i] = last[i]
  <2>1. i \in Records
    BY DEF BlobsTyped
  <2> QED
    BY <2>1 DEF Step, Aside
<1>2. CASE Truthful(i)
  BY <1>1, <1>2 DEF Truthful
<1>3. CASE ~Truthful(i)
  <2>1. PICK q \in Requests : Halfway(q, i)
    BY <1>1, <1>3 DEF BlobInv, SettledTrue
  <2>2. q # r
    BY <2>1 DEF Halfway, BlobInv, BlobsTyped, OfItsOwn, Fits, PruneSteps
  <2>3. reached'[q] = reached[q]
    BY <2>2 DEF Step, BlobInv, BlobsTyped
  <2>4. Halfway(q, i)'
    BY <2>1, <2>3 DEF Halfway, Step, Id
  <2> QED
    BY <2>4
<1> QED
  BY <1>2, <1>3

\* What is left to show of a statement.
LEMMA Together ==
  ASSUME BlobInv, NEW r \in Requests, Step(r), BlobsTyped', SettledTrue', r \in calm => Holds(r)',
         \/ heard' = heard
         \/ reached'[r] = "done" /\ \A q \in Requests : q # r => heard'[q] = heard[q]
  PROVE  BlobInv'
<1>1. PICK s : reached' = [reached EXCEPT ![r] = s]
  BY DEF Step
<1>2. \A q \in Requests : q # r => reached'[q] = reached[q]
  BY <1>1 DEF BlobInv, BlobsTyped
<1>3. \A q \in Requests : Active(q)' => Active(q)
  BY <1>2 DEF Step, Active
<1>4. Apart'
  BY <1>3 DEF BlobInv, BlobsTyped, Apart, Step, Changes, Meet, Id
<1>5. \A q \in calm' : Holds(q)'
  BY OthersHold DEF Step
<1>6. NotHeard'
  <2>1. reached[r] # "done"
    BY DEF Step, Active
  <2> QED
    BY <1>2, <2>1 DEF BlobInv, NotHeard
<1> QED
  BY <1>4, <1>5, <1>6 DEF BlobInv

\* A request that goes on.
LEMMA GoesOn ==
  ASSUME BlobsTyped, NEW r \in Requests, NEW s, Go(r, s), ask' = ask, Fits(ask[r].op, s)
  PROVE  /\ reached' = [q \in Requests |-> reached'[q]] /\ reached'[r] = s
         /\ \A q \in Requests : OfItsOwn(q)'
<1>1. reached' = [reached EXCEPT ![r] = s] /\ reached = [q \in Requests |-> reached[q]]
  BY DEF Go, BlobsTyped
<1>2. reached'[r] = s /\ \A q \in Requests : q # r => reached'[q] = reached[q]
  BY <1>1
<1>3. reached' = [q \in Requests |-> reached'[q]]
  BY <1>1
<1> QED
  BY <1>2, <1>3 DEF BlobsTyped, OfItsOwn

\* Looking at the table, the column, the row: the statements that write nothing.
LEMMA Looks ==
  ASSUME BlobInv, NEW r \in Requests, Active(r), NEW s, Go(r, s), Fits(ask[r].op, s),
         reached[r] \notin {"store", "sweep", "delete"}, s \notin {"idle", "store", "sweep"},
         UNCHANGED <<ask, calm, recordRows, blobFiles, last, settled>>,
         seenRow' = seenRow \/ \E R \in SUBSET Records : seenRow' = [seenRow EXCEPT ![r] = R],
         s \in {"write", "store"} => (seenRow'[r] # {} <=> Id(r) \in Here),
         s = "read" => Id(r) \in Here,
         s = "purge" => seenRow'[r] \subseteq RecordIds(OldRows),
         \/ heard' = heard
         \/ s = "done" /\ heard' = [q \in Requests |-> heard'[q]]
            /\ \A q \in Requests : q # r => heard'[q] = heard[q]
  PROVE  BlobInv'
<1>1. reached' = [q \in Requests |-> reached'[q]] /\ reached'[r] = s /\ \A q \in Requests : OfItsOwn(q)'
  BY GoesOn DEF BlobInv
<1>2. seenRow = [q \in Requests |-> seenRow[q]] /\ \A q \in Requests : seenRow[q] \subseteq Records
  BY DEF BlobInv, BlobsTyped
<1>3. /\ seenRow' = [q \in Requests |-> seenRow'[q]]
      /\ \A q \in Requests : seenRow'[q] \subseteq Records /\ (q # r => seenRow'[q] = seenRow[q])
  <2>1. CASE seenRow' = seenRow
    BY <1>2, <2>1
  <2>2. CASE \E R \in SUBSET Records : seenRow' = [seenRow EXCEPT ![r] = R]
    BY <1>2, <2>2
  <2> QED
    BY <2>1, <2>2
<1>4. BlobsTyped'
  BY <1>1, <1>3 DEF BlobInv, BlobsTyped
<1>5. Here' = Here /\ OldRows' = OldRows
  BY DEF Here, OldRows
<1>6. Step(r)
  BY <1>3, <1>5 DEF Step, Aside, Go
<1>7. SettledTrue'
  BY <1>5, QuietTrue DEF Quiet, Go, Active
<1>8. Holds(r)'
  BY <1>1, <1>5 DEF Holds, Id
<1> QED
  BY <1>1, <1>4, <1>6, <1>7, <1>8, Together

LEMMA LookKeeps ==
  ASSUME BlobInv, NEW r \in Requests, UNCHANGED <<ask, calm>>,
         \/ ProbeTable(r) \/ ProbeColumn(r) \/ CreateTable(r) \/ AddBlobColumn(r) \/ CountRows(r)
         \/ SelectPath(r) \/ ReadFile(r) \/ Evaluate(r) \/ CollectFiles(r)
  PROVE  BlobInv'
<1>0. /\ Id(r) \in Records /\ ask[r].op \in Ops /\ OfItsOwn(r)
      /\ recordRows \subseteq BlobRows /\ heard = [q \in Requests |-> heard[q]]
      /\ seenRow = [q \in Requests |-> seenRow[q]]
  BY DEF BlobInv, BlobsTyped, Id
<1> USE DEF Fits, UploadSteps, PruneSteps, Active
<1>1. CASE ProbeTable(r) \/ ProbeColumn(r) \/ CreateTable(r) \/ AddBlobColumn(r)
  <2>1. PICK s \in {"known", "unknown", "count", "alter", "create"} : Go(r, s)
    BY <1>1 DEF ProbeTable, ProbeColumn, CreateTable, AddBlobColumn
  <2>2. /\ reached[r] \in {"table", "known", "unknown", "create", "alter"}
        /\ UNCHANGED <<recordRows, blobFiles, last, settled, seenRow, heard>>
    BY <1>1 DEF ProbeTable, ProbeColumn, CreateTable, AddBlobColumn
  <2>3. Fits(ask[r].op, s)
    BY <1>0, <2>2 DEF OfItsOwn
  <2> QED
    BY <2>1, <2>2, <2>3, Looks
<1>2. CASE CountRows(r)
  <2> DEFINE R == RecordIds(RowsAt(Id(r)))
  <2>1. R \in SUBSET Records /\ (R # {} <=> Id(r) \in Here)
    BY <1>0 DEF RecordIds, RowsAt, Here, BlobRows
  <2> HIDE DEF R
  <2>2. /\ reached[r] = "count" /\ Go(r, "write") /\ seenRow' = [seenRow EXCEPT ![r] = R]
        /\ UNCHANGED <<recordRows, blobFiles, last, settled, heard>>
    BY <1>2 DEF CountRows, R
  <2>3. seenRow'[r] = R
    BY <1>0, <2>2
  <2>4. Fits(ask[r].op, "write")
    BY <1>0, <2>2 DEF OfItsOwn
  <2> QED
    BY <2>1, <2>2, <2>3, <2>4, Looks
<1>3. CASE SelectPath(r)
  <2>1. /\ reached[r] = "select"
        /\ UNCHANGED <<recordRows, blobFiles, last, settled, heard, seenRow>>
    BY <1>3 DEF SelectPath
  <2>2. ask[r].op \in {"download", "remove"}
    BY <1>0, <2>1 DEF OfItsOwn
  <2>3. CASE RowsAt(Id(r)) = {}
    <3>1. Go(r, "done")
      BY <1>3, <2>3 DEF SelectPath
    <3> QED
      BY <2>1, <3>1, Looks
  <2>4. CASE RowsAt(Id(r)) # {}
    <3>1. PICK s \in {"unlink", "read"} : Go(r, s) /\ Fits(ask[r].op, s)
      BY <1>3, <2>2, <2>4 DEF SelectPath
    <3> QED
      BY <2>1, <2>4, <3>1, HereIs, Looks
  <2> QED
    BY <2>3, <2>4
<1>4. CASE ReadFile(r)
  <2>1. /\ reached[r] = "read" /\ Go(r, "done")
        /\ UNCHANGED <<recordRows, blobFiles, last, settled, seenRow>>
        /\ heard' = [heard EXCEPT ![r] = blobFiles[PathOf[Id(r)]]]
    BY <1>4 DEF ReadFile
  <2>2. heard' = [q \in Requests |-> heard'[q]] /\ \A q \in Requests : q # r => heard'[q] = heard[q]
    BY <1>0, <2>1
  <2> QED
    BY <2>1, <2>2, Looks
<1>5. CASE Evaluate(r)
  <2>1. /\ reached[r] = "evaluate" /\ UNCHANGED <<recordRows, blobFiles, last, settled, seenRow, heard>>
    BY <1>5 DEF Evaluate
  <2>2. PICK s \in {"collect", "done"} : Go(r, s)
    BY <1>5 DEF Evaluate
  <2>3. Fits(ask[r].op, s)
    BY <1>0, <2>1 DEF OfItsOwn
  <2> QED
    BY <2>1, <2>2, <2>3, Looks
<1>6. CASE CollectFiles(r)
  <2> DEFINE R == RecordIds(OldRows)
  <2>1. R \in SUBSET Records
    BY <1>0 DEF RecordIds, OldRows, BlobRows
  <2>2. /\ reached[r] = "collect" /\ Go(r, "purge") /\ seenRow' = [seenRow EXCEPT ![r] = R]
        /\ UNCHANGED <<recordRows, blobFiles, last, settled, heard>>
    BY <1>6 DEF CollectFiles
  <2>3. seenRow'[r] = R
    BY <1>0, <2>2
  <2>4. Fits(ask[r].op, "purge")
    BY <1>0, <2>2 DEF OfItsOwn
  <2> QED
    BY <2>1, <2>2, <2>3, <2>4, Looks
<1> QED
  BY <1>1, <1>2, <1>3, <1>4, <1>5, <1>6

\* Row ages change nothing of this.
LEMMA PatchKeeps ==
  ASSUME BlobInv, NEW r \in Requests, UNCHANGED <<ask, calm>>, Patch(r)
  PROVE  BlobInv'
<1>0. recordRows \subseteq BlobRows /\ OfItsOwn(r)
  BY DEF BlobInv, BlobsTyped
<1>1. /\ reached[r] = "patch" /\ Go(r, "done")
      /\ UNCHANGED <<seenRow, heard, blobFiles, last, settled>>
      /\ recordRows' = (recordRows \ RowsAt(Id(r))) \cup {[w EXCEPT !.old = FALSE] : w \in RowsAt(Id(r))}
  BY DEF Patch
<1>2. Here' = Here /\ recordRows' \subseteq BlobRows
  BY <1>0, <1>1, HereTouched
<1>3. ask[r].op = "patch"
  BY <1>0, <1>1 DEF OfItsOwn, Fits
<1>4. Fits(ask[r].op, "done")
  BY DEF Fits, UploadSteps, PruneSteps
<1>5. /\ reached' = [q \in Requests |-> reached'[q]] /\ reached'[r] = "done"
      /\ \A q \in Requests : OfItsOwn(q)'
  BY <1>1, <1>4, GoesOn DEF BlobInv
<1>6. BlobsTyped'
  BY <1>1, <1>2, <1>5 DEF BlobInv, BlobsTyped
<1>7. Step(r)
  BY <1>1, <1>2, <1>3 DEF Step, Aside, Go, Active
<1>8. SettledTrue'
  BY <1>1, <1>2, QuietTrue DEF Quiet, Go
<1>9. Holds(r)'
  BY <1>5 DEF Holds
<1> QED
  BY <1>1, <1>6, <1>7, <1>8, <1>9, Together

\* A file is written or removed: its records are halfway.
LEMMA FileKeeps ==
  ASSUME BlobInv, NEW r \in Requests, UNCHANGED <<ask, calm>>, WriteBlob(r) \/ Unlink(r)
  PROVE  BlobInv'
<1>0. /\ Id(r) \in Records /\ OfItsOwn(r) /\ blobFiles = [f \in Paths |-> blobFiles[f]]
      /\ settled \subseteq Records
  BY DEF BlobInv, BlobsTyped, Id
<1> DEFINE f == IF reached[r] = "write" THEN r ELSE NoFile
<1>1. PICK s \in {"store", "delete"} :
        /\ Go(r, s) /\ blobFiles' = [blobFiles EXCEPT ![PathOf[Id(r)]] = f]
        /\ s = "store" => reached[r] = "write"
        /\ s = "delete" => reached[r] = "unlink"
        /\ UNCHANGED <<seenRow, heard, recordRows, last, settled>>
  BY DEF WriteBlob, Unlink, WrittenRow
<1>2. /\ s = "store" => ask[r].op = "upload"
      /\ s = "delete" => ask[r].op = "remove"
  BY <1>0, <1>1 DEF OfItsOwn, Fits, UploadSteps
<1>3. Fits(ask[r].op, s)
  BY <1>2 DEF Fits, UploadSteps, PruneSteps
<1>4. /\ reached' = [q \in Requests |-> reached'[q]] /\ reached'[r] = s
      /\ \A q \in Requests : OfItsOwn(q)'
  BY <1>1, <1>3, GoesOn DEF BlobInv
<1>5. \A i \in Records : PathOf[i] \in Paths
  BY DEF Paths
<1>6. /\ blobFiles' = [p \in Paths |-> blobFiles'[p]] /\ blobFiles'[PathOf[Id(r)]] = f
      /\ \A i \in Records : PathOf[i] # PathOf[Id(r)] => blobFiles'[PathOf[i]] = blobFiles[PathOf[i]]
  BY <1>0, <1>1, <1>5
<1>7. BlobsTyped'
  BY <1>1, <1>4, <1>6 DEF BlobInv, BlobsTyped
<1>8. Here' = Here
  BY <1>1 DEF Here
<1>9. Step(r)
  BY <1>1, <1>2, <1>6, <1>8 DEF Step, Aside, Go, Active
<1>10. SettledTrue'
  <2>1. ASSUME NEW i \in settled', PathOf[i] # PathOf[Id(r)]
        PROVE  Truthful(i)' \/ \E q \in Requests : Halfway(q, i)'
    BY <1>2, <1>7, <1>9, <2>1, OthersTrue
  <2>2. ASSUME NEW i \in settled', PathOf[i] = PathOf[Id(r)] PROVE Halfway(r, i)'
    BY <1>2, <1>4, <2>2 DEF Halfway, Id
  <2> QED
    BY <2>1, <2>2 DEF SettledTrue
<1>11. ASSUME r \in calm PROVE Holds(r)'
  <2>1. Holds(r)
    BY <1>11 DEF BlobInv
  <2> QED
    BY <1>1, <1>4, <1>6, <1>8, <2>1 DEF Holds, Id
<1> QED
  BY <1>1, <1>7, <1>9, <1>10, <1>11, Together

\* Nothing a calm request concerns is halfway because of another.
LEMMA NoneBeside ==
  ASSUME BlobInv, NEW r \in calm, Active(r), NEW q \in Requests, q # r, NEW i, Halfway(q, i),
         ask[r].op = "prune" \/ PathOf[i] = PathOf[Id(r)]
  PROVE  FALSE
<1>1. Active(q) /\ Changes(q)
  BY DEF Halfway, Active, Changes, BlobInv, BlobsTyped, OfItsOwn, Fits, UploadSteps, PruneSteps
<1>2. Meet(q, r)
  BY DEF Halfway, Meet, BlobInv, BlobsTyped, OfItsOwn, Fits, PruneSteps
<1> QED
  BY <1>1, <1>2 DEF BlobInv, Apart

\* The last statement of an upload or a deletion.
LEMMA ChangeEnds ==
  ASSUME BlobInv, NEW r \in Requests, Active(r), FinishRequest(r),
         UNCHANGED <<ask, calm, seenRow, heard, blobFiles>>,
         ask[r].op \in {"upload", "remove", "drop"}, reached[r] = "store" => ask[r].op # "drop",
         NEW l, last' = [last EXCEPT ![Id(r)] = l], recordRows' \subseteq BlobRows,
         \A i : i # Id(r) => (i \in Here' <=> i \in Here), r \in calm => Truthful(Id(r))'
  PROVE  BlobInv'
<1>0. /\ Id(r) \in Records /\ OfItsOwn(r) /\ last = [i \in Records |-> last[i]]
      /\ settled \subseteq Records
  BY DEF BlobInv, BlobsTyped, Id
<1>1. Go(r, "done") /\ Settle(r) /\ Fits(ask[r].op, "done")
  BY DEF FinishRequest, Fits, UploadSteps, PruneSteps
<1>2. /\ reached' = [q \in Requests |-> reached'[q]] /\ reached'[r] = "done"
      /\ \A q \in Requests : OfItsOwn(q)'
  BY <1>1, GoesOn DEF BlobInv
<1>3. last' = [i \in Records |-> last'[i]] /\ \A i \in Records : i # Id(r) => last'[i] = last[i]
  BY <1>0
<1>4. settled' \subseteq Records
      /\ \A i \in Records : PathOf[i] # PathOf[Id(r)] => (i \in settled' <=> i \in settled)
  BY <1>0, <1>1 DEF Settle, Touched
<1>5. \A i \in settled' : PathOf[i] = PathOf[Id(r)] =>
        r \in calm /\ (i = Id(r) \/ (ask[r].op = "drop" /\ i \in settled))
  BY <1>0, <1>1 DEF Settle, Touched
<1>6. BlobsTyped'
  BY <1>2, <1>3, <1>4 DEF BlobInv, BlobsTyped
<1>7. Step(r)
  BY <1>1, <1>3, <1>4 DEF Step, Aside, Go
<1>8. SettledTrue'
  <2>1. ASSUME NEW i \in settled', PathOf[i] # PathOf[Id(r)]
        PROVE  Truthful(i)' \/ \E q \in Requests : Halfway(q, i)'
    BY <1>6, <1>7, <2>1, OthersTrue
  <2>2. ASSUME NEW i \in settled', PathOf[i] = PathOf[Id(r)], i # Id(r) PROVE Truthful(i)'
    <3>1. r \in calm /\ ask[r].op = "drop" /\ i \in settled /\ i \in Records
      BY <1>4, <1>5, <2>2
    <3>2. ~Halfway(r, i)
      BY <1>0, <3>1 DEF Halfway, OfItsOwn, Fits, PruneSteps
    <3>3. \A q \in Requests : ~Halfway(q, i)
      BY <2>2, <3>1, <3>2, NoneBeside
    <3>4. Truthful(i)
      BY <3>1, <3>3 DEF BlobInv, SettledTrue
    <3> QED
      BY <1>3, <2>2, <3>1, <3>4 DEF Truthful
  <2>3. ASSUME NEW i \in settled', i = Id(r) PROVE Truthful(i)'
    <3>1. r \in calm /\ Id(r)' = i
      BY <1>5, <2>3 DEF Id
    <3> QED
      BY <2>3, <3>1
  <2> QED
    BY <2>1, <2>2, <2>3 DEF SettledTrue
<1>9. Holds(r)'
  BY <1>2 DEF Holds
<1> QED
  BY <1>6, <1>7, <1>8, <1>9, Together

LEMMA StoreKeeps ==
  ASSUME BlobInv, NEW r \in Requests, UNCHANGED <<ask, calm>>, StoreRow(r)
  PROVE  BlobInv'
<1>0. /\ Id(r) \in Records /\ OfItsOwn(r) /\ recordRows \subseteq BlobRows
      /\ last = [i \in Records |-> last[i]]
  BY DEF BlobInv, BlobsTyped, Id
<1>1. /\ reached[r] = "store" /\ FinishRequest(r) /\ last' = [last EXCEPT ![Id(r)] = r]
      /\ UNCHANGED <<seenRow, heard, blobFiles>>
  BY DEF StoreRow
<1>2. ask[r].op = "upload" /\ Active(r)
  BY <1>0, <1>1 DEF OfItsOwn, Fits, UploadSteps, Active
<1>3. /\ recordRows' \subseteq BlobRows
      /\ Here' = IF seenRow[r] # {} THEN Here ELSE Here \cup {Id(r)}
  <2>1. CASE seenRow[r] # {}
    <3>1. recordRows' = (recordRows \ RowsAt(Id(r)))
                          \cup {[w EXCEPT !.old = FALSE] : w \in RowsAt(Id(r))}
      BY <2>1 DEF StoreRow
    <3> QED
      BY <1>0, <2>1, <3>1, HereTouched
  <2>2. CASE seenRow[r] = {}
    <3> DEFINE new == [by |-> r, id |-> Id(r), old |-> FALSE]
    <3>1. recordRows' = recordRows \cup {new} /\ new.id = Id(r) /\ new \in BlobRows
      BY <1>0, <2>2 DEF StoreRow, BlobRows
    <3> QED
      BY <1>0, <2>2, <3>1, HereAdded
  <2> QED
    BY <2>1, <2>2
<1>4. ASSUME r \in calm PROVE Truthful(Id(r))'
  <2>1. blobFiles[PathOf[Id(r)]] = r /\ (seenRow[r] # {} <=> Id(r) \in Here)
    BY <1>1, <1>4 DEF BlobInv, Holds
  <2>2. Id(r) \in Here' /\ last'[Id(r)] = r /\ Id(r)' = Id(r)
    BY <1>0, <1>1, <1>3, <2>1 DEF Id
  <2> QED
    BY <1>1, <2>1, <2>2 DEF Truthful
<1>5. \A i : i # Id(r) => (i \in Here' <=> i \in Here)
  BY <1>3
<1> QED
  BY <1>1, <1>2, <1>3, <1>4, <1>5, ChangeEnds

LEMMA DeleteKeeps ==
  ASSUME BlobInv, NEW r \in Requests, UNCHANGED <<ask, calm>>, RemoveRecord(r) \/ DropRecord(r)
  PROVE  BlobInv'
<1>0. Id(r) \in Records /\ recordRows \subseteq BlobRows /\ last = [i \in Records |-> last[i]]
  BY DEF BlobInv, BlobsTyped, Id
<1>1. /\ reached[r] = "delete" /\ FinishRequest(r) /\ last' = [last EXCEPT ![Id(r)] = NoFile]
      /\ recordRows' = recordRows \ RowsAt(Id(r))
      /\ UNCHANGED <<seenRow, heard, blobFiles>> /\ ask[r].op \in {"remove", "drop"}
  BY DEF RemoveRecord, DropRecord, DeleteRows
<1>2. Here' = Here \ {Id(r)} /\ recordRows' \subseteq BlobRows
  BY <1>0, <1>1, HereDeleted
<1>3. Truthful(Id(r))'
  <2>1. last'[Id(r)] = NoFile /\ Id(r)' = Id(r)
    BY <1>0, <1>1 DEF Id
  <2> QED
    BY <1>2, <2>1 DEF Truthful
<1>4. Active(r)
  BY <1>1 DEF Active
<1> QED
  BY <1>1, <1>2, <1>3, <1>4, ChangeEnds

----------------------------------------------------------------------------
LEMMA PurgeKeeps ==
  ASSUME BlobInv, NEW r \in Requests, UNCHANGED <<ask, calm>>, Purge(r)
  PROVE  BlobInv'
<1>0. /\ OfItsOwn(r) /\ recordRows \subseteq BlobRows /\ settled \subseteq Records
  BY DEF BlobInv, BlobsTyped
<1> DEFINE Shared == {i \in Records \ Purged : \E j \in RecordIds(OldRows) : PathOf[i] = PathOf[j]}
<1>1. /\ reached[r] = "purge" /\ Go(r, "sweep") /\ recordRows' = recordRows \ OldRows
      /\ last' = [i \in Records |-> IF i \in Purged THEN NoFile ELSE last[i]]
      /\ settled' = settled \ Shared /\ UNCHANGED <<seenRow, heard, blobFiles>>
  BY DEF Purge
<1>2. ask[r].op = "prune" /\ Active(r)
  BY <1>0, <1>1 DEF OfItsOwn, Fits, PruneSteps, UploadSteps, Active
<1>3. Fits(ask[r].op, "sweep")
  BY <1>2 DEF Fits, UploadSteps
<1>4. /\ reached' = [q \in Requests |-> reached'[q]] /\ reached'[r] = "sweep"
      /\ \A q \in Requests : OfItsOwn(q)'
  BY <1>1, <1>3, GoesOn DEF BlobInv
<1>5. \A i : /\ i \in Purged => i \notin Here'
             /\ i \notin RecordIds(OldRows) => i \notin Purged /\ (i \in Here' <=> i \in Here)
  BY <1>1 DEF Purged, Here, RecordIds, OldRows
<1>6. last' = [i \in Records |-> last'[i]] /\ \A i \in Records :
        last'[i] = IF i \in Purged THEN NoFile ELSE last[i]
  BY <1>1
<1>7. BlobsTyped'
  BY <1>0, <1>1, <1>4, <1>6 DEF BlobInv, BlobsTyped
<1>8. Step(r)
  BY <1>1, <1>2 DEF Step, Go
<1>9. ASSUME NEW i \in settled', i \notin Purged
      PROVE  i \in settled /\ i \in Records /\ \A j \in RecordIds(OldRows) : PathOf[i] # PathOf[j]
  BY <1>0, <1>1, <1>9
<1>10. SettledTrue'
  <2>1. ASSUME NEW i \in settled', i \in Purged PROVE Truthful(i)'
    <3>1. i \in Records
      BY <1>0, <1>1
    <3> QED
      BY <1>5, <1>6, <2>1, <3>1 DEF Truthful
  <2>2. ASSUME NEW i \in settled', r \notin calm PROVE Halfway(r, i)'
    BY <1>4, <2>2 DEF Halfway
  <2>3. ASSUME NEW i \in settled', i \notin Purged, r \in calm PROVE Truthful(i)'
    <3>1. ~Halfway(r, i)
      BY <1>1 DEF Halfway
    <3>2. \A q \in Requests : ~Halfway(q, i)
      BY <1>2, <2>3, <3>1, NoneBeside
    <3>3. Truthful(i)
      BY <1>9, <2>3, <3>2 DEF BlobInv, SettledTrue
    <3>4. i \notin RecordIds(OldRows)
      BY <1>9, <2>3
    <3>5. (i \in Here' <=> i \in Here) /\ last'[i] = last[i]
      BY <1>5, <1>6, <1>9, <2>3, <3>4
    <3> QED
      BY <1>1, <3>3, <3>5 DEF Truthful
  <2> QED
    BY <2>1, <2>2, <2>3 DEF SettledTrue
<1>11. ASSUME r \in calm PROVE Holds(r)'
  <2>1. seenRow'[r] \subseteq RecordIds(OldRows)
    BY <1>1, <1>11 DEF BlobInv, Holds
  <2>2. \A j \in seenRow'[r], i \in settled' : PathOf[i] = PathOf[j] => i \notin Here'
    BY <1>5, <1>9, <2>1
  <2> QED
    BY <1>4, <2>2 DEF Holds
<1> QED
  BY <1>1, <1>7, <1>8, <1>10, <1>11, Together

LEMMA SweepKeeps ==
  ASSUME BlobInv, NEW r \in Requests, UNCHANGED <<ask, calm>>, SweepFile(r)
  PROVE  BlobInv'
<1>0. /\ OfItsOwn(r) /\ settled \subseteq Records /\ blobFiles = [f \in Paths |-> blobFiles[f]]
      /\ reached = [q \in Requests |-> reached[q]] /\ seenRow = [q \in Requests |-> seenRow[q]]
      /\ \A i \in Records : PathOf[i] \in Paths
  BY DEF BlobInv, BlobsTyped, Paths
<1>1. reached[r] = "sweep" /\ UNCHANGED <<heard, recordRows, last>> /\ Here' = Here
  BY DEF SweepFile, Here
<1>2. ask[r].op = "prune" /\ Active(r)
  BY <1>0, <1>1 DEF OfItsOwn, Fits, PruneSteps, UploadSteps, Active
<1>3. ASSUME r \in calm, NEW i \in settled PROVE Truthful(i)
  <2>1. ~Halfway(r, i)
    BY <1>1, <1>3 DEF Halfway
  <2>2. \A q \in Requests : ~Halfway(q, i)
    BY <1>2, <1>3, <2>1, NoneBeside
  <2> QED
    BY <1>3, <2>2 DEF BlobInv, SettledTrue
<1>4. CASE seenRow[r] = {}
  <2>1. /\ Go(r, "done") /\ UNCHANGED <<seenRow, blobFiles>>
        /\ settled' = IF r \in calm THEN settled ELSE settled \ Records
    BY <1>2, <1>4 DEF SweepFile, FinishRequest, Settle, Touched
  <2>2. /\ reached' = [q \in Requests |-> reached'[q]] /\ reached'[r] = "done"
        /\ \A q \in Requests : OfItsOwn(q)'
    BY <2>1, GoesOn DEF BlobInv, Fits, UploadSteps, PruneSteps
  <2>3. BlobsTyped'
    BY <1>1, <2>1, <2>2 DEF BlobInv, BlobsTyped
  <2>4. Step(r)
    BY <1>2, <2>1 DEF Step, Go
  <2>5. SettledTrue'
    BY <1>0, <1>1, <1>3, <2>1 DEF SettledTrue, Truthful
  <2>6. Holds(r)'
    BY <2>2 DEF Holds
  <2> QED
    BY <1>1, <2>3, <2>4, <2>5, <2>6, Together
<1>5. CASE seenRow[r] # {}
  <2>1. PICK j \in seenRow[r] :
          /\ blobFiles' = [blobFiles EXCEPT ![PathOf[j]] = NoFile]
          /\ seenRow' = [seenRow EXCEPT ![r] = @ \ {j}] /\ UNCHANGED <<reached, settled>>
    BY <1>5 DEF SweepFile
  <2>2. /\ blobFiles' = [f \in Paths |-> blobFiles'[f]]
        /\ \A i \in Records : blobFiles'[PathOf[i]] =
              IF PathOf[i] = PathOf[j] THEN NoFile ELSE blobFiles[PathOf[i]]
    BY <1>0, <2>1
  <2>3. /\ seenRow' = [q \in Requests |-> seenRow'[q]] /\ seenRow'[r] = seenRow[r] \ {j}
        /\ \A q \in Requests : q # r => seenRow'[q] = seenRow[q]
    BY <1>0, <2>1
  <2>4. BlobsTyped'
    BY <1>1, <2>1, <2>2, <2>3 DEF BlobInv, BlobsTyped, OfItsOwn
  <2>5. reached' = [reached EXCEPT ![r] = "sweep"]
    BY <1>0, <1>1, <2>1
  <2>6. Step(r)
    BY <1>2, <2>3, <2>5 DEF Step
  <2>7. CASE r \in calm
    <3>1. Holds(r)
      BY <2>7 DEF BlobInv
    <3>2. \A i \in settled : Truthful(i) /\ (PathOf[i] = PathOf[j] => i \notin Here)
      BY <1>1, <1>3, <2>1, <2>7, <3>1 DEF Holds
    <3>3. SettledTrue'
      BY <1>0, <1>1, <2>1, <2>2, <3>2 DEF SettledTrue, Truthful
    <3>4. Holds(r)'
      BY <1>1, <2>1, <2>3, <3>1 DEF Holds
    <3> QED
      BY <1>1, <2>4, <2>6, <3>3, <3>4, Together
  <2>8. CASE r \notin calm
    <3>1. SettledTrue'
      BY <1>1, <2>1, <2>8 DEF SettledTrue, Halfway
    <3> QED
      BY <1>1, <2>4, <2>6, <2>8, <3>1, Together
  <2> QED
    BY <2>7, <2>8
<1> QED
  BY <1>4, <1>5

\* A request that fails unsettles what it may have left half done.
LEMMA FailKeeps ==
  ASSUME BlobInv, NEW r \in Requests, RequestFails(r) PROVE BlobInv'
<1>0. /\ OfItsOwn(r) /\ settled \subseteq Records /\ Id(r) \in Records
  BY DEF BlobInv, BlobsTyped, Id
<1>1. /\ Active(r) /\ Go(r, "failed") /\ settled' = IF Changes(r) THEN settled \ Touched(r) ELSE settled
      /\ UNCHANGED <<ask, seenRow, heard, recordRows, blobFiles, calm, last>>
  BY DEF RequestFails
<1>2. /\ reached' = [q \in Requests |-> reached'[q]] /\ reached'[r] = "failed"
      /\ \A q \in Requests : OfItsOwn(q)'
  BY <1>1, GoesOn DEF BlobInv, Fits, UploadSteps, PruneSteps
<1>3. BlobsTyped'
  BY <1>0, <1>1, <1>2 DEF BlobInv, BlobsTyped
<1>4. Here' = Here
  BY <1>1 DEF Here
<1>5. Step(r)
  BY <1>1, <1>4 DEF Step, Aside, Go, Changes, Touched
<1>6. SettledTrue'
  <2>1. CASE ask[r].op = "download"
    <3>1. settled' = settled /\ (\A i \in settled : Truthful(i) => Truthful(i)')
      BY <1>1, <1>4, <2>1 DEF Changes, Truthful
    <3>2. \A i : ~Halfway(r, i)
      BY <1>0, <2>1 DEF Halfway, OfItsOwn, Fits, UploadSteps, PruneSteps
    <3>3. \A q \in Requests : q # r => reached'[q] = reached[q]
      BY <1>1 DEF BlobInv, BlobsTyped, Go
    <3>4. \A q \in Requests, i \in settled : Halfway(q, i) => Halfway(q, i)'
      BY <1>1, <3>2, <3>3 DEF Halfway, Id
    <3> QED
      BY <3>1, <3>4 DEF BlobInv, SettledTrue
  <2>2. CASE ask[r].op = "prune"
    <3>1. settled' = {}
      BY <1>0, <1>1, <2>2 DEF Changes, Touched
    <3> QED
      BY <3>1 DEF SettledTrue
  <2>3. CASE ask[r].op \notin {"download", "prune"}
    <3>1. \A i \in settled' : PathOf[i] # PathOf[Id(r)]
      BY <1>0, <1>1, <2>3 DEF Changes, Touched
    <3> QED
      BY <1>3, <1>5, <2>3, <3>1, OthersTrue DEF SettledTrue
  <2> QED
    BY <2>1, <2>2, <2>3
<1>7. Holds(r)'
  BY <1>2 DEF Holds
<1> QED
  BY <1>1, <1>3, <1>5, <1>6, <1>7, Together

\* A request begins: those it meets are calm no longer.
LEMMA BeginKeeps ==
  ASSUME BlobInv, NEW r \in Requests, BeginRequest(r) PROVE BlobInv'
<1> DEFINE met == {q \in Requests \ {r} : Active(q) /\ Meet(q, r)}
<1> DEFINE first == FirstStep[ask[r].op]
<1>0. ask[r].op \in Ops
  BY DEF BlobInv, BlobsTyped
<1>1. /\ reached[r] = "idle" /\ Go(r, first)
      /\ calm' = (calm \ IF Changes(r) THEN met ELSE {}) \cup {s \in {r} : \A q \in met : ~Changes(q)}
      /\ UNCHANGED <<ask, seenRow, heard, recordRows, blobFiles, last, settled>>
  BY DEF BeginRequest
<1>2. first \in {"table", "select", "patch", "delete", "evaluate"} /\ Fits(ask[r].op, first)
  BY <1>0 DEF FirstStep, Ops, Fits, UploadSteps, PruneSteps
<1>3. r \notin calm
  BY <1>1 DEF BlobInv, Holds
<1> HIDE DEF first
<1>4. /\ reached' = [q \in Requests |-> reached'[q]] /\ reached'[r] = first
      /\ \A q \in Requests : OfItsOwn(q)'
  BY <1>1, <1>2, GoesOn DEF BlobInv
<1>5. \A q \in Requests : q # r => reached'[q] = reached[q]
  BY <1>1 DEF BlobInv, BlobsTyped, Go
<1>6. BlobsTyped'
  BY <1>1, <1>4 DEF BlobInv, BlobsTyped
<1>7. Apart'
  <2> SUFFICES ASSUME NEW p \in calm', NEW q \in Requests, Active(p)', q # p, Active(q)', Changes(q)'
               PROVE  ~Meet(q, p)'
    BY DEF Apart
  <2>1. Changes(q) /\ p \in Requests
    BY <1>1, <1>6 DEF Changes, BlobsTyped
  <2>2. CASE p = r
    <3>1. Active(q) /\ q \notin met
      BY <1>1, <1>3, <1>5, <2>1, <2>2 DEF Active
    <3> QED
      BY <1>1, <2>2, <3>1 DEF Meet, Id
  <2>3. CASE q = r
    <3>1. p \in calm /\ p # r /\ p \notin met
      BY <1>1, <2>1, <2>3
    <3>2. Active(p)
      BY <1>5, <2>1, <3>1 DEF Active
    <3> QED
      BY <1>1, <2>1, <2>3, <3>1, <3>2 DEF Meet, Id
  <2>4. CASE p # r /\ q # r
    <3>1. p \in calm /\ Active(p) /\ Active(q)
      BY <1>1, <1>5, <2>1, <2>4 DEF Active
    <3>2. ~Meet(q, p)
      BY <2>1, <3>1 DEF BlobInv, Apart
    <3> QED
      BY <1>1, <3>2 DEF Meet, Id
  <2> QED
    BY <2>2, <2>3, <2>4
<1>8. SettledTrue'
  <2>1. \A i \in settled : Truthful(i) => Truthful(i)'
    BY <1>1 DEF Truthful, Here
  <2>2. ASSUME NEW q \in Requests, NEW i \in settled, Halfway(q, i) PROVE Halfway(q, i)'
    <3>1. q # r
      BY <1>1, <2>2 DEF Halfway
    <3>2. reached'[q] = reached[q] /\ (q \in calm' => q \in calm)
      BY <1>1, <1>5, <3>1
    <3> QED
      BY <1>1, <2>2, <3>2 DEF Halfway, Id
  <2> QED
    BY <1>1, <2>1, <2>2 DEF BlobInv, SettledTrue
<1>9. ASSUME NEW q \in calm' PROVE Holds(q)'
  <2>1. CASE q = r
    BY <1>2, <1>4, <2>1 DEF Holds
  <2>2. CASE q # r
    <3>1. Holds(q) /\ reached'[q] = reached[q]
      BY <1>1, <1>5, <2>2 DEF BlobInv, BlobsTyped
    <3> QED
      BY <1>1, <3>1 DEF Holds, Here, OldRows, Id
  <2> QED
    BY <2>1, <2>2
<1>10. NotHeard'
  BY <1>1, <1>5 DEF BlobInv, NotHeard
<1> QED
  BY <1>6, <1>7, <1>8, <1>9, <1>10 DEF BlobInv

\* Rows grow old: that takes none away, of the old ones neither.
LEMMA AgeKeeps ==
  ASSUME BlobInv, Age PROVE BlobInv'
<1>1. UNCHANGED <<ask, reached, seenRow, heard, blobFiles, calm, last, settled>>
  BY DEF Age
<1>2. PICK w \in recordRows : ~w.old /\ recordRows' = (recordRows \ {w}) \cup {[w EXCEPT !.old = TRUE]}
  BY DEF Age
<1> DEFINE v == [w EXCEPT !.old = TRUE]
<1>3. w \in BlobRows /\ v \in BlobRows /\ v.id = w.id /\ v.old
  BY DEF BlobInv, BlobsTyped, BlobRows
<1> HIDE DEF v
<1>4. recordRows' = (recordRows \ {w}) \cup {v}
  BY <1>2 DEF v
<1>5. Here' = Here /\ RecordIds(OldRows) \subseteq RecordIds(OldRows)' /\ recordRows' \subseteq BlobRows
  <2>1. Here' = Here
    BY <1>3, <1>4 DEF Here, RecordIds
  <2>2. RecordIds(OldRows) \subseteq RecordIds(OldRows)'
    BY <1>2, <1>3, <1>4 DEF OldRows, RecordIds
  <2> QED
    BY <1>3, <1>4, <2>1, <2>2 DEF BlobInv, BlobsTyped
<1>6. BlobsTyped'
  BY <1>1, <1>5 DEF BlobInv, BlobsTyped, OfItsOwn
<1>7. Apart' /\ NotHeard'
  BY <1>1 DEF BlobInv, Apart, NotHeard, Active, Changes, Meet, Id
<1>8. SettledTrue'
  <2>1. \A i \in settled : Truthful(i) => Truthful(i)'
    BY <1>1, <1>5 DEF Truthful
  <2>2. \A q \in Requests, i \in settled : Halfway(q, i) => Halfway(q, i)'
    BY <1>1 DEF Halfway, Id
  <2> QED
    BY <1>1, <2>1, <2>2 DEF BlobInv, SettledTrue
<1>9. \A q \in calm' : Holds(q)'
  <2>1. \A q \in calm : Holds(q) => Holds(q)'
    BY <1>1, <1>5 DEF Holds, Id
  <2> QED
    BY <1>1, <2>1 DEF BlobInv
<1> QED
  BY <1>6, <1>7, <1>8, <1>9 DEF BlobInv

LEMMA BlobsBegin == BlobInit => BlobInv
<1> SUFFICES ASSUME BlobInit PROVE BlobInv
  OBVIOUS
<1>1. PICK S \in SUBSET Records :
        /\ recordRows = {[by |-> Earlier, id |-> i, old |-> TRUE] : i \in S}
        /\ blobFiles = [p \in Paths |-> IF \E i \in S : PathOf[i] = p THEN Earlier ELSE NoFile]
        /\ last = [i \in Records |-> IF i \in S THEN Earlier ELSE NoFile]
  BY DEF BlobInit
<1>2. /\ ask \in [Requests -> [op : Ops, id : Records]] /\ calm = {} /\ settled = Records
      /\ reached = [r \in Requests |-> "idle"] /\ seenRow = [r \in Requests |-> {}]
      /\ heard = [r \in Requests |-> NoFile]
  BY BlobAssumption DEF BlobInit
<1>3. recordRows \subseteq BlobRows /\ Here = S
  <2>1. ASSUME NEW i \in S PROVE LET w == [by |-> Earlier, id |-> i, old |-> TRUE] IN
                                  w \in BlobRows /\ w.id = i /\ w \in recordRows
    <3> DEFINE w == [by |-> Earlier, id |-> i, old |-> TRUE]
    <3>1. w \in BlobRows /\ w.id = i
      BY DEF BlobRows
    <3>2. w \in recordRows
      BY <1>1
    <3> QED
      BY <3>1, <3>2
  <2>2. \A w \in recordRows : \E i \in S : w = [by |-> Earlier, id |-> i, old |-> TRUE]
    BY <1>1
  <2>3. \A w \in recordRows : w \in BlobRows /\ w.id \in S
    BY <2>1, <2>2
  <2>4. \A i \in S : \E w \in recordRows : w.id = i
    BY <2>1
  <2> QED
    BY <2>3, <2>4 DEF Here, RecordIds
<1>4. BlobsTyped
  BY <1>1, <1>2, <1>3 DEF BlobsTyped, OfItsOwn, Fits, UploadSteps, PruneSteps
<1>5. \A i \in Records : Truthful(i)
  <2> TAKE i \in Records
  <2>1. PathOf[i] \in Paths
    BY DEF Paths
  <2> QED
    BY <1>1, <1>3, <2>1 DEF Truthful
<1>6. Apart /\ (\A q \in calm : Holds(q)) /\ NotHeard /\ SettledTrue
  BY <1>2, <1>5 DEF Apart, NotHeard, SettledTrue
<1> QED
  BY <1>4, <1>6 DEF BlobInv

LEMMA BlobsKeep == BlobInv /\ [BlobNext]_bvars => BlobInv'
<1> SUFFICES ASSUME BlobInv, [BlobNext]_bvars PROVE BlobInv'
  OBVIOUS
<1>1. ASSUME NEW r \in Requests, Statement(r) PROVE BlobInv'
  <2>1. UNCHANGED <<ask, calm>>
    BY <1>1 DEF Statement
  <2>2. CASE \/ ProbeTable(r) \/ ProbeColumn(r) \/ CreateTable(r) \/ AddBlobColumn(r)
             \/ CountRows(r) \/ SelectPath(r) \/ ReadFile(r) \/ Evaluate(r) \/ CollectFiles(r)
    BY <2>1, <2>2, LookKeeps
  <2>3. CASE WriteBlob(r) \/ Unlink(r)
    BY <2>1, <2>3, FileKeeps
  <2>4. CASE StoreRow(r)
    BY <2>1, <2>4, StoreKeeps
  <2>5. CASE RemoveRecord(r) \/ DropRecord(r)
    BY <2>1, <2>5, DeleteKeeps
  <2>6. CASE Patch(r)
    BY <2>1, <2>6, PatchKeeps
  <2>7. CASE Purge(r)
    BY <2>1, <2>7, PurgeKeeps
  <2>8. CASE SweepFile(r)
    BY <2>1, <2>8, SweepKeeps
  <2> QED
    BY <1>1, <2>2, <2>3, <2>4, <2>5, <2>6, <2>7, <2>8 DEF Statement
<1>2. CASE Age
  BY <1>2, AgeKeeps
<1>3. CASE UNCHANGED bvars
  <2> USE <1>3 DEF bvars, BlobInv
  <2>1. BlobsTyped' /\ Apart' /\ NotHeard'
    BY DEF BlobsTyped, OfItsOwn, Apart, NotHeard, Active, Changes, Meet, Id
  <2>2. SettledTrue'
    BY DEF SettledTrue, Truthful, Halfway, Here, Id
  <2>3. \A q \in calm' : Holds(q)'
    BY DEF Holds, Here, OldRows, Id
  <2> QED
    BY <2>1, <2>2, <2>3
<1> QED
  BY <1>1, <1>2, <1>3, BeginKeeps, FailKeeps DEF BlobNext

\* What a calm download is told.
LEMMA ToldLast ==
  ASSUME BlobInv, BlobNext, NEW r \in calm, reached[r] # "done", reached'[r] = "done",
         ask[r].op = "download", Id(r) \in settled
  PROVE  heard'[r] = last[Id(r)]
<1>1. /\ r \in Requests /\ OfItsOwn(r) /\ Holds(r) /\ heard[r] = NoFile
      /\ reached = [q \in Requests |-> reached[q]] /\ heard = [q \in Requests |-> heard[q]]
  BY DEF BlobInv, BlobsTyped, NotHeard
<1>2. ASSUME NEW q \in Requests, NEW s, Go(q, s) PROVE q = r /\ s = "done"
  BY <1>1, <1>2 DEF Go
<1>3. reached[r] # "idle"
  BY <1>1 DEF Holds
<1>4. Statement(r)
  <2>1. ~Age
    BY DEF Age
  <2>2. \A q \in Requests : ~BeginRequest(q)
    <3> SUFFICES ASSUME NEW q \in Requests, BeginRequest(q) PROVE FALSE
      OBVIOUS
    <3>1. reached[q] = "idle" /\ Go(q, FirstStep[ask[q].op])
      BY DEF BeginRequest
    <3> QED
      BY <1>2, <1>3, <3>1
  <2>3. \A q \in Requests : ~RequestFails(q)
    BY <1>2 DEF RequestFails
  <2>4. PICK q \in Requests : Statement(q)
    BY <2>1, <2>2, <2>3 DEF BlobNext
  <2>5. (\E s : Go(q, s)) \/ reached' = reached
    <3>1. CASE ProbeTable(q) \/ ProbeColumn(q) \/ CreateTable(q) \/ AddBlobColumn(q) \/ CountRows(q)
      BY <3>1 DEF ProbeTable, ProbeColumn, CreateTable, AddBlobColumn, CountRows
    <3>2. CASE WriteBlob(q) \/ StoreRow(q) \/ SelectPath(q) \/ ReadFile(q) \/ Unlink(q)
      BY <3>2 DEF WriteBlob, StoreRow, SelectPath, ReadFile, Unlink, FinishRequest
    <3>3. CASE RemoveRecord(q) \/ DropRecord(q) \/ Patch(q) \/ Evaluate(q) \/ CollectFiles(q) \/ Purge(q)
      BY <3>3 DEF RemoveRecord, DropRecord, DeleteRows, Patch, Evaluate, CollectFiles, Purge, FinishRequest
    <3>4. CASE SweepFile(q)
      BY <3>4 DEF SweepFile, FinishRequest
    <3> QED
      BY <2>4, <3>1, <3>2, <3>3, <3>4 DEF Statement
  <2>6. q = r
    BY <1>2, <2>5
  <2> QED
    BY <2>4, <2>6
<1>5. Truthful(Id(r))
  <2>1. ~Halfway(r, Id(r))
    BY <1>1 DEF Halfway, OfItsOwn, Fits, UploadSteps, PruneSteps
  <2>2. CASE Active(r)
    <3>1. \A q \in Requests : ~Halfway(q, Id(r))
      BY <2>1, <2>2, NoneBeside
    <3> QED
      BY <3>1 DEF BlobInv, SettledTrue
  <2>3. CASE ~Active(r)
    <3> USE <1>3, <1>4, <2>3 DEF Statement, Active
    <3>1. ~(ProbeTable(r) \/ ProbeColumn(r) \/ CreateTable(r) \/ AddBlobColumn(r) \/ CountRows(r))
      BY DEF ProbeTable, ProbeColumn, CreateTable, AddBlobColumn, CountRows
    <3>2. ~(WriteBlob(r) \/ StoreRow(r) \/ SelectPath(r) \/ ReadFile(r) \/ Unlink(r))
      BY DEF WriteBlob, StoreRow, SelectPath, ReadFile, Unlink
    <3>3. ~(RemoveRecord(r) \/ DropRecord(r) \/ Patch(r) \/ Evaluate(r) \/ CollectFiles(r)
            \/ Purge(r) \/ SweepFile(r))
      BY DEF RemoveRecord, DropRecord, DeleteRows, Patch, Evaluate, CollectFiles, Purge, SweepFile
    <3> QED
      BY <3>1, <3>2, <3>3
  <2> QED
    BY <2>2, <2>3
<1>6. reached[r] \notin UploadSteps \cup PruneSteps \cup {"unlink", "delete", "patch"}
  BY <1>1 DEF OfItsOwn, Fits, UploadSteps, PruneSteps
<1>7. SelectPath(r) \/ ReadFile(r)
  <2> USE <1>4, <1>6 DEF Statement, UploadSteps, PruneSteps
  <2>1. ~(ProbeTable(r) \/ ProbeColumn(r) \/ CreateTable(r) \/ AddBlobColumn(r) \/ CountRows(r))
    BY DEF ProbeTable, ProbeColumn, CreateTable, AddBlobColumn, CountRows
  <2>2. ~(WriteBlob(r) \/ StoreRow(r) \/ Unlink(r) \/ RemoveRecord(r) \/ DropRecord(r))
    BY DEF WriteBlob, StoreRow, Unlink, RemoveRecord, DropRecord, DeleteRows
  <2>3. ~(Patch(r) \/ Evaluate(r) \/ CollectFiles(r) \/ Purge(r) \/ SweepFile(r))
    BY DEF Patch, Evaluate, CollectFiles, Purge, SweepFile
  <2> QED
    BY <2>1, <2>2, <2>3
<1>8. CASE SelectPath(r)
  <2>1. Id(r) \notin Here /\ heard' = heard
    <3>1. RowsAt(Id(r)) # {} => Go(r, IF ask[r].op = "remove" THEN "unlink" ELSE "read")
      BY <1>8 DEF SelectPath
    <3>2. RowsAt(Id(r)) = {}
      BY <1>1, <1>2, <3>1
    <3> QED
      BY <1>8, <3>2, HereIs DEF SelectPath
  <2> QED
    BY <1>1, <1>5, <2>1 DEF Truthful
<1>9. CASE ReadFile(r)
  <2>1. heard'[r] = blobFiles[PathOf[Id(r)]] /\ Id(r) \in Here
    BY <1>1, <1>9 DEF ReadFile, Holds
  <2> QED
    BY <1>5, <2>1 DEF Truthful
<1> QED
  BY <1>7, <1>8, <1>9

\* DownloadsTrue: a download that no change of its record overlapped answers
\* what the last upload of it stored, and 404 after it was deleted or pruned,
\* unless its record's last change overlapped another, failed or shares its
\* file (src/index.js, POST, GET and DELETE /blobs; src/console/retention.js,
\* deleteRows); for any number of requests, records and failures.
THEOREM DownloadsAlwaysTrue == BlobSpec => DownloadsTrue
<1>1. BlobInv /\ [BlobNext]_bvars =>
        [\A r \in calm : /\ reached[r] # "done" /\ reached'[r] = "done"
                         /\ ask[r].op = "download" /\ Id(r) \in settled
                         => heard'[r] = last[Id(r)]]_bvars
  BY ToldLast
<1> QED
  BY BlobsBegin, BlobsKeep, <1>1, PTL DEF BlobSpec, DownloadsTrue

\* What the type invariant says beyond BlobsTyped: where a request can be, and whose
\* a file can be.
BlobSteps == UploadSteps \cup PruneSteps
               \cup {"idle", "done", "failed", "select", "read", "unlink", "delete", "patch"}

StepsKnown ==
  /\ \A r \in Requests : reached[r] \in BlobSteps
  /\ hasTable \in BOOLEAN /\ hasColumn \in BOOLEAN
  /\ \A p \in Paths : blobFiles[p] \in Requests \cup {Earlier, NoFile}

LEMMA StepsKnownStep == ASSUME BlobsTyped, StepsKnown, [BlobNext]_bvars PROVE StepsKnown'
<1>0. /\ reached = [r \in Requests |-> reached[r]] /\ blobFiles = [f \in Paths |-> blobFiles[f]]
      /\ \A r \in Requests : reached[r] \in BlobSteps
      /\ hasTable \in BOOLEAN /\ hasColumn \in BOOLEAN
      /\ \A p \in Paths : blobFiles[p] \in Requests \cup {Earlier, NoFile}
  BY DEF BlobsTyped, StepsKnown
<1>1. ASSUME NEW r \in Requests, NEW s \in BlobSteps, Go(r, s) \/ UNCHANGED reached,
             hasTable' \in BOOLEAN, hasColumn' \in BOOLEAN,
             \A p \in Paths : blobFiles'[p] \in Requests \cup {Earlier, NoFile}
      PROVE  StepsKnown'
  <2>1. \A q \in Requests : reached'[q] \in BlobSteps
    BY <1>0, <1>1 DEF Go
  <2> QED
    BY <1>1, <2>1 DEF StepsKnown
<1>2. ASSUME NEW r \in Requests, NEW p \in Paths, NEW f \in Requests \cup {NoFile},
             blobFiles' = [blobFiles EXCEPT ![p] = f]
      PROVE  \A q \in Paths : blobFiles'[q] \in Requests \cup {Earlier, NoFile}
  BY <1>0, <1>2
<1>3. ASSUME NEW r \in Requests, BeginRequest(r) PROVE StepsKnown'
  <2>1. ask[r].op \in Ops
    BY DEF BlobsTyped
  <2>2. FirstStep[ask[r].op] \in BlobSteps
    BY <2>1 DEF Ops, FirstStep, BlobSteps, UploadSteps, PruneSteps
  <2> QED
    BY <1>0, <1>1, <1>3, <2>2 DEF BeginRequest
<1>4. ASSUME NEW r \in Requests, RequestFails(r) PROVE StepsKnown'
  BY <1>0, <1>1, <1>4 DEF RequestFails, BlobSteps
<1>5. ASSUME NEW r \in Requests, Statement(r) PROVE StepsKnown'
  <2> USE DEF BlobSteps, UploadSteps, PruneSteps
  <2>1. PathOf[Id(r)] \in Paths /\ \A i \in seenRow[r] : PathOf[i] \in Paths
    BY DEF BlobsTyped, Paths, Id
  <2>2. CASE ProbeTable(r) \/ ProbeColumn(r)
    BY <1>0, <1>1, <2>2 DEF ProbeTable, ProbeColumn
  <2>3. CASE CreateTable(r) \/ AddBlobColumn(r)
    BY <1>0, <1>1, <2>3 DEF CreateTable, AddBlobColumn
  <2>4. CASE CountRows(r) \/ SelectPath(r) \/ ReadFile(r)
    BY <1>0, <1>1, <2>4 DEF CountRows, SelectPath, ReadFile
  <2>5. CASE WriteBlob(r)
    BY <1>0, <1>1, <1>2, <2>1, <2>5 DEF WriteBlob, WrittenRow
  <2>6. CASE Unlink(r)
    BY <1>0, <1>1, <1>2, <2>1, <2>6 DEF Unlink
  <2>7. CASE StoreRow(r) \/ RemoveRecord(r) \/ DropRecord(r) \/ Patch(r)
    BY <1>0, <1>1, <2>7 DEF StoreRow, RemoveRecord, DropRecord, DeleteRows, Patch, FinishRequest
  <2>8. CASE Evaluate(r) \/ CollectFiles(r) \/ Purge(r)
    BY <1>0, <1>1, <2>8 DEF Evaluate, CollectFiles, Purge
  <2>9. CASE SweepFile(r)
    <3>1. CASE seenRow[r] = {}
      BY <1>0, <1>1, <2>9, <3>1 DEF SweepFile, FinishRequest
    <3>2. CASE seenRow[r] # {}
      <4>1. PICK i \in seenRow[r] : blobFiles' = [blobFiles EXCEPT ![PathOf[i]] = NoFile]
        BY <2>9, <3>2 DEF SweepFile
      <4>2. UNCHANGED <<reached, hasTable, hasColumn>>
        BY <2>9, <3>2 DEF SweepFile
      <4>3. \A q \in Paths : blobFiles'[q] \in Requests \cup {Earlier, NoFile}
        BY <1>2, <2>1, <4>1
      <4> QED
        BY <1>0, <4>2, <4>3 DEF StepsKnown
    <3> QED
      BY <3>1, <3>2
  <2> QED
    BY <1>5, <2>2, <2>3, <2>4, <2>5, <2>6, <2>7, <2>8, <2>9 DEF Statement
<1>6. CASE Age \/ UNCHANGED bvars
  BY <1>6 DEF Age, bvars, StepsKnown
<1> QED
  BY <1>3, <1>4, <1>5, <1>6 DEF BlobNext

\* BlobTypeOK: a request takes the steps of its route and no others, and a file on a
\* path is that of an upload.
THEOREM BlobTypeCorrect == BlobSpec => []BlobTypeOK
<1>1. BlobInit => StepsKnown
  BY DEF BlobInit, StepsKnown, BlobSteps
<1>2. BlobInv /\ StepsKnown /\ [BlobNext]_bvars => BlobInv' /\ StepsKnown'
  BY BlobsKeep, StepsKnownStep DEF BlobInv
<1>3. BlobInv /\ StepsKnown => BlobTypeOK
  <2> SUFFICES ASSUME BlobsTyped, StepsKnown PROVE BlobTypeOK
    BY DEF BlobInv
  <2>1. reached \in [Requests -> BlobSteps]
    BY DEF BlobsTyped, StepsKnown
  <2>2. \A w \in recordRows : w.by \in Requests \cup {Earlier} /\ w.id \in Records /\ w.old \in BOOLEAN
    BY DEF BlobsTyped, BlobRows
  <2>3. \A r \in Requests : ask[r].op \in Ops /\ Id(r) \in Records /\ seenRow[r] \subseteq Records
    BY DEF BlobsTyped, Id
  <2> QED
    BY <2>1, <2>2, <2>3 DEF BlobsTyped, StepsKnown, BlobTypeOK, BlobSteps, UploadSteps, PruneSteps
<1> QED
  BY BlobsBegin, <1>1, <1>2, <1>3, PTL DEF BlobSpec

----------------------------------------------------------------------------
(* The tables of a query *)

\* What one node adds to what f tells of the nodes below it, for the walk and
\* for the binder.
WalkOf(f, node, scope) ==
    Unsupported(node)
      \cup {p \in node.from : ~(Len(p) = 1 /\ lower(p[1]) \in scope)}
      \cup UNION {f[node.sub[i]][ScopeOf(node, i, scope)] : i \in DOMAIN node.sub}
WalkStep(f, node) == [scope \in SUBSET Names |-> WalkOf(f, node, scope)]

BoundBy(f, node, env) == IF node.kind = "with" THEN f[node.sub[1]][env] ELSE {}
ReadsIn(f, node, env, bound) ==
    Unsupported(node)
      \cup (UNION {ReadBy(p, env) : p \in node.from})
      \cup UNION {f[node.sub[i]][EnvOf(node, i, env, bound)] : i \in PartsRead(node)}
ReadsOf(f, node, env) == ReadsIn(f, node, env, BoundBy(f, node, env))
ReadsStep(f, node) == [env \in Envs |-> ReadsOf(f, node, env)]

TreeStep(who, f, node) == IF who = "walk" THEN WalkStep(f, node) ELSE ReadsStep(f, node)

\* A solution of the recursion for the nodes below a depth.
Below(k) == {node \in Nodes : Depth[node] < k}
Solves(who, k, f) == f = [node \in Below(k) |-> TreeStep(who, f, node)]

\* A step looks at nothing but the parts of its node.
LEMMA StepLooksBelow ==
    ASSUME NEW who, NEW f, NEW h, NEW node \in Nodes,
           \A i \in DOMAIN node.sub : f[node.sub[i]] = h[node.sub[i]]
    PROVE  TreeStep(who, f, node) = TreeStep(who, h, node)
<1>1. ASSUME NEW scope PROVE WalkOf(f, node, scope) = WalkOf(h, node, scope)
  <2>1. {f[node.sub[i]][ScopeOf(node, i, scope)] : i \in DOMAIN node.sub}
          = {h[node.sub[i]][ScopeOf(node, i, scope)] : i \in DOMAIN node.sub}
    OBVIOUS
  <2> QED
    BY <2>1 DEF WalkOf
<1>2. ASSUME NEW env PROVE ReadsOf(f, node, env) = ReadsOf(h, node, env)
  <2>1. node.kind = "with" => 1 \in DOMAIN node.sub /\ 2 \in DOMAIN node.sub
    BY SqlAssumption DEF Binders
  <2>2. \A i \in PartsRead(node) : f[node.sub[i]] = h[node.sub[i]]
    BY <2>1 DEF PartsRead
  <2>3. BoundBy(f, node, env) = BoundBy(h, node, env)
    BY <2>1 DEF BoundBy
  <2>4. ASSUME NEW bound PROVE ReadsIn(f, node, env, bound) = ReadsIn(h, node, env, bound)
    <3>1. {f[node.sub[i]][EnvOf(node, i, env, bound)] : i \in PartsRead(node)}
            = {h[node.sub[i]][EnvOf(node, i, env, bound)] : i \in PartsRead(node)}
      BY <2>2
    <3> QED
      BY <3>1 DEF ReadsIn
  <2> QED
    BY <2>3, <2>4 DEF ReadsOf
<1>3. WalkStep(f, node) = WalkStep(h, node) /\ ReadsStep(f, node) = ReadsStep(h, node)
  BY <1>1, <1>2 DEF WalkStep, ReadsStep
<1> QED
  BY <1>3 DEF TreeStep

\* Two solutions agree where both are: else on a least node where they do not.
LEMMA SolutionsAgree ==
    ASSUME NEW who, NEW j \in Nat, NEW k \in Nat, j <= k, NEW f, NEW h,
           Solves(who, j, f), Solves(who, k, h)
    PROVE  \A node \in Below(j) : f[node] = h[node]
<1> DEFINE Odd == {node \in Below(j) : f[node] # h[node]}
           S == {Depth[node] : node \in Odd}
<1> SUFFICES ASSUME Odd # {} PROVE FALSE
  OBVIOUS
<1>1. S \in SUBSET Nat /\ S # {}
  BY SqlAssumption DEF Below
<1>2. PICK m \in S : \A x \in S : m <= x
  BY <1>1, LeastIs
<1>3. PICK node \in Odd : Depth[node] = m
  BY <1>2
<1>4. node \in Nodes /\ Depth[node] < j /\ Depth[node] \in Nat
  BY <1>3, SqlAssumption DEF Below
<1>5. ASSUME NEW i \in DOMAIN node.sub
      PROVE  f[node.sub[i]] = h[node.sub[i]]
  <2>1. node.sub[i] \in Nodes /\ Depth[node.sub[i]] < Depth[node] /\ Depth[node.sub[i]] \in Nat
    BY <1>4, SqlAssumption
  <2>2. node.sub[i] \in Below(j)
    BY <2>1, <1>4 DEF Below
  <2>3. node.sub[i] \notin Odd
    <3>1. Depth[node.sub[i]] \notin S
      <4> HIDE DEF S
      <4> QED
        BY <2>1, <1>2, <1>3, <1>4
    <3> QED
      BY <3>1
  <2> QED
    BY <2>2, <2>3
<1>6. TreeStep(who, f, node) = TreeStep(who, h, node)
  BY <1>4, <1>5, StepLooksBelow
<1>7. f[node] = TreeStep(who, f, node)
  BY <1>4 DEF Solves, Below
<1>8. node \in Below(k) 
  BY <1>4 DEF Below
<1>9. h[node] = TreeStep(who, h, node)
  BY <1>8 DEF Solves
<1> QED
  BY <1>3, <1>6, <1>7, <1>9

\* There is one for every depth: a step takes it one further.
LEMMA SolutionsExist ==
    ASSUME NEW who, NEW k \in Nat
    PROVE  \E f : Solves(who, k, f)
<1> DEFINE S == {x \in Nat : ~ \E f : Solves(who, x, f)}
<1> SUFFICES ASSUME S # {} PROVE FALSE
  OBVIOUS
<1>1. PICK m \in S : \A x \in S : m <= x
  BY LeastIs
<1>2. CASE m = 0
  <2> DEFINE f == [node \in Below(0) |-> {}]
  <2>1. Below(0) = {}
    BY SqlAssumption DEF Below
  <2>2. Solves(who, 0, f)
    BY <2>1 DEF Solves
  <2> QED
    BY <1>2, <2>2
<1>3. CASE m # 0
  <2>1. m - 1 \in Nat /\ m - 1 \notin S
    BY <1>1, <1>3
  <2>2. PICK f : Solves(who, m - 1, f)
    BY <2>1
  <2> DEFINE h == [node \in Below(m) |-> TreeStep(who, f, node)]
  <2>3. ASSUME NEW node \in Below(m), NEW i \in DOMAIN node.sub
        PROVE  f[node.sub[i]] = h[node.sub[i]]
    <3>1. node \in Nodes /\ node.sub[i] \in Nodes /\ Depth[node.sub[i]] \in Nat
            /\ Depth[node] \in Nat /\ Depth[node.sub[i]] < Depth[node] /\ Depth[node] < m
      BY SqlAssumption DEF Below
    <3>2. node.sub[i] \in Below(m - 1) /\ node.sub[i] \in Below(m)
      BY <3>1, <2>1 DEF Below
    <3> QED
      BY <3>2, <2>2 DEF Solves
  <2>4. \A node \in Below(m) : TreeStep(who, f, node) = TreeStep(who, h, node)
    <3> SUFFICES ASSUME NEW node \in Below(m)
                 PROVE  TreeStep(who, f, node) = TreeStep(who, h, node)
      OBVIOUS
    <3>1. node \in Nodes
      BY DEF Below
    <3> HIDE DEF h
    <3> QED
      BY <3>1, <2>3, StepLooksBelow
  <2>5. Solves(who, m, h)
    BY <2>4 DEF Solves
  <2> QED
    BY <2>5
<1> QED
  BY <1>2, <1>3

\* Each node by the solution that just reaches it.
LEMMA TreeFunctionExists ==
    ASSUME NEW who
    PROVE  \E f : f = [node \in Nodes |-> TreeStep(who, f, node)]
<1> DEFINE Sol(node) == CHOOSE f : Solves(who, Depth[node] + 1, f)
           F == [node \in Nodes |-> Sol(node)[node]]
<1>1. \A node \in Nodes : Depth[node] \in Nat
  BY SqlAssumption
<1>2. \A node \in Nodes : Solves(who, Depth[node] + 1, Sol(node))
  BY <1>1, SolutionsExist
<1>3. ASSUME NEW node \in Nodes
      PROVE  Sol(node)[node] = TreeStep(who, F, node)
  <2> HIDE DEF Sol
  <2>1. node \in Below(Depth[node] + 1)
    BY <1>1 DEF Below
  <2>2. Sol(node)[node] = TreeStep(who, Sol(node), node)
    BY <2>1, <1>2 DEF Solves
  <2>3. ASSUME NEW i \in DOMAIN node.sub
        PROVE  Sol(node)[node.sub[i]] = F[node.sub[i]]
    <3> DEFINE s == node.sub[i]
    <3>1. s \in Nodes /\ Depth[s] < Depth[node]
      BY SqlAssumption
    <3> HIDE DEF s
    <3>2. s \in Below(Depth[s] + 1) /\ Depth[s] + 1 <= Depth[node] + 1
          /\ Depth[s] + 1 \in Nat /\ Depth[node] + 1 \in Nat
      BY <3>1, <1>1 DEF Below
    <3>3. Sol(s)[s] = Sol(node)[s]
      BY <3>1, <3>2, <1>2, SolutionsAgree
    <3>4. F[s] = Sol(s)[s]
      BY <3>1
    <3> QED
      BY <3>3, <3>4 DEF s
  <2> HIDE DEF F
  <2> QED
    BY <2>2, <2>3, StepLooksBelow
<1>4. F = [node \in Nodes |-> TreeStep(who, F, node)]
  <2> HIDE DEF Sol
  <2> QED
    BY <1>3
<1> QED
  BY <1>4

\* The recursive definitions of SqlTables are met by what they define.
LEMMA WalkIs == Walk = [node \in Nodes |-> WalkStep(Walk, node)]
<1>1. \E f : f = [node \in Nodes |-> WalkStep(f, node)]
  BY TreeFunctionExists DEF TreeStep
<1> QED
  BY <1>1 DEF Walk, WalkStep, WalkOf

LEMMA ReadsIs == Reads = [node \in Nodes |-> ReadsStep(Reads, node)]
<1>1. \E f : f = [node \in Nodes |-> ReadsStep(f, node)]
  BY TreeFunctionExists DEF TreeStep
<1> QED
  BY <1>1 DEF Reads, ReadsStep, ReadsOf, ReadsIn, BoundBy

-----------------------------------------------------------------------------
\* What is read of a node is met by the walk, or read by the body of a CTE in sight.
Known == References \cup {<< >>}
Bodies(env) == UNION {env[n] : n \in DOMAIN env}

Within(node) ==
    \A env \in Envs :
      /\ Reads[node][env] \subseteq Known
      /\ \A scope \in SUBSET Names :
           scope \subseteq DOMAIN env => Reads[node][env] \subseteq Walk[node][scope] \cup Bodies(env)

\* What an environment holds.
LEMMA EnvIs ==
    ASSUME NEW env \in Envs
    PROVE  /\ DOMAIN env \subseteq Names
           /\ \A n \in DOMAIN env : env[n] \subseteq Known
           /\ Bodies(env) \subseteq Known
BY DEF Envs, Known, Bodies

\* A CTE more in sight.
LEMMA BindIs ==
    ASSUME NEW env \in Envs, NEW name, lower(name) \in Names, NEW reads, reads \subseteq Known
    PROVE  /\ Bind(env, name, reads) \in Envs
           /\ DOMAIN Bind(env, name, reads) = DOMAIN env \cup {lower(name)}
           /\ Bodies(Bind(env, name, reads)) \subseteq reads \cup Bodies(env)
<1> DEFINE D == DOMAIN env \cup {lower(name)}
<1>1. D \subseteq Names /\ \A n \in DOMAIN env : env[n] \subseteq Known
  BY EnvIs
<1>2. DOMAIN Bind(env, name, reads) = D
  BY DEF Bind
<1>3. \A n \in D : Bind(env, name, reads)[n] \subseteq Known
  BY <1>1 DEF Bind
<1>4. Bind(env, name, reads) \in [D -> SUBSET Known]
  BY <1>3 DEF Bind
<1>5. Bind(env, name, reads) \in Envs
  BY <1>1, <1>4 DEF Envs, Known
<1>6. \A n \in D : Bind(env, name, reads)[n] \subseteq reads \cup Bodies(env)
  BY DEF Bind, Bodies
<1> QED
  BY <1>2, <1>5, <1>6 DEF Bodies

\* The references of a node itself.
LEMMA OwnReadsWithin ==
    ASSUME NEW node \in Nodes, NEW env \in Envs
    PROVE  /\ UNION {ReadBy(p, env) : p \in node.from} \subseteq Known
           /\ \A scope \in SUBSET Names : scope \subseteq DOMAIN env =>
                UNION {ReadBy(p, env) : p \in node.from}
                  \subseteq {p \in node.from : ~(Len(p) = 1 /\ lower(p[1]) \in scope)} \cup Bodies(env)
<1>1. node.from \subseteq References
  BY SqlAssumption
<1>2. ASSUME NEW p \in node.from
      PROVE  \/ ReadBy(p, env) \subseteq Bodies(env) /\ Bodies(env) \subseteq Known
             \/ ReadBy(p, env) = {p} /\ ~(Len(p) = 1 /\ lower(p[1]) \in DOMAIN env)
  BY EnvIs DEF ReadBy, Bodies
<1>3. UNION {ReadBy(p, env) : p \in node.from} \subseteq Known
  BY <1>1, <1>2 DEF Known
<1>4. ASSUME NEW scope \in SUBSET Names, scope \subseteq DOMAIN env, NEW p \in node.from
      PROVE  ReadBy(p, env)
               \subseteq {w \in node.from : ~(Len(w) = 1 /\ lower(w[1]) \in scope)} \cup Bodies(env)
  BY <1>2, <1>4
<1> QED
  BY <1>3, <1>4

\* A part of a node, in the scope and the environment it is walked and bound in.
LEMMA PartWithin ==
    ASSUME NEW node \in Nodes, NEW i \in PartsRead(node), NEW env \in Envs, NEW bound,
           bound \subseteq Known, Within(node.sub[i])
    PROVE  LET e == EnvOf(node, i, env, bound) IN
           /\ Reads[node.sub[i]][e] \subseteq Known
           /\ \A scope \in SUBSET Names : scope \subseteq DOMAIN env =>
                Reads[node.sub[i]][e]
                  \subseteq Walk[node.sub[i]][ScopeOf(node, i, scope)] \cup bound \cup Bodies(env)
<1> DEFINE e == EnvOf(node, i, env, bound)
<1>1. node.kind \in Binders => lower(node.name) \in Names
  BY SqlAssumption
<1>2. node.kind = "with" => i = 2
  BY DEF PartsRead
<1>3. /\ e \in Envs /\ Bodies(e) \subseteq bound \cup Bodies(env)
      /\ \A scope \in SUBSET Names : scope \subseteq DOMAIN env =>
           ScopeOf(node, i, scope) \in SUBSET Names /\ ScopeOf(node, i, scope) \subseteq DOMAIN e
  <2>1. CASE node.kind = "with"
    <3>1. e = Bind(env, node.name, bound)
      BY <2>1 DEF EnvOf
    <3>2. lower(node.name) \in Names /\ i = 2
      BY <1>1, <1>2, <2>1 DEF Binders
    <3>3. /\ e \in Envs /\ Bodies(e) \subseteq bound \cup Bodies(env)
          /\ DOMAIN e = DOMAIN env \cup {lower(node.name)}
      BY <3>1, <3>2, BindIs
    <3>4. \A scope : ScopeOf(node, i, scope) = scope \cup {lower(node.name)}
      BY <2>1, <3>2 DEF ScopeOf, Binders
    <3> HIDE DEF e
    <3> QED
      BY <3>2, <3>3, <3>4
  <2>2. CASE node.kind = "recursive" /\ i = 2
    <3>1. e = Bind(env, node.name, {})
      BY <2>2 DEF EnvOf
    <3>2. lower(node.name) \in Names /\ {} \subseteq Known
      BY <1>1, <2>2 DEF Binders
    <3>3. /\ e \in Envs /\ Bodies(e) \subseteq {} \cup Bodies(env)
          /\ DOMAIN e = DOMAIN env \cup {lower(node.name)}
      BY <3>1, <3>2, BindIs
    <3>4. \A scope : ScopeOf(node, i, scope) = scope \cup {lower(node.name)}
      BY <2>2 DEF ScopeOf, Binders
    <3> HIDE DEF e
    <3> QED
      BY <3>2, <3>3, <3>4
  <2>3. CASE node.kind # "with" /\ ~(node.kind = "recursive" /\ i = 2)
    <3>1. e = env
      BY <2>3 DEF EnvOf
    <3>2. \A scope : ScopeOf(node, i, scope) = scope
      BY <2>3 DEF ScopeOf, Binders
    <3> HIDE DEF e
    <3> QED
      BY <3>1, <3>2
  <2> QED
    BY <2>1, <2>2, <2>3
<1> HIDE DEF e
<1>4. /\ Reads[node.sub[i]][e] \subseteq Known
      /\ \A scope \in SUBSET Names :
           scope \subseteq DOMAIN e =>
             Reads[node.sub[i]][e] \subseteq Walk[node.sub[i]][scope] \cup Bodies(e)
  BY <1>3 DEF Within
<1>5. ASSUME NEW scope \in SUBSET Names, scope \subseteq DOMAIN env
      PROVE  Reads[node.sub[i]][e]
               \subseteq Walk[node.sub[i]][ScopeOf(node, i, scope)] \cup bound \cup Bodies(env)
  BY <1>3, <1>4, <1>5
<1> QED
  BY <1>4, <1>5 DEF e

LEMMA WalkAt ==
    ASSUME NEW node \in Nodes, NEW scope \in SUBSET Names
    PROVE  Walk[node][scope] = WalkOf(Walk, node, scope)
BY WalkIs DEF WalkStep

LEMMA ReadsAt ==
    ASSUME NEW node \in Nodes, NEW env \in Envs
    PROVE  Reads[node][env] = ReadsOf(Reads, node, env)
BY ReadsIs DEF ReadsStep

\* The parts of a node together; the body of a CTE where its name is read.
LEMMA NodeWithin ==
    ASSUME NEW node \in Nodes, \A i \in DOMAIN node.sub : Within(node.sub[i])
    PROVE  Within(node)
<1> SUFFICES ASSUME NEW env \in Envs
             PROVE  /\ Reads[node][env] \subseteq Known
                    /\ \A scope \in SUBSET Names :
                         scope \subseteq DOMAIN env =>
                           Reads[node][env] \subseteq Walk[node][scope] \cup Bodies(env)
  BY DEF Within
<1> DEFINE bound == BoundBy(Reads, node, env)
           own == UNION {ReadBy(p, env) : p \in node.from}
           Part(i) == Reads[node.sub[i]][EnvOf(node, i, env, bound)]
           parts == UNION {Part(i) : i \in PartsRead(node)}
           Named(scope) == {p \in node.from : ~(Len(p) = 1 /\ lower(p[1]) \in scope)}
           Met(i, scope) == Walk[node.sub[i]][ScopeOf(node, i, scope)]
           met(scope) == UNION {Met(i, scope) : i \in DOMAIN node.sub}
<1>1. PartsRead(node) \subseteq DOMAIN node.sub /\ (node.kind = "with" => 1 \in DOMAIN node.sub)
  BY SqlAssumption DEF PartsRead, Binders
<1>2. Reads[node][env] = Unsupported(node) \cup own \cup parts
  <2>1. Reads[node][env] = ReadsIn(Reads, node, env, bound)
    BY ReadsAt DEF ReadsOf
  <2> HIDE DEF bound
  <2>2. ReadsIn(Reads, node, env, bound) = Unsupported(node) \cup own \cup parts
    BY Zenon DEF ReadsIn
  <2> QED
    BY Zenon, <2>1, <2>2
<1>3. \A scope \in SUBSET Names :
        Walk[node][scope] = Unsupported(node) \cup Named(scope) \cup met(scope)
  <2>1. \A scope : WalkOf(Walk, node, scope) = Unsupported(node) \cup Named(scope) \cup met(scope)
    BY Zenon DEF WalkOf
  <2> QED
    BY Zenon, <2>1, WalkAt
<1>4. /\ bound \subseteq Known
      /\ \A scope \in SUBSET Names : scope \subseteq DOMAIN env =>
           bound \subseteq met(scope) \cup Bodies(env)
  <2>1. CASE node.kind = "with"
    <3>1. Within(node.sub[1])
      BY <1>1, <2>1
    <3>2. \A scope : ScopeOf(node, 1, scope) = scope
      BY DEF ScopeOf
    <3>3. \A scope : Walk[node.sub[1]][scope] \subseteq met(scope)
      <4>1. \A scope : Met(1, scope) \subseteq met(scope)
        BY <1>1, <2>1
      <4> QED
        BY <3>2, <4>1
    <3>4. bound = Reads[node.sub[1]][env]
      BY <2>1 DEF BoundBy
    <3> HIDE DEF bound, met
    <3> QED
      BY <3>1, <3>3, <3>4 DEF Within
  <2>2. CASE node.kind # "with"
    BY <2>2 DEF BoundBy
  <2> QED
    BY <2>1, <2>2
<1> HIDE DEF bound
<1>5. ASSUME NEW i \in PartsRead(node)
      PROVE  /\ Part(i) \subseteq Known
             /\ \A scope \in SUBSET Names : scope \subseteq DOMAIN env =>
                  Part(i) \subseteq met(scope) \cup Bodies(env)
  <2>1. Within(node.sub[i]) /\ i \in DOMAIN node.sub
    BY <1>1
  <2>2. /\ Part(i) \subseteq Known
        /\ \A scope \in SUBSET Names : scope \subseteq DOMAIN env =>
             Part(i) \subseteq Met(i, scope) \cup bound \cup Bodies(env)
    BY <1>4, <2>1, PartWithin
  <2>3. \A scope : Met(i, scope) \subseteq met(scope)
    BY <2>1
  <2> HIDE DEF Part, Met, met
  <2> QED
    BY <1>4, <2>2, <2>3
<1>6. /\ own \subseteq Known
      /\ \A scope \in SUBSET Names : scope \subseteq DOMAIN env =>
           own \subseteq Named(scope) \cup Bodies(env)
  BY OwnReadsWithin
<1>7. Unsupported(node) \subseteq Known
  BY DEF Unsupported, Known
<1>8. /\ parts \subseteq Known
      /\ \A scope \in SUBSET Names : scope \subseteq DOMAIN env =>
           parts \subseteq met(scope) \cup Bodies(env)
  <2> HIDE DEF Part, met
  <2> QED
    BY <1>5
<1> HIDE DEF own, parts, Named, met
<1> QED
  BY <1>2, <1>3, <1>6, <1>7, <1>8

\* By the least node that is not.
LEMMA EveryNodeWithin == \A node \in Nodes : Within(node)
<1> DEFINE Odd == {node \in Nodes : ~ Within(node)}
           S == {Depth[node] : node \in Odd}
<1> SUFFICES ASSUME Odd # {} PROVE FALSE
  OBVIOUS
<1>1. S \subseteq Nat /\ S # {}
  BY SqlAssumption
<1>2. PICK m \in S : \A x \in S : m <= x
  BY <1>1, LeastIs
<1>3. PICK node \in Odd : Depth[node] = m
  BY <1>2
<1>4. ASSUME NEW i \in DOMAIN node.sub
      PROVE  Within(node.sub[i])
  <2>1. node.sub[i] \in Nodes /\ Depth[node.sub[i]] < Depth[node] /\ Depth[node.sub[i]] \in Nat
        /\ Depth[node] \in Nat
    BY <1>3, SqlAssumption
  <2>2. Depth[node.sub[i]] \notin S
    <3> HIDE DEF S
    <3> QED
      BY <2>1, <1>2, <1>3
  <2> QED
    BY <2>1, <2>2
<1>5. Within(node)
  BY <1>3, <1>4, NodeWithin
<1> QED
  BY <1>3, <1>5

LEMMA NoCteIsAnEnv == << >> \in Envs /\ DOMAIN << >> = {} /\ Bodies(<< >>) = {}
<1>1. DOMAIN << >> = {}
  OBVIOUS
<1>2. << >> \in [{} -> SUBSET (References \cup {<< >>})]
  BY <1>1
<1> QED
  BY <1>1, <1>2 DEF Envs, Bodies

\* The walk names every table a query reads.
LEMMA WalkSeesWhatIsRead == \A node \in Nodes : Reads[node][<< >>] \subseteq Walk[node][{}]
BY EveryNodeWithin, NoCteIsAnEnv DEF Within

\* A query runs only if each path the walk names may be read.
LEMMA RunsOnlyIfAllowed ==
    ASSUME NEW tree, authorizeUserSql(tree) = "runs", NEW p \in Walk[tree][{}]
    PROVE  p # << >> /\ InMain(p) /\ lower(Last(p)) \in Tables \cap MayRead
<1> DEFINE refusals == {Refusal(w) : w \in Walk[tree][{}]} \ {"none"}
<1>1. "runs" \notin refusals
  BY DEF Refusal
<1>2. refusals = {}
  <2>1. authorizeUserSql(tree) = IF refusals = {} THEN "runs" ELSE CHOOSE s \in refusals : TRUE
    BY DEF authorizeUserSql
  <2> HIDE DEF refusals
  <2> QED
    BY <1>1, <2>1
<1>3. Refusal(p) = "none"
  BY <1>2
<1> QED
  BY <1>3 DEF Refusal

(* A query that authorizeUserSql lets through reads nothing but base       *)
(* tables of ducklake.main its caller may read, whatever its WITH clauses, *)
(* subqueries and recursive terms, to any depth (sql-tables.js:108,        *)
(* index.js:211).                                                          *)
THEOREM QueriesReadOnlyReadable == SqlSpec => [](SqlTypeOK /\ OnlyReadable)
<1> DEFINE Inv == sql \in Trees /\ verdict \in {"none", "runs", "400", "403", "404"}
                  /\ (verdict # "none" => verdict = authorizeUserSql(sql))
<1>1. SqlInit => Inv
  BY DEF SqlInit
<1>2. Inv /\ [SqlNext]_sqlVars => Inv'
  <2>1. ASSUME NEW tree PROVE authorizeUserSql(tree) \in {"runs", "400", "403", "404"}
    BY DEF authorizeUserSql, Refusal
  <2> QED
    BY <2>1 DEF SqlNext, Authorize, sqlVars
<1>3. Inv => SqlTypeOK /\ OnlyReadable
  <2> SUFFICES ASSUME Inv PROVE OnlyReadable
    BY DEF SqlTypeOK
  <2>1. sql \in Nodes
    BY SqlAssumption
  <2> QED
    BY <2>1, WalkSeesWhatIsRead, RunsOnlyIfAllowed DEF OnlyReadable
<1> QED
  BY <1>1, <1>2, <1>3, PTL DEF SqlSpec

=============================================================================
