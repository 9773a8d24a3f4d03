--------------------------------- MODULE Cron ---------------------------------
(***************************************************************************)
(* Five-field schedules (src/console/cron.js): which minutes an expression *)
(* names, and the search for the next ones.  The calendar is a constant:   *)
(* the search only needs to know the month and the date of each day.       *)
(***************************************************************************)
EXTENDS Integers, Sequences

CONSTANTS
  Minutes, Hours, Week,  \* minutes of an hour, hours of a day, days of a week
  Calendar,              \* [month, date] of every day from 0
  LastMonth, LastDate,   \* the largest month and date of it
  Expressions,           \* [minute, hour, day, month, weekday], sets of parts each
  Froms,                 \* minutes a search may start from
  Horizon,               \* how far it looks: some five years in the code
  RunsAsked                  \* runs asked for

DayOf(t) == t \div (Hours * Minutes)

\* Days are numbered from 0, a month begins with its first day, and the calendar
\* covers what a search may look at and the first day of a month after that.
ASSUME CronAssumption ==
  /\ {Minutes, Hours, Week} \subseteq Nat \ {0} /\ LastDate \in Nat
  /\ Froms \subseteq Nat /\ Horizon \in Nat /\ RunsAsked \in Nat \ {0}
  /\ \A x \in DOMAIN Calendar : /\ x \in Nat /\ 0..x \subseteq DOMAIN Calendar
                                /\ Calendar[x].date \in 1..LastDate
  /\ \A x, y \in DOMAIN Calendar :
       x < y /\ Calendar[x].month # Calendar[y].month
         => \E z \in (x + 1)..y : Calendar[z].date = 1
  /\ \A t \in Froms : \E x \in DOMAIN Calendar :
       x > DayOf(t + RunsAsked * Horizon) /\ Calendar[x].date = 1

VARIABLES
  cron,  \* the expression
  from,  \* the time the first run comes after
  runs,  \* the runs found so far
  d,     \* the minute the search has come to
  cronStage  \* "searching", "found", "null" when the horizon is passed, or "done"

cronvars == <<cron, from, runs, d, cronStage>>

\* A list item, its numbers as parseValue gives them: "*", a number "a" or a
\* range "a-b", and a step, 0 for none.  A number with a step runs to the end.
Item(p, min, max) ==
  LET lo == IF p.kind = "*" THEN min ELSE p.a
      hi == IF p.kind = "*" \/ (p.kind = "n" /\ p.step > 0) THEN max
            ELSE IF p.kind = "n" THEN p.a ELSE p.b
      by == IF p.step = 0 THEN 1 ELSE p.step
  IN {v \in lo..hi : (v - lo) % by = 0}

Field(parts, min, max) == UNION {Item(p, min, max) : p \in parts}

Star == {[kind |-> "*", a |-> 0, b |-> 0, step |-> 0]}
Restricted(parts) == parts # Star

HourOf(t) == (t \div Minutes) % Hours
MinuteOf(t) == t % Minutes

MonthIn(t) == Calendar[DayOf(t)].month \in Field(cron.month, 1, LastMonth)
HourIn(t) == HourOf(t) \in Field(cron.hour, 0, Hours - 1)
MinuteIn(t) == MinuteOf(t) \in Field(cron.minute, 0, Minutes - 1)

DayIn(t) ==
  LET dom == Calendar[DayOf(t)].date \in Field(cron.day, 1, LastDate)
      dow == DayOf(t) % Week \in Field(cron.weekday, 0, Week - 1)
  IN CASE Restricted(cron.day) /\ Restricted(cron.weekday) -> dom \/ dow
       [] Restricted(cron.day) /\ ~Restricted(cron.weekday) -> dom
       [] ~Restricted(cron.day) /\ Restricted(cron.weekday) -> dow
       [] OTHER -> TRUE

Least(S) == CHOOSE x \in S : \A y \in S : x <= y

\* setUTCMonth, setUTCDate, setUTCHours and setUTCMinutes, the smaller fields
\* set to zero.
MonthAfter(t) ==
  Least({x \in DOMAIN Calendar : x > DayOf(t) /\ Calendar[x].date = 1}) * Hours * Minutes
DayAfter(t) == (DayOf(t) + 1) * Hours * Minutes

\* Mutant: the next hour keeps the minutes.
HourAfterKept(t) == t + Minutes

HourAfter(t) == (t \div Minutes + 1) * Minutes

CronInit ==
  /\ cron \in Expressions /\ from \in Froms
  /\ runs = <<>> /\ d = from + 1 /\ cronStage = "searching"

LastRun == IF runs = <<>> THEN from ELSE runs[Len(runs)]
Searching == cronStage = "searching" /\ d <= LastRun + Horizon

Skip(t) == d' = t /\ UNCHANGED <<cron, from, runs, cronStage>>

NextMonth == Searching /\ ~MonthIn(d) /\ Skip(MonthAfter(d))
NextDay == Searching /\ MonthIn(d) /\ ~DayIn(d) /\ Skip(DayAfter(d))
NextHour == Searching /\ MonthIn(d) /\ DayIn(d) /\ ~HourIn(d) /\ Skip(HourAfter(d))
NextMinute ==
  Searching /\ MonthIn(d) /\ DayIn(d) /\ HourIn(d) /\ ~MinuteIn(d) /\ Skip(d + 1)

Found ==
  /\ Searching /\ MonthIn(d) /\ DayIn(d) /\ HourIn(d) /\ MinuteIn(d)
  /\ runs' = Append(runs, d) /\ d' = d + 1
  /\ cronStage' = IF Len(runs) + 1 = RunsAsked THEN "done" ELSE "searching"
  /\ UNCHANGED <<cron, from>>

GiveUp ==
  /\ cronStage = "searching" /\ ~Searching
  /\ cronStage' = "null" /\ UNCHANGED <<cron, from, runs, d>>

CronNext == NextMonth \/ NextDay \/ NextHour \/ NextMinute \/ Found \/ GiveUp

CronSpec == CronInit /\ [][CronNext]_cronvars

-----------------------------------------------------------------------------
\* The minutes an expression names, field by field: a day by its date and its
\* weekday, or by either when both are given.
CronDue(t) ==
  /\ MonthIn(t) /\ HourIn(t) /\ MinuteIn(t)
  /\ LET dom == Calendar[DayOf(t)].date \in Field(cron.day, 1, LastDate)
         dow == DayOf(t) % Week \in Field(cron.weekday, 0, Week - 1)
     IN IF Star \notin {cron.day, cron.weekday} THEN dom \/ dow ELSE dom /\ dow

\* The search passes over no run: those found are all the due minutes so far, in
\* order, and it gives up only when none is due within the horizon
\* (src/console/cron.js, nextRun and nextRuns).
NoRunSkipped ==
  /\ \A t \in (from + 1)..(IF cronStage = "null" THEN LastRun + Horizon ELSE d - 1) :
       CronDue(t) <=> \E i \in DOMAIN runs : runs[i] = t
  /\ \A i \in DOMAIN runs : runs[i] > IF i = 1 THEN from ELSE runs[i - 1]
=============================================================================
