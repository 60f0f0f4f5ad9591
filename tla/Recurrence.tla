------------------------------ MODULE Recurrence ------------------------------
(***************************************************************************)
(* When a recurring scheduled message is due next                          *)
(* (internal/scheduler/recurrence.go).                                     *)
(*                                                                         *)
(* The code adds whole days and months to a time in America/Sao_Paulo; the *)
(* time of day never changes, so an occurrence is a day number.  Day 0 is  *)
(* Sunday, 1 January 2023, and month 0 is January 2023.                    *)
(*                                                                         *)
(* A plan is the recurrence part of a row: its pattern ("" for none), its  *)
(* interval, the listed weekdays (0 is Sunday), and in end, a set of at    *)
(* most one day, the last day an occurrence of which is not after          *)
(* recurrence_end_date.                                                    *)
(***************************************************************************)
EXTENDS Integers, FiniteSetsExt

Patterns == {"", "daily", "weekly", "monthly"}

Weekdays == 0 .. 6

IsPlan(plan) ==
  /\ plan.pattern \in Patterns
  /\ plan.interval \in Int
  /\ plan.days \subseteq Weekdays
  /\ plan.end \subseteq Int

Weekday(d) == d % 7

-----------------------------------------------------------------------------
(* The Gregorian calendar behind time.AddDate.                             *)

\* How many leap years there are up to and including year y.
LeapYears(y) == (y \div 4) - (y \div 100) + (y \div 400)

YearStart(y) == 365 * (y - 2023) + LeapYears(y - 1) - LeapYears(2022)

DaysBefore == <<0, 31, 59, 90, 120, 151, 181, 212, 243, 273, 304, 334>>

\* The first day of month m.
MonthStart(m) ==
  LET y == 2023 + (m \div 12)
      leapDay == YearStart(y + 1) - YearStart(y) - 365
  IN  YearStart(y) + DaysBefore[1 + (m % 12)] + (IF m % 12 > 1 THEN leapDay ELSE 0)

\* The month day d is in.
MonthOf(d) ==
  CHOOSE m \in 0 .. d \div 28 : MonthStart(m) <= d /\ d < MonthStart(m + 1)

DayOfMonth(d) == d - MonthStart(MonthOf(d)) + 1

\* Mutant of AddMonths: months of thirty days.
AddThirties(d, n) == d + 30 * n

\* AddDate(0, n, 0) keeps the day of the month and lets it overflow into the
\* next month: 31 January and a month is 3 March.
AddMonths(d, n) == MonthStart(MonthOf(d) + n) + DayOfMonth(d) - 1

-----------------------------------------------------------------------------

\* Mutant of Interval: an interval below 1 is used as it is.
UnclampedInterval(plan) == plan.interval

\* An interval below 1 counts as 1.
Interval(plan) == IF plan.interval < 1 THEN 1 ELSE plan.interval

\* Mutant of NextWeeklyDay: today's weekday counts as still to come.
WeeklyDayFromToday(d, days) ==
  LET later == {x \in days : x >= Weekday(d)}
  IN  IF later # {} THEN d + Min(later) - Weekday(d)
                    ELSE d + 7 - Weekday(d) + Min(days)

\* The next listed weekday strictly after that of d, or else the first one
\* listed, in the following week.  The interval is not looked at.
NextWeeklyDay(d, days) ==
  LET later == {x \in days : x > Weekday(d)}
  IN  IF later # {} THEN d + Min(later) - Weekday(d)
                    ELSE d + 7 - Weekday(d) + Min(days)

\* The day of the next occurrence, before the end date is looked at.
NextDay(d, plan) ==
  CASE plan.pattern = "daily" -> d + Interval(plan)
    [] plan.pattern = "weekly" /\ plan.days = {} -> d + 7 * Interval(plan)
    [] plan.pattern = "weekly" /\ plan.days # {} -> NextWeeklyDay(d, plan.days)
    [] plan.pattern = "monthly" -> AddMonths(d, Interval(plan))

\* Mutant of Recurs: the end date compared with the occurrence just sent.
RecursFromLast(d, plan) == plan.pattern # "" /\ \A end \in plan.end : d <= end

\* nextOccurrence: whether there is another occurrence after the one of day d.
Recurs(d, plan) ==
  plan.pattern # "" /\ \A end \in plan.end : NextDay(d, plan) <= end

=============================================================================
