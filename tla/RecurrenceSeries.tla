--------------------------- MODULE RecurrenceSeries ---------------------------
(***************************************************************************)
(* The days of one recurring message: the series the repeated use of       *)
(* Recurrence's next occurrence generates, stated against the calendar.    *)
(***************************************************************************)
EXTENDS Recurrence

CONSTANTS Plans,   \* the plans to look at
          Starts   \* the days a first occurrence may fall on

ASSUME SeriesAssumption == Starts \subseteq Nat /\ \A x \in Plans : IsPlan(x)

VARIABLES day,     \* the latest occurrence
          plan,    \* the plan of the series
          chosen   \* history: the user chose it, it is the first of the series

vars == <<day, plan, chosen>>

Init == day \in Starts /\ plan \in Plans /\ chosen = TRUE

\* The message was sent and its next occurrence, if there is one, inserted.
Occur ==
  /\ Recurs(day, plan)
  /\ day' = NextDay(day, plan)
  /\ chosen' = FALSE
  /\ UNCHANGED plan

Spec == Init /\ [][Occur]_vars

FairSpec == Spec /\ WF_vars(Occur)

-----------------------------------------------------------------------------

\* nextOccurrence returns nothing past recurrence_end_date: only the first
\* occurrence, which the user chose, may lie past the end.
EndRespected == ~chosen => \A end \in plan.end : day <= end

\* One step of a weekly series with listed weekdays.
HitsListedDay ==
  plan.pattern = "weekly" /\ plan.days # {} =>
    /\ day' > day
    /\ Weekday(day') \in plan.days
    /\ \A x \in day + 1 .. day' - 1 : Weekday(x) \notin plan.days

\* A weekly plan with listed weekdays hits every listed weekday and no other:
\* the next occurrence is a later day and falls on one, and none was passed
\* over on the way.
EveryListedDay == [][HitsListedDay]_vars

\* One step of a monthly series.
KeepsDayOfMonth ==
  plan.pattern = "monthly" =>
    LET due == MonthOf(day) + Interval(plan)
    IN  \/ MonthOf(day') = due /\ DayOfMonth(day') = DayOfMonth(day)
        \/ MonthOf(day') = due + 1 /\ DayOfMonth(day) > 28 /\ DayOfMonth(day') <= 3

\* A monthly plan of interval n lands n months on, on the same day of the
\* month, unless that month has no such day: then it spills into the next
\* month, which only happens from the 29th on.
SameDayOfMonth == [][KeepsDayOfMonth]_vars

\* A series with an end date comes to its end, whatever interval is stored.
SeriesEnds == plan.end # {} ~> ~Recurs(day, plan)

=============================================================================
