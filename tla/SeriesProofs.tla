----------------------------- MODULE SeriesProofs -----------------------------
(***************************************************************************)
(* What TLAPS proves of RecurrenceSeries, for any plans and first days.    *)
(***************************************************************************)
EXTENDS RecurrenceSeries, RecurrenceProofs

SeriesInv == day \in Nat /\ plan \in Plans /\ chosen \in BOOLEAN /\ EndRespected

LEMMA SeriesInvariance == Spec => []SeriesInv
<1>1. Init => SeriesInv
  BY SeriesAssumption DEF Init, SeriesInv, EndRespected
<1>2. SeriesInv /\ [Occur]_vars => SeriesInv'
  <2> SUFFICES ASSUME SeriesInv, [Occur]_vars PROVE SeriesInv'
    OBVIOUS
  <2>1. CASE Occur
    BY <2>1, SeriesAssumption, NextIsLater DEF Occur, SeriesInv, EndRespected
  <2>2. CASE UNCHANGED vars
    BY <2>2 DEF vars, SeriesInv, EndRespected
  <2> QED BY <2>1, <2>2
<1> QED BY <1>1, <1>2, PTL DEF Spec

\* No series goes past its end date.
THEOREM SeriesRespectsEnd == Spec => []EndRespected
BY SeriesInvariance, PTL DEF SeriesInv

\* nextWeeklyDay: a weekly series hits every listed weekday and no other.
THEOREM SeriesHitsEveryListedDay == Spec => EveryListedDay
<1>1. SeriesInv /\ [Occur]_vars => [HitsListedDay]_vars
  <2> SUFFICES ASSUME SeriesInv, Occur, plan.pattern = "weekly", plan.days # {}
               PROVE  /\ day' > day
                      /\ Weekday(day') \in plan.days
                      /\ \A x \in day + 1 .. day' - 1 : Weekday(x) \notin plan.days
    BY DEF HitsListedDay
  <2>1. day \in Nat /\ plan.days \subseteq Weekdays
    BY SeriesAssumption DEF SeriesInv, IsPlan
  <2>2. day' = NextWeeklyDay(day, plan.days)
    BY DEF Occur, NextDay
  <2>3. day' > day
    BY <2>1, SeriesAssumption, NextIsLater DEF SeriesInv, Occur
  <2> QED BY <2>1, <2>2, <2>3, WeeklyMissesNoDay
<1> QED BY <1>1, SeriesInvariance, PTL DEF Spec, EveryListedDay

\* AddDate(0, n, 0): a monthly series keeps its day of the month, and leaves its
\* month only for the first days of the next, and only from the 29th on.
THEOREM SeriesKeepsItsDay == Spec => SameDayOfMonth
<1>1. SeriesInv /\ [Occur]_vars => [KeepsDayOfMonth]_vars
  <2> SUFFICES ASSUME SeriesInv, Occur PROVE KeepsDayOfMonth
    OBVIOUS
  <2> SUFFICES ASSUME plan.pattern = "monthly"
               PROVE  LET due == MonthOf(day) + Interval(plan)
                      IN  \/ MonthOf(day') = due /\ DayOfMonth(day') = DayOfMonth(day)
                          \/ MonthOf(day') = due + 1 /\ DayOfMonth(day) > 28 /\ DayOfMonth(day') <= 3
    BY DEF KeepsDayOfMonth
  <2>1. day \in Nat /\ Interval(plan) \in Nat \ {0}
    BY SeriesAssumption DEF SeriesInv, IsPlan, Interval
  <2>2. day' = AddMonths(day, Interval(plan))
    BY DEF Occur, NextDay
  <2> QED BY <2>1, <2>2, AddMonthsKeepsDay
<1> QED BY <1>1, SeriesInvariance, PTL DEF Spec, SameDayOfMonth

=============================================================================
