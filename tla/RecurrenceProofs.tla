--------------------------- MODULE RecurrenceProofs ---------------------------
(***************************************************************************)
(* What TLAPS proves of Recurrence, for every day and every plan: the next *)
(* occurrence is later than the one it follows, and a weekly plan misses   *)
(* none of its weekdays.                                                   *)
(***************************************************************************)
EXTENDS Recurrence, WellFoundedInduction, TLAPS

\* The least-number principle for sets, which stands in for induction.
LEMMA LeastElement ==
  ASSUME NEW T, T \subseteq Nat, T # {}
  PROVE  \E x \in T : \A y \in T : x <= y
<1> DEFINE Less == {ss \in Nat \X Nat : ss[1] < ss[2]}
<1>1. IsWellFoundedOn(Less, Nat)
  BY NatLessThanWellFounded DEF OpToRel
<1> HIDE DEF Less
<1>2. PICK x \in T : \A y \in T : ~ (<<y, x>> \in Less)
  BY <1>1, WFMin
<1>3. \A y \in T : ~ (y < x)
  BY <1>2 DEF Less
<1> QED BY <1>3

LEMMA MinOfNaturals ==
  ASSUME NEW T, T \subseteq Nat, T # {}
  PROVE  Min(T) \in T /\ \A y \in T : Min(T) <= y
BY LeastElement DEF Min

-----------------------------------------------------------------------------
(* Weekly plans.                                                           *)

\* nextWeeklyDay: the next occurrence is one to seven days later and falls on
\* a listed weekday, and no day in between does.
THEOREM WeeklyMissesNoDay ==
  ASSUME NEW d \in Nat, NEW days \in SUBSET Weekdays, days # {}
  PROVE  /\ NextWeeklyDay(d, days) \in d + 1 .. d + 7
         /\ Weekday(NextWeeklyDay(d, days)) \in days
         /\ \A x \in d + 1 .. NextWeeklyDay(d, days) - 1 : Weekday(x) \notin days
<1> DEFINE later == {x \in days : x > Weekday(d)}
<1>1. Weekday(d) \in 0 .. 6 /\ days \subseteq 0 .. 6
  BY DEF Weekday, Weekdays
<1>2. days \subseteq Nat /\ later \subseteq days
  BY <1>1
<1>3. \A x \in Nat : x \in later <=> x \in days /\ x > Weekday(d)
  OBVIOUS
<1>4. NextWeeklyDay(d, days) = IF later # {} THEN d + Min(later) - Weekday(d)
                                            ELSE d + 7 - Weekday(d) + Min(days)
  BY DEF NextWeeklyDay
<1> HIDE DEF later
<1>5. CASE later # {}
  <2>1. PICK k : k = Min(later) /\ k \in later /\ \A y \in later : k <= y
    BY <1>2, <1>5, MinOfNaturals, later \subseteq Nat
  <2>2. k \in days /\ k \in 1 .. 6 /\ Weekday(d) < k
    <3>1. k \in days /\ k \in 0 .. 6
      BY <1>1, <1>2, <2>1
    <3> QED BY <1>1, <1>3, <2>1, <3>1
  <2>3. NextWeeklyDay(d, days) = d + k - Weekday(d)
    BY <1>4, <1>5, <2>1
  <2>4. Weekday(d + k - Weekday(d)) = k
    BY <2>2 DEF Weekday
  <2>5. ASSUME NEW x \in d + 1 .. d + k - Weekday(d) - 1
        PROVE  Weekday(x) > Weekday(d) /\ Weekday(x) < k
    BY <2>2 DEF Weekday
  <2>6. ASSUME NEW x \in d + 1 .. d + k - Weekday(d) - 1
        PROVE  Weekday(x) \notin days
    <3>1. Weekday(x) \in Int
      BY DEF Weekday
    <3> QED BY <1>1, <1>3, <2>1, <2>2, <2>5, <3>1
  <2>7. d + k - Weekday(d) \in d + 1 .. d + 7
    BY <1>1, <2>2
  <2> DEFINE n == d + k - Weekday(d)
  <2>8. /\ n \in d + 1 .. d + 7
        /\ Weekday(n) \in days
        /\ \A x \in d + 1 .. n - 1 : Weekday(x) \notin days
    BY <1>1, <2>2, <2>4, <2>6, <2>7
  <2> HIDE DEF n
  <2> QED BY <2>3, <2>8 DEF n
<1>6. CASE later = {}
  <2>1. PICK k : k = Min(days) /\ k \in days /\ \A y \in days : k <= y
    BY <1>2, MinOfNaturals
  <2>2. k \in 0 .. 6 /\ k <= Weekday(d)
    BY <1>1, <1>3, <1>6, <2>1
  <2>3. NextWeeklyDay(d, days) = d + 7 - Weekday(d) + k
    BY <1>4, <1>6, <2>1
  <2>4. Weekday(d + 7 - Weekday(d) + k) = k
    BY <2>2 DEF Weekday
  <2>5. ASSUME NEW x \in d + 1 .. d + 7 - Weekday(d) + k - 1
        PROVE  Weekday(x) > Weekday(d) \/ Weekday(x) < k
    BY <2>2 DEF Weekday
  <2>6. ASSUME NEW x \in d + 1 .. d + 7 - Weekday(d) + k - 1
        PROVE  Weekday(x) \notin days
    <3>1. Weekday(x) \in Int
      BY DEF Weekday
    <3> QED BY <1>1, <1>3, <1>6, <2>1, <2>2, <2>5, <3>1
  <2>7. d + 7 - Weekday(d) + k \in d + 1 .. d + 7
    BY <1>1, <2>2
  <2> DEFINE n == d + 7 - Weekday(d) + k
  <2>8. /\ n \in d + 1 .. d + 7
        /\ Weekday(n) \in days
        /\ \A x \in d + 1 .. n - 1 : Weekday(x) \notin days
    BY <1>1, <2>1, <2>4, <2>6, <2>7
  <2> HIDE DEF n
  <2> QED BY <2>3, <2>8 DEF n
<1> QED BY <1>5, <1>6

-----------------------------------------------------------------------------
(* Monthly plans.                                                          *)

\* A month has twenty-eight to thirty-one days.
LEMMA MonthStep ==
  ASSUME NEW m \in Nat
  PROVE  /\ MonthStart(m) \in Int
         /\ MonthStart(m + 1) >= MonthStart(m) + 28
         /\ MonthStart(m + 1) <= MonthStart(m) + 31
<1> DEFINE y == m \div 12
           k == m % 12
<1>1. y \in Nat /\ k \in 0 .. 11 /\ m = 12 * y + k
  OBVIOUS
<1>2. IF k = 11 THEN (m + 1) \div 12 = y + 1 /\ (m + 1) % 12 = 0
                ELSE (m + 1) \div 12 = y /\ (m + 1) % 12 = k + 1
  BY <1>1
<1>3. \A x \in Nat : YearStart(2023 + x) \in Int
  BY DEF YearStart, LeapYears
<1>4. \A x \in Nat : YearStart(2023 + x + 1) - YearStart(2023 + x) - 365 \in {0, 1}
  BY DEF YearStart, LeapYears
<1> QED BY <1>1, <1>2, <1>3, <1>4 DEF MonthStart, DaysBefore

LEMMA MonthStartsGrow ==
  ASSUME NEW m \in Nat, NEW n \in Nat
  PROVE  MonthStart(m + n) >= MonthStart(m) + 28 * n
<1> DEFINE Wrong == {i \in Nat : ~ (MonthStart(m + i) >= MonthStart(m) + 28 * i)}
<1>1. SUFFICES ASSUME Wrong # {} PROVE FALSE
  OBVIOUS
<1>2. PICK i \in Wrong : \A j \in Wrong : i <= j
  BY <1>1, LeastElement
<1>3. i \in Nat /\ i # 0
  BY MonthStep
<1>4. i - 1 \in Nat /\ i - 1 \notin Wrong
  BY <1>2, <1>3
<1>5. MonthStart(m + (i - 1)) >= MonthStart(m) + 28 * (i - 1)
  BY <1>4
<1>6. m + (i - 1) \in Nat /\ (m + (i - 1)) + 1 = m + i
  BY <1>3
<1>7. MonthStart(m + i) >= MonthStart(m + (i - 1)) + 28
  BY <1>6, MonthStep
<1>8. MonthStart(m + i) \in Int /\ MonthStart(m + (i - 1)) \in Int /\ MonthStart(m) \in Int
  BY <1>3, <1>6, MonthStep
<1> QED BY <1>3, <1>5, <1>7, <1>8

LEMMA FirstMonth == MonthStart(0) = 0
BY DEF MonthStart, YearStart, LeapYears, DaysBefore

\* Every day is in a month that MonthOf finds.
LEMMA MonthOfIsDefined ==
  ASSUME NEW d \in Nat
  PROVE  /\ MonthOf(d) \in Nat
         /\ MonthStart(MonthOf(d)) <= d
         /\ d < MonthStart(MonthOf(d) + 1)
<1> DEFINE Later == {i \in Nat : d < MonthStart(i)}
           last == d \div 28
<1>1. last \in Nat /\ d < 28 * (last + 1)
  OBVIOUS
<1>2. MonthStart(last + 1) >= 28 * (last + 1)
  <2>1. PICK z \in Nat, n \in Nat : z = 0 /\ n = last + 1
    BY <1>1
  <2>2. MonthStart(z + n) >= MonthStart(z) + 28 * n
    BY MonthStartsGrow
  <2>3. z + n = n
    BY <2>1
  <2> QED BY <2>1, <2>2, <2>3, FirstMonth
<1>3. last + 1 \in Later
  BY <1>1, <1>2, MonthStep
<1>4. PICK i \in Later : \A j \in Later : i <= j
  BY <1>3, LeastElement
<1>5. i \in 1 .. last + 1
  BY <1>1, <1>3, <1>4, FirstMonth
<1>6. i - 1 \in 0 .. last /\ i - 1 \notin Later
  BY <1>1, <1>4, <1>5
<1>7. MonthStart(i - 1) \in Int
  BY <1>5, MonthStep
<1>8. MonthStart(i - 1) <= d /\ d < MonthStart((i - 1) + 1)
  BY <1>5, <1>6, <1>7
<1>9. \E m \in 0 .. last : MonthStart(m) <= d /\ d < MonthStart(m + 1)
  BY <1>6, <1>8
<1> QED BY <1>1, <1>9 DEF MonthOf

\* The month MonthOf finds is the only one the day is in.
LEMMA MonthOfIsUnique ==
  ASSUME NEW d \in Nat, NEW m \in Nat, MonthStart(m) <= d, d < MonthStart(m + 1)
  PROVE  MonthOf(d) = m
<1>1. PICK i \in Nat : i = MonthOf(d) /\ MonthStart(i) <= d /\ d < MonthStart(i + 1)
  BY MonthOfIsDefined
<1>2. ASSUME NEW j \in Nat, NEW k \in Nat, j < k
      PROVE  MonthStart(j + 1) <= MonthStart(k)
  <2>1. PICK n \in Nat : (j + 1) + n = k
    <3>1. k - j - 1 \in Nat /\ (j + 1) + (k - j - 1) = k
      BY <1>2
    <3> QED BY <3>1
  <2>2. j + 1 \in Nat
    OBVIOUS
  <2>3. MonthStart((j + 1) + n) >= MonthStart(j + 1) + 28 * n
    BY <2>2, MonthStartsGrow
  <2> QED BY <2>1, <2>2, <2>3, MonthStep
<1>3. MonthStart(i) \in Int /\ MonthStart(i + 1) \in Int /\ MonthStart(m) \in Int /\ MonthStart(m + 1) \in Int
  BY MonthStep
<1> QED BY <1>1, <1>2, <1>3

LEMMA AddMonthsIsLater ==
  ASSUME NEW d \in Nat, NEW n \in Nat \ {0}
  PROVE  AddMonths(d, n) \in Nat /\ AddMonths(d, n) > d
<1>1. PICK m \in Nat : m = MonthOf(d)
  BY MonthOfIsDefined
<1>2. MonthStart(m) \in Int /\ MonthStart(m + n) \in Int
  BY MonthStep
<1>3. MonthStart(m + n) >= MonthStart(m) + 28 * n
  BY MonthStartsGrow
<1>4. AddMonths(d, n) = MonthStart(m + n) + (d - MonthStart(m) + 1) - 1
  BY <1>1 DEF AddMonths, DayOfMonth
<1> QED BY <1>2, <1>3, <1>4

\* AddDate(0, n, 0): the day of the month is kept, or, when the month it falls
\* in is too short for it, spills over to one of the first three of the next.
THEOREM AddMonthsKeepsDay ==
  ASSUME NEW d \in Nat, NEW n \in Nat \ {0}
  PROVE  LET e   == AddMonths(d, n)
             due == MonthOf(d) + n
         IN  \/ MonthOf(e) = due /\ DayOfMonth(e) = DayOfMonth(d)
             \/ MonthOf(e) = due + 1 /\ DayOfMonth(d) > 28 /\ DayOfMonth(e) <= 3
<1>1. PICK m \in Nat : m = MonthOf(d) /\ MonthStart(m) <= d /\ d < MonthStart(m + 1)
  BY MonthOfIsDefined
<1>2. PICK e \in Nat : e = AddMonths(d, n)
  BY AddMonthsIsLater
<1>3. PICK due \in Nat : due = m + n
  OBVIOUS
<1>4. /\ MonthStart(m) \in Int /\ MonthStart(m + 1) <= MonthStart(m) + 31
      /\ MonthStart(m + 1) \in Int
  BY MonthStep
<1>5. /\ MonthStart(due) \in Int /\ MonthStart(due + 1) \in Int
      /\ MonthStart(due + 1) >= MonthStart(due) + 28
  BY MonthStep
<1>6. MonthStart((due + 1) + 1) \in Int /\ MonthStart((due + 1) + 1) >= MonthStart(due + 1) + 28
  <2>1. due + 1 \in Nat /\ (due + 1) + 1 \in Nat
    OBVIOUS
  <2> QED BY <2>1, MonthStep
<1>7. DayOfMonth(d) = d - MonthStart(m) + 1 /\ e = MonthStart(due) + d - MonthStart(m)
  BY <1>1, <1>2, <1>3, <1>4, <1>5 DEF AddMonths, DayOfMonth
<1>8. CASE e < MonthStart(due + 1)
  <2>1. MonthOf(e) = due
    BY <1>1, <1>4, <1>5, <1>7, <1>8, MonthOfIsUnique
  <2>2. DayOfMonth(e) = DayOfMonth(d)
    BY <1>4, <1>5, <1>7, <2>1 DEF DayOfMonth
  <2> QED BY <1>1, <1>2, <1>3, <2>1, <2>2
<1>9. CASE ~ (e < MonthStart(due + 1))
  <2>1. MonthStart(due + 1) <= e /\ e < MonthStart((due + 1) + 1)
    BY <1>1, <1>4, <1>5, <1>6, <1>7, <1>9
  <2>2. MonthOf(e) = due + 1
    BY <2>1, due + 1 \in Nat, MonthOfIsUnique
  <2>3. DayOfMonth(e) = e - MonthStart(due + 1) + 1
    BY <2>2 DEF DayOfMonth
  <2>4. DayOfMonth(d) > 28 /\ DayOfMonth(e) <= 3
    BY <1>1, <1>4, <1>5, <1>7, <1>9, <2>3
  <2> QED BY <1>1, <1>2, <1>3, <2>2, <2>4
<1> QED BY <1>8, <1>9

-----------------------------------------------------------------------------
(* Every plan.                                                             *)

\* nextOccurrence never returns the day it was given or an earlier one: a
\* recurring message cannot be due again at once, whatever interval its row
\* holds, and what it returns is not past recurrence_end_date.
THEOREM NextIsLater ==
  ASSUME NEW d \in Nat, NEW p, IsPlan(p), Recurs(d, p)
  PROVE  /\ NextDay(d, p) \in Nat
         /\ NextDay(d, p) > d
         /\ \A end \in p.end : NextDay(d, p) <= end
<1>1. Interval(p) \in Nat \ {0}
  BY DEF Interval, IsPlan
<1>2. CASE p.pattern = "daily"
  BY <1>1, <1>2 DEF NextDay, Recurs, IsPlan
<1>3. CASE p.pattern = "weekly" /\ p.days = {}
  BY <1>1, <1>3 DEF NextDay, Recurs, IsPlan
<1>4. CASE p.pattern = "weekly" /\ p.days # {}
  <2>1. NextDay(d, p) = NextWeeklyDay(d, p.days)
    BY <1>4 DEF NextDay
  <2> QED BY <1>4, <2>1, WeeklyMissesNoDay DEF Recurs, IsPlan
<1>5. CASE p.pattern = "monthly"
  <2>1. NextDay(d, p) = AddMonths(d, Interval(p))
    BY <1>5 DEF NextDay
  <2> QED BY <1>1, <2>1, AddMonthsIsLater DEF Recurs, IsPlan
<1> QED BY <1>2, <1>3, <1>4, <1>5 DEF Recurs, Patterns, IsPlan

=============================================================================
