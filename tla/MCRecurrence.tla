----------------------------- MODULE MCRecurrence -----------------------------
(* Instances of RecurrenceSeries for TLC: two years of series.             *)
EXTENDS RecurrenceSeries

CONSTANT LastDay   \* the end date of every series but those of one occurrence

MCPlan(pattern, interval, days) ==
  [pattern |-> pattern, interval |-> interval, days |-> days, end |-> {LastDay}]

\* Every set of weekdays, every pattern, and intervals below, at and above 1.
MCPlans ==
  {MCPlan("weekly", 2, days) : days \in SUBSET Weekdays}
    \cup {MCPlan(p, i, {}) : p \in Patterns \ {"weekly"}, i \in {0, 1, 13}}

\* The first week, then the end of January, the leap day of 2024, and a day
\* past the end date.
MCStarts == 0 .. 6 \cup {28, 29, 30, 424, LastDay + 1}

=============================================================================
