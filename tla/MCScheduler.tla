------------------------------ MODULE MCScheduler ------------------------------
(* Instances of Scheduler for TLC.                                         *)
EXTENDS Scheduler, TLC

MCPlan(pattern, interval) ==
  [pattern |-> pattern, interval |-> interval, days |-> {}, end |-> {LastDay + 1}]

\* A message sent once, and one that recurs daily with the interval 0 the
\* column admits.
MCPlans == {MCPlan("", 1), MCPlan("daily", 0)}

\* The passing run looks at one recurring row that a user posts, and at what
\* follows it.  Ids are handed out in order, and the fault is the first
\* scheduler's: which id is free, and who is called what, makes no difference.
MCDaily == {MCPlan("daily", 0)}
MCRows == 1 .. 3
MCSchedulers == 1 .. 2
MCPosted == {r \in Rows : Exists(r) /\ parent[r] = NoRow}
MCSpec ==
  /\ Init
  /\ [][/\ Next
        /\ Cardinality(MCPosted') <= 1
        /\ \A r, s \in Rows : r < s /\ status'[s] # "absent" => status'[r] # "absent"
        /\ faults' # faults => pc'[2] = pc[2] /\ batch'[2] = batch[2]]_vars
  /\ \A p \in Schedulers : WF_vars(SchedulerStep(p)) /\ WF_vars(Restart(p))

=============================================================================
