SPECIFICATION Spec
CONSTANTS
  Schedulers = {p1}
  Rows = {r1, r2}
  NoRow = NoRow
  Plans <- MCPlans
  Today = 0
  LastDay = 1
  Horizon = 1
  MaxFaults = 0
INVARIANTS CancelHolds
CHECK_DEADLOCK FALSE
