SPECIFICATION Spec
CONSTANTS
  Rows = {r1, r2}
  Workers = {w1, w2}
  NoJob = NoJob
  MaxFaults = 1
INVARIANTS
  NoJobDropped
CHECK_DEADLOCK FALSE
