SPECIFICATION Spec
CONSTANTS
  Audios = {a1}
  Deliveries = {d1}
  Of <- MCOf
  Kinds <- MCKinds
  Retries = 2
  MaxFaults = 1
INVARIANTS FailureIsRetried
CHECK_DEADLOCK FALSE
