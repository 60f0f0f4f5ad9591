SPECIFICATION FairSpec
CONSTANTS
  Audios = {a1}
  Deliveries = {d1}
  Of <- MCOf
  Kinds <- MCSpoken
  Retries = 3
  MaxFaults = 3
PROPERTIES TaskEnds
CHECK_DEADLOCK FALSE
