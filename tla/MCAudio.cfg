SPECIFICATION MCSpec
CONSTANTS
  Audios = {a1}
  Deliveries = {d1, d2}
  Of <- MCOf
  Kinds <- MCHeard
  Retries = 2
  MaxFaults = 2
INVARIANTS TypeOK ProcessedOnce NothingLost
PROPERTIES ImplementsInbox
SYMMETRY MCSymmetry
CHECK_DEADLOCK FALSE
