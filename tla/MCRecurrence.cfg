SPECIFICATION FairSpec
CONSTANTS
  LastDay = 500
  Plans <- MCPlans
  Starts <- MCStarts
INVARIANTS EndRespected
PROPERTIES EveryListedDay SameDayOfMonth SeriesEnds
CHECK_DEADLOCK FALSE
