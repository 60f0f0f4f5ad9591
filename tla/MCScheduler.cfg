SPECIFICATION MCSpec
CONSTANTS
  Schedulers <- MCSchedulers
  Rows <- MCRows
  NoRow = NoRow
  Plans <- MCDaily
  Today = 0
  LastDay = 1
  Horizon = 0
  MaxFaults = 1
INVARIANTS TypeOK SentOnce CanceledIsSilent SeriesFollowsSends SeriesAdvances FaultsStrandOne
PROPERTIES ImplementsOutbox SettledIsFinal DueIsHandled
CHECK_DEADLOCK FALSE
