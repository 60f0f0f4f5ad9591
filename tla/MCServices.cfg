SPECIFICATION MCSpec
CONSTANTS
  s1 = s1
  i1 = i1
  c1 = c1
  c2 = c2
  t1 = t1
  t2 = t2
  Contacts = {c1, c2}
  MaxRequests = 3
  Tasks = {t1, t2}
  NoTask = NoTask
  MaxWrites = 3
  MaxOpens = 2
  MaxLists = 2
  Sessions = {s1, s2}
  NoSession = NoSession
  Flows = {1, 2}
  MaxPolls = 1
  MaxClicks = 3
  Instances = {i1, i2}
  Groups = {g1}
  Calls = {1, 2}
  MaxAsks = 3
  Chats = {ch1}
  NoAct = NoAct
  MaxTime = 2
  MaxLoads = 2
  MaxActs = 2
  MaxFaults = 1
INVARIANTS
  ServicesTypeOK
  OneGroup
  JoinedAreMembers
  DetailIsSelected
  RowsMatchSessions
  ScreenIsTrue
PROPERTIES
  ListConverges
  UnreadShows
CHECK_DEADLOCK FALSE
