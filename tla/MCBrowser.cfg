SPECIFICATION MCSpec
CONSTANTS
  a = a
  m1 = m1
  Chats = {a, b}
  NoChat = NoChat
  Messages = {m1, m2}
  ChatOf <- MCChatOf
  At <- MCAt
  Mine = {m2}
  Locals = {l1}
  Page = 1
  MaxLoads = 2
  MaxDeletes = 1
  MaxNet = 2
  Audios = {a1, a2}
  MaxRuns = 2
  Rows = {k1}
  MaxClicks = 2
  MaxFaults = 1
INVARIANTS
  BrowserTypeOK
  ListIsRight
  StarsAgree
  DialogsAreOfChat
  PaidOnce
PROPERTIES
  PollCatchesUp
  BusyEnds
  AudioSettles
CHECK_DEADLOCK FALSE
