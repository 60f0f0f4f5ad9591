SPECIFICATION FairSpec
CONSTANTS
  Events = {e1, e2}
  s1 = s1
  s2 = s2
  Subs = {s1, s2}
  k1 = k1
  k2 = k2
  k3 = k3
  Closers = {k1, k2, k3}
  Handle <- MCHandle
  BufSize <- MCBufSize
INVARIANTS TypeOK ClosedOnce PublishOrder NoSilentLoss
PROPERTIES PublishEnds ImplementsFanOut
CHECK_DEADLOCK FALSE
