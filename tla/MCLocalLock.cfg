CONSTANTS
  p1 = p1
  p2 = p2
  w1 = w1
  w2 = w2
  r1 = r1
  None = None
  Process = {p1, p2}
  Write = {w1, w2}
  Read = {r1}
  HomeOf <- MCQueued
  CrashBound = 1
  MayStall = TRUE
SPECIFICATION FairSpec
INVARIANTS
  LockSerializes
PROPERTY EveryRequestAnswered
CHECK_DEADLOCK FALSE
