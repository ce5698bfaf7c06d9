SPECIFICATION FairSpec
CONSTANTS
  p1 = p1
  p2 = p2
  t1 = t1
  t2 = t2
  Callers <- OneCaller
  Targets <- TwoTargets
  QueueCap = 1
  InboxCap = 1
  MaxBreaks = 1
  MaxFails = 1
  None = None
INVARIANTS
  ClientTypeOK
  PumpsAlone
  ClosedQuietly
  SubscriptionKept
PROPERTIES
  CloseReturns
  ReconnectsWithToken
CHECK_DEADLOCK FALSE
