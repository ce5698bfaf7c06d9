SPECIFICATION FairSpec
CONSTANTS
  p1 = p1
  p2 = p2
  t1 = t1
  t2 = t2
  Callers <- OneCaller
  Targets <- OneTarget
  QueueCap = 3
  InboxCap = 1
  MaxBreaks = 2
  MaxFails = 0
  None = None
PROPERTY Reconnects
CHECK_DEADLOCK FALSE
