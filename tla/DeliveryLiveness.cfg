SPECIFICATION FairSpec
CONSTANTS
  m1 = m1  m2 = m2  p1 = p1  p2 = p2  c1 = c1  c2 = c2  t1 = t1  u1 = u1
  None = None
  Mailboxes = {m1}
  TargetSets = {{m1}}
  Publishers = {p1}
  Ids = {c1, t1}
  QoSOf <- MCQoSOf
  Expiring = {}
  Clearable = {}
  DbErrors = TRUE
  MaxCalls = 2
  MaxSeq <- MCTwoEach
  MaxInflightTotal = 1
  MaxInflight <- MCAmple
  BatchLimit = 100
  MaxConnects = 1
  MaxAcks = 1
PROPERTIES ReceivedUnlessLeaked
CHECK_DEADLOCK FALSE
