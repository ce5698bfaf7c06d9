SPECIFICATION Spec
CONSTANTS
  m1 = m1  m2 = m2  p1 = p1  p2 = p2  c1 = c1  c2 = c2  t1 = t1  u1 = u1
  None = None
  Mailboxes = {m1}
  TargetSets = {{m1}}
  Publishers = {p1, p2}
  Ids = {c1, u1}
  QoSOf <- MCQoSOf
  Expiring = {u1}
  Clearable = {}
  DbErrors = TRUE
  MaxCalls = 2
  MaxSeq <- MCTwoEach
  MaxInflightTotal = 2
  MaxInflight <- MCTight
  BatchLimit = 100
  MaxConnects = 2
  MaxAcks = 2
SYMMETRY MCSymmetry
INVARIANTS DeliveryTypeOK PositionsDistinct LossExplained
CHECK_DEADLOCK FALSE
