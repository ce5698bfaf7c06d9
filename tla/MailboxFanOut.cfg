SPECIFICATION MailboxSpec
CONSTANTS
  m1 = m1  m2 = m2  p1 = p1  p2 = p2  i1 = i1  i2 = i2
  Mailboxes = {m1, m2}
  TargetSets = {{m1}, {m1, m2}}
  Publishers = {p1, p2}
  Ids = {i1, i2}
  QoSOf <- MCQoSOf
  Expiring = {i2}
  Clearable = {}
  MaxSeq <- MCMaxSeq
  DbErrors = FALSE
  MaxCalls = 3
  None = None
INVARIANTS SuccessMeansStored
CHECK_DEADLOCK FALSE
