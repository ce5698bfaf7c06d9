SPECIFICATION ConsoleSpec
CONSTANTS
  m1 = m1  m2 = m2  p1 = p1  s1 = s1  i1 = i1  i2 = i2
  Mailboxes = {m1, m2}
  TargetSets = {}
  Publishers = {p1}
  Subscribers = {s1}
  Requests <- MCRequests
  Commands <- MCCommands
  Ids = {i1, i2}
  QoSOf <- MCQoSOf
  Expiring = {i1, i2}
  Clearable = {m2}
  MaxSeq <- MCMaxSeq
  DbErrors = TRUE
  MaxCalls = 2
  MaxBusy = 2
  MaxCommands = 2
  Order <- MCOrder
  Limit = 1
  Positions = {1}
  None = None
SYMMETRY MCSymmetry
INVARIANTS ConsoleTypeOK PublisherMeetsSubscriber AddressedExactly
  InflightCovers PagesCover
CHECK_DEADLOCK FALSE
