SPECIFICATION FairProcessSpec
CONSTANTS
  t1 = t1  t2 = t2  c1 = c1
  NoCert = NoCert
  Validity = 2
  RenewBefore = 1
  MaxAttempts = 2
  MaxCA = 2
  Kinds <- MCKinds
  PoolSize = 1
  QueueSize = 1
  Tasks = {t1, t2}
  KindOf <- MCKindOf
  Ages <- MCAges
  Skew = 1
  ConfigFiles <- MCConfigFiles
  Calls = {c1}
INVARIANTS ProcessTypeOK RenewedInTime FilesServed InOrder SidesAgree
PROPERTIES ShutdownEnds AcceptedRuns
CHECK_DEADLOCK FALSE
