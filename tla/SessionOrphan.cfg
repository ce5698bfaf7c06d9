SPECIFICATION Spec
CONSTANTS
  s1 = s1
  s2 = s2
  s3 = s3
  Streams <- ThreeStreams
  Admin = Admin
  None = None
  KickOld = TRUE
  MaxFaults = 1
  MaxBusy = 2
SYMMETRY StreamSymmetry
INVARIANT NewestDelivers
CHECK_DEADLOCK FALSE
