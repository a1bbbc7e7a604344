\* Serial code on the master resizes the pool between parallel regions.
CONSTANTS
  H = 5
  IdBits = 16
  Callers <- MCCallersNone
  Requests <- MCRequestsPositive
SPECIFICATION Spec
INVARIANT TypeOK
INVARIANT BarrierNoEarlyRelease
INVARIANT SingleExactlyOnce
PROPERTY RegionEnds
CHECK_DEADLOCK FALSE
