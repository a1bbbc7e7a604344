SPECIFICATION Spec
CONSTANTS
  Workers <- MCWorkersTwo
  w1 = w1
  w2 = w2
  w3 = w3
  NULL = NULL
  VC = 5
  VS = 3
  HC = 7
  HS = 3
  SizeBits = 16
INVARIANT RegionOutputsPrivate
CHECK_DEADLOCK FALSE
