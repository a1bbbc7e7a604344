SPECIFICATION Spec
CONSTANTS
  Workers <- MCWorkersThree
  w1 = w1
  w2 = w2
  w3 = w3
  NULL = NULL
  VC = 7
  VS = 3
  HC = 7
  HS = 3
  SizeBits = 16
INVARIANT TypeOK
INVARIANT InputsReady
INVARIANT UnitComputesReference
PROPERTY WavefrontRefines
CHECK_DEADLOCK FALSE
