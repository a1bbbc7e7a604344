\* Two workers run a guided loop over 0..3 with stride 2.
CONSTANTS
  NW = 2
  Start = 0
  Stop = 3
  Step = 2
  Loops <- MCLoopsGuided
  OmpSchedule = "unset"
  NULL = NULL
  BUSY = BUSY
SPECIFICATION Spec
INVARIANT ExactlyOnce
CHECK_DEADLOCK FALSE
