\* Two workers run an ordered guided loop over 0..3.
CONSTANTS
  NW = 2
  Start = 0
  Stop = 3
  Step = 1
  Loops <- MCLoopsOrderedGuided
  OmpSchedule = "unset"
  NULL = NULL
  BUSY = BUSY
SPECIFICATION Spec
INVARIANT OrderedInOrder
CHECK_DEADLOCK FALSE
