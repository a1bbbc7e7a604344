\* Three workers run an ordered runtime (dynamic) loop, a static loop and a
\* guided loop over 0..5.
CONSTANTS
  NW = 3
  Start = 0
  Stop = 5
  Step = 1
  Loops <- MCLoopsMixed
  OmpSchedule = "DYNAMIC_SCHED"
  NULL = NULL
  BUSY = BUSY
SPECIFICATION Spec
INVARIANT TypeOK
INVARIANT HandleCurrent
INVARIANT OrderedInOrder
INVARIANT NoDescriptorLeak
PROPERTY WorkShareSpec
CHECK_DEADLOCK FALSE
