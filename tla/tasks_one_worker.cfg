\* One worker forks three tasks, then XOMP_barrier and XOMP_parallel_end.
CONSTANTS
  w1 = w1
  w2 = w2
  NULL = NULL
  Workers <- MCWorkersOne
  NT <- MCNTOne
  Nested = FALSE
SPECIFICATION Spec
INVARIANT TypeOK
INVARIANT BarrierAfterTasks
PROPERTY Termination
CHECK_DEADLOCK FALSE
