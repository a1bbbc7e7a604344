\* w1 forks two tasks (an omp single) while w2 drains the list in XOMP_barrier.
CONSTANTS
  w1 = w1
  w2 = w2
  NULL = NULL
  Workers <- MCWorkersTwo
  NT <- MCNTSingle
  Nested = FALSE
SPECIFICATION Spec
INVARIANT BarrierAfterTasks
CHECK_DEADLOCK FALSE
