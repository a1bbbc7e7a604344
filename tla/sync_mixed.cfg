\* Three workers use critical, an omp lock and atomic in different orders.
CONSTANTS
  w1 = w1
  w2 = w2
  w3 = w3
  NULL = NULL
  Workers <- MCWorkers
  Prog <- MCProgMixed
SPECIFICATION Spec
INVARIANT MutualExclusion
PROPERTY Termination
CHECK_DEADLOCK FALSE
