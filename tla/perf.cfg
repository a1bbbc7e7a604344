\* The registry over two allocations of each kind and a clock up to 3.
SPECIFICATION Spec
CONSTANTS
  NULL = NULL
  HEAD = HEAD
  INVALID = INVALID
  MaxAlloc = 2
  MaxTime = 3
  GroupSizes <- MCGroupSizes
INVARIANT TypeOK
INVARIANT ListsConsistent
INVARIANT TimeAccounted
