\* The registry, checking the instrumentation group pointers across qtperf_free_data.
SPECIFICATION Spec
CONSTANTS
  NULL = NULL
  HEAD = HEAD
  INVALID = INVALID
  MaxAlloc = 2
  MaxTime = 3
  GroupSizes <- MCGroupSizes
INVARIANT InstrumentGroupLive
