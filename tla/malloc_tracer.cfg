SPECIFICATION Spec
CONSTANTS
  HeapSize = 4
  MaxCalls = 3
  Gap = 1
  Sizes = {1, 2}
  redzone_size = 2
  max_tracked_init_bytes = 1
VIEW View
CONSTRAINT Bounded
CHECK_DEADLOCK FALSE
INVARIANT TypeOK
INVARIANT LiveAndFreedApart
INVARIANT RecordsAreExact
INVARIANT FreeReportsAreExact
INVARIANT UninitializedReportsAreReal
