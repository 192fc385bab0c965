SPECIFICATION Spec
CONSTANTS
  HeapSize = 7
  MaxCalls = 3
  Gap = 1
  Sizes = {3}
  redzone_size = 2
  max_tracked_init_bytes = 3
VIEW View
CHECK_DEADLOCK FALSE
INVARIANT LiveBytesAreNotReported
