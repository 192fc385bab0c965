CONSTANTS
  MemSize = 6
  Readable = {1, 2, 3, 4}
  Writable = {1, 2, 3}
  Incoming <- ThreeBytes
  Lengths = {0, 1, 2}
  MaxIov = 2
SPECIFICATION IOSpec
VIEW View
INVARIANT IOTypeOK
PROPERTY TransfersAreExact
PROPERTY WritesStayInBuffers
CHECK_DEADLOCK FALSE
