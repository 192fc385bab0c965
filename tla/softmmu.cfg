CONSTANTS
  PageSize = 2
  Space = 6
  Byte = {0}
  FirstAllocation = 2
  Bases = {0, 1, 3, 4}
  Sizes = {0, 1, 3, 5}
  Prots <- TwoProts
  FileOffsets = {1}
  Lengths = {2}
  Offsets = {1}
SPECIFICATION Spec
VIEW View
INVARIANT TypeOK
INVARIANT UniqueOwner
INVARIANT PageGranular
INVARIANT EmptyRegionsAreHarmless
PROPERTY ImplementsAddressSpace
CHECK_DEADLOCK FALSE
