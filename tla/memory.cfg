CONSTANTS
  PageSize = 2
  Space = 10
  Byte = {0, 1}
  InitialRegions <- ImageAndStack
  FirstAllocation = 4
  BrkStart = 2
  Targets = {5, 7}
  OldAddresses = {4, 7}
  Sizes = {0, 2, 3, 9}
  Prots <- TwoProts
  Options <- SomeOptions
  Requests = {1, 3, 9}
  Stores = {6}
SPECIFICATION Spec
VIEW View
INVARIANT TypeOK
INVARIANT BreakIsBackedBelowTop
PROPERTY OnlyFixedReplaces
PROPERTY MmapIsExact
PROPERTY MoveIsExact
PROPERTY ErrorsTouchOnlyTarget
CHECK_DEADLOCK FALSE
