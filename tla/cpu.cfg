CONSTANTS
  Slots = 4
  Values = {1, 2}
  WordBits = 6
  LongBits = 3
  ByteBits = 1
  Widths = {1, 2, 3, 6}
  Words = {0, 1, 2, 3, 4, 5, 7, 8, 16, 31, 32, 33, 62, 63}
  HighWords = {0, 6, 37, 63}
SPECIFICATION CpuSpec
VIEW View
CHECK_DEADLOCK FALSE
INVARIANT TypeOK
INVARIANT ConditionsAreComparisons
INVARIANT NarrowSumsAreExact
INVARIANT ProductsAndQuotientsAreExact
INVARIANT ShiftsAreExact
INVARIANT X87TypeOK
INVARIANT RingIsStack
INVARIANT TagsFollowStack
