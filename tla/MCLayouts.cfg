CONSTANTS
  Blocks = {b1, b2, b3, b4}
  Sizes = {0, 1, 4, 6}
  BaseOffset = 3
  Alignment = 4
  KVBlocks = {b1, b2, b3}
  Intervals <- MCIntervals
  KeySize = 2
  ValueSize = 1
  KVBaseOffset = 3
SPECIFICATION LayoutsSpec
INVARIANTS
  RangesAligned
  EveryByteHasOneOwner
PROPERTIES
  AllocatorSpec
  InterleavedAllocatorSpec
