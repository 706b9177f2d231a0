CONSTANTS
  Configs <- MCConfigs
  Blocks <- MCBlocks
  Placements <- MCPlacements
  Tokens = {4, 8}
  PrefetchLimits = {2}
  NoLimit = NoLimit
  SsdReadLatency = 4
  CopyLatency = 1
  ComputeLatency = 2
  None = None
SPECIFICATION Spec
CHECK_DEADLOCK FALSE
INVARIANTS
  SelectionCorrect
  ScheduleNeverRaises
PROPERTIES
  ReadOnce
  HitsDoNotStall
