CONSTANTS
  PlanOps <- MCPlanOps
  MaxBlocks = 2
  LayoutSizes <- MCLayoutSizes
  PlanAlignment = 4
  FileLength = 20
  Requests <- MCRequests
  NotGiven = NotGiven
  CacheSize = 3
  Tensors <- MCTensors
SPECIFICATION Spec
INVARIANTS
  CleanMappingCovers
  TensorHoldsStagedRows
  GateCopiesAsMapped
CHECK_DEADLOCK FALSE
