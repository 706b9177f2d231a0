CONSTANTS
  Layouts <- MCLayouts
  NoSource = NoSource
  PlanOps <- MCPlanOps
  MaxCommands = 4
  Origins = {"scheduler"}
  Null = Null
SPECIFICATION Spec
CHECK_DEADLOCK FALSE
INVARIANTS
  NoVerificationError
  BuffersFit
  LazyInitExplained
