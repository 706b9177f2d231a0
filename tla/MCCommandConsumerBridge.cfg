CONSTANTS
  Layouts <- MCLayouts
  NoSource = NoSource
  PlanOps <- MCPlanOps
  MaxCommands = 2
  Origins = {"scheduler", "bridge"}
  Null = Null
SPECIFICATION Spec
CHECK_DEADLOCK FALSE
INVARIANT ReadsWhatWasExported
