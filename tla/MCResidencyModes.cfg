CONSTANTS
  PlanOps <- MCPlanOps
  MaxOps = 5
  NoFile = NoFile
  FileLengths <- MCFileLengths
SPECIFICATION Spec
CHECK_DEADLOCK FALSE
INVARIANTS
  CleanRunIsComplete
  StrictReportsWhatSeedingMakesUp
  VramOutlivesNoEviction
