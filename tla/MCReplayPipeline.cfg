CONSTANTS
  SsdReadLatency = 4
  CopyLatency = 1
  ComputeLatency = 2
  TraceEvents <- MCTraceEvents
  MaxEvents = 4
  InitialLocations = {"trace", "ssd", "dram"}
  Alignment = 2
  NoTarget = NoTarget
  NoSource = NoSource
  NoFile = NoFile
SPECIFICATION Spec
CHECK_DEADLOCK FALSE
INVARIANTS
  PlansRun
  ReplaysAgree
  StoreFollowsTrace
