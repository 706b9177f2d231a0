CONSTANTS
  Main = Main
  Draft = Draft
  Caches = {Main, Draft}
  CacheLayers <- MCCacheLayers
  CacheSize <- MCCacheSize
  Ubatches <- MCUbatches
  Files <- MCFiles
  NoFile = NoFile
  Layout <- MCLayout
  MaxRuns = 2
  MaxBatches = 3
  MaxCommands = 2
  MaxShadow = 2
  NoCache = NoCache
  NoEvent = NoEvent
  NoSummary = NoSummary
  Torn = Torn
  NoSource = NoSource
SPECIFICATION Spec
INVARIANTS
  AcceptedTraceIsOneRun
  ShadowAccountsAgree
  PlanStaysInItsCaches
  DroppedCommandsVisible
  IntentsRoundTrip
CHECK_DEADLOCK FALSE
