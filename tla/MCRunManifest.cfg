CONSTANTS
  Steps <- MCSteps
  MaxRuns = 3
SPECIFICATION RunSpec
INVARIANTS
  ManifestMatchesFiles
  ExitMatchesManifest
CHECK_DEADLOCK FALSE
