CONSTANTS
  Steps <- MCSteps
  MaxRuns = 4
  MaxChecks = 2
  MaxLlamaChecks = 3
SPECIFICATION FairSpec
INVARIANTS
  PassedResultIsBacked
  AnswerMatchesResult
  StaleResultExplained
  CheckoutLeftClean
  SummaryIsEarned
PROPERTIES
  ChecksAnswer
CHECK_DEADLOCK FALSE
