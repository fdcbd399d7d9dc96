SPECIFICATION FairSpec
CONSTANTS
  MaxAttempts = 3
  MaxRedirects = 2
  RetryDelay = 1200
  Statuses <- MCStatuses
  Afters <- MCAfters
INVARIANTS
  RequestsBounded
  OutcomeIsExplained
  GivesUpOnlyWhenExhausted
PROPERTIES
  ServerIsGivenTime
  CallReturns
CHECK_DEADLOCK FALSE
