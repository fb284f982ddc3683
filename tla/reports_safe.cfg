SPECIFICATION Spec
CONSTANTS
  Sizes <- MCSizes
  MaxBytes = 2
  MaxPending = 1
  Codes <- MCCodes
  Limits <- MCLimits
  Rows <- MCRows
  PageSize = 2
  Budget = 4
  StatusBudget = 2
  FirstPoll = 1
  LastPoll = 2
  MaxAttempts = 2
INVARIANTS
  NothingMissing
  CredentialsProtected
PROPERTIES
  RunEnds
CHECK_DEADLOCK FALSE
