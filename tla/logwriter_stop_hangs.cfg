SPECIFICATION FairSpec
CONSTANTS
  BatchSize = 3
  MaxLogs = 3
  AlreadyStored <- MCNone
  SqliteMayFail = FALSE
CHECK_DEADLOCK FALSE
PROPERTY StopReturns
