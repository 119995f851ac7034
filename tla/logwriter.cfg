SPECIFICATION FairSpec
CONSTANTS
  BatchSize = 3
  MaxLogs = 6
  AlreadyStored <- MCOneStored
  SqliteMayFail = TRUE
CHECK_DEADLOCK FALSE
INVARIANTS TypeOK NothingLostBeforeStop StopLosesLessThanABatch
PROPERTY Delivered
