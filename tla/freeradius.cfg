SPECIFICATION Spec
CONSTANTS
  d1 = d1
  v1 = v1  v2 = v2
  m1 = m1
  t1 = t1  t2 = t2
  Devices <- MCDevices
  Values <- MCValues
  Macs <- MCMacs1
  Threads <- MCThreads
  MayFail = TRUE
  MaxChanges = 3
INVARIANTS TypeOK QuietUpdateApplies
PROPERTY ClientsAreServed
CHECK_DEADLOCK FALSE
