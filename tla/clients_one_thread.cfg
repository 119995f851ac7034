SPECIFICATION Spec
CONSTANTS
  m1 = m1  m2 = m2
  g1 = g1  g2 = g2
  t1 = t1  t2 = t2
  NoGroup = NoGroup
  Macs <- MCMacs2
  Groups <- MCGroups2
  Threads <- MCThread1
  SqliteMayFail = FALSE
  MaxObjects = 3
SYMMETRY MCSymmetry
INVARIANTS ClientsHaveGroups RowsHaveGroups SyncedAtRest
PROPERTY ImplementsClientStore
