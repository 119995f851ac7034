SPECIFICATION Spec
CONSTANTS
  m1 = m1  m2 = m2
  g1 = g1  g2 = g2
  t1 = t1  t2 = t2
  NoGroup = NoGroup
  Macs <- MCMac1
  Groups <- MCGroups2
  Threads <- MCThreads2
  SqliteMayFail = TRUE
  MaxObjects = 2
SYMMETRY MCSymmetry
INVARIANTS TypeOK QuietSaveSettles
