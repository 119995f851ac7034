SPECIFICATION Spec
CONSTANTS
  d1 = d1  d2 = d2
  a1 = a1  a2 = a2
  s1 = s1  s2 = s2
  m1 = m1
  g1 = g1  g2 = g2
  p1 = p1  p2 = p2
  None = None
  Devices <- MCDevices
  Addresses <- MCAddresses
  Secrets <- MCSecrets
  Macs <- MCMacs
  Groups <- MCGroups
  PolicyNames <- MCPolicyNames
  Vlans <- MCVlans
  UserNameMac <- MCUserNameMac
  Datagrams <- MCDatagrams
  ParserInputs <- MCParserInputs
  Configurations <- MCLoaded
  MaxEvents = 2
  MaxStarts = 1
INVARIANT RegisteredGetPolicy
CHECK_DEADLOCK FALSE
