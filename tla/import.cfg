SPECIFICATION Spec
CONSTANTS
  dg1 = dg1
  d1 = d1  d2 = d2
  ip1 = ip1
  g1 = g1  g2 = g2
  m1 = m1
  p1 = p1
  DeviceGroups <- MCDeviceGroups
  Names <- MCNames
  Ips <- MCIps
  ClientGroups <- MCClientGroups
  Macs <- MCMacs
  PolicyNames <- MCPolicyNames
  MaxChanges = 1
  MaxRows = 2
SYMMETRY MCSymmetry
INVARIANTS TypeOK RoundTrip CsvCountsAreTrue
PROPERTY ImportKeepsWhatIsThere
