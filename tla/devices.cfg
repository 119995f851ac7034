SPECIFICATION DeviceSpec
CONSTANTS
  d1 = d1  d2 = d2  d3 = d3
  ip1 = ip1  ip2 = ip2
  g1 = g1  g2 = g2
  DeviceNames <- MCNames3
  Ips <- MCIps2
  BadIp = BadIp
  DeviceGroups <- MCGroups2
  None = None
SYMMETRY MCSymmetry
INVARIANTS DevicesTypeOK DevicesHaveGroups AddressesSurviveRestart
