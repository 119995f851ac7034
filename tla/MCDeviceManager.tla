--------------------------- MODULE MCDeviceManager ---------------------------
(* Instances of DeviceManager for TLC. *)
EXTENDS DeviceManager, TLC

CONSTANTS d1, d2, d3, ip1, ip2, g1, g2

MCNames3 == {d1, d2, d3}
MCIps2 == {ip1, ip2}
MCGroups2 == {g1, g2}

\* nothing tells two names, two addresses or two groups apart
MCSymmetry ==
    Permutations(DeviceNames) \cup Permutations(Ips) \cup Permutations(DeviceGroups)
==============================================================================
