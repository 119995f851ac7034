---------------------------- MODULE MCImportExport ----------------------------
(* An instance of ImportExport for TLC. *)
EXTENDS ImportExport, TLC

CONSTANTS dg1, d1, d2, ip1, g1, g2, m1, p1

MCDeviceGroups == {dg1}
MCNames == {d1, d2}
MCIps == {ip1}
MCClientGroups == {g1, g2}
MCMacs == {m1}
MCPolicyNames == {p1}

MCSymmetry ==
    Permutations({d1, d2}) \cup Permutations({g1, g2})
===============================================================================
