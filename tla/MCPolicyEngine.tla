--------------------------- MODULE MCPolicyEngine ---------------------------
(* Instances of PolicyEngine for TLC. *)
EXTENDS PolicyEngine

CONSTANTS p1, p2, g1, g2, g3

MCNames2 == {p1, p2}
MCGroups2 == {g1, g2}
MCGroups3 == {g1, g2, g3}

\* the lowest valid VLAN id and the first id past the valid range
MCFewVlans == {1, 4095}
==============================================================================
