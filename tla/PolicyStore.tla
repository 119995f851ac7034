----------------------------- MODULE PolicyStore -----------------------------
(***************************************************************************)
(* What Policy_Engine promises its callers, without names, index or table: *)
(* one verdict per client group, a durable copy of the verdicts that every *)
(* change overwrites or leaves, and a restart that forgets only what was   *)
(* not durable.                                                            *)
(***************************************************************************)
CONSTANTS
    ClientGroups,
    Verdicts,       \* the answers evaluate_policy can give
    Default         \* the answer for a group without a policy

VARIABLES
    applied,        \* the verdict a request gets now, per group
    durable         \* the verdict it would get after a restart

vars == <<applied, durable>>

NoPolicies == [g \in ClientGroups |-> Default]

Init == applied = NoPolicies /\ durable = NoPolicies

\* An administrator changes what one group gets; the change is saved, or the
\* save fails and the durable verdicts stay what they were.
Change(g, v) ==
    /\ applied' = [applied EXCEPT ![g] = v]
    /\ durable' \in {applied', durable}

\* The program restarts from what is durable; if that cannot be read it
\* rejects every group.
Reload ==
    /\ applied' \in {durable, NoPolicies}
    /\ UNCHANGED durable

Next == (\E g \in ClientGroups, v \in Verdicts : Change(g, v)) \/ Reload

Spec == Init /\ [][Next]_vars
==============================================================================
