---------------------------- MODULE PolicyEngine ----------------------------
(***************************************************************************)
(* Policy_Engine (src/policy_engine.py): the MAB policies, the index from  *)
(* client group to policy that authentication decisions are taken with,    *)
(* and the policies table of the SQLite file both are loaded from.         *)
(*                                                                         *)
(* Each operation is one action: the handler's checks, its two dictionary  *)
(* updates and the save it ends with.  A refused operation raises and      *)
(* changes nothing, so it is a stuttering step.                            *)
(***************************************************************************)
EXTENDS Integers, Dicts
LOCAL INSTANCE Functions

CONSTANTS
    PolicyNames,    \* names an administrator gives to policies
    ClientGroups,   \* client group names (the engine never looks them up)
    VlanInputs,     \* VLAN ids a request may carry, valid and invalid
    None            \* Python's None

ASSUME VlanInputsAreIntegers == VlanInputs \subseteq Int
ASSUME NoneIsNoValue == None \notin Int /\ None \notin PolicyNames

VARIABLES
    policies,       \* _policies: policy name -> policy
    groupIndex,     \* _group_index: client group -> policy name
    table,          \* the rows of the policies table, keyed by name
    saved           \* ghost: the last save, or the load since, has succeeded

vars == <<policies, groupIndex, table, saved>>

Decisions == {"accept_with_vlan", "accept_without_vlan", "reject"}

\* what a policy may store: a VLAN outside 1-4094 is never one
StoredVlans == (VlanInputs \cap 1..4094) \cup {None}

Policy == [group : ClientGroups, decision : Decisions, vlan : StoredVlans]

-----------------------------------------------------------------------------
(* Loading and saving *)

\* {p.client_group_name: p.name for p in policies}
IndexOf(ps) ==
    [g \in {ps[n].group : n \in DOMAIN ps} |->
        CHOOSE n \in DOMAIN ps : ps[n].group = g]

\* The rows that a DELETE followed by one INSERT per policy leaves.  The table
\* has client_group_name UNIQUE and an INSERT that fails is skipped, so of
\* several policies of one group exactly one is kept (which one depends on the
\* order of the dict, abstracted here).
InsertedRows(ps) ==
    {Restrict(ps, S) : S \in
        {S \in SUBSET DOMAIN ps :
            /\ \A m, n \in S : ps[m].group = ps[n].group => m = n
            /\ \A n \in DOMAIN ps : \E m \in S : ps[m].group = ps[n].group}}

\* _save_data: the transaction commits, or any SQLite error is logged and
\* swallowed and the table keeps its old rows.
SaveData ==
    \/ /\ table' \in InsertedRows(policies')
       /\ saved' = TRUE
    \/ /\ saved' = FALSE
       /\ UNCHANGED table

-----------------------------------------------------------------------------
(* Validation *)

\* a mutant of ValidateVlan: the reserved id 4095 is let through
ValidateVlanUpTo4095(decision, vlan) ==
    decision = "accept_with_vlan" => vlan # None /\ vlan >= 1 /\ vlan <= 4095

\* _validate_vlan does not raise
ValidateVlan(decision, vlan) ==
    decision = "accept_with_vlan" => vlan # None /\ vlan >= 1 /\ vlan <= 4094

\* a mutant of StoredVlan: the VLAN given is kept whatever the decision
StoredVlanAsGiven(decision, vlan) == vlan

\* the VLAN a policy stores: none unless the decision assigns one
StoredVlan(decision, vlan) ==
    IF decision = "accept_with_vlan" THEN vlan ELSE None

\* a parameter that is None leaves the present value
OrElse(given, present) == IF given # None THEN given ELSE present

-----------------------------------------------------------------------------
(* The operations *)

\* mutants of CreatePolicy: the duplicate check is gone; the index is not
\* maintained
CreatePolicyUnchecked(n, g, d, v) ==
    /\ ValidateVlan(d, v)
    /\ policies' = Put(policies, n,
                       [group |-> g, decision |-> d, vlan |-> StoredVlan(d, v)])
    /\ groupIndex' = Put(groupIndex, g, n)
    /\ SaveData

CreatePolicyUnindexed(n, g, d, v) ==
    /\ g \notin DOMAIN groupIndex
    /\ ValidateVlan(d, v)
    /\ policies' = Put(policies, n,
                       [group |-> g, decision |-> d, vlan |-> StoredVlan(d, v)])
    /\ UNCHANGED groupIndex
    /\ SaveData

\* create_policy: refused for a group the index knows; nothing checks that the
\* name is free, and a policy that has it is replaced.
CreatePolicy(n, g, d, v) ==
    /\ g \notin DOMAIN groupIndex
    /\ ValidateVlan(d, v)
    /\ policies' = Put(policies, n,
                       [group |-> g, decision |-> d, vlan |-> StoredVlan(d, v)])
    /\ groupIndex' = Put(groupIndex, g, n)
    /\ SaveData

\* a mutant of UpdatePolicy: the change is not saved
UpdatePolicyUnsaved(n, d, v) ==
    LET newDecision == OrElse(d, policies[n].decision)
        newVlan == OrElse(v, policies[n].vlan)
    IN  /\ n \in DOMAIN policies
        /\ ValidateVlan(newDecision, newVlan)
        /\ policies' = [policies EXCEPT
                ![n].decision = newDecision,
                ![n].vlan = StoredVlan(newDecision, newVlan)]
        /\ UNCHANGED <<groupIndex, table, saved>>

\* update_policy: what is not given keeps its value; the pair is validated
\* before either is assigned.
UpdatePolicy(n, d, v) ==
    LET newDecision == OrElse(d, policies[n].decision)
        newVlan == OrElse(v, policies[n].vlan)
    IN  /\ n \in DOMAIN policies
        /\ ValidateVlan(newDecision, newVlan)
        /\ policies' = [policies EXCEPT
                ![n].decision = newDecision,
                ![n].vlan = StoredVlan(newDecision, newVlan)]
        /\ UNCHANGED groupIndex
        /\ SaveData

\* a mutant of DeletePolicy: the index keeps its entry
DeletePolicyLeavesIndex(n) ==
    /\ n \in DOMAIN policies
    /\ policies' = Drop(policies, n)
    /\ UNCHANGED groupIndex
    /\ SaveData

\* delete_policy: the index entry of the policy's own group goes with it.
DeletePolicy(n) ==
    /\ n \in DOMAIN policies
    /\ policies' = Drop(policies, n)
    /\ groupIndex' = Drop(groupIndex, policies[n].group)
    /\ SaveData

\* The process stops (between operations) and a new engine loads the table.
Restart ==
    /\ policies' = table
    /\ groupIndex' = IndexOf(table)
    /\ saved' = TRUE
    /\ UNCHANGED table

\* The same when the table cannot be read: a locked file, or one row whose
\* date or decision does not parse.  The engine starts empty and says so only
\* in the log.
RestartUnreadable ==
    /\ policies' = EmptyDict
    /\ groupIndex' = EmptyDict
    /\ saved' = FALSE
    /\ UNCHANGED table

\* The first start: init_db has created an empty table.
Init ==
    /\ policies = EmptyDict
    /\ groupIndex = EmptyDict
    /\ table = EmptyDict
    /\ saved = TRUE

\* Everything but create_policy
OtherStep ==
    \/ \E n \in PolicyNames, d \in Decisions \cup {None},
          v \in VlanInputs \cup {None} : UpdatePolicy(n, d, v)
    \/ \E n \in PolicyNames : DeletePolicy(n)
    \/ Restart
    \/ RestartUnreadable

Next ==
    \/ \E n \in PolicyNames, g \in ClientGroups, d \in Decisions,
          v \in VlanInputs \cup {None} : CreatePolicy(n, g, d, v)
    \/ OtherStep

Spec == Init /\ [][Next]_vars

\* The engine as used by an administrator who never gives a new policy the
\* name of one that exists.
FreshNext ==
    \/ \E n \in PolicyNames \ DOMAIN policies, g \in ClientGroups,
          d \in Decisions, v \in VlanInputs \cup {None} : CreatePolicy(n, g, d, v)
    \/ OtherStep

FreshSpec == Init /\ [][FreshNext]_vars

-----------------------------------------------------------------------------
(* What a RADIUS request sees *)

\* evaluate_policy, over the policies and the index of the engine: the verdict
\* for a client of group g
EvaluateWith(ps, index, g) ==
    IF g \in DOMAIN index /\ index[g] \in DOMAIN ps
    THEN [decision |-> ps[index[g]].decision,
          vlan     |-> ps[index[g]].vlan,
          policy   |-> index[g]]
    ELSE [decision |-> "reject", vlan |-> None, policy |-> None]

Evaluate(g) == EvaluateWith(policies, groupIndex, g)

\* the verdict after the engine has been reloaded from the table
EvaluateReloaded(g) == EvaluateWith(table, IndexOf(table), g)

-----------------------------------------------------------------------------
(* Properties *)

\* The type invariant: in particular no policy holds a VLAN outside 1-4094,
\* in memory or in the table.
TypeOK ==
    /\ policies \in Dict(PolicyNames, Policy)
    /\ table \in Dict(PolicyNames, Policy)
    /\ groupIndex \in Dict(ClientGroups, PolicyNames)
    /\ saved \in BOOLEAN

\* "One policy per client group": every policy is the one its group's index
\* entry names, so no two policies share a group and no policy is unreachable
\* by evaluate_policy, whatever names are reused.
IndexSound ==
    \A n \in DOMAIN policies :
        /\ policies[n].group \in DOMAIN groupIndex
        /\ groupIndex[policies[n].group] = n

\* A save that succeeded wrote exactly what the engine holds: no policy was
\* lost to the UNIQUE constraint of the table.
InSync == saved => table = policies

\* An Access-Accept carries a VLAN exactly when the decision of the policy
\* says so, through any sequence of partial updates.
VlanMatchesDecision ==
    \A g \in ClientGroups :
        Evaluate(g).decision = "accept_with_vlan" <=> Evaluate(g).vlan # None

\* evaluate_policy answers for a group with a policy of that group.  Holds
\* while names are not reused; a reused name makes it false.
VerdictOfOwnGroup ==
    \A g \in ClientGroups :
        Evaluate(g).policy # None => policies[Evaluate(g).policy].group = g

\* create_policy refuses a group as a duplicate only if the group has a
\* policy.  Holds while names are not reused; a reused name makes it false.
DuplicateHasPolicy ==
    \A g \in DOMAIN groupIndex : \E n \in DOMAIN policies : policies[n].group = g

\* After a save that succeeded, a restart changes no verdict.  Holds while
\* names are not reused.
RestartKeepsVerdicts ==
    saved => \A g \in ClientGroups : EvaluateReloaded(g) = Evaluate(g)

\* The inductive strengthening of IndexSound, InSync and VlanMatchesDecision:
\* the table, from which a restart rebuilds the engine, is as good as memory.
DistinctGroups(ps) ==
    \A m, n \in DOMAIN ps : ps[m].group = ps[n].group => m = n

VlansConsistent(ps) ==
    \A n \in DOMAIN ps : ps[n].decision = "accept_with_vlan" <=> ps[n].vlan # None

EngineInv ==
    /\ TypeOK
    /\ IndexSound
    /\ InSync
    /\ DistinctGroups(table)
    /\ VlansConsistent(policies)
    /\ VlansConsistent(table)

\* With distinct names the index is also never ahead of the policies.
IndexExact ==
    \A g \in DOMAIN groupIndex :
        /\ groupIndex[g] \in DOMAIN policies
        /\ policies[groupIndex[g]].group = g

FreshInv == EngineInv /\ IndexExact

\* What the engine promises, as one verdict per group (PolicyStore).
Store == INSTANCE PolicyStore WITH
    Verdicts <- [decision : Decisions, vlan : StoredVlans,
                 policy : PolicyNames \cup {None}],
    Default  <- [decision |-> "reject", vlan |-> None, policy |-> None],
    applied  <- [g \in ClientGroups |-> Evaluate(g)],
    durable  <- [g \in ClientGroups |-> EvaluateReloaded(g)]

\* Under distinct names, each operation changes the verdict of one group at
\* most, and a restart brings back the durable verdicts or rejects everything.
ImplementsStore == Store!Spec

=============================================================================
