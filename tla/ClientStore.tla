----------------------------- MODULE ClientStore -----------------------------
(***************************************************************************)
(* What Client_Manager promises one caller after another, without objects, *)
(* spellings, handlers or transactions: groups with members, each change   *)
(* one operation on them that is durable, as a whole, before the next, and *)
(* a restart that finds what was durable.                                  *)
(***************************************************************************)
EXTENDS Dicts

CONSTANTS
    Macs,
    Groups

VARIABLES
    groups,         \* the groups there are
    members,        \* the group of each registered MAC
    durable         \* the groups and members a restart would find

vars == <<groups, members, durable>>

Init == groups = {} /\ members = EmptyDict /\ durable = <<groups, members>>

AddGroup(g) ==
    /\ groups' = groups \cup {g}
    /\ UNCHANGED members

\* only a group without members
RemoveGroup(g) ==
    /\ \A m \in DOMAIN members : members[m] # g
    /\ groups' = groups \ {g}
    /\ UNCHANGED members

\* a MAC is registered, or moves to another group
Assign(m, g) ==
    /\ g \in groups
    /\ members' = Put(members, m, g)
    /\ UNCHANGED groups

Remove(m) ==
    /\ members' = [n \in DOMAIN members \ {m} |-> members[n]]
    /\ UNCHANGED groups

\* An operation finds durable what those before it have done.
Change ==
    /\ durable = <<groups, members>>
    /\ \/ \E g \in Groups : AddGroup(g) \/ RemoveGroup(g)
       \/ \E m \in Macs : Remove(m) \/ \E g \in Groups : Assign(m, g)
    /\ UNCHANGED durable

\* The last operation becomes durable, all of it at once.
Save ==
    /\ durable' = <<groups, members>>
    /\ UNCHANGED <<groups, members>>

Restart ==
    /\ <<groups', members'>> = durable
    /\ UNCHANGED durable

Next == Change \/ Save \/ Restart

Spec == Init /\ [][Next]_vars
==============================================================================
