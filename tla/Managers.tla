------------------------------ MODULE Managers ------------------------------
(***************************************************************************)
(* What Device_Manager, Client_Manager and Policy_Engine hold, and their   *)
(* operations as two threads of the Flask server call them: the thread of  *)
(* the request that is being followed and one other.  Nothing is locked.   *)
(*                                                                         *)
(* An operation that creates, updates or deletes an entry looks its key up *)
(* first, then in some cases its group or the members of its group, and    *)
(* writes memory after that; the other thread may act in between.  At last *)
(* it saves its manager.  An operation that is refused ends where it is.   *)
(*                                                                         *)
(* What is only copied is left out: secrets, decisions, VLANs, the names   *)
(* of clients, times; and with the decisions update_policy, which changes  *)
(* nothing else.  ClientManager and DeviceManager have a save in detail.   *)
(***************************************************************************)
EXTENDS Naturals, FiniteSets, Dicts

CONSTANTS
    DeviceGroups, Names, Ips,       \* device groups, device names, addresses
    ClientGroups, Macs,             \* client groups, MAC addresses
    PolicyNames                     \* policy names

VARIABLES
    memory,         \* the dictionaries of a kind of entity: key -> object
    groupIndex,     \* Policy_Engine: client group -> policy name
    tables,         \* what the last saves wrote, kind by kind
    doubtful,       \* kinds whose tables overlapping operations have saved
    work            \* the operation each thread is at

managers == <<memory, groupIndex, tables, doubtful, work>>

-----------------------------------------------------------------------------
(* What there is *)

Groups == {"device_groups", "client_groups"}
Members == {"devices", "clients"}
KindNames == Groups \cup Members \cup {"policies"}

\* the kind of the groups of a kind of members, and the other way round
GroupsOf(kind) == IF kind = "devices" THEN "device_groups" ELSE "client_groups"
MembersOf(kind) == IF kind = "device_groups" THEN "devices" ELSE "clients"

\* the kinds one manager saves together
SavedWith(kind) ==
    CASE kind \in {"device_groups", "devices"} -> {"device_groups", "devices"}
      [] kind \in {"client_groups", "clients"} -> {"client_groups", "clients"}
      [] kind = "policies"                     -> {"policies"}

\* A client is registered under the MAC as typed; a loaded one, and an imported
\* one, under its canonical spelling.  Either way the client holds the MAC.
Spellings == {"canonical", "typed"}
Keys == Macs \X Spellings
Key(m) == <<m, "canonical">>

KeysOf(kind) ==
    CASE kind = "device_groups" -> DeviceGroups
      [] kind = "devices"       -> Names
      [] kind = "client_groups" -> ClientGroups
      [] kind = "clients"       -> Keys
      [] kind = "policies"      -> PolicyNames

\* an object: a group is its name, anything else has a group
ObjectsOf(kind) ==
    CASE kind = "device_groups" -> DeviceGroups
      [] kind = "devices"       -> [ip : Ips, group : DeviceGroups]
      [] kind = "client_groups" -> ClientGroups
      [] kind \in {"clients", "policies"} -> [group : ClientGroups]

Entities(kind) == Dict(KeysOf(kind), ObjectsOf(kind))

\* what an update may give: an attribute it leaves alone is "none", and no
\* address is "malformed"
Changes(kind) ==
    IF kind = "devices"
    THEN [ip : Ips \cup {"none", "malformed"}, group : DeviceGroups \cup {"none"}]
    ELSE [group : ClientGroups]

IndexOf(ps) ==
    [g \in {ps[n].group : n \in DOMAIN ps} |->
        CHOOSE n \in DOMAIN ps : ps[n].group = g]

-----------------------------------------------------------------------------
(* Threads *)

Threads == {"request", "other"}
Other(t) == IF t = "request" THEN "other" ELSE "request"

NoKey == <<"none", "none">>
NoObject == [group |-> "none"]

AtRest == [what |-> "none", kind |-> "none", key |-> NoKey, value |-> NoObject,
           step |-> "none", stale |-> FALSE]

Busy(t) == work[t].step # "none"

\* before its save is complete
Working(t) == work[t].step \in {"check", "write", "second", "save"}

Goes(t, step) == work' = [work EXCEPT ![t].step = step]

\* the request has its result, "done" or "failed"; the other thread is through
Ended(t, result) ==
    IF t = "request" THEN [work[t] EXCEPT !.step = result] ELSE AtRest

\* Thread t goes on to a step.  What the other thread saw of this entry is stale
\* if t puts it into, or takes it out of, the dictionary.
GoesTouching(t, op, step, touched) ==
    work' = [work EXCEPT ![t] = [op EXCEPT !.step = step],
                         ![Other(t)].stale = @ \/ touched]

SameEntry(t) ==
    /\ Working(Other(t))
    /\ work[t].kind # "policies"
    /\ work[Other(t)].kind = work[t].kind
    /\ work[Other(t)].key = work[t].key

\* for a policy, what counts is the index entry of its group
SameGroup(t) ==
    /\ Working(Other(t))
    /\ work[t].kind = "policies"
    /\ work[Other(t)].kind = "policies"
    /\ work[Other(t)].value.group = work[t].value.group

-----------------------------------------------------------------------------
(* The looks of an operation *)

\* a mutant of Refused: an entry that is there is written over
RefusedNever(what, kind, key, value) ==
    what # "create" /\ key \notin DOMAIN memory[kind]

\* create_policy looks for the group in the index, whatever the name
Refused(what, kind, key, value) ==
    \/ what = "create" /\ kind # "policies" /\ key \in DOMAIN memory[kind]
    \/ what = "create" /\ kind = "policies" /\ value.group \in DOMAIN groupIndex
    \/ what # "create" /\ key \notin DOMAIN memory[kind]

\* members have a group to look up, groups members to look for
LooksTwice(what, kind) ==
    IF what = "delete" THEN kind \in Groups ELSE kind \in Members

Operation(what, kind, key, value, step) ==
    [what |-> what, kind |-> kind, key |-> key, value |-> value,
     step |-> step, stale |-> FALSE]

\* The first look.  update_client and update_device take the object here.
Begins(t, what, kind, key, value) ==
    /\ ~Working(t)
    /\ LET step == CASE Refused(what, kind, key, value) -> "failed"
                     [] ~Refused(what, kind, key, value) /\ LooksTwice(what, kind) -> "check"
                     [] OTHER -> "write"
       IN  work' = [work EXCEPT ![t] = Operation(what, kind, key, value, step)]
    /\ doubtful' = IF Busy(Other(t)) /\ work[Other(t)].kind \in SavedWith(kind)
                   THEN doubtful \cup SavedWith(kind) ELSE doubtful
    /\ UNCHANGED <<memory, groupIndex, tables>>

CheckFails(op) ==
    \/ /\ op.what = "delete"
       /\ \E k \in DOMAIN memory[MembersOf(op.kind)] :
            memory[MembersOf(op.kind)][k].group = op.key
    \/ /\ op.what # "delete"
       /\ op.value.group # "none"
       /\ op.value.group \notin DOMAIN memory[GroupsOf(op.kind)]

\* The second look.  The loop over the members is taken for one look at them;
\* a dictionary that changes its size under it raises.
Check(t) ==
    /\ work[t].step = "check"
    /\ \/ ~CheckFails(work[t]) /\ Goes(t, "write")
       \/ /\ CheckFails(work[t]) \/ (work[t].what = "delete" /\ Working(Other(t)))
          /\ work' = [work EXCEPT ![t] = Ended(t, "failed")]
    /\ UNCHANGED <<memory, groupIndex, tables, doubtful>>

-----------------------------------------------------------------------------
(* The writes and the save *)

AfterWrite(op) ==
    IF op.kind = "policies" \/ (op.kind = "devices" /\ op.what = "update")
    THEN "second" ELSE "save"

\* whatever the key holds by now
Insert(t) ==
    LET op == work[t] IN
    /\ op.step = "write" /\ op.what = "create"
    /\ memory' = [memory EXCEPT ![op.kind] = Put(@, op.key, op.value)]
    /\ GoesTouching(t, op, AfterWrite(op), SameEntry(t))
    /\ UNCHANGED <<groupIndex, tables, doubtful>>

\* delete_policy keeps the policy it takes out.  Only the other thread deletes, so
\* the key is still there; ClientManager has the KeyError of two deletions.
Remove(t) ==
    LET op == work[t] IN
    /\ op.step = "write" /\ op.what = "delete"
    /\ memory' = [memory EXCEPT ![op.kind] = Drop(@, op.key)]
    /\ GoesTouching(t, [op EXCEPT !.value = memory[op.kind][op.key]],
                    AfterWrite(op), SameEntry(t))
    /\ UNCHANGED <<groupIndex, tables, doubtful>>

\* the object with the attributes an update has given
AssignGroup(object, value) ==
    IF value.group = "none" THEN object ELSE [object EXCEPT !.group = value.group]

AssignIp(object, value) ==
    IF value.ip = "none" THEN object ELSE [object EXCEPT !.ip = value.ip]

\* The group, on the object the first look has found; if its entry has been
\* removed or replaced since, nobody sees it.
Assign(t) ==
    LET op == work[t] IN
    /\ op.step = "write" /\ op.what = "update"
    /\ IF op.stale
       THEN UNCHANGED memory
       ELSE memory' = [memory EXCEPT ![op.kind][op.key] = AssignGroup(@, op.value)]
    /\ Goes(t, AfterWrite(op))
    /\ UNCHANGED <<groupIndex, tables, doubtful>>

\* a mutant of SetAddress: the address is not looked at
SetAddressUnchecked(t) ==
    LET op == work[t] IN
    /\ op.step = "second" /\ op.kind = "devices"
    /\ IF op.stale
       THEN UNCHANGED memory
       ELSE memory' = [memory EXCEPT !["devices"][op.key] = AssignIp(@, op.value)]
    /\ Goes(t, "save")
    /\ UNCHANGED <<groupIndex, tables, doubtful>>

\* update_device: the address.  A malformed one ends the operation here, with
\* the group assigned and nothing saved.
SetAddress(t) ==
    LET op == work[t] IN
    /\ op.step = "second" /\ op.kind = "devices"
    /\ \/ /\ op.value.ip = "malformed"
          /\ work' = [work EXCEPT ![t] = Ended(t, "failed")]
          /\ UNCHANGED memory
       \/ /\ op.value.ip # "malformed"
          /\ IF op.stale
             THEN UNCHANGED memory
             ELSE memory' = [memory EXCEPT !["devices"][op.key] = AssignIp(@, op.value)]
          /\ Goes(t, "save")
    /\ UNCHANGED <<groupIndex, tables, doubtful>>

\* create_policy and delete_policy: the index after the policies
Index(t) ==
    LET op == work[t] IN
    /\ op.step = "second" /\ op.kind = "policies"
    /\ groupIndex' = IF op.what = "create"
                     THEN Put(groupIndex, op.value.group, op.key)
                     ELSE Drop(groupIndex, op.value.group)
    /\ GoesTouching(t, op, "save", SameGroup(t))
    /\ UNCHANGED <<memory, tables, doubtful>>

Save(t) ==
    /\ work[t].step = "save"
    /\ tables' = [kind \in KindNames |->
                    IF kind \in SavedWith(work[t].kind) THEN memory[kind] ELSE tables[kind]]
    /\ work' = [work EXCEPT ![t] = Ended(t, "done")]
    /\ UNCHANGED <<memory, groupIndex, doubtful>>

Steps(t) ==
    Check(t) \/ Insert(t) \/ Remove(t) \/ Assign(t) \/ SetAddress(t) \/ Index(t) \/ Save(t)

-----------------------------------------------------------------------------
(* Loading *)

\* the parts of a dictionary whose entries differ in column[k], none left out
\* that could stay: the rows a UNIQUE column lets in, in some order
Distinct(d, column) ==
    {[k \in S |-> d[k]] : S \in
        {S \in SUBSET DOMAIN d :
            /\ \A j, k \in S : column[j] = column[k] => j = k
            /\ \A k \in DOMAIN d : \E j \in S : column[j] = column[k]}}

\* a client is loaded under its canonical key
Canonical(cs) ==
    [k \in {Key(j[1]) : j \in DOMAIN cs} |->
        cs[CHOOSE j \in DOMAIN cs : j[1] = k[1]]]

\* The tables a crash leaves: a save writes the groups first, in a transaction
\* of their own.
OnDisk ==
    {tables} \cup
    {[tables EXCEPT ![kind] = memory[kind]] : kind \in
        {kind \in Groups : \E t \in Threads :
            work[t].step = "save" /\ kind \in SavedWith(work[t].kind)}}

\* what is loaded of a kind: addresses, MACs and the groups of policies are UNIQUE
Loads(kind, d) ==
    CASE kind \in Groups    -> {d}
      [] kind = "devices"   -> Distinct(d, [n \in DOMAIN d |-> d[n].ip])
      [] kind = "clients"   -> {Canonical(cs) : cs \in Distinct(d, [k \in DOMAIN d |-> k[1]])}
      [] kind = "policies"  -> Distinct(d, [n \in DOMAIN d |-> d[n].group])

\* What a table holds that overlapping operations have saved is not followed:
\* ClientManager has their saves in detail, here it may be anything.
Loadable(disk, kind) ==
    UNION {Loads(kind, d) : d \in IF kind \in doubtful THEN Entities(kind) ELSE {disk[kind]}}

\* The process starts again: the managers load their tables.
Load ==
    /\ \E disk \in OnDisk :
        \E dg \in Loadable(disk, "device_groups"), ds \in Loadable(disk, "devices"),
           cg \in Loadable(disk, "client_groups"), cs \in Loadable(disk, "clients"),
           ps \in Loadable(disk, "policies") :
            memory' = [device_groups |-> dg, devices |-> ds, client_groups |-> cg,
                       clients |-> cs, policies |-> ps]
    /\ groupIndex' = IndexOf(memory'["policies"])
    /\ tables' = memory'
    /\ doubtful' = {}
    /\ work' = [t \in Threads |-> AtRest]

\* an installation that has nothing yet
Empty ==
    /\ memory' = [kind \in KindNames |-> EmptyDict]
    /\ groupIndex' = EmptyDict
    /\ tables' = [kind \in KindNames |-> EmptyDict]
    /\ doubtful' = {}
    /\ work' = [t \in Threads |-> AtRest]

=============================================================================
