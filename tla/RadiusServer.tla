---------------------------- MODULE RadiusServer ----------------------------
(***************************************************************************)
(* RADIUS_Server (src/radius_server.py): the listening thread takes one    *)
(* datagram after the other through device, client and policy to an        *)
(* answer, while requests of the web interface change all three and the    *)
(* server is stopped and started.                                          *)
(*                                                                         *)
(* A step of a listener is what it does between two accesses to what it    *)
(* shares: a turn of the loop over the devices, a look-up, the reading of  *)
(* one field of an object.  Devices, clients and policies are objects that *)
(* updates change in place, so a listener that holds one sees them.  A     *)
(* request that changes two things, a policy and the group index or the    *)
(* two fields of a policy, changes them in two steps.                      *)
(***************************************************************************)
EXTENDS RadiusProtocol, FiniteSets, Dicts

CONSTANTS
    Devices,        \* names of devices
    Addresses,      \* IPv4 addresses, of devices and of senders
    Secrets,        \* shared secrets
    Macs,           \* MAC addresses
    Groups,         \* names of client groups
    PolicyNames,    \* names of policies
    Vlans,          \* VLAN ids a policy may assign
    Datagrams,      \* what is sent to the RADIUS port: [datagram, from]
    ParserInputs,   \* more datagrams, for what the parser does alone
    Configurations, \* what the managers may hold when the server is
                    \* made: [heap, devices, clients, policies, groupIndex]
    MaxStarts,      \* bound: calls of start
    MaxEvents       \* bound: changes by administrators and calls of start, a
                    \* call counting for two changes

ASSUME NoneIsNoVlan == None \notin Vlans /\ Vlans \subseteq 1..4094
ASSUME NoneIsNoMac == None \notin Macs
ASSUME BoundsAreNat == MaxEvents \in Nat /\ MaxStarts \in Nat \ {0}
ASSUME UserNamesSpellMacs == \A n \in DOMAIN UserNameMac : UserNameMac[n] \in Macs

VARIABLES
    heap,           \* objects: identity -> fields.  Identities grow with the
                    \* insertions, so they give the order of a dictionary
    devices,        \* _devices: name -> object
    clients,        \* _clients: MAC as typed, or as loaded -> object
    policies,       \* _policies: name -> object
    groupIndex,     \* _group_index: client group -> name of a policy
    update,         \* the second assignment of the policy request under way
    changes,        \* changes made so far
    running,        \* _running
    socket,         \* _socket: sockets are numbered, 0 is None
    open,           \* the sockets that are not closed
    control,        \* where the thread that starts and stops the server is
    buffer,         \* socket -> datagrams that wait: [datagram, from]
    listener,       \* start number -> the state of the thread it started
    seen,           \* ghost: what was true at some instant since the listener
                    \* received what it is handling
    calm,           \* ghost: "everything" while nothing has changed since then,
                    \* "devices" while no device and no address has
    sendFailed      \* ghost: a sendto has failed on an open socket

memory == <<heap, devices, clients, policies, groupIndex, update, changes>>
server == <<running, socket, open, control>>
ghosts == <<seen, calm>>
vars == <<memory, server, buffer, listener, ghosts, sendFailed>>

Starts == 1..MaxStarts

\* the spellings of one MAC as keys of _clients; _normalise_mac writes the
\* upper case, validate_mac_address, and so a load, the lower case
Spellings == {"upper", "lower"}
Keys == Macs \X Spellings

Decisions == {"accept_with_vlan", "accept_without_vlan", "reject"}

Verdicts == [decision : Decisions, vlan : Vlans \cup {None}]

Policy == [name : PolicyNames, group : Groups,
           decision : Decisions, vlan : Vlans \cup {None}]

Device == [address : Addresses, secret : Secrets]

Member == [group : Groups]

Objects == Device \cup Member \cup Policy

\* d maps names in K to objects of the kind S, one object to one name.
NamesObjects(d, K, h, S) ==
    /\ DOMAIN d \subseteq K
    /\ \A k \in DOMAIN d : d[k] \in DOMAIN h /\ h[d[k]] \in S
    /\ \A j, k \in DOMAIN d : d[j] = d[k] => j = k

\* a policy has a VLAN exactly if its decision uses one; create_policy and
\* update_policy see to that
Whole(p) == (p.decision = "accept_with_vlan") <=> (p.vlan # None)

\* what the managers hold after they have loaded the database; no two rows of
\* the policies table are of one client group
Loaded(h, ds, cs, ps, gi) ==
    /\ h \in Seq(Objects)
    /\ NamesObjects(ds, Devices, h, Device)
    /\ NamesObjects(cs, Keys, h, Member)
    /\ NamesObjects(ps, PolicyNames, h, Policy)
    /\ \A n \in DOMAIN ps : Whole(h[ps[n]]) /\ h[ps[n]].name = n
    /\ DOMAIN gi = {h[ps[n]].group : n \in DOMAIN ps}
    /\ \A n \in DOMAIN ps : gi[h[ps[n]].group] = n

ASSUME ConfigurationsAreLoaded ==
    \A c \in Configurations :
        Loaded(c.heap, c.devices, c.clients, c.policies, c.groupIndex)
ASSUME DatagramsAreDatagrams ==
    /\ \A m \in Datagrams : IsDatagram(m.datagram)
    /\ \A d \in ParserInputs : IsDatagram(d)

NewObject == Cardinality(DOMAIN heap) + 1

\* no request is between two assignments
NoUpdate == [obj |-> 0]

Off == [at |-> "off"]
Top == [at |-> "top"]

-----------------------------------------------------------------------------
(* What is true now, for the ghost *)

NothingSeen == [addresses |-> {}, secrets |-> {}, groups |-> {},
                index |-> {}, decisions |-> {}, vlans |-> {}]

\* the facts of a heap h and dictionaries ds, cs, ps, gi; what a policy says is a
\* fact of its name and its client group
FactsOf(h, ds, cs, ps, gi) ==
    [addresses |-> {<<n, h[ds[n]].address>> : n \in DOMAIN ds},
     secrets   |-> {<<n, h[ds[n]].secret>> : n \in DOMAIN ds},
     groups    |-> {<<k, h[cs[k]].group>> : k \in DOMAIN cs},
     index     |-> {<<g, gi[g]>> : g \in DOMAIN gi},
     decisions |-> {<<n, h[ps[n]].group, h[ps[n]].decision>> : n \in DOMAIN ps},
     vlans     |-> {<<n, h[ps[n]].group, {h[ps[n]].vlan} \ {None}>> : n \in DOMAIN ps}]

\* the listener is between receiving a datagram and sending the answer
Handling(l) == listener[l].at \notin {"off", "top", "call", "blocked"}

\* Every listener that is handling a datagram has seen the present facts too;
\* it is not undisturbed any more, nor are the devices if they have changed.
Observe(kind) ==
    /\ seen' = [l \in Starts |->
                IF ~Handling(l) THEN seen[l]
                ELSE LET now == FactsOf(heap', devices', clients', policies', groupIndex')
                     IN  [f \in DOMAIN now |-> seen[l][f] \cup now[f]]]
    /\ calm' = [l \in Starts |->
                IF Handling(l) THEN calm[l] \ {kind, "everything"} ELSE calm[l]]

-----------------------------------------------------------------------------
(* The managers, as requests of the web interface change them in memory *)

\* one change by an administrator; an update that gives what is there already is
\* no step
Change(kind) ==
    /\ update = NoUpdate
    /\ changes + 2 * socket < MaxEvents
    /\ changes' = changes + 1
    /\ Observe(kind)
    /\ UNCHANGED <<server, buffer, listener, sendFailed>>

\* Device_Manager.create_device: the address may be another device's
CreateDevice(n, a, s) ==
    /\ n \notin DOMAIN devices
    /\ heap' = Put(heap, NewObject, [address |-> a, secret |-> s])
    /\ devices' = Put(devices, n, NewObject)
    /\ UNCHANGED <<clients, policies, groupIndex, update>>
    /\ Change("devices")

\* Device_Manager.delete_device
DeleteDevice(n) ==
    /\ n \in DOMAIN devices
    /\ devices' = Drop(devices, n)
    /\ UNCHANGED <<heap, clients, policies, groupIndex, update>>
    /\ Change("devices")

\* Device_Manager.update_device, a request that gives the address or one that
\* gives the secret
UpdateDeviceAddress(n, a) ==
    /\ n \in DOMAIN devices
    /\ heap[devices[n]].address # a
    /\ heap' = [heap EXCEPT ![devices[n]].address = a]
    /\ UNCHANGED <<devices, clients, policies, groupIndex, update>>
    /\ Change("devices")

UpdateDeviceSecret(n, s) ==
    /\ n \in DOMAIN devices
    /\ heap[devices[n]].secret # s
    /\ heap' = [heap EXCEPT ![devices[n]].secret = s]
    /\ UNCHANGED <<devices, clients, policies, groupIndex, update>>
    /\ Change("other")

\* Client_Manager.create_client: the key is the MAC as typed
CreateClient(k, g) ==
    /\ k \notin DOMAIN clients
    /\ heap' = Put(heap, NewObject, [group |-> g])
    /\ clients' = Put(clients, k, NewObject)
    /\ UNCHANGED <<devices, policies, groupIndex, update>>
    /\ Change("other")

\* Client_Manager.delete_client
DeleteClient(k) ==
    /\ k \in DOMAIN clients
    /\ clients' = Drop(clients, k)
    /\ UNCHANGED <<heap, devices, policies, groupIndex, update>>
    /\ Change("other")

\* Client_Manager.update_client
UpdateClient(k, g) ==
    /\ k \in DOMAIN clients
    /\ heap[clients[k]].group # g
    /\ heap' = [heap EXCEPT ![clients[k]].group = g]
    /\ UNCHANGED <<devices, clients, policies, groupIndex, update>>
    /\ Change("other")

\* Policy_Engine.create_policy: the policy is entered under its name, in place of
\* one that has it already, then the name under the client group
CreatePolicy(n, g, p) ==
    /\ g \notin DOMAIN groupIndex
    /\ Whole(p)
    /\ heap' = Put(heap, NewObject, [name |-> n, group |-> g,
                                     decision |-> p.decision, vlan |-> p.vlan])
    /\ policies' = Put(policies, n, NewObject)
    /\ update' = [obj |-> NewObject, second |-> "index"]
    /\ UNCHANGED <<devices, clients, groupIndex>>
    /\ Change("other")

\* Policy_Engine.delete_policy: the policy is taken out, then its client group
DeletePolicy(n) ==
    /\ n \in DOMAIN policies
    /\ policies' = Drop(policies, n)
    /\ update' = [obj |-> policies[n], second |-> "unindex"]
    /\ UNCHANGED <<heap, devices, clients, groupIndex>>
    /\ Change("other")

\* Policy_Engine.update_policy: the decision is assigned, then the VLAN
AssignDecision(n, p) ==
    /\ n \in DOMAIN policies
    /\ \/ heap[policies[n]].decision # p.decision
       \/ heap[policies[n]].vlan # p.vlan
    /\ Whole(p)
    /\ heap' = [heap EXCEPT ![policies[n]].decision = p.decision]
    /\ update' = [obj |-> policies[n], second |-> "vlan", vlan |-> p.vlan]
    /\ UNCHANGED <<devices, clients, policies, groupIndex>>
    /\ Change("other")

\* the second assignment of a request, of the kind it says
Pending(kind) == update # NoUpdate /\ update.second = kind

Second ==
    /\ update' = NoUpdate
    /\ UNCHANGED <<devices, clients, policies, changes>>
    /\ Observe("other")
    /\ UNCHANGED <<server, buffer, listener, sendFailed>>

IndexPolicy ==
    /\ Pending("index")
    /\ groupIndex' = Put(groupIndex, heap[update.obj].group, heap[update.obj].name)
    /\ UNCHANGED heap
    /\ Second

UnindexPolicy ==
    /\ Pending("unindex")
    /\ groupIndex' = Drop(groupIndex, heap[update.obj].group)
    /\ UNCHANGED heap
    /\ Second

AssignVlan ==
    /\ Pending("vlan")
    /\ heap' = [heap EXCEPT ![update.obj].vlan = update.vlan]
    /\ UNCHANGED groupIndex
    /\ Second

Administrator ==
    \/ \E n \in Devices, a \in Addresses, s \in Secrets : CreateDevice(n, a, s)
    \/ \E n \in Devices : DeleteDevice(n)
    \/ \E n \in Devices, a \in Addresses : UpdateDeviceAddress(n, a)
    \/ \E n \in Devices, s \in Secrets : UpdateDeviceSecret(n, s)
    \/ \E k \in Keys, g \in Groups : CreateClient(k, g)
    \/ \E k \in Keys : DeleteClient(k)
    \/ \E k \in Keys, g \in Groups : UpdateClient(k, g)
    \/ \E n \in PolicyNames, g \in Groups, p \in Verdicts : CreatePolicy(n, g, p)
    \/ \E n \in PolicyNames : DeletePolicy(n)
    \/ \E n \in PolicyNames, p \in Verdicts : AssignDecision(n, p)
    \/ IndexPolicy
    \/ UnindexPolicy
    \/ AssignVlan

-----------------------------------------------------------------------------
(* The network *)

\* A socket is closed for good once no listener is blocked on it: closing it
\* does not wake a recvfrom that has begun, which still gets a datagram.
Bound(k) == k \in open \/ \E l \in Starts : listener[l] = [at |-> "blocked", sock |-> k]

\* a datagram comes in (bound: one waits per socket)
Arrive(k, d) ==
    /\ Bound(k)
    /\ buffer[k] = <<>>
    /\ buffer' = [buffer EXCEPT ![k] = <<d>>]
    /\ UNCHANGED <<memory, server, listener, ghosts, sendFailed>>

-----------------------------------------------------------------------------
(* start and stop *)

\* start: a new socket is opened and bound
StartBinds ==
    /\ control = "down"
    /\ socket < MaxStarts
    /\ changes + 2 * socket + 2 <= MaxEvents
    /\ socket' = socket + 1
    /\ open' = open \cup {socket + 1}
    /\ control' = "starting"
    /\ UNCHANGED <<memory, running, buffer, listener, ghosts, sendFailed>>

\* start: _running is set, then the thread is started
StartRuns ==
    /\ control = "starting"
    /\ running' = TRUE
    /\ listener' = [listener EXCEPT ![socket] = Top]
    /\ control' = "up"
    /\ UNCHANGED <<memory, socket, open, buffer, ghosts, sendFailed>>

\* stop: _running is cleared
StopClears ==
    /\ control = "up"
    /\ running' = FALSE
    /\ control' = "stopping"
    /\ UNCHANGED <<memory, socket, open, buffer, listener, ghosts, sendFailed>>

\* a mutant of StopCloses: the socket stays open
StopClosesNothing ==
    /\ control = "stopping"
    /\ UNCHANGED open
    /\ buffer' = IF \E l \in Starts : listener[l] = [at |-> "blocked", sock |-> socket]
                 THEN buffer ELSE [buffer EXCEPT ![socket] = <<>>]
    /\ control' = "down"
    /\ UNCHANGED <<memory, running, socket, listener, ghosts, sendFailed>>

\* stop: the socket is closed; the join that follows gives up after two
\* seconds and leaves the thread where it is
StopCloses ==
    /\ control = "stopping"
    /\ open' = open \ {socket}
    /\ buffer' = IF \E l \in Starts : listener[l] = [at |-> "blocked", sock |-> socket]
                 THEN buffer ELSE [buffer EXCEPT ![socket] = <<>>]
    /\ control' = "down"
    /\ UNCHANGED <<memory, running, socket, listener, ghosts, sendFailed>>

Control == StartBinds \/ StartRuns \/ StopClears \/ StopCloses

-----------------------------------------------------------------------------
(* The listening thread *)

\* listener l goes on as the record r says
Goto(l, r) ==
    /\ listener' = [listener EXCEPT ![l] = r]
    /\ UNCHANGED <<memory, server, ghosts>>

\* listener l is done with a datagram
Finish(l, r) ==
    /\ listener' = [listener EXCEPT ![l] = r]
    /\ seen' = [seen EXCEPT ![l] = NothingSeen]
    /\ calm' = [calm EXCEPT ![l] = {}]
    /\ UNCHANGED <<memory, server, buffer>>

\* while self._running
TestRunning(l) ==
    /\ listener[l].at = "top"
    /\ Goto(l, IF running THEN [at |-> "call"] ELSE Off)
    /\ UNCHANGED <<buffer, sendFailed>>

\* self._socket.recvfrom: the socket of the latest start, an OSError if it is
\* closed
CallReceive(l) ==
    /\ listener[l].at = "call"
    /\ Goto(l, IF socket \in open THEN [at |-> "blocked", sock |-> socket] ELSE Off)
    /\ UNCHANGED <<buffer, sendFailed>>

\* a mutant of Receive: a datagram that does not parse ends the thread
ReceiveDiesOfGarbage(l) ==
    /\ listener[l].at = "blocked"
    /\ buffer[listener[l].sock] # <<>>
    /\ LET k == listener[l].sock
           got == Head(buffer[k])
           parsed == ParsePacket(got.datagram)
       IN  /\ buffer' = [buffer EXCEPT ![k] = Tail(@)]
           /\ IF parsed = {}
              THEN /\ listener' = [listener EXCEPT ![l] = Off]
                   /\ UNCHANGED ghosts
              ELSE /\ \E p \in parsed :
                        listener' = [listener EXCEPT ![l] =
                            [at |-> "scan", packet |-> p, from |-> got.from,
                             pos |-> 0, size |-> Cardinality(DOMAIN devices)]]
                   /\ seen' = [seen EXCEPT ![l] =
                        FactsOf(heap, devices, clients, policies, groupIndex)]
                   /\ calm' = [calm EXCEPT ![l] =
                        {"devices"} \cup IF update = NoUpdate THEN {"everything"} ELSE {}]
    /\ UNCHANGED <<memory, server, sendFailed>>

\* recvfrom returns; a datagram that does not parse is dropped
Receive(l) ==
    /\ listener[l].at = "blocked"
    /\ buffer[listener[l].sock] # <<>>
    /\ LET k == listener[l].sock
           got == Head(buffer[k])
           parsed == ParsePacket(got.datagram)
       IN  /\ buffer' = [buffer EXCEPT ![k] = Tail(@)]
           /\ IF parsed = {}
              THEN /\ listener' = [listener EXCEPT ![l] = Top]
                   /\ UNCHANGED ghosts
              ELSE /\ \E p \in parsed :
                        listener' = [listener EXCEPT ![l] =
                            [at |-> "scan", packet |-> p, from |-> got.from,
                             pos |-> 0, size |-> Cardinality(DOMAIN devices)]]
                   /\ seen' = [seen EXCEPT ![l] =
                        FactsOf(heap, devices, clients, policies, groupIndex)]
                   /\ calm' = [calm EXCEPT ![l] =
                        {"devices"} \cup IF update = NoUpdate THEN {"everything"} ELSE {}]
    /\ UNCHANGED <<memory, server, sendFailed>>

\* the objects of the devices still ahead of the loop
Ahead(l) == {o \in {devices[n] : n \in DOMAIN devices} : o > listener[l].pos}

\* get_device_by_ip: the loop over the devices meets a dictionary that has
\* changed size; the RuntimeError is logged and the datagram gone
ScanBreaks(l) ==
    /\ listener[l].at = "scan"
    /\ Cardinality(DOMAIN devices) # listener[l].size
    /\ Finish(l, Top)
    /\ UNCHANGED sendFailed

\* no device has the address: the datagram is dropped
ScanEnds(l) ==
    /\ listener[l].at = "scan"
    /\ Cardinality(DOMAIN devices) = listener[l].size
    /\ Ahead(l) = {}
    /\ Finish(l, Top)
    /\ UNCHANGED sendFailed

\* a mutant of ScanTurn: the loop stops at the first device
ScanTurnFirstOnly(l) ==
    /\ listener[l].at = "scan"
    /\ Cardinality(DOMAIN devices) = listener[l].size
    /\ \E o \in Ahead(l) :
        /\ \A x \in Ahead(l) : o <= x
        /\ IF heap[o].address = listener[l].from
           THEN Goto(l, [at |-> "client", device |-> o,
                         packet |-> listener[l].packet, from |-> listener[l].from])
           ELSE Goto(l, Top)
    /\ UNCHANGED <<buffer, sendFailed>>

\* one turn of the loop
ScanTurn(l) ==
    /\ listener[l].at = "scan"
    /\ Cardinality(DOMAIN devices) = listener[l].size
    /\ \E o \in Ahead(l) :
        /\ \A x \in Ahead(l) : o <= x
        /\ IF heap[o].address = listener[l].from
           THEN Goto(l, [at |-> "client", device |-> o,
                         packet |-> listener[l].packet, from |-> listener[l].from])
           ELSE Goto(l, [listener[l] EXCEPT !.pos = o])
    /\ UNCHANGED <<buffer, sendFailed>>

\* listener l goes on to build the answer for a decision
Decide(l, decision, vlan) ==
    Goto(l, [at |-> "build", device |-> listener[l].device,
             packet |-> listener[l].packet, from |-> listener[l].from,
             decision |-> decision, vlan |-> vlan])

\* get_client: without a MAC, or without a client that has it for a key, the
\* answer is a reject
LookUpClient(l) ==
    /\ listener[l].at = "client"
    /\ LET k == <<ExtractMac(listener[l].packet), "upper">>
       IN  IF k \in DOMAIN clients
           THEN Goto(l, [at |-> "group", device |-> listener[l].device,
                         packet |-> listener[l].packet, from |-> listener[l].from,
                         client |-> clients[k]])
           ELSE Decide(l, "reject", None)
    /\ UNCHANGED <<buffer, sendFailed>>

\* client.client_group_name: the group the client object has now
ReadGroup(l) ==
    /\ listener[l].at = "group"
    /\ Goto(l, [at |-> "index", device |-> listener[l].device,
                packet |-> listener[l].packet, from |-> listener[l].from,
                group |-> heap[listener[l].client].group])
    /\ UNCHANGED <<buffer, sendFailed>>

\* mutants of FindName: any policy there is will do; a group without a policy is
\* let in
FindAnyName(l) ==
    /\ listener[l].at = "index"
    /\ \/ /\ DOMAIN policies = {}
          /\ Decide(l, "reject", None)
       \/ \E n \in DOMAIN policies :
            Goto(l, [at |-> "name", device |-> listener[l].device,
                     packet |-> listener[l].packet, from |-> listener[l].from,
                     name |-> n])
    /\ UNCHANGED <<buffer, sendFailed>>

FindNameAcceptsByDefault(l) ==
    /\ listener[l].at = "index"
    /\ IF listener[l].group \in DOMAIN groupIndex
       THEN Goto(l, [at |-> "name", device |-> listener[l].device,
                     packet |-> listener[l].packet, from |-> listener[l].from,
                     name |-> groupIndex[listener[l].group]])
       ELSE Decide(l, "accept_without_vlan", None)
    /\ UNCHANGED <<buffer, sendFailed>>

\* evaluate_policy: the index names the policy of the group, a reject if it has
\* none
FindName(l) ==
    /\ listener[l].at = "index"
    /\ IF listener[l].group \in DOMAIN groupIndex
       THEN Goto(l, [at |-> "name", device |-> listener[l].device,
                     packet |-> listener[l].packet, from |-> listener[l].from,
                     name |-> groupIndex[listener[l].group]])
       ELSE Decide(l, "reject", None)
    /\ UNCHANGED <<buffer, sendFailed>>

\* the policy that has the name by then, a reject if none has
FindPolicy(l) ==
    /\ listener[l].at = "name"
    /\ IF listener[l].name \in DOMAIN policies
       THEN Goto(l, [at |-> "decision", device |-> listener[l].device,
                     packet |-> listener[l].packet, from |-> listener[l].from,
                     policy |-> policies[listener[l].name]])
       ELSE Decide(l, "reject", None)
    /\ UNCHANGED <<buffer, sendFailed>>

\* return policy.decision, policy.vlan_id: two fields, one after the other
ReadDecision(l) ==
    /\ listener[l].at = "decision"
    /\ Goto(l, [at |-> "vlan", device |-> listener[l].device,
                packet |-> listener[l].packet, from |-> listener[l].from,
                policy |-> listener[l].policy,
                decision |-> heap[listener[l].policy].decision])
    /\ UNCHANGED <<buffer, sendFailed>>

ReadVlan(l) ==
    /\ listener[l].at = "vlan"
    /\ Decide(l, listener[l].decision, heap[listener[l].policy].vlan)
    /\ UNCHANGED <<buffer, sendFailed>>

\* the answer to a decision
Answer(packet, secret, decision, vlan) ==
    IF decision = "reject"
    THEN BuildAccessReject(packet, secret)
    ELSE BuildAccessAccept(packet, secret,
                           IF decision = "accept_with_vlan" THEN vlan ELSE None)

\* the log entry that is made of it
Entry(decision, vlan) ==
    [outcome |-> IF decision = "reject" THEN "failure" ELSE "success",
     vlan |-> IF decision = "accept_with_vlan" THEN vlan ELSE None]

\* the answer is built and signed with the device's present secret, then the
\* log entry is made
BuildAndLog(l) ==
    /\ listener[l].at = "build"
    /\ LET r == listener[l]
       IN  Goto(l, [at |-> "send", packet |-> r.packet, from |-> r.from,
                    answer |-> Answer(r.packet, heap[r.device].secret,
                                      r.decision, r.vlan),
                    entry |-> Entry(r.decision, r.vlan)])
    /\ UNCHANGED <<buffer, sendFailed>>

\* self._socket.sendto, on the socket of the latest start
Send(l) ==
    /\ listener[l].at = "send"
    /\ socket \in open
    /\ Finish(l, Top)
    /\ UNCHANGED sendFailed

\* sendto raises an OSError: the socket is closed, or the network refuses the
\* datagram.  Either ends the thread.
SendFails(l) ==
    /\ listener[l].at = "send"
    /\ sendFailed' = (sendFailed \/ socket \in open)
    /\ Finish(l, Off)

Listen(l) ==
    \/ TestRunning(l)
    \/ CallReceive(l)
    \/ Receive(l)
    \/ ScanBreaks(l)
    \/ ScanEnds(l)
    \/ ScanTurn(l)
    \/ LookUpClient(l)
    \/ ReadGroup(l)
    \/ FindName(l)
    \/ FindPolicy(l)
    \/ ReadDecision(l)
    \/ ReadVlan(l)
    \/ BuildAndLog(l)
    \/ Send(l)
    \/ SendFails(l)

-----------------------------------------------------------------------------
(* The specification *)

Init ==
    /\ \E c \in Configurations :
        /\ heap = c.heap
        /\ devices = c.devices
        /\ clients = c.clients
        /\ policies = c.policies
        /\ groupIndex = c.groupIndex
    /\ update = NoUpdate
    /\ changes = 0
    /\ running = FALSE
    /\ socket = 0
    /\ open = {}
    /\ control = "down"
    /\ buffer = [k \in Starts |-> <<>>]
    /\ listener = [l \in Starts |-> Off]
    /\ seen = [l \in Starts |-> NothingSeen]
    /\ calm = [l \in Starts |-> {}]
    /\ sendFailed = FALSE

Network == \E k \in Starts, d \in Datagrams : Arrive(k, d)

Next == Administrator \/ Network \/ Control \/ \E l \in Starts : Listen(l)

\* A thread that is not blocked is run by the operating system; nothing says
\* that an administrator acts or that a datagram comes.
Fairness == \A l \in Starts : WF_listener(Listen(l))

Spec == Init /\ [][Next]_vars /\ Fairness

-----------------------------------------------------------------------------
(* Properties *)

\* what a listener in the state r holds, at each place it can be
Holds(r) ==
    /\ r.at \in {"off", "top", "call", "blocked", "scan", "client", "group", "index",
                 "name", "decision", "vlan", "build", "send"}
    /\ r.at = "blocked" => r.sock \in 1..socket
    /\ r.at \in {"client", "group", "index", "name", "decision", "vlan", "build"} =>
        r.device \in DOMAIN heap /\ heap[r.device] \in Device
    /\ r.at = "group" => r.client \in DOMAIN heap /\ heap[r.client] \in Member
    /\ r.at \in {"decision", "vlan"} =>
        r.policy \in DOMAIN heap /\ heap[r.policy] \in Policy
    /\ r.at \in {"vlan", "build"} => r.decision \in Decisions
    /\ r.at = "build" => r.vlan \in Vlans \cup {None}

\* The type invariant: every entry of a dictionary, and every object a
\* listener holds, deleted meanwhile or not, is an object of its kind on the
\* heap; no two names share an object, and a policy stands under its own name;
\* only the socket of the latest start is open, and none before its start has a
\* listener or a datagram.
TypeOK ==
    /\ DOMAIN heap = 1..Cardinality(DOMAIN heap)
    /\ \A o \in DOMAIN heap : heap[o] \in Objects
    /\ NamesObjects(devices, Devices, heap, Device)
    /\ NamesObjects(clients, Keys, heap, Member)
    /\ NamesObjects(policies, PolicyNames, heap, Policy)
    /\ \A n \in DOMAIN policies : heap[policies[n]].name = n
    /\ open \subseteq {socket}
    /\ \A l \in Starts : Holds(listener[l])
    /\ \A l \in Starts : l > socket => listener[l] = Off /\ buffer[l] = <<>>

\* the key a listener looks its client up with
KeyOf(l) == <<ExtractMac(listener[l].packet), "upper">>

\* the VLANs an answer assigns, read as the device reads it
VlansIn(answer) ==
    {v \in Vlans : \E p \in ParsePacket(answer) :
        GetAttribute(p, ATTR_TUNNEL_PRIVATE_GROUP_ID) = {Ascii(v)}}

\* the answers on their way
Sending(l) == listener[l].at = "send"

\* the name n has been the name of policies of two client groups
Reused(n) ==
    \E o, x \in DOMAIN heap :
        /\ heap[o] \in Policy /\ heap[o].name = n
        /\ heap[x] \in Policy /\ heap[x].name = n
        /\ heap[o].group # heap[x].group

\* An Access-Accept is earned: while the request was handled its client was in a
\* group g, the index named a policy n for that group, a policy n had an
\* accepting decision, and the VLAN of the answer, if it has one, was the VLAN of
\* that policy.  Each was so at some instant, whatever administrators changed in
\* between.  That policy is one of the group g, unless the name n was used for two
\* groups: then a stale entry of the index, or a policy deleted and another made
\* of its name between the two look-ups, answers for the wrong group.
AcceptIsEarned ==
    \A l \in Starts :
        Sending(l) /\ listener[l].answer.code = CODE_ACCESS_ACCEPT =>
            \E g, q \in Groups, n \in PolicyNames, d \in Decisions \ {"reject"} :
                /\ <<KeyOf(l), g>> \in seen[l].groups
                /\ <<g, n>> \in seen[l].index
                /\ <<n, q, d>> \in seen[l].decisions
                /\ IF d = "accept_with_vlan"
                   THEN <<n, q, VlansIn(listener[l].answer)>> \in seen[l].vlans
                   ELSE VlansIn(listener[l].answer) = {}
                /\ q = g \/ Reused(n)

\* An answer is one the device can use: it parses, it repeats the identifier,
\* it verifies under a secret of a device that had the sender's address, and
\* the log entry says what the answer says, down to the VLAN.
AnswersFit ==
    \A l \in Starts : Sending(l) =>
        LET r == listener[l] IN
        /\ \E p \in ParsePacket(r.answer) : p.identifier = r.packet.identifier
        /\ \E n \in Devices, s \in Secrets :
            /\ <<n, r.from>> \in seen[l].addresses
            /\ <<n, s>> \in seen[l].secrets
            /\ Verifies(r.answer, r.packet.authenticator, s)
        /\ (r.entry.outcome = "success") <=> (r.answer.code = CODE_ACCESS_ACCEPT)
        /\ VlansIn(r.answer) = {r.entry.vlan} \ {None}

\* a datagram parses exactly if its attributes fill the declared length, none
\* left and none cut short, and then building gives back the bytes read
ParsesRight(d) ==
    LET n == d.length - HeaderSize
    IN  /\ ParsePacket(d) # {} <=>
            /\ d.whole /\ n \in 0..(MaxPacketSize - HeaderSize)
            /\ n <= Len(d.tail)
            /\ Grammatical(SubSeq(d.tail, 1, n))
        /\ \A p \in ParsePacket(d) :
            BuildPacket(p) = [d EXCEPT !.tail = SubSeq(d.tail, 1, n)]

ParserInputsParseRight == \A d \in ParserInputs : ParsesRight(d)

\* parse_packet and build_packet agree with the grammar of the attributes, for
\* what arrives and for every small datagram around the parser's boundaries.
ParserAgrees ==
    /\ ParserInputsParseRight
    /\ \A k \in Starts : \A i \in DOMAIN buffer[k] : ParsesRight(buffer[k][i].datagram)

\* the verdict for a key now: the policy the index names for the client's group,
\* or a reject
Verdict(k) ==
    IF /\ k \in DOMAIN clients
       /\ heap[clients[k]].group \in DOMAIN groupIndex
       /\ groupIndex[heap[clients[k]].group] \in DOMAIN policies
    THEN heap[policies[groupIndex[heap[clients[k]].group]]]
    ELSE [decision |-> "reject", vlan |-> None]

\* the answer of l says what the policy says
Obeys(l, policy) ==
    /\ (listener[l].answer.code = CODE_ACCESS_REJECT) <=> (policy.decision = "reject")
    /\ VlansIn(listener[l].answer) = {policy.vlan} \ {None}

\* A request during which nothing changed is answered with the policy the index
\* names for its client's group, if the client is registered under the upper-case
\* spelling: the accesses one after the other come to what evaluate_policy says.
QuietRequestsGetPolicy ==
    \A l \in Starts :
        Sending(l) /\ "everything" \in calm[l] => Obeys(l, Verdict(KeyOf(l)))

\* "WHEN a Client MAC address is found in the Client_Manager" its group's
\* policy is applied, however the MAC is spelled there.  False: a client
\* loaded from the database is rejected.
RegisteredGetPolicy ==
    \A l \in Starts :
        Sending(l) /\ "everything" \in calm[l] =>
            \A k \in DOMAIN clients :
                k[1] = KeyOf(l)[1] /\ Cardinality({j \in DOMAIN clients : j[1] = k[1]}) = 1
                    => Obeys(l, Verdict(k))

\* A request is dropped without an answer only if no device has its sender's
\* address, or if the devices have changed while they were searched.
OnlyStrangersAreDropped ==
    [][\A l \in Starts :
        listener[l].at = "scan" /\ listener'[l] = Top /\ "devices" \in calm[l] =>
            \A n \in DOMAIN devices : heap[devices[n]].address # listener[l].from]_vars

\* A datagram that waits on the open socket of a running server is received,
\* unless the server is stopped or a sendto fails, which ends the listener.
Served ==
    \A k \in Starts :
        (buffer[k] # <<>> /\ control = "up" /\ socket = k /\ ~sendFailed)
            ~> (buffer[k] = <<>> \/ control # "up" \/ sendFailed)
=============================================================================
