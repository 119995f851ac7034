---------------------------- MODULE ClientManager ----------------------------
(***************************************************************************)
(* Client_Manager (src/client_manager.py) under the threads of the Flask   *)
(* server: MAC clients and their groups, two dictionaries without a lock,  *)
(* and the two SQLite tables every change is written to.                   *)
(*                                                                         *)
(* A step is what one thread does between two accesses to shared state: a  *)
(* look-up, an assignment, one turn of a loop over a dictionary, one       *)
(* SQLite transaction.  A request that is refused, or that fails with a    *)
(* KeyError, ends where it stands.                                         *)
(*                                                                         *)
(* A Client is an object: the dictionary, a thread that is updating it and *)
(* the list a thread is saving all refer to the same one, so objects have  *)
(* identities and the heap holds their fields.                             *)
(***************************************************************************)
EXTENDS Integers, FiniteSets, Dicts

CONSTANTS
    Macs,           \* MAC addresses
    Groups,         \* names of client groups
    Threads,        \* request threads of the web server
    NoGroup,        \* an update that gives no group
    SqliteMayFail,  \* whether SQLite may fail (a locked file, a full disk)
    MaxObjects      \* bound: clients created between two restarts

ASSUME NoGroupIsNoGroup == NoGroup \notin Groups
ASSUME SqliteMayFailIsBoolean == SqliteMayFail \in BOOLEAN
ASSUME MaxObjectsBoundsMacs ==
    IsFiniteSet(Macs) /\ MaxObjects \in Nat /\ MaxObjects >= Cardinality(Macs)

VARIABLES
    clients,        \* _clients: the MAC as it was typed -> [obj, pos]
    groups,         \* the keys of _client_groups
    heap,           \* Client objects: identity -> [mac, group]
    clientTable,    \* rows of the clients table: mac (PRIMARY KEY) -> group
    groupTable,     \* rows of the client_groups table
    thread,         \* what each thread is doing
    quiet           \* ghost: the thread that alone has changed anything since
                    \* it copied the clients to save, Settled once its save is
                    \* complete, Nobody otherwise

memory == <<clients, groups, heap>>
tables == <<clientTable, groupTable>>
vars == <<memory, tables, thread, quiet>>

\* A MAC is accepted in several spellings.  The Client holds the canonical one
\* (lower case, colons); the dictionary is keyed with the one that was typed.
Spellings == {"canonical", "other"}
Keys == Macs \X Spellings

Settled == "settled"
Nobody  == "nobody"

ASSUME GhostsAreNoThreads == Settled \notin Threads /\ Nobody \notin Threads

Idle == [at |-> "idle"]

Objects == 1..MaxObjects
NextObject == Cardinality(DOMAIN heap) + 1

-----------------------------------------------------------------------------
(* Helpers *)

\* thread t goes on as the record r says
Goto(t, r) == thread' = [thread EXCEPT ![t] = r]

\* thread t goes on to save
Save(t) == Goto(t, [at |-> "copy_clients"])

\* a step of t has changed memory or a table
Disturb(t) == quiet' = IF quiet = t THEN t ELSE Nobody

\* The rows the INSERTs of a list of clients leave: the MAC is the primary
\* key, so of several clients with one MAC the first in the list has its row
\* and the INSERTs of the others fail and are skipped.  The fields are read
\* from the objects now, not when the list was made.
Rows(list) ==
    LET Of(m) == {e \in list : heap[e.obj].mac = m}
        First(m) == CHOOSE e \in Of(m) : \A f \in Of(m) : e.pos <= f.pos
    IN  [m \in {heap[e.obj].mac : e \in list} |-> heap[First(m).obj].group]

\* list(self._clients.values())
ClientList == {clients[k] : k \in DOMAIN clients}

-----------------------------------------------------------------------------
(* create_client and update_client *)

\* create_client: a well-formed MAC (the others are refused), not a key yet
CreateClient(t, k, g) ==
    /\ thread[t] = Idle
    /\ k \notin DOMAIN clients
    /\ Goto(t, [at |-> "find_group", op |-> "create", key |-> k, group |-> g])
    /\ UNCHANGED <<memory, tables, quiet>>

\* a mutant of UpdateClient: a group that is None is assigned all the same
UpdateClientAssignsNone(t, k, g) ==
    /\ thread[t] = Idle
    /\ k \in DOMAIN clients
    /\ Goto(t, [at |-> IF g = NoGroup THEN "update" ELSE "find_group",
                op |-> "update", obj |-> clients[k].obj, group |-> g])
    /\ UNCHANGED <<memory, tables, quiet>>

\* update_client: takes the object out of the dictionary; without a group it
\* only touches updated_at and saves.
UpdateClient(t, k, g) ==
    /\ thread[t] = Idle
    /\ k \in DOMAIN clients
    /\ IF g = NoGroup
       THEN Save(t)
       ELSE Goto(t, [at |-> "find_group", op |-> "update",
                     obj |-> clients[k].obj, group |-> g])
    /\ UNCHANGED <<memory, tables, quiet>>

\* both: the group must exist now
FindGroup(t) ==
    /\ thread[t].at = "find_group"
    /\ IF thread[t].group \in groups
       THEN Goto(t, [thread[t] EXCEPT !.at = thread[t].op])
       ELSE Goto(t, Idle)
    /\ UNCHANGED <<memory, tables, quiet>>

\* self._clients[mac_address] = Client(...): a key that is there again keeps
\* its place in the order of the dictionary.
InsertClient(t) ==
    /\ thread[t].at = "create"
    /\ NextObject \in Objects
    /\ LET k == thread[t].key
           pos == IF k \in DOMAIN clients THEN clients[k].pos ELSE NextObject
       IN  /\ heap' = Put(heap, NextObject, [mac |-> k[1], group |-> thread[t].group])
           /\ clients' = Put(clients, k, [obj |-> NextObject, pos |-> pos])
    /\ UNCHANGED <<groups, tables>>
    /\ Save(t)
    /\ Disturb(t)

\* client.client_group_name = client_group_name, wherever the object is by now
AssignGroup(t) ==
    /\ thread[t].at = "update"
    /\ heap' = [heap EXCEPT ![thread[t].obj].group = thread[t].group]
    /\ UNCHANGED <<clients, groups, tables>>
    /\ Save(t)
    /\ Disturb(t)

-----------------------------------------------------------------------------
(* delete_client *)

DeleteClient(t, k) ==
    /\ thread[t] = Idle
    /\ k \in DOMAIN clients
    /\ clients' = Drop(clients, k)
    /\ UNCHANGED <<groups, heap, tables>>
    /\ Save(t)
    /\ Disturb(t)

-----------------------------------------------------------------------------
(* create_client_group and delete_client_group *)

CreateClientGroup(t, g) ==
    /\ thread[t] = Idle
    /\ g \notin groups
    /\ Goto(t, [at |-> "insert_group", group |-> g])
    /\ UNCHANGED <<memory, tables, quiet>>

InsertGroup(t) ==
    /\ thread[t].at = "insert_group"
    /\ groups' = groups \cup {thread[t].group}
    /\ UNCHANGED <<clients, heap, tables>>
    /\ Save(t)
    /\ Disturb(t)

\* a mutant of DeleteClientGroup: no look for clients of the group
DeleteClientGroupUnchecked(t, g) ==
    /\ thread[t] = Idle
    /\ g \in groups
    /\ Goto(t, [at |-> "remove_group", group |-> g])
    /\ UNCHANGED <<memory, tables, quiet>>

\* delete_client_group: the group is there; a loop over the clients begins
DeleteClientGroup(t, g) ==
    /\ thread[t] = Idle
    /\ g \in groups
    /\ Goto(t, [at |-> "scan", group |-> g, pos |-> 0,
                size |-> Cardinality(DOMAIN clients)])
    /\ UNCHANGED <<memory, tables, quiet>>

\* The loop, one client a turn.  A dictionary that has changed size raises
\* RuntimeError; a client of the group refuses the deletion.
ScanClients(t) ==
    /\ thread[t].at = "scan"
    /\ LET ahead == {e \in ClientList : e.pos > thread[t].pos}
           next == CHOOSE e \in ahead : \A f \in ahead : e.pos <= f.pos
       IN  CASE Cardinality(DOMAIN clients) # thread[t].size -> Goto(t, Idle)
             [] Cardinality(DOMAIN clients) = thread[t].size /\ ahead = {} ->
                    Goto(t, [at |-> "remove_group", group |-> thread[t].group])
             [] OTHER ->
                    IF heap[next.obj].group = thread[t].group
                    THEN Goto(t, Idle)
                    ELSE Goto(t, [thread[t] EXCEPT !.pos = next.pos])
    /\ UNCHANGED <<memory, tables, quiet>>

\* del self._client_groups[name]; a KeyError if another thread was first
RemoveGroup(t) ==
    /\ thread[t].at = "remove_group"
    /\ IF thread[t].group \in groups
       THEN /\ groups' = groups \ {thread[t].group}
            /\ Save(t)
            /\ Disturb(t)
       ELSE /\ Goto(t, Idle)
            /\ UNCHANGED <<groups, quiet>>
    /\ UNCHANGED <<clients, heap, tables>>

-----------------------------------------------------------------------------
(* _save_data, ClientPersistence.save: two copies, then two transactions *)

CopyClients(t) ==
    /\ thread[t].at = "copy_clients"
    /\ Goto(t, [at |-> "copy_groups", list |-> ClientList])
    /\ quiet' = t
    /\ UNCHANGED <<memory, tables>>

CopyGroups(t) ==
    /\ thread[t].at = "copy_groups"
    /\ Goto(t, [at |-> "write_groups", list |-> thread[t].list, names |-> groups])
    /\ UNCHANGED <<memory, tables, quiet>>

\* An SQLite error is logged and swallowed; what was left of the save is not
\* done, and the request is answered as if it had been.
SaveFails(t) ==
    /\ SqliteMayFail
    /\ thread[t].at \in {"write_groups", "write_clients"}
    /\ Goto(t, Idle)
    /\ quiet' = Nobody
    /\ UNCHANGED <<memory, tables>>

WriteGroups(t) ==
    /\ thread[t].at = "write_groups"
    /\ groupTable' = thread[t].names
    /\ Goto(t, [at |-> "write_clients", list |-> thread[t].list])
    /\ Disturb(t)
    /\ UNCHANGED <<memory, clientTable>>

\* a mutant of WriteClients: the rows of clients that are gone are not deleted
WriteClientsKeepsOldRows(t) ==
    /\ thread[t].at = "write_clients"
    /\ LET rows == Rows(thread[t].list)
       IN  clientTable' = [m \in DOMAIN clientTable \cup DOMAIN rows |->
                                IF m \in DOMAIN rows THEN rows[m] ELSE clientTable[m]]
    /\ Goto(t, Idle)
    /\ quiet' = IF quiet = t THEN Settled ELSE Nobody
    /\ UNCHANGED <<memory, groupTable>>

WriteClients(t) ==
    /\ thread[t].at = "write_clients"
    /\ clientTable' = Rows(thread[t].list)
    /\ Goto(t, Idle)
    /\ quiet' = IF quiet = t THEN Settled ELSE Nobody
    /\ UNCHANGED <<memory, groupTable>>

-----------------------------------------------------------------------------
(* The process stops anywhere and starts again *)

\* _load_data: one client per row, keyed with the canonical spelling, in the
\* order of the rows (abstracted to any order).
Load ==
    LET saved == DOMAIN clientTable
        Orders == {o \in [saved -> 1..Cardinality(saved)] :
                        \A m, n \in saved : o[m] = o[n] => m = n}
        Mac(o, i) == CHOOSE m \in saved : o[m] = i
    IN  /\ \E o \in Orders :
            /\ clients' = [k \in saved \X {"canonical"} |->
                                [obj |-> o[k[1]], pos |-> o[k[1]]]]
            /\ heap' = [i \in 1..Cardinality(saved) |->
                            [mac |-> Mac(o, i), group |-> clientTable[Mac(o, i)]]]
        /\ groups' = groupTable

\* A load that fails leaves the manager empty.
LoadFails ==
    /\ SqliteMayFail
    /\ clients' = EmptyDict
    /\ heap' = EmptyDict
    /\ groups' = {}

Restart ==
    /\ Load \/ LoadFails
    /\ thread' = [t \in Threads |-> Idle]
    /\ quiet' = Nobody
    /\ UNCHANGED tables

-----------------------------------------------------------------------------
(* The specification *)

Init ==
    /\ clients = EmptyDict
    /\ groups = {}
    /\ heap = EmptyDict
    /\ clientTable = EmptyDict
    /\ groupTable = {}
    /\ thread = [t \in Threads |-> Idle]
    /\ quiet = Nobody

Request(t) ==
    \/ \E k \in Keys, g \in Groups : CreateClient(t, k, g)
    \/ \E k \in Keys, g \in Groups \cup {NoGroup} : UpdateClient(t, k, g)
    \/ \E k \in Keys : DeleteClient(t, k)
    \/ \E g \in Groups : CreateClientGroup(t, g)
    \/ \E g \in Groups : DeleteClientGroup(t, g)

Work(t) ==
    \/ FindGroup(t)
    \/ InsertClient(t)
    \/ AssignGroup(t)
    \/ InsertGroup(t)
    \/ ScanClients(t)
    \/ RemoveGroup(t)
    \/ CopyClients(t)
    \/ CopyGroups(t)
    \/ WriteGroups(t)
    \/ WriteClients(t)
    \/ SaveFails(t)

Next == (\E t \in Threads : Request(t) \/ Work(t)) \/ Restart

Spec == Init /\ [][Next]_vars

-----------------------------------------------------------------------------
(* Properties *)

\* The type invariant, with what holds the object graph together: the list of
\* a save and the object of an update stay on the heap, and a dictionary key
\* refers to an object with that MAC.
TypeOK ==
    /\ clients \in Dict(Keys, [obj : Objects, pos : Objects])
    /\ groups \subseteq Groups
    /\ DOMAIN heap = 1..Cardinality(DOMAIN heap)
    /\ heap \in Dict(Objects, [mac : Macs, group : Groups])
    /\ clientTable \in Dict(Macs, Groups)
    /\ groupTable \subseteq Groups
    /\ quiet \in Threads \cup {Settled, Nobody}
    /\ \A k \in DOMAIN clients :
        /\ clients[k].obj \in DOMAIN heap
        /\ heap[clients[k].obj].mac = k[1]
        /\ \A j \in DOMAIN clients : clients[j].pos = clients[k].pos => j = k
    /\ \A t \in Threads :
        /\ "obj" \in DOMAIN thread[t] => thread[t].obj \in DOMAIN heap
        /\ "list" \in DOMAIN thread[t] =>
            \A e \in thread[t].list : e.obj \in DOMAIN heap

\* the tables say what memory says
Synced == clientTable = Rows(ClientList) /\ groupTable = groups

\* However the threads have interleaved before, and whatever saves have
\* failed: a save during which no other thread changes anything leaves the
\* tables equal to memory.
QuietSaveSettles == quiet = Settled => Synced

\* Every client is in a group that exists.  Two threads break it.
ClientsHaveGroups ==
    \A k \in DOMAIN clients : heap[clients[k].obj].group \in groups

\* The same of the tables, at every moment a crash could come.
RowsHaveGroups == \A m \in DOMAIN clientTable : clientTable[m] \in groupTable

\* "Persistence of all changes": with no request running and no failure, the
\* tables hold what memory holds.  Two threads break it.
SyncedAtRest == (\A t \in Threads : thread[t] = Idle) => Synced

\* What the manager is to its callers: the members are the rows its clients
\* make, so that the spellings of a MAC are one member, with the group of the
\* first client in the dictionary; a restart would find the two tables.
Store == INSTANCE ClientStore WITH
            members <- Rows(ClientList),
            durable <- <<groupTable, clientTable>>

\* One request after another, every change of memory is one operation on the
\* groups and members, made when those before it are durable; and although a
\* save is two transactions, one step makes the whole operation durable.
ImplementsClientStore == Store!Spec

=============================================================================
