---------------------------- MODULE ManagerProofs ----------------------------
(***************************************************************************)
(* Proofs about the two managers of members and their groups.              *)
(*                                                                         *)
(* ClientManager, for any MACs, groups and number of threads: TypeOK and   *)
(* QuietSaveSettles hold however the threads interleave and whatever saves *)
(* and loads fail.  That every client has its group, in memory and in the  *)
(* tables, and that an operation is one change of the tables (the          *)
(* refinement of ClientStore), is a matter of one thread and of an SQLite  *)
(* that does not fail.                                                     *)
(*                                                                         *)
(* DeviceManager, for any names, addresses and groups: its three           *)
(* invariants, from the one that a restart preserves.                      *)
(***************************************************************************)
EXTENDS ClientManager, DeviceManager, DictTheorems, SequenceTheorems,
        FiniteSetTheorems

-----------------------------------------------------------------------------
(* The invariant *)

Clients == [mac : Macs, group : Groups]
Entries == [obj : Objects, pos : Objects]

\* The heap is numbered, and what is numbered fits.
HeapType ==
    /\ heap \in Dict(Objects, Clients)
    /\ DOMAIN heap = 1..Cardinality(DOMAIN heap)
    /\ Cardinality(DOMAIN heap) \in Nat

\* What is registered refers to the heap, under the MAC of the object.
ClientsType ==
    /\ clients \in Dict(Keys, Entries)
    /\ \A k \in DOMAIN clients :
        /\ clients[k].obj \in DOMAIN heap
        /\ clients[k].pos \in DOMAIN heap
        /\ heap[clients[k].obj].mac = k[1]
        /\ \A j \in DOMAIN clients : clients[j].pos = clients[k].pos => j = k

\* lists of entries of the objects D
Lists(D) == SUBSET {e \in Entries : e.obj \in D}

\* What a thread knows at each of its steps, D being the objects there are.
ThreadType(r, D) ==
    \/ r = Idle
    \/ r \in [at : {"find_group", "create"}, op : {"create"}, key : Keys, group : Groups]
    \/ r \in [at : {"find_group", "update"}, op : {"update"}, obj : D, group : Groups]
    \/ r \in [at : {"insert_group", "remove_group"}, group : Groups]
    \/ r \in [at : {"scan"}, group : Groups, pos : Nat, size : Nat]
    \/ r \in [at : {"copy_clients"}]
    \/ r \in [at : {"copy_groups", "write_clients"}, list : Lists(D)]
    \/ r \in [at : {"write_groups"}, list : Lists(D), names : SUBSET Groups]

ThreadsType ==
    /\ thread = [t \in Threads |-> thread[t]]
    /\ \A t \in Threads : ThreadType(thread[t], DOMAIN heap)

TablesType ==
    /\ groups \subseteq Groups
    /\ clientTable \in Dict(Macs, Groups)
    /\ groupTable \subseteq Groups

\* the steps of a save after the clients are copied
Saving == {"copy_groups", "write_groups", "write_clients"}

\* A thread that alone has changed anything since it copied the clients still
\* has them all, and has written the groups there are.
QuietProgress ==
    /\ quiet \in Threads \cup {Settled, Nobody}
    /\ quiet = Settled => Synced
    /\ quiet \in Threads =>
        /\ thread[quiet].at \in Saving
        /\ thread[quiet].list = ClientList
        /\ thread[quiet].at = "write_groups" => thread[quiet].names = groups
        /\ thread[quiet].at = "write_clients" => groupTable = groups

ClientInv ==
    HeapType /\ ClientsType /\ ThreadsType /\ TablesType /\ QuietProgress

-----------------------------------------------------------------------------
(* Helpers *)

\* A set of entries that is not empty has one with the smallest position.
LEMMA SmallestPos ==
    ASSUME NEW E \in SUBSET Entries, E # {}
    PROVE  \E e \in E : \A f \in E : e.pos <= f.pos
<1> DEFINE P == {e.pos : e \in E}
           R == OpToRel(<, Nat)
<1>1. P \subseteq Nat /\ P # {}
  BY MaxObjectsBoundsMacs DEF Entries, Objects
<1>2. IsWellFoundedOn(R, Nat)
  BY NatLessThanWellFounded
<1>3. \A m, n \in Nat : m < n => <<m, n>> \in R
  BY DEF OpToRel
<1> HIDE DEF P, R
<1>4. \E p \in P : \A q \in P : ~(<<q, p>> \in R)
  BY <1>1, <1>2, WFMin, Zenon
<1>5. PICK p \in P : \A q \in P : ~(<<q, p>> \in R)
  BY <1>4
<1>6. ASSUME NEW q \in P PROVE p <= q
  <2>1. p \in Nat /\ q \in Nat /\ ~(<<q, p>> \in R)
    BY <1>1, <1>5
  <2>2. ~(q < p)
    BY <1>3, <2>1
  <2> QED
    BY <2>1, <2>2
<1>7. PICK e \in E : e.pos = p
  BY DEF P
<1> QED
  BY <1>6, <1>7 DEF P

\* The rows of a list are of MACs and groups.
LEMMA RowsType ==
    ASSUME HeapType, NEW list \in Lists(DOMAIN heap)
    PROVE  Rows(list) \in Dict(Macs, Groups)
<1> DEFINE Of(m) == {e \in list : heap[e.obj].mac = m}
           First(m) == CHOOSE e \in Of(m) : \A f \in Of(m) : e.pos <= f.pos
           D == {heap[e.obj].mac : e \in list}
<1>1. \A e \in list : e \in Entries /\ heap[e.obj].mac \in Macs /\ heap[e.obj].group \in Groups
  <2>1. \A i \in DOMAIN heap : heap[i] \in Clients
    BY DictValue DEF HeapType
  <2> QED
    BY <2>1 DEF Lists, Clients
<1>2. \A m \in D : First(m) \in Of(m)
  <2> SUFFICES ASSUME NEW m \in D PROVE First(m) \in Of(m)
    OBVIOUS
  <2>1. Of(m) # {} /\ Of(m) \in SUBSET Entries
    BY <1>1
  <2>2. \E e \in Of(m) : \A f \in Of(m) : e.pos <= f.pos
    BY <2>1, SmallestPos
  <2> QED
    BY <2>2
<1>3. Rows(list) = [m \in D |-> heap[First(m).obj].group]
  BY DEF Rows
<1> HIDE DEF First
<1>4. \A m \in D : heap[First(m).obj].group \in Groups
  BY <1>1, <1>2
<1>5. Rows(list) \in [D -> Groups] /\ D \subseteq Macs /\ DOMAIN Rows(list) = D
  BY <1>1, <1>3, <1>4
<1> QED
  BY <1>5, DictDef

\* The clients there are can be counted.
LEMMA ClientsAreFinite ==
    ASSUME ClientsType
    PROVE  /\ IsFiniteSet(DOMAIN clients)
           /\ \A k \in DOMAIN clients :
                k \in Keys /\ clients[k] \in Entries /\ clients[k].obj \in DOMAIN heap
<1>1. IsFiniteSet(Keys)
  <2>1. IsFiniteSet({"canonical"})
    BY FS_Singleton
  <2>2. Spellings = {"canonical"} \cup {"other"}
    BY DEF Spellings
  <2>3. IsFiniteSet(Spellings)
    BY <2>1, <2>2, FS_AddElement
  <2> QED
    BY <2>3, MaxObjectsBoundsMacs, FS_Product DEF Keys
<1>2. DOMAIN clients \subseteq Keys
  BY DictDef DEF ClientsType
<1>3. IsFiniteSet(DOMAIN clients)
  BY <1>1, <1>2, FS_Subset
<1> QED
  BY <1>2, <1>3, DictValue DEF ClientsType

\* A list made now is of entries of objects there are.
LEMMA ClientListType ==
    ASSUME ClientsType
    PROVE  ClientList \in Lists(DOMAIN heap)
<1>1. \A k \in DOMAIN clients : clients[k] \in Entries
  BY DictValue DEF ClientsType
<1> QED
  BY <1>1 DEF ClientList, Lists, ClientsType

-----------------------------------------------------------------------------
(* Threads *)

\* What the step a thread is at tells of its record.
LEMMA AtType ==
    ASSUME NEW r, NEW D, ThreadType(r, D)
    PROVE  /\ r.at = "find_group" =>
                \/ r \in [at : {"find_group"}, op : {"create"}, key : Keys, group : Groups]
                \/ r \in [at : {"find_group"}, op : {"update"}, obj : D, group : Groups]
           /\ r.at = "create" =>
                r \in [at : {"create"}, op : {"create"}, key : Keys, group : Groups]
           /\ r.at = "update" =>
                r \in [at : {"update"}, op : {"update"}, obj : D, group : Groups]
           /\ r.at \in {"insert_group", "remove_group"} =>
                r \in [at : {"insert_group", "remove_group"}, group : Groups]
           /\ r.at = "scan" =>
                r \in [at : {"scan"}, group : Groups, pos : Nat, size : Nat]
           /\ r.at \in {"copy_groups", "write_clients"} =>
                r \in [at : {"copy_groups", "write_clients"}, list : Lists(D)]
           /\ r.at = "write_groups" =>
                r \in [at : {"write_groups"}, list : Lists(D), names : SUBSET Groups]
BY DEF ThreadType, Idle

\* More objects take no type away.
LEMMA ThreadTypeGrows ==
    ASSUME NEW r, NEW D, NEW E, D \subseteq E, ThreadType(r, D)
    PROVE  ThreadType(r, E)
<1>1. Lists(D) \subseteq Lists(E)
  BY DEF Lists
<1> QED
  BY <1>1 DEF ThreadType

\* A step of t touches the record of t.
LEMMA GotoType ==
    ASSUME ThreadsType, NEW t \in Threads, NEW r, Goto(t, r),
           DOMAIN heap \subseteq DOMAIN heap', ThreadType(r, DOMAIN heap')
    PROVE  ThreadsType'
<1>1. thread' = [thread EXCEPT ![t] = r] /\ DOMAIN thread = Threads
  BY DEF Goto, ThreadsType
<1>2. thread' = [u \in Threads |-> thread'[u]]
  BY <1>1
<1>3. \A u \in Threads : ThreadType(thread'[u], DOMAIN heap')
  BY <1>1, ThreadTypeGrows DEF ThreadsType
<1> QED
  BY <1>2, <1>3 DEF ThreadsType

LEMMA GotoOthers ==
    ASSUME ThreadsType, NEW t \in Threads, NEW r, Goto(t, r)
    PROVE  thread'[t] = r /\ \A u \in Threads \ {t} : thread'[u] = thread[u]
BY DEF Goto, ThreadsType

\* Rows with the heap as a parameter.
RowsOf(list, h) ==
    LET Of(m) == {e \in list : h[e.obj].mac = m}
        First(m) == CHOOSE e \in Of(m) : \A f \in Of(m) : e.pos <= f.pos
    IN  [m \in {h[e.obj].mac : e \in list} |-> h[First(m).obj].group]

\* The rows of the clients there are change with them only.
LEMMA RowsFollowClients ==
    ASSUME UNCHANGED <<clients, heap>>
    PROVE  Rows(ClientList)' = Rows(ClientList) /\ ClientList' = ClientList
<1>1. Rows(ClientList) = RowsOf(ClientList, heap)
  BY DEF Rows, RowsOf
<1>2. Rows(ClientList)' = RowsOf(ClientList', heap')
  BY DEF Rows, RowsOf
<1>3. ClientList' = ClientList
  BY DEF ClientList
<1> QED
  BY <1>1, <1>2, <1>3

\* A step that changes nothing but the record of a thread that is not saving.
LEMMA QuietUndisturbed ==
    ASSUME ThreadsType, QuietProgress, NEW t \in Threads, NEW r, Goto(t, r),
           thread[t].at \notin Saving, UNCHANGED <<memory, tables, quiet>>
    PROVE  QuietProgress'
<1>1. \A u \in Threads \ {t} : thread'[u] = thread[u]
  BY GotoOthers
<1>2. UNCHANGED <<clients, groups, heap, clientTable, groupTable, quiet>>
  BY DEF memory, tables
<1>3. quiet # t
  <2> SUFFICES ASSUME quiet = t PROVE FALSE
    OBVIOUS
  <2>1. thread[quiet].at \in Saving
    BY DEF QuietProgress
  <2> QED
    BY <2>1
<1>4. (quiet = Settled => Synced) => (quiet' = Settled => Synced')
  BY <1>2, RowsFollowClients DEF Synced
<1>5. ClientList' = ClientList
  BY <1>2, RowsFollowClients
<1> QED
  BY <1>1, <1>2, <1>3, <1>4, <1>5 DEF QuietProgress

\* A thread that changes something before it has copied the clients.
LEMMA QuietDisturbed ==
    ASSUME QuietProgress, NEW t \in Threads, Disturb(t), thread[t].at \notin Saving
    PROVE  QuietProgress'
<1>1. quiet' = Nobody
  BY DEF QuietProgress, Disturb
<1> QED
  BY <1>1, GhostsAreNoThreads DEF QuietProgress, Nobody, Settled

\* A step that changes the record of t only.
LEMMA LookKeepsInv ==
    ASSUME ClientInv, NEW t \in Threads, NEW r, Goto(t, r), ThreadType(r, DOMAIN heap),
           thread[t].at \notin Saving, UNCHANGED <<memory, tables, quiet>>
    PROVE  ClientInv'
<1>1. UNCHANGED <<clients, groups, heap, clientTable, groupTable, quiet>>
  BY DEF memory, tables
<1>2. HeapType' /\ ClientsType' /\ TablesType'
  BY <1>1 DEF ClientInv, HeapType, ClientsType, TablesType
<1>3. ThreadsType'
  BY <1>1, GotoType DEF ClientInv
<1>4. QuietProgress'
  BY QuietUndisturbed DEF ClientInv
<1> QED
  BY <1>2, <1>3, <1>4 DEF ClientInv

\* A thread that goes on to save.
LEMMA SaveKeepsThreads ==
    ASSUME ThreadsType, NEW t \in Threads, Save(t), DOMAIN heap \subseteq DOMAIN heap'
    PROVE  ThreadsType'
<1> DEFINE r == [at |-> "copy_clients"]
<1>1. ThreadType(r, DOMAIN heap')
  BY DEF ThreadType
<1>2. Goto(t, r)
  BY DEF Save
<1> HIDE DEF r
<1> QED
  BY <1>1, <1>2, GotoType

-----------------------------------------------------------------------------
(* One lemma per kind of step *)

LEMMA RequestKeepsInv ==
    ASSUME ClientInv, NEW t \in Threads, Request(t)
    PROVE  ClientInv'
<1>1. thread[t] = Idle => thread[t].at \notin Saving
  BY DEF Idle, Saving
<1>2. /\ \A k \in DOMAIN clients : k \in Keys /\ clients[k].obj \in DOMAIN heap
      /\ IsFiniteSet(DOMAIN clients)
  BY ClientsAreFinite DEF ClientInv
<1>3. ASSUME NEW k \in Keys, NEW g \in Groups, CreateClient(t, k, g) PROVE ClientInv'
  <2> DEFINE r == [at |-> "find_group", op |-> "create", key |-> k, group |-> g]
  <2>1. ThreadType(r, DOMAIN heap)
    BY DEF ThreadType
  <2>2. Goto(t, r)
    BY <1>3 DEF CreateClient
  <2> HIDE DEF r
  <2> QED
    BY <1>1, <1>3, <2>1, <2>2, LookKeepsInv DEF CreateClient
<1>4. ASSUME NEW k \in Keys, NEW g \in Groups \cup {NoGroup}, UpdateClient(t, k, g)
      PROVE  ClientInv'
  <2>1. PICK r : /\ Goto(t, r)
                 /\ \/ r = [at |-> "copy_clients"]
                    \/ /\ g \in Groups
                       /\ r = [at |-> "find_group", op |-> "update",
                               obj |-> clients[k].obj, group |-> g]
    BY <1>4 DEF UpdateClient, Save
  <2>2. ThreadType(r, DOMAIN heap)
    BY <1>2, <1>4, <2>1 DEF ThreadType, UpdateClient
  <2> QED
    BY <1>1, <1>4, <2>1, <2>2, LookKeepsInv DEF UpdateClient
<1>5. ASSUME NEW k \in Keys, DeleteClient(t, k) PROVE ClientInv'
  <2>1. /\ DOMAIN clients' \subseteq DOMAIN clients
        /\ \A j \in DOMAIN clients' : clients'[j] = clients[j]
        /\ UNCHANGED <<groups, heap, clientTable, groupTable>>
    BY <1>5, DropValues DEF DeleteClient, tables
  <2>2. clients' \in Dict(Keys, Entries)
    BY <1>5, DropProperties DEF DeleteClient, ClientInv, ClientsType
  <2>3. HeapType' /\ ClientsType' /\ TablesType'
    BY <2>1, <2>2 DEF ClientInv, HeapType, ClientsType, TablesType
  <2>4. ThreadsType'
    BY <1>5, <2>1, SaveKeepsThreads DEF ClientInv, DeleteClient
  <2>5. QuietProgress'
    BY <1>1, <1>5, QuietDisturbed DEF ClientInv, DeleteClient
  <2> QED
    BY <2>3, <2>4, <2>5 DEF ClientInv
<1>6. ASSUME NEW g \in Groups, CreateClientGroup(t, g) PROVE ClientInv'
  <2> DEFINE r == [at |-> "insert_group", group |-> g]
  <2>1. ThreadType(r, DOMAIN heap)
    BY DEF ThreadType
  <2>2. Goto(t, r)
    BY <1>6 DEF CreateClientGroup
  <2> HIDE DEF r
  <2> QED
    BY <1>1, <1>6, <2>1, <2>2, LookKeepsInv DEF CreateClientGroup
<1>7. ASSUME NEW g \in Groups, DeleteClientGroup(t, g) PROVE ClientInv'
  <2>1. PICK n : n = Cardinality(DOMAIN clients)
    OBVIOUS
  <2> DEFINE r == [at |-> "scan", group |-> g, pos |-> 0, size |-> n]
  <2>2. n \in Nat
    BY <1>2, <2>1, FS_CardinalityType
  <2>3. ThreadType(r, DOMAIN heap)
    BY <2>2 DEF ThreadType
  <2>4. Goto(t, r)
    BY <1>7, <2>1 DEF DeleteClientGroup
  <2> HIDE DEF r
  <2> QED
    BY <1>1, <1>7, <2>3, <2>4, LookKeepsInv DEF DeleteClientGroup
<1> QED
  BY <1>3, <1>4, <1>5, <1>6, <1>7 DEF Request

LEMMA FindGroupKeepsInv ==
    ASSUME ClientInv, NEW t \in Threads, FindGroup(t)
    PROVE  ClientInv'
<1>1. thread[t].at \notin Saving
  BY DEF FindGroup, Saving
<1>2. ThreadType(thread[t], DOMAIN heap)
  BY DEF ClientInv, ThreadsType
<1>3. PICK r : /\ Goto(t, r)
               /\ r = Idle \/ r = [thread[t] EXCEPT !.at = thread[t].op]
  BY DEF FindGroup
<1>4. ThreadType(r, DOMAIN heap)
  <2>1. CASE thread[t] \in [at : {"find_group"}, op : {"create"}, key : Keys, group : Groups]
    <3>1. r = Idle \/ r \in [at : {"create"}, op : {"create"}, key : Keys, group : Groups]
      BY <1>3, <2>1
    <3> QED
      BY <3>1 DEF ThreadType
  <2>2. CASE thread[t] \in [at : {"find_group"}, op : {"update"}, obj : DOMAIN heap, group : Groups]
    <3>1. r = Idle \/ r \in [at : {"update"}, op : {"update"}, obj : DOMAIN heap, group : Groups]
      BY <1>3, <2>2
    <3> QED
      BY <3>1 DEF ThreadType
  <2> QED
    BY <1>2, <2>1, <2>2, AtType DEF FindGroup
<1> QED
  BY <1>1, <1>3, <1>4, LookKeepsInv DEF FindGroup

\* The new object's number is the next one, and so is its position unless the
\* key was there: no other client has either.
LEMMA InsertClientKeepsInv ==
    ASSUME ClientInv, NEW t \in Threads, InsertClient(t)
    PROVE  ClientInv'
<1> DEFINE n == NextObject
           N == Cardinality(DOMAIN heap)
<1>1. thread[t] \in [at : {"create"}, op : {"create"}, key : Keys, group : Groups]
  BY AtType DEF ClientInv, ThreadsType, InsertClient
<1>2. PICK k \in Keys, g \in Groups : k = thread[t].key /\ g = thread[t].group
  BY <1>1
<1>3. PICK pos : /\ pos = IF k \in DOMAIN clients THEN clients[k].pos ELSE n
                 /\ heap' = Put(heap, n, [mac |-> k[1], group |-> g])
                 /\ clients' = Put(clients, k, [obj |-> n, pos |-> pos])
  BY <1>2 DEF InsertClient
<1>4. n \in Objects /\ N \in Nat /\ n = N + 1 /\ DOMAIN heap = 1..N
  BY DEF InsertClient, ClientInv, HeapType, NextObject
<1>5. /\ n \notin DOMAIN heap /\ DOMAIN heap' = 1..n
      /\ DOMAIN heap \subseteq DOMAIN heap'
  <2>1. DOMAIN heap' = DOMAIN heap \cup {n}
    BY <1>3 DEF Put
  <2> QED
    BY <1>4, <2>1
<1>6. heap'[n] = [mac |-> k[1], group |-> g] /\ \A i \in DOMAIN heap : heap'[i] = heap[i]
  BY <1>3, <1>5 DEF Put
<1>7. HeapType'
  <2>1. [mac |-> k[1], group |-> g] \in Clients
    BY DEF Clients, Keys
  <2>2. heap' \in Dict(Objects, Clients)
    BY <1>3, <1>4, <2>1, PutProperties DEF ClientInv, HeapType
  <2>3. Cardinality(1..n) = n
    BY <1>4, FS_Interval
  <2> QED
    BY <1>4, <1>5, <2>2, <2>3 DEF HeapType
<1>8. pos \in Objects /\ pos \in DOMAIN heap' /\ (k \notin DOMAIN clients => pos = n)
      /\ (k \in DOMAIN clients => pos = clients[k].pos)
  <2>1. CASE k \in DOMAIN clients
    <3>1. clients[k] \in Entries /\ clients[k].pos \in DOMAIN heap
      BY <2>1, ClientsAreFinite DEF ClientInv, ClientsType
    <3> QED
      BY <1>3, <1>5, <2>1, <3>1 DEF Entries
  <2>2. CASE k \notin DOMAIN clients
    BY <1>3, <1>4, <1>5, <2>2
  <2> QED
    BY <2>1, <2>2
<1>9. /\ DOMAIN clients' = DOMAIN clients \cup {k}
      /\ clients'[k] = [obj |-> n, pos |-> pos]
      /\ \A j \in DOMAIN clients \ {k} : clients'[j] = clients[j]
  BY <1>3 DEF Put
<1>10. ClientsType'
  <2>1. [obj |-> n, pos |-> pos] \in Entries
    BY <1>4, <1>8 DEF Entries
  <2>2. clients' \in Dict(Keys, Entries)
    BY <1>3, <2>1, PutProperties DEF ClientInv, ClientsType
  <2>3. \A j \in DOMAIN clients \ {k} :
          /\ clients'[j].obj \in DOMAIN heap /\ clients'[j].pos \in DOMAIN heap
          /\ heap'[clients'[j].obj].mac = j[1]
          /\ clients'[j].pos # pos
    <3> SUFFICES ASSUME NEW j \in DOMAIN clients \ {k}
                 PROVE  /\ clients'[j].obj \in DOMAIN heap /\ clients'[j].pos \in DOMAIN heap
                        /\ heap'[clients'[j].obj].mac = j[1]
                        /\ clients'[j].pos # pos
      OBVIOUS
    <3>1. /\ clients[j].obj \in DOMAIN heap /\ clients[j].pos \in DOMAIN heap
          /\ heap[clients[j].obj].mac = j[1]
          /\ k \in DOMAIN clients => clients[j].pos # clients[k].pos
      BY DEF ClientInv, ClientsType
    <3> QED
      BY <1>5, <1>6, <1>8, <1>9, <3>1
  <2>4. /\ clients'[k].obj = n /\ clients'[k].pos = pos /\ n \in DOMAIN heap'
        /\ heap'[n].mac = k[1]
    BY <1>4, <1>5, <1>6, <1>9
  <2>5. \A i, j \in DOMAIN clients \ {k} : clients[i].pos = clients[j].pos => i = j
    BY DEF ClientInv, ClientsType
  <2>6. \A i, j \in DOMAIN clients' : clients'[i].pos = clients'[j].pos => i = j
    BY <1>9, <2>3, <2>4, <2>5
  <2>7. \A j \in DOMAIN clients' :
          /\ clients'[j].obj \in DOMAIN heap' /\ clients'[j].pos \in DOMAIN heap'
          /\ heap'[clients'[j].obj].mac = j[1]
    BY <1>5, <1>8, <1>9, <2>3, <2>4
  <2> QED
    BY <2>2, <2>6, <2>7 DEF ClientsType
<1>11. TablesType'
  BY DEF ClientInv, TablesType, InsertClient, tables
<1>12. ThreadsType'
  BY <1>5, SaveKeepsThreads DEF ClientInv, InsertClient
<1>13. QuietProgress'
  BY QuietDisturbed DEF ClientInv, InsertClient, Saving
<1> QED
  BY <1>7, <1>10, <1>11, <1>12, <1>13 DEF ClientInv

LEMMA AssignGroupKeepsInv ==
    ASSUME ClientInv, NEW t \in Threads, AssignGroup(t)
    PROVE  ClientInv'
<1>1. thread[t] \in [at : {"update"}, op : {"update"}, obj : DOMAIN heap, group : Groups]
  BY AtType DEF ClientInv, ThreadsType, AssignGroup
<1>2. PICK o \in DOMAIN heap, g \in Groups : heap' = [heap EXCEPT ![o].group = g]
  BY <1>1 DEF AssignGroup
<1>3. heap \in [DOMAIN heap -> Clients] /\ DOMAIN heap \subseteq Objects
  BY DictDef DEF ClientInv, HeapType
<1>4. heap' \in [DOMAIN heap -> Clients] /\ DOMAIN heap' = DOMAIN heap
  BY <1>2, <1>3 DEF Clients
<1>5. \A i \in DOMAIN heap : heap'[i].mac = heap[i].mac
  BY <1>2, <1>3 DEF Clients
<1>6. heap' \in Dict(Objects, Clients)
  BY <1>3, <1>4, DictDef
<1>7. HeapType' /\ ClientsType' /\ TablesType'
  BY <1>4, <1>5, <1>6 DEF ClientInv, HeapType, ClientsType, TablesType, AssignGroup, tables
<1>8. ThreadsType'
  BY <1>4, SaveKeepsThreads DEF ClientInv, AssignGroup
<1>9. QuietProgress'
  BY QuietDisturbed DEF ClientInv, AssignGroup, Saving
<1> QED
  BY <1>7, <1>8, <1>9 DEF ClientInv

LEMMA GroupStepsKeepInv ==
    ASSUME ClientInv, NEW t \in Threads, InsertGroup(t) \/ RemoveGroup(t)
    PROVE  ClientInv'
<1>1. /\ thread[t] \in [at : {"insert_group", "remove_group"}, group : Groups]
      /\ thread[t].at \notin Saving
  BY AtType DEF ClientInv, ThreadsType, InsertGroup, RemoveGroup, Saving
<1>2. CASE Save(t) /\ Disturb(t)
  <2>1. UNCHANGED <<clients, heap, clientTable, groupTable>> /\ groups' \subseteq Groups
    BY <1>1 DEF InsertGroup, RemoveGroup, tables, ClientInv, TablesType
  <2>2. HeapType' /\ ClientsType' /\ TablesType'
    BY <2>1 DEF ClientInv, HeapType, ClientsType, TablesType
  <2>3. ThreadsType' /\ QuietProgress'
    BY <1>1, <1>2, <2>1, SaveKeepsThreads, QuietDisturbed DEF ClientInv
  <2> QED
    BY <2>2, <2>3 DEF ClientInv
<1>3. CASE Goto(t, Idle) /\ UNCHANGED <<memory, tables, quiet>>
  <2>1. ThreadType(Idle, DOMAIN heap)
    BY DEF ThreadType
  <2> QED
    BY <1>1, <1>3, <2>1, LookKeepsInv
<1> QED
  BY <1>2, <1>3 DEF InsertGroup, RemoveGroup, memory

LEMMA ScanClientsKeepsInv ==
    ASSUME ClientInv, NEW t \in Threads, ScanClients(t)
    PROVE  ClientInv'
<1> DEFINE ahead == {e \in ClientList : e.pos > thread[t].pos}
           next == CHOOSE e \in ahead : \A f \in ahead : e.pos <= f.pos
<1>1. thread[t] \in [at : {"scan"}, group : Groups, pos : Nat, size : Nat]
  BY AtType DEF ClientInv, ThreadsType, ScanClients
<1>2. ahead # {} => next \in Entries
  <2>1. ahead \in SUBSET Entries
    BY ClientListType DEF ClientInv, Lists
  <2> SUFFICES ASSUME ahead # {} PROVE next \in Entries
    OBVIOUS
  <2>2. \E e \in ahead : \A f \in ahead : e.pos <= f.pos
    BY <2>1, SmallestPos
  <2>3. next \in ahead
    BY <2>2
  <2> QED
    BY <2>1, <2>3
<1>3. /\ thread[t].at \notin Saving
      /\ UNCHANGED <<memory, tables, quiet>>
      /\ \/ Goto(t, Idle)
         \/ Goto(t, [at |-> "remove_group", group |-> thread[t].group])
         \/ ahead # {} /\ Goto(t, [thread[t] EXCEPT !.pos = next.pos])
  BY DEF ScanClients, Saving
<1>4. PICK r : /\ Goto(t, r)
               /\ \/ r = Idle
                  \/ r = [at |-> "remove_group", group |-> thread[t].group]
                  \/ ahead # {} /\ r = [thread[t] EXCEPT !.pos = next.pos]
  BY <1>3
<1>5. next \in Entries => next.pos \in Nat
  BY MaxObjectsBoundsMacs DEF Entries, Objects
<1> HIDE DEF ahead, next
<1>6. \/ r = Idle
      \/ r \in [at : {"insert_group", "remove_group"}, group : Groups]
      \/ r \in [at : {"scan"}, group : Groups, pos : Nat, size : Nat]
  BY <1>1, <1>2, <1>4, <1>5
<1>7. ThreadType(r, DOMAIN heap)
  BY <1>6 DEF ThreadType
<1> QED
  BY <1>3, <1>4, <1>7, LookKeepsInv

\* What a save step of t leaves to show when memory stays as it is.
LEMMA SaveStepKeepsInv ==
    ASSUME ClientInv, NEW t \in Threads, NEW r, Goto(t, r), ThreadType(r, DOMAIN heap),
           UNCHANGED memory, TablesType', QuietProgress'
    PROVE  ClientInv'
<1>1. UNCHANGED <<clients, groups, heap>>
  BY DEF memory
<1>2. HeapType' /\ ClientsType'
  BY <1>1 DEF ClientInv, HeapType, ClientsType
<1>3. ThreadsType'
  BY <1>1, GotoType DEF ClientInv
<1> QED
  BY <1>2, <1>3 DEF ClientInv

LEMMA CopiesKeepInv ==
    ASSUME ClientInv, NEW t \in Threads, CopyClients(t) \/ CopyGroups(t)
    PROVE  ClientInv'
<1>1. UNCHANGED <<clients, groups, heap, clientTable, groupTable>> /\ UNCHANGED memory
  BY DEF CopyClients, CopyGroups, memory, tables
<1>2. TablesType'
  BY <1>1 DEF ClientInv, TablesType
<1>3. ClientList' = ClientList /\ Rows(ClientList)' = Rows(ClientList)
  BY <1>1, RowsFollowClients
<1>4. ClientList \in Lists(DOMAIN heap)
  BY ClientListType DEF ClientInv
<1>5. CASE CopyClients(t)
  <2>1. PICK r : Goto(t, r) /\ r = [at |-> "copy_groups", list |-> ClientList]
    BY <1>5 DEF CopyClients
  <2>2. ThreadType(r, DOMAIN heap)
    BY <1>4, <2>1 DEF ThreadType
  <2>3. thread'[t] = r /\ quiet' = t
    BY <1>5, <2>1, GotoOthers DEF ClientInv, CopyClients
  <2>4. QuietProgress'
    BY <1>3, <2>1, <2>3, GhostsAreNoThreads DEF QuietProgress, Saving
  <2> QED
    BY <1>1, <1>2, <2>1, <2>2, <2>4, SaveStepKeepsInv
<1>6. CASE CopyGroups(t)
  <2>1. thread[t] \in [at : {"copy_groups", "write_clients"}, list : Lists(DOMAIN heap)]
    BY <1>6, AtType DEF ClientInv, ThreadsType, CopyGroups
  <2>2. PICK r : /\ Goto(t, r)
                 /\ r = [at |-> "write_groups", list |-> thread[t].list, names |-> groups]
    BY <1>6 DEF CopyGroups
  <2>3. ThreadType(r, DOMAIN heap)
    BY <2>1, <2>2 DEF ThreadType, ClientInv, TablesType
  <2>4. /\ thread'[t] = r /\ quiet' = quiet
        /\ \A u \in Threads \ {t} : thread'[u] = thread[u]
    BY <1>6, <2>2, GotoOthers DEF ClientInv, CopyGroups
  <2>5. QuietProgress'
    <3>1. quiet' = Settled => Synced'
      BY <1>1, <1>3, <2>4 DEF ClientInv, QuietProgress, Synced
    <3>2. CASE quiet = t
      BY <1>1, <1>3, <2>2, <2>4, <3>1, <3>2 DEF ClientInv, QuietProgress, Saving
    <3>3. CASE quiet # t
      BY <1>1, <1>3, <2>4, <3>1, <3>3 DEF ClientInv, QuietProgress
    <3> QED
      BY <3>2, <3>3
  <2> QED
    BY <1>1, <1>2, <2>2, <2>3, <2>5, SaveStepKeepsInv
<1> QED
  BY <1>5, <1>6

LEMMA SaveFailsKeepsInv ==
    ASSUME ClientInv, NEW t \in Threads, SaveFails(t)
    PROVE  ClientInv'
<1>1. ThreadType(Idle, DOMAIN heap)
  BY DEF ThreadType
<1>2. TablesType'
  BY DEF ClientInv, TablesType, SaveFails, memory, tables
<1>3. QuietProgress'
  BY GhostsAreNoThreads DEF QuietProgress, SaveFails, Nobody, Settled
<1> QED
  BY <1>1, <1>2, <1>3, SaveStepKeepsInv DEF SaveFails

LEMMA WritesKeepInv ==
    ASSUME ClientInv, NEW t \in Threads, WriteGroups(t) \/ WriteClients(t)
    PROVE  ClientInv'
<1>1. CASE WriteGroups(t)
  <2>1. thread[t] \in [at : {"write_groups"}, list : Lists(DOMAIN heap), names : SUBSET Groups]
    BY <1>1, AtType DEF ClientInv, ThreadsType, WriteGroups
  <2>2. PICK r : Goto(t, r) /\ r = [at |-> "write_clients", list |-> thread[t].list]
    BY <1>1 DEF WriteGroups
  <2>3. ThreadType(r, DOMAIN heap)
    BY <2>1, <2>2 DEF ThreadType
  <2>4. /\ thread'[t] = r /\ quiet' = IF quiet = t THEN t ELSE Nobody
        /\ UNCHANGED <<clients, groups, heap, clientTable>> /\ groupTable' = thread[t].names
    BY <1>1, <2>2, GotoOthers DEF ClientInv, WriteGroups, Disturb, memory
  <2>5. TablesType'
    BY <2>1, <2>4 DEF ClientInv, TablesType
  <2>6. QuietProgress'
    <3>1. CASE quiet = t
      <4>1. /\ thread[t].list = ClientList /\ thread[t].names = groups
            /\ thread[t].at = "write_groups"
        BY <1>1, <3>1 DEF ClientInv, QuietProgress, WriteGroups
      <4>2. ClientList' = ClientList
        BY <2>4, RowsFollowClients
      <4> QED
        BY <2>2, <2>4, <3>1, <4>1, <4>2, GhostsAreNoThreads DEF QuietProgress, Saving
    <3>2. CASE quiet # t
      BY <2>4, <3>2, GhostsAreNoThreads DEF QuietProgress, Nobody, Settled
    <3> QED
      BY <3>1, <3>2
  <2> QED
    BY <1>1, <2>2, <2>3, <2>5, <2>6, SaveStepKeepsInv DEF WriteGroups
<1>2. CASE WriteClients(t)
  <2>1. thread[t] \in [at : {"copy_groups", "write_clients"}, list : Lists(DOMAIN heap)]
    BY <1>2, AtType DEF ClientInv, ThreadsType, WriteClients
  <2>2. ThreadType(Idle, DOMAIN heap)
    BY DEF ThreadType
  <2>3. /\ UNCHANGED <<clients, groups, heap, groupTable>>
        /\ clientTable' = Rows(thread[t].list) /\ thread[t].at = "write_clients"
        /\ quiet' = IF quiet = t THEN Settled ELSE Nobody
    BY <1>2 DEF WriteClients, memory
  <2>4. TablesType'
    <3>1. Rows(thread[t].list) \in Dict(Macs, Groups)
      BY <2>1, RowsType DEF ClientInv
    <3> QED
      BY <2>3, <3>1 DEF ClientInv, TablesType
  <2>5. QuietProgress'
    <3>1. CASE quiet = t
      <4>1. thread[t].list = ClientList /\ groupTable = groups
        BY <2>3, <3>1 DEF ClientInv, QuietProgress
      <4>2. Synced'
        BY <2>3, <4>1, RowsFollowClients DEF Synced
      <4> QED
        BY <2>3, <3>1, <4>2, GhostsAreNoThreads DEF QuietProgress
    <3>2. CASE quiet # t
      BY <2>3, <3>2, GhostsAreNoThreads DEF QuietProgress, Nobody, Settled
    <3> QED
      BY <3>1, <3>2
  <2> QED
    BY <1>2, <2>2, <2>4, <2>5, SaveStepKeepsInv DEF WriteClients
<1> QED
  BY <1>1, <1>2

-----------------------------------------------------------------------------
(* Restarts *)

\* What a load brings: the clients of the rows, each under its canonical key,
\* numbered in an order that is a bijection.
LEMMA LoadedClients ==
    ASSUME TablesType, Load
    PROVE  \E o \in [DOMAIN clientTable -> 1..Cardinality(DOMAIN clientTable)] :
            /\ Cardinality(DOMAIN clientTable) \in Nat
            /\ Cardinality(DOMAIN clientTable) <= MaxObjects
            /\ \A m, n \in DOMAIN clientTable : o[m] = o[n] => m = n
            /\ clients' = [k \in (DOMAIN clientTable) \X {"canonical"} |->
                                [obj |-> o[k[1]], pos |-> o[k[1]]]]
            /\ DOMAIN heap' = 1..Cardinality(DOMAIN clientTable)
            /\ heap' = [i \in DOMAIN heap' |-> heap'[i]]
            /\ \A i \in DOMAIN heap' : \E m \in DOMAIN clientTable : o[m] = i
            /\ \A m \in DOMAIN clientTable :
                heap'[o[m]] = [mac |-> m, group |-> clientTable[m]]
<1> DEFINE saved == DOMAIN clientTable
           N == Cardinality(saved)
           Mac(o, i) == CHOOSE m \in saved : o[m] = i
<1>1. PICK o \in [saved -> 1..N] :
        /\ \A m, n \in saved : o[m] = o[n] => m = n
        /\ clients' = [k \in saved \X {"canonical"} |-> [obj |-> o[k[1]], pos |-> o[k[1]]]]
        /\ heap' = [i \in 1..N |-> [mac |-> Mac(o, i), group |-> clientTable[Mac(o, i)]]]
  BY DEF Load
<1>2. saved \subseteq Macs
  BY DictDef DEF TablesType
<1>3. IsFiniteSet(saved) /\ N \in Nat /\ N <= MaxObjects
  <2>1. IsFiniteSet(saved) /\ Cardinality(saved) <= Cardinality(Macs)
    BY <1>2, MaxObjectsBoundsMacs, FS_Subset
  <2>2. N \in Nat /\ Cardinality(Macs) \in Nat
    BY <2>1, MaxObjectsBoundsMacs, FS_CardinalityType
  <2> QED
    BY <2>1, <2>2, MaxObjectsBoundsMacs
<1>4. \A i \in 1..N : \E m \in saved : o[m] = i
  <2>1. IsFiniteSet(1..N) /\ Cardinality(1..N) = N
    BY <1>3, FS_Interval
  <2>2. o \in Injection(saved, 1..N)
    BY <1>1 DEF Injection, IsInjective
  <2>3. o \in Surjection(saved, 1..N)
    BY <2>1, <2>2, FS_Injection
  <2> QED
    BY <2>3 DEF Surjection
<1>5. \A m \in saved : Mac(o, o[m]) = m /\ o[m] \in 1..N
  <2> SUFFICES ASSUME NEW m \in saved PROVE Mac(o, o[m]) = m /\ o[m] \in 1..N
    OBVIOUS
  <2>1. Mac(o, o[m]) \in saved /\ o[Mac(o, o[m])] = o[m]
    OBVIOUS
  <2> QED
    BY <1>1, <2>1
<1> HIDE DEF Mac
<1>6. \A m \in saved : heap'[o[m]] = [mac |-> m, group |-> clientTable[m]]
  BY <1>1, <1>5
<1>7. DOMAIN heap' = 1..N /\ heap' = [i \in DOMAIN heap' |-> heap'[i]]
  BY <1>1
<1> WITNESS o \in [saved -> 1..N]
<1> QED
  BY <1>1, <1>3, <1>4, <1>6, <1>7

\* After a restart no thread is at work.
LEMMA RestartThreads ==
    ASSUME Restart
    PROVE  /\ ThreadsType' /\ quiet' = Nobody
           /\ UNCHANGED <<clientTable, groupTable>>
           /\ \A t \in Threads : thread'[t] = Idle
<1>1. thread' = [t \in Threads |-> Idle]
  BY DEF Restart
<1>2. ThreadType(Idle, DOMAIN heap')
  BY DEF ThreadType
<1>3. ThreadsType'
  BY <1>1, <1>2 DEF ThreadsType
<1> QED
  BY <1>1, <1>3 DEF Restart, tables

LEMMA EmptyManager ==
    ASSUME clients = EmptyDict, heap = EmptyDict
    PROVE  HeapType /\ ClientsType
<1>1. Cardinality({}) = 0 /\ {} = 1..0
  BY FS_EmptySet
<1> QED
  BY <1>1, EmptyDictProperties DEF HeapType, ClientsType

LEMMA RestartKeepsInv ==
    ASSUME ClientInv, Restart
    PROVE  ClientInv'
<1>1. /\ ThreadsType' /\ quiet' = Nobody
      /\ UNCHANGED <<clientTable, groupTable>>
  BY RestartThreads
<1>2. QuietProgress'
  BY <1>1, GhostsAreNoThreads DEF QuietProgress, Nobody, Settled
<1>3. CASE Load
  <2> DEFINE saved == DOMAIN clientTable
             N == Cardinality(saved)
  <2>1. PICK o \in [saved -> 1..N] :
          /\ N \in Nat /\ N <= MaxObjects
          /\ \A m, n \in saved : o[m] = o[n] => m = n
          /\ clients' = [k \in saved \X {"canonical"} |-> [obj |-> o[k[1]], pos |-> o[k[1]]]]
          /\ DOMAIN heap' = 1..N
          /\ heap' = [i \in DOMAIN heap' |-> heap'[i]]
          /\ \A i \in DOMAIN heap' : \E m \in saved : o[m] = i
          /\ \A m \in saved : heap'[o[m]] = [mac |-> m, group |-> clientTable[m]]
    BY <1>3, LoadedClients DEF ClientInv
  <2>2. /\ \A m \in saved : m \in Macs /\ clientTable[m] \in Groups
        /\ groupTable \subseteq Groups
    BY DictValue DEF ClientInv, TablesType
  <2>3. N <= MaxObjects /\ 1..N \subseteq Objects
    BY <2>1, MaxObjectsBoundsMacs DEF Objects
  <2> HIDE DEF saved, N
  <2>4. HeapType'
    <3>1. \A i \in DOMAIN heap' : heap'[i] \in Clients
      <4> SUFFICES ASSUME NEW i \in DOMAIN heap' PROVE heap'[i] \in Clients
        OBVIOUS
      <4>1. PICK m \in saved : o[m] = i
        BY <2>1
      <4>2. heap'[i] = [mac |-> m, group |-> clientTable[m]]
        BY <2>1, <4>1
      <4> QED
        BY <2>2, <4>2 DEF Clients
    <3>2. heap' \in [DOMAIN heap' -> Clients]
      BY <2>1, <3>1
    <3>3. heap' \in Dict(Objects, Clients)
      BY <2>1, <2>3, <3>2, DictDef
    <3>4. Cardinality(1..N) = N
      BY <2>1, FS_Interval
    <3> QED
      BY <2>1, <3>3, <3>4 DEF HeapType
  <2>5. ClientsType'
    <3>1. /\ DOMAIN clients' = saved \X {"canonical"}
          /\ \A k \in DOMAIN clients' : clients'[k] = [obj |-> o[k[1]], pos |-> o[k[1]]]
      BY <2>1
    <3>2. \A k \in DOMAIN clients' :
            k[1] \in saved /\ k = <<k[1], "canonical">> /\ o[k[1]] \in 1..N
      BY <3>1
    <3>3. clients' \in [DOMAIN clients' -> Entries] /\ DOMAIN clients' \subseteq Keys
      BY <2>1, <2>2, <2>3, <3>1, <3>2 DEF Entries, Keys, Spellings
    <3>4. clients' \in Dict(Keys, Entries)
      BY <3>3, DictDef
    <3>5. \A k \in DOMAIN clients' :
            /\ clients'[k].obj \in DOMAIN heap' /\ clients'[k].pos \in DOMAIN heap'
            /\ heap'[clients'[k].obj].mac = k[1]
      <4> SUFFICES ASSUME NEW k \in DOMAIN clients', NEW m \in saved, m = k[1]
                   PROVE  /\ clients'[k].obj \in DOMAIN heap'
                          /\ clients'[k].pos \in DOMAIN heap'
                          /\ heap'[clients'[k].obj].mac = m
        BY <3>2
      <4>1. clients'[k].obj = o[m] /\ clients'[k].pos = o[m] /\ o[m] \in DOMAIN heap'
        <5>1. clients'[k] = [obj |-> o[m], pos |-> o[m]]
          BY <3>1
        <5>2. o[m] \in DOMAIN heap'
          BY <2>1
        <5> QED
          BY <5>1, <5>2
      <4>2. heap'[o[m]].mac = m
        <5>1. heap'[o[m]] = [mac |-> m, group |-> clientTable[m]]
          BY <2>1
        <5> QED
          BY <5>1
      <4> QED
        BY <4>1, <4>2
    <3>6. \A j, k \in DOMAIN clients' : clients'[j].pos = clients'[k].pos => j = k
      BY <2>1, <3>1, <3>2
    <3> QED
      BY <3>4, <3>5, <3>6 DEF ClientsType
  <2>6. TablesType'
    BY <1>1, <1>3, <2>2 DEF ClientInv, TablesType, Load
  <2> QED
    BY <1>1, <1>2, <2>4, <2>5, <2>6 DEF ClientInv
<1>4. CASE LoadFails
  <2>1. HeapType' /\ ClientsType'
    <3>1. Cardinality({}) = 0 /\ {} = 1..0
      BY FS_EmptySet
    <3>2. clients' = EmptyDict /\ heap' = EmptyDict
      BY <1>4 DEF LoadFails
    <3> QED
      BY <3>1, <3>2, EmptyDictProperties DEF HeapType, ClientsType
  <2>2. TablesType'
    BY <1>1, <1>4 DEF ClientInv, TablesType, LoadFails
  <2> QED
    BY <1>1, <1>2, <2>1, <2>2 DEF ClientInv
<1> QED
  BY <1>3, <1>4 DEF Restart

-----------------------------------------------------------------------------
(* The invariant, and what it shows *)

LEMMA InitInv ==
    Init => ClientInv
<1> SUFFICES ASSUME Init PROVE ClientInv
  OBVIOUS
<1>1. HeapType /\ ClientsType
  BY EmptyManager DEF Init
<1>2. TablesType
  BY EmptyDictProperties DEF Init, TablesType
<1>3. ThreadsType
  <2>1. ThreadType(Idle, DOMAIN heap)
    BY DEF ThreadType
  <2> QED
    BY <2>1 DEF Init, ThreadsType
<1>4. QuietProgress
  BY GhostsAreNoThreads DEF Init, QuietProgress, Nobody, Settled
<1> QED
  BY <1>1, <1>2, <1>3, <1>4 DEF ClientInv

LEMMA WorkKeepsInv ==
    ASSUME ClientInv, NEW t \in Threads, Work(t)
    PROVE  ClientInv'
BY FindGroupKeepsInv, InsertClientKeepsInv, AssignGroupKeepsInv, GroupStepsKeepInv,
   ScanClientsKeepsInv, CopiesKeepInv, WritesKeepInv, SaveFailsKeepsInv
   DEF Work

LEMMA NextInv ==
    ClientInv /\ [Next]_vars => ClientInv'
<1>1. ClientInv /\ UNCHANGED vars => ClientInv'
  <2> SUFFICES ASSUME ClientInv, UNCHANGED vars PROVE ClientInv'
    OBVIOUS
  <2>1. UNCHANGED <<clients, groups, heap, clientTable, groupTable, thread, quiet>>
    BY DEF vars, memory, tables
  <2>2. HeapType' /\ ClientsType' /\ TablesType' /\ ThreadsType'
    BY <2>1 DEF ClientInv, HeapType, ClientsType, TablesType, ThreadsType
  <2>3. ClientList' = ClientList /\ Rows(ClientList)' = Rows(ClientList)
    BY <2>1, RowsFollowClients
  <2>4. QuietProgress'
    BY <2>1, <2>3 DEF ClientInv, QuietProgress, Synced
  <2> QED
    BY <2>2, <2>4 DEF ClientInv
<1> QED
  BY <1>1, RequestKeepsInv, WorkKeepsInv, RestartKeepsInv DEF Next

\* The conjunction the theorems rest on holds at every instant.
THEOREM ClientInvariant ==
    Spec => []ClientInv
BY InitInv, NextInv, PTL DEF Spec

\* The object graph stays sound under any interleaving of any number of
\* threads: what the dictionary, an update or a save refers to is there.
THEOREM TypeCorrect ==
    Spec => []TypeOK
<1>1. ClientInv => TypeOK
  <2> SUFFICES ASSUME ClientInv PROVE TypeOK
    OBVIOUS
  <2>1. ASSUME NEW t \in Threads
        PROVE  /\ "obj" \in DOMAIN thread[t] => thread[t].obj \in DOMAIN heap
               /\ "list" \in DOMAIN thread[t] =>
                    \A e \in thread[t].list : e.obj \in DOMAIN heap
    <3>1. ThreadType(thread[t], DOMAIN heap)
      BY DEF ClientInv, ThreadsType
    <3> QED
      BY <3>1 DEF ThreadType, Idle, Lists
  <2>2. clients \in Dict(Keys, [obj : Objects, pos : Objects])
    BY DEF ClientInv, ClientsType, Entries
  <2>3. heap \in Dict(Objects, [mac : Macs, group : Groups])
    BY DEF ClientInv, HeapType, Clients
  <2>4. /\ DOMAIN heap = 1..Cardinality(DOMAIN heap)
        /\ groups \subseteq Groups /\ clientTable \in Dict(Macs, Groups)
        /\ groupTable \subseteq Groups /\ quiet \in Threads \cup {Settled, Nobody}
        /\ \A k \in DOMAIN clients :
            /\ clients[k].obj \in DOMAIN heap
            /\ heap[clients[k].obj].mac = k[1]
            /\ \A j \in DOMAIN clients : clients[j].pos = clients[k].pos => j = k
    BY DEF ClientInv, HeapType, ClientsType, TablesType, QuietProgress
  <2> QED
    BY <2>1, <2>2, <2>3, <2>4 DEF TypeOK
<1> QED
  BY <1>1, ClientInvariant, PTL

\* Whatever the threads have done before, a save during which no other thread
\* changes anything leaves the tables equal to memory (ClientPersistence.save).
THEOREM QuietSavesSettle ==
    Spec => []QuietSaveSettles
<1>1. ClientInv => QuietSaveSettles
  BY DEF ClientInv, QuietProgress, QuietSaveSettles
<1> QED
  BY <1>1, ClientInvariant, PTL

-----------------------------------------------------------------------------
(***************************************************************************)
(* Proofs about ClientManager with one request at a time and an SQLite     *)
(* that does not fail, for any MACs and groups, through restarts between   *)
(* any two steps.                                                          *)
(***************************************************************************)

\* one request at a time, and no failure
Alone == (\E one : Threads = {one}) /\ ~SqliteMayFail

-----------------------------------------------------------------------------
(* The invariant *)

\* the group of the client that has the key k
GroupOf(k) == heap[clients[k].obj].group

\* the steps before an operation changes anything, and the first steps after
Before == {"idle", "find_group", "create", "update", "insert_group", "scan", "remove_group"}
After  == {"copy_clients", "copy_groups", "write_groups"}

\* What a thread alone has found out, or has written already.  An operation
\* puts one of the tables behind, so that one of its two transactions changes
\* nothing.
AloneAt(r) ==
    /\ r.at \in Before => Synced
    /\ r.at \in {"create", "update"} => r.group \in groups
    /\ r.at = "scan" =>
        \A k \in DOMAIN clients : clients[k].pos <= r.pos => GroupOf(k) # r.group
    /\ r.at = "remove_group" => \A k \in DOMAIN clients : GroupOf(k) # r.group
    /\ r.at \in After => groupTable = groups \/ clientTable = Rows(ClientList)
    /\ r.at \in Saving => r.list = ClientList
    /\ r.at = "write_groups" => r.names = groups
    /\ r.at = "write_clients" => groupTable = groups

\* The groups of the rows are still there in memory, whichever table a crash
\* would find.
RowsKnown == \A m \in DOMAIN clientTable : clientTable[m] \in groups

GroupsInv == ClientsHaveGroups /\ RowsHaveGroups /\ RowsKnown

AloneInv == GroupsInv /\ \A t \in Threads : AloneAt(thread[t])

-----------------------------------------------------------------------------
(* Helpers *)

\* the entries of a list that are of one MAC, and the one that has its row
ClientsOf(x, list, h) == {e \in list : h[e.obj].mac = x}
FirstOf(E) == CHOOSE e \in E : \A f \in E : e.pos <= f.pos

\* A MAC has a row if it has a client, with the group of the first.
LEMMA RowsOfProperties ==
    ASSUME NEW L \in SUBSET Entries, NEW h
    PROVE  /\ RowsOf(L, h) = [x \in DOMAIN RowsOf(L, h) |-> RowsOf(L, h)[x]]
           /\ \A x : x \in DOMAIN RowsOf(L, h) <=> ClientsOf(x, L, h) # {}
           /\ \A x \in DOMAIN RowsOf(L, h) :
                /\ FirstOf(ClientsOf(x, L, h)) \in ClientsOf(x, L, h)
                /\ RowsOf(L, h)[x] = h[FirstOf(ClientsOf(x, L, h)).obj].group
<1> DEFINE D == {h[e.obj].mac : e \in L}
<1>1. RowsOf(L, h) = [x \in D |-> h[FirstOf(ClientsOf(x, L, h)).obj].group]
  BY DEF RowsOf, ClientsOf, FirstOf
<1>2. \A x : x \in D <=> ClientsOf(x, L, h) # {}
  BY DEF ClientsOf
<1>3. ASSUME NEW x \in D PROVE FirstOf(ClientsOf(x, L, h)) \in ClientsOf(x, L, h)
  <2>1. ClientsOf(x, L, h) \in SUBSET Entries /\ ClientsOf(x, L, h) # {}
    BY <1>2 DEF ClientsOf
  <2> QED
    BY <2>1, SmallestPos DEF FirstOf
<1> HIDE DEF D
<1> QED
  BY <1>1, <1>2, <1>3

\* A row has the group of a client.
LEMMA RowsAreOfClients ==
    ASSUME ClientsType, NEW m \in DOMAIN Rows(ClientList)
    PROVE  \E k \in DOMAIN clients : Rows(ClientList)[m] = GroupOf(k)
<1>1. Rows(ClientList) = RowsOf(ClientList, heap) /\ ClientList \in SUBSET Entries
  BY ClientListType DEF Rows, RowsOf, Lists
<1>2. PICK e : e = FirstOf(ClientsOf(m, ClientList, heap))
  OBVIOUS
<1>3. e \in ClientsOf(m, ClientList, heap) /\ Rows(ClientList)[m] = heap[e.obj].group
  BY <1>1, <1>2, RowsOfProperties
<1>4. PICK k \in DOMAIN clients : e = clients[k]
  BY <1>3 DEF ClientsOf, ClientList
<1> QED
  BY <1>3, <1>4 DEF GroupOf

\* What is said of memory and the tables holds as long as they are the same.
LEMMA AloneSame ==
    ASSUME UNCHANGED <<memory, tables>>
    PROVE  /\ GroupsInv => GroupsInv'
           /\ Synced => Synced'
           /\ \A r : AloneAt(r) => AloneAt(r)'
<1>1. UNCHANGED <<clients, groups, heap, clientTable, groupTable>>
  BY DEF memory, tables
<1>2. ClientList' = ClientList /\ Rows(ClientList)' = Rows(ClientList)
  BY <1>1, RowsFollowClients
<1>3. Synced' <=> Synced
  BY <1>1, <1>2 DEF Synced
<1>4. GroupsInv => GroupsInv'
  BY <1>1 DEF GroupsInv, ClientsHaveGroups, RowsHaveGroups, RowsKnown
<1>5. \A k : GroupOf(k)' = GroupOf(k)
  BY <1>1 DEF GroupOf
<1>6. \A r : AloneAt(r) => AloneAt(r)'
  BY <1>1, <1>2, <1>3, <1>5 DEF AloneAt
<1> QED
  BY <1>3, <1>4, <1>6

\* The one thread has taken a step to r.
LEMMA AloneStep ==
    ASSUME Alone, ThreadsType, NEW t \in Threads, NEW r, Goto(t, r),
           GroupsInv', AloneAt(r)'
    PROVE  AloneInv'
<1>1. thread'[t] = r
  BY GotoOthers
<1>2. \A u \in Threads : u = t
  BY DEF Alone
<1>3. AloneAt(thread[t])'
  BY <1>1 DEF AloneAt
<1> QED
  BY <1>2, <1>3 DEF AloneInv

\* The same, when memory and the tables stay as they are.
LEMMA AloneLook ==
    ASSUME Alone, ClientInv, AloneInv, NEW t \in Threads, NEW r, Goto(t, r),
           UNCHANGED <<memory, tables>>, AloneAt(r)
    PROVE  AloneInv'
BY AloneSame, AloneStep DEF ClientInv, AloneInv

\* The same, when the step has changed clients, or groups, and goes on to save.
LEMMA AloneSaves ==
    ASSUME Alone, ClientInv, NEW t \in Threads, Save(t), GroupsInv',
           groupTable' = groups' \/ clientTable' = Rows(ClientList)'
    PROVE  AloneInv'
<1> DEFINE r == [at |-> "copy_clients"]
<1>1. Goto(t, r)
  BY DEF Save
<1>2. AloneAt(r)'
  BY DEF AloneAt, Before, Saving
<1> HIDE DEF r
<1> QED
  BY <1>1, <1>2, AloneStep DEF ClientInv

-----------------------------------------------------------------------------
(* One lemma per kind of step *)

LEMMA AloneRequest ==
    ASSUME Alone, ClientInv, AloneInv, NEW t \in Threads, Request(t)
    PROVE  AloneInv'
<1>1. Synced
  <2>1. thread[t] = Idle
    BY DEF Request, CreateClient, UpdateClient, DeleteClient, CreateClientGroup,
           DeleteClientGroup
  <2>2. thread[t].at \in Before
    BY <2>1 DEF Idle, Before
  <2>3. AloneAt(thread[t])
    BY DEF AloneInv
  <2> QED
    BY <2>2, <2>3 DEF AloneAt
<1>2. ASSUME NEW k \in Keys, NEW g \in Groups, CreateClient(t, k, g) PROVE AloneInv'
  <2> DEFINE r == [at |-> "find_group", op |-> "create", key |-> k, group |-> g]
  <2>1. Goto(t, r) /\ UNCHANGED <<memory, tables>>
    BY <1>2 DEF CreateClient
  <2>2. AloneAt(r)
    BY <1>1 DEF AloneAt, After, Saving
  <2> HIDE DEF r
  <2> QED
    BY <2>1, <2>2, AloneLook
<1>3. ASSUME NEW k \in Keys, NEW g \in Groups \cup {NoGroup}, UpdateClient(t, k, g)
      PROVE  AloneInv'
  <2>1. PICK r : /\ Goto(t, r)
                 /\ \/ r = [at |-> "copy_clients"]
                    \/ r = [at |-> "find_group", op |-> "update",
                            obj |-> clients[k].obj, group |-> g]
    BY <1>3 DEF UpdateClient, Save
  <2>2. AloneAt(r)
    BY <1>1, <2>1 DEF AloneAt, Before, After, Saving, Synced
  <2> QED
    BY <1>3, <2>1, <2>2, AloneLook DEF UpdateClient
<1>4. ASSUME NEW k \in Keys, DeleteClient(t, k) PROVE AloneInv'
  <2>1. /\ DOMAIN clients' \subseteq DOMAIN clients
        /\ \A j \in DOMAIN clients' : clients'[j] = clients[j]
        /\ UNCHANGED <<groups, heap, clientTable, groupTable>>
    BY <1>4, DropValues DEF DeleteClient, tables
  <2>2. GroupsInv'
    BY <2>1 DEF AloneInv, GroupsInv, ClientsHaveGroups, RowsHaveGroups, RowsKnown
  <2>3. groupTable' = groups'
    BY <1>1, <2>1 DEF Synced
  <2> QED
    BY <1>4, <2>2, <2>3, AloneSaves DEF DeleteClient
<1>5. ASSUME NEW g \in Groups, CreateClientGroup(t, g) PROVE AloneInv'
  <2> DEFINE r == [at |-> "insert_group", group |-> g]
  <2>1. Goto(t, r) /\ UNCHANGED <<memory, tables>>
    BY <1>5 DEF CreateClientGroup
  <2>2. AloneAt(r)
    BY <1>1 DEF AloneAt, After, Saving
  <2> HIDE DEF r
  <2> QED
    BY <2>1, <2>2, AloneLook
<1>6. ASSUME NEW g \in Groups, DeleteClientGroup(t, g) PROVE AloneInv'
  <2>1. PICK n : n = Cardinality(DOMAIN clients)
    OBVIOUS
  <2> DEFINE r == [at |-> "scan", group |-> g, pos |-> 0, size |-> n]
  <2>2. Goto(t, r) /\ UNCHANGED <<memory, tables>>
    BY <1>6, <2>1 DEF DeleteClientGroup
  <2>3. \A k \in DOMAIN clients : ~(clients[k].pos <= 0)
    BY ClientsAreFinite, MaxObjectsBoundsMacs DEF ClientInv, Entries, Objects
  <2>4. AloneAt(r)
    BY <1>1, <2>3 DEF AloneAt, After, Saving
  <2> HIDE DEF r
  <2> QED
    BY <2>2, <2>4, AloneLook
<1> QED
  BY <1>2, <1>3, <1>4, <1>5, <1>6 DEF Request

LEMMA AloneFindGroup ==
    ASSUME Alone, ClientInv, AloneInv, NEW t \in Threads, FindGroup(t)
    PROVE  AloneInv'
<1>1. Synced
  BY DEF AloneInv, AloneAt, Before, FindGroup
<1>2. ThreadType(thread[t], DOMAIN heap)
  BY DEF ClientInv, ThreadsType
<1>3. PICK r : /\ Goto(t, r)
               /\ \/ r = Idle
                  \/ r = [thread[t] EXCEPT !.at = thread[t].op] /\ thread[t].group \in groups
  BY DEF FindGroup
<1>4. r = Idle \/ (r.at \in {"create", "update"} /\ r.group \in groups)
  BY <1>2, <1>3, AtType DEF FindGroup
<1>5. AloneAt(r)
  BY <1>1, <1>4 DEF AloneAt, After, Saving, Idle
<1> QED
  BY <1>3, <1>5, AloneLook DEF FindGroup

LEMMA AloneInsertClient ==
    ASSUME Alone, ClientInv, AloneInv, NEW t \in Threads, InsertClient(t)
    PROVE  AloneInv'
<1> DEFINE n == NextObject
<1>1. Synced /\ thread[t].group \in groups
  BY DEF AloneInv, AloneAt, Before, InsertClient
<1>2. PICK k, g, pos : /\ g \in groups
                       /\ heap' = Put(heap, n, [mac |-> k[1], group |-> g])
                       /\ clients' = Put(clients, k, [obj |-> n, pos |-> pos])
  BY <1>1 DEF InsertClient
<1>3. n \notin DOMAIN heap
  BY DEF ClientInv, HeapType, NextObject
<1>4. /\ heap'[n] = [mac |-> k[1], group |-> g]
      /\ \A i \in DOMAIN heap : heap'[i] = heap[i]
  BY <1>2, <1>3 DEF Put
<1>5. /\ DOMAIN clients' = DOMAIN clients \cup {k}
      /\ clients'[k] = [obj |-> n, pos |-> pos]
      /\ \A j \in DOMAIN clients \ {k} : clients'[j] = clients[j]
  BY <1>2 DEF Put
<1>6. UNCHANGED <<groups, clientTable, groupTable>>
  BY DEF InsertClient, tables
<1> HIDE DEF n
<1>7. ClientsHaveGroups'
  <2>1. \A j \in DOMAIN clients \ {k} : heap'[clients'[j].obj].group \in groups
    BY <1>4, <1>5 DEF AloneInv, GroupsInv, ClientsHaveGroups, ClientInv, ClientsType
  <2>2. heap'[clients'[k].obj].group \in groups
    <3>1. clients'[k].obj = n
      BY <1>5
    <3> QED
      BY <1>2, <1>4, <3>1
  <2> QED
    BY <1>5, <1>6, <2>1, <2>2 DEF ClientsHaveGroups
<1>8. GroupsInv'
  BY <1>6, <1>7 DEF AloneInv, GroupsInv, RowsHaveGroups, RowsKnown
<1>9. groupTable' = groups'
  BY <1>1, <1>6 DEF Synced
<1> QED
  BY <1>8, <1>9, AloneSaves DEF InsertClient

LEMMA AloneAssignGroup ==
    ASSUME Alone, ClientInv, AloneInv, NEW t \in Threads, AssignGroup(t)
    PROVE  AloneInv'
<1>1. Synced /\ thread[t].group \in groups
  BY DEF AloneInv, AloneAt, Before, AssignGroup
<1>2. PICK o, g : g \in groups /\ heap' = [heap EXCEPT ![o].group = g]
  BY <1>1 DEF AssignGroup
<1>3. UNCHANGED <<clients, groups, clientTable, groupTable>>
  BY DEF AssignGroup, tables
<1>4. heap \in [DOMAIN heap -> Clients]
  BY DictDef DEF ClientInv, HeapType
<1>5. \A i \in DOMAIN heap : heap'[i].group = heap[i].group \/ heap'[i].group = g
  BY <1>2, <1>4 DEF Clients
<1>6. ClientsHaveGroups'
  BY <1>2, <1>3, <1>5 DEF AloneInv, GroupsInv, ClientsHaveGroups, ClientInv, ClientsType
<1>7. GroupsInv'
  BY <1>3, <1>6 DEF AloneInv, GroupsInv, RowsHaveGroups, RowsKnown
<1>8. groupTable' = groups'
  BY <1>1, <1>3 DEF Synced
<1> QED
  BY <1>7, <1>8, AloneSaves DEF AssignGroup

\* A group that is removed has no client, so no row either.
LEMMA AloneGroupSteps ==
    ASSUME Alone, ClientInv, AloneInv, NEW t \in Threads, InsertGroup(t) \/ RemoveGroup(t)
    PROVE  AloneInv'
<1> DEFINE g == thread[t].group
<1>1. Synced /\ (thread[t].at = "remove_group" => \A k \in DOMAIN clients : GroupOf(k) # g)
  BY DEF AloneInv, AloneAt, Before, InsertGroup, RemoveGroup
<1>2. UNCHANGED <<clients, heap, clientTable, groupTable>>
  BY DEF InsertGroup, RemoveGroup, tables
<1>3. clientTable' = Rows(ClientList)'
  BY <1>1, <1>2, RowsFollowClients DEF Synced
<1>4. CASE InsertGroup(t)
  <2>1. GroupsInv'
    BY <1>2, <1>4 DEF AloneInv, GroupsInv, ClientsHaveGroups, RowsHaveGroups, RowsKnown, InsertGroup
  <2> QED
    BY <1>3, <1>4, <2>1, AloneSaves DEF InsertGroup
<1>5. CASE RemoveGroup(t) /\ g \in groups
  <2>1. groups' = groups \ {g} /\ \A k \in DOMAIN clients : GroupOf(k) # g
    BY <1>1, <1>5 DEF RemoveGroup
  <2>2. \A m \in DOMAIN clientTable : clientTable[m] # g
    BY <1>1, <2>1, RowsAreOfClients DEF Synced, ClientInv
  <2>3. GroupsInv'
    BY <1>2, <2>1, <2>2
       DEF AloneInv, GroupsInv, ClientsHaveGroups, RowsHaveGroups, RowsKnown, GroupOf
  <2> QED
    BY <1>3, <1>5, <2>3, AloneSaves DEF RemoveGroup
<1>6. CASE RemoveGroup(t) /\ g \notin groups
  <2>1. AloneAt(Idle)
    BY <1>1 DEF AloneAt, Idle, After, Saving
  <2> QED
    BY <1>6, <2>1, AloneLook DEF RemoveGroup, memory
<1> QED
  BY <1>4, <1>5, <1>6

\* The positions tell the clients apart: those up to the next one in the loop
\* are those looked at before and the next one itself.
LEMMA AloneScanClients ==
    ASSUME Alone, ClientInv, AloneInv, NEW t \in Threads, ScanClients(t)
    PROVE  AloneInv'
<1> DEFINE ahead == {e \in ClientList : e.pos > thread[t].pos}
           next == CHOOSE e \in ahead : \A f \in ahead : e.pos <= f.pos
<1>1. /\ thread[t] \in [at : {"scan"}, group : Groups, pos : Nat, size : Nat]
      /\ thread[t].at = "scan"
  BY AtType DEF ClientInv, ThreadsType, ScanClients
<1>2. /\ Synced
      /\ \A k \in DOMAIN clients :
            clients[k].pos <= thread[t].pos => GroupOf(k) # thread[t].group
  BY <1>1 DEF AloneInv, AloneAt, Before
<1>3. \A k \in DOMAIN clients :
        clients[k].pos \in Nat /\ clients[k] \in ClientList /\ clients[k] \in Entries
  BY ClientsAreFinite, MaxObjectsBoundsMacs DEF ClientInv, Entries, Objects, ClientList
<1>4. \A k \in DOMAIN clients : clients[k].pos <= thread[t].pos \/ clients[k] \in ahead
  BY <1>1, <1>3
<1>5. ahead # {} => next \in ahead /\ \A f \in ahead : next.pos <= f.pos
  <2>1. ahead \in SUBSET Entries
    BY ClientListType DEF ClientInv, Lists
  <2> SUFFICES ASSUME ahead # {}
               PROVE  next \in ahead /\ \A f \in ahead : next.pos <= f.pos
    OBVIOUS
  <2>2. \E e \in ahead : \A f \in ahead : e.pos <= f.pos
    BY <2>1, SmallestPos
  <2> QED
    BY <2>2
<1>6. /\ UNCHANGED <<memory, tables>>
      /\ \/ Goto(t, Idle)
         \/ ahead = {} /\ Goto(t, [at |-> "remove_group", group |-> thread[t].group])
         \/ /\ ahead # {} /\ heap[next.obj].group # thread[t].group
            /\ Goto(t, [thread[t] EXCEPT !.pos = next.pos])
  BY DEF ScanClients
<1> HIDE DEF next
<1>7. PICK r : /\ Goto(t, r)
               /\ \/ r = Idle
                  \/ ahead = {} /\ r = [at |-> "remove_group", group |-> thread[t].group]
                  \/ /\ ahead # {} /\ heap[next.obj].group # thread[t].group
                     /\ r = [thread[t] EXCEPT !.pos = next.pos]
  BY <1>6
<1>8. AloneAt(r)
  <2>1. CASE r = Idle
    BY <1>2, <2>1 DEF AloneAt, Idle, After, Saving
  <2>2. CASE ahead = {} /\ r = [at |-> "remove_group", group |-> thread[t].group]
    <3>1. \A k \in DOMAIN clients : GroupOf(k) # thread[t].group
      BY <1>2, <1>4, <2>2
    <3> QED
      BY <1>2, <2>2, <3>1 DEF AloneAt, After, Saving
  <2>3. CASE /\ ahead # {} /\ heap[next.obj].group # thread[t].group
             /\ r = [thread[t] EXCEPT !.pos = next.pos]
    <3>1. r.at = "scan" /\ r.pos = next.pos /\ r.group = thread[t].group
      BY <1>1, <2>3
    <3>2. PICK j \in DOMAIN clients : clients[j] = next
      BY <1>5, <2>3 DEF ClientList
    <3>3. ASSUME NEW k \in DOMAIN clients, clients[k].pos <= next.pos
          PROVE  GroupOf(k) # thread[t].group
      <4>1. CASE clients[k].pos <= thread[t].pos
        BY <1>2, <4>1
      <4>2. CASE clients[k] \in ahead
        <5>1. next.pos <= clients[k].pos
          BY <1>5, <4>2
        <5>2. clients[k].pos = clients[j].pos
          BY <1>3, <3>2, <3>3, <5>1
        <5>3. k = j
          BY <5>2 DEF ClientInv, ClientsType
        <5> QED
          BY <2>3, <3>2, <5>3 DEF GroupOf
      <4> QED
        BY <1>4, <4>1, <4>2
    <3> QED
      BY <1>2, <3>1, <3>3 DEF AloneAt, After, Saving
  <2> QED
    BY <1>7, <2>1, <2>2, <2>3
<1> QED
  BY <1>6, <1>7, <1>8, AloneLook

LEMMA AloneCopies ==
    ASSUME Alone, ClientInv, AloneInv, NEW t \in Threads, CopyClients(t) \/ CopyGroups(t)
    PROVE  AloneInv'
<1>1. AloneAt(thread[t]) /\ UNCHANGED <<memory, tables>>
  BY DEF AloneInv, CopyClients, CopyGroups, memory, tables
<1>2. CASE CopyClients(t)
  <2>1. PICK r : Goto(t, r) /\ r = [at |-> "copy_groups", list |-> ClientList]
    BY <1>2 DEF CopyClients
  <2>2. AloneAt(r)
    BY <1>1, <1>2, <2>1 DEF CopyClients, AloneAt, Before, After, Saving
  <2> QED
    BY <1>1, <2>1, <2>2, AloneLook
<1>3. CASE CopyGroups(t)
  <2>1. PICK r : /\ Goto(t, r)
                 /\ r = [at |-> "write_groups", list |-> thread[t].list, names |-> groups]
    BY <1>3 DEF CopyGroups
  <2>2. AloneAt(r)
    BY <1>1, <1>3, <2>1 DEF CopyGroups, AloneAt, Before, After, Saving
  <2> QED
    BY <1>1, <2>1, <2>2, AloneLook
<1> QED
  BY <1>2, <1>3

\* Both transactions write what memory holds, one of them what is there.
LEMMA AloneWrites ==
    ASSUME Alone, ClientInv, AloneInv, NEW t \in Threads, WriteGroups(t) \/ WriteClients(t)
    PROVE  AloneInv' /\ (tables' # tables => Synced')
<1>1. AloneAt(thread[t])
  BY DEF AloneInv
<1>2. UNCHANGED <<clients, groups, heap>>
  BY DEF WriteGroups, WriteClients, memory
<1>3. ClientList' = ClientList /\ Rows(ClientList)' = Rows(ClientList)
  BY <1>2, RowsFollowClients
<1>4. CASE WriteGroups(t)
  <2>1. PICK r : Goto(t, r) /\ r = [at |-> "write_clients", list |-> thread[t].list]
    BY <1>4 DEF WriteGroups
  <2>2. /\ thread[t].list = ClientList /\ thread[t].names = groups
        /\ groupTable = groups \/ clientTable = Rows(ClientList)
    BY <1>1, <1>4 DEF WriteGroups, AloneAt, After, Saving
  <2>3. groupTable' = groups' /\ clientTable' = clientTable
    BY <1>2, <1>4, <2>2 DEF WriteGroups
  <2>4. GroupsInv'
    BY <1>2, <2>3 DEF AloneInv, GroupsInv, ClientsHaveGroups, RowsHaveGroups, RowsKnown
  <2>5. AloneAt(r)'
    BY <1>3, <2>1, <2>2, <2>3 DEF AloneAt, Before, After, Saving
  <2>6. AloneInv'
    BY <2>1, <2>4, <2>5, AloneStep DEF ClientInv
  <2>7. tables' # tables => Synced'
    BY <1>2, <1>3, <2>2, <2>3 DEF tables, Synced
  <2> QED
    BY <2>6, <2>7
<1>5. CASE WriteClients(t)
  <2>1. thread[t].list = ClientList /\ groupTable = groups
    BY <1>1, <1>5 DEF WriteClients, AloneAt, Saving
  <2>2. clientTable' = Rows(ClientList) /\ groupTable' = groups'
    BY <1>2, <1>5, <2>1 DEF WriteClients
  <2>3. Synced'
    BY <1>3, <2>2 DEF Synced
  <2>4. \A m \in DOMAIN clientTable' : clientTable'[m] \in groups
    BY <2>2, RowsAreOfClients DEF AloneInv, GroupsInv, ClientsHaveGroups, GroupOf, ClientInv
  <2>5. GroupsInv'
    BY <1>2, <2>2, <2>4 DEF AloneInv, GroupsInv, ClientsHaveGroups, RowsHaveGroups, RowsKnown
  <2>6. AloneAt(Idle)'
    BY <2>3 DEF AloneAt, Idle, After, Saving
  <2>7. AloneInv'
    BY <1>5, <2>5, <2>6, AloneStep DEF ClientInv, WriteClients
  <2> QED
    BY <2>3, <2>7
<1> QED
  BY <1>4, <1>5

\* The rows of clients that are all of different MACs are one for each.
LEMMA RowsOfNumbered ==
    ASSUME NEW S, NEW o \in [S -> Nat], NEW h, NEW f,
           \A m \in S : h[o[m]] = [mac |-> m, group |-> f[m]]
    PROVE  RowsOf({[obj |-> o[m], pos |-> o[m]] : m \in S}, h) = [m \in S |-> f[m]]
<1> DEFINE E(m) == [obj |-> o[m], pos |-> o[m]]
           L == {E(m) : m \in S}
           Of(m) == {e \in L : h[e.obj].mac = m}
           First(m) == CHOOSE e \in Of(m) : \A x \in Of(m) : e.pos <= x.pos
           D == {h[e.obj].mac : e \in L}
<1>1. RowsOf(L, h) = [m \in D |-> h[First(m).obj].group]
  BY DEF RowsOf
<1>2. \A m \in S : E(m).obj = o[m] /\ E(m).pos = o[m] /\ h[E(m).obj].mac = m
                   /\ h[E(m).obj].group = f[m] /\ o[m] \in Nat
  <2> SUFFICES ASSUME NEW m \in S
               PROVE  /\ E(m).obj = o[m] /\ E(m).pos = o[m] /\ h[E(m).obj].mac = m
                      /\ h[E(m).obj].group = f[m] /\ o[m] \in Nat
    OBVIOUS
  <2>1. E(m).obj = o[m] /\ E(m).pos = o[m]
    OBVIOUS
  <2>2. h[o[m]] = [mac |-> m, group |-> f[m]]
    OBVIOUS
  <2>3. h[o[m]].mac = m /\ h[o[m]].group = f[m]
    <3> HIDE DEF E, L, Of, First, D
    <3> QED
      BY <2>2
  <2>4. o[m] \in Nat
    OBVIOUS
  <2>5. h[E(m).obj] = h[o[m]]
    BY <2>1
  <2> QED
    BY <2>1, <2>3, <2>4, <2>5
<1> HIDE DEF E
<1>3. D = S
  BY <1>2
<1>4. \A m \in S : Of(m) = {E(m)}
  BY <1>2
<1>5. \A m \in S : First(m) = E(m)
  <2> SUFFICES ASSUME NEW m \in S PROVE First(m) = E(m)
    OBVIOUS
  <2>1. \A x \in {E(m)} : E(m).pos <= x.pos
    BY <1>2
  <2>2. First(m) \in {E(m)}
    BY <1>4, <2>1
  <2> QED
    BY <2>2
<1> HIDE DEF First, D
<1>6. RowsOf(L, h) = [m \in S |-> f[m]]
  BY <1>1, <1>2, <1>3, <1>5
<1> QED
  BY <1>6 DEF E

\* A load brings back what the tables say.
LEMMA AloneRestart ==
    ASSUME Alone, ClientInv, AloneInv, Restart
    PROVE  AloneInv'
<1>1. /\ UNCHANGED <<clientTable, groupTable>>
      /\ \A t \in Threads : thread'[t] = Idle
  BY RestartThreads
<1> DEFINE saved == DOMAIN clientTable
           N == Cardinality(saved)
<1>2. Load /\ groups' = groupTable
  BY DEF Restart, LoadFails, Load, Alone
<1>3. PICK o \in [saved -> 1..N] :
        /\ \A m, n \in saved : o[m] = o[n] => m = n
        /\ clients' = [k \in saved \X {"canonical"} |-> [obj |-> o[k[1]], pos |-> o[k[1]]]]
        /\ \A m \in saved : heap'[o[m]] = [mac |-> m, group |-> clientTable[m]]
  BY <1>2, LoadedClients DEF ClientInv
<1> HIDE DEF saved, N
<1>4. /\ DOMAIN clients' = saved \X {"canonical"}
      /\ \A k \in DOMAIN clients' :
            k[1] \in saved /\ clients'[k] = [obj |-> o[k[1]], pos |-> o[k[1]]]
  BY <1>3
<1>5. \A m \in saved : <<m, "canonical">> \in DOMAIN clients'
  BY <1>4
<1>6. ClientList' = {[obj |-> o[m], pos |-> o[m]] : m \in saved}
  <2>1. ClientList' = {clients'[k] : k \in DOMAIN clients'}
    BY DEF ClientList
  <2>2. \A k \in DOMAIN clients' : \E m \in saved : clients'[k] = [obj |-> o[m], pos |-> o[m]]
    BY <1>4
  <2>3. \A m \in saved : \E k \in DOMAIN clients' : clients'[k] = [obj |-> o[m], pos |-> o[m]]
    <3> SUFFICES ASSUME NEW m \in saved
                 PROVE  \E k \in DOMAIN clients' : clients'[k] = [obj |-> o[m], pos |-> o[m]]
      OBVIOUS
    <3>1. <<m, "canonical">>[1] = m
      OBVIOUS
    <3>2. clients'[<<m, "canonical">>] = [obj |-> o[m], pos |-> o[m]]
      BY <1>4, <1>5, <3>1
    <3> QED
      BY <1>5, <3>2
  <2> QED
    BY <2>1, <2>2, <2>3
<1>7. Synced'
  <2>1. Rows(ClientList)' = RowsOf(ClientList', heap')
    BY DEF Rows, RowsOf
  <2>2. o \in [saved -> Nat]
    BY <1>3
  <2>3. RowsOf(ClientList', heap') = [m \in saved |-> clientTable[m]]
    <3>1. \A m \in saved : heap'[o[m]] = [mac |-> m, group |-> clientTable[m]]
      BY <1>3
    <3>2. RowsOf({[obj |-> o[m], pos |-> o[m]] : m \in saved}, heap')
            = [m \in saved |-> clientTable[m]]
      BY <2>2, <3>1, RowsOfNumbered
    <3> QED
      BY <1>6, <3>2
  <2>4. clientTable = [m \in saved |-> clientTable[m]]
    BY DictDef DEF ClientInv, TablesType, saved
  <2> QED
    BY <1>1, <1>2, <2>1, <2>3, <2>4 DEF Synced
<1>8. \A k \in DOMAIN clients' : heap'[clients'[k].obj].group \in groupTable
  <2> SUFFICES ASSUME NEW k \in DOMAIN clients', NEW m \in saved, k[1] = m
               PROVE  heap'[clients'[k].obj].group \in groupTable
    BY <1>4
  <2>1. clients'[k] = [obj |-> o[m], pos |-> o[m]]
    BY <1>4
  <2>2. heap'[o[m]] = [mac |-> m, group |-> clientTable[m]]
    BY <1>3
  <2>3. clientTable[m] \in groupTable
    BY DEF AloneInv, GroupsInv, RowsHaveGroups, saved
  <2> QED
    BY <2>1, <2>2, <2>3
<1>9. GroupsInv'
  BY <1>1, <1>2, <1>8 DEF AloneInv, GroupsInv, ClientsHaveGroups, RowsHaveGroups, RowsKnown
<1>10. AloneAt(Idle)'
  BY <1>7 DEF AloneAt, Idle, After, Saving
<1> QED
  BY <1>1, <1>9, <1>10 DEF AloneInv, AloneAt

-----------------------------------------------------------------------------
(* The invariant, and what it shows *)

LEMMA NoClientsNoRows ==
    ASSUME clients = EmptyDict
    PROVE  Rows(ClientList) = EmptyDict
<1>1. ClientList = {}
  BY EmptyDictProperties DEF ClientList
<1> QED
  BY <1>1 DEF Rows, EmptyDict

LEMMA AloneInit ==
    Init => AloneInv
<1> SUFFICES ASSUME Init PROVE AloneInv
  OBVIOUS
<1>1. DOMAIN clients = {} /\ DOMAIN clientTable = {}
  BY EmptyDictProperties DEF Init
<1>2. Rows(ClientList) = EmptyDict
  BY NoClientsNoRows DEF Init
<1>3. Synced
  BY <1>2 DEF Init, Synced
<1>4. GroupsInv
  BY <1>1 DEF GroupsInv, ClientsHaveGroups, RowsHaveGroups, RowsKnown
<1>5. AloneAt(Idle)
  BY <1>3 DEF AloneAt, Idle, After, Saving
<1> QED
  BY <1>4, <1>5 DEF Init, AloneInv

LEMMA AloneNext ==
    ASSUME Alone
    PROVE  ClientInv /\ AloneInv /\ [Next]_vars => AloneInv' /\ (tables' # tables => Synced')
<1> SUFFICES ASSUME ClientInv, AloneInv, [Next]_vars
             PROVE  AloneInv' /\ (tables' # tables => Synced')
  OBVIOUS
<1>1. CASE UNCHANGED vars
  <2>1. UNCHANGED <<memory, tables>> /\ thread' = thread
    BY <1>1 DEF vars
  <2>2. GroupsInv' /\ \A r : AloneAt(r) => AloneAt(r)'
    BY <2>1, AloneSame DEF AloneInv
  <2>3. \A t \in Threads : AloneAt(thread[t])'
    BY <2>1, <2>2 DEF AloneInv, AloneAt
  <2> QED
    BY <2>1, <2>2, <2>3 DEF AloneInv
<1>2. ASSUME NEW t \in Threads, Request(t) PROVE AloneInv' /\ tables' = tables
  BY <1>2, AloneRequest
     DEF Request, CreateClient, UpdateClient, DeleteClient, CreateClientGroup, DeleteClientGroup
<1>3. ASSUME NEW t \in Threads, Work(t)
      PROVE  AloneInv' /\ (tables' # tables => Synced')
  <2>1. CASE FindGroup(t)
    BY <2>1, AloneFindGroup DEF FindGroup
  <2>2. CASE InsertClient(t)
    BY <2>2, AloneInsertClient DEF InsertClient
  <2>3. CASE AssignGroup(t)
    BY <2>3, AloneAssignGroup DEF AssignGroup
  <2>4. CASE InsertGroup(t) \/ RemoveGroup(t)
    BY <2>4, AloneGroupSteps DEF InsertGroup, RemoveGroup
  <2>5. CASE ScanClients(t)
    BY <2>5, AloneScanClients DEF ScanClients
  <2>6. CASE CopyClients(t) \/ CopyGroups(t)
    BY <2>6, AloneCopies DEF CopyClients, CopyGroups
  <2>7. CASE WriteGroups(t) \/ WriteClients(t)
    BY <2>7, AloneWrites
  <2>8. ~SaveFails(t)
    BY DEF SaveFails, Alone
  <2> QED
    BY <1>3, <2>1, <2>2, <2>3, <2>4, <2>5, <2>6, <2>7, <2>8 DEF Work
<1>4. CASE Restart
  BY <1>4, AloneRestart DEF Restart
<1> QED
  BY <1>1, <1>2, <1>3, <1>4 DEF Next

LEMMA AloneInvariant ==
    ASSUME Alone
    PROVE  Spec => [](ClientInv /\ AloneInv)
<1>1. Init => ClientInv /\ AloneInv
  BY InitInv, AloneInit
<1>2. ClientInv /\ AloneInv /\ [Next]_vars => (ClientInv /\ AloneInv)'
  BY NextInv, AloneNext
<1> QED
  BY <1>1, <1>2, PTL DEF Spec

\* With one request at a time and no failure every client is in a group that
\* exists: the check of delete_client_group and its deletion are then one.
THEOREM AloneClientsHaveGroups ==
    ASSUME Alone
    PROVE  Spec => []ClientsHaveGroups
<1>1. ClientInv /\ AloneInv => ClientsHaveGroups
  BY DEF AloneInv, GroupsInv
<1> QED
  BY <1>1, AloneInvariant, PTL

\* The same of the tables, at any moment the process could die.
THEOREM AloneRowsHaveGroups ==
    ASSUME Alone
    PROVE  Spec => []RowsHaveGroups
<1>1. ClientInv /\ AloneInv => RowsHaveGroups
  BY DEF AloneInv, GroupsInv
<1> QED
  BY <1>1, AloneInvariant, PTL

\* With no request running the tables hold what memory holds.
THEOREM AloneSyncedAtRest ==
    ASSUME Alone
    PROVE  Spec => []SyncedAtRest
<1>1. ClientInv /\ AloneInv => SyncedAtRest
  <2> SUFFICES ASSUME AloneInv, \A t \in Threads : thread[t] = Idle PROVE Synced
    BY DEF SyncedAtRest
  <2>1. PICK t \in Threads : TRUE
    BY DEF Alone
  <2>2. AloneAt(thread[t]) /\ thread[t].at = "idle"
    BY DEF AloneInv, Idle
  <2> QED
    BY <2>2 DEF AloneAt, Before
<1> QED
  BY <1>1, AloneInvariant, PTL

-----------------------------------------------------------------------------
(* The refinement of ClientStore *)

\* A MAC whose clients, and their groups, are the same has the same row.
LEMMA SameRow ==
    ASSUME NEW L \in SUBSET Entries, NEW h, NEW M \in SUBSET Entries, NEW i, NEW x,
           ClientsOf(x, M, i) = ClientsOf(x, L, h),
           \A e \in ClientsOf(x, L, h) : i[e.obj].group = h[e.obj].group
    PROVE  /\ x \in DOMAIN RowsOf(M, i) <=> x \in DOMAIN RowsOf(L, h)
           /\ x \in DOMAIN RowsOf(L, h) => RowsOf(M, i)[x] = RowsOf(L, h)[x]
<1>1. x \in DOMAIN RowsOf(M, i) <=> x \in DOMAIN RowsOf(L, h)
  BY RowsOfProperties
<1>2. ASSUME x \in DOMAIN RowsOf(L, h) PROVE RowsOf(M, i)[x] = RowsOf(L, h)[x]
  <2>1. PICK e : e = FirstOf(ClientsOf(x, L, h))
    OBVIOUS
  <2>2. e \in ClientsOf(x, L, h) /\ RowsOf(L, h)[x] = h[e.obj].group
    BY <1>2, <2>1, RowsOfProperties
  <2>3. RowsOf(M, i)[x] = i[e.obj].group
    BY <1>1, <1>2, <2>1, RowsOfProperties
  <2> QED
    BY <2>2, <2>3
<1> QED
  BY <1>1, <1>2

\* The entries that are listed are of the dictionary.
LEMMA ListedClients ==
    ASSUME ClientsType
    PROVE  /\ ClientList \in SUBSET Entries
           /\ \A x : \A e \in ClientsOf(x, ClientList, heap) :
                \E k \in DOMAIN clients : e = clients[k] /\ k[1] = x
           /\ \A k \in DOMAIN clients : clients[k] \in ClientsOf(k[1], ClientList, heap)
<1>1. \A k \in DOMAIN clients : clients[k] \in Entries
  BY DictValue DEF ClientsType
<1> QED
  BY <1>1 DEF ClientList, ClientsOf, ClientsType

\* An operation that leaves the clients of all other MACs alone is a change of
\* one member: whichever spelling it is about, the MAC has then the group of
\* its first client, or is gone with its last.
LEMMA OneMemberChanges ==
    ASSUME Synced, ClientInv, ClientInv', AloneInv', NEW m \in Macs,
           UNCHANGED <<groups, tables>>,
           \A k : k[1] # m => /\ k \in DOMAIN clients' <=> k \in DOMAIN clients
                              /\ k \in DOMAIN clients => clients'[k] = clients[k],
           \A i \in DOMAIN heap : heap[i].mac # m => heap'[i] = heap[i]
    PROVE  Store!Next
<1>1. \A k : k[1] # m => /\ k \in DOMAIN clients' <=> k \in DOMAIN clients
                         /\ k \in DOMAIN clients => clients'[k] = clients[k]
  OBVIOUS
<1>2. \A k \in DOMAIN clients : k[1] # m => heap'[clients[k].obj] = heap[clients[k].obj]
  BY DEF ClientInv, ClientsType
<1> DEFINE R == RowsOf(ClientList, heap)
           S == RowsOf(ClientList', heap')
<1>3. Rows(ClientList) = R /\ Rows(ClientList)' = S
  BY DEF Rows, RowsOf
<1>4. ClientList \in SUBSET Entries /\ ClientList' \in SUBSET Entries
  <2>1. \A k \in DOMAIN clients' : clients'[k] \in Entries
    BY DictValue DEF ClientInv, ClientsType
  <2> QED
    BY <2>1, ListedClients DEF ClientInv, ClientList
<1>5. ASSUME NEW x, x # m
      PROVE  ClientsOf(x, ClientList', heap') = ClientsOf(x, ClientList, heap)
  <2>1. ASSUME NEW e \in ClientsOf(x, ClientList, heap)
        PROVE  e \in ClientsOf(x, ClientList', heap')
    <3>1. PICK k \in DOMAIN clients : e = clients[k] /\ k[1] = x
      BY ListedClients DEF ClientInv
    <3>2. k \in DOMAIN clients' /\ clients'[k] = e
      BY <1>1, <1>5, <3>1
    <3>3. heap'[e.obj].mac = x
      BY <3>1, <3>2 DEF ClientInv, ClientsType
    <3> QED
      BY <3>2, <3>3 DEF ClientsOf, ClientList
  <2>2. ASSUME NEW e \in ClientsOf(x, ClientList', heap')
        PROVE  e \in ClientsOf(x, ClientList, heap)
    <3>1. PICK k \in DOMAIN clients' : e = clients'[k]
      BY DEF ClientsOf, ClientList
    <3>2. k[1] = x
      BY <3>1 DEF ClientsOf, ClientInv, ClientsType
    <3>3. k \in DOMAIN clients /\ clients[k] = e
      BY <1>1, <1>5, <3>1, <3>2
    <3> QED
      BY <3>2, <3>3, ListedClients DEF ClientInv
  <2> QED
    BY <2>1, <2>2
<1>6. \A x : x # m => \A e \in ClientsOf(x, ClientList, heap) :
                            heap'[e.obj].group = heap[e.obj].group
  BY <1>2, ListedClients DEF ClientInv
<1>7. \A x : x # m => /\ x \in DOMAIN S <=> x \in DOMAIN R
                      /\ x \in DOMAIN R => S[x] = R[x]
  BY <1>4, <1>5, <1>6, SameRow
<1>8. R = [x \in DOMAIN R |-> R[x]] /\ S = [x \in DOMAIN S |-> S[x]]
  BY <1>4, RowsOfProperties
<1>9. m \in DOMAIN S => S[m] \in groups /\ S[m] \in Groups
  <2> SUFFICES ASSUME m \in DOMAIN S PROVE S[m] \in groups /\ S[m] \in Groups
    OBVIOUS
  <2>1. PICK e \in ClientList' : S[m] = heap'[e.obj].group
    <3>1. PICK e : e = FirstOf(ClientsOf(m, ClientList', heap'))
      OBVIOUS
    <3>2. e \in ClientsOf(m, ClientList', heap') /\ S[m] = heap'[e.obj].group
      BY <1>4, <3>1, RowsOfProperties
    <3> QED
      BY <3>2 DEF ClientsOf
  <2>2. PICK k \in DOMAIN clients' : e = clients'[k]
    BY DEF ClientList
  <2>3. heap'[e.obj].group \in groups'
    BY <2>2 DEF AloneInv, GroupsInv, ClientsHaveGroups
  <2> QED
    BY <2>1, <2>3 DEF ClientInv, TablesType
<1> HIDE DEF R, S
<1>10. /\ m \in DOMAIN S => S = Store!Put(R, m, S[m])
       /\ m \notin DOMAIN S => S = [x \in DOMAIN R \ {m} |-> R[x]]
  <2>1. CASE m \in DOMAIN S
    <3>1. DOMAIN S = DOMAIN R \cup {m}
      BY <1>7, <2>1
    <3>2. \A x \in DOMAIN S : S[x] = IF x = m THEN S[m] ELSE R[x]
      BY <1>7
    <3>3. S = [x \in DOMAIN R \cup {m} |-> IF x = m THEN S[m] ELSE R[x]]
      BY <1>8, <3>1, <3>2
    <3> QED
      BY <2>1, <3>3 DEF Store!Put
  <2>2. CASE m \notin DOMAIN S
    <3>1. DOMAIN S = DOMAIN R \ {m}
      BY <1>7, <2>2
    <3>2. \A x \in DOMAIN S : S[x] = R[x]
      BY <1>7, <2>2
    <3>3. S = [x \in DOMAIN R \ {m} |-> R[x]]
      BY <1>8, <3>1, <3>2
    <3> QED
      BY <2>2, <3>3
  <2> QED
    BY <2>1, <2>2
<1>11. Store!Assign(m, S[m]) \/ Store!Remove(m)
  BY <1>3, <1>9, <1>10 DEF Store!Assign, Store!Remove
<1>12. /\ <<groupTable, clientTable>> = <<groups, Rows(ClientList)>>
       /\ UNCHANGED <<groupTable, clientTable>>
  BY DEF Synced, tables
<1>13. Store!Assign(m, S[m]) => S[m] \in Groups
  BY DEF Store!Assign, ClientInv, TablesType
<1> QED
  BY <1>11, <1>12, <1>13 DEF Store!Next, Store!Change

\* Whoever has not changed anything yet finds durable what others have done.
LEMMA DurableBefore ==
    ASSUME AloneInv, NEW t \in Threads, thread[t].at \in Before
    PROVE  Synced
BY DEF AloneInv, AloneAt

\* What changes neither memory nor tables is nothing to the store.
LEMMA LookIsStutter ==
    ASSUME UNCHANGED <<memory, tables>>
    PROVE  UNCHANGED Store!vars
<1>1. UNCHANGED <<clients, groups, heap, clientTable, groupTable>>
  BY DEF memory, tables
<1> QED
  BY <1>1, RowsFollowClients DEF Store!vars

LEMMA InsertClientIsChange ==
    ASSUME ClientInv, ClientInv', AloneInv, AloneInv', NEW t \in Threads, InsertClient(t)
    PROVE  Store!Next
<1>1. Synced
  BY DurableBefore DEF InsertClient, Before
<1>2. thread[t] \in [at : {"create"}, op : {"create"}, key : Keys, group : Groups]
  BY AtType DEF ClientInv, ThreadsType, InsertClient
<1>3. PICK k \in Keys : k = thread[t].key
  BY <1>2
<1>4. PICK n, c, e : n = NextObject /\ heap' = Put(heap, n, c) /\ clients' = Put(clients, k, e)
  BY <1>3 DEF InsertClient
<1>5. n \notin DOMAIN heap
  BY <1>4 DEF ClientInv, HeapType, NextObject
<1>6. \A i \in DOMAIN heap : heap'[i] = heap[i]
  BY <1>4, <1>5 DEF Put
<1>7. /\ DOMAIN clients' = DOMAIN clients \cup {k}
      /\ \A j \in DOMAIN clients \ {k} : clients'[j] = clients[j]
  BY <1>4 DEF Put
<1>8. \A j : j[1] # k[1] => /\ j \in DOMAIN clients' <=> j \in DOMAIN clients
                            /\ j \in DOMAIN clients => clients'[j] = clients[j]
  BY <1>7
<1>9. k[1] \in Macs /\ UNCHANGED <<groups, tables>>
  BY DEF Keys, InsertClient
<1> QED
  BY <1>1, <1>6, <1>8, <1>9, OneMemberChanges

LEMMA AssignGroupIsChange ==
    ASSUME ClientInv, ClientInv', AloneInv, AloneInv', NEW t \in Threads, AssignGroup(t)
    PROVE  Store!Next
<1>1. Synced
  BY DurableBefore DEF AssignGroup, Before
<1>2. thread[t] \in [at : {"update"}, op : {"update"}, obj : DOMAIN heap, group : Groups]
  BY AtType DEF ClientInv, ThreadsType, AssignGroup
<1>3. PICK o \in DOMAIN heap, g \in Groups : heap' = [heap EXCEPT ![o].group = g]
  BY <1>2 DEF AssignGroup
<1>4. heap[o].mac \in Macs
  <2>1. heap[o] \in Clients
    BY DictValue DEF ClientInv, HeapType
  <2> QED
    BY <2>1 DEF Clients
<1>5. \A i \in DOMAIN heap : heap[i].mac # heap[o].mac => heap'[i] = heap[i]
  BY <1>3
<1>6. UNCHANGED <<clients, groups, tables>>
  BY DEF AssignGroup
<1> QED
  BY <1>1, <1>4, <1>5, <1>6, OneMemberChanges

LEMMA DeleteClientIsChange ==
    ASSUME ClientInv, ClientInv', AloneInv, AloneInv', NEW t \in Threads,
           NEW k \in Keys, DeleteClient(t, k)
    PROVE  Store!Next
<1>1. Synced
  BY DurableBefore DEF DeleteClient, Before, Idle
<1>2. /\ DOMAIN clients' = DOMAIN clients \ {k}
      /\ \A j \in DOMAIN clients \ {k} : clients'[j] = clients[j]
  BY DropValues DEF DeleteClient
<1>3. \A j : j[1] # k[1] => /\ j \in DOMAIN clients' <=> j \in DOMAIN clients
                            /\ j \in DOMAIN clients => clients'[j] = clients[j]
  BY <1>2
<1>4. k[1] \in Macs /\ UNCHANGED <<groups, heap, tables>>
  BY DEF Keys, DeleteClient
<1> QED
  BY <1>1, <1>3, <1>4, OneMemberChanges

\* A group that is removed has no member: the loop has looked at every client.
LEMMA GroupStepsAreChanges ==
    ASSUME ClientInv, AloneInv, NEW t \in Threads, InsertGroup(t) \/ RemoveGroup(t)
    PROVE  Store!Next \/ UNCHANGED Store!vars
<1> DEFINE g == thread[t].group
<1>1. Synced
  BY DurableBefore DEF InsertGroup, RemoveGroup, Before
<1>2. g \in Groups
  <2>1. thread[t] \in [at : {"insert_group", "remove_group"}, group : Groups]
    BY AtType DEF ClientInv, ThreadsType, InsertGroup, RemoveGroup
  <2> QED
    BY <2>1
<1>3. UNCHANGED <<clients, heap, clientTable, groupTable>>
  BY DEF InsertGroup, RemoveGroup, tables
<1>4. Rows(ClientList)' = Rows(ClientList)
  BY <1>3, RowsFollowClients
<1>5. <<groupTable, clientTable>> = <<groups, Rows(ClientList)>>
  BY <1>1 DEF Synced
<1>6. CASE InsertGroup(t)
  <2>1. Store!AddGroup(g)
    BY <1>4, <1>6 DEF InsertGroup, Store!AddGroup
  <2> QED
    BY <1>2, <1>3, <1>5, <2>1 DEF Store!Next, Store!Change
<1>7. CASE RemoveGroup(t) /\ g \in groups
  <2>1. groups' = groups \ {g} /\ \A k \in DOMAIN clients : GroupOf(k) # g
    BY <1>7 DEF RemoveGroup, AloneInv, AloneAt
  <2>2. \A m \in DOMAIN Rows(ClientList) : Rows(ClientList)[m] # g
    BY <2>1, RowsAreOfClients DEF ClientInv
  <2>3. Store!RemoveGroup(g)
    BY <1>4, <2>1, <2>2 DEF Store!RemoveGroup
  <2> QED
    BY <1>2, <1>3, <1>5, <2>3 DEF Store!Next, Store!Change
<1>8. CASE RemoveGroup(t) /\ g \notin groups
  BY <1>8, LookIsStutter DEF RemoveGroup, memory
<1> QED
  BY <1>6, <1>7, <1>8

\* Of the two transactions one changes nothing, the other everything.
LEMMA WritesAreSaves ==
    ASSUME Alone, ClientInv, AloneInv, NEW t \in Threads, WriteGroups(t) \/ WriteClients(t)
    PROVE  Store!Next \/ UNCHANGED Store!vars
<1>1. UNCHANGED <<clients, groups, heap>> /\ UNCHANGED memory
  BY DEF WriteGroups, WriteClients, memory
<1>2. Rows(ClientList)' = Rows(ClientList)
  BY <1>1, RowsFollowClients
<1>3. CASE tables' = tables
  BY <1>1, <1>3, LookIsStutter
<1>4. CASE tables' # tables
  <2>1. Synced'
    BY <1>4, AloneWrites
  <2>2. Store!Save
    BY <1>1, <1>2, <2>1 DEF Synced, Store!Save
  <2> QED
    BY <2>2 DEF Store!Next
<1> QED
  BY <1>3, <1>4

LEMMA RestartIsStoreRestart ==
    ASSUME Alone, AloneInv', Restart
    PROVE  Store!Next
<1>1. /\ UNCHANGED <<clientTable, groupTable>>
      /\ \A t \in Threads : thread'[t] = Idle
  BY RestartThreads
<1>2. Synced'
  <2>1. PICK t \in Threads : thread'[t] = Idle
    BY <1>1 DEF Alone
  <2>2. AloneAt(thread[t])'
    BY DEF AloneInv
  <2>3. thread'[t].at \in Before
    BY <2>1 DEF Idle, Before
  <2> QED
    BY <2>2, <2>3 DEF AloneAt
<1>3. Store!Restart
  BY <1>1, <1>2 DEF Synced, Store!Restart
<1> QED
  BY <1>3 DEF Store!Next

LEMMA StoreInit == Init => Store!Init
<1> SUFFICES ASSUME Init PROVE Store!Init
  OBVIOUS
<1>1. Rows(ClientList) = EmptyDict
  BY NoClientsNoRows DEF Init
<1>2. Store!EmptyDict = EmptyDict
  BY DEF Store!EmptyDict, EmptyDict
<1> QED
  BY <1>1, <1>2 DEF Init, Store!Init

LEMMA StoreNext ==
    ASSUME Alone
    PROVE  /\ ClientInv /\ AloneInv
           /\ (ClientInv /\ AloneInv)'
           /\ [Next]_vars
           => [Store!Next]_(Store!vars)
<1> SUFFICES ASSUME ClientInv, AloneInv, ClientInv', AloneInv', [Next]_vars
             PROVE  Store!Next \/ UNCHANGED Store!vars
  OBVIOUS
<1>1. CASE UNCHANGED vars
  BY <1>1, LookIsStutter DEF vars
<1>2. ASSUME NEW t \in Threads, Request(t) PROVE Store!Next \/ UNCHANGED Store!vars
  <2>1. CASE \E k \in Keys : DeleteClient(t, k)
    BY <2>1, DeleteClientIsChange
  <2>2. CASE UNCHANGED <<memory, tables>>
    BY <2>2, LookIsStutter
  <2> QED
    BY <1>2, <2>1, <2>2
       DEF Request, CreateClient, UpdateClient, CreateClientGroup, DeleteClientGroup
<1>3. ASSUME NEW t \in Threads, Work(t) PROVE Store!Next \/ UNCHANGED Store!vars
  <2>1. CASE InsertClient(t)
    BY <2>1, InsertClientIsChange
  <2>2. CASE AssignGroup(t)
    BY <2>2, AssignGroupIsChange
  <2>3. CASE InsertGroup(t) \/ RemoveGroup(t)
    BY <2>3, GroupStepsAreChanges
  <2>4. CASE WriteGroups(t) \/ WriteClients(t)
    BY <2>4, WritesAreSaves
  <2>5. CASE FindGroup(t) \/ ScanClients(t) \/ CopyClients(t) \/ CopyGroups(t)
    <3>1. UNCHANGED <<memory, tables>>
      BY <2>5 DEF FindGroup, ScanClients, CopyClients, CopyGroups
    <3> QED
      BY <3>1, LookIsStutter
  <2>6. ~SaveFails(t)
    BY DEF SaveFails, Alone
  <2> QED
    BY <1>3, <2>1, <2>2, <2>3, <2>4, <2>5, <2>6 DEF Work
<1>4. CASE Restart
  BY <1>4, RestartIsStoreRestart
<1> QED
  BY <1>1, <1>2, <1>3, <1>4 DEF Next

\* One request after another and no failure: objects, spellings, loops and two
\* transactions a save amount to groups with members, and to operations that
\* are durable as a whole, each before the next (Client_Manager and
\* ClientPersistence.save).
THEOREM AloneImplementsClientStore ==
    ASSUME Alone
    PROVE  Spec => ImplementsClientStore
<1>1. Init => Store!Init
  BY StoreInit
<1>2. /\ ClientInv /\ AloneInv
      /\ (ClientInv /\ AloneInv)'
      /\ [Next]_vars
      => [Store!Next]_(Store!vars)
  BY StoreNext
<1> QED
  BY <1>1, <1>2, AloneInvariant, PTL DEF Spec, ImplementsClientStore, Store!Spec

-----------------------------------------------------------------------------
(***************************************************************************)
(* Proofs about DeviceManager.                                             *)
(*                                                                         *)
(* A deletion and a save keep the devices at some positions.  All that is  *)
(* used of it is that each kept device comes from one position and each    *)
(* position gives one.  That an address has one answer before and after a  *)
(* restart is then that, among the devices with it, the first is kept.     *)
(***************************************************************************)

(* The order of the devices *)

\* A list of devices by its positions.
LEMMA Positions ==
    ASSUME NEW E, NEW ds \in Seq(E)
    PROVE  /\ Len(ds) \in Nat
           /\ DOMAIN ds = 1..Len(ds)
           /\ \A i \in DOMAIN ds : ds[i] \in E
BY LenProperties, ElementOfSeq

\* the positions of ps before i
Earlier(ps, i) == {j \in ps : j < i}

\* Positions are finitely many.
LEMMA PositionsAreFinite ==
    ASSUME NEW n \in Nat, NEW ps \in SUBSET (1..n)
    PROVE  IsFiniteSet(ps) /\ Cardinality(ps) \in Nat
<1>1. 1 \in Int /\ n \in Int
  OBVIOUS
<1>2. IsFiniteSet(1..n)
  BY <1>1, FS_Interval
<1>3. IsFiniteSet(ps)
  BY <1>2, FS_Subset
<1> QED
  BY <1>3, FS_CardinalityType

\* Before a position of ps there are fewer than all.
LEMMA EarlierIsFinite ==
    ASSUME NEW n \in Nat, NEW ps \in SUBSET (1..n), NEW i \in ps
    PROVE  /\ IsFiniteSet(Earlier(ps, i))
           /\ Cardinality(Earlier(ps, i)) \in 0..(Cardinality(ps) - 1)
<1>1. IsFiniteSet(ps) /\ Cardinality(ps) \in Nat
  BY PositionsAreFinite
<1>2. Earlier(ps, i) \subseteq ps \ {i}
  BY DEF Earlier
<1>3. IsFiniteSet(ps \ {i}) /\ Cardinality(ps \ {i}) = Cardinality(ps) - 1
  BY <1>1, FS_RemoveElement
<1>4. /\ IsFiniteSet(Earlier(ps, i))
      /\ Cardinality(Earlier(ps, i)) <= Cardinality(ps \ {i})
  BY <1>2, <1>3, FS_Subset
<1>5. Cardinality(Earlier(ps, i)) \in Nat
  BY <1>4, FS_CardinalityType
<1> QED
  BY <1>1, <1>3, <1>4, <1>5

\* A later position has more positions before it.
LEMMA EarlierGrows ==
    ASSUME NEW n \in Nat, NEW ps \in SUBSET (1..n),
           NEW i \in ps, NEW j \in ps, j < i
    PROVE  Cardinality(Earlier(ps, j)) < Cardinality(Earlier(ps, i))
<1>1. IsFiniteSet(ps) /\ Cardinality(ps) \in Nat
  BY PositionsAreFinite
<1>2. /\ IsFiniteSet(Earlier(ps, i))
      /\ Cardinality(Earlier(ps, i)) \in 0..(Cardinality(ps) - 1)
      /\ Cardinality(Earlier(ps, j)) \in 0..(Cardinality(ps) - 1)
  BY EarlierIsFinite
<1>3. j \in Earlier(ps, i)
  BY DEF Earlier
<1>4. Earlier(ps, j) \subseteq Earlier(ps, i) \ {j}
  <2> SUFFICES ASSUME NEW k \in ps, k < j PROVE k < i /\ k # j
    BY DEF Earlier
  <2>1. i \in Int /\ j \in Int /\ k \in Int
    OBVIOUS
  <2> QED
    BY <2>1
<1>5. /\ IsFiniteSet(Earlier(ps, i) \ {j})
      /\ Cardinality(Earlier(ps, i) \ {j}) = Cardinality(Earlier(ps, i)) - 1
  BY <1>2, <1>3, FS_RemoveElement
<1>6. Cardinality(Earlier(ps, j)) <= Cardinality(Earlier(ps, i) \ {j})
  BY <1>4, <1>5, FS_Subset
<1> QED
  BY <1>1, <1>2, <1>5, <1>6

\* Two positions with as many before them are one.
LEMMA EarlierDiffers ==
    ASSUME NEW n \in Nat, NEW ps \in SUBSET (1..n), NEW i \in ps, NEW j \in ps,
           Cardinality(Earlier(ps, i)) = Cardinality(Earlier(ps, j))
    PROVE  i = j
<1>1. Cardinality(ps) \in Nat
  BY PositionsAreFinite
<1>2. Cardinality(Earlier(ps, i)) \in 0..(Cardinality(ps) - 1)
  BY EarlierIsFinite
<1>3. Cardinality(Earlier(ps, i)) \in Int
  BY <1>1, <1>2
<1>4. ~(i < j) /\ ~(j < i)
  BY <1>3, EarlierGrows
<1>5. i \in Int /\ j \in Int
  OBVIOUS
<1> QED
  BY <1>4, <1>5

\* For each place of the result there is a position that goes there.
LEMMA PlacesAreTaken ==
    ASSUME NEW n \in Nat, NEW ps \in SUBSET (1..n), NEW r \in 1..Cardinality(ps)
    PROVE  \E i \in ps : Cardinality(Earlier(ps, i)) = r - 1
<1> DEFINE c == Cardinality(ps)
           place == [i \in ps |-> Cardinality(Earlier(ps, i))]
<1>1. IsFiniteSet(ps) /\ c \in Nat
  BY PositionsAreFinite
<1>2. place \in [ps -> 0..(c - 1)]
  BY EarlierIsFinite
<1>3. \A i, j \in ps : place[i] = place[j] => i = j
  BY EarlierDiffers
<1>4. place \in Injection(ps, 0..(c - 1))
  BY <1>2, <1>3 DEF Injection, IsInjective
<1>5. IsFiniteSet(0..(c - 1)) /\ Cardinality(0..(c - 1)) = c
  <2>1. 0 \in Int /\ c - 1 \in Int
    BY <1>1
  <2>2. /\ IsFiniteSet(0..(c - 1))
        /\ Cardinality(0..(c - 1)) = IF 0 > c - 1 THEN 0 ELSE (c - 1) - 0 + 1
    BY <2>1, FS_Interval
  <2> QED
    BY <1>1, <2>2
<1> HIDE DEF place
<1>6. place \in Surjection(ps, 0..(c - 1))
  BY <1>1, <1>4, <1>5, FS_Injection
<1>7. r - 1 \in 0..(c - 1)
  BY <1>1
<1>8. PICK i \in ps : place[i] = r - 1
  BY <1>6, <1>7 DEF Surjection
<1> QED
  BY <1>8 DEF place

\* What Kept returns: each device at a place of the result was at a position of
\* ps, and each position of ps has a place of its own.
LEMMA KeptProperties ==
    ASSUME NEW E, NEW ds \in Seq(E), NEW ps \in SUBSET DOMAIN ds
    PROVE  /\ Kept(ds, ps) \in Seq(E)
           /\ \E from \in [DOMAIN Kept(ds, ps) -> ps] :
                 /\ \A r \in DOMAIN Kept(ds, ps) : Kept(ds, ps)[r] = ds[from[r]]
                 /\ \A r, q \in DOMAIN Kept(ds, ps) : from[r] = from[q] => r = q
                 /\ \A i \in ps : \E r \in DOMAIN Kept(ds, ps) : from[r] = i
<1> DEFINE n == Len(ds)
           c == Cardinality(ps)
           from == [r \in 1..c |->
                      CHOOSE i \in ps : Cardinality(Earlier(ps, i)) = r - 1]
<1>1. n \in Nat /\ DOMAIN ds = 1..n /\ \A i \in DOMAIN ds : ds[i] \in E
  BY Positions
<1>2. ps \in SUBSET (1..n)
  BY <1>1
<1>3. c \in Nat
  BY <1>1, <1>2, PositionsAreFinite
<1>4. DOMAIN Kept(ds, ps) = 1..c
  BY DEF Kept
<1>5. \A r \in 1..c : from[r] \in ps /\ Cardinality(Earlier(ps, from[r])) = r - 1
  <2> SUFFICES ASSUME NEW r \in 1..c
               PROVE  from[r] \in ps /\ Cardinality(Earlier(ps, from[r])) = r - 1
    OBVIOUS
  <2>1. \E i \in ps : Cardinality(Earlier(ps, i)) = r - 1
    BY <1>1, <1>2, PlacesAreTaken
  <2> QED
    BY <2>1
<1>6. \A r \in 1..c : Kept(ds, ps)[r] = ds[from[r]]
  BY DEF Kept, Earlier
<1>7. from \in [1..c -> ps]
  BY <1>5
<1> HIDE DEF from
<1>8. \A r, q \in 1..c : from[r] = from[q] => r = q
  BY <1>3, <1>5
<1>9. \A i \in ps : \E r \in 1..c : from[r] = i
  <2> SUFFICES ASSUME NEW i \in ps PROVE \E r \in 1..c : from[r] = i
    OBVIOUS
  <2>1. Cardinality(Earlier(ps, i)) \in 0..(c - 1)
    BY <1>1, <1>2, EarlierIsFinite
  <2>2. PICK r \in 1..c : r = Cardinality(Earlier(ps, i)) + 1
    BY <1>3, <2>1
  <2>3. /\ from[r] \in ps
        /\ Cardinality(Earlier(ps, from[r])) = Cardinality(Earlier(ps, i))
    BY <1>3, <1>5, <2>1, <2>2
  <2>4. from[r] = i
    BY <1>1, <1>2, <2>3, EarlierDiffers
  <2> QED
    BY <2>4
<1>10. Kept(ds, ps) \in [1..c -> E]
  BY <1>1, <1>4, <1>5, <1>6 DEF Kept
<1>11. Kept(ds, ps) \in Seq(E)
  BY <1>3, <1>10, SeqDef
<1> DEFINE k == Kept(ds, ps)
<1>12. /\ DOMAIN k = 1..c
       /\ \A r \in 1..c : k[r] = ds[from[r]]
       /\ k \in Seq(E)
  BY <1>4, <1>6, <1>11
<1> HIDE DEF k, c
<1>13. /\ from \in [DOMAIN k -> ps]
       /\ \A r \in DOMAIN k : k[r] = ds[from[r]]
       /\ \A r, q \in DOMAIN k : from[r] = from[q] => r = q
       /\ \A i \in ps : \E r \in DOMAIN k : from[r] = i
  BY <1>7, <1>8, <1>9, <1>12
<1>14. \E f \in [DOMAIN k -> ps] :
          /\ \A r \in DOMAIN k : k[r] = ds[f[r]]
          /\ \A r, q \in DOMAIN k : f[r] = f[q] => r = q
          /\ \A i \in ps : \E r \in DOMAIN k : f[r] = i
  BY <1>13
<1> QED
  BY <1>12, <1>14 DEF k
\* Each kept device was there, and two kept devices stood apart.
LEMMA KeptKeeps ==
    ASSUME NEW E, NEW ds \in Seq(E), NEW ps \in SUBSET DOMAIN ds
    PROVE  /\ \A gs : InGroups(ds, gs) => InGroups(Kept(ds, ps), gs)
           /\ NamesDiffer(ds) => NamesDiffer(Kept(ds, ps))
<1> DEFINE k == Kept(ds, ps)
<1>1. PICK from \in [DOMAIN k -> ps] :
         /\ \A r \in DOMAIN k : k[r] = ds[from[r]]
         /\ \A r, q \in DOMAIN k : from[r] = from[q] => r = q
         /\ \A i \in ps : \E r \in DOMAIN k : from[r] = i
  BY KeptProperties
<1> HIDE DEF k
<1>2. \A r \in DOMAIN k : from[r] \in DOMAIN ds
  BY <1>1
<1>3. \A gs : InGroups(ds, gs) => InGroups(k, gs)
  BY <1>1, <1>2 DEF InGroups
<1>4. NamesDiffer(ds) => NamesDiffer(k)
  BY <1>1, <1>2 DEF NamesDiffer
<1> QED
  BY <1>3, <1>4 DEF k

-----------------------------------------------------------------------------
(* The device that answers for an address *)

\* If a device has the address, there is a first one.
LEMMA FirstExists ==
    ASSUME NEW E, NEW ds \in Seq(E), NEW ip, \E i \in DOMAIN ds : ds[i].ip = ip
    PROVE  \E i \in DOMAIN ds : ds[i].ip = ip /\ IsFirst(ds, i)
<1> DEFINE n == Len(ds)
           ps == {i \in 1..n : ds[i].ip = ip}
<1>1. n \in Nat /\ DOMAIN ds = 1..n
  BY Positions
<1>2. ps \in SUBSET (1..n) /\ ps # {}
  BY <1>1
<1>3. IsFiniteSet(ps) /\ Cardinality(ps) \in Nat
  BY <1>1, <1>2, PositionsAreFinite
<1>4. Cardinality(ps) # 0
  BY <1>2, <1>3, FS_EmptySet
<1>5. 1 \in 1..Cardinality(ps)
  BY <1>3, <1>4
<1>6. PICK i \in ps : Cardinality(Earlier(ps, i)) = 1 - 1
  BY <1>1, <1>2, <1>5, PlacesAreTaken
<1>7. IsFiniteSet(Earlier(ps, i))
  BY <1>1, <1>2, EarlierIsFinite
<1>8. Earlier(ps, i) = {}
  <2>1. Cardinality(Earlier(ps, i)) = 0
    BY <1>6
  <2> QED
    BY <1>7, <2>1, FS_EmptySet
<1>9. ASSUME NEW j \in 1..(i - 1) PROVE ds[j].ip # ds[i].ip
  <2>1. i \in 1..n /\ ds[i].ip = ip
    OBVIOUS
  <2>2. j \in 1..n /\ j < i
    BY <1>1, <2>1
  <2> QED
    BY <1>8, <2>1, <2>2 DEF Earlier
<1> QED
  BY <1>1, <1>9 DEF IsFirst

\* There is only one first.
LEMMA FirstIsOne ==
    ASSUME NEW E, NEW ds \in Seq(E), NEW i \in DOMAIN ds, NEW j \in DOMAIN ds,
           ds[i].ip = ds[j].ip, IsFirst(ds, i), IsFirst(ds, j)
    PROVE  i = j
<1>1. i \in Nat /\ j \in Nat /\ i >= 1 /\ j >= 1
  BY Positions
<1>2. ASSUME i < j PROVE FALSE
  <2>1. i \in 1..(j - 1)
    BY <1>1, <1>2
  <2> QED
    BY <2>1 DEF IsFirst
<1>3. ASSUME j < i PROVE FALSE
  <2>1. j \in 1..(i - 1)
    BY <1>1, <1>3
  <2> QED
    BY <2>1 DEF IsFirst
<1> QED
  BY <1>1, <1>2, <1>3

\* The rows of a save answer as the devices do: the device found first is the
\* one whose row is inserted.
LEMMA InsertedRowsAnswer ==
    ASSUME NEW E, NEW ds \in Seq(E), NEW ip
    PROVE  DeviceByIp(InsertedRows(ds), ip) = DeviceByIp(ds, ip)
<1> DEFINE ps == {i \in DOMAIN ds : IsFirst(ds, i)}
           k == Kept(ds, ps)
<1>1. InsertedRows(ds) = k
  BY DEF InsertedRows
<1>2. ps \in SUBSET DOMAIN ds /\ \A i \in ps : IsFirst(ds, i)
  OBVIOUS
<1>3. \A i \in DOMAIN ds : IsFirst(ds, i) => i \in ps
  OBVIOUS
<1> HIDE DEF ps
<1>4. k \in Seq(E)
  BY <1>2, KeptProperties
<1>5. PICK from \in [DOMAIN k -> ps] :
         /\ \A r \in DOMAIN k : k[r] = ds[from[r]]
         /\ \A r, q \in DOMAIN k : from[r] = from[q] => r = q
         /\ \A i \in ps : \E r \in DOMAIN k : from[r] = i
  BY <1>2, KeptProperties
<1> HIDE DEF k
<1>6. ASSUME NEW r \in DOMAIN k
      PROVE  k[r] = ds[from[r]] /\ from[r] \in DOMAIN ds /\ IsFirst(ds, from[r])
  BY <1>2, <1>5
<1>7. CASE \E i \in DOMAIN ds : ds[i].ip = ip
  <2>1. PICK i \in DOMAIN ds : ds[i].ip = ip /\ IsFirst(ds, i)
    BY <1>7, FirstExists
  <2>2. FirstWith(ds, ip) = ds[i]
    <3>1. \A j \in DOMAIN ds : ds[j].ip = ip /\ IsFirst(ds, j) => j = i
      BY <2>1, FirstIsOne
    <3> QED
      BY <2>1, <3>1 DEF FirstWith
  <2>3. PICK r \in DOMAIN k : from[r] = i
    BY <1>3, <1>5, <2>1
  <2>4. k[r] = ds[i] /\ k[r].ip = ip
    BY <1>6, <2>1, <2>3
  <2>5. PICK q \in DOMAIN k : k[q].ip = ip /\ IsFirst(k, q)
    BY <1>4, <2>4, FirstExists
  <2>6. FirstWith(k, ip) = k[q]
    <3>1. \A j \in DOMAIN k : k[j].ip = ip /\ IsFirst(k, j) => j = q
      BY <1>4, <2>5, FirstIsOne
    <3> QED
      BY <2>5, <3>1 DEF FirstWith
  <2>7. k[q] = ds[i]
    <3>1. k[q] = ds[from[q]] /\ from[q] \in DOMAIN ds /\ IsFirst(ds, from[q])
      BY <1>6, <2>5
    <3>2. from[q] = i
      BY <2>1, <2>5, <3>1, FirstIsOne
    <3> QED
      BY <3>1, <3>2
  <2>8. DeviceByIp(ds, ip) = ds[i]
    BY <1>7, <2>2 DEF DeviceByIp
  <2>9. DeviceByIp(k, ip) = ds[i]
    BY <2>5, <2>6, <2>7 DEF DeviceByIp
  <2> QED
    BY <1>1, <2>8, <2>9
<1>8. CASE ~\E i \in DOMAIN ds : ds[i].ip = ip
  <2>1. ~\E r \in DOMAIN k : k[r].ip = ip
    BY <1>6, <1>8
  <2> QED
    BY <1>1, <1>8, <2>1 DEF DeviceByIp
<1> QED
  BY <1>7, <1>8

-----------------------------------------------------------------------------
(* The inductive invariant *)

\* No row is there that is not one of the devices ds.
RowsAmong(ds) == \A i \in DOMAIN deviceTable : \E j \in DOMAIN ds : deviceTable[i] = ds[j]

\* The tables alone would make a manager: no two rows have one name, and the
\* groups of the rows are there, except between the two transactions of a save
\* that found memory ahead of the tables.  A save that found them equal has to
\* replace rows whose groups it keeps.  A restart starts from the tables.
DeviceTablesOK ==
    /\ NamesDiffer(deviceTable)
    /\ devicesSaved => RowsAmong(devices) /\ deviceGroupTable = deviceGroups
    /\ ~devicesTorn =>
        /\ ~(deviceStep = "save_devices" /\ behind) => InGroups(deviceTable, deviceGroupTable)
        /\ ~(deviceStep = "idle" \/ behind) => InGroups(deviceTable, deviceGroups)

\* Between the two transactions the groups are those of memory.
GroupsWritten == deviceStep = "save_devices" => deviceGroupTable = deviceGroups

DevicesInv ==
    /\ DevicesTypeOK
    /\ DevicesHaveGroups
    /\ AddressesSurviveRestart
    /\ DeviceTablesOK
    /\ GroupsWritten

LEMMA DeviceInitInv == DeviceInit => DevicesInv
<1> SUFFICES ASSUME DeviceInit PROVE DevicesInv
  OBVIOUS
<1>1. devices = <<>> /\ deviceGroups = {} /\ deviceTable = <<>> /\ deviceGroupTable = {}
  BY DEF DeviceInit
<1>2. <<>> \in Seq(Device) /\ DOMAIN <<>> = {}
  OBVIOUS
<1>3. DevicesTypeOK
  BY <1>1, <1>2 DEF DevicesTypeOK, NamesDiffer, DeviceInit
<1>4. DevicesHaveGroups /\ DeviceTablesOK
  BY <1>1, <1>2 DEF DevicesHaveGroups, DeviceTablesOK, RowsAmong, InGroups, NamesDiffer
<1>5. AddressesSurviveRestart
  BY <1>1 DEF AddressesSurviveRestart
<1>6. GroupsWritten
  BY DEF GroupsWritten, DeviceInit
<1> QED
  BY <1>3, <1>4, <1>5, <1>6 DEF DevicesInv

\* Rows that equal the devices have their groups while no save is under way.
LEMMA SavedRowsHaveGroups ==
    ASSUME DevicesInv, deviceStep = "idle", devicesSaved, ~devicesTorn
    PROVE  InGroups(deviceTable, deviceGroups) /\ RowsAmong(devices)
BY DEF DevicesInv, DeviceTablesOK

\* An operation may change the dictionaries to others that are sound, and leaves
\* the groups of the rows if they are the devices.
LEMMA BeginSaveInv ==
    ASSUME DevicesInv, BeginSave,
           devices' \in Seq(Device), NamesDiffer(devices'),
           deviceGroups' \subseteq DeviceGroups,
           ~devicesTorn => InGroups(devices', deviceGroups'),
           ~devicesTorn /\ devicesSaved => InGroups(deviceTable, deviceGroups')
    PROVE  DevicesInv'
<1>1. /\ deviceTable \in Seq(Device) /\ NamesDiffer(deviceTable)
      /\ deviceGroupTable \subseteq DeviceGroups
      /\ devicesSaved \in BOOLEAN /\ devicesTorn \in BOOLEAN
      /\ ~devicesTorn /\ deviceStep = "idle" => InGroups(deviceTable, deviceGroupTable)
  BY DEF DevicesInv, DevicesTypeOK, DeviceTablesOK
<1>2. /\ deviceStep = "idle" /\ deviceStep' = "save_groups"
      /\ behind' = ~devicesSaved /\ devicesSaved' = FALSE
      /\ deviceTable' = deviceTable /\ deviceGroupTable' = deviceGroupTable
      /\ devicesTorn' = devicesTorn
  BY DEF BeginSave, deviceTables
<1>3. behind' \in BOOLEAN
  BY <1>1, <1>2
<1>4. DevicesTypeOK'
  BY <1>1, <1>2, <1>3 DEF DevicesTypeOK
<1>5. DevicesHaveGroups' /\ AddressesSurviveRestart'
  BY <1>2 DEF DevicesHaveGroups, AddressesSurviveRestart
<1>6. DeviceTablesOK'
  BY <1>1, <1>2 DEF DeviceTablesOK
<1> QED
  BY <1>2, <1>4, <1>5, <1>6 DEF DevicesInv, GroupsWritten

\* The first transaction writes the groups memory has.
LEMMA SaveGroupsInv ==
    ASSUME DevicesInv, SaveGroups
    PROVE  DevicesInv'
<1>1. /\ deviceStep = "save_groups" /\ deviceStep' = "save_devices"
      /\ deviceGroupTable' = deviceGroups
      /\ devices' = devices /\ deviceGroups' = deviceGroups /\ deviceTable' = deviceTable
      /\ devicesSaved' = devicesSaved /\ behind' = behind /\ devicesTorn' = devicesTorn
  BY DEF SaveGroups, deviceMemory
<1>2. DevicesTypeOK'
  BY <1>1 DEF DevicesInv, DevicesTypeOK
<1>3. DevicesHaveGroups' /\ AddressesSurviveRestart'
  BY <1>1 DEF DevicesInv, DevicesHaveGroups, AddressesSurviveRestart
<1>4. DeviceTablesOK'
  BY <1>1 DEF DevicesInv, DeviceTablesOK, RowsAmong
<1> QED
  BY <1>1, <1>2, <1>3, <1>4 DEF DevicesInv, GroupsWritten

\* The second one writes the devices whose addresses are not there already.
LEMMA SaveDevicesInv ==
    ASSUME DevicesInv, SaveDevices
    PROVE  DevicesInv'
<1> DEFINE ps == {i \in DOMAIN devices : IsFirst(devices, i)}
<1>1. /\ deviceStep' = "idle" /\ devicesSaved' = TRUE /\ behind' = FALSE
      /\ deviceTable' = InsertedRows(devices)
      /\ devices' = devices /\ deviceGroups' = deviceGroups
      /\ deviceGroupTable' = deviceGroupTable /\ devicesTorn' = devicesTorn
      /\ deviceStep = "save_devices"
  BY DEF SaveDevices, deviceMemory
<1>2. /\ devices \in Seq(Device) /\ NamesDiffer(devices)
      /\ ~devicesTorn => InGroups(devices, deviceGroups)
  BY DEF DevicesInv, DevicesTypeOK, DevicesHaveGroups
<1>3. deviceGroupTable = deviceGroups
  BY <1>1 DEF DevicesInv, GroupsWritten
<1>4. deviceTable' = Kept(devices, ps)
  BY <1>1 DEF InsertedRows
<1>5. ps \in SUBSET DOMAIN devices
  OBVIOUS
<1> HIDE DEF ps
<1>6. /\ Kept(devices, ps) \in Seq(Device)
      /\ \A r \in DOMAIN Kept(devices, ps) : \E i \in ps : Kept(devices, ps)[r] = devices[i]
  BY <1>2, <1>5, KeptProperties
<1>7. /\ InGroups(devices, deviceGroups) => InGroups(Kept(devices, ps), deviceGroups)
      /\ NamesDiffer(devices) => NamesDiffer(Kept(devices, ps))
  BY <1>2, <1>5, KeptKeeps
<1>8. DevicesTypeOK'
  BY <1>1, <1>4, <1>6 DEF DevicesInv, DevicesTypeOK
<1>9. DevicesHaveGroups'
  BY <1>1, <1>2 DEF DevicesHaveGroups
<1>10. RowsAmong(devices)'
  BY <1>1, <1>4, <1>5, <1>6 DEF RowsAmong
<1>11. DeviceTablesOK'
  BY <1>1, <1>2, <1>3, <1>4, <1>7, <1>10 DEF DeviceTablesOK
<1>12. AddressesSurviveRestart'
  <2>1. \A ip : DeviceByIp(InsertedRows(devices), ip) = DeviceByIp(devices, ip)
    BY <1>2, InsertedRowsAnswer
  <2> QED
    BY <1>1, <2>1 DEF AddressesSurviveRestart
<1> QED
  BY <1>1, <1>3, <1>8, <1>9, <1>11, <1>12 DEF DevicesInv, GroupsWritten

\* A save that fails leaves the tables as they are.
LEMMA DeviceSaveFailsInv ==
    ASSUME DevicesInv, DeviceSaveFails
    PROVE  DevicesInv'
<1>1. /\ deviceStep' = "idle" /\ behind' = FALSE
      /\ devicesTorn' = (devicesTorn \/ (deviceStep = "save_devices" /\ behind))
      /\ devices' = devices /\ deviceGroups' = deviceGroups
      /\ deviceTable' = deviceTable /\ deviceGroupTable' = deviceGroupTable
      /\ devicesSaved' = devicesSaved
  BY DEF DeviceSaveFails, Cut, deviceMemory, deviceTables
<1>2. devicesTorn' \in BOOLEAN
  BY <1>1
<1>3. DevicesTypeOK'
  BY <1>1, <1>2 DEF DevicesInv, DevicesTypeOK
<1>4. DevicesHaveGroups' /\ AddressesSurviveRestart'
  BY <1>1 DEF DevicesInv, DevicesHaveGroups, AddressesSurviveRestart
<1>5. DeviceTablesOK' /\ GroupsWritten'
  BY <1>1 DEF DevicesInv, DeviceTablesOK, RowsAmong, GroupsWritten
<1> QED
  BY <1>3, <1>4, <1>5 DEF DevicesInv
-----------------------------------------------------------------------------
(* The operations *)

\* get_device finds the one device of that name.
LEMMA GetProperties ==
    ASSUME devices \in Seq(Device), NEW n \in Registered
    PROVE  /\ Get(n) \in Device /\ Get(n).name = n
           /\ \E i \in DOMAIN devices : Get(n) = devices[i]
<1>1. \E d \in {devices[i] : i \in DOMAIN devices} : d.name = n
  BY DEF Registered
<1>2. Get(n) \in {devices[i] : i \in DOMAIN devices} /\ Get(n).name = n
  BY <1>1 DEF Get
<1> QED
  BY <1>2, Positions

\* A device is replaced by one of its name, in a group that exists if the
\* groups of all of them do: no other device changes.
LEMMA ReplaceKeeps ==
    ASSUME DevicesInv, NEW d \in Device
    PROVE  /\ Replace(d) \in Seq(Device)
           /\ NamesDiffer(Replace(d))
           /\ ~devicesTorn /\ d.group \in deviceGroups => InGroups(Replace(d), deviceGroups)
<1>1. devices \in Seq(Device) /\ NamesDiffer(devices)
  BY DEF DevicesInv, DevicesTypeOK
<1>2. /\ Len(devices) \in Nat /\ DOMAIN devices = 1..Len(devices)
      /\ \A i \in DOMAIN devices : devices[i] \in Device
  BY <1>1, Positions
<1>3. /\ DOMAIN Replace(d) = DOMAIN devices
      /\ \A i \in DOMAIN devices :
            /\ Replace(d)[i] = IF devices[i].name = d.name THEN d ELSE devices[i]
            /\ Replace(d)[i].name = devices[i].name
  BY DEF Replace
<1>4. Replace(d) \in [1..Len(devices) -> Device]
  BY <1>2 DEF Replace
<1>5. Replace(d) \in Seq(Device)
  BY <1>2, <1>4, SeqDef
<1>6. NamesDiffer(Replace(d))
  BY <1>1, <1>3 DEF NamesDiffer
<1>7. ~devicesTorn /\ d.group \in deviceGroups => InGroups(Replace(d), deviceGroups)
  BY <1>3 DEF DevicesInv, DevicesHaveGroups, InGroups
<1> QED
  BY <1>5, <1>6, <1>7

\* create_device puts a device with a new name behind the others.
LEMMA CreateDeviceInv ==
    ASSUME DevicesInv, NEW n \in DeviceNames, NEW ip \in Ips \cup {BadIp},
           NEW g \in DeviceGroups,
           CreateDevice(n, ip, g)
    PROVE  DevicesInv'
<1> DEFINE d == [name |-> n, ip |-> ip, group |-> g]
           ds == Append(devices, d)
<1>1. /\ devices \in Seq(Device) /\ NamesDiffer(devices)
      /\ deviceGroups \subseteq DeviceGroups
      /\ ~devicesTorn => InGroups(devices, deviceGroups)
  BY DEF DevicesInv, DevicesTypeOK, DevicesHaveGroups
<1>2. /\ n \notin Registered /\ g \in deviceGroups
      /\ devices' = ds /\ deviceGroups' = deviceGroups
      /\ BeginSave /\ d \in Device
  BY DEF CreateDevice, Device
<1>3. /\ Len(devices) \in Nat /\ DOMAIN devices = 1..Len(devices)
      /\ \A i \in DOMAIN devices : devices[i] \in Device
  BY <1>1, Positions
<1>4. d.name = n /\ d.group = g
  OBVIOUS
<1> HIDE DEF d
<1>5. /\ ds \in Seq(Device) /\ DOMAIN ds = 1..(Len(devices) + 1)
      /\ ds[Len(devices) + 1] = d
      /\ \A i \in 1..Len(devices) : ds[i] = devices[i]
  BY <1>1, <1>2, <1>3, AppendProperties
<1>6. \A i \in DOMAIN ds : \/ i \in DOMAIN devices /\ ds[i] = devices[i]
                           \/ i = Len(devices) + 1 /\ ds[i] = d
  BY <1>3, <1>5
<1>7. \A i \in DOMAIN devices : devices[i].name # n
  BY <1>2 DEF Registered
<1> HIDE DEF ds
<1>8. NamesDiffer(ds)
  BY <1>1, <1>4, <1>6, <1>7 DEF NamesDiffer
<1>9. ~devicesTorn => InGroups(ds, deviceGroups)
  BY <1>1, <1>2, <1>4, <1>6 DEF InGroups
<1>10. ~devicesTorn /\ devicesSaved => InGroups(deviceTable, deviceGroups)
  <2>1. deviceStep = "idle"
    BY <1>2 DEF BeginSave
  <2> QED
    BY <2>1, SavedRowsHaveGroups
<1> QED
  BY <1>1, <1>2, <1>5, <1>8, <1>9, <1>10, BeginSaveInv

\* What update_device assigns is a device of that name in a group that exists.
LEMMA UpdateDeviceInv ==
    ASSUME DevicesInv, NEW n \in DeviceNames, NEW ip \in Ips \cup {BadIp, None},
           NEW g \in DeviceGroups \cup {None}, UpdateDevice(n, ip, g)
    PROVE  DevicesInv'
<1> DEFINE d == [name  |-> n,
                 ip    |-> IF ip = None THEN Get(n).ip ELSE ip,
                 group |-> IF g = None THEN Get(n).group ELSE g]
<1>1. /\ devices \in Seq(Device) /\ deviceGroups \subseteq DeviceGroups
      /\ devicesTorn \in BOOLEAN
      /\ ~devicesTorn => InGroups(devices, deviceGroups)
  BY DEF DevicesInv, DevicesTypeOK, DevicesHaveGroups
<1>2. /\ n \in Registered /\ ip # BadIp
      /\ g = None \/ g \in deviceGroups
      /\ devices' = Replace(d) /\ deviceGroups' = deviceGroups /\ BeginSave
  BY DEF UpdateDevice
<1>3. /\ Get(n) \in Device /\ Get(n).name = n
      /\ \E i \in DOMAIN devices : Get(n) = devices[i]
  BY <1>1, <1>2, GetProperties
<1>4. d \in Device
  BY <1>1, <1>2, <1>3 DEF Device
<1>5. ~devicesTorn => d.group \in deviceGroups
  <2>1. ~devicesTorn => Get(n).group \in deviceGroups
    BY <1>1, <1>3 DEF InGroups
  <2> QED
    BY <1>2, <2>1
<1> HIDE DEF d
<1>6. /\ Replace(d) \in Seq(Device) /\ NamesDiffer(Replace(d))
      /\ ~devicesTorn => InGroups(Replace(d), deviceGroups)
  BY <1>4, <1>5, ReplaceKeeps
<1>7. ~devicesTorn /\ devicesSaved => InGroups(deviceTable, deviceGroups)
  <2>1. deviceStep = "idle"
    BY <1>2 DEF BeginSave
  <2> QED
    BY <2>1, SavedRowsHaveGroups
<1> QED
  BY <1>1, <1>2, <1>6, <1>7, BeginSaveInv

\* A refused update_device leaves the new group, which exists, and tells the
\* tables nothing.
LEMMA UpdateDeviceRefusedInv ==
    ASSUME DevicesInv, NEW n \in DeviceNames, NEW g \in DeviceGroups,
           UpdateDeviceRefused(n, g)
    PROVE  DevicesInv'
<1> DEFINE d == [Get(n) EXCEPT !.group = g]
<1>1. devices \in Seq(Device) /\ devicesSaved \in BOOLEAN
  BY DEF DevicesInv, DevicesTypeOK
<1>2. /\ n \in Registered /\ g \in deviceGroups /\ devices' = Replace(d)
      /\ devicesSaved' = (devicesSaved /\ devices' = devices)
      /\ deviceGroups' = deviceGroups /\ deviceTables' = deviceTables
      /\ devicesTorn' = devicesTorn /\ deviceStep' = deviceStep /\ behind' = behind
      /\ deviceStep = "idle"
  BY DEF UpdateDeviceRefused
<1>3. Get(n) \in Device
  BY <1>1, <1>2, GetProperties
<1>4. d \in Device /\ d.group = g
  BY <1>3 DEF Device
<1> HIDE DEF d
<1>5. /\ Replace(d) \in Seq(Device) /\ NamesDiffer(Replace(d))
      /\ ~devicesTorn => InGroups(Replace(d), deviceGroups)
  BY <1>2, <1>4, ReplaceKeeps
<1>6. DevicesTypeOK'
  <2>1. devicesSaved' \in BOOLEAN
    BY <1>2
  <2> QED
    BY <1>2, <1>5, <2>1 DEF DevicesInv, DevicesTypeOK, deviceTables
<1>7. DevicesHaveGroups'
  BY <1>2, <1>5 DEF DevicesHaveGroups
<1>8. AddressesSurviveRestart'
  BY <1>2 DEF DevicesInv, AddressesSurviveRestart, deviceTables
<1>9. DeviceTablesOK' /\ GroupsWritten'
  BY <1>2 DEF DevicesInv, DeviceTablesOK, RowsAmong, GroupsWritten, deviceTables
<1> QED
  BY <1>6, <1>7, <1>8, <1>9 DEF DevicesInv

\* delete_device keeps the devices of the other names.
LEMMA DeleteDeviceInv ==
    ASSUME DevicesInv, NEW n \in DeviceNames, DeleteDevice(n)
    PROVE  DevicesInv'
<1> DEFINE ps == {i \in DOMAIN devices : devices[i].name # n}
           ds == Kept(devices, ps)
<1>1. /\ devices \in Seq(Device) /\ NamesDiffer(devices)
      /\ deviceGroups \subseteq DeviceGroups
      /\ ~devicesTorn => InGroups(devices, deviceGroups)
  BY DEF DevicesInv, DevicesTypeOK, DevicesHaveGroups
<1>2. devices' = ds /\ deviceGroups' = deviceGroups /\ BeginSave
  BY DEF DeleteDevice
<1>3. ps \in SUBSET DOMAIN devices
  OBVIOUS
<1> HIDE DEF ps
<1>4. ds \in Seq(Device)
  BY <1>1, <1>3, KeptProperties
<1>5. NamesDiffer(ds) /\ (~devicesTorn => InGroups(ds, deviceGroups))
  BY <1>1, <1>3, KeptKeeps
<1>6. ~devicesTorn /\ devicesSaved => InGroups(deviceTable, deviceGroups)
  <2>1. deviceStep = "idle"
    BY <1>2 DEF BeginSave
  <2> QED
    BY <2>1, SavedRowsHaveGroups
<1> QED
  BY <1>1, <1>2, <1>4, <1>5, <1>6, BeginSaveInv

\* create_device_group and delete_device_group change no device, and a group
\* with a device in it is not deleted.
LEMMA DeviceGroupsInv ==
    ASSUME DevicesInv, NEW g \in DeviceGroups,
           CreateDeviceGroup(g) \/ DeleteDeviceGroup(g)
    PROVE  DevicesInv'
<1>1. /\ devices \in Seq(Device) /\ NamesDiffer(devices)
      /\ deviceGroups \subseteq DeviceGroups
      /\ ~devicesTorn => InGroups(devices, deviceGroups)
  BY DEF DevicesInv, DevicesTypeOK, DevicesHaveGroups
<1>2. CASE CreateDeviceGroup(g)
  <2>1. deviceGroups' = deviceGroups \cup {g} /\ devices' = devices /\ BeginSave
    BY <1>2 DEF CreateDeviceGroup
  <2>3. ~devicesTorn /\ devicesSaved => InGroups(deviceTable, deviceGroups')
    BY <2>1, SavedRowsHaveGroups DEF InGroups, BeginSave
  <2>2. ~devicesTorn => InGroups(devices', deviceGroups')
    BY <1>1, <2>1 DEF InGroups
  <2> QED
    BY <1>1, <2>1, <2>2, <2>3, BeginSaveInv
<1>3. CASE DeleteDeviceGroup(g)
  <2>1. /\ deviceGroups' = deviceGroups \ {g} /\ devices' = devices /\ BeginSave
        /\ \A i \in DOMAIN devices : devices[i].group # g
    BY <1>3 DEF DeleteDeviceGroup
  <2>3. ~devicesTorn /\ devicesSaved => InGroups(deviceTable, deviceGroups')
    BY <2>1, SavedRowsHaveGroups DEF InGroups, RowsAmong, BeginSave
  <2>2. ~devicesTorn => InGroups(devices', deviceGroups')
    BY <1>1, <2>1 DEF InGroups
  <2> QED
    BY <1>1, <2>1, <2>2, <2>3, BeginSaveInv
<1> QED
  BY <1>2, <1>3

\* A restart takes the tables for the memory, or starts with nothing.
LEMMA RestartDevicesInv ==
    ASSUME DevicesInv, RestartDevices
    PROVE  DevicesInv'
<1>1. /\ deviceTable \in Seq(Device) /\ NamesDiffer(deviceTable)
      /\ deviceGroupTable \subseteq DeviceGroups
  BY DEF DevicesInv, DevicesTypeOK, DeviceTablesOK
<1>2. /\ deviceTable' = deviceTable /\ deviceGroupTable' = deviceGroupTable
      /\ deviceStep' = "idle" /\ behind' = FALSE
      /\ devicesTorn' = (devicesTorn \/ (deviceStep = "save_devices" /\ behind))
  BY DEF RestartDevices, Cut, deviceTables
<1>3. ~devicesTorn' => InGroups(deviceTable, deviceGroupTable)
  BY <1>2 DEF DevicesInv, DeviceTablesOK
<1>4. devicesTorn' \in BOOLEAN
  BY <1>2
<1>5. CASE /\ devices' = deviceTable /\ deviceGroups' = deviceGroupTable
           /\ devicesSaved' = TRUE
  <2>1. DevicesTypeOK'
    BY <1>1, <1>2, <1>4, <1>5 DEF DevicesTypeOK
  <2>2. DevicesHaveGroups' /\ AddressesSurviveRestart' /\ GroupsWritten'
    BY <1>2, <1>3, <1>5 DEF DevicesHaveGroups, AddressesSurviveRestart, GroupsWritten
  <2>3. DeviceTablesOK'
    BY <1>1, <1>2, <1>3, <1>5 DEF DeviceTablesOK, RowsAmong
  <2> QED
    BY <2>1, <2>2, <2>3 DEF DevicesInv
<1>6. CASE /\ devices' = <<>> /\ deviceGroups' = {} /\ devicesSaved' = FALSE
  <2>1. <<>> \in Seq(Device) /\ DOMAIN <<>> = {}
    OBVIOUS
  <2>2. DevicesTypeOK'
    BY <1>1, <1>2, <1>4, <1>6, <2>1 DEF DevicesTypeOK, NamesDiffer
  <2>3. DevicesHaveGroups' /\ AddressesSurviveRestart' /\ GroupsWritten'
    BY <1>2, <1>6, <2>1 DEF DevicesHaveGroups, AddressesSurviveRestart, GroupsWritten, InGroups
  <2>4. DeviceTablesOK'
    BY <1>1, <1>2, <1>3, <1>6 DEF DeviceTablesOK
  <2> QED
    BY <2>2, <2>3, <2>4 DEF DevicesInv
<1> QED
  BY <1>5, <1>6 DEF RestartDevices

LEMMA DeviceNextInv == DevicesInv /\ [DeviceNext]_deviceVars => DevicesInv'
<1> SUFFICES ASSUME DevicesInv, [DeviceNext]_deviceVars PROVE DevicesInv'
  OBVIOUS
<1>1. ASSUME NEW n \in DeviceNames, NEW ip \in Ips \cup {BadIp}, NEW g \in DeviceGroups,
             CreateDevice(n, ip, g)
      PROVE  DevicesInv'
  BY <1>1, CreateDeviceInv
<1>2. ASSUME NEW n \in DeviceNames, NEW ip \in Ips \cup {BadIp, None},
             NEW g \in DeviceGroups \cup {None}, UpdateDevice(n, ip, g)
      PROVE  DevicesInv'
  BY <1>2, UpdateDeviceInv
<1>3. ASSUME NEW n \in DeviceNames, NEW g \in DeviceGroups, UpdateDeviceRefused(n, g)
      PROVE  DevicesInv'
  BY <1>3, UpdateDeviceRefusedInv
<1>4. ASSUME NEW n \in DeviceNames, DeleteDevice(n)
      PROVE  DevicesInv'
  BY <1>4, DeleteDeviceInv
<1>5. ASSUME NEW g \in DeviceGroups, CreateDeviceGroup(g) \/ DeleteDeviceGroup(g)
      PROVE  DevicesInv'
  BY <1>5, DeviceGroupsInv
<1>6. CASE RestartDevices
  BY <1>6, RestartDevicesInv
<1>7. CASE UNCHANGED deviceVars
  BY <1>7 DEF DevicesInv, DevicesTypeOK, DevicesHaveGroups, AddressesSurviveRestart,
              DeviceTablesOK, RowsAmong, GroupsWritten, deviceVars, deviceMemory, deviceTables
<1>8. CASE SaveGroups \/ SaveDevices \/ DeviceSaveFails
  BY <1>8, SaveGroupsInv, SaveDevicesInv, DeviceSaveFailsInv
<1> QED
  BY <1>1, <1>2, <1>3, <1>4, <1>5, <1>6, <1>7, <1>8 DEF DeviceNext

LEMMA DevicesInvariant == DeviceSpec => []DevicesInv
BY DeviceInitInv, DeviceNextInv, PTL DEF DeviceSpec

\* No device has an address that does not parse, and names are unique, in
\* memory and in the rows (models.Device, Device_Manager.update_device).
THEOREM DevicesTypeCorrect == DeviceSpec => []DevicesTypeOK
<1>1. DevicesInv => DevicesTypeOK
  BY DEF DevicesInv
<1> QED
  BY <1>1, DevicesInvariant, PTL

\* Every device is in a group that exists, through updates that are refused half
\* way and a process that stops between the two transactions of a save, unless a
\* save is cut there that found memory ahead of the tables
\* (Device_Manager.delete_device_group, update_device, DevicePersistence.save).
THEOREM EveryDeviceHasItsGroup == DeviceSpec => []DevicesHaveGroups
<1>1. DevicesInv => DevicesHaveGroups
  BY DEF DevicesInv
<1> QED
  BY <1>1, DevicesInvariant, PTL

\* The device that answers for an address is the one that answers after a
\* restart (Device_Manager.get_device_by_ip, DevicePersistence.save_devices).
THEOREM SameDeviceAnswers == DeviceSpec => []AddressesSurviveRestart
<1>1. DevicesInv => AddressesSurviveRestart
  BY DEF DevicesInv
<1> QED
  BY <1>1, DevicesInvariant, PTL
==============================================================================
