-------------------------- MODULE ImportExportProofs --------------------------
(***************************************************************************)
(* Proofs about ImportExport for any names, groups, addresses and MACs and *)
(* any number of requests and rows.                                        *)
(*                                                                         *)
(* RoundTrip speaks of the end of an import.  The invariant says how the   *)
(* file came about (kind by kind from managers nobody changed, so that it  *)
(* names every group it needs and no entity twice), that an installation   *)
(* restored from it holds nothing else, in memory or in its tables, and    *)
(* which entities the import has brought so far: all of the kinds it is    *)
(* done with, and of the present kind those it has tried, but for the one  *)
(* it is at.  ImportKeepsWhatIsThere rests on what an operation still      *)
(* knows when it writes: the key it looked up is free unless the other     *)
(* thread has taken it since.  CsvCountsAreTrue rests on the snapshot: it  *)
(* has the MAC of every client, but for the one of the row at work.        *)
(***************************************************************************)
EXTENDS ImportExport, DictTheorems, FiniteSetTheorems

-----------------------------------------------------------------------------
(* Types *)

Fields(op) ==
    [what |-> op.what, kind |-> op.kind, key |-> op.key, value |-> op.value,
     step |-> op.step, stale |-> op.stale]

MemoryType ==
    /\ memory = [kind \in KindNames |-> memory[kind]]
    /\ tables = [kind \in KindNames |-> tables[kind]]
    /\ \A kind \in KindNames :
        memory[kind] \in Entities(kind) /\ tables[kind] \in Entities(kind)
    /\ groupIndex \in Dict(ClientGroups, PolicyNames)
    /\ doubtful \subseteq KindNames

WorkType ==
    /\ work = [t \in Threads |-> work[t]]
    /\ \A t \in Threads :
        /\ work[t] = Fields(work[t])
        /\ IF Busy(t) THEN OperationOK(work[t]) ELSE work[t] = AtRest

RequestsType ==
    /\ existing \in Dict(Macs, BOOLEAN)
    /\ before \subseteq Keys
    /\ counts \in [{"imported", "updated", "failed"} -> 0..MaxRows]
    /\ at \in {Idle, <<"csv", 1>>} \cup ({"export", "import"} \X (1..5))
    /\ changes \in 0..MaxChanges
    /\ quiet \in BOOLEAN /\ exact \in BOOLEAN
    /\ restoration \in {"none", "fresh", "done"}

LEMMA TypeOKParts ==
    MemoryType /\ WorkType /\ RequestsType => TypeOK
BY DEF TypeOK, MemoryType, WorkType, RequestsType

\* The two threads.
LEMMA ThreadsAre ==
    /\ "request" \in Threads /\ "other" \in Threads
    /\ Other("request") = "other" /\ Other("other") = "request"
    /\ \A t \in Threads : t = "request" \/ t = "other"
    /\ \A t \in Threads : Other(t) \in Threads /\ Other(t) # t /\ Other(Other(t)) = t
    /\ \A s, t \in Threads : s = t \/ s = Other(t)
BY DEF Threads, Other

LEMMA KindsAre ==
    /\ Kinds[1] = "device_groups" /\ Kinds[2] = "devices"
    /\ Kinds[3] = "client_groups" /\ Kinds[4] = "clients"
    /\ Kinds[5] = "policies"
    /\ \A i \in 1..5 : Kinds[i] \in KindNames
    /\ \A i, j \in 1..5 : Kinds[i] = Kinds[j] => i = j
    /\ \A kind \in KindNames : \E i \in 1..5 : Kinds[i] = kind
<1>1. Kinds[1] = "device_groups" /\ Kinds[2] = "devices"
      /\ Kinds[3] = "client_groups" /\ Kinds[4] = "clients"
      /\ Kinds[5] = "policies"
  BY DEF Kinds
<1>2. 1..5 = {1, 2, 3, 4, 5}
  OBVIOUS
<1>3. KindNames = {"device_groups", "client_groups", "devices", "clients", "policies"}
  BY DEF KindNames, Groups, Members
<1>4. \A i \in 1..5 : Kinds[i] \in KindNames
  BY <1>1, <1>2, <1>3
<1>5. \A kind \in KindNames : \E i \in 1..5 : Kinds[i] = kind
  BY <1>1, <1>2, <1>3
<1>6. \A i, j \in 1..5 : Kinds[i] = Kinds[j] => i = j
  BY <1>1, <1>2
<1> QED
  BY <1>1, <1>4, <1>5, <1>6

\* A request has one of four kinds; an export or an import is at one of five
\* kinds of entity.
LEMMA AtShape ==
    ASSUME RequestsType
    PROVE  /\ at[1] \in {"idle", "export", "import", "csv"}
           /\ Exporting \/ Importing => at[2] \in 1..5 /\ KindOf(at) \in KindNames
           /\ KindOf(at) = Kinds[at[2]]
           /\ at = Idle <=> at[1] = "idle"
BY KindsAre DEF RequestsType, Idle, Exporting, Importing, KindOf

-----------------------------------------------------------------------------
(* What a step of an operation does, field by field *)

\* Thread t has gone on, the other thread is where it was; what that one saw is
\* stale if t has touched the entry.
Went(t, value, step, touched) ==
    /\ work' = [s \in Threads |-> work'[s]]
    /\ \A s \in Threads : work'[s] = Fields(work'[s])
    /\ work'[t].what = work[t].what /\ work'[t].kind = work[t].kind
    /\ work'[t].key = work[t].key /\ work'[t].value = value
    /\ work'[t].step = step /\ work'[t].stale = work[t].stale
    /\ work'[Other(t)].what = work[Other(t)].what
    /\ work'[Other(t)].kind = work[Other(t)].kind
    /\ work'[Other(t)].key = work[Other(t)].key
    /\ work'[Other(t)].value = work[Other(t)].value
    /\ work'[Other(t)].step = work[Other(t)].step
    /\ work'[Other(t)].stale = (work[Other(t)].stale \/ touched)

\* The operation of the other thread is through.
Over ==
    /\ work' = [s \in Threads |-> work'[s]]
    /\ work'["other"] = AtRest /\ work'["request"] = work["request"]

LEMMA StaleIsBoolean ==
    ASSUME WorkType, NEW t \in Threads
    PROVE  work[t].stale \in BOOLEAN
<1>1. CASE Busy(t)
  BY <1>1 DEF WorkType, OperationOK
<1>2. CASE ~Busy(t)
  <2>1. work[t] = AtRest
    BY <1>2 DEF WorkType
  <2> QED
    BY <2>1 DEF AtRest
<1> QED
  BY <1>1, <1>2

LEMMA GoesWent ==
    ASSUME WorkType, NEW t \in Threads, NEW step, Goes(t, step)
    PROVE  Went(t, work[t].value, step, FALSE)
<1>1. work' = [work EXCEPT ![t] = [work[t] EXCEPT !.step = step]]
  BY DEF Goes
<1>2. work[t] = Fields(work[t]) /\ work[Other(t)] = Fields(work[Other(t)])
  BY ThreadsAre DEF WorkType
<1>3. work'[t] = [work[t] EXCEPT !.step = step] /\ work'[Other(t)] = work[Other(t)]
  BY <1>1, ThreadsAre DEF WorkType
<1>4. work' = [s \in Threads |-> work'[s]]
  BY <1>1 DEF WorkType
<1>5. work'[t] = [what |-> work[t].what, kind |-> work[t].kind, key |-> work[t].key,
                  value |-> work[t].value, step |-> step, stale |-> work[t].stale]
  BY <1>2, <1>3 DEF Fields
<1>6. \A s \in Threads : work'[s] = Fields(work'[s])
  BY <1>2, <1>3, <1>5, ThreadsAre DEF Fields
<1>7. work[Other(t)].stale \in BOOLEAN
  BY StaleIsBoolean, ThreadsAre
<1> QED
  BY <1>3, <1>4, <1>5, <1>6, <1>7 DEF Went

LEMMA TouchedWent ==
    ASSUME WorkType, NEW t \in Threads, NEW new, NEW value, NEW step, NEW touched,
           new = [what |-> work[t].what, kind |-> work[t].kind, key |-> work[t].key,
                  value |-> value, step |-> step, stale |-> work[t].stale],
           work' = [work EXCEPT ![t] = new, ![Other(t)].stale = @ \/ touched]
    PROVE  Went(t, value, step, touched)
<1> DEFINE o == Other(t)
<1>1. work' = [work EXCEPT ![t] = new, ![o].stale = @ \/ touched]
  OBVIOUS
<1>2. work[t] = Fields(work[t]) /\ work[o] = Fields(work[o])
  BY ThreadsAre DEF WorkType
<1>3. new = [what |-> work[t].what, kind |-> work[t].kind, key |-> work[t].key,
             value |-> value, step |-> step, stale |-> work[t].stale]
  OBVIOUS
<1>4. t \in Threads /\ o \in Threads /\ o # t
  BY ThreadsAre
<1> HIDE DEF o
<1>5. work'[t] = new
  BY <1>1, <1>4 DEF WorkType
<1>6. work'[o] = [work[o] EXCEPT !.stale = @ \/ touched]
  BY <1>1, <1>4 DEF WorkType
<1>7. work'[o] = [what |-> work[o].what, kind |-> work[o].kind, key |-> work[o].key,
                  value |-> work[o].value, step |-> work[o].step,
                  stale |-> (work[o].stale \/ touched)]
  BY <1>2, <1>6 DEF Fields
<1>8. work' = [s \in Threads |-> work'[s]]
  BY <1>1 DEF WorkType
<1>9. \A s \in Threads : s = t \/ s = o
  BY ThreadsAre DEF o
<1>10. work'[t] = Fields(work'[t])
  BY <1>3, <1>5 DEF Fields
<1>11. work'[o] = Fields(work'[o])
  BY <1>7 DEF Fields
<1>12. /\ work'[t].what = work[t].what /\ work'[t].kind = work[t].kind
       /\ work'[t].key = work[t].key /\ work'[t].value = value
       /\ work'[t].step = step /\ work'[t].stale = work[t].stale
  BY <1>3, <1>5
<1>13. /\ work'[o].what = work[o].what /\ work'[o].kind = work[o].kind
       /\ work'[o].key = work[o].key /\ work'[o].value = work[o].value
       /\ work'[o].step = work[o].step /\ work'[o].stale = (work[o].stale \/ touched)
  BY <1>7
<1> QED
  BY <1>8, <1>9, <1>10, <1>11, <1>12, <1>13 DEF Went, o

LEMMA GoesTouchingWent ==
    ASSUME WorkType, NEW t \in Threads, NEW step, NEW touched,
           GoesTouching(t, work[t], step, touched)
    PROVE  Went(t, work[t].value, step, touched)
<1>0. PICK a, b, c, d, e, f :
        work[t] = [what |-> a, kind |-> b, key |-> c, value |-> d, step |-> e, stale |-> f]
  BY DEF WorkType, Fields
<1>1. /\ work[t].what = a /\ work[t].kind = b /\ work[t].key = c
      /\ work[t].value = d /\ work[t].step = e /\ work[t].stale = f
  BY <1>0
<1>2. [work[t] EXCEPT !.step = step] =
        [what |-> a, kind |-> b, key |-> c, value |-> d, step |-> step, stale |-> f]
  BY <1>0
<1>3. work' = [work EXCEPT ![t] = [work[t] EXCEPT !.step = step],
                           ![Other(t)].stale = @ \/ touched]
  BY DEF GoesTouching
<1>4. PICK new : new = [what |-> a, kind |-> b, key |-> c, value |-> d, step |-> step,
                        stale |-> f]
  OBVIOUS
<1>5. new = [what |-> work[t].what, kind |-> work[t].kind, key |-> work[t].key,
             value |-> d, step |-> step, stale |-> work[t].stale]
  BY <1>1, <1>4
<1>6. work' = [work EXCEPT ![t] = new, ![Other(t)].stale = @ \/ touched]
  BY <1>2, <1>3, <1>4
<1> QED
  BY <1>1, <1>5, <1>6, TouchedWent

LEMMA GoesTouchingValueWent ==
    ASSUME WorkType, NEW t \in Threads, NEW value, NEW step, NEW touched,
           GoesTouching(t, [work[t] EXCEPT !.value = value], step, touched)
    PROVE  Went(t, value, step, touched)
<1>0. PICK a, b, c, d, e, f :
        work[t] = [what |-> a, kind |-> b, key |-> c, value |-> d, step |-> e, stale |-> f]
  BY DEF WorkType, Fields
<1>1. /\ work[t].what = a /\ work[t].kind = b /\ work[t].key = c
      /\ work[t].value = d /\ work[t].step = e /\ work[t].stale = f
  BY <1>0
<1>2. [[work[t] EXCEPT !.value = value] EXCEPT !.step = step] =
        [what |-> a, kind |-> b, key |-> c, value |-> value, step |-> step, stale |-> f]
  <2>1. PICK o : o = [work[t] EXCEPT !.value = value]
    OBVIOUS
  <2>2. o = [what |-> a, kind |-> b, key |-> c, value |-> value, step |-> e, stale |-> f]
    BY <1>0, <2>1
  <2>3. [o EXCEPT !.step = step] =
        [what |-> a, kind |-> b, key |-> c, value |-> value, step |-> step, stale |-> f]
    BY <2>2
  <2> QED
    BY <2>1, <2>3
<1>3. work' = [work EXCEPT ![t] = [[work[t] EXCEPT !.value = value] EXCEPT !.step = step],
                           ![Other(t)].stale = @ \/ touched]
  BY DEF GoesTouching
<1>4. PICK new : new = [what |-> a, kind |-> b, key |-> c, value |-> value, step |-> step,
                        stale |-> f]
  OBVIOUS
<1>5. new = [what |-> work[t].what, kind |-> work[t].kind, key |-> work[t].key,
             value |-> value, step |-> step, stale |-> work[t].stale]
  BY <1>1, <1>4
<1>6. work' = [work EXCEPT ![t] = new, ![Other(t)].stale = @ \/ touched]
  BY <1>2, <1>3, <1>4
<1> QED
  BY <1>1, <1>5, <1>6, TouchedWent

LEMMA EndedWent ==
    ASSUME WorkType, NEW t \in Threads, NEW result,
           work' = [work EXCEPT ![t] = Ended(t, result)]
    PROVE  /\ t = "request" => Went(t, work[t].value, result, FALSE)
           /\ t = "other" => Over
<1>1. CASE t = "request"
  <2>1. Goes(t, result)
    BY <1>1 DEF Ended, Goes
  <2> QED
    BY <1>1, <2>1, GoesWent
<1>2. CASE t = "other"
  BY <1>2, ThreadsAre DEF Ended, Over, WorkType
<1> QED
  BY <1>1, <1>2, ThreadsAre

-----------------------------------------------------------------------------
(* The invariant *)

NamesOf(kind) == IF kind = "clients" THEN Macs ELSE KeysOf(kind)

FileType ==
    /\ file = [kind \in KindNames |-> file[kind]]
    /\ \A kind \in KindNames : file[kind] \subseteq NamesOf(kind) \X ObjectsOf(kind)
    /\ Importing => left \subseteq file[KindOf(at)]

\* Only imports work on the thread of the request.  A JSON import creates what
\* the file says; a CSV import creates clients that are not in its snapshot and
\* updates clients that are.
RequestWork ==
    /\ ~Importing /\ ~ReadingCsv => ~Busy("request")
    /\ Importing /\ Busy("request") =>
        /\ work["request"].what = "create" /\ work["request"].kind = KindOf(at)
        /\ \E e \in file[KindOf(at)] :
            /\ work["request"].key = KeyOf(KindOf(at), e)
            /\ work["request"].value = e[2]
    /\ ReadingCsv /\ Busy("request") =>
        /\ RowsLeft
        /\ work["request"].kind = "clients"
        /\ \/ /\ work["request"].what = "create"
              /\ work["request"].key[1] \notin DOMAIN existing
           \/ /\ work["request"].what = "update"
              /\ work["request"].key[1] \in DOMAIN existing

\* Nothing but the one deletion removes an entry.
DeleteSees ==
    work["other"].what = "delete" /\ work["other"].step \in {"check", "write"} =>
        work["other"].key \in DOMAIN memory[work["other"].kind]

\* An undisturbed request and a restoration are alone.
Alone ==
    /\ quiet /\ at[1] # "idle" => ~Busy("other")
    /\ restoration # "none" =>
        /\ ~Busy("other") /\ doubtful = {} /\ exact
        /\ at[1] \in {"idle", "import"}

BaseInv ==
    /\ MemoryType /\ WorkType /\ RequestsType /\ FileType
    /\ RequestWork /\ DeleteSees /\ Alone

\* A file that names every group it needs and nothing twice, but for clients,
\* and no policies of one client group.
Consistent(f) ==
    /\ \A kind \in Members : \A e \in f[kind] :
        \E h \in f[GroupsOf(kind)] : h[1] = e[2].group
    /\ \A kind \in KindNames \ {"clients"} : \A d, e \in f[kind] : d[1] = e[1] => d = e
    /\ \A d, e \in f["policies"] : d[2].group = e[2].group => d = e

FileIsSnapshot ==
    /\ Exporting /\ quiet => \A i \in 1..5 : i < at[2] => file[Kinds[i]] = Listed(Kinds[i])
    /\ Exporting => ~exact
    /\ exact => Consistent(file)

\* every entry of the dictionary is one of the file
IsFrom(d, kind) ==
    \A k \in DOMAIN d : \E e \in file[kind] : k = KeyOf(kind, e) /\ d[k] = e[2]

FromFile ==
    restoration # "none" =>
        /\ \A kind \in KindNames : IsFrom(memory[kind], kind) /\ IsFrom(tables[kind], kind)
        /\ \A g \in DOMAIN groupIndex :
            /\ groupIndex[g] \in DOMAIN memory["policies"]
            /\ memory["policies"][groupIndex[g]].group = g

There(kind, e) ==
    /\ KeyOf(kind, e) \in DOMAIN memory[kind]
    /\ kind = "policies" => e[2].group \in DOMAIN groupIndex

\* the import is at this entity
IsAt(e) ==
    /\ Working("request")
    /\ work["request"].key = KeyOf(KindOf(at), e) /\ work["request"].value = e[2]

ImportProgress ==
    Importing /\ restoration # "none" =>
        /\ \A i \in 1..5 : i < at[2] => \A e \in file[Kinds[i]] : There(Kinds[i], e)
        /\ \A e \in file[KindOf(at)] \ left : There(KindOf(at), e) \/ IsAt(e)
        /\ \A e \in file[KindOf(at)] : IsAt(e) =>
            /\ work["request"].step = "check" => KindOf(at) \in Members
            /\ work["request"].step = "second" => e[1] \in DOMAIN memory["policies"]
            /\ work["request"].step = "save" => There(KindOf(at), e)

Complete ==
    restoration = "done" => \A kind \in KindNames : \A e \in file[kind] : There(kind, e)

RestoreInv == FileIsSnapshot /\ FromFile /\ ImportProgress /\ Complete

\* The key an operation has found free is free until it takes it, unless what it
\* saw is stale.
FreeFor(op) ==
    op.what = "create" =>
        /\ op.kind # "policies" /\ op.step \in {"check", "write"} =>
            op.stale \/ op.key \notin DOMAIN memory[op.kind]
        /\ op.kind = "policies" /\ op.step \in {"check", "write", "second"} =>
            op.stale \/ op.value.group \notin DOMAIN groupIndex

KeyFree == \A t \in Threads : FreeFor(work[t])

\* a row's client is registered and not yet counted
Inserted ==
    /\ work["request"].what = "create"
    /\ work["request"].step \in {"save", "done"}

MacsOf(keys) == {k[1] : k \in keys}

\* The snapshot has the MAC of every client, but for the one of this row.
CsvInv ==
    ReadingCsv /\ quiet =>
        /\ before \subseteq DOMAIN memory["clients"]
        /\ Cardinality(DOMAIN memory["clients"]) =
                Cardinality(before) + counts.imported + (IF Inserted THEN 1 ELSE 0)
        /\ MacsOf(DOMAIN memory["clients"]) =
                DOMAIN existing \cup (IF Inserted THEN {work["request"].key[1]} ELSE {})
        /\ \A j \in DOMAIN memory["clients"] \ before, k \in DOMAIN memory["clients"] :
                j[1] = k[1] => j = k

ImportInv == BaseInv /\ RestoreInv /\ KeyFree /\ CsvInv

-----------------------------------------------------------------------------
(* What the operations do to memory and to the threads *)

Unsaved == UNCHANGED <<groupIndex, tables, doubtful>>

\* One dictionary changes.
LEMMA OneDict ==
    ASSUME MemoryType, NEW kind \in KindNames, NEW d, memory' = [memory EXCEPT ![kind] = d]
    PROVE  /\ memory' = [k \in KindNames |-> memory'[k]]
           /\ memory'[kind] = d
           /\ \A k \in KindNames : k # kind => memory'[k] = memory[k]
BY DEF MemoryType

\* The thread that has not touched the other's entry leaves it alone.
LEMMA OtherKept ==
    ASSUME WorkType, NEW t \in Threads, NEW value, NEW step, NEW touched,
           Went(t, value, step, touched), ~touched
    PROVE  work'[Other(t)] = work[Other(t)]
<1> DEFINE o == Other(t)
<1>1. o \in Threads
  BY ThreadsAre
<1>2. work[o].stale \in BOOLEAN
  BY <1>1, StaleIsBoolean
<1>3. work'[o] = Fields(work'[o]) /\ work[o] = Fields(work[o])
  BY <1>1 DEF Went, WorkType
<1>4. /\ work'[o].what = work[o].what /\ work'[o].kind = work[o].kind
      /\ work'[o].key = work[o].key /\ work'[o].value = work[o].value
      /\ work'[o].step = work[o].step /\ work'[o].stale = (work[o].stale \/ touched)
  BY DEF Went
<1>5. work'[o].stale = work[o].stale
  BY <1>2, <1>4
<1>6. Fields(work'[o]) = Fields(work[o])
  BY <1>4, <1>5 DEF Fields
<1> QED
  BY <1>3, <1>6

\* Where an operation can be after a step.
LEMMA WentType ==
    ASSUME WorkType, NEW t \in Threads, NEW value, NEW step, NEW touched,
           Busy(t), Went(t, value, step, touched), touched => Busy(Other(t)),
           touched \in BOOLEAN,
           step \in {"check", "write", "second", "save", "done", "failed"},
           step = "second" => AfterWrite(work[t]) = "second",
           work[t].what = "create" => value \in ObjectsOf(work[t].kind),
           work[t].what = "update" => value \in Changes(work[t].kind),
           work[t].what = "delete" => value \in {NoObject} \cup ObjectsOf(work[t].kind)
    PROVE  WorkType' /\ Busy(t)' /\ (Busy(Other(t))' <=> Busy(Other(t)))
<1>1. OperationOK(work[t])
  BY DEF WorkType
<1>2. work[t].stale \in BOOLEAN /\ work[Other(t)].stale \in BOOLEAN
  BY StaleIsBoolean, ThreadsAre
<1>3. OperationOK(work'[t])
  BY <1>1, <1>2 DEF OperationOK, Went, AfterWrite
<1>4. Busy(t)'
  BY DEF Busy, Went
<1>5. Busy(Other(t))' <=> Busy(Other(t))
  BY DEF Busy, Went
<1>6. ASSUME Busy(Other(t)) PROVE OperationOK(work'[Other(t)])
  <2>1. OperationOK(work[Other(t)])
    BY <1>6, ThreadsAre DEF WorkType
  <2>2. work'[Other(t)].stale \in BOOLEAN
    BY <1>2 DEF Went
  <2> QED
    BY <2>1, <2>2 DEF OperationOK, Went, AfterWrite
<1>7. ASSUME ~Busy(Other(t)) PROVE work'[Other(t)] = AtRest
  <2>1. work[Other(t)] = AtRest
    BY <1>7, ThreadsAre DEF WorkType
  <2>2. ~touched
    BY <1>7
  <2> QED
    BY <2>1, <2>2, OtherKept
<1>8. work' = [s \in Threads |-> work'[s]] /\ \A s \in Threads : work'[s] = Fields(work'[s])
  BY DEF Went
<1>9. \A s \in Threads : s = t \/ s = Other(t)
  BY ThreadsAre
<1>10. \A s \in Threads : IF Busy(s)' THEN OperationOK(work'[s]) ELSE work'[s] = AtRest
  BY <1>3, <1>4, <1>5, <1>6, <1>7, <1>9
<1> QED
  BY <1>4, <1>5, <1>8, <1>10 DEF WorkType, Busy, OperationOK

LEMMA AtRestFields == AtRest = Fields(AtRest) /\ AtRest.step = "none"
BY DEF AtRest, Fields

LEMMA OverType ==
    ASSUME WorkType, Over
    PROVE  WorkType' /\ ~Busy("other")' /\ (Busy("request")' <=> Busy("request"))
<1>1. work'["other"] = AtRest /\ work'["request"] = work["request"]
  BY DEF Over
<1>2. ~Busy("other")' /\ (Busy("request")' <=> Busy("request"))
  BY <1>1, AtRestFields DEF Busy
<1>3. \A s \in Threads : s = "request" \/ s = "other"
  BY ThreadsAre
<1>4. \A s \in Threads : work'[s] = Fields(work'[s])
  BY <1>1, <1>3, AtRestFields, ThreadsAre DEF WorkType
<1>5. "request" \in Threads
  BY ThreadsAre
<1>6. IF Busy("request")' THEN OperationOK(work["request"]) ELSE work["request"] = AtRest
  BY <1>2, <1>5 DEF WorkType
<1>7. \A s \in Threads : IF Busy(s)' THEN OperationOK(work'[s]) ELSE work'[s] = AtRest
  BY <1>1, <1>2, <1>3, <1>6
<1>8. work' = [s \in Threads |-> work'[s]]
  BY DEF Over
<1> QED
  BY <1>2, <1>4, <1>7, <1>8 DEF WorkType, Busy, OperationOK

\* The operation of thread t has ended.
Stops(t, result) ==
    \/ t = "request" /\ Went(t, work[t].value, result, FALSE)
    \/ t = "other" /\ Over

LEMMA StopsType ==
    ASSUME WorkType, NEW t \in Threads, NEW result \in {"done", "failed"}, Busy(t),
           Stops(t, result)
    PROVE  /\ WorkType'
           /\ Busy(Other(t))' <=> Busy(Other(t))
           /\ t = "other" => work'["request"] = work["request"]
           /\ t = "request" => work'["other"] = work["other"]
<1>1. CASE t = "request"
  <2>1. Went(t, work[t].value, result, FALSE)
    BY <1>1 DEF Stops
  <2>2. OperationOK(work[t])
    BY DEF WorkType
  <2>3. WorkType' /\ (Busy(Other(t))' <=> Busy(Other(t)))
    BY <2>1, <2>2, WentType DEF OperationOK
  <2>4. work'[Other(t)] = work[Other(t)]
    BY <2>1, OtherKept
  <2> QED
    BY <1>1, <2>3, <2>4, ThreadsAre
<1>2. CASE t = "other"
  <2>1. Over
    BY <1>2 DEF Stops
  <2>2. Other(t) = "request"
    BY <1>2, ThreadsAre
  <2> QED
    BY <1>2, <2>1, <2>2, OverType DEF Over
<1> QED
  BY <1>1, <1>2, ThreadsAre

LEMMA EndedStops ==
    ASSUME WorkType, NEW t \in Threads, NEW result, work' = [work EXCEPT ![t] = Ended(t, result)]
    PROVE  Stops(t, result)
BY EndedWent, ThreadsAre DEF Stops

LEMMA CheckDoes ==
    ASSUME WorkType, NEW t \in Threads, Check(t)
    PROVE  /\ work[t].step = "check"
           /\ UNCHANGED memory /\ Unsaved
           /\ \/ ~CheckFails(work[t]) /\ Went(t, work[t].value, "write", FALSE)
              \/ /\ CheckFails(work[t]) \/ work[t].what = "delete"
                 /\ Stops(t, "failed")
BY GoesWent, EndedStops DEF Check, Unsaved

LEMMA InsertDoes ==
    ASSUME WorkType, NEW t \in Threads, Insert(t)
    PROVE  /\ work[t].step = "write" /\ work[t].what = "create"
           /\ memory' = [memory EXCEPT ![work[t].kind] =
                            Put(memory[work[t].kind], work[t].key, work[t].value)]
           /\ Went(t, work[t].value, AfterWrite(work[t]), SameEntry(t))
           /\ Unsaved
<1>1. GoesTouching(t, work[t], AfterWrite(work[t]), SameEntry(t))
  BY DEF Insert
<1>2. Went(t, work[t].value, AfterWrite(work[t]), SameEntry(t))
  BY <1>1, GoesTouchingWent
<1> QED
  BY <1>2 DEF Insert, Unsaved

LEMMA RemoveDoes ==
    ASSUME WorkType, NEW t \in Threads, Remove(t)
    PROVE  /\ work[t].step = "write" /\ work[t].what = "delete"
           /\ memory' = [memory EXCEPT ![work[t].kind] =
                            Drop(memory[work[t].kind], work[t].key)]
           /\ Went(t, memory[work[t].kind][work[t].key], AfterWrite(work[t]), SameEntry(t))
           /\ Unsaved
<1>1. GoesTouching(t, [work[t] EXCEPT !.value = memory[work[t].kind][work[t].key]],
                   AfterWrite(work[t]), SameEntry(t))
  BY DEF Remove
<1>2. Went(t, memory[work[t].kind][work[t].key], AfterWrite(work[t]), SameEntry(t))
  BY <1>1, GoesTouchingValueWent
<1> QED
  BY <1>2 DEF Remove, Unsaved

LEMMA AssignDoes ==
    ASSUME WorkType, NEW t \in Threads, Assign(t)
    PROVE  /\ work[t].step = "write" /\ work[t].what = "update"
           /\ \/ UNCHANGED memory
              \/ memory' = [memory EXCEPT ![work[t].kind][work[t].key] =
                                AssignGroup(@, work[t].value)]
           /\ Went(t, work[t].value, AfterWrite(work[t]), FALSE)
           /\ Unsaved
BY GoesWent DEF Assign, Unsaved

LEMMA SetAddressDoes ==
    ASSUME WorkType, NEW t \in Threads, SetAddress(t)
    PROVE  /\ work[t].step = "second" /\ work[t].kind = "devices"
           /\ \/ UNCHANGED memory
              \/ /\ work[t].value.ip # "malformed"
                 /\ memory' = [memory EXCEPT !["devices"][work[t].key] =
                                    AssignIp(@, work[t].value)]
           /\ \/ Stops(t, "failed")
              \/ Went(t, work[t].value, "save", FALSE)
           /\ Unsaved
BY GoesWent, EndedStops DEF SetAddress, Unsaved

LEMMA IndexDoes ==
    ASSUME WorkType, NEW t \in Threads, Index(t)
    PROVE  /\ work[t].step = "second" /\ work[t].kind = "policies"
           /\ UNCHANGED <<memory, tables, doubtful>>
           /\ \/ /\ work[t].what = "create"
                 /\ groupIndex' = Put(groupIndex, work[t].value.group, work[t].key)
              \/ /\ work[t].what # "create"
                 /\ groupIndex' = Drop(groupIndex, work[t].value.group)
           /\ Went(t, work[t].value, "save", SameGroup(t))
<1>1. GoesTouching(t, work[t], "save", SameGroup(t))
  BY DEF Index
<1>2. Went(t, work[t].value, "save", SameGroup(t))
  BY <1>1, GoesTouchingWent
<1> QED
  BY <1>2 DEF Index

LEMMA SaveDoes ==
    ASSUME WorkType, NEW t \in Threads, Save(t)
    PROVE  /\ work[t].step = "save"
           /\ UNCHANGED <<memory, groupIndex, doubtful>>
           /\ tables' = [kind \in KindNames |->
                            IF kind \in SavedWith(work[t].kind) THEN memory[kind]
                            ELSE tables[kind]]
           /\ Stops(t, "done")
BY EndedStops DEF Save

\* A new operation, and the other thread as it was.
LEMMA BeginsDoes ==
    ASSUME WorkType, NEW t \in Threads, NEW what, NEW kind, NEW key, NEW value,
           Begins(t, what, kind, key, value)
    PROVE  /\ ~Working(t)
           /\ UNCHANGED <<memory, groupIndex, tables>>
           /\ work' = [s \in Threads |-> work'[s]]
           /\ work'[t] = Fields(work'[t]) /\ work'[Other(t)] = work[Other(t)]
           /\ work'[t].what = what /\ work'[t].kind = kind
           /\ work'[t].key = key /\ work'[t].value = value
           /\ work'[t].stale = FALSE
           /\ \/ Refused(what, kind, key, value) /\ work'[t].step = "failed"
              \/ /\ ~Refused(what, kind, key, value) /\ LooksTwice(what, kind)
                 /\ work'[t].step = "check"
              \/ /\ ~Refused(what, kind, key, value) /\ ~LooksTwice(what, kind)
                 /\ work'[t].step = "write"
           /\ ~Busy(Other(t)) => doubtful' = doubtful
           /\ doubtful' \subseteq doubtful \cup SavedWith(kind)
<1> DEFINE step == CASE Refused(what, kind, key, value) -> "failed"
                     [] ~Refused(what, kind, key, value) /\ LooksTwice(what, kind) -> "check"
                     [] OTHER -> "write"
<1>1. work' = [work EXCEPT ![t] = Operation(what, kind, key, value, step)]
  BY DEF Begins
<1>2. \/ Refused(what, kind, key, value) /\ step = "failed"
      \/ ~Refused(what, kind, key, value) /\ LooksTwice(what, kind) /\ step = "check"
      \/ ~Refused(what, kind, key, value) /\ ~LooksTwice(what, kind) /\ step = "write"
  BY Zenon
<1> HIDE DEF step
<1>3. work'[t] = Operation(what, kind, key, value, step) /\ work'[Other(t)] = work[Other(t)]
  BY <1>1, ThreadsAre DEF WorkType
<1>4. /\ work'[t].what = what /\ work'[t].kind = kind /\ work'[t].key = key
      /\ work'[t].value = value /\ work'[t].step = step /\ work'[t].stale = FALSE
  BY <1>3 DEF Operation
<1>5. work'[t] = Fields(work'[t])
  BY <1>3, <1>4 DEF Operation, Fields
<1>6. work' = [s \in Threads |-> work'[s]]
  BY <1>1 DEF WorkType
<1>7. ~Working(t) /\ UNCHANGED <<memory, groupIndex, tables>>
  BY DEF Begins
<1>8. /\ ~Busy(Other(t)) => doubtful' = doubtful
      /\ doubtful' \subseteq doubtful \cup SavedWith(kind)
  BY DEF Begins
<1> QED
  BY <1>2, <1>3, <1>4, <1>5, <1>6, <1>7, <1>8

LEMMA RequestBeginsDoes ==
    ASSUME WorkType, NEW what, NEW kind, NEW key, NEW value,
           Begins("request", what, kind, key, value)
    PROVE  /\ UNCHANGED <<memory, groupIndex, tables>>
           /\ work'["other"] = work["other"]
           /\ work'["request"].what = what /\ work'["request"].kind = kind
           /\ work'["request"].key = key /\ work'["request"].value = value
           /\ ~Busy("other") => doubtful' = doubtful
           /\ doubtful' \subseteq doubtful \cup SavedWith(kind)
<1>1. "request" \in Threads /\ Other("request") = "other"
  BY ThreadsAre
<1>2. UNCHANGED <<memory, groupIndex, tables>>
  BY DEF Begins
<1>3. work'[Other("request")] = work[Other("request")]
  BY <1>1, BeginsDoes
<1>4. PICK step : work' = [work EXCEPT !["request"] = Operation(what, kind, key, value, step)]
  BY DEF Begins
<1>5. work'["request"] = Operation(what, kind, key, value, step)
  BY <1>1, <1>4 DEF WorkType
<1>6. /\ work'["request"].what = what /\ work'["request"].kind = kind
      /\ work'["request"].key = key /\ work'["request"].value = value
  BY <1>5 DEF Operation
<1>8. /\ ~Busy(Other("request")) => doubtful' = doubtful
      /\ doubtful' \subseteq doubtful \cup SavedWith(kind)
  BY DEF Begins
<1> QED
  BY <1>1, <1>2, <1>3, <1>6, <1>8

LEMMA BeginsType ==
    ASSUME WorkType, NEW t \in Threads, NEW what, NEW kind \in KindNames, NEW key, NEW value,
           Begins(t, what, kind, key, value),
           what \in {"create", "update", "delete"}, key \in KeysOf(kind),
           what = "create" => value \in ObjectsOf(kind),
           what = "update" => kind \in Members /\ value \in Changes(kind),
           what = "delete" => value = NoObject
    PROVE  WorkType'
<1>1. /\ work' = [s \in Threads |-> work'[s]]
      /\ work'[t] = Fields(work'[t]) /\ work'[Other(t)] = work[Other(t)]
  BY BeginsDoes
<1>2. /\ work'[t].what = what /\ work'[t].kind = kind /\ work'[t].key = key
      /\ work'[t].value = value /\ work'[t].stale = FALSE
      /\ work'[t].step \in {"failed", "check", "write"}
  BY BeginsDoes
<1>3. OperationOK(work'[t])
  BY <1>2 DEF OperationOK
<1>4. \A s \in Threads : s = t \/ s = Other(t)
  BY ThreadsAre
<1>5. \A s \in Threads : work'[s] = Fields(work'[s])
  BY <1>1, <1>4, ThreadsAre DEF WorkType
<1>6. Other(t) \in Threads
  BY ThreadsAre
<1>7. IF Busy(Other(t))' THEN OperationOK(work'[Other(t)]) ELSE work'[Other(t)] = AtRest
  BY <1>1, <1>6 DEF WorkType, Busy
<1>8. \A s \in Threads : IF Busy(s)' THEN OperationOK(work'[s]) ELSE work'[s] = AtRest
  BY <1>2, <1>3, <1>4, <1>7 DEF Busy
<1> QED
  BY <1>1, <1>5, <1>8 DEF WorkType, Busy, OperationOK

-----------------------------------------------------------------------------
(* Types *)

LEMMA KindParts ==
    /\ Groups \subseteq KindNames /\ Members \subseteq KindNames
    /\ \A kind \in Members : GroupsOf(kind) \in Groups
    /\ "policies" \in KindNames /\ "devices" \in KindNames /\ "clients" \in KindNames
    /\ \A kind \in KindNames : kind \in SavedWith(kind) /\ SavedWith(kind) \subseteq KindNames
<1>1. \A kind \in Members : GroupsOf(kind) \in Groups
  BY DEF Members, Groups, GroupsOf
<1>2. ASSUME NEW kind \in KindNames
      PROVE  kind \in SavedWith(kind) /\ SavedWith(kind) \subseteq KindNames
  <2>1. CASE kind = "device_groups" \/ kind = "devices"
    BY <2>1 DEF SavedWith, KindNames, Groups, Members
  <2>2. CASE kind = "client_groups" \/ kind = "clients"
    BY <2>2 DEF SavedWith, KindNames, Groups, Members
  <2>3. CASE kind = "policies"
    BY <2>3 DEF SavedWith, KindNames, Groups, Members
  <2> QED
    BY <2>1, <2>2, <2>3 DEF KindNames, Groups, Members
<1> QED
  BY <1>1, <1>2 DEF KindNames, Groups, Members

LEMMA OneDictType ==
    ASSUME MemoryType, NEW kind \in KindNames, NEW d \in Entities(kind),
           memory' = [memory EXCEPT ![kind] = d], Unsaved
    PROVE  MemoryType'
<1>1. /\ memory' = [k \in KindNames |-> memory'[k]]
      /\ memory'[kind] = d
      /\ \A k \in KindNames : k # kind => memory'[k] = memory[k]
  BY OneDict
<1>2. \A k \in KindNames : memory'[k] \in Entities(k)
  BY <1>1 DEF MemoryType
<1> QED
  BY <1>1, <1>2 DEF MemoryType, Unsaved

LEMMA KeptType ==
    ASSUME MemoryType, UNCHANGED memory, Unsaved
    PROVE  MemoryType'
BY DEF MemoryType, Unsaved

\* An object is of its kind after an attribute is assigned.
LEMMA AssignGroupType ==
    ASSUME NEW kind \in Members, NEW object \in ObjectsOf(kind), NEW value \in Changes(kind)
    PROVE  AssignGroup(object, value) \in ObjectsOf(kind)
<1>1. CASE kind = "devices"
  BY <1>1 DEF ObjectsOf, Changes, AssignGroup
<1>2. CASE kind = "clients"
  BY <1>2 DEF ObjectsOf, Changes, AssignGroup
<1> QED
  BY <1>1, <1>2 DEF Members

LEMMA AssignIpType ==
    ASSUME NEW object \in ObjectsOf("devices"), NEW value \in Changes("devices"),
           value.ip # "malformed"
    PROVE  AssignIp(object, value) \in ObjectsOf("devices")
BY DEF ObjectsOf, Changes, AssignIp

LEMMA InsertType ==
    ASSUME MemoryType, WorkType, NEW t \in Threads, Insert(t)
    PROVE  MemoryType' /\ WorkType' /\ (Busy(Other(t))' <=> Busy(Other(t)))
<1>1. /\ work[t].step = "write" /\ work[t].what = "create"
      /\ memory' = [memory EXCEPT ![work[t].kind] =
                       Put(memory[work[t].kind], work[t].key, work[t].value)]
      /\ Went(t, work[t].value, AfterWrite(work[t]), SameEntry(t))
      /\ Unsaved
  BY InsertDoes
<1>2. Busy(t)
  BY <1>1 DEF Busy
<1>3. OperationOK(work[t])
  BY <1>2 DEF WorkType
<1>4. /\ work[t].kind \in KindNames /\ work[t].key \in KeysOf(work[t].kind)
      /\ work[t].value \in ObjectsOf(work[t].kind)
  BY <1>1, <1>3 DEF OperationOK
<1>5. Put(memory[work[t].kind], work[t].key, work[t].value) \in Entities(work[t].kind)
  <2>1. memory[work[t].kind] \in Dict(KeysOf(work[t].kind), ObjectsOf(work[t].kind))
    BY <1>4 DEF MemoryType, Entities
  <2> QED
    BY <1>4, <2>1, PutProperties DEF Entities
<1>6. MemoryType'
  BY <1>1, <1>4, <1>5, OneDictType
<1>7. SameEntry(t) => Busy(Other(t))
  BY DEF SameEntry, Working, Busy
<1>8. SameEntry(t) \in BOOLEAN /\ AfterWrite(work[t]) \in {"second", "save"}
  BY DEF SameEntry, Working, AfterWrite
<1>9. WorkType' /\ (Busy(Other(t))' <=> Busy(Other(t)))
  BY <1>1, <1>2, <1>4, <1>7, <1>8, WentType
<1> QED
  BY <1>6, <1>9

LEMMA RemoveType ==
    ASSUME MemoryType, WorkType, NEW t \in Threads, Remove(t),
           work[t].key \in DOMAIN memory[work[t].kind]
    PROVE  MemoryType' /\ WorkType' /\ (Busy(Other(t))' <=> Busy(Other(t)))
<1>1. /\ work[t].step = "write" /\ work[t].what = "delete"
      /\ memory' = [memory EXCEPT ![work[t].kind] =
                       Drop(memory[work[t].kind], work[t].key)]
      /\ Went(t, memory[work[t].kind][work[t].key], AfterWrite(work[t]), SameEntry(t))
      /\ Unsaved
  BY RemoveDoes
<1>2. Busy(t)
  BY <1>1 DEF Busy
<1>3. OperationOK(work[t])
  BY <1>2 DEF WorkType
<1>4. work[t].kind \in KindNames
  BY <1>1, <1>3 DEF OperationOK
<1>5. memory[work[t].kind] \in Dict(KeysOf(work[t].kind), ObjectsOf(work[t].kind))
  BY <1>4 DEF MemoryType, Entities
<1>6. Drop(memory[work[t].kind], work[t].key) \in Entities(work[t].kind)
  BY <1>5, DropType DEF Entities
<1>7. memory[work[t].kind][work[t].key] \in ObjectsOf(work[t].kind)
  BY <1>5, DictValue
<1>8. MemoryType'
  BY <1>1, <1>4, <1>6, OneDictType
<1>9. SameEntry(t) => Busy(Other(t))
  BY DEF SameEntry, Working, Busy
<1>10. SameEntry(t) \in BOOLEAN /\ AfterWrite(work[t]) \in {"second", "save"}
  BY DEF SameEntry, Working, AfterWrite
<1>11. WorkType' /\ (Busy(Other(t))' <=> Busy(Other(t)))
  BY <1>1, <1>2, <1>7, <1>9, <1>10, WentType
<1> QED
  BY <1>8, <1>11

\* One attribute of one entry.
LEMMA OneEntryType ==
    ASSUME MemoryType, NEW kind \in KindNames, NEW key, NEW object,
           key \in DOMAIN memory[kind] => object \in ObjectsOf(kind),
           memory' = [memory EXCEPT ![kind][key] = object], Unsaved
    PROVE  MemoryType' /\ \A k \in KindNames : DOMAIN memory'[k] = DOMAIN memory[k]
<1> DEFINE d == [memory[kind] EXCEPT ![key] = object]
<1>1. memory' = [memory EXCEPT ![kind] = d]
  BY DEF MemoryType
<1>2. memory[kind] \in Dict(KeysOf(kind), ObjectsOf(kind))
  BY DEF MemoryType, Entities
<1>3. d \in Dict(KeysOf(kind), ObjectsOf(kind)) /\ DOMAIN d = DOMAIN memory[kind]
  BY <1>2, ExceptProperties
<1>4. d \in Entities(kind)
  BY <1>3 DEF Entities
<1> HIDE DEF d
<1>5. MemoryType'
  BY <1>1, <1>4, OneDictType
<1>6. /\ memory'[kind] = d
      /\ \A k \in KindNames : k # kind => memory'[k] = memory[k]
  BY <1>1, OneDict
<1> QED
  BY <1>3, <1>5, <1>6

LEMMA AssignType ==
    ASSUME MemoryType, WorkType, NEW t \in Threads, Assign(t)
    PROVE  /\ MemoryType' /\ WorkType' /\ (Busy(Other(t))' <=> Busy(Other(t)))
           /\ \A k \in KindNames : DOMAIN memory'[k] = DOMAIN memory[k]
<1>1. /\ work[t].step = "write" /\ work[t].what = "update"
      /\ \/ UNCHANGED memory
         \/ memory' = [memory EXCEPT ![work[t].kind][work[t].key] =
                           AssignGroup(@, work[t].value)]
      /\ Went(t, work[t].value, AfterWrite(work[t]), FALSE)
      /\ Unsaved
  BY AssignDoes
<1>2. Busy(t)
  BY <1>1 DEF Busy
<1>3. OperationOK(work[t])
  BY <1>2 DEF WorkType
<1>4. work[t].kind \in Members /\ work[t].value \in Changes(work[t].kind)
  BY <1>1, <1>3 DEF OperationOK
<1>5. work[t].kind \in KindNames
  BY <1>4, KindParts
<1>6. AfterWrite(work[t]) \in {"second", "save"}
  BY DEF AfterWrite
<1>7. WorkType' /\ (Busy(Other(t))' <=> Busy(Other(t)))
  BY <1>1, <1>2, <1>4, <1>6, WentType
<1>8. CASE UNCHANGED memory
  BY <1>1, <1>7, <1>8, KeptType
<1>9. CASE memory' = [memory EXCEPT ![work[t].kind][work[t].key] =
                          AssignGroup(@, work[t].value)]
  <2> DEFINE object == AssignGroup(memory[work[t].kind][work[t].key], work[t].value)
  <2>1. memory' = [memory EXCEPT ![work[t].kind][work[t].key] = object]
    BY <1>9
  <2>2. memory[work[t].kind] \in Dict(KeysOf(work[t].kind), ObjectsOf(work[t].kind))
    BY <1>5 DEF MemoryType, Entities
  <2>3. ASSUME work[t].key \in DOMAIN memory[work[t].kind]
        PROVE  object \in ObjectsOf(work[t].kind)
    <3>1. memory[work[t].kind][work[t].key] \in ObjectsOf(work[t].kind)
      BY <2>2, <2>3, DictValue
    <3> QED
      BY <1>4, <3>1, AssignGroupType
  <2> HIDE DEF object
  <2> QED
    BY <1>1, <1>5, <1>7, <2>1, <2>3, OneEntryType
<1> QED
  BY <1>1, <1>8, <1>9

LEMMA SetAddressType ==
    ASSUME MemoryType, WorkType, NEW t \in Threads, SetAddress(t)
    PROVE  /\ MemoryType' /\ WorkType' /\ (Busy(Other(t))' <=> Busy(Other(t)))
           /\ \A k \in KindNames : DOMAIN memory'[k] = DOMAIN memory[k]
<1>1. /\ work[t].step = "second" /\ work[t].kind = "devices"
      /\ \/ UNCHANGED memory
         \/ /\ work[t].value.ip # "malformed"
            /\ memory' = [memory EXCEPT !["devices"][work[t].key] =
                               AssignIp(@, work[t].value)]
      /\ \/ Stops(t, "failed")
         \/ Went(t, work[t].value, "save", FALSE)
      /\ Unsaved
  BY SetAddressDoes
<1>2. Busy(t)
  BY <1>1 DEF Busy
<1>3. OperationOK(work[t])
  BY <1>2 DEF WorkType
<1>4. AfterWrite(work[t]) = "second"
  BY <1>1, <1>3 DEF OperationOK
<1>5. work[t].what = "update"
  BY <1>1, <1>4 DEF AfterWrite
<1>6. work[t].value \in Changes("devices")
  BY <1>1, <1>3, <1>5 DEF OperationOK
<1>7. Went(t, work[t].value, "save", FALSE) =>
        WorkType' /\ (Busy(Other(t))' <=> Busy(Other(t)))
  BY <1>2, <1>1, <1>5, <1>6, WentType
<1>8. WorkType' /\ (Busy(Other(t))' <=> Busy(Other(t)))
  BY <1>1, <1>2, <1>7, StopsType
<1>9. CASE UNCHANGED memory
  BY <1>1, <1>8, <1>9, KeptType
<1>10. CASE work[t].value.ip # "malformed" /\
            memory' = [memory EXCEPT !["devices"][work[t].key] = AssignIp(@, work[t].value)]
  <2> DEFINE object == AssignIp(memory["devices"][work[t].key], work[t].value)
  <2>1. memory' = [memory EXCEPT !["devices"][work[t].key] = object]
    BY <1>10
  <2>2. memory["devices"] \in Dict(KeysOf("devices"), ObjectsOf("devices"))
    BY KindParts DEF MemoryType, Entities
  <2>3. ASSUME work[t].key \in DOMAIN memory["devices"]
        PROVE  object \in ObjectsOf("devices")
    <3>1. memory["devices"][work[t].key] \in ObjectsOf("devices")
      BY <2>2, <2>3, DictValue
    <3> QED
      BY <1>6, <1>10, <3>1, AssignIpType
  <2> HIDE DEF object
  <2>4. "devices" \in KindNames
    BY KindParts
  <2> QED
    BY <1>1, <1>8, <2>1, <2>3, <2>4, OneEntryType
<1> QED
  BY <1>1, <1>9, <1>10

LEMMA IndexType ==
    ASSUME MemoryType, WorkType, NEW t \in Threads, Index(t)
    PROVE  MemoryType' /\ WorkType' /\ (Busy(Other(t))' <=> Busy(Other(t)))
<1>1. /\ work[t].step = "second" /\ work[t].kind = "policies"
      /\ UNCHANGED <<memory, tables, doubtful>>
      /\ \/ /\ work[t].what = "create"
            /\ groupIndex' = Put(groupIndex, work[t].value.group, work[t].key)
         \/ /\ work[t].what # "create"
            /\ groupIndex' = Drop(groupIndex, work[t].value.group)
      /\ Went(t, work[t].value, "save", SameGroup(t))
  BY IndexDoes
<1>2. Busy(t)
  BY <1>1 DEF Busy
<1>3. OperationOK(work[t])
  BY <1>2 DEF WorkType
<1>4. groupIndex' \in Dict(ClientGroups, PolicyNames)
  <2>1. groupIndex \in Dict(ClientGroups, PolicyNames)
    BY DEF MemoryType
  <2>2. CASE work[t].what = "create" /\
             groupIndex' = Put(groupIndex, work[t].value.group, work[t].key)
    <3>1. work[t].value \in ObjectsOf("policies") /\ work[t].key \in KeysOf("policies")
      BY <1>1, <1>3, <2>2 DEF OperationOK
    <3>2. work[t].value.group \in ClientGroups /\ work[t].key \in PolicyNames
      BY <3>1 DEF ObjectsOf, KeysOf
    <3> QED
      BY <2>1, <2>2, <3>2, PutProperties
  <2>3. CASE groupIndex' = Drop(groupIndex, work[t].value.group)
    BY <2>1, <2>3, DropType
  <2> QED
    BY <1>1, <2>2, <2>3
<1>5. MemoryType'
  BY <1>1, <1>4 DEF MemoryType
<1>6. SameGroup(t) => Busy(Other(t))
  BY DEF SameGroup, Working, Busy
<1>7. SameGroup(t) \in BOOLEAN
  BY DEF SameGroup, Working
<1>8. /\ work[t].what = "create" => work[t].value \in ObjectsOf(work[t].kind)
      /\ work[t].what = "update" => work[t].value \in Changes(work[t].kind)
      /\ work[t].what = "delete" => work[t].value \in {NoObject} \cup ObjectsOf(work[t].kind)
  BY <1>3 DEF OperationOK
<1>9. WorkType' /\ (Busy(Other(t))' <=> Busy(Other(t)))
  BY <1>1, <1>2, <1>6, <1>7, <1>8, WentType
<1> QED
  BY <1>5, <1>9

LEMMA CheckType ==
    ASSUME MemoryType, WorkType, NEW t \in Threads, Check(t)
    PROVE  MemoryType' /\ WorkType' /\ (Busy(Other(t))' <=> Busy(Other(t)))
<1>1. /\ work[t].step = "check"
      /\ UNCHANGED memory /\ Unsaved
      /\ \/ Went(t, work[t].value, "write", FALSE)
         \/ Stops(t, "failed")
  BY CheckDoes
<1>2. Busy(t)
  BY <1>1 DEF Busy
<1>3. OperationOK(work[t])
  BY <1>2 DEF WorkType
<1>4. /\ work[t].what = "create" => work[t].value \in ObjectsOf(work[t].kind)
      /\ work[t].what = "update" => work[t].value \in Changes(work[t].kind)
      /\ work[t].what = "delete" => work[t].value \in {NoObject} \cup ObjectsOf(work[t].kind)
  BY <1>3 DEF OperationOK
<1>5. CASE Went(t, work[t].value, "write", FALSE)
  <2>1. WorkType' /\ (Busy(Other(t))' <=> Busy(Other(t)))
    BY <1>2, <1>4, <1>5, WentType
  <2> QED
    BY <1>1, <2>1, KeptType
<1>6. CASE Stops(t, "failed")
  <2>1. WorkType' /\ (Busy(Other(t))' <=> Busy(Other(t)))
    BY <1>2, <1>6, StopsType
  <2> QED
    BY <1>1, <2>1, KeptType
<1> QED
  BY <1>1, <1>5, <1>6

LEMMA SaveType ==
    ASSUME MemoryType, WorkType, NEW t \in Threads, Save(t)
    PROVE  MemoryType' /\ WorkType' /\ (Busy(Other(t))' <=> Busy(Other(t)))
<1>1. /\ work[t].step = "save"
      /\ UNCHANGED <<memory, groupIndex, doubtful>>
      /\ tables' = [kind \in KindNames |->
                       IF kind \in SavedWith(work[t].kind) THEN memory[kind]
                       ELSE tables[kind]]
      /\ Stops(t, "done")
  BY SaveDoes
<1>2. Busy(t)
  BY <1>1 DEF Busy
<1>3. WorkType' /\ (Busy(Other(t))' <=> Busy(Other(t)))
  BY <1>1, <1>2, StopsType
<1>4. \A kind \in KindNames : tables'[kind] \in Entities(kind)
  BY <1>1 DEF MemoryType
<1>5. tables' = [kind \in KindNames |-> tables'[kind]]
  BY <1>1
<1> QED
  BY <1>1, <1>3, <1>4, <1>5 DEF MemoryType

LEMMA OperateType ==
    ASSUME MemoryType, WorkType, DeleteSees, RequestWork, RequestsType, NEW t \in Threads,
           Steps(t)
    PROVE  MemoryType' /\ WorkType' /\ (Busy(Other(t))' <=> Busy(Other(t))) /\ Busy(t)
<1>1. CASE Check(t)
  BY <1>1, CheckType DEF Check, Busy
<1>2. CASE Insert(t)
  BY <1>2, InsertType DEF Insert, Busy
<1>3. CASE Remove(t)
  <2>1. work[t].step = "write" /\ work[t].what = "delete"
    BY <1>3, RemoveDoes
  <2>2. t = "other"
    <3>1. ASSUME t = "request" PROVE FALSE
      <4>1. Busy("request") /\ work["request"].what = "delete"
        BY <2>1, <3>1 DEF Busy
      <4>2. Importing \/ ReadingCsv
        BY <4>1 DEF RequestWork
      <4> QED
        BY <4>1, <4>2 DEF RequestWork
    <3> QED
      BY <3>1, ThreadsAre
  <2>3. work[t].key \in DOMAIN memory[work[t].kind]
    BY <2>1, <2>2 DEF DeleteSees
  <2>4. MemoryType' /\ WorkType' /\ (Busy(Other(t))' <=> Busy(Other(t)))
    BY <1>3, <2>3, RemoveType
  <2> QED
    BY <2>1, <2>4 DEF Busy
<1>4. CASE Assign(t)
  BY <1>4, AssignType DEF Assign, Busy
<1>5. CASE SetAddress(t)
  BY <1>5, SetAddressType DEF SetAddress, Busy
<1>6. CASE Index(t)
  BY <1>6, IndexType DEF Index, Busy
<1>7. CASE Save(t)
  BY <1>7, SaveType DEF Save, Busy
<1> QED
  BY <1>1, <1>2, <1>3, <1>4, <1>5, <1>6, <1>7 DEF Steps

\* A step of an operation, whichever: it goes on, or the other thread is through.
LEMMA StepsDo ==
    ASSUME WorkType, NEW t \in Threads, Steps(t)
    PROVE  \/ t = "other" /\ Over
           \/ \E value, step, touched :
                /\ Went(t, value, step, touched)
                /\ step \in {"write", "second", "save", "done", "failed"}
                /\ step = "write" => work[t].step = "check" /\ UNCHANGED memory /\ Unsaved
                /\ value = work[t].value \/ Remove(t)
<1>1. CASE Check(t)
  BY <1>1, CheckDoes DEF Stops
<1>2. CASE Insert(t)
  <2>1. Went(t, work[t].value, AfterWrite(work[t]), SameEntry(t))
    BY <1>2, InsertDoes
  <2>2. AfterWrite(work[t]) \in {"second", "save"}
    BY DEF AfterWrite
  <2> QED
    BY <2>1, <2>2
<1>3. CASE Remove(t)
  <2>1. Went(t, memory[work[t].kind][work[t].key], AfterWrite(work[t]), SameEntry(t))
    BY <1>3, RemoveDoes
  <2>2. AfterWrite(work[t]) \in {"second", "save"}
    BY DEF AfterWrite
  <2> QED
    BY <1>3, <2>1, <2>2
<1>4. CASE Assign(t)
  <2>1. Went(t, work[t].value, AfterWrite(work[t]), FALSE)
    BY <1>4, AssignDoes
  <2>2. AfterWrite(work[t]) \in {"second", "save"}
    BY DEF AfterWrite
  <2> QED
    BY <2>1, <2>2
<1>5. CASE SetAddress(t)
  <2>1. Stops(t, "failed") \/ Went(t, work[t].value, "save", FALSE)
    BY <1>5, SetAddressDoes
  <2> QED
    BY <2>1 DEF Stops
<1>6. CASE Index(t)
  <2>1. Went(t, work[t].value, "save", SameGroup(t))
    BY <1>6, IndexDoes
  <2> QED
    BY <2>1
<1>7. CASE Save(t)
  <2>1. Stops(t, "done")
    BY <1>7, SaveDoes
  <2> QED
    BY <2>1 DEF Stops
<1> QED
  BY <1>1, <1>2, <1>3, <1>4, <1>5, <1>6, <1>7 DEF Steps

\* Only a deletion takes an entry out.
LEMMA DomainGrows ==
    ASSUME MemoryType, WorkType, NEW t \in Threads, Steps(t), ~Remove(t)
    PROVE  \A k \in KindNames : DOMAIN memory[k] \subseteq DOMAIN memory'[k]
<1>1. CASE Check(t)
  BY <1>1, CheckDoes
<1>2. CASE Insert(t)
  <2>1. /\ work[t].step = "write"
        /\ memory' = [memory EXCEPT ![work[t].kind] =
                         Put(memory[work[t].kind], work[t].key, work[t].value)]
    BY <1>2, InsertDoes
  <2>2. work[t].kind \in KindNames
    BY <2>1 DEF WorkType, Busy, OperationOK
  <2> DEFINE d == Put(memory[work[t].kind], work[t].key, work[t].value)
  <2>3. DOMAIN memory[work[t].kind] \subseteq DOMAIN d
    BY DEF Put
  <2> HIDE DEF d
  <2>4. /\ memory'[work[t].kind] = d
        /\ \A k \in KindNames : k # work[t].kind => memory'[k] = memory[k]
    BY <2>1, <2>2, OneDict DEF d
  <2> QED
    BY <2>3, <2>4
<1>4. CASE Assign(t)
  BY <1>4, AssignType
<1>5. CASE SetAddress(t)
  BY <1>5, SetAddressType
<1>6. CASE Index(t)
  BY <1>6, IndexDoes
<1>7. CASE Save(t)
  BY <1>7, SaveDoes
<1> QED
  BY <1>1, <1>2, <1>4, <1>5, <1>6, <1>7 DEF Steps

\* The thread of the request deletes nothing.
LEMMA RequestKeeps ==
    ASSUME WorkType, RequestWork
    PROVE  /\ Busy("request") => work["request"].what \in {"create", "update"}
           /\ ~Remove("request")
<1>1. ASSUME Busy("request") PROVE work["request"].what \in {"create", "update"}
  BY <1>1 DEF RequestWork
<1>2. ASSUME Remove("request") PROVE FALSE
  <2>1. work["request"].step = "write" /\ work["request"].what = "delete"
    BY <1>2, RemoveDoes, ThreadsAre
  <2> QED
    BY <1>1, <2>1 DEF Busy
<1> QED
  BY <1>1, <1>2

Framed == UNCHANGED <<file, at, left, csv, changes, quiet, ghosts>>

\* What a step of either thread leaves of the request's operation.
LEMMA RequestFields ==
    ASSUME WorkType, RequestWork, NEW t \in Threads, Steps(t)
    PROVE  /\ work'["request"].what = work["request"].what
           /\ work'["request"].kind = work["request"].kind
           /\ work'["request"].key = work["request"].key
           /\ work'["request"].value = work["request"].value
           /\ t = "other" => work'["request"].step = work["request"].step
           /\ t = "request" =>
                /\ work'["request"].step \in {"write", "second", "save", "done", "failed"}
                /\ work'["request"].stale = work["request"].stale
           /\ Busy("request")' <=> Busy("request")
<1>1. CASE t = "other" /\ Over
  BY <1>1 DEF Over, Busy, Threads
<1>2. CASE \E value, step, touched :
                /\ Went(t, value, step, touched)
                /\ step \in {"write", "second", "save", "done", "failed"}
                /\ step = "write" => work[t].step = "check" /\ UNCHANGED memory /\ Unsaved
                /\ value = work[t].value \/ Remove(t)
  <2>1. PICK value, step, touched :
                /\ Went(t, value, step, touched)
                /\ step \in {"write", "second", "save", "done", "failed"}
                /\ step = "write" => work[t].step = "check" /\ UNCHANGED memory /\ Unsaved
                /\ value = work[t].value \/ Remove(t)
    BY <1>2
  <2>2. CASE t = "request"
    <3>1. value = work[t].value
      BY <2>1, <2>2, RequestKeeps
    <3>2. Busy("request")
      BY <2>2 DEF Steps, Check, Insert, Remove, Assign, SetAddress, Index, Save, Busy
    <3> QED
      BY <2>1, <2>2, <3>1, <3>2 DEF Went, Busy
  <2>3. CASE t = "other"
    BY <2>1, <2>3, ThreadsAre DEF Went, Busy
  <2> QED
    BY <2>2, <2>3, ThreadsAre
<1> QED
  BY <1>1, <1>2, StepsDo

-----------------------------------------------------------------------------
(* BaseInv *)

LEMMA OperateDeletes ==
    ASSUME BaseInv, NEW t \in Threads, Steps(t)
    PROVE  DeleteSees'
<1> USE DEF BaseInv
<1> SUFFICES ASSUME work'["other"].what = "delete", work'["other"].step \in {"check", "write"}
             PROVE  work'["other"].key \in DOMAIN memory'[work'["other"].kind]
  BY DEF DeleteSees
<1>1. ASSUME t = "other" /\ Over PROVE FALSE
  BY <1>1 DEF Over, AtRest
<1>2. PICK value, step, touched :
                /\ Went(t, value, step, touched)
                /\ step \in {"write", "second", "save", "done", "failed"}
                /\ step = "write" => work[t].step = "check" /\ UNCHANGED memory /\ Unsaved
                /\ value = work[t].value \/ Remove(t)
  BY <1>1, StepsDo
<1>3. CASE t = "other"
  <2>1. work["other"].what = "delete" /\ work["other"].step = "check" /\ UNCHANGED memory
    BY <1>2, <1>3 DEF Went
  <2>2. work'["other"].key = work["other"].key /\ work'["other"].kind = work["other"].kind
    BY <1>2, <1>3 DEF Went
  <2>3. work["other"].key \in DOMAIN memory[work["other"].kind]
    BY <2>1 DEF DeleteSees
  <2> QED
    BY <2>1, <2>2, <2>3
<1>4. CASE t = "request"
  <2>1. /\ work'["other"].what = work["other"].what /\ work'["other"].kind = work["other"].kind
        /\ work'["other"].key = work["other"].key /\ work'["other"].step = work["other"].step
    BY <1>2, <1>4, ThreadsAre DEF Went
  <2>2. work["other"].key \in DOMAIN memory[work["other"].kind]
    BY <2>1 DEF DeleteSees
  <2>3. work["other"].kind \in KindNames
    BY <2>1, ThreadsAre DEF WorkType, Busy, OperationOK
  <2>4. ~Remove("request")
    BY RequestKeeps
  <2>5. \A k \in KindNames : DOMAIN memory[k] \subseteq DOMAIN memory'[k]
    BY <1>4, <2>4, DomainGrows
  <2> QED
    BY <2>1, <2>2, <2>3, <2>5
<1> QED
  BY <1>3, <1>4, ThreadsAre

LEMMA OperateBase ==
    ASSUME BaseInv, NEW t \in Threads, Operate(t)
    PROVE  BaseInv'
<1> USE DEF BaseInv
<1>1. Steps(t) /\ Framed
  BY DEF Operate, Framed
<1>2. MemoryType' /\ WorkType' /\ (Busy(Other(t))' <=> Busy(Other(t))) /\ Busy(t)
  BY <1>1, OperateType
<1>3. RequestsType'
  BY <1>1 DEF RequestsType, Framed, csv, ghosts
<1>4. FileType'
  BY <1>1 DEF FileType, Framed, Importing, KindOf, csv, ghosts
<1>5. DeleteSees'
  BY <1>1, OperateDeletes
<1>6. /\ work'["request"].what = work["request"].what
      /\ work'["request"].kind = work["request"].kind
      /\ work'["request"].key = work["request"].key
      /\ work'["request"].value = work["request"].value
      /\ Busy("request")' <=> Busy("request")
  BY <1>1, RequestFields
<1>7. /\ at' = at /\ file' = file /\ existing' = existing /\ counts' = counts
      /\ quiet' = quiet /\ restoration' = restoration /\ exact' = exact
  BY <1>1 DEF Framed, csv, ghosts
<1>8. /\ Importing' <=> Importing
      /\ ReadingCsv' <=> ReadingCsv
      /\ RowsLeft' <=> RowsLeft
      /\ KindOf(at)' = KindOf(at)
  BY <1>7 DEF Importing, ReadingCsv, RowsLeft, KindOf
<1>9. RequestWork'
  <2>1. RequestWork
    OBVIOUS
  <2> QED
    BY <1>6, <1>7, <1>8, <2>1 DEF RequestWork
<1>10. Busy("other")' => Busy("other")
  BY <1>2, ThreadsAre
<1>11. doubtful' = doubtful
  BY <1>1 DEF Steps, Check, Insert, Remove, Assign, SetAddress, Index, Save
<1>12. Alone'
  BY <1>7, <1>10, <1>11 DEF Alone
<1> QED
  BY <1>2, <1>3, <1>4, <1>5, <1>9, <1>12

\* Nothing happens to the managers.
LEMMA ManagersKept ==
    ASSUME BaseInv, UNCHANGED managers
    PROVE  /\ MemoryType' /\ WorkType' /\ DeleteSees'
           /\ \A t : Busy(t)' <=> Busy(t)
           /\ \A t : Working(t)' <=> Working(t)
BY DEF BaseInv, managers, MemoryType, WorkType, DeleteSees, Busy, Working, OperationOK

LEMMA ListedType ==
    ASSUME MemoryType, NEW kind \in KindNames
    PROVE  Listed(kind) \subseteq NamesOf(kind) \X ObjectsOf(kind)
<1>1. memory[kind] \in Dict(KeysOf(kind), ObjectsOf(kind))
  BY DEF MemoryType, Entities
<1>2. ASSUME NEW k \in DOMAIN memory[kind]
      PROVE  <<IF kind = "clients" THEN k[1] ELSE k, memory[kind][k]>>
                \in NamesOf(kind) \X ObjectsOf(kind)
  <2>1. k \in KeysOf(kind) /\ memory[kind][k] \in ObjectsOf(kind)
    BY <1>1, DictValue
  <2>2. CASE kind = "clients"
    <3>1. k \in Macs \X Spellings
      BY <2>1, <2>2 DEF KeysOf, Keys
    <3> QED
      BY <2>1, <2>2, <3>1 DEF NamesOf
  <2>3. CASE kind # "clients"
    BY <2>1, <2>3 DEF NamesOf
  <2> QED
    BY <2>2, <2>3
<1> QED
  BY <1>2 DEF Listed

\* A file of the five kinds.
LEMMA EmptyFileType ==
    /\ EmptyFile = [kind \in KindNames |-> EmptyFile[kind]]
    /\ \A kind \in KindNames : EmptyFile[kind] \subseteq NamesOf(kind) \X ObjectsOf(kind)
BY DEF EmptyFile

LEMMA NotBusyRequest ==
    ASSUME BaseInv, ~Importing, ~ReadingCsv
    PROVE  ~Busy("request")
BY DEF BaseInv, RequestWork

LEMMA ExportBeginsBase ==
    ASSUME BaseInv, ExportBegins
    PROVE  BaseInv'
<1> USE DEF BaseInv
<1>1. /\ at = Idle /\ at' = <<"export", 1>> /\ quiet' = ~Busy("other") /\ file' = EmptyFile
      /\ exact' = FALSE /\ restoration' = "none"
      /\ UNCHANGED <<managers, left, csv, changes>>
  BY DEF ExportBegins
<1>2. /\ MemoryType' /\ WorkType' /\ DeleteSees'
      /\ \A t : Busy(t)' <=> Busy(t)
  BY <1>1, ManagersKept
<1>3. ~Importing' /\ ~ReadingCsv' /\ ~Importing /\ ~ReadingCsv
  BY <1>1 DEF Importing, ReadingCsv, Idle
<1>4. RequestsType'
  <2>1. at' \in {Idle, <<"csv", 1>>} \cup ({"export", "import"} \X (1..5))
    BY <1>1
  <2>2. existing' = existing /\ before' = before /\ counts' = counts /\ changes' = changes
    BY <1>1 DEF csv
  <2>3. quiet' \in BOOLEAN /\ exact' \in BOOLEAN /\ restoration' \in {"none", "fresh", "done"}
    BY <1>1 DEF Busy
  <2> QED
    BY <2>1, <2>2, <2>3 DEF RequestsType
<1>5. FileType'
  BY <1>1, <1>3, EmptyFileType DEF FileType
<1>6. RequestWork'
  BY <1>2, <1>3, NotBusyRequest DEF RequestWork
<1>7. Alone'
  BY <1>1, <1>2 DEF Alone
<1> QED
  BY <1>2, <1>4, <1>5, <1>6, <1>7

LEMMA ExportKindBase ==
    ASSUME BaseInv, ExportKind
    PROVE  BaseInv'
<1> USE DEF BaseInv
<1>1. /\ Exporting
      /\ file' = [file EXCEPT ![KindOf(at)] = Listed(KindOf(at))]
      /\ \/ at[2] < 5 /\ at' = <<"export", at[2] + 1>> /\ exact' = exact
         \/ at[2] >= 5 /\ at' = Idle /\ exact' = (quiet /\ Sound)
      /\ UNCHANGED <<managers, left, csv, changes, quiet, restoration>>
  <2>1. at[2] \in 1..5
    BY AtShape DEF ExportKind
  <2> QED
    BY <2>1 DEF ExportKind
<1>2. /\ MemoryType' /\ WorkType' /\ DeleteSees'
      /\ \A t : Busy(t)' <=> Busy(t)
  BY <1>1, ManagersKept
<1>3. at[1] = "export" /\ at[2] \in 1..5 /\ KindOf(at) \in KindNames
  BY <1>1, AtShape DEF Exporting
<1>4. ~Importing' /\ ~ReadingCsv' /\ ~Importing /\ ~ReadingCsv
  BY <1>1, <1>3 DEF Importing, ReadingCsv, Idle
<1>5. RequestsType'
  <2>1. at' \in {Idle, <<"csv", 1>>} \cup ({"export", "import"} \X (1..5))
    BY <1>1, <1>3
  <2>2. exact' \in BOOLEAN
    BY <1>1 DEF RequestsType, Sound
  <2> QED
    BY <1>1, <2>1, <2>2 DEF RequestsType, csv
<1>6. FileType'
  <2>1. Listed(KindOf(at)) \subseteq NamesOf(KindOf(at)) \X ObjectsOf(KindOf(at))
    BY <1>3, ListedType
  <2>2. \A kind \in KindNames : file'[kind] \subseteq NamesOf(kind) \X ObjectsOf(kind)
    BY <1>1, <1>3, <2>1 DEF FileType
  <2>3. file' = [kind \in KindNames |-> file'[kind]]
    BY <1>1 DEF FileType
  <2> QED
    BY <1>4, <2>2, <2>3 DEF FileType
<1>7. RequestWork'
  BY <1>2, <1>4, NotBusyRequest DEF RequestWork
<1>8. restoration = "none"
  BY <1>3 DEF Alone, RequestsType
<1>9. Alone'
  BY <1>1, <1>2, <1>3, <1>8 DEF Alone, Idle
<1> QED
  BY <1>2, <1>5, <1>6, <1>7, <1>9

LEMMA ImportBeginsBase ==
    ASSUME BaseInv, ImportBegins
    PROVE  BaseInv'
<1> USE DEF BaseInv
<1>1. /\ at = Idle /\ at' = <<"import", 1>> /\ left' = file[Kinds[1]]
      /\ quiet' = ~Busy("other")
      /\ UNCHANGED <<managers, file, csv, changes, ghosts>>
  BY DEF ImportBegins
<1>2. /\ MemoryType' /\ WorkType' /\ DeleteSees'
      /\ \A t : Busy(t)' <=> Busy(t)
  BY <1>1, ManagersKept
<1>3. Importing' /\ ~ReadingCsv' /\ ~Importing /\ ~ReadingCsv
  BY <1>1 DEF Importing, ReadingCsv, Idle
<1>4. RequestsType'
  BY <1>1 DEF RequestsType, csv, Busy, ghosts
<1>5. KindOf(at)' = Kinds[1]
  BY <1>1 DEF KindOf
<1>6. FileType'
  BY <1>1, <1>5 DEF FileType
<1>7. RequestWork'
  BY <1>2, <1>3, NotBusyRequest DEF RequestWork
<1>8. doubtful' = doubtful /\ restoration' = restoration /\ exact' = exact
  BY <1>1 DEF ghosts, managers
<1>9. Alone'
  BY <1>1, <1>2, <1>8 DEF Alone
<1> QED
  BY <1>2, <1>4, <1>6, <1>7, <1>9

LEMMA MacsOfClients ==
    ASSUME MemoryType
    PROVE  {k[1] : k \in DOMAIN memory["clients"]} \subseteq Macs
           /\ DOMAIN memory["clients"] \subseteq Keys
<1>1. memory["clients"] \in Dict(Keys, ObjectsOf("clients"))
  BY KindParts DEF MemoryType, Entities, KeysOf
<1>2. DOMAIN memory["clients"] \subseteq Keys
  BY <1>1, DictDef
<1> QED
  BY <1>2 DEF Keys

LEMMA CsvBeginsBase ==
    ASSUME BaseInv, CsvBegins
    PROVE  BaseInv'
<1> USE DEF BaseInv
<1>1. /\ at = Idle /\ file' = EmptyFile /\ exact' = FALSE /\ at' = <<"csv", 1>>
      /\ existing' = [m \in {k[1] : k \in DOMAIN memory["clients"]} |-> TRUE]
      /\ counts' = NoCounts /\ before' = DOMAIN memory["clients"]
      /\ quiet' = ~Busy("other") /\ restoration' = "none"
      /\ UNCHANGED <<managers, left, changes>>
  BY DEF CsvBegins
<1>2. /\ MemoryType' /\ WorkType' /\ DeleteSees'
      /\ \A t : Busy(t)' <=> Busy(t)
  BY <1>1, ManagersKept
<1>3. ~Importing' /\ ~Importing /\ ~ReadingCsv
  BY <1>1 DEF Importing, ReadingCsv, Idle
<1>4. RequestsType'
  <2>1. existing' \in Dict(Macs, BOOLEAN)
    <3>1. DOMAIN existing' \subseteq Macs /\ existing' \in [DOMAIN existing' -> BOOLEAN]
      BY <1>1, MacsOfClients
    <3> QED
      BY <3>1, DictDef
  <2>2. NoCounts \in [{"imported", "updated", "failed"} -> 0..MaxRows]
    BY BoundsAreNaturals DEF NoCounts
  <2>3. before' \subseteq Keys
    BY <1>1, MacsOfClients
  <2> QED
    BY <1>1, <2>1, <2>2, <2>3 DEF RequestsType, Busy
<1>5. FileType'
  BY <1>1, <1>3, EmptyFileType DEF FileType
<1>6. RequestWork'
  BY <1>2, <1>3, NotBusyRequest DEF RequestWork
<1>7. Alone'
  BY <1>1, <1>2 DEF Alone
<1> QED
  BY <1>2, <1>4, <1>5, <1>6, <1>7

LEMMA CsvEndsBase ==
    ASSUME BaseInv, CsvEnds
    PROVE  BaseInv'
<1> USE DEF BaseInv
<1>1. /\ ReadingCsv /\ ~Busy("request")
      /\ at' = Idle /\ existing' = EmptyDict /\ counts' = NoCounts /\ before' = {}
      /\ UNCHANGED <<managers, file, left, changes, quiet, ghosts>>
  BY DEF CsvEnds
<1>2. /\ MemoryType' /\ WorkType' /\ DeleteSees'
      /\ \A t : Busy(t)' <=> Busy(t)
  BY <1>1, ManagersKept
<1>3. ~Importing' /\ ~ReadingCsv'
  BY <1>1 DEF Importing, ReadingCsv, Idle
<1>4. RequestsType'
  <2>1. EmptyDict \in Dict(Macs, BOOLEAN)
    BY EmptyDictProperties
  <2>2. NoCounts \in [{"imported", "updated", "failed"} -> 0..MaxRows]
    BY BoundsAreNaturals DEF NoCounts
  <2> QED
    BY <1>1, <2>1, <2>2 DEF RequestsType, ghosts
<1>5. FileType'
  BY <1>1, <1>3 DEF FileType
<1>6. RequestWork'
  BY <1>1, <1>2, <1>3 DEF RequestWork
<1>7. doubtful' = doubtful /\ restoration' = restoration /\ exact' = exact
  BY <1>1 DEF ghosts, managers
<1>8. Alone'
  BY <1>1, <1>2, <1>7 DEF Alone, ReadingCsv, Idle
<1> QED
  BY <1>2, <1>4, <1>5, <1>6, <1>8

\* A result has been counted.
LEMMA RequestRests ==
    ASSUME WorkType, work' = [work EXCEPT !["request"] = AtRest]
    PROVE  /\ WorkType' /\ ~Busy("request")'
           /\ work'["other"] = work["other"] /\ work'["request"] = AtRest
<1>1. /\ work'["other"] = work["other"] /\ work'["request"] = AtRest
      /\ work' = [t \in Threads |-> work'[t]]
  BY ThreadsAre DEF WorkType
<1>2. ~Busy("request")'
  BY <1>1, AtRestFields DEF Busy
<1>3. \A t \in Threads : work'[t] = Fields(work'[t])
  BY <1>1, AtRestFields, ThreadsAre DEF WorkType
<1>4. IF Busy("other")' THEN OperationOK(work["other"]) ELSE work["other"] = AtRest
  BY <1>1, ThreadsAre DEF WorkType, Busy
<1>5. \A t \in Threads : IF Busy(t)' THEN OperationOK(work'[t]) ELSE work'[t] = AtRest
  BY <1>1, <1>2, <1>4, ThreadsAre
<1> QED
  BY <1>1, <1>2, <1>3, <1>5 DEF WorkType, Busy, OperationOK

LEMMA ImportKindEndsBase ==
    ASSUME BaseInv, ImportKindEnds
    PROVE  BaseInv'
<1> USE DEF BaseInv
<1>1. /\ Importing /\ left = {}
      /\ work' = [work EXCEPT !["request"] = AtRest]
      /\ \/ /\ at[2] < 5 /\ at' = <<"import", at[2] + 1>> /\ left' = file[Kinds[at[2] + 1]]
            /\ restoration' = restoration
         \/ /\ at[2] >= 5 /\ at' = Idle /\ left' = left
            /\ restoration' = IF restoration = "none" THEN "none" ELSE "done"
      /\ UNCHANGED <<memory, groupIndex, tables, doubtful, file, csv, changes, quiet, exact>>
  <2>1. at[2] \in 1..5
    BY AtShape DEF ImportKindEnds
  <2> QED
    BY <2>1 DEF ImportKindEnds
<1>2. /\ WorkType' /\ ~Busy("request")'
      /\ work'["other"] = work["other"] /\ work'["request"] = AtRest
  BY <1>1, RequestRests
<1>3. MemoryType'
  BY <1>1 DEF MemoryType
<1>4. at[1] = "import" /\ at[2] \in 1..5
  BY <1>1, AtShape DEF Importing
<1>5. ~ReadingCsv'
  BY <1>1 DEF ReadingCsv, Idle
<1>6. RequestsType'
  <2>1. at' \in {Idle, <<"csv", 1>>} \cup ({"export", "import"} \X (1..5))
    BY <1>1, <1>4
  <2>2. restoration' \in {"none", "fresh", "done"}
    BY <1>1 DEF RequestsType
  <2> QED
    BY <1>1, <2>1, <2>2 DEF RequestsType, csv
<1>7. FileType'
  <2>1. ASSUME Importing' PROVE left' \subseteq file'[KindOf(at')]
    BY <1>1, <2>1 DEF Importing, Idle, KindOf
  <2> QED
    BY <1>1, <2>1 DEF FileType
<1>8. RequestWork'
  BY <1>2 DEF RequestWork
<1>9. DeleteSees'
  BY <1>1, <1>2 DEF DeleteSees
<1>10. Busy("other")' <=> Busy("other")
  BY <1>2 DEF Busy
<1>11. Alone'
  BY <1>1, <1>4, <1>10 DEF Alone, Idle
<1> QED
  BY <1>2, <1>3, <1>6, <1>7, <1>8, <1>9, <1>11

\* An operation of the request's thread begins.
LEMMA RequestBegins ==
    ASSUME BaseInv, NEW what, NEW kind \in KindNames, NEW key, NEW value,
           Begins("request", what, kind, key, value),
           what \in {"create", "update"}, key \in KeysOf(kind),
           what = "create" => value \in ObjectsOf(kind),
           what = "update" => kind \in Members /\ value \in Changes(kind),
           UNCHANGED <<at, quiet, restoration, exact>>
    PROVE  /\ MemoryType' /\ WorkType' /\ DeleteSees' /\ Alone'
           /\ work'["request"].what = what /\ work'["request"].kind = kind
           /\ work'["request"].key = key /\ work'["request"].value = value
           /\ work'["other"] = work["other"] /\ UNCHANGED memory
<1> USE DEF BaseInv
<1>1. "request" \in Threads /\ Other("request") = "other"
  BY ThreadsAre
<1>2. /\ UNCHANGED <<memory, groupIndex, tables>>
      /\ work'["other"] = work["other"]
      /\ work'["request"].what = what /\ work'["request"].kind = kind
      /\ work'["request"].key = key /\ work'["request"].value = value
      /\ ~Busy("other") => doubtful' = doubtful
      /\ doubtful' \subseteq doubtful \cup SavedWith(kind)
  BY RequestBeginsDoes
<1>3. WorkType'
  BY <1>1, BeginsType
<1>4. SavedWith(kind) \subseteq KindNames
  BY KindParts
<1>5. MemoryType'
  BY <1>2, <1>4 DEF MemoryType
<1>6. work'["other"] = work["other"]
  BY <1>1, <1>2
<1>7. DeleteSees'
  BY <1>2, <1>6 DEF DeleteSees
<1>8. Busy("other")' <=> Busy("other")
  BY <1>6 DEF Busy
<1>9. Alone'
  BY <1>1, <1>2, <1>8 DEF Alone
<1> QED
  BY <1>2, <1>3, <1>5, <1>6, <1>7, <1>9

LEMMA ImportEntityDoes ==
    ASSUME BaseInv, ImportEntity
    PROVE  \E e \in left :
            /\ e \in file[KindOf(at)] /\ left' = left \ {e}
            /\ KeyOf(KindOf(at), e) \in KeysOf(KindOf(at)) /\ e[2] \in ObjectsOf(KindOf(at))
            /\ Begins("request", "create", KindOf(at), KeyOf(KindOf(at), e), e[2])
<1> USE DEF BaseInv
<1>1. PICK e \in left : /\ left' = left \ {e}
                        /\ Begins("request", "create", KindOf(at), KeyOf(KindOf(at), e), e[2])
  BY DEF ImportEntity
<1>2. KindOf(at) \in KindNames /\ e \in file[KindOf(at)]
  BY AtShape DEF ImportEntity, FileType
<1>3. e \in NamesOf(KindOf(at)) \X ObjectsOf(KindOf(at))
  BY <1>2 DEF FileType
<1>4. e[1] \in NamesOf(KindOf(at)) /\ e[2] \in ObjectsOf(KindOf(at))
  BY <1>3
<1>5. KeyOf(KindOf(at), e) \in KeysOf(KindOf(at))
  <2>1. CASE KindOf(at) = "clients"
    BY <1>4, <2>1 DEF NamesOf, KeyOf, KeysOf, Key, Keys, Spellings
  <2>2. CASE KindOf(at) # "clients"
    BY <1>4, <2>2 DEF NamesOf, KeyOf
  <2> QED
    BY <2>1, <2>2
<1> QED
  BY <1>1, <1>2, <1>4, <1>5

LEMMA ImportEntityBase ==
    ASSUME BaseInv, ImportEntity
    PROVE  BaseInv'
<1> USE DEF BaseInv
<1>1. PICK e \in left :
            /\ e \in file[KindOf(at)] /\ left' = left \ {e}
            /\ KeyOf(KindOf(at), e) \in KeysOf(KindOf(at)) /\ e[2] \in ObjectsOf(KindOf(at))
            /\ Begins("request", "create", KindOf(at), KeyOf(KindOf(at), e), e[2])
  BY ImportEntityDoes
<1>2. Importing /\ UNCHANGED <<file, at, csv, changes, quiet, ghosts>>
  BY DEF ImportEntity
<1>3. KindOf(at) \in KindNames
  BY <1>2, AtShape
<1>4. UNCHANGED <<at, quiet, restoration, exact>>
  BY <1>2 DEF ghosts
<1>5. /\ MemoryType' /\ WorkType' /\ DeleteSees' /\ Alone'
      /\ work'["request"].what = "create" /\ work'["request"].kind = KindOf(at)
      /\ work'["request"].key = KeyOf(KindOf(at), e) /\ work'["request"].value = e[2]
  BY <1>1, <1>3, <1>4, RequestBegins
<1>6. /\ file' = file /\ KindOf(at)' = KindOf(at)
      /\ Importing' /\ ~ReadingCsv'
  BY <1>2 DEF KindOf, Importing, ReadingCsv
<1>7. RequestWork'
  BY <1>1, <1>5, <1>6 DEF RequestWork
<1>8. FileType'
  BY <1>1, <1>2, <1>6 DEF FileType
<1>9. RequestsType'
  BY <1>2 DEF RequestsType, csv, ghosts
<1> QED
  BY <1>5, <1>7, <1>8, <1>9

LEMMA CsvRowDoes ==
    ASSUME BaseInv, NEW m \in Macs, NEW s \in Spellings, NEW g \in ClientGroups,
           CsvRow(m, s, g)
    PROVE  /\ ReadingCsv /\ RowsLeft /\ ~Busy("request")
           /\ UNCHANGED <<file, at, left, csv, changes, quiet, ghosts>>
           /\ \/ /\ m \in DOMAIN existing
                 /\ Begins("request", "update", "clients", Key(m), [group |-> g])
              \/ /\ m \notin DOMAIN existing
                 /\ Begins("request", "create", "clients", <<m, s>>, [group |-> g])
           /\ Key(m) \in KeysOf("clients") /\ <<m, s>> \in KeysOf("clients")
           /\ [group |-> g] \in ObjectsOf("clients") /\ [group |-> g] \in Changes("clients")
           /\ "clients" \in Members /\ "clients" \in KindNames
<1>1. Key(m) \in KeysOf("clients") /\ <<m, s>> \in KeysOf("clients")
  BY DEF KeysOf, Key, Keys, Spellings
<1>2. [group |-> g] \in ObjectsOf("clients") /\ [group |-> g] \in Changes("clients")
  BY DEF ObjectsOf, Changes
<1>3. "clients" \in Members /\ "clients" \in KindNames
  BY DEF Members, KindNames
<1>4. \/ /\ m \in DOMAIN existing
         /\ Begins("request", "update", "clients", Key(m), [group |-> g])
      \/ /\ m \notin DOMAIN existing
         /\ Begins("request", "create", "clients", <<m, s>>, [group |-> g])
  BY DEF CsvRow
<1> QED
  BY <1>1, <1>2, <1>3, <1>4 DEF CsvRow

LEMMA CsvRowBase ==
    ASSUME BaseInv, NEW m \in Macs, NEW s \in Spellings, NEW g \in ClientGroups,
           CsvRow(m, s, g)
    PROVE  BaseInv'
<1> DEFINE v == [group |-> g]
<1>1. /\ ReadingCsv /\ RowsLeft /\ ~Busy("request")
      /\ UNCHANGED <<file, at, left, csv, changes, quiet, ghosts>>
      /\ \/ /\ m \in DOMAIN existing
            /\ Begins("request", "update", "clients", Key(m), v)
         \/ /\ m \notin DOMAIN existing
            /\ Begins("request", "create", "clients", <<m, s>>, v)
      /\ Key(m) \in KeysOf("clients") /\ <<m, s>> \in KeysOf("clients")
      /\ v \in ObjectsOf("clients") /\ v \in Changes("clients")
      /\ "clients" \in Members /\ "clients" \in KindNames
  BY CsvRowDoes
<1>2. Key(m)[1] = m /\ <<m, s>>[1] = m
  BY DEF Key
<1> HIDE DEF v
<1>3. /\ UNCHANGED <<at, quiet, restoration, exact>> /\ UNCHANGED <<existing, counts>>
      /\ file' = file /\ left' = left
  BY <1>1 DEF ghosts, csv
<1>4. ~Importing' /\ (ReadingCsv' <=> ReadingCsv) /\ (RowsLeft' <=> RowsLeft)
  BY <1>1, <1>3 DEF Importing, ReadingCsv, RowsLeft
<1>5. /\ MemoryType' /\ WorkType' /\ DeleteSees' /\ Alone'
      /\ work'["request"].kind = "clients"
      /\ \/ /\ work'["request"].what = "create"
            /\ work'["request"].key[1] \notin DOMAIN existing
         \/ /\ work'["request"].what = "update"
            /\ work'["request"].key[1] \in DOMAIN existing
  <2>1. CASE m \in DOMAIN existing /\ Begins("request", "update", "clients", Key(m), v)
    <3>1. /\ MemoryType' /\ WorkType' /\ DeleteSees' /\ Alone'
          /\ work'["request"].what = "update" /\ work'["request"].kind = "clients"
          /\ work'["request"].key = Key(m)
      BY <1>1, <1>3, <2>1, RequestBegins
    <3> QED
      BY <1>2, <2>1, <3>1
  <2>2. CASE m \notin DOMAIN existing /\ Begins("request", "create", "clients", <<m, s>>, v)
    <3>1. /\ MemoryType' /\ WorkType' /\ DeleteSees' /\ Alone'
          /\ work'["request"].what = "create" /\ work'["request"].kind = "clients"
          /\ work'["request"].key = <<m, s>>
      BY <1>1, <1>3, <2>2, RequestBegins
    <3> QED
      BY <1>2, <2>2, <3>1
  <2> QED
    BY <1>1, <2>1, <2>2
<1>6. RequestWork'
  BY <1>1, <1>3, <1>4, <1>5 DEF RequestWork
<1>7. FileType'
  BY <1>3, <1>4 DEF FileType, BaseInv
<1>8. RequestsType'
  BY <1>1 DEF RequestsType, csv, ghosts, BaseInv
<1> QED
  BY <1>5, <1>6, <1>7, <1>8 DEF BaseInv

LEMMA CountBase ==
    ASSUME BaseInv, ReadingCsv, NEW result \in {"imported", "updated", "failed"},
           RowsLeft, Count(result), existing' \in Dict(Macs, BOOLEAN)
    PROVE  BaseInv'
<1>1. /\ counts' = [counts EXCEPT ![result] = @ + 1]
      /\ work' = [work EXCEPT !["request"] = AtRest]
      /\ UNCHANGED <<memory, groupIndex, tables, doubtful>>
      /\ UNCHANGED <<file, at, left, before, changes, quiet, ghosts>>
  BY DEF Count
<1>2. /\ WorkType' /\ ~Busy("request")'
      /\ work'["other"] = work["other"]
  BY <1>1, RequestRests DEF BaseInv
<1>3. MemoryType'
  BY <1>1 DEF MemoryType, BaseInv
<1>4. counts' \in [{"imported", "updated", "failed"} -> 0..MaxRows]
  <2>1. counts \in [{"imported", "updated", "failed"} -> 0..MaxRows]
    BY DEF BaseInv, RequestsType
  <2>2. /\ counts["imported"] \in 0..MaxRows /\ counts["updated"] \in 0..MaxRows
        /\ counts["failed"] \in 0..MaxRows
    BY <2>1
  <2>3. counts["imported"] + counts["updated"] + counts["failed"] < MaxRows
    BY DEF RowsLeft
  <2>4. counts[result] + 1 \in 0..MaxRows
    BY <2>2, <2>3, BoundsAreNaturals
  <2> QED
    BY <1>1, <2>1, <2>4
<1>5. RequestsType'
  BY <1>1, <1>4 DEF RequestsType, ghosts, BaseInv
<1>6. ~Importing /\ ~Importing' /\ file' = file
  BY <1>1 DEF Importing, ReadingCsv
<1>7. FileType'
  BY <1>6 DEF FileType, BaseInv
<1>8. RequestWork'
  BY <1>2 DEF RequestWork
<1>9. DeleteSees'
  BY <1>1, <1>2 DEF DeleteSees, BaseInv
<1>10. Busy("other")' <=> Busy("other")
  BY <1>2 DEF Busy
<1>11. Alone'
  BY <1>1, <1>10 DEF Alone, ghosts, BaseInv
<1> QED
  BY <1>2, <1>3, <1>5, <1>7, <1>8, <1>9, <1>11 DEF BaseInv

\* The rows: each of them counts one result.
CsvResult ==
    \/ \E named \in BOOLEAN : CsvUpdated(named)
    \/ CsvCreated \/ CsvFailed \/ CsvBadRow

LEMMA CsvResultBase ==
    ASSUME BaseInv, CsvResult
    PROVE  BaseInv'
<1>1. existing \in Dict(Macs, BOOLEAN)
  BY DEF BaseInv, RequestsType
<1>2. ReadingCsv /\ RowsLeft
  <2>1. ReadingCsv
    BY DEF CsvResult, CsvUpdated, CsvCreated, CsvFailed, CsvBadRow
  <2>2. RowsLeft \/ Busy("request")
    BY DEF CsvResult, CsvUpdated, CsvCreated, CsvFailed, CsvBadRow, Busy
  <2> QED
    BY <2>1, <2>2 DEF BaseInv, RequestWork
<1>3. ASSUME NEW named \in BOOLEAN, CsvUpdated(named) PROVE BaseInv'
  <2>1. PICK result \in {"failed", "updated"} : Count(result)
    BY <1>3 DEF CsvUpdated
  <2>2. existing' = existing
    BY <1>3 DEF CsvUpdated
  <2> QED
    BY <1>1, <1>2, <2>1, <2>2, CountBase
<1>4. ASSUME CsvCreated PROVE BaseInv'
  <2>1. work["request"].step = "done"
    BY <1>4 DEF CsvCreated
  <2>2. Busy("request")
    BY <2>1 DEF Busy
  <2>3. OperationOK(work["request"]) /\ work["request"].kind = "clients"
    BY <1>2, <2>2, ThreadsAre DEF BaseInv, RequestWork, WorkType
  <2>4. work["request"].key[1] \in Macs
    BY <2>3 DEF OperationOK, KeysOf, Keys
  <2> DEFINE found == Key(work["request"].key[1]) \in DOMAIN memory["clients"]
  <2>5. existing' = Put(existing, work["request"].key[1], found) /\ found \in BOOLEAN
    BY <1>4 DEF CsvCreated
  <2> HIDE DEF found
  <2>6. existing' \in Dict(Macs, BOOLEAN)
    <3>1. PICK m \in Macs, f \in BOOLEAN : existing' = Put(existing, m, f)
      BY <2>4, <2>5
    <3> QED
      BY <1>1, <3>1, PutProperties
  <2>7. Count("imported")
    BY <1>4 DEF CsvCreated
  <2> QED
    BY <1>2, <2>6, <2>7, CountBase
<1>5. ASSUME CsvFailed \/ CsvBadRow PROVE BaseInv'
  <2>1. Count("failed") /\ existing' = existing
    BY <1>5 DEF CsvFailed, CsvBadRow
  <2> QED
    BY <1>1, <1>2, <2>1, CountBase
<1> QED
  BY <1>3, <1>4, <1>5 DEF CsvResult

LEMMA AdministerBase ==
    ASSUME BaseInv, NEW what \in {"create", "update", "delete"}, NEW kind \in KindNames,
           NEW key \in KeysOf(kind), NEW value,
           what = "create" => value \in ObjectsOf(kind),
           what = "update" => kind \in Members /\ value \in Changes(kind),
           what = "delete" => value = NoObject,
           Administer(what, kind, key, value)
    PROVE  BaseInv'
<1>1. /\ changes < MaxChanges /\ ~Refused(what, kind, key, value)
      /\ Begins("other", what, kind, key, value)
      /\ changes' = changes + 1 /\ quiet' = FALSE /\ restoration' = "none"
      /\ UNCHANGED <<file, at, left, csv, exact>>
  BY DEF Administer
<1>2. "other" \in Threads /\ Other("other") = "request" /\ WorkType
  BY ThreadsAre DEF BaseInv
<1>3. /\ UNCHANGED <<memory, groupIndex, tables>>
      /\ work'["request"] = work["request"]
      /\ doubtful' \subseteq doubtful \cup SavedWith(kind)
  <2>1. work'[Other("other")] = work[Other("other")]
    BY <1>1, <1>2, BeginsDoes
  <2>2. /\ UNCHANGED <<memory, groupIndex, tables>>
        /\ doubtful' \subseteq doubtful \cup SavedWith(kind)
    BY <1>1 DEF Begins
  <2> QED
    BY <1>2, <2>1, <2>2
<1>4. PICK step : work' = [work EXCEPT !["other"] = Operation(what, kind, key, value, step)]
  BY <1>1 DEF Begins
<1>5. work'["other"] = Operation(what, kind, key, value, step)
  BY <1>2, <1>4 DEF WorkType
<1>6. /\ work'["other"].what = what /\ work'["other"].kind = kind
      /\ work'["other"].key = key
  BY <1>5 DEF Operation
<1>7. WorkType'
  BY <1>1, <1>2, BeginsType
<1>8. MemoryType'
  <2>1. SavedWith(kind) \subseteq KindNames
    BY KindParts
  <2> QED
    BY <1>3, <2>1 DEF MemoryType, BaseInv
<1>9. DeleteSees'
  <2>1. what = "delete" => key \in DOMAIN memory[kind]
    BY <1>1 DEF Refused
  <2> QED
    BY <1>3, <1>6, <2>1 DEF DeleteSees
<1>10. UNCHANGED <<file, at, left, existing, counts, before, exact>>
  BY <1>1 DEF csv
<1>11. RequestsType'
  <2>1. changes \in 0..MaxChanges
    BY DEF RequestsType, BaseInv
  <2>2. changes' \in 0..MaxChanges
    BY <1>1, <2>1, BoundsAreNaturals
  <2>3. quiet' \in BOOLEAN /\ restoration' \in {"none", "fresh", "done"}
    BY <1>1
  <2> QED
    BY <1>10, <2>2, <2>3 DEF RequestsType, BaseInv
<1>12. FileType'
  BY <1>10 DEF FileType, BaseInv, Importing, KindOf
<1>13. RequestWork'
  <2>1. /\ Importing' <=> Importing
        /\ ReadingCsv' <=> ReadingCsv
        /\ RowsLeft' <=> RowsLeft
        /\ KindOf(at)' = KindOf(at)
    BY <1>10 DEF Importing, ReadingCsv, RowsLeft, KindOf
  <2>2. Busy("request")' <=> Busy("request")
    BY <1>3 DEF Busy
  <2>3. RequestWork
    BY DEF BaseInv
  <2> QED
    BY <1>3, <1>10, <2>1, <2>2, <2>3 DEF RequestWork
<1>14. Alone'
  BY <1>1 DEF Alone
<1> QED
  BY <1>7, <1>8, <1>9, <1>11, <1>12, <1>13, <1>14 DEF BaseInv

LEMMA AdministratorBase ==
    ASSUME BaseInv, Administrator
    PROVE  BaseInv'
<1>0. PICK kind \in KindNames : \E key \in KeysOf(kind) :
        \/ \E value \in ObjectsOf(kind) : Administer("create", kind, key, value)
        \/ kind \in Members /\ \E value \in Changes(kind) :
                                    Administer("update", kind, key, value)
        \/ Administer("delete", kind, key, NoObject)
  BY DEF Administrator
<1>1. PICK key \in KeysOf(kind) :
        \/ \E value \in ObjectsOf(kind) : Administer("create", kind, key, value)
        \/ kind \in Members /\ \E value \in Changes(kind) :
                                    Administer("update", kind, key, value)
        \/ Administer("delete", kind, key, NoObject)
  BY <1>0
<1>2. ASSUME NEW value \in ObjectsOf(kind), Administer("create", kind, key, value)
      PROVE  BaseInv'
  BY <1>2, AdministerBase
<1>3. ASSUME kind \in Members, NEW value \in Changes(kind),
             Administer("update", kind, key, value)
      PROVE  BaseInv'
  BY <1>3, AdministerBase
<1>4. ASSUME Administer("delete", kind, key, NoObject)
      PROVE  BaseInv'
  BY <1>4, AdministerBase
<1> QED
  BY <1>1, <1>2, <1>3, <1>4

\* No operation is at work.
LEMMA NobodyWorks ==
    ASSUME work' = [t \in Threads |-> AtRest]
    PROVE  WorkType' /\ (\A t \in Threads : ~Busy(t)') /\ (\A t \in Threads : work'[t] = AtRest)
<1>1. \A t \in Threads : work'[t] = AtRest
  OBVIOUS
<1>2. \A t \in Threads : ~Busy(t)'
  BY <1>1, AtRestFields DEF Busy
<1>3. work' = [t \in Threads |-> work'[t]]
  OBVIOUS
<1>4. \A t \in Threads : work'[t] = Fields(work'[t])
  BY <1>1, AtRestFields
<1>5. \A t \in Threads : IF Busy(t)' THEN OperationOK(work'[t]) ELSE work'[t] = AtRest
  BY <1>1, <1>2
<1> QED
  BY <1>1, <1>2, <1>3, <1>4, <1>5 DEF WorkType, Busy, OperationOK

LEMMA FreshInstallBase ==
    ASSUME BaseInv, FreshInstall
    PROVE  BaseInv'
<1>1. /\ at = Idle
      /\ memory' = [kind \in KindNames |-> EmptyDict] /\ groupIndex' = EmptyDict
      /\ tables' = [kind \in KindNames |-> EmptyDict] /\ doubtful' = {}
      /\ work' = [t \in Threads |-> AtRest]
      /\ restoration' = IF exact THEN "fresh" ELSE "none"
      /\ UNCHANGED <<file, at, left, csv, changes, quiet, exact>>
  BY DEF FreshInstall, Empty
<1>2. /\ WorkType' /\ (\A t \in Threads : ~Busy(t)')
      /\ work'["other"] = AtRest
  BY <1>1, NobodyWorks, ThreadsAre
<1>3. MemoryType'
  <2>1. \A kind \in KindNames : EmptyDict \in Entities(kind)
    BY EmptyDictProperties DEF Entities
  <2>2. EmptyDict \in Dict(ClientGroups, PolicyNames)
    BY EmptyDictProperties
  <2>3. \A kind \in KindNames : memory'[kind] \in Entities(kind) /\ tables'[kind] \in Entities(kind)
    BY <1>1, <2>1
  <2> QED
    BY <1>1, <2>2, <2>3 DEF MemoryType
<1>4. ~Importing /\ ~Importing' /\ ~ReadingCsv'
  BY <1>1 DEF Importing, ReadingCsv, Idle
<1>5. RequestsType'
  BY <1>1 DEF RequestsType, csv, BaseInv
<1>6. FileType'
  BY <1>1, <1>4 DEF FileType, BaseInv
<1>7. ~Busy("other")' /\ ~Busy("request")'
  BY <1>2, ThreadsAre
<1>8. RequestWork'
  BY <1>7 DEF RequestWork
<1>9. DeleteSees'
  BY <1>2 DEF DeleteSees, AtRest
<1>10. Alone'
  BY <1>1, <1>7 DEF Alone, Idle
<1> QED
  BY <1>2, <1>3, <1>5, <1>6, <1>8, <1>9, <1>10 DEF BaseInv

\* What is loaded of a table: part of its rows, clients under canonical keys.
LEMMA DistinctPart ==
    ASSUME NEW d, NEW column, NEW x \in Distinct(d, column)
    PROVE  DOMAIN x \subseteq DOMAIN d /\ x = [k \in DOMAIN x |-> d[k]]
BY DEF Distinct

LEMMA CanonicalParts ==
    ASSUME NEW cs, NEW k \in DOMAIN Canonical(cs)
    PROVE  \E j \in DOMAIN cs : k = Key(j[1]) /\ Canonical(cs)[k] = cs[j]
<1>1. PICK i \in DOMAIN cs : k = Key(i[1])
  BY DEF Canonical
<1>2. k[1] = i[1]
  BY <1>1 DEF Key
<1>3. PICK c : c = CHOOSE j \in DOMAIN cs : j[1] = k[1]
  OBVIOUS
<1>4. c \in DOMAIN cs /\ c[1] = k[1]
  BY <1>2, <1>3
<1>5. Canonical(cs)[k] = cs[c]
  BY <1>3 DEF Canonical
<1> QED
  BY <1>1, <1>2, <1>4, <1>5

LEMMA LoadsParts ==
    ASSUME NEW kind \in KindNames, NEW d, NEW x \in Loads(kind, d)
    PROVE  /\ kind # "clients" =>
                \A k \in DOMAIN x : k \in DOMAIN d /\ x[k] = d[k]
           /\ kind = "clients" =>
                \A k \in DOMAIN x : \E j \in DOMAIN d : k = Key(j[1]) /\ x[k] = d[j]
           /\ x = [k \in DOMAIN x |-> x[k]] \/ x = d
<1>1. CASE kind \in Groups
  <2>1. kind # "clients" /\ kind # "devices" /\ kind # "policies"
    BY <1>1 DEF Groups
  <2>2. x = d
    BY <1>1, <2>1 DEF Loads
  <2> QED
    BY <2>1, <2>2
<1>2. CASE kind = "devices"
  <2>1. x \in Distinct(d, [n \in DOMAIN d |-> d[n].ip])
    BY <1>2 DEF Loads, Groups
  <2> QED
    BY <1>2, <2>1, DistinctPart
<1>3. CASE kind = "policies"
  <2>1. x \in Distinct(d, [n \in DOMAIN d |-> d[n].group])
    BY <1>3 DEF Loads, Groups
  <2> QED
    BY <1>3, <2>1, DistinctPart
<1>4. CASE kind = "clients"
  <2>1. PICK cs \in Distinct(d, [k \in DOMAIN d |-> k[1]]) : x = Canonical(cs)
    BY <1>4 DEF Loads, Groups
  <2>2. DOMAIN cs \subseteq DOMAIN d /\ \A k \in DOMAIN cs : cs[k] = d[k]
    BY DistinctPart
  <2>3. ASSUME NEW k \in DOMAIN x
        PROVE  \E j \in DOMAIN d : k = Key(j[1]) /\ x[k] = d[j]
    <3>1. PICK j \in DOMAIN cs : k = Key(j[1]) /\ Canonical(cs)[k] = cs[j]
      BY <2>1, <2>3, CanonicalParts
    <3> QED
      BY <2>1, <2>2, <3>1
  <2>4. x = [k \in DOMAIN x |-> x[k]]
    BY <2>1 DEF Canonical
  <2> QED
    BY <1>4, <2>3, <2>4
<1> QED
  BY <1>1, <1>2, <1>3, <1>4 DEF KindNames, Members

LEMMA LoadsType ==
    ASSUME NEW kind \in KindNames, NEW d \in Entities(kind), NEW x \in Loads(kind, d)
    PROVE  x \in Entities(kind)
<1>1. d \in Dict(KeysOf(kind), ObjectsOf(kind))
  BY DEF Entities
<1>2. /\ kind # "clients" => \A k \in DOMAIN x : k \in DOMAIN d /\ x[k] = d[k]
      /\ kind = "clients" =>
            \A k \in DOMAIN x : \E j \in DOMAIN d : k = Key(j[1]) /\ x[k] = d[j]
      /\ x = [k \in DOMAIN x |-> x[k]] \/ x = d
  BY LoadsParts
<1>3. ASSUME NEW k \in DOMAIN x
      PROVE  k \in KeysOf(kind) /\ x[k] \in ObjectsOf(kind)
  <2>1. CASE kind # "clients"
    <3>1. k \in DOMAIN d /\ x[k] = d[k]
      BY <1>2, <1>3, <2>1
    <3> QED
      BY <1>1, <3>1, DictValue
  <2>2. CASE kind = "clients"
    <3>1. PICK j \in DOMAIN d : k = Key(j[1]) /\ x[k] = d[j]
      BY <1>2, <1>3, <2>2
    <3>2. j \in KeysOf(kind) /\ d[j] \in ObjectsOf(kind)
      BY <1>1, DictValue
    <3>3. k \in KeysOf(kind)
      BY <2>2, <3>1, <3>2 DEF KeysOf, Keys, Key, Spellings
    <3> QED
      BY <3>1, <3>2, <3>3
  <2> QED
    BY <2>1, <2>2
<1>4. CASE x = d
  BY <1>4
<1>5. CASE x = [k \in DOMAIN x |-> x[k]]
  <2>1. x \in [DOMAIN x -> ObjectsOf(kind)] /\ DOMAIN x \subseteq KeysOf(kind)
    BY <1>3, <1>5
  <2> QED
    BY <2>1, DictDef DEF Entities
<1> QED
  BY <1>2, <1>4, <1>5

LEMMA IndexOfParts ==
    ASSUME NEW ps \in Entities("policies")
    PROVE  /\ IndexOf(ps) \in Dict(ClientGroups, PolicyNames)
           /\ \A g \in DOMAIN IndexOf(ps) :
                IndexOf(ps)[g] \in DOMAIN ps /\ ps[IndexOf(ps)[g]].group = g
           /\ \A n \in DOMAIN ps : ps[n].group \in DOMAIN IndexOf(ps)
<1>1. ps \in Dict(PolicyNames, [group : ClientGroups])
  BY DEF Entities, KeysOf, ObjectsOf
<1>2. \A n \in DOMAIN ps : n \in PolicyNames /\ ps[n].group \in ClientGroups
  <2>1. ASSUME NEW n \in DOMAIN ps PROVE n \in PolicyNames /\ ps[n] \in [group : ClientGroups]
    BY <1>1, DictValue
  <2> QED
    BY <2>1
<1>3. DOMAIN IndexOf(ps) = {ps[n].group : n \in DOMAIN ps}
  BY DEF IndexOf
<1>4. ASSUME NEW g \in DOMAIN IndexOf(ps)
      PROVE  IndexOf(ps)[g] \in DOMAIN ps /\ ps[IndexOf(ps)[g]].group = g
  <2>1. \E n \in DOMAIN ps : ps[n].group = g
    BY <1>3
  <2>2. PICK c : c = CHOOSE n \in DOMAIN ps : ps[n].group = g
    OBVIOUS
  <2>3. c \in DOMAIN ps /\ ps[c].group = g
    BY <2>1, <2>2
  <2>4. IndexOf(ps)[g] = c
    BY <1>3, <2>2 DEF IndexOf
  <2> QED
    BY <2>3, <2>4
<1>5. IndexOf(ps) \in [DOMAIN IndexOf(ps) -> PolicyNames]
  <2>1. \A g \in DOMAIN IndexOf(ps) : IndexOf(ps)[g] \in PolicyNames
    BY <1>2, <1>4
  <2>2. IndexOf(ps) = [g \in DOMAIN IndexOf(ps) |-> IndexOf(ps)[g]]
    BY DEF IndexOf
  <2> QED
    BY <2>1, <2>2
<1>6. DOMAIN IndexOf(ps) \subseteq ClientGroups
  BY <1>2, <1>3
<1>7. IndexOf(ps) \in Dict(ClientGroups, PolicyNames)
  BY <1>5, <1>6, DictDef
<1> QED
  BY <1>3, <1>4, <1>7

\* The five dictionaries.
LEMMA FiveKinds ==
    ASSUME NEW dg, NEW ds, NEW cg, NEW cs, NEW ps, NEW mem,
           mem = [device_groups |-> dg, devices |-> ds, client_groups |-> cg,
                  clients |-> cs, policies |-> ps]
    PROVE  /\ mem = [kind \in KindNames |-> mem[kind]]
           /\ mem["device_groups"] = dg /\ mem["devices"] = ds /\ mem["client_groups"] = cg
           /\ mem["clients"] = cs /\ mem["policies"] = ps
<1>1. DOMAIN mem = KindNames
  BY DEF KindNames, Groups, Members
<1>2. mem = [kind \in DOMAIN mem |-> mem[kind]]
  OBVIOUS
<1> QED
  BY <1>1, <1>2

LEMMA EachKind ==
    ASSUME NEW kind \in KindNames
    PROVE  \/ kind = "device_groups" \/ kind = "devices" \/ kind = "client_groups"
           \/ kind = "clients" \/ kind = "policies"
BY DEF KindNames, Groups, Members

\* Every dictionary is loaded from what its table, or its manager, had.
LEMMA LoadDoes ==
    ASSUME MemoryType, Load
    PROVE  /\ memory' = [kind \in KindNames |-> memory'[kind]]
           /\ \A kind \in KindNames :
                \E d : /\ d = tables[kind] \/ d = memory[kind] \/
                          (kind \in doubtful /\ d \in Entities(kind))
                       /\ memory'[kind] \in Loads(kind, d)
           /\ groupIndex' = IndexOf(memory'["policies"])
           /\ tables' = memory' /\ doubtful' = {}
           /\ work' = [t \in Threads |-> AtRest]
<1>1. PICK disk \in OnDisk :
        \E dg \in Loadable(disk, "device_groups"), ds \in Loadable(disk, "devices"),
           cg \in Loadable(disk, "client_groups"), cs \in Loadable(disk, "clients"),
           ps \in Loadable(disk, "policies") :
            memory' = [device_groups |-> dg, devices |-> ds, client_groups |-> cg,
                       clients |-> cs, policies |-> ps]
  BY DEF Load
<1>2. PICK dg \in Loadable(disk, "device_groups"), ds \in Loadable(disk, "devices"),
           cg \in Loadable(disk, "client_groups"), cs \in Loadable(disk, "clients"),
           ps \in Loadable(disk, "policies") :
            memory' = [device_groups |-> dg, devices |-> ds, client_groups |-> cg,
                       clients |-> cs, policies |-> ps]
  BY <1>1
<1>3. /\ memory' = [kind \in KindNames |-> memory'[kind]]
      /\ memory'["device_groups"] = dg /\ memory'["devices"] = ds
      /\ memory'["client_groups"] = cg
      /\ memory'["clients"] = cs /\ memory'["policies"] = ps
  BY <1>2, FiveKinds
<1>4. \A kind \in KindNames : disk[kind] = tables[kind] \/ disk[kind] = memory[kind]
  <2>1. CASE disk = tables
    BY <2>1
  <2>2. CASE \E kind \in Groups : disk = [tables EXCEPT ![kind] = memory[kind]]
    BY <2>2 DEF MemoryType
  <2> QED
    BY <2>1, <2>2 DEF OnDisk
<1>5. ASSUME NEW kind \in KindNames
      PROVE  memory'[kind] \in Loadable(disk, kind)
  BY <1>3, EachKind
<1>6. ASSUME NEW kind \in KindNames
      PROVE  \E d : /\ d = tables[kind] \/ d = memory[kind] \/
                          (kind \in doubtful /\ d \in Entities(kind))
                    /\ memory'[kind] \in Loads(kind, d)
  <2>1. PICK d \in (IF kind \in doubtful THEN Entities(kind) ELSE {disk[kind]}) :
            memory'[kind] \in Loads(kind, d)
    BY <1>5 DEF Loadable
  <2> QED
    BY <1>4, <2>1
<1> QED
  BY <1>3, <1>6 DEF Load

LEMMA LoadType ==
    ASSUME MemoryType, Load
    PROVE  MemoryType' /\ WorkType' /\ \A t \in Threads : work'[t] = AtRest
<1>1. /\ memory' = [kind \in KindNames |-> memory'[kind]]
      /\ \A kind \in KindNames :
                \E d : /\ d = tables[kind] \/ d = memory[kind] \/
                          (kind \in doubtful /\ d \in Entities(kind))
                       /\ memory'[kind] \in Loads(kind, d)
      /\ groupIndex' = IndexOf(memory'["policies"])
      /\ tables' = memory' /\ doubtful' = {}
      /\ work' = [t \in Threads |-> AtRest]
  BY LoadDoes
<1>2. ASSUME NEW kind \in KindNames PROVE memory'[kind] \in Entities(kind)
  <2>1. PICK d : /\ d = tables[kind] \/ d = memory[kind] \/
                          (kind \in doubtful /\ d \in Entities(kind))
                 /\ memory'[kind] \in Loads(kind, d)
    BY <1>1
  <2>2. d \in Entities(kind)
    BY <2>1 DEF MemoryType
  <2> QED
    BY <2>1, <2>2, LoadsType
<1>3. groupIndex' \in Dict(ClientGroups, PolicyNames)
  <2>1. memory'["policies"] \in Entities("policies")
    BY <1>2, KindParts
  <2> QED
    BY <1>1, <2>1, IndexOfParts
<1>4. MemoryType'
  BY <1>1, <1>2, <1>3 DEF MemoryType
<1> QED
  BY <1>1, <1>4, NobodyWorks

LEMMA CrashBase ==
    ASSUME BaseInv, Crash
    PROVE  BaseInv'
<1>1. /\ Load /\ at' = Idle
      /\ file' = file \/ file' = EmptyFile
      /\ existing' = EmptyDict /\ counts' = NoCounts /\ before' = {}
      /\ restoration' = IF restoration = "none" THEN "none" ELSE "fresh"
      /\ UNCHANGED <<changes, quiet, exact>>
  BY DEF Crash
<1>2. MemoryType' /\ WorkType' /\ (\A t \in Threads : work'[t] = AtRest) /\ doubtful' = {}
  BY <1>1, LoadType, LoadDoes DEF BaseInv
<1>3. ~Importing' /\ ~ReadingCsv'
  BY <1>1 DEF Importing, ReadingCsv, Idle
<1>4. RequestsType'
  <2>1. EmptyDict \in Dict(Macs, BOOLEAN)
    BY EmptyDictProperties
  <2>2. NoCounts \in [{"imported", "updated", "failed"} -> 0..MaxRows]
    BY BoundsAreNaturals DEF NoCounts
  <2> QED
    BY <1>1, <2>1, <2>2 DEF RequestsType, BaseInv
<1>5. FileType'
  BY <1>1, <1>3, EmptyFileType DEF FileType, BaseInv
<1>6. ~Busy("other")' /\ ~Busy("request")'
  BY <1>2, ThreadsAre, AtRestFields DEF Busy
<1>7. RequestWork'
  BY <1>6 DEF RequestWork
<1>8. DeleteSees'
  BY <1>2, ThreadsAre DEF DeleteSees, AtRest
<1>9. Alone'
  BY <1>1, <1>2, <1>6 DEF Alone, Idle, BaseInv
<1> QED
  BY <1>2, <1>4, <1>5, <1>7, <1>8, <1>9 DEF BaseInv

LEMMA InitBase ==
    Init => BaseInv
<1> SUFFICES ASSUME Init PROVE BaseInv
  OBVIOUS
<1>1. PICK dg \in Entities("device_groups"), ds \in Entities("devices"),
           cg \in Entities("client_groups"), cs \in Entities("clients"),
           ps \in Entities("policies") :
        memory = [device_groups |-> dg, devices |-> ds, client_groups |-> cg,
                  clients |-> cs, policies |-> ps]
  BY DEF Init
<1>2. /\ memory = [kind \in KindNames |-> memory[kind]]
      /\ memory["device_groups"] = dg /\ memory["devices"] = ds
      /\ memory["client_groups"] = cg
      /\ memory["clients"] = cs /\ memory["policies"] = ps
  BY <1>1, FiveKinds
<1>3. \A kind \in KindNames : memory[kind] \in Entities(kind)
  BY <1>2, EachKind
<1>4. /\ groupIndex = IndexOf(memory["policies"])
      /\ tables = memory /\ doubtful = {}
      /\ work = [t \in Threads |-> AtRest]
      /\ file = EmptyFile /\ at = Idle
      /\ existing = EmptyDict /\ counts = NoCounts /\ before = {}
      /\ changes = 0 /\ quiet = TRUE /\ exact = FALSE /\ restoration = "none"
  BY DEF Init
<1>5. MemoryType
  <2>1. groupIndex \in Dict(ClientGroups, PolicyNames)
    BY <1>2, <1>4, IndexOfParts
  <2> QED
    BY <1>2, <1>3, <1>4, <2>1 DEF MemoryType
<1>6. \A t \in Threads : work[t] = AtRest /\ ~Busy(t)
  BY <1>4, AtRestFields DEF Busy
<1>7. WorkType
  BY <1>4, <1>6, AtRestFields DEF WorkType
<1>8. RequestsType
  <2>1. EmptyDict \in Dict(Macs, BOOLEAN)
    BY EmptyDictProperties
  <2>2. NoCounts \in [{"imported", "updated", "failed"} -> 0..MaxRows]
    BY BoundsAreNaturals DEF NoCounts
  <2>3. changes \in 0..MaxChanges
    BY <1>4, BoundsAreNaturals
  <2> QED
    BY <1>4, <2>1, <2>2, <2>3 DEF RequestsType
<1>9. ~Importing /\ ~ReadingCsv
  BY <1>4 DEF Importing, ReadingCsv, Idle
<1>10. FileType
  BY <1>4, <1>9, EmptyFileType DEF FileType
<1>11. RequestWork
  BY <1>6, <1>9, ThreadsAre DEF RequestWork
<1>12. DeleteSees
  BY <1>6, ThreadsAre DEF DeleteSees, AtRest
<1>13. Alone
  BY <1>4 DEF Alone, Idle
<1> QED
  BY <1>5, <1>7, <1>8, <1>10, <1>11, <1>12, <1>13 DEF BaseInv

\* The actions.
LEMMA Actions ==
    ASSUME Next
    PROVE  \/ ExportBegins \/ ExportKind
           \/ ImportBegins \/ ImportEntity \/ ImportKindEnds
           \/ CsvBegins
           \/ \E m \in Macs, s \in Spellings, g \in ClientGroups : CsvRow(m, s, g)
           \/ CsvResult \/ CsvEnds
           \/ Administrator
           \/ \E t \in Threads : Operate(t)
           \/ FreshInstall \/ Crash
BY DEF Next, Request, CsvResult

LEMMA NextBase ==
    ASSUME BaseInv, [Next]_vars
    PROVE  BaseInv'
<1>1. CASE UNCHANGED vars
  <2>1. /\ UNCHANGED managers /\ UNCHANGED <<existing, counts, before>>
        /\ UNCHANGED <<file, at, left, changes, quiet, exact, restoration>>
    BY <1>1 DEF vars, csv, ghosts
  <2>2. /\ MemoryType' /\ WorkType' /\ DeleteSees'
        /\ \A t : Busy(t)' <=> Busy(t)
    BY <2>1, ManagersKept
  <2>3. /\ Importing' <=> Importing
        /\ ReadingCsv' <=> ReadingCsv
        /\ RowsLeft' <=> RowsLeft
        /\ KindOf(at)' = KindOf(at)
    BY <2>1 DEF Importing, ReadingCsv, RowsLeft, KindOf
  <2>4. work' = work /\ doubtful' = doubtful
    BY <2>1 DEF managers
  <2>5. RequestsType'
    BY <2>1 DEF RequestsType, BaseInv
  <2>6. FileType'
    BY <2>1, <2>3 DEF FileType, BaseInv
  <2>7. RequestWork'
    <3>1. RequestWork
      BY DEF BaseInv
    <3> QED
      BY <2>1, <2>2, <2>3, <2>4, <3>1 DEF RequestWork
  <2>8. Alone'
    BY <2>1, <2>2, <2>4 DEF Alone, BaseInv
  <2> QED
    BY <2>2, <2>5, <2>6, <2>7, <2>8 DEF BaseInv
<1>2. CASE Next
  BY <1>2, Actions, ExportBeginsBase, ExportKindBase, ImportBeginsBase, ImportEntityBase,
     ImportKindEndsBase, CsvBeginsBase, CsvRowBase, CsvResultBase, CsvEndsBase,
     AdministratorBase, OperateBase, FreshInstallBase, CrashBase
<1> QED
  BY <1>1, <1>2

-----------------------------------------------------------------------------
(* KeyFree *)

\* An operation that no entry gets in the way of.
LEMMA FreeStays ==
    ASSUME WorkType, NEW t \in Threads, FreeFor(work[t]), work'[t] = work[t],
           \A kind \in KindNames : DOMAIN memory'[kind] \subseteq DOMAIN memory[kind],
           DOMAIN groupIndex' \subseteq DOMAIN groupIndex
    PROVE  FreeFor(work[t])'
<1>1. CASE work[t].step \notin {"check", "write", "second"}
  BY <1>1 DEF FreeFor
<1>2. CASE work[t].step \in {"check", "write", "second"}
  <2>1. work[t].kind \in KindNames
    BY <1>2 DEF WorkType, Busy, OperationOK
  <2> QED
    BY <1>2, <2>1 DEF FreeFor
<1> QED
  BY <1>1, <1>2

\* One that has just looked.
LEMMA BeginsFree ==
    ASSUME WorkType, KeyFree, NEW t \in Threads, NEW what, NEW kind, NEW key, NEW value,
           Begins(t, what, kind, key, value)
    PROVE  KeyFree'
<1>1. /\ UNCHANGED <<memory, groupIndex, tables>>
      /\ work'[Other(t)] = work[Other(t)]
  BY BeginsDoes
<1>2. PICK step : /\ work' = [work EXCEPT ![t] = Operation(what, kind, key, value, step)]
                  /\ step # "failed" => ~Refused(what, kind, key, value)
  <2>1. CASE Refused(what, kind, key, value)
    BY <2>1 DEF Begins
  <2>2. CASE ~Refused(what, kind, key, value)
    BY <2>2 DEF Begins
  <2> QED
    BY <2>1, <2>2
<1>3. work'[t] = Operation(what, kind, key, value, step)
  BY <1>2 DEF WorkType
<1>4. /\ work'[t].what = what /\ work'[t].kind = kind
      /\ work'[t].key = key /\ work'[t].value = value /\ work'[t].step = step
  BY <1>3 DEF Operation
<1>5. FreeFor(work[t])'
  <2>1. CASE step = "failed"
    BY <1>4, <2>1 DEF FreeFor
  <2>2. CASE ~Refused(what, kind, key, value)
    BY <1>1, <1>4, <2>2 DEF FreeFor, Refused
  <2> QED
    BY <1>2, <2>1, <2>2
<1>6. FreeFor(work[Other(t)])'
  BY <1>1, FreeStays, ThreadsAre DEF KeyFree
<1> QED
  BY <1>5, <1>6, ThreadsAre DEF KeyFree

\* What the other thread's operation knows after a step of thread t.
LEMMA OtherFree ==
    ASSUME WorkType, NEW t \in Threads, FreeFor(work[Other(t)]),
           NEW value, NEW step, NEW touched, Went(t, value, step, touched),
           \A kind \in KindNames : \A k \in DOMAIN memory'[kind] :
                \/ k \in DOMAIN memory[kind]
                \/ /\ work[Other(t)].kind = kind /\ work[Other(t)].key = k
                      /\ kind # "policies" /\ Working(Other(t))
                   => touched,
           \A g \in DOMAIN groupIndex' :
                \/ g \in DOMAIN groupIndex
                \/ /\ work[Other(t)].kind = "policies" /\ work[Other(t)].value.group = g
                      /\ Working(Other(t))
                   => touched
    PROVE  FreeFor(work[Other(t)])'
<1> DEFINE o == Other(t)
<1>1. o \in Threads
  BY ThreadsAre
<1>2. /\ work'[o].what = work[o].what /\ work'[o].kind = work[o].kind
      /\ work'[o].key = work[o].key /\ work'[o].value = work[o].value
      /\ work'[o].step = work[o].step
      /\ work'[o].stale = (work[o].stale \/ touched)
  BY DEF Went
<1> SUFFICES ASSUME work[o].what = "create", work[o].step \in {"check", "write", "second"}
             PROVE  FreeFor(work[o])'
  BY <1>2 DEF FreeFor
<1>3. Working(o)
  BY DEF Working
<1>4. work[o].kind \in KindNames
  BY <1>1 DEF WorkType, Busy, OperationOK
<1>5. ASSUME work[o].kind # "policies", work[o].step \in {"check", "write"}
      PROVE  work'[o].stale \/ work[o].key \notin DOMAIN memory'[work[o].kind]
  BY <1>2, <1>3, <1>4, <1>5 DEF FreeFor
<1>6. ASSUME work[o].kind = "policies"
      PROVE  work'[o].stale \/ work[o].value.group \notin DOMAIN groupIndex'
  BY <1>2, <1>3, <1>6 DEF FreeFor
<1> HIDE DEF o
<1> QED
  BY <1>2, <1>5, <1>6 DEF FreeFor

\* An operation that is done with its looks has nothing to know any more.
LEMMA PastLooks ==
    ASSUME NEW t \in Threads, work'[t].step \notin {"check", "write", "second"}
    PROVE  FreeFor(work[t])'
BY DEF FreeFor

LEMMA StopsFree ==
    ASSUME WorkType, KeyFree, NEW t \in Threads, NEW result \in {"done", "failed"}, Stops(t, result),
           \A kind \in KindNames : DOMAIN memory'[kind] \subseteq DOMAIN memory[kind],
           DOMAIN groupIndex' \subseteq DOMAIN groupIndex
    PROVE  KeyFree'
<1>1. CASE t = "request" /\ Went(t, work[t].value, result, FALSE)
  <2>1. FreeFor(work[t])'
    BY <1>1, PastLooks DEF Went
  <2>2. work'[Other(t)] = work[Other(t)]
    BY <1>1, OtherKept
  <2>3. FreeFor(work[Other(t)])'
    BY <2>2, FreeStays, ThreadsAre DEF KeyFree
  <2> QED
    BY <2>1, <2>3, ThreadsAre DEF KeyFree
<1>2. CASE t = "other" /\ Over
  <2>1. FreeFor(work["other"])'
    <3>1. work'["other"].step = "none"
      BY <1>2, AtRestFields DEF Over
    <3> QED
      BY <3>1, PastLooks, ThreadsAre
  <2>2. work'["request"] = work["request"]
    BY <1>2 DEF Over
  <2>3. FreeFor(work["request"])'
    BY <2>2, FreeStays, ThreadsAre DEF KeyFree
  <2> QED
    BY <2>1, <2>3, ThreadsAre DEF KeyFree
<1> QED
  BY <1>1, <1>2 DEF Stops

LEMMA CheckFree ==
    ASSUME WorkType, KeyFree, NEW t \in Threads, Check(t)
    PROVE  KeyFree'
<1>1. /\ work[t].step = "check"
      /\ UNCHANGED memory /\ Unsaved
      /\ \/ Went(t, work[t].value, "write", FALSE)
         \/ Stops(t, "failed")
  BY CheckDoes
<1>2. UNCHANGED <<memory, groupIndex>>
  BY <1>1 DEF Unsaved
<1>3. CASE Went(t, work[t].value, "write", FALSE)
  <2>1. FreeFor(work[t])'
    <3>1. /\ work'[t].what = work[t].what /\ work'[t].kind = work[t].kind
          /\ work'[t].key = work[t].key /\ work'[t].value = work[t].value
          /\ work'[t].step = "write" /\ work'[t].stale = work[t].stale
      BY <1>3 DEF Went
    <3>2. FreeFor(work[t])
      BY DEF KeyFree
    <3> QED
      BY <1>1, <1>2, <3>1, <3>2 DEF FreeFor
  <2>2. work'[Other(t)] = work[Other(t)]
    BY <1>3, OtherKept
  <2>3. FreeFor(work[Other(t)])'
    BY <1>2, <2>2, FreeStays, ThreadsAre DEF KeyFree
  <2> QED
    BY <2>1, <2>3, ThreadsAre DEF KeyFree
<1>4. CASE Stops(t, "failed")
  BY <1>2, <1>4, StopsFree
<1> QED
  BY <1>1, <1>3, <1>4

LEMMA InsertFree ==
    ASSUME MemoryType, WorkType, KeyFree, NEW t \in Threads, Insert(t)
    PROVE  KeyFree'
<1>1. /\ work[t].step = "write" /\ work[t].what = "create"
      /\ memory' = [memory EXCEPT ![work[t].kind] =
                       Put(memory[work[t].kind], work[t].key, work[t].value)]
      /\ Went(t, work[t].value, AfterWrite(work[t]), SameEntry(t))
      /\ Unsaved
  BY InsertDoes
<1>2. groupIndex' = groupIndex
  BY <1>1 DEF Unsaved
<1>3. OperationOK(work[t])
  BY <1>1 DEF WorkType, Busy
<1>4. work[t].kind \in KindNames
  BY <1>3 DEF OperationOK
<1> DEFINE d == Put(memory[work[t].kind], work[t].key, work[t].value)
<1>5. DOMAIN d = DOMAIN memory[work[t].kind] \cup {work[t].key}
  BY DEF Put
<1>6. memory' = [memory EXCEPT ![work[t].kind] = d]
  BY <1>1
<1> HIDE DEF d
<1>7. /\ memory'[work[t].kind] = d
      /\ \A k \in KindNames : k # work[t].kind => memory'[k] = memory[k]
  BY <1>4, <1>6, OneDict
<1>8. FreeFor(work[t])'
  <2>1. /\ work'[t].what = work[t].what /\ work'[t].kind = work[t].kind
        /\ work'[t].key = work[t].key /\ work'[t].value = work[t].value
        /\ work'[t].step = AfterWrite(work[t]) /\ work'[t].stale = work[t].stale
    BY <1>1 DEF Went
  <2>2. FreeFor(work[t])
    BY DEF KeyFree
  <2>3. CASE work[t].kind = "policies"
    BY <1>1, <1>2, <2>1, <2>2, <2>3 DEF FreeFor
  <2>4. CASE work[t].kind # "policies"
    BY <1>1, <2>1, <2>4 DEF FreeFor, AfterWrite
  <2> QED
    BY <2>3, <2>4
<1>9. \A kind \in KindNames : \A k \in DOMAIN memory'[kind] :
                \/ k \in DOMAIN memory[kind]
                \/ kind = work[t].kind /\ k = work[t].key
  BY <1>5, <1>7
<1>10. \A kind \in KindNames : \A k \in DOMAIN memory'[kind] :
                \/ k \in DOMAIN memory[kind]
                \/ /\ work[Other(t)].kind = kind /\ work[Other(t)].key = k
                      /\ kind # "policies" /\ Working(Other(t))
                   => SameEntry(t)
  BY <1>9 DEF SameEntry
<1>11. FreeFor(work[Other(t)])
  BY ThreadsAre DEF KeyFree
<1>12. FreeFor(work[Other(t)])'
  BY <1>1, <1>2, <1>10, <1>11, OtherFree
<1> QED
  BY <1>8, <1>12, ThreadsAre DEF KeyFree

\* Nothing is added.
LEMMA WentFree ==
    ASSUME WorkType, KeyFree, NEW t \in Threads,
           NEW value, NEW step, NEW touched, Went(t, value, step, touched),
           work[t].what # "create" \/ step \notin {"check", "write", "second"},
           \A kind \in KindNames : DOMAIN memory'[kind] \subseteq DOMAIN memory[kind],
           DOMAIN groupIndex' \subseteq DOMAIN groupIndex
    PROVE  KeyFree'
<1>1. FreeFor(work[t])'
  BY DEF FreeFor, Went
<1>2. FreeFor(work[Other(t)])
  BY ThreadsAre DEF KeyFree
<1>3. FreeFor(work[Other(t)])'
  BY <1>2, OtherFree
<1> QED
  BY <1>1, <1>3, ThreadsAre DEF KeyFree

LEMMA RemoveFree ==
    ASSUME MemoryType, WorkType, KeyFree, NEW t \in Threads, Remove(t)
    PROVE  KeyFree'
<1>1. /\ work[t].step = "write" /\ work[t].what = "delete"
      /\ memory' = [memory EXCEPT ![work[t].kind] =
                       Drop(memory[work[t].kind], work[t].key)]
      /\ Went(t, memory[work[t].kind][work[t].key], AfterWrite(work[t]), SameEntry(t))
      /\ Unsaved
  BY RemoveDoes
<1>2. work[t].kind \in KindNames
  BY <1>1 DEF WorkType, Busy, OperationOK
<1>3. /\ memory'[work[t].kind] = Drop(memory[work[t].kind], work[t].key)
      /\ \A k \in KindNames : k # work[t].kind => memory'[k] = memory[k]
  BY <1>1, <1>2, OneDict
<1>4. DOMAIN Drop(memory[work[t].kind], work[t].key) \subseteq DOMAIN memory[work[t].kind]
  <2>1. PICK d, k : d = memory[work[t].kind] /\ k = work[t].key
    OBVIOUS
  <2>2. DOMAIN Drop(d, k) \subseteq DOMAIN d
    BY DropValues
  <2> QED
    BY <2>1, <2>2
<1>5. \A kind \in KindNames : DOMAIN memory'[kind] \subseteq DOMAIN memory[kind]
  BY <1>3, <1>4
<1>6. DOMAIN groupIndex' \subseteq DOMAIN groupIndex
  BY <1>1 DEF Unsaved
<1> QED
  BY <1>1, <1>5, <1>6, WentFree

LEMMA IndexFree ==
    ASSUME MemoryType, WorkType, KeyFree, NEW t \in Threads, Index(t)
    PROVE  KeyFree'
<1>1. /\ work[t].step = "second" /\ work[t].kind = "policies"
      /\ UNCHANGED <<memory, tables, doubtful>>
      /\ \/ groupIndex' = Put(groupIndex, work[t].value.group, work[t].key)
         \/ groupIndex' = Drop(groupIndex, work[t].value.group)
      /\ Went(t, work[t].value, "save", SameGroup(t))
  BY IndexDoes
<1>2. DOMAIN groupIndex' \subseteq DOMAIN groupIndex \cup {work[t].value.group}
  <2>1. PICK g, n : g = work[t].value.group /\ n = work[t].key
    OBVIOUS
  <2>2. DOMAIN Put(groupIndex, g, n) \subseteq DOMAIN groupIndex \cup {g}
    BY DEF Put
  <2>3. DOMAIN Drop(groupIndex, g) \subseteq DOMAIN groupIndex \cup {g}
    BY DropValues
  <2> QED
    BY <1>1, <2>1, <2>2, <2>3
<1>3. FreeFor(work[t])'
  BY <1>1, PastLooks DEF Went
<1>4. FreeFor(work[Other(t)])
  BY ThreadsAre DEF KeyFree
<1>5. \A g \in DOMAIN groupIndex' :
                \/ g \in DOMAIN groupIndex
                \/ /\ work[Other(t)].kind = "policies" /\ work[Other(t)].value.group = g
                      /\ Working(Other(t))
                   => SameGroup(t)
  BY <1>1, <1>2 DEF SameGroup
<1>6. \A kind \in KindNames : \A k \in DOMAIN memory'[kind] : k \in DOMAIN memory[kind]
  BY <1>1
<1>7. FreeFor(work[Other(t)])'
  BY <1>1, <1>4, <1>5, <1>6, OtherFree
<1> QED
  BY <1>3, <1>7, ThreadsAre DEF KeyFree

LEMMA OperateFree ==
    ASSUME BaseInv, KeyFree, NEW t \in Threads, Steps(t)
    PROVE  KeyFree'
<1>0. MemoryType /\ WorkType
  BY DEF BaseInv
<1>1. CASE Check(t)
  BY <1>0, <1>1, CheckFree
<1>2. CASE Insert(t)
  BY <1>0, <1>2, InsertFree
<1>3. CASE Remove(t)
  BY <1>0, <1>3, RemoveFree
<1>4. CASE Assign(t)
  <2>1. /\ work[t].what = "update"
        /\ Went(t, work[t].value, AfterWrite(work[t]), FALSE)
        /\ Unsaved
    BY <1>0, <1>4, AssignDoes
  <2>2. \A k \in KindNames : DOMAIN memory'[k] = DOMAIN memory[k]
    BY <1>0, <1>4, AssignType
  <2> QED
    BY <1>0, <2>1, <2>2, WentFree DEF Unsaved
<1>5. CASE SetAddress(t)
  <2>1. /\ Stops(t, "failed") \/ Went(t, work[t].value, "save", FALSE)
        /\ Unsaved
    BY <1>0, <1>5, SetAddressDoes
  <2>2. \A k \in KindNames : DOMAIN memory'[k] = DOMAIN memory[k]
    BY <1>0, <1>5, SetAddressType
  <2>3. DOMAIN groupIndex' \subseteq DOMAIN groupIndex
    BY <2>1 DEF Unsaved
  <2>4. Stops(t, "failed") => KeyFree'
    BY <1>0, <2>2, <2>3, StopsFree
  <2>5. Went(t, work[t].value, "save", FALSE) => KeyFree'
    BY <1>0, <2>2, <2>3, WentFree
  <2> QED
    BY <2>1, <2>4, <2>5
<1>6. CASE Index(t)
  BY <1>0, <1>6, IndexFree
<1>7. CASE Save(t)
  <2>1. UNCHANGED <<memory, groupIndex>> /\ Stops(t, "done")
    BY <1>0, <1>7, SaveDoes
  <2> QED
    BY <1>0, <2>1, StopsFree
<1> QED
  BY <1>1, <1>2, <1>3, <1>4, <1>5, <1>6, <1>7 DEF Steps

\* Nobody adds an entry, and the other thread's operation stays or is through.
LEMMA RestFree ==
    ASSUME WorkType, KeyFree, UNCHANGED <<memory, groupIndex>>,
           \A t \in Threads : work'[t] = work[t] \/ work'[t] = AtRest
    PROVE  KeyFree'
<1>1. ASSUME NEW t \in Threads PROVE FreeFor(work[t])'
  <2>1. CASE work'[t] = work[t]
    BY <2>1, FreeStays DEF KeyFree
  <2>2. CASE work'[t] = AtRest
    BY <2>2, AtRestFields, PastLooks
  <2> QED
    BY <2>1, <2>2
<1> QED
  BY <1>1 DEF KeyFree

LEMMA InitFree ==
    Init => KeyFree
BY AtRestFields DEF Init, KeyFree, FreeFor

LEMMA NextFree ==
    ASSUME BaseInv, KeyFree, [Next]_vars
    PROVE  KeyFree'
<1>0. MemoryType /\ WorkType
  BY DEF BaseInv
<1>1. ASSUME UNCHANGED managers PROVE KeyFree'
  BY <1>0, <1>1, RestFree DEF managers
<1>2. CASE ExportBegins \/ ExportKind \/ ImportBegins \/ CsvBegins \/ CsvEnds \/ UNCHANGED vars
  BY <1>1, <1>2 DEF ExportBegins, ExportKind, ImportBegins, CsvBegins, CsvEnds, vars
<1>3. CASE ImportEntity
  <2>1. PICK e \in left : Begins("request", "create", KindOf(at), KeyOf(KindOf(at), e), e[2])
    BY <1>3 DEF ImportEntity
  <2> QED
    BY <1>0, <2>1, BeginsFree, ThreadsAre
<1>4. ASSUME NEW m \in Macs, NEW s \in Spellings, NEW g \in ClientGroups, CsvRow(m, s, g)
      PROVE  KeyFree'
  BY <1>0, <1>4, BeginsFree, ThreadsAre DEF CsvRow
<1>5. CASE ImportKindEnds \/ CsvResult
  <2>1. work' = [work EXCEPT !["request"] = AtRest] /\ UNCHANGED <<memory, groupIndex>>
    BY <1>5 DEF ImportKindEnds, CsvResult, CsvUpdated, CsvCreated, CsvFailed, CsvBadRow, Count
  <2> QED
    BY <1>0, <2>1, RequestRests, RestFree, ThreadsAre
<1>6. CASE Administrator
  <2>1. \E what, kind, key, value : Begins("other", what, kind, key, value)
    BY <1>6 DEF Administrator, Administer
  <2> QED
    BY <1>0, <2>1, BeginsFree, ThreadsAre
<1>7. ASSUME NEW t \in Threads, Operate(t) PROVE KeyFree'
  BY <1>7, OperateFree DEF Operate
<1>8. CASE FreshInstall \/ Crash
  <2>1. work' = [t \in Threads |-> AtRest]
    BY <1>8 DEF FreshInstall, Crash, Empty, Load
  <2> QED
    BY <2>1, AtRestFields, PastLooks DEF KeyFree
<1> QED
  BY <1>2, <1>3, <1>4, <1>5, <1>6, <1>7, <1>8, Actions

\* A step of the other thread's operation takes it somewhere else.
LEMMA OtherMoves ==
    ASSUME WorkType, Steps("other")
    PROVE  work'["other"].step # work["other"].step
<1>0. "other" \in Threads
  BY ThreadsAre
<1>1. ASSUME NEW result \in {"done", "failed"}, Stops("other", result) PROVE work'["other"].step = "none"
  BY <1>1, AtRestFields DEF Stops, Over
<1>2. CASE Check("other")
  <2>1. /\ work["other"].step = "check"
        /\ \/ Went("other", work["other"].value, "write", FALSE)
           \/ Stops("other", "failed")
    BY <1>0, <1>2, CheckDoes
  <2> QED
    BY <1>1, <2>1 DEF Went
<1>3. ASSUME NEW value, NEW touched, Went("other", value, AfterWrite(work["other"]), touched),
             work["other"].step = "write"
      PROVE  work'["other"].step # work["other"].step
  BY <1>3 DEF Went, AfterWrite
<1>4. CASE Insert("other")
  BY <1>0, <1>3, <1>4, InsertDoes
<1>5. CASE Remove("other")
  BY <1>0, <1>3, <1>5, RemoveDoes
<1>6. CASE Assign("other")
  BY <1>0, <1>3, <1>6, AssignDoes
<1>7. CASE SetAddress("other")
  <2>1. /\ work["other"].step = "second"
        /\ \/ Went("other", work["other"].value, "save", FALSE)
           \/ Stops("other", "failed")
    BY <1>0, <1>7, SetAddressDoes
  <2> QED
    BY <1>1, <2>1 DEF Went
<1>8. CASE Index("other")
  <2>1. /\ work["other"].step = "second"
        /\ Went("other", work["other"].value, "save", SameGroup("other"))
    BY <1>0, <1>8, IndexDoes
  <2> QED
    BY <2>1 DEF Went
<1>9. CASE Save("other")
  <2>1. work["other"].step = "save" /\ Stops("other", "done")
    BY <1>0, <1>9, SaveDoes
  <2> QED
    BY <1>1, <2>1
<1> QED
  BY <1>2, <1>4, <1>5, <1>6, <1>7, <1>8, <1>9 DEF Steps

\* What an import may do to memory.
Kept ==
    LET op == work["request"] IN
        /\ \A kind \in KindNames \ {"policies"} : \A k \in DOMAIN memory[kind] :
            /\ k \in DOMAIN memory'[kind]
            /\ \/ memory'[kind][k] = memory[kind][k]
               \/ op.stale /\ op.kind = kind /\ op.key = k
        /\ \A g \in DOMAIN groupIndex :
            /\ g \in DOMAIN groupIndex'
            /\ \/ groupIndex'[g] = groupIndex[g]
               \/ op.stale /\ op.kind = "policies" /\ op.value.group = g
        /\ \A n \in DOMAIN memory["policies"] :
            /\ n \in DOMAIN memory'["policies"]
            /\ \/ memory'["policies"][n] = memory["policies"][n]
               \/ /\ <<n, memory'["policies"][n]>> \in file["policies"]
                  /\ op.stale \/ memory'["policies"][n].group \notin DOMAIN groupIndex

LEMMA InsertKeeps ==
    ASSUME BaseInv, KeyFree, Importing, Insert("request")
    PROVE  Kept
<1> DEFINE op == work["request"]
<1>0. "request" \in Threads /\ MemoryType /\ WorkType
  BY ThreadsAre DEF BaseInv
<1>1. /\ op.step = "write" /\ op.what = "create"
      /\ memory' = [memory EXCEPT ![op.kind] = Put(memory[op.kind], op.key, op.value)]
      /\ groupIndex' = groupIndex
  BY <1>0, InsertDoes DEF Unsaved
<1>2. OperationOK(op)
  BY <1>0, <1>1 DEF WorkType, Busy
<1>3. op.kind \in KindNames
  BY <1>2 DEF OperationOK
<1>4. FreeFor(op)
  BY <1>0 DEF KeyFree
<1> DEFINE d == Put(memory[op.kind], op.key, op.value)
<1>5. /\ DOMAIN d = DOMAIN memory[op.kind] \cup {op.key}
      /\ d[op.key] = op.value
      /\ \A k \in DOMAIN memory[op.kind] \ {op.key} : d[k] = memory[op.kind][k]
  BY DEF Put
<1>6. memory' = [memory EXCEPT ![op.kind] = d]
  BY <1>1
<1> HIDE DEF d
<1>7. /\ memory'[op.kind] = d
      /\ \A k \in KindNames : k # op.kind => memory'[k] = memory[k]
  BY <1>0, <1>3, <1>6, OneDict
<1>8. ASSUME NEW kind \in KindNames \ {"policies"}, NEW k \in DOMAIN memory[kind]
      PROVE  /\ k \in DOMAIN memory'[kind]
             /\ \/ memory'[kind][k] = memory[kind][k]
                \/ op.stale /\ op.kind = kind /\ op.key = k
  <2>1. CASE kind # op.kind
    BY <1>7, <2>1
  <2>2. CASE kind = op.kind /\ k # op.key
    BY <1>5, <1>7, <2>2
  <2>3. CASE kind = op.kind /\ k = op.key
    <3>1. op.stale
      BY <1>1, <1>4, <1>8, <2>3 DEF FreeFor
    <3> QED
      BY <1>5, <1>7, <2>3, <3>1
  <2> QED
    BY <2>1, <2>2, <2>3
<1>9. ASSUME NEW n \in DOMAIN memory["policies"]
      PROVE  /\ n \in DOMAIN memory'["policies"]
             /\ \/ memory'["policies"][n] = memory["policies"][n]
                \/ /\ <<n, memory'["policies"][n]>> \in file["policies"]
                   /\ op.stale \/ memory'["policies"][n].group \notin DOMAIN groupIndex
  <2>1. CASE op.kind # "policies"
    BY <1>7, <2>1, KindParts
  <2>2. CASE op.kind = "policies" /\ n # op.key
    BY <1>5, <1>7, <2>2
  <2>3. CASE op.kind = "policies" /\ n = op.key
    <3>1. memory'["policies"][n] = op.value /\ n \in DOMAIN memory'["policies"]
      BY <1>5, <1>7, <2>3
    <3>2. op.stale \/ op.value.group \notin DOMAIN groupIndex
      BY <1>1, <1>4, <2>3 DEF FreeFor
    <3>3. Busy("request")
      BY <1>1 DEF Busy
    <3>4. KindOf(at) = "policies"
      BY <2>3, <3>3 DEF BaseInv, RequestWork
    <3>5. PICK e \in file["policies"] :
            op.key = KeyOf("policies", e) /\ op.value = e[2]
      BY <3>3, <3>4 DEF BaseInv, RequestWork
    <3>6. e \in NamesOf("policies") \X ObjectsOf("policies")
      BY <3>5, KindParts DEF BaseInv, FileType
    <3>7. e = <<e[1], e[2]>>
      BY <3>6
    <3>8. op.key = e[1]
      BY <3>5 DEF KeyOf
    <3> HIDE DEF op
    <3>9. <<n, memory'["policies"][n]>> \in file["policies"]
      BY <2>3, <3>1, <3>5, <3>7, <3>8
    <3> QED
      BY <3>1, <3>2, <3>9
  <2> QED
    BY <2>1, <2>2, <2>3
<1> QED
  BY <1>1, <1>8, <1>9 DEF Kept

LEMMA IndexKeeps ==
    ASSUME BaseInv, KeyFree, Importing, Index("request")
    PROVE  Kept
<1> DEFINE op == work["request"]
<1>0. "request" \in Threads /\ MemoryType /\ WorkType
  BY ThreadsAre DEF BaseInv
<1>1. /\ op.step = "second" /\ op.kind = "policies"
      /\ memory' = memory
      /\ \/ groupIndex' = Put(groupIndex, op.value.group, op.key)
         \/ op.what # "create"
  BY <1>0, IndexDoes
<1>2. op.what = "create"
  BY <1>1 DEF BaseInv, RequestWork, Busy
<1>3. FreeFor(op)
  BY <1>0 DEF KeyFree
<1>4. op.stale \/ op.value.group \notin DOMAIN groupIndex
  BY <1>1, <1>2, <1>3 DEF FreeFor
<1>5. groupIndex' = Put(groupIndex, op.value.group, op.key)
  BY <1>1, <1>2
<1>6. PICK g0, n0 : g0 = op.value.group /\ n0 = op.key
  OBVIOUS
<1>7. ASSUME NEW g \in DOMAIN groupIndex
      PROVE  /\ g \in DOMAIN groupIndex'
             /\ groupIndex'[g] = groupIndex[g] \/ g = g0
  BY <1>5, <1>6 DEF Put
<1>8. \A g \in DOMAIN groupIndex :
            /\ g \in DOMAIN groupIndex'
            /\ \/ groupIndex'[g] = groupIndex[g]
               \/ op.stale /\ op.kind = "policies" /\ op.value.group = g
  BY <1>1, <1>4, <1>6, <1>7
<1> QED
  BY <1>1, <1>8 DEF Kept

LEMMA UnchangedKeeps ==
    ASSUME UNCHANGED <<memory, groupIndex>>
    PROVE  Kept
BY DEF Kept

LEMMA NextKeeps ==
    ASSUME BaseInv, KeyFree, [Next]_vars, ImportStep
    PROVE  Kept
<1>0. /\ at[1] = "import" /\ at'[1] = "import" /\ at # Idle
      /\ work'["other"].step = work["other"].step
      /\ MemoryType /\ WorkType
  BY DEF ImportStep, Importing, BaseInv, Idle
<1>1. CASE UNCHANGED vars \/ ImportEntity \/ ImportKindEnds
  <2>1. UNCHANGED <<memory, groupIndex>>
    BY <1>1 DEF vars, managers, ImportEntity, Begins, ImportKindEnds
  <2> QED
    BY <2>1, UnchangedKeeps
<1>2. ~ExportBegins /\ ~ImportBegins /\ ~CsvBegins /\ ~FreshInstall
  BY <1>0 DEF ExportBegins, ImportBegins, CsvBegins, FreshInstall
<1>3. ~ExportKind /\ ~Crash /\ ~CsvEnds /\ ~CsvResult
  BY <1>0 DEF ExportKind, Exporting, Crash, CsvEnds, CsvResult, CsvUpdated, CsvCreated,
              CsvFailed, CsvBadRow, ReadingCsv, Idle
<1>4. \A m \in Macs, s \in Spellings, g \in ClientGroups : ~CsvRow(m, s, g)
  BY <1>0 DEF CsvRow, ReadingCsv
<1>5. ASSUME Administrator PROVE FALSE
  <2>1. PICK what, kind, key, value :
            ~Busy("other") /\ Begins("other", what, kind, key, value)
    BY <1>5 DEF Administrator, Administer
  <2>2. work'["other"].step \in {"failed", "check", "write"}
    BY <1>0, <2>1, BeginsDoes, ThreadsAre
  <2> QED
    BY <1>0, <2>1, <2>2 DEF Busy
<1>6. ASSUME NEW t \in Threads, Operate(t) PROVE Kept
  <2>1. Steps(t)
    BY <1>6 DEF Operate
  <2>2. t = "request"
    BY <1>0, <2>1, OtherMoves, ThreadsAre
  <2>3. Busy("request")
    BY <2>1, <2>2 DEF Steps, Check, Insert, Remove, Assign, SetAddress, Index, Save, Busy
  <2>4. OperationOK(work["request"]) /\ work["request"].what = "create"
    BY <1>0, <2>3, ThreadsAre DEF BaseInv, RequestWork, WorkType, Importing
  <2>5. ~Assign("request") /\ ~Remove("request")
    BY <2>4 DEF Assign, Remove
  <2>6. ~SetAddress("request")
    <3>1. ASSUME SetAddress("request") PROVE FALSE
      <4>1. work["request"].step = "second" /\ work["request"].kind = "devices"
        BY <3>1 DEF SetAddress
      <4>2. AfterWrite(work["request"]) = "second"
        BY <2>4, <4>1 DEF OperationOK
      <4> QED
        BY <2>4, <4>1, <4>2 DEF AfterWrite
    <3> QED
      BY <3>1
  <2>7. CASE Check("request") \/ Save("request")
    <3>1. UNCHANGED <<memory, groupIndex>>
      BY <2>7 DEF Check, Save
    <3> QED
      BY <3>1, UnchangedKeeps
  <2>8. CASE Insert("request")
    BY <1>0, <2>8, InsertKeeps DEF Importing
  <2>9. CASE Index("request")
    BY <1>0, <2>9, IndexKeeps DEF Importing
  <2> QED
    BY <2>1, <2>2, <2>5, <2>6, <2>7, <2>8, <2>9 DEF Steps
<1> QED
  BY <1>1, <1>2, <1>3, <1>4, <1>5, <1>6, Actions

-----------------------------------------------------------------------------
(* RestoreInv *)

\* What is no restoration has nothing to show, and a file that stays is the
\* snapshot it was.
LEMMA NoRestoration ==
    ASSUME restoration' = "none"
    PROVE  FromFile' /\ ImportProgress' /\ Complete'
BY DEF FromFile, ImportProgress, Complete

LEMMA SnapshotStays ==
    ASSUME FileIsSnapshot, ~Exporting', exact' = FALSE \/ (file' = file /\ exact' = exact)
    PROVE  FileIsSnapshot'
BY DEF FileIsSnapshot, Consistent

LEMMA InitRestore ==
    Init => RestoreInv
BY DEF Init, RestoreInv, FileIsSnapshot, FromFile, ImportProgress, Complete, Exporting, Idle

\* What a file written in one piece holds is consistent.
LEMMA ListedIsConsistent ==
    ASSUME MemoryType, Sound, NEW f, \A i \in 1..5 : f[Kinds[i]] = Listed(Kinds[i])
    PROVE  Consistent(f)
<1>1. \A kind \in KindNames : f[kind] = Listed(kind)
  BY KindsAre
<1>2. ASSUME NEW kind \in KindNames, NEW e \in f[kind]
      PROVE  \E k \in DOMAIN memory[kind] :
                e = <<IF kind = "clients" THEN k[1] ELSE k, memory[kind][k]>>
  BY <1>1, <1>2 DEF Listed
<1>3. ASSUME NEW kind \in Members, NEW e \in f[kind]
      PROVE  \E h \in f[GroupsOf(kind)] : h[1] = e[2].group
  <2>1. kind \in KindNames /\ GroupsOf(kind) \in KindNames /\ GroupsOf(kind) # "clients"
    BY KindParts DEF Groups
  <2>2. PICK k \in DOMAIN memory[kind] : e[2] = memory[kind][k]
    BY <1>2, <2>1
  <2>3. PICK g : g = memory[kind][k].group
    OBVIOUS
  <2>4. g \in DOMAIN memory[GroupsOf(kind)]
    BY <2>3 DEF Sound
  <2>5. <<g, memory[GroupsOf(kind)][g]>> \in f[GroupsOf(kind)]
    BY <1>1, <2>1, <2>4 DEF Listed
  <2> QED
    BY <2>2, <2>3, <2>5
<1>4. ASSUME NEW kind \in KindNames \ {"clients"}, NEW d \in f[kind], NEW e \in f[kind],
             d[1] = e[1]
      PROVE  d = e
  <2>1. PICK k \in DOMAIN memory[kind] : d = <<k, memory[kind][k]>>
    BY <1>2
  <2>2. PICK j \in DOMAIN memory[kind] : e = <<j, memory[kind][j]>>
    BY <1>2
  <2> QED
    BY <1>4, <2>1, <2>2
<1>5. ASSUME NEW d \in f["policies"], NEW e \in f["policies"], d[2].group = e[2].group
      PROVE  d = e
  <2>0. "policies" \in KindNames
    BY KindParts
  <2>1. PICK k \in DOMAIN memory["policies"] : d = <<k, memory["policies"][k]>>
    BY <1>2, <2>0
  <2>2. PICK j \in DOMAIN memory["policies"] : e = <<j, memory["policies"][j]>>
    BY <1>2, <2>0
  <2>3. k = j
    BY <1>5, <2>1, <2>2 DEF Sound
  <2> QED
    BY <2>1, <2>2, <2>3
<1> QED
  BY <1>3, <1>4, <1>5 DEF Consistent

LEMMA ExportKindRestore ==
    ASSUME BaseInv, RestoreInv, ExportKind
    PROVE  RestoreInv'
<1>0. MemoryType /\ RequestsType /\ FileType
  BY DEF BaseInv
<1>1. /\ Exporting
      /\ file' = [file EXCEPT ![KindOf(at)] = Listed(KindOf(at))]
      /\ \/ at[2] < 5 /\ at' = <<"export", at[2] + 1>> /\ exact' = exact
         \/ at[2] >= 5 /\ at' = Idle /\ exact' = (quiet /\ Sound)
      /\ UNCHANGED <<managers, left, csv, changes, quiet, restoration>>
  <2>1. at[2] \in 1..5
    BY <1>0, AtShape DEF ExportKind
  <2> QED
    BY <2>1 DEF ExportKind
<1>2. /\ at[1] = "export" /\ at[2] \in 1..5 /\ KindOf(at) \in KindNames
      /\ KindOf(at) = Kinds[at[2]] /\ ~exact
  BY <1>0, <1>1, AtShape DEF Exporting, RestoreInv, FileIsSnapshot
<1>3. restoration' = "none"
  BY <1>0, <1>1, <1>2 DEF BaseInv, Alone, RequestsType
<1>4. \A kind \in KindNames : Listed(kind)' = Listed(kind)
  BY <1>1 DEF Listed, managers
<1>5. quiet => \A i \in 1..5 : i <= at[2] => file'[Kinds[i]] = Listed(Kinds[i])
  <2> SUFFICES ASSUME quiet, NEW i \in 1..5, i <= at[2]
               PROVE  file'[Kinds[i]] = Listed(Kinds[i])
    OBVIOUS
  <2>1. Kinds[i] \in KindNames
    BY KindsAre
  <2>2. CASE i = at[2]
    BY <1>0, <1>1, <1>2, <2>1, <2>2 DEF FileType
  <2>3. CASE i < at[2]
    <3>1. file[Kinds[i]] = Listed(Kinds[i])
      BY <1>1, <2>3 DEF RestoreInv, FileIsSnapshot
    <3>2. Kinds[i] # KindOf(at)
      BY <1>2, <2>3, KindsAre
    <3> QED
      BY <1>0, <1>1, <2>1, <3>1, <3>2 DEF FileType
  <2> QED
    BY <1>2, <2>2, <2>3
<1>6. CASE at[2] < 5 /\ at' = <<"export", at[2] + 1>> /\ exact' = exact
  <2>1. quiet' => \A i \in 1..5 : i < at'[2] => file'[Kinds[i]] = Listed(Kinds[i])'
    BY <1>1, <1>2, <1>4, <1>5, <1>6, KindsAre
  <2>2. Exporting' /\ ~exact'
    BY <1>2, <1>6 DEF Exporting
  <2>3. FileIsSnapshot'
    BY <2>1, <2>2 DEF FileIsSnapshot
  <2> QED
    BY <1>3, <2>3, NoRestoration DEF RestoreInv
<1>7. CASE at[2] >= 5 /\ at' = Idle /\ exact' = (quiet /\ Sound)
  <2>1. ~Exporting'
    BY <1>7 DEF Exporting, Idle
  <2>2. ASSUME exact' PROVE Consistent(file)'
    <3>1. quiet /\ Sound
      BY <1>7, <2>2
    <3>2. \A i \in 1..5 : file'[Kinds[i]] = Listed(Kinds[i])
      BY <1>2, <1>5, <1>7, <3>1
    <3>3. Consistent(file')
      BY <1>0, <3>1, <3>2, ListedIsConsistent
    <3> QED
      BY <3>3 DEF Consistent
  <2>3. FileIsSnapshot'
    BY <2>1, <2>2 DEF FileIsSnapshot
  <2> QED
    BY <1>3, <2>3, NoRestoration DEF RestoreInv
<1> QED
  BY <1>1, <1>6, <1>7

LEMMA ImportBeginsRestore ==
    ASSUME BaseInv, RestoreInv, ImportBegins
    PROVE  RestoreInv'
<1>1. /\ at = Idle /\ at' = <<"import", 1>> /\ left' = file[Kinds[1]]
      /\ UNCHANGED <<managers, file, csv, changes, ghosts>>
  BY DEF ImportBegins
<1>2. /\ memory' = memory /\ tables' = tables /\ groupIndex' = groupIndex /\ work' = work
      /\ file' = file /\ exact' = exact /\ restoration' = restoration
  BY <1>1 DEF managers, ghosts
<1>3. at'[1] = "import" /\ at'[2] = 1 /\ KindOf(at)' = Kinds[1]
  BY <1>1 DEF KindOf
<1>4. FileIsSnapshot'
  BY <1>2, <1>3, SnapshotStays DEF RestoreInv, Exporting
<1>5. FromFile'
  BY <1>2 DEF RestoreInv, FromFile, IsFrom
<1>6. Complete'
  BY <1>2 DEF RestoreInv, Complete, There
<1>7. ~Busy("request")
  BY <1>1, NotBusyRequest DEF Importing, ReadingCsv, Idle
<1>8. \A e : ~IsAt(e)'
  BY <1>2, <1>7 DEF IsAt, Working, Busy
<1>9. ImportProgress'
  BY <1>1, <1>2, <1>3, <1>8 DEF ImportProgress
<1> QED
  BY <1>4, <1>5, <1>6, <1>9 DEF RestoreInv

\* A file names nothing twice: what is in a dictionary under the name of an
\* entity is that entity.
LEMMA SameName ==
    ASSUME RestoreInv, BaseInv, restoration # "none", NEW kind \in KindNames \ {"clients"},
           NEW e \in file[kind], e[1] \in DOMAIN memory[kind]
    PROVE  memory[kind][e[1]] = e[2]
<1>1. PICK d \in file[kind] : e[1] = KeyOf(kind, d) /\ memory[kind][e[1]] = d[2]
  BY DEF RestoreInv, FromFile, IsFrom
<1>2. d[1] = e[1]
  BY <1>1 DEF KeyOf
<1>3. Consistent(file)
  BY DEF RestoreInv, FileIsSnapshot, BaseInv, Alone
<1>4. d = e
  BY <1>2, <1>3 DEF Consistent
<1> QED
  BY <1>1, <1>4

\* An entity that is refused is there.
LEMMA RefusedIsThere ==
    ASSUME RestoreInv, BaseInv, restoration # "none", NEW kind \in KindNames,
           NEW e \in file[kind], Refused("create", kind, KeyOf(kind, e), e[2])
    PROVE  There(kind, e)
<1>1. CASE kind # "policies"
  BY <1>1 DEF Refused, There
<1>2. CASE kind = "policies"
  <2>1. PICK g : g = e[2].group
    OBVIOUS
  <2>2. g \in DOMAIN groupIndex
    BY <1>2, <2>1 DEF Refused
  <2>3. PICK n \in DOMAIN memory["policies"] : memory["policies"][n].group = g
    BY <2>2 DEF RestoreInv, FromFile
  <2>4. PICK d \in file["policies"] : n = KeyOf("policies", d) /\ memory["policies"][n] = d[2]
    BY KindParts DEF RestoreInv, FromFile, IsFrom
  <2>5. Consistent(file)
    BY DEF RestoreInv, FileIsSnapshot, BaseInv, Alone
  <2>6. d = e
    BY <1>2, <2>1, <2>3, <2>4, <2>5 DEF Consistent
  <2>7. e[1] \in DOMAIN memory["policies"]
    BY <2>4, <2>6 DEF KeyOf
  <2> QED
    BY <1>2, <2>1, <2>2, <2>7 DEF There, KeyOf
<1> QED
  BY <1>1, <1>2

LEMMA ImportEntityRestore ==
    ASSUME BaseInv, RestoreInv, ImportEntity
    PROVE  RestoreInv'
<1>0. MemoryType /\ WorkType /\ RequestsType
  BY DEF BaseInv
<1>1. PICK e \in left :
            /\ e \in file[KindOf(at)] /\ left' = left \ {e}
            /\ Begins("request", "create", KindOf(at), KeyOf(KindOf(at), e), e[2])
  BY ImportEntityDoes
<1>2. Importing /\ UNCHANGED <<file, at, csv, changes, quiet, ghosts>>
  BY DEF ImportEntity
<1>3. /\ KindOf(at)' = KindOf(at) /\ KindOf(at) \in KindNames
      /\ Importing' /\ ~Exporting' /\ file' = file /\ at' = at
      /\ exact' = exact /\ restoration' = restoration
  BY <1>0, <1>2, AtShape DEF KindOf, Importing, Exporting, ghosts
<1>4. /\ UNCHANGED <<memory, groupIndex, tables>>
      /\ work'["request"].key = KeyOf(KindOf(at), e) /\ work'["request"].value = e[2]
  BY <1>0, <1>1, RequestBeginsDoes
<1>5. ~Working("request")
  BY <1>1 DEF Begins
<1>6. \/ Refused("create", KindOf(at), KeyOf(KindOf(at), e), e[2])
      \/ work'["request"].step = "check" /\ KindOf(at) \in Members
      \/ work'["request"].step = "write"
  <2> DEFINE refused == Refused("create", KindOf(at), KeyOf(KindOf(at), e), e[2])
             twice == LooksTwice("create", KindOf(at))
  <2>1. PICK step :
            /\ work' = [work EXCEPT !["request"] =
                            Operation("create", KindOf(at), KeyOf(KindOf(at), e), e[2], step)]
            /\ step = CASE refused -> "failed"
                        [] ~refused /\ twice -> "check"
                        [] OTHER -> "write"
    BY <1>1 DEF Begins
  <2>2. refused \/ (step = "check" /\ twice) \/ step = "write"
    BY <2>1
  <2>3. work'["request"].step = step
    BY <1>0, <2>1, ThreadsAre DEF WorkType, Operation
  <2>4. twice => KindOf(at) \in Members
    BY DEF LooksTwice
  <2> QED
    BY <2>2, <2>3, <2>4
<1>7. \A kind, d : There(kind, d)' <=> There(kind, d)
  BY <1>4 DEF There
<1>8. FileIsSnapshot'
  BY <1>3, SnapshotStays DEF RestoreInv
<1>9. FromFile'
  BY <1>3, <1>4 DEF RestoreInv, FromFile, IsFrom
<1>10. Complete'
  BY <1>3, <1>7 DEF RestoreInv, Complete
<1>11. ASSUME restoration # "none" PROVE ImportProgress'
  <2>1. /\ \A i \in 1..5 : i < at[2] => \A d \in file[Kinds[i]] : There(Kinds[i], d)
        /\ \A d \in file[KindOf(at)] \ left : There(KindOf(at), d) \/ IsAt(d)
    BY <1>2, <1>11 DEF RestoreInv, ImportProgress
  <2>2. \A d : ~IsAt(d)
    BY <1>5 DEF IsAt
  <2>3. There(KindOf(at), e) \/ IsAt(e)'
    <3>1. CASE Refused("create", KindOf(at), KeyOf(KindOf(at), e), e[2])
      BY <1>1, <1>3, <1>11, <3>1, RefusedIsThere
    <3>2. CASE work'["request"].step \in {"check", "write"}
      BY <1>3, <1>4, <3>2 DEF IsAt, Working
    <3> QED
      BY <1>6, <3>1, <3>2
  <2>4. \A d \in file[KindOf(at)] \ left' : There(KindOf(at), d) \/ IsAt(d)'
    BY <1>1, <2>1, <2>2, <2>3
  <2>5. work'["request"].step \in {"check", "write", "failed"}
    BY <1>0, <1>1, BeginsDoes, ThreadsAre
  <2>6. work'["request"].step = "check" => KindOf(at) \in Members
    <3>1. CASE Refused("create", KindOf(at), KeyOf(KindOf(at), e), e[2])
      <4>1. work'["request"].step = "failed"
        BY <1>0, <1>1, <3>1, BeginsDoes, ThreadsAre
      <4> QED
        BY <4>1
    <3> QED
      BY <1>6, <3>1
  <2>7. \A i \in 1..5 : i < at'[2] => \A d \in file'[Kinds[i]] : There(Kinds[i], d)'
    BY <1>3, <1>7, <2>1
  <2>8. \A d \in file'[KindOf(at)'] \ left' : There(KindOf(at), d)' \/ IsAt(d)'
    BY <1>3, <1>7, <2>4
  <2> QED
    BY <1>3, <2>5, <2>6, <2>7, <2>8 DEF ImportProgress
<1>12. ImportProgress'
  BY <1>3, <1>11 DEF ImportProgress
<1> QED
  BY <1>8, <1>9, <1>10, <1>12 DEF RestoreInv

LEMMA ImportKindEndsRestore ==
    ASSUME BaseInv, RestoreInv, ImportKindEnds
    PROVE  RestoreInv'
<1>0. MemoryType /\ WorkType /\ RequestsType
  BY DEF BaseInv
<1>1. /\ Importing /\ left = {} /\ ~Working("request")
      /\ work' = [work EXCEPT !["request"] = AtRest]
      /\ \/ /\ at[2] < 5 /\ at' = <<"import", at[2] + 1>> /\ left' = file[Kinds[at[2] + 1]]
            /\ restoration' = restoration
         \/ /\ at[2] >= 5 /\ at' = Idle
            /\ restoration' = IF restoration = "none" THEN "none" ELSE "done"
      /\ UNCHANGED <<memory, groupIndex, tables, doubtful, file, csv, changes, quiet, exact>>
  <2>1. at[2] \in 1..5
    BY <1>0, AtShape DEF ImportKindEnds
  <2> QED
    BY <2>1 DEF ImportKindEnds
<1>2. /\ at[2] \in 1..5 /\ KindOf(at) \in KindNames /\ KindOf(at) = Kinds[at[2]]
  BY <1>0, <1>1, AtShape
<1>3. ~Exporting'
  BY <1>1 DEF Exporting, Idle
<1>4. work'["request"] = AtRest
  BY <1>0, <1>1, RequestRests
<1>5. \A kind, d : There(kind, d)' <=> There(kind, d)
  BY <1>1 DEF There
<1>6. \A d : ~IsAt(d) /\ ~IsAt(d)'
  BY <1>1, <1>4, AtRestFields DEF IsAt, Working
<1>7. FileIsSnapshot'
  BY <1>1, <1>3, SnapshotStays DEF RestoreInv
<1>8. FromFile'
  BY <1>1 DEF RestoreInv, FromFile, IsFrom
<1>9. ASSUME restoration # "none"
      PROVE  \A i \in 1..5 : i <= at[2] => \A d \in file[Kinds[i]] : There(Kinds[i], d)
  <2>1. /\ \A i \in 1..5 : i < at[2] => \A d \in file[Kinds[i]] : There(Kinds[i], d)
        /\ \A d \in file[KindOf(at)] \ left : There(KindOf(at), d) \/ IsAt(d)
    BY <1>1, <1>9 DEF RestoreInv, ImportProgress
  <2>2. \A d \in file[Kinds[at[2]]] : There(Kinds[at[2]], d)
    BY <1>1, <1>2, <1>6, <2>1
  <2> QED
    BY <1>2, <2>1, <2>2
<1>10. CASE /\ at[2] < 5 /\ at' = <<"import", at[2] + 1>> /\ left' = file[Kinds[at[2] + 1]]
            /\ restoration' = restoration
  <2>1. Complete'
    BY <1>1, <1>5, <1>10 DEF RestoreInv, Complete
  <2>2. at'[2] = at[2] + 1 /\ KindOf(at)' = Kinds[at[2] + 1]
    BY <1>10 DEF KindOf
  <2>3. ASSUME restoration # "none"
        PROVE  \A i \in 1..5 : i < at'[2] => \A d \in file'[Kinds[i]] : There(Kinds[i], d)'
    BY <1>1, <1>2, <1>5, <1>9, <2>2, <2>3
  <2>4. file'[KindOf(at)'] \ left' = {}
    BY <1>1, <1>10, <2>2
  <2>5. ImportProgress'
    BY <1>6, <1>10, <2>3, <2>4 DEF ImportProgress
  <2> QED
    BY <1>7, <1>8, <2>1, <2>5 DEF RestoreInv
<1>11. CASE /\ at[2] >= 5 /\ at' = Idle
            /\ restoration' = IF restoration = "none" THEN "none" ELSE "done"
  <2>1. ASSUME restoration # "none", NEW kind \in KindNames, NEW d \in file[kind]
        PROVE  There(kind, d)
    <3>1. PICK i \in 1..5 : Kinds[i] = kind
      BY KindsAre
    <3>2. i <= at[2]
      BY <1>2, <1>11
    <3> QED
      BY <1>9, <2>1, <3>1, <3>2
  <2>2. Complete'
    BY <1>1, <1>5, <1>11, <2>1 DEF Complete
  <2>3. ImportProgress'
    BY <1>11 DEF ImportProgress, Importing, Idle
  <2> QED
    BY <1>7, <1>8, <2>2, <2>3 DEF RestoreInv
<1> QED
  BY <1>1, <1>10, <1>11

\* A restoration is at work: what the step of the import starts from.
LEMMA RestorationAt ==
    ASSUME BaseInv, RestoreInv, restoration # "none", Steps("request")
    PROVE  /\ Importing /\ Busy("request")
           /\ KindOf(at) \in KindNames /\ KindOf(at) = Kinds[at[2]] /\ at[2] \in 1..5
           /\ work["request"].what = "create" /\ work["request"].kind = KindOf(at)
           /\ OperationOK(work["request"])
           /\ \E e \in file[KindOf(at)] :
                /\ work["request"].key = KeyOf(KindOf(at), e)
                /\ work["request"].value = e[2]
<1>1. Busy("request")
  BY DEF Steps, Check, Insert, Remove, Assign, SetAddress, Index, Save, Busy
<1>2. ~ReadingCsv
  BY DEF BaseInv, Alone, ReadingCsv
<1>3. Importing
  BY <1>1, <1>2 DEF BaseInv, RequestWork
<1> QED
  BY <1>1, <1>3, AtShape, ThreadsAre DEF BaseInv, RequestWork, WorkType

\* While nothing is taken out, what is there stays there.
LEMMA ThereStays ==
    ASSUME \A kind \in KindNames : DOMAIN memory[kind] \subseteq DOMAIN memory'[kind],
           DOMAIN groupIndex \subseteq DOMAIN groupIndex',
           NEW kind \in KindNames, NEW e, There(kind, e)
    PROVE  There(kind, e)'
BY DEF There, KeyOf

\* The progress of an import over a step of its present operation.
LEMMA StepProgress ==
    ASSUME BaseInv, RestoreInv, restoration # "none", Importing, Framed,
           \A kind \in KindNames : DOMAIN memory[kind] \subseteq DOMAIN memory'[kind],
           DOMAIN groupIndex \subseteq DOMAIN groupIndex',
           \A e \in file[KindOf(at)] : IsAt(e) => There(KindOf(at), e)' \/ IsAt(e)',
           \A e \in file[KindOf(at)] : IsAt(e)' =>
              /\ work'["request"].step = "check" => KindOf(at) \in Members
              /\ work'["request"].step = "second" => e[1] \in DOMAIN memory'["policies"]
              /\ work'["request"].step = "save" => There(KindOf(at), e)'
    PROVE  ImportProgress' /\ Complete' /\ FileIsSnapshot'
<1>0. /\ at' = at /\ file' = file /\ left' = left /\ exact' = exact
      /\ restoration' = restoration /\ KindOf(at)' = KindOf(at)
  BY DEF Framed, ghosts, KindOf
<1>1. /\ \A i \in 1..5 : i < at[2] => \A d \in file[Kinds[i]] : There(Kinds[i], d)
      /\ \A d \in file[KindOf(at)] \ left : There(KindOf(at), d) \/ IsAt(d)
  BY DEF RestoreInv, ImportProgress
<1>2. KindOf(at) \in KindNames
  BY AtShape DEF BaseInv
<1>3. \A i \in 1..5 : i < at'[2] => \A d \in file'[Kinds[i]] : There(Kinds[i], d)'
  BY <1>0, <1>1, KindsAre, ThereStays
<1>4. \A d \in file'[KindOf(at)'] \ left' : There(KindOf(at), d)' \/ IsAt(d)'
  BY <1>0, <1>1, <1>2, ThereStays
<1>5. ImportProgress'
  BY <1>0, <1>3, <1>4 DEF ImportProgress
<1>6. Complete'
  BY <1>0, ThereStays DEF RestoreInv, Complete
<1>7. FileIsSnapshot'
  BY <1>0, SnapshotStays DEF RestoreInv, Exporting, Importing
<1> QED
  BY <1>5, <1>6, <1>7

\* The group of a member was brought with the kind before.
LEMMA GroupIsThere ==
    ASSUME BaseInv, RestoreInv, restoration # "none", Importing, KindOf(at) \in Members,
           NEW e \in file[KindOf(at)]
    PROVE  e[2].group \in DOMAIN memory[GroupsOf(KindOf(at))]
<1>1. Consistent(file)
  BY DEF RestoreInv, FileIsSnapshot, BaseInv, Alone
<1>2. PICK h \in file[GroupsOf(KindOf(at))] : h[1] = e[2].group
  BY <1>1 DEF Consistent
<1>3. at[2] \in 1..5 /\ KindOf(at) = Kinds[at[2]]
  BY AtShape DEF BaseInv
<1>4. \E i \in 1..5 : i < at[2] /\ Kinds[i] = GroupsOf(KindOf(at))
  BY <1>3 DEF Kinds, Members, GroupsOf
<1>5. There(GroupsOf(KindOf(at)), h)
  BY <1>2, <1>4 DEF RestoreInv, ImportProgress
<1>6. GroupsOf(KindOf(at)) # "clients"
  BY DEF GroupsOf
<1> QED
  BY <1>2, <1>5, <1>6 DEF There, KeyOf

LEMMA CheckRestore ==
    ASSUME BaseInv, RestoreInv, restoration # "none", Check("request"), Framed
    PROVE  RestoreInv'
<1>0. Steps("request") /\ "request" \in Threads /\ WorkType
  BY ThreadsAre DEF Steps, BaseInv
<1>1. /\ Importing /\ Busy("request")
      /\ work["request"].what = "create" /\ work["request"].kind = KindOf(at)
      /\ KindOf(at) \in KindNames
  BY <1>0, RestorationAt
<1>2. PICK e \in file[KindOf(at)] :
            /\ work["request"].key = KeyOf(KindOf(at), e)
            /\ work["request"].value = e[2]
  BY <1>0, RestorationAt
<1>3. /\ work["request"].step = "check"
      /\ UNCHANGED memory /\ Unsaved
      /\ \/ Went("request", work["request"].value, "write", FALSE)
         \/ CheckFails(work["request"])
  BY <1>0, <1>1, CheckDoes
<1>4. IsAt(e)
  BY <1>2, <1>3 DEF IsAt, Working
<1>5. KindOf(at) \in Members
  BY <1>1, <1>3, <1>4 DEF RestoreInv, ImportProgress
<1>6. ~CheckFails(work["request"])
  BY <1>1, <1>2, <1>5, GroupIsThere DEF CheckFails
<1>7. /\ work'["request"].key = work["request"].key
      /\ work'["request"].value = work["request"].value
      /\ work'["request"].step = "write"
  BY <1>3, <1>6 DEF Went
<1>8. KindOf(at)' = KindOf(at) /\ file' = file /\ restoration' = restoration
  BY DEF Framed, KindOf, ghosts
<1>9. \A d : IsAt(d) => IsAt(d)'
  BY <1>7, <1>8 DEF IsAt, Working
<1>10. groupIndex' = groupIndex /\ tables' = tables
  BY <1>3 DEF Unsaved
<1>11. FromFile'
  BY <1>3, <1>8, <1>10 DEF RestoreInv, FromFile, IsFrom
<1>12. ImportProgress' /\ Complete' /\ FileIsSnapshot'
  BY <1>1, <1>3, <1>7, <1>9, <1>10, StepProgress
<1> QED
  BY <1>11, <1>12 DEF RestoreInv

\* The entries of a restored installation come from the file.
LEMMA FromFileNext ==
    ASSUME file' = file,
           \A j \in KindNames : \A k \in DOMAIN memory'[j] :
              \E h \in file[j] : k = KeyOf(j, h) /\ memory'[j][k] = h[2],
           \A j \in KindNames : \A k \in DOMAIN tables'[j] :
              \E h \in file[j] : k = KeyOf(j, h) /\ tables'[j][k] = h[2],
           \A g \in DOMAIN groupIndex' :
              /\ groupIndex'[g] \in DOMAIN memory'["policies"]
              /\ memory'["policies"][groupIndex'[g]].group = g
    PROVE  FromFile'
BY DEF FromFile, IsFrom, KeyOf

LEMMA InsertRestore ==
    ASSUME BaseInv, RestoreInv, restoration # "none", Insert("request"), Framed
    PROVE  RestoreInv'
<1> DEFINE op == work["request"]
<1>0. Steps("request") /\ "request" \in Threads /\ WorkType /\ MemoryType
  BY ThreadsAre DEF Steps, BaseInv
<1>k. PICK kind : kind = KindOf(at)
  OBVIOUS
<1>1. /\ Importing /\ op.what = "create" /\ op.kind = kind /\ kind \in KindNames
  BY <1>0, <1>k, RestorationAt
<1>2. PICK e \in file[kind] : op.key = KeyOf(kind, e) /\ op.value = e[2]
  BY <1>0, <1>k, RestorationAt
<1>y. PICK key : key = KeyOf(kind, e)
  OBVIOUS
<1> DEFINE d == Put(memory[kind], key, e[2])
<1>3. /\ memory' = [memory EXCEPT ![kind] = d]
      /\ Went("request", op.value, AfterWrite(op), SameEntry("request"))
      /\ groupIndex' = groupIndex /\ tables' = tables
  BY <1>0, <1>1, <1>2, <1>y, InsertDoes DEF Unsaved
<1>4. /\ DOMAIN d = DOMAIN memory[kind] \cup {key}
      /\ d[key] = e[2]
      /\ \A k \in DOMAIN memory[kind] \ {key} : d[k] = memory[kind][k]
  BY DEF Put
<1>5. /\ work'["request"].key = op.key /\ work'["request"].value = op.value
      /\ work'["request"].step = AfterWrite(op)
  BY <1>3 DEF Went
<1>6. KindOf(at)' = kind /\ file' = file /\ restoration' = restoration
  BY <1>k DEF Framed, KindOf, ghosts
<1> HIDE DEF d
<1>7. /\ memory'[kind] = d
      /\ \A k \in KindNames : k # kind => memory'[k] = memory[k]
  BY <1>0, <1>1, <1>3, OneDict
<1>8. \A k \in KindNames : DOMAIN memory[k] \subseteq DOMAIN memory'[k]
  BY <1>4, <1>7
<1>9. \A k \in DOMAIN d : \E h \in file[kind] : k = KeyOf(kind, h) /\ d[k] = h[2]
  <2>1. IsFrom(memory[kind], kind)
    BY <1>1 DEF RestoreInv, FromFile
  <2>2. ASSUME NEW k \in DOMAIN d PROVE \E h \in file[kind] : k = KeyOf(kind, h) /\ d[k] = h[2]
    <3>1. CASE k = key
      BY <1>4, <1>y, <3>1
    <3>2. CASE k # key
      BY <1>4, <2>1, <3>2 DEF IsFrom
    <3> QED
      BY <3>1, <3>2
  <2> QED
    BY <2>2
<1>10. ASSUME NEW j \in KindNames
       PROVE  /\ \A k \in DOMAIN memory'[j] :
                    \E h \in file[j] : k = KeyOf(j, h) /\ memory'[j][k] = h[2]
              /\ \A k \in DOMAIN tables'[j] :
                    \E h \in file[j] : k = KeyOf(j, h) /\ tables'[j][k] = h[2]
  <2>1. IsFrom(memory[j], j) /\ IsFrom(tables[j], j)
    BY DEF RestoreInv, FromFile
  <2>2. \A k \in DOMAIN tables'[j] :
            \E h \in file[j] : k = KeyOf(j, h) /\ tables'[j][k] = h[2]
    BY <1>3, <2>1 DEF IsFrom
  <2>3. CASE j # kind
    BY <1>7, <2>1, <2>2, <2>3 DEF IsFrom
  <2>4. CASE j = kind
    BY <1>7, <1>9, <2>2, <2>4
  <2> QED
    BY <2>3, <2>4
<1>11. ASSUME NEW g \in DOMAIN groupIndex
       PROVE  /\ groupIndex[g] \in DOMAIN memory'["policies"]
              /\ memory'["policies"][groupIndex[g]].group = g
  <2>1. PICK n : n = groupIndex[g]
    OBVIOUS
  <2>2. n \in DOMAIN memory["policies"] /\ memory["policies"][n].group = g
    BY <2>1 DEF RestoreInv, FromFile
  <2>3. memory'["policies"][n] = memory["policies"][n] /\ n \in DOMAIN memory'["policies"]
    <3>1. CASE kind # "policies"
      BY <1>7, <2>2, <3>1, KindParts
    <3>2. CASE kind = "policies" /\ n # key
      BY <1>4, <1>7, <2>2, <3>2
    <3>3. CASE kind = "policies" /\ n = key
      <4>1. e[1] = n
        BY <1>y, <3>3 DEF KeyOf
      <4>2. memory["policies"][n] = e[2]
        BY <2>2, <3>3, <4>1, SameName, KindParts
      <4> QED
        BY <1>4, <1>7, <3>3, <4>2
    <3> QED
      BY <3>1, <3>2, <3>3
  <2> QED
    BY <2>1, <2>2, <2>3
<1>12. FromFile'
  BY <1>3, <1>6, <1>10, <1>11, FromFileNext
<1>13. \A h \in file[kind] : IsAt(h) => IsAt(h)'
  <2>1. AfterWrite(op) \in {"second", "save"}
    BY DEF AfterWrite
  <2> QED
    BY <1>5, <1>6, <1>k, <2>1 DEF IsAt, Working, KeyOf
<1>14. ASSUME NEW h \in file[kind], IsAt(h)'
       PROVE  /\ work'["request"].step = "check" => kind \in Members
              /\ work'["request"].step = "second" => h[1] \in DOMAIN memory'["policies"]
              /\ work'["request"].step = "save" => There(KindOf(at), h)'
  <2> HIDE DEF op
  <2>1. KeyOf(kind, h) = key
    BY <1>2, <1>5, <1>6, <1>14, <1>y DEF IsAt, KeyOf
  <2>2. key \in DOMAIN memory'[kind]
    BY <1>4, <1>7
  <2>3. CASE kind = "policies"
    <3>1. AfterWrite(op) = "second"
      BY <1>1, <2>3 DEF AfterWrite
    <3> QED
      BY <1>5, <2>1, <2>2, <2>3, <3>1 DEF KeyOf
  <2>4. CASE kind # "policies"
    <3>1. AfterWrite(op) = "save"
      BY <1>1, <2>4 DEF AfterWrite
    <3>2. There(KindOf(at), h)'
      BY <1>6, <2>1, <2>2, <2>4 DEF There, KeyOf
    <3> QED
      BY <1>5, <3>1, <3>2
  <2> QED
    BY <2>3, <2>4
<1>15. ImportProgress' /\ Complete' /\ FileIsSnapshot'
  BY <1>1, <1>3, <1>6, <1>8, <1>13, <1>14, <1>k, StepProgress
<1> QED
  BY <1>12, <1>15 DEF RestoreInv

LEMMA IndexRestore ==
    ASSUME BaseInv, RestoreInv, restoration # "none", Index("request"), Framed
    PROVE  RestoreInv'
<1> DEFINE op == work["request"]
<1>0. Steps("request") /\ "request" \in Threads /\ WorkType
  BY ThreadsAre DEF Steps, BaseInv
<1>1. /\ Importing /\ op.what = "create" /\ op.kind = KindOf(at)
      /\ KindOf(at) \in KindNames
  BY <1>0, RestorationAt
<1>2. PICK e \in file[KindOf(at)] : op.key = KeyOf(KindOf(at), e) /\ op.value = e[2]
  BY <1>0, RestorationAt
<1>3. /\ op.step = "second" /\ op.kind = "policies"
      /\ memory' = memory /\ tables' = tables
      /\ groupIndex' = Put(groupIndex, op.value.group, op.key)
      /\ Went("request", op.value, "save", SameGroup("request"))
  BY <1>0, <1>1, IndexDoes
<1>4. KindOf(at) = "policies" /\ "policies" \in KindNames \ {"clients"}
  BY <1>1, <1>3, KindParts
<1>5. op.key = e[1] /\ op.value = e[2] /\ e \in file["policies"]
  BY <1>2, <1>4 DEF KeyOf
<1>6. PICK g, n : g = e[2].group /\ n = e[1]
  OBVIOUS
<1>7. IsAt(e)
  BY <1>2, <1>3 DEF IsAt, Working
<1>8. n \in DOMAIN memory["policies"]
  BY <1>1, <1>2, <1>3, <1>6, <1>7 DEF RestoreInv, ImportProgress
<1>9. memory["policies"][n].group = g
  BY <1>4, <1>5, <1>6, <1>8, SameName
<1>10. groupIndex' = Put(groupIndex, g, n)
  BY <1>3, <1>5, <1>6
<1>11. /\ DOMAIN groupIndex' = DOMAIN groupIndex \cup {g}
       /\ groupIndex'[g] = n
       /\ \A h \in DOMAIN groupIndex \ {g} : groupIndex'[h] = groupIndex[h]
  BY <1>10 DEF Put
<1>12. /\ KindOf(at)' = KindOf(at) /\ file' = file /\ restoration' = restoration
  BY DEF Framed, KindOf, ghosts
<1>13. /\ \A j \in KindNames : IsFrom(memory[j], j) /\ IsFrom(tables[j], j)
       /\ \A h \in DOMAIN groupIndex :
            /\ groupIndex[h] \in DOMAIN memory["policies"]
            /\ memory["policies"][groupIndex[h]].group = h
  BY DEF RestoreInv, FromFile
<1>14. \A h \in DOMAIN groupIndex' :
            /\ groupIndex'[h] \in DOMAIN memory'["policies"]
            /\ memory'["policies"][groupIndex'[h]].group = h
  BY <1>3, <1>8, <1>9, <1>11, <1>13
<1>15. FromFile'
  <2>1. ASSUME NEW j \in KindNames
        PROVE  /\ \A k \in DOMAIN memory'[j] :
                    \E h \in file[j] : k = KeyOf(j, h) /\ memory'[j][k] = h[2]
               /\ \A k \in DOMAIN tables'[j] :
                    \E h \in file[j] : k = KeyOf(j, h) /\ tables'[j][k] = h[2]
    BY <1>3, <1>13 DEF IsFrom
  <2> QED
    BY <1>12, <1>14, <2>1, FromFileNext
<1>16. /\ work'["request"].key = op.key /\ work'["request"].value = op.value
       /\ work'["request"].step = "save"
  BY <1>3 DEF Went
<1>17. \A h \in file[KindOf(at)] : IsAt(h) => IsAt(h)'
  BY <1>12, <1>16 DEF IsAt, Working, KeyOf
<1>18. ASSUME NEW h \in file[KindOf(at)], IsAt(h)'
       PROVE  There(KindOf(at), h)'
  <2> HIDE DEF op
  <2>1. h[1] = n /\ h[2] = e[2]
    BY <1>4, <1>5, <1>6, <1>12, <1>16, <1>18 DEF IsAt, KeyOf
  <2>2. h[2].group \in DOMAIN groupIndex'
    BY <1>6, <1>11, <2>1
  <2>3. h[1] \in DOMAIN memory'["policies"]
    BY <1>3, <1>8, <2>1
  <2> QED
    BY <1>4, <1>12, <2>2, <2>3 DEF There, KeyOf
<1>19. ImportProgress' /\ Complete' /\ FileIsSnapshot'
  BY <1>1, <1>3, <1>11, <1>16, <1>17, <1>18, StepProgress
<1> QED
  BY <1>15, <1>19 DEF RestoreInv

LEMMA SaveRestore ==
    ASSUME BaseInv, RestoreInv, restoration # "none", Save("request"), Framed
    PROVE  RestoreInv'
<1>0. Steps("request") /\ "request" \in Threads /\ WorkType
  BY ThreadsAre DEF Steps, BaseInv
<1>1. Importing /\ KindOf(at) \in KindNames
  BY <1>0, RestorationAt
<1>2. /\ work["request"].step = "save"
      /\ memory' = memory /\ groupIndex' = groupIndex
      /\ tables' = [j \in KindNames |->
                        IF j \in SavedWith(work["request"].kind) THEN memory[j] ELSE tables[j]]
      /\ Went("request", work["request"].value, "done", FALSE)
  BY <1>0, SaveDoes DEF Stops
<1>3. KindOf(at)' = KindOf(at) /\ file' = file /\ restoration' = restoration
  BY DEF Framed, KindOf, ghosts
<1>4. /\ \A j \in KindNames : IsFrom(memory[j], j) /\ IsFrom(tables[j], j)
      /\ \A h \in DOMAIN groupIndex :
            /\ groupIndex[h] \in DOMAIN memory["policies"]
            /\ memory["policies"][groupIndex[h]].group = h
  BY DEF RestoreInv, FromFile
<1>5. FromFile'
  <2>1. ASSUME NEW j \in KindNames
        PROVE  /\ \A k \in DOMAIN memory'[j] :
                    \E h \in file[j] : k = KeyOf(j, h) /\ memory'[j][k] = h[2]
               /\ \A k \in DOMAIN tables'[j] :
                    \E h \in file[j] : k = KeyOf(j, h) /\ tables'[j][k] = h[2]
    <3>1. tables'[j] = memory[j] \/ tables'[j] = tables[j]
      BY <1>2
    <3> QED
      BY <1>2, <1>4, <3>1 DEF IsFrom
  <2> QED
    BY <1>2, <1>3, <1>4, <2>1, FromFileNext
<1>6. ~Working("request")'
  BY <1>2 DEF Went, Working
<1>7. \A h \in file[KindOf(at)] : IsAt(h) => There(KindOf(at), h)
  BY <1>1, <1>2 DEF RestoreInv, ImportProgress
<1>8. \A h \in file[KindOf(at)] : IsAt(h) => There(KindOf(at), h)'
  BY <1>2, <1>3, <1>7 DEF There
<1>9. \A h : ~IsAt(h)'
  BY <1>6 DEF IsAt
<1>10. ImportProgress' /\ Complete' /\ FileIsSnapshot'
  BY <1>1, <1>2, <1>8, <1>9, StepProgress
<1> QED
  BY <1>5, <1>10 DEF RestoreInv

LEMMA OperateRestore ==
    ASSUME BaseInv, RestoreInv, NEW t \in Threads, Operate(t)
    PROVE  RestoreInv'
<1>0. /\ Steps(t) /\ Framed /\ WorkType /\ RequestWork /\ Busy(t)
      /\ file' = file /\ at' = at /\ exact' = exact /\ quiet' = quiet
      /\ restoration' = restoration
  BY OperateType DEF Operate, Framed, ghosts, BaseInv
<1>1. FileIsSnapshot'
  <2>1. ~(Exporting /\ quiet)
    <3>1. Exporting /\ quiet => ~Busy("other")
      BY DEF BaseInv, Alone, Exporting
    <3>2. Exporting => ~Busy("request")
      BY <1>0 DEF RequestWork, Exporting, Importing, ReadingCsv
    <3> QED
      BY <1>0, <3>1, <3>2, ThreadsAre
  <2>2. (Exporting' <=> Exporting) /\ (Consistent(file)' <=> Consistent(file))
    BY <1>0 DEF Exporting, Consistent
  <2> QED
    BY <1>0, <2>1, <2>2 DEF RestoreInv, FileIsSnapshot
<1>2. CASE restoration = "none"
  BY <1>0, <1>1, <1>2, NoRestoration DEF RestoreInv
<1>3. CASE restoration # "none"
  <2>1. t = "request"
    BY <1>0, <1>3, ThreadsAre DEF BaseInv, Alone
  <2>2. Steps("request")
    BY <1>0, <2>1
  <2>3. work["request"].what = "create" /\ OperationOK(work["request"])
    BY <1>3, <2>2, RestorationAt
  <2>4. ~Assign("request") /\ ~Remove("request")
    BY <2>3 DEF Assign, Remove
  <2>5. ~SetAddress("request")
    <3>1. ASSUME SetAddress("request") PROVE FALSE
      <4>1. work["request"].step = "second" /\ work["request"].kind = "devices"
        BY <3>1 DEF SetAddress
      <4>2. AfterWrite(work["request"]) = "second"
        BY <2>3, <4>1 DEF OperationOK
      <4> QED
        BY <2>3, <4>1, <4>2 DEF AfterWrite
    <3> QED
      BY <3>1
  <2>6. Check("request") \/ Insert("request") \/ Index("request") \/ Save("request")
    BY <2>2, <2>4, <2>5 DEF Steps
  <2> QED
    BY <1>0, <1>3, <2>6, CheckRestore, InsertRestore, IndexRestore, SaveRestore
<1> QED
  BY <1>2, <1>3

\* What is loaded of a table or a manager whose entries come from the file.
LEMMA LoadsFrom ==
    ASSUME NEW j \in KindNames, NEW d, IsFrom(d, j), NEW x \in Loads(j, d)
    PROVE  \A k \in DOMAIN x : \E h \in file[j] : k = KeyOf(j, h) /\ x[k] = h[2]
<1>1. /\ j # "clients" => \A k \in DOMAIN x : k \in DOMAIN d /\ x[k] = d[k]
      /\ j = "clients" =>
            \A k \in DOMAIN x : \E i \in DOMAIN d : k = Key(i[1]) /\ x[k] = d[i]
  BY LoadsParts
<1>2. CASE j # "clients"
  BY <1>1, <1>2 DEF IsFrom
<1>3. CASE j = "clients"
  <2> SUFFICES ASSUME NEW k \in DOMAIN x
               PROVE  \E h \in file[j] : k = KeyOf(j, h) /\ x[k] = h[2]
    OBVIOUS
  <2>1. PICK i \in DOMAIN d : k = Key(i[1]) /\ x[k] = d[i]
    BY <1>1, <1>3
  <2>2. PICK h \in file[j] : i = KeyOf(j, h) /\ d[i] = h[2]
    BY DEF IsFrom
  <2>3. i[1] = h[1]
    BY <1>3, <2>2 DEF KeyOf, Key
  <2>4. k = KeyOf(j, h)
    BY <1>3, <2>1, <2>3 DEF KeyOf
  <2> QED
    BY <2>1, <2>2, <2>4
<1> QED
  BY <1>2, <1>3

LEMMA CrashRestore ==
    ASSUME BaseInv, RestoreInv, Crash
    PROVE  RestoreInv'
<1>0. MemoryType
  BY DEF BaseInv
<1>1. /\ Load /\ at' = Idle /\ exact' = exact
      /\ file' = IF Exporting THEN EmptyFile ELSE file
      /\ restoration' = IF restoration = "none" THEN "none" ELSE "fresh"
  BY DEF Crash
<1>2. ~Exporting' /\ ~Importing'
  BY <1>1 DEF Exporting, Importing, Idle
<1>3. FileIsSnapshot'
  BY <1>1, <1>2, SnapshotStays DEF RestoreInv, FileIsSnapshot
<1>4. CASE restoration = "none"
  BY <1>1, <1>3, <1>4, NoRestoration DEF RestoreInv
<1>5. CASE restoration # "none"
  <2>1. doubtful = {} /\ file' = file /\ restoration' = "fresh"
    BY <1>1, <1>5 DEF BaseInv, Alone, Exporting
  <2>2. /\ \A j \in KindNames :
                \E d : /\ d = tables[j] \/ d = memory[j] \/ (j \in doubtful /\ d \in Entities(j))
                       /\ memory'[j] \in Loads(j, d)
        /\ groupIndex' = IndexOf(memory'["policies"])
        /\ tables' = memory'
    BY <1>0, <1>1, LoadDoes
  <2>3. ASSUME NEW j \in KindNames
        PROVE  \A k \in DOMAIN memory'[j] :
                    \E h \in file[j] : k = KeyOf(j, h) /\ memory'[j][k] = h[2]
    <3>1. PICK d : /\ d = tables[j] \/ d = memory[j]
                   /\ memory'[j] \in Loads(j, d)
      BY <2>1, <2>2
    <3>2. IsFrom(d, j)
      BY <1>5, <3>1 DEF RestoreInv, FromFile
    <3>4. PICK x : x = memory'[j]
      OBVIOUS
    <3>5. \A k \in DOMAIN x : \E h \in file[j] : k = KeyOf(j, h) /\ x[k] = h[2]
      BY <3>1, <3>2, <3>4, LoadsFrom
    <3> QED
      BY <3>4, <3>5
  <2>4. memory'["policies"] \in Entities("policies")
    BY <1>0, <1>1, LoadType, KindParts DEF MemoryType
  <2>5. PICK ps \in Entities("policies") : ps = memory'["policies"]
    BY <2>4
  <2>6. \A g \in DOMAIN IndexOf(ps) :
            IndexOf(ps)[g] \in DOMAIN ps /\ ps[IndexOf(ps)[g]].group = g
    BY IndexOfParts
  <2>7. \A g \in DOMAIN groupIndex' :
            /\ groupIndex'[g] \in DOMAIN memory'["policies"]
            /\ memory'["policies"][groupIndex'[g]].group = g
    BY <2>2, <2>5, <2>6
  <2>8. FromFile'
    BY <2>1, <2>2, <2>3, <2>7, FromFileNext
  <2>9. ImportProgress' /\ Complete'
    BY <1>2, <2>1 DEF ImportProgress, Complete
  <2> QED
    BY <1>3, <2>8, <2>9 DEF RestoreInv
<1> QED
  BY <1>4, <1>5

LEMMA FreshInstallRestore ==
    ASSUME BaseInv, RestoreInv, FreshInstall
    PROVE  RestoreInv'
<1>1. /\ at = Idle /\ Empty /\ at' = at /\ file' = file /\ exact' = exact
      /\ restoration' \in {"fresh", "none"}
  BY DEF FreshInstall
<1>2. ~Exporting' /\ ~Importing'
  BY <1>1 DEF Exporting, Importing, Idle
<1>3. FileIsSnapshot'
  BY <1>1, <1>2, SnapshotStays DEF RestoreInv
<1>4. /\ \A j \in KindNames : DOMAIN memory'[j] = {} /\ DOMAIN tables'[j] = {}
      /\ DOMAIN groupIndex' = {}
  <2>1. DOMAIN EmptyDict = {}
    BY EmptyDictProperties
  <2> QED
    BY <1>1, <2>1 DEF Empty
<1>5. FromFile'
  BY <1>1, <1>4, FromFileNext
<1>6. ImportProgress' /\ Complete'
  BY <1>1, <1>2 DEF ImportProgress, Complete
<1> QED
  BY <1>3, <1>5, <1>6 DEF RestoreInv

LEMMA ExportBeginsRestore ==
    ASSUME BaseInv, RestoreInv, ExportBegins
    PROVE  RestoreInv'
<1>1. /\ at' = <<"export", 1>> /\ exact' = FALSE /\ restoration' = "none"
  BY DEF ExportBegins
<1>2. FileIsSnapshot'
  BY <1>1 DEF FileIsSnapshot
<1> QED
  BY <1>1, <1>2, NoRestoration DEF RestoreInv

\* Requests that have nothing to do with files.
LEMMA OthersRestore ==
    ASSUME BaseInv, RestoreInv, ~Exporting', exact' = FALSE \/ (file' = file /\ exact' = exact),
           restoration' = "none"
    PROVE  RestoreInv'
BY SnapshotStays, NoRestoration DEF RestoreInv

LEMMA NextRestore ==
    ASSUME BaseInv, RestoreInv, [Next]_vars
    PROVE  RestoreInv'
<1>1. CASE UNCHANGED vars
  <2>1. /\ memory' = memory /\ tables' = tables /\ groupIndex' = groupIndex /\ work' = work
        /\ file' = file /\ at' = at /\ left' = left /\ quiet' = quiet /\ exact' = exact
        /\ restoration' = restoration
    BY <1>1 DEF vars, managers, ghosts
  <2>2. FileIsSnapshot'
    BY <2>1 DEF RestoreInv, FileIsSnapshot, Exporting, Listed, Consistent
  <2>3. FromFile'
    BY <2>1 DEF RestoreInv, FromFile, IsFrom
  <2>4. (\A j, d : There(j, d)' <=> There(j, d)) /\ (\A d : IsAt(d)' <=> IsAt(d))
    BY <2>1 DEF There, IsAt, Working, KindOf
  <2>5. Importing' = Importing /\ KindOf(at)' = KindOf(at)
    BY <2>1 DEF Importing, KindOf
  <2>6. ImportProgress'
    <3>1. ImportProgress
      BY DEF RestoreInv
    <3> QED
      BY <2>1, <2>4, <2>5, <3>1 DEF ImportProgress
  <2>7. Complete'
    BY <2>1, <2>4 DEF RestoreInv, Complete
  <2> QED
    BY <2>2, <2>3, <2>6, <2>7 DEF RestoreInv
<1>2. CASE CsvBegins
  BY <1>2, OthersRestore DEF CsvBegins, Exporting
<1>3. ASSUME Administrator PROVE RestoreInv'
  <2>1. restoration' = "none" /\ at' = at /\ file' = file /\ exact' = exact /\ quiet' = FALSE
    BY <1>3 DEF Administrator, Administer
  <2>2. FileIsSnapshot'
    BY <2>1 DEF RestoreInv, FileIsSnapshot, Exporting, Consistent
  <2> QED
    BY <2>1, <2>2, NoRestoration DEF RestoreInv
<1>4. CASE CsvResult \/ CsvEnds \/ \E m \in Macs, s \in Spellings, g \in ClientGroups : CsvRow(m, s, g)
  <2>1. /\ ReadingCsv /\ file' = file /\ exact' = exact /\ restoration' = restoration
        /\ at' = at \/ at' = Idle
    BY <1>4 DEF CsvResult, CsvUpdated, CsvCreated, CsvFailed, CsvBadRow, Count, CsvEnds,
                CsvRow, ghosts
  <2>2. restoration = "none"
    BY <2>1 DEF BaseInv, RequestsType, Alone, ReadingCsv
  <2>3. ~Exporting'
    BY <2>1 DEF ReadingCsv, Exporting, Idle
  <2> QED
    BY <2>1, <2>2, <2>3, OthersRestore
<1>5. ASSUME NEW t \in Threads, Operate(t) PROVE RestoreInv'
  BY <1>5, OperateRestore
<1> QED
  BY <1>1, <1>2, <1>3, <1>4, <1>5, Actions, ExportBeginsRestore, ExportKindRestore,
     ImportBeginsRestore, ImportEntityRestore, ImportKindEndsRestore, FreshInstallRestore,
     CrashRestore

-----------------------------------------------------------------------------
(* CsvInv *)

LEMMA KeysAreFinite ==
    IsFiniteSet(Keys)
<1>1. IsFiniteSet(Spellings)
  <2>1. IsFiniteSet({"canonical"})
    BY FS_Singleton
  <2>2. Spellings = {"canonical"} \cup {"typed"}
    BY DEF Spellings
  <2> QED
    BY <2>1, <2>2, FS_AddElement
<1> QED
  BY <1>1, MacsAreFinite, FS_Product DEF Keys

LEMMA InitCsv ==
    Init => CsvInv
BY DEF Init, CsvInv, ReadingCsv, Idle

\* The request's operation is at rest, or has yet to write, or updates.
LEMMA NotInserted ==
    /\ ~Busy("request") => ~Inserted
    /\ work["request"].what # "create" => ~Inserted
    /\ work["request"].step \in {"check", "write", "failed"} => ~Inserted
BY DEF Inserted, Busy

\* A step that registers nobody and counts nobody.
LEMMA CsvSame ==
    ASSUME CsvInv, at' = at, quiet' => quiet,
           DOMAIN memory'["clients"] = DOMAIN memory["clients"], before' = before,
           DOMAIN existing' = DOMAIN existing, counts'.imported = counts.imported,
           Inserted' <=> Inserted, Inserted => work'["request"].key = work["request"].key
    PROVE  CsvInv'
<1> SUFFICES ASSUME ReadingCsv', quiet' PROVE CsvInv'
  BY DEF CsvInv
<1>1. ReadingCsv /\ quiet
  BY DEF ReadingCsv
<1>2. (IF Inserted' THEN 1 ELSE 0) = (IF Inserted THEN 1 ELSE 0)
  OBVIOUS
<1>3. (IF Inserted' THEN {work'["request"].key[1]} ELSE {}) =
      (IF Inserted THEN {work["request"].key[1]} ELSE {})
  OBVIOUS
<1>4. MacsOf(DOMAIN memory'["clients"]) = MacsOf(DOMAIN memory["clients"])
  OBVIOUS
<1>5. /\ before \subseteq DOMAIN memory["clients"]
      /\ Cardinality(DOMAIN memory["clients"]) =
                Cardinality(before) + counts.imported + (IF Inserted THEN 1 ELSE 0)
      /\ MacsOf(DOMAIN memory["clients"]) =
                DOMAIN existing \cup (IF Inserted THEN {work["request"].key[1]} ELSE {})
      /\ \A j \in DOMAIN memory["clients"] \ before, k \in DOMAIN memory["clients"] :
                j[1] = k[1] => j = k
  BY <1>1 DEF CsvInv
<1>6. MacsOf(DOMAIN memory["clients"])' = MacsOf(DOMAIN memory'["clients"])
  BY DEF MacsOf
<1>7. /\ (before \subseteq DOMAIN memory["clients"])'
      /\ (Cardinality(DOMAIN memory["clients"]) =
                Cardinality(before) + counts.imported + (IF Inserted THEN 1 ELSE 0))'
      /\ (MacsOf(DOMAIN memory["clients"]) =
                DOMAIN existing \cup (IF Inserted THEN {work["request"].key[1]} ELSE {}))'
      /\ (\A j \in DOMAIN memory["clients"] \ before, k \in DOMAIN memory["clients"] :
                j[1] = k[1] => j = k)'
  BY <1>2, <1>3, <1>4, <1>5, <1>6
<1> QED
  BY <1>7 DEF CsvInv

LEMMA CsvBeginsCsv ==
    ASSUME BaseInv, CsvBegins
    PROVE  CsvInv'
<1>1. /\ existing' = [m \in MacsOf(DOMAIN memory["clients"]) |-> TRUE]
      /\ counts' = NoCounts /\ before' = DOMAIN memory["clients"]
      /\ memory' = memory /\ work' = work /\ at = Idle
  BY DEF CsvBegins, managers, MacsOf
<1>2. ~Busy("request")'
  <2>1. ~Importing /\ ~ReadingCsv
    BY <1>1 DEF Importing, ReadingCsv, Idle
  <2>2. ~Busy("request")
    BY <2>1 DEF BaseInv, RequestWork
  <2> QED
    BY <1>1, <2>2 DEF Busy
<1>3. ~Inserted'
  BY <1>2 DEF Busy, Inserted
<1>4. IsFiniteSet(before')
  BY <1>1, MacsOfClients, KeysAreFinite, FS_Subset DEF BaseInv
<1>5. Cardinality(before') \in Nat
  BY <1>4, FS_CardinalityType
<1>6. counts'.imported = 0
  BY <1>1 DEF NoCounts
<1>7. Cardinality(DOMAIN memory'["clients"]) =
            Cardinality(before') + counts'.imported + (IF Inserted' THEN 1 ELSE 0)
  BY <1>1, <1>3, <1>5, <1>6
<1>8. MacsOf(DOMAIN memory["clients"])' = DOMAIN existing'
  BY <1>1 DEF MacsOf
<1> QED
  BY <1>1, <1>3, <1>7, <1>8 DEF CsvInv

LEMMA CsvRowCsv ==
    ASSUME BaseInv, CsvInv, NEW m \in Macs, NEW s \in Spellings, NEW g \in ClientGroups,
           CsvRow(m, s, g)
    PROVE  CsvInv'
<1>1. ~Busy("request") /\ UNCHANGED <<file, at, left, csv, changes, quiet, ghosts>>
  BY DEF CsvRow
<1>2. PICK what, key, value : Begins("request", what, "clients", key, value)
  BY CsvRowDoes
<1>3. memory' = memory /\ work'["request"].step \in {"check", "write", "failed"}
  BY <1>2, BeginsDoes, ThreadsAre DEF BaseInv
<1>4. ~Inserted /\ ~Inserted'
  BY <1>1, <1>3, NotInserted DEF Inserted
<1> QED
  BY <1>1, <1>3, <1>4, CsvSame DEF csv

\* A row's client is new: the snapshot has not its MAC, and has all there are.
LEMMA InsertCsv ==
    ASSUME BaseInv, CsvInv, ReadingCsv, quiet, Insert("request"), Framed
    PROVE  CsvInv'
<1> DEFINE op == work["request"]
<1>0. "request" \in Threads /\ MemoryType /\ WorkType
  BY ThreadsAre DEF BaseInv
<1>1. /\ op.step = "write" /\ op.what = "create"
      /\ memory' = [memory EXCEPT ![op.kind] = Put(memory[op.kind], op.key, op.value)]
      /\ Went("request", op.value, AfterWrite(op), SameEntry("request"))
  BY <1>0, InsertDoes
<1>2. Busy("request")
  BY <1>1 DEF Busy
<1>3. op.kind = "clients" /\ op.key[1] \notin DOMAIN existing
  BY <1>1, <1>2 DEF BaseInv, RequestWork
<1>4. PICK key, value : key = op.key /\ value = op.value
  OBVIOUS
<1> DEFINE d == Put(memory["clients"], key, value)
<1>5. memory' = [memory EXCEPT !["clients"] = d]
  BY <1>1, <1>3, <1>4
<1>6. DOMAIN d = DOMAIN memory["clients"] \cup {key}
  BY DEF Put
<1> HIDE DEF d
<1>7. memory'["clients"] = d
  BY <1>0, <1>5, OneDict, KindParts
<1>8. PICK C : C = DOMAIN memory["clients"]
  OBVIOUS
<1>9. DOMAIN memory'["clients"] = C \cup {key}
  BY <1>6, <1>7, <1>8
<1>10. ~Inserted
  BY <1>1, NotInserted
<1>11. AfterWrite(op) = "save"
  BY <1>1, <1>3 DEF AfterWrite
<1>12. work'["request"].what = "create" /\ work'["request"].step = "save"
       /\ work'["request"].key = key
  BY <1>1, <1>4, <1>11 DEF Went
<1>13. Inserted'
  BY <1>12 DEF Inserted
<1>14. before' = before /\ existing' = existing /\ counts' = counts
  BY DEF Framed, csv
<1>15. /\ before \subseteq C
       /\ Cardinality(C) = Cardinality(before) + counts.imported + 0
       /\ MacsOf(C) = DOMAIN existing
       /\ \A j \in C \ before, k \in C : j[1] = k[1] => j = k
  BY <1>8, <1>10 DEF CsvInv
<1>16. \A k \in C : k[1] # key[1]
  BY <1>3, <1>4, <1>15 DEF MacsOf
<1>17. key \notin C
  BY <1>16
<1>18. IsFiniteSet(C)
  BY <1>0, <1>8, MacsOfClients, KeysAreFinite, FS_Subset
<1>19. Cardinality(C \cup {key}) = Cardinality(C) + 1
  BY <1>17, <1>18, FS_AddElement
<1>20. Cardinality(before) \in Nat /\ counts.imported \in Nat
  <2>1. IsFiniteSet(before)
    BY <1>15, <1>18, FS_Subset
  <2>2. counts \in [{"imported", "updated", "failed"} -> 0..MaxRows]
    BY DEF BaseInv, RequestsType
  <2>3. counts.imported \in Nat
    BY <2>2
  <2> QED
    BY <2>1, <2>3, FS_CardinalityType
<1>21. Cardinality(DOMAIN memory'["clients"]) =
            Cardinality(before') + counts'.imported + (IF Inserted' THEN 1 ELSE 0)
  BY <1>9, <1>13, <1>14, <1>15, <1>19, <1>20
<1>22. MacsOf(C \cup {key}) = DOMAIN existing' \cup {work'["request"].key[1]}
  BY <1>12, <1>14, <1>15 DEF MacsOf
<1>23. MacsOf(DOMAIN memory["clients"])' = MacsOf(C \cup {key})
  BY <1>9 DEF MacsOf
<1>24. \A j \in (C \cup {key}) \ before, k \in C \cup {key} : j[1] = k[1] => j = k
  BY <1>15, <1>16
<1>25. before' \subseteq DOMAIN memory'["clients"]
  BY <1>9, <1>14, <1>15
<1>26. \A j \in DOMAIN memory'["clients"] \ before', k \in DOMAIN memory'["clients"] :
            j[1] = k[1] => j = k
  BY <1>9, <1>14, <1>24
<1> HIDE DEF op
<1> QED
  BY <1>13, <1>21, <1>22, <1>23, <1>25, <1>26 DEF CsvInv

LEMMA OperateCsv ==
    ASSUME BaseInv, CsvInv, NEW t \in Threads, Operate(t)
    PROVE  CsvInv'
<1>0. /\ Steps(t) /\ Framed /\ MemoryType /\ WorkType /\ RequestWork /\ Busy(t)
      /\ at' = at /\ quiet' = quiet
      /\ before' = before /\ existing' = existing /\ counts' = counts
  BY OperateType DEF Operate, Framed, csv, BaseInv
<1>1. CASE ~(ReadingCsv /\ quiet)
  BY <1>0, <1>1 DEF CsvInv, ReadingCsv
<1>2. CASE ReadingCsv /\ quiet
  <2>1. ~Busy("other")
    BY <1>2 DEF BaseInv, Alone, ReadingCsv
  <2>2. t = "request" /\ "request" \in Threads
    BY <1>0, <2>1, ThreadsAre
  <2>3. Busy("request") /\ Steps("request")
    BY <1>0, <2>2
  <2>4. work["request"].kind = "clients" /\ ~Remove("request")
    BY <1>0, <1>2, <2>3, RequestKeeps DEF RequestWork
  <2>5. ~SetAddress("request") /\ ~Index("request")
    BY <2>4 DEF SetAddress, Index
  <2>6. /\ work'["request"].what = work["request"].what
        /\ work'["request"].key = work["request"].key
    BY <1>0, <2>2, <2>3, RequestFields
  <2>7. CASE Check("request")
    <3>1. /\ memory' = memory /\ work["request"].step = "check"
          /\ work'["request"].step \in {"write", "failed"}
      BY <1>0, <2>2, <2>7, CheckDoes DEF Stops, Went
    <3>2. ~Inserted /\ ~Inserted'
      BY <3>1 DEF Inserted
    <3> QED
      BY <1>0, <3>1, <3>2, CsvSame
  <2>8. CASE Insert("request")
    BY <1>0, <1>2, <2>8, InsertCsv
  <2>9. CASE Assign("request")
    <3>1. work["request"].what = "update" /\ DOMAIN memory'["clients"] = DOMAIN memory["clients"]
      BY <1>0, <2>2, <2>9, AssignDoes, AssignType, KindParts
    <3>2. ~Inserted /\ ~Inserted'
      BY <2>6, <3>1 DEF Inserted
    <3> QED
      BY <1>0, <3>1, <3>2, CsvSame
  <2>10. CASE Save("request")
    <3>1. /\ memory' = memory /\ work["request"].step = "save"
          /\ work'["request"].step = "done"
      BY <1>0, <2>2, <2>10, SaveDoes DEF Stops, Went
    <3>2. Inserted' <=> Inserted
      BY <2>6, <3>1 DEF Inserted
    <3> QED
      BY <1>0, <2>6, <3>1, <3>2, CsvSame
  <2> QED
    BY <2>3, <2>4, <2>5, <2>7, <2>8, <2>9, <2>10 DEF Steps
<1> QED
  BY <1>1, <1>2

LEMMA CsvResultCsv ==
    ASSUME BaseInv, CsvInv, CsvResult
    PROVE  CsvInv'
<1>1. PICK result \in {"imported", "updated", "failed"} : Count(result)
  BY DEF CsvResult, CsvUpdated, CsvCreated, CsvFailed, CsvBadRow
<1>2. /\ counts' = [counts EXCEPT ![result] = @ + 1]
      /\ work' = [work EXCEPT !["request"] = AtRest]
      /\ memory' = memory /\ at' = at /\ before' = before /\ quiet' = quiet
  BY <1>1 DEF Count
<1>3. ~Busy("request")'
  BY <1>2, RequestRests DEF BaseInv
<1>4. ~Inserted'
  BY <1>3 DEF Busy, Inserted
<1>5. counts \in [{"imported", "updated", "failed"} -> 0..MaxRows]
  BY DEF BaseInv, RequestsType
<1>6. CASE CsvCreated
  <2>1. Count("imported") /\ work["request"].step = "done" /\ work["request"].what = "create"
    BY <1>6 DEF CsvCreated
  <2>2. counts' = [counts EXCEPT !["imported"] = @ + 1]
    BY <2>1 DEF Count
  <2>3. counts'.imported = counts.imported + 1 /\ counts.imported \in Nat
    BY <1>5, <2>2
  <2>4. Inserted
    BY <2>1 DEF Inserted
  <2>5. PICK m : m = work["request"].key[1]
    OBVIOUS
  <2>6. DOMAIN existing' = DOMAIN existing \cup {m}
    <3>1. PICK f : existing' = Put(existing, m, f)
      BY <1>6, <2>5 DEF CsvCreated
    <3> QED
      BY <3>1 DEF Put
  <2> SUFFICES ASSUME ReadingCsv, quiet PROVE CsvInv'
    BY <1>2 DEF CsvInv, ReadingCsv
  <2>7. PICK C : C = DOMAIN memory["clients"]
    OBVIOUS
  <2>8. /\ before \subseteq C
        /\ Cardinality(C) = Cardinality(before) + counts.imported + 1
        /\ MacsOf(C) = DOMAIN existing \cup {m}
        /\ \A j \in C \ before, k \in C : j[1] = k[1] => j = k
    BY <2>4, <2>5, <2>7 DEF CsvInv
  <2>9. Cardinality(before) \in Nat
    <3>1. IsFiniteSet(before)
      BY <2>7, <2>8, MacsOfClients, KeysAreFinite, FS_Subset DEF BaseInv
    <3> QED
      BY <3>1, FS_CardinalityType
  <2>10. Cardinality(C) = Cardinality(before') + counts'.imported
    BY <1>2, <2>3, <2>8, <2>9
  <2>11. MacsOf(DOMAIN memory["clients"])' = DOMAIN existing'
    BY <1>2, <2>6, <2>7, <2>8 DEF MacsOf
  <2>12. Cardinality(DOMAIN memory'["clients"]) =
              Cardinality(before') + counts'.imported + (IF Inserted' THEN 1 ELSE 0)
    <3>1. counts'.imported \in Nat
      BY <2>3
    <3> QED
      BY <1>2, <1>4, <2>7, <2>9, <2>10, <3>1
  <2> QED
    BY <1>2, <1>4, <2>7, <2>8, <2>11, <2>12 DEF CsvInv
<1>7. CASE CsvFailed \/ CsvBadRow \/ \E named \in BOOLEAN : CsvUpdated(named)
  <2>1. PICK r \in {"updated", "failed"} : Count(r)
    BY <1>7 DEF CsvFailed, CsvBadRow, CsvUpdated
  <2>2. counts' = [counts EXCEPT ![r] = @ + 1]
    BY <2>1 DEF Count
  <2>3. counts'.imported = counts.imported
    BY <1>5, <2>2
  <2>4. existing' = existing
    BY <1>7 DEF CsvFailed, CsvBadRow, CsvUpdated
  <2>5. ~Inserted
    BY <1>7, NotInserted DEF CsvFailed, CsvBadRow, CsvUpdated
  <2> QED
    BY <1>2, <1>4, <2>3, <2>4, <2>5, CsvSame
<1> QED
  BY <1>6, <1>7 DEF CsvResult

LEMMA StutterCsv ==
    ASSUME CsvInv, UNCHANGED vars
    PROVE  CsvInv'
<1>1. /\ memory' = memory /\ work' = work /\ at' = at /\ quiet' = quiet
      /\ before' = before /\ existing' = existing /\ counts' = counts
  BY DEF vars, managers, csv
<1>2. Inserted' <=> Inserted
  BY <1>1 DEF Inserted
<1> QED
  BY <1>1, <1>2 DEF CsvInv, ReadingCsv, MacsOf

LEMMA NextCsv ==
    ASSUME BaseInv, CsvInv, [Next]_vars
    PROVE  CsvInv'
<1>1. CASE UNCHANGED vars
  BY <1>1, StutterCsv
<1>2. CASE ExportBegins \/ ImportBegins \/ CsvEnds \/ Crash
  <2>1. at' = <<"export", 1>> \/ at' = <<"import", 1>> \/ at' = <<"idle", 1>>
    BY <1>2 DEF ExportBegins, ImportBegins, CsvEnds, Crash, Idle
  <2>2. at'[1] # "csv"
    BY <2>1
  <2> QED
    BY <2>2 DEF CsvInv, ReadingCsv
<1>3. CASE ExportKind \/ ImportEntity \/ ImportKindEnds \/ FreshInstall
  <2>1. at'[1] # "csv"
    BY <1>3 DEF ExportKind, ImportEntity, ImportKindEnds, FreshInstall, Exporting, Importing,
                Idle
  <2> QED
    BY <2>1 DEF CsvInv, ReadingCsv
<1>4. ASSUME Administrator PROVE CsvInv'
  <2>1. quiet' = FALSE
    BY <1>4 DEF Administrator, Administer
  <2> QED
    BY <2>1 DEF CsvInv
<1>5. ASSUME NEW t \in Threads, Operate(t) PROVE CsvInv'
  BY <1>5, OperateCsv
<1> QED
  BY <1>1, <1>2, <1>3, <1>4, <1>5, Actions, CsvBeginsCsv, CsvRowCsv, CsvResultCsv

-----------------------------------------------------------------------------
(* Theorems *)

\* What an import and the requests on the other thread can rely on holds at
\* every instant, in the middle of operations and after a crash: what an
\* operation looked up is still so or has been touched since (the dictionaries
\* of device_manager.py, client_manager.py and policy_engine.py, unlocked), a
\* restored installation holds only what the file says and all of what has been
\* imported so far (import_all), the snapshot of a CSV import has every client
\* (import_clients_csv).
THEOREM ImportInvariant ==
    Spec => []ImportInv
<1>1. Init => ImportInv
  BY InitBase, InitRestore, InitFree, InitCsv DEF ImportInv
<1>2. ImportInv /\ [Next]_vars => ImportInv'
  BY NextBase, NextRestore, NextFree, NextCsv DEF ImportInv
<1> QED
  BY <1>1, <1>2, PTL DEF Spec

\* Every object and every operation has its type, whatever the two threads and
\* the crashes do: no malformed address gets into a dictionary or a table
\* (update_device parses it before it assigns it).
THEOREM TypeCorrect ==
    Spec => []TypeOK
<1>1. ImportInv => TypeOK
  BY TypeOKParts DEF ImportInv, BaseInv
<1> QED
  BY <1>1, ImportInvariant, PTL

\* An export nothing disturbed brings everything back into a new installation,
\* whatever the order of its entities and however often the import is cut
\* short and started again (export_all, import_all).
THEOREM RestoresTheFile ==
    Spec => []RoundTrip
<1>1. ASSUME ImportInv, restoration = "done" PROVE RoundTrip
  <2>0. restoration # "none" /\ MemoryType /\ FileType /\ BaseInv /\ RestoreInv
    BY <1>1 DEF ImportInv, BaseInv
  <2>1. \A kind \in KindNames : IsFrom(memory[kind], kind)
    BY <2>0 DEF RestoreInv, FromFile
  <2>2. \A kind \in KindNames : \A e \in file[kind] : There(kind, e)
    BY <1>1, <2>0 DEF RestoreInv, Complete
  <2>3. \A kind \in KindNames : \A e \in file[kind] : e = <<e[1], e[2]>>
    BY <2>0 DEF FileType
  <2>4. ASSUME NEW kind \in KindNames \ {"clients"} PROVE Listed(kind) = file[kind]
    <3>1. Listed(kind) = {<<k, memory[kind][k]>> : k \in DOMAIN memory[kind]}
      BY DEF Listed
    <3>2. ASSUME NEW k \in DOMAIN memory[kind] PROVE <<k, memory[kind][k]>> \in file[kind]
      <4>1. PICK e \in file[kind] : k = KeyOf(kind, e) /\ memory[kind][k] = e[2]
        BY <2>1 DEF IsFrom
      <4>2. k = e[1]
        BY <4>1 DEF KeyOf
      <4>3. <<k, memory[kind][k]>> = <<e[1], e[2]>>
        BY <4>1, <4>2
      <4> QED
        BY <2>3, <4>3
    <3>3. ASSUME NEW e \in file[kind] PROVE \E k \in DOMAIN memory[kind] : e = <<k, memory[kind][k]>>
      <4>1. e[1] \in DOMAIN memory[kind]
        BY <2>2 DEF There, KeyOf
      <4>2. memory[kind][e[1]] = e[2]
        BY <2>0, <4>1, SameName
      <4>3. PICK k : k = e[1]
        OBVIOUS
      <4>4. e = <<k, memory[kind][k]>>
        BY <2>3, <4>2, <4>3
      <4> QED
        BY <4>1, <4>3, <4>4
    <3> QED
      BY <3>1, <3>2, <3>3
  <2>5. /\ \A k \in DOMAIN memory["clients"] :
            \E e \in file["clients"] : k = Key(e[1]) /\ memory["clients"][k] = e[2]
        /\ \A e \in file["clients"] : Key(e[1]) \in DOMAIN memory["clients"]
    <3>1. "clients" \in KindNames
      BY KindParts
    <3>2. IsFrom(memory["clients"], "clients")
      BY <2>1, <3>1
    <3> QED
      BY <2>2, <3>1, <3>2 DEF IsFrom, There, KeyOf
  <2>6. {k[1] : k \in DOMAIN memory["clients"]} = {e[1] : e \in file["clients"]}
    <3>1. \A k \in DOMAIN memory["clients"] : \E e \in file["clients"] : k[1] = e[1]
      BY <2>5 DEF Key
    <3>2. \A e \in file["clients"] : \E k \in DOMAIN memory["clients"] : k[1] = e[1]
      BY <2>5 DEF Key
    <3> QED
      BY <3>1, <3>2
  <2>7. Listed("clients") \subseteq file["clients"]
    <3>1. Listed("clients") = {<<k[1], memory["clients"][k]>> : k \in DOMAIN memory["clients"]}
      BY DEF Listed
    <3>2. ASSUME NEW k \in DOMAIN memory["clients"]
          PROVE  <<k[1], memory["clients"][k]>> \in file["clients"]
      <4>1. PICK e \in file["clients"] : k = Key(e[1]) /\ memory["clients"][k] = e[2]
        BY <2>5
      <4>2. k[1] = e[1]
        BY <4>1 DEF Key
      <4>3. e = <<e[1], e[2]>>
        BY <2>3, KindParts
      <4> QED
        BY <4>1, <4>2, <4>3
    <3> QED
      BY <3>1, <3>2
  <2>8. DOMAIN memory["clients"] \subseteq {Key(m) : m \in Macs}
    <3>1. \A e \in file["clients"] : e[1] \in Macs
      BY <2>0, KindParts DEF FileType, NamesOf
    <3> QED
      BY <2>5, <3>1
  <2>9. {<<g, groupIndex[g]>> : g \in DOMAIN groupIndex} =
            {<<e[2].group, e[1]>> : e \in file["policies"]}
    <3>0. "policies" \in KindNames /\ "policies" \in KindNames \ {"clients"}
      BY KindParts
    <3>1. \A g \in DOMAIN groupIndex :
            /\ groupIndex[g] \in DOMAIN memory["policies"]
            /\ memory["policies"][groupIndex[g]].group = g
      BY <2>0 DEF RestoreInv, FromFile
    <3>2. ASSUME NEW g \in DOMAIN groupIndex
          PROVE  \E e \in file["policies"] : e[2].group = g /\ e[1] = groupIndex[g]
      <4>1. PICK n : n = groupIndex[g]
        OBVIOUS
      <4>2. n \in DOMAIN memory["policies"] /\ memory["policies"][n].group = g
        BY <3>1, <4>1
      <4>3. PICK e \in file["policies"] : n = KeyOf("policies", e) /\ memory["policies"][n] = e[2]
        BY <2>1, <3>0, <4>2 DEF IsFrom
      <4>4. n = e[1]
        BY <4>3 DEF KeyOf
      <4> QED
        BY <4>1, <4>2, <4>3, <4>4
    <3>3. Consistent(file)
      BY <2>0 DEF RestoreInv, FileIsSnapshot, BaseInv, Alone
    <3>4. ASSUME NEW e \in file["policies"]
          PROVE  e[2].group \in DOMAIN groupIndex /\ groupIndex[e[2].group] = e[1]
      <4>1. PICK g : g = e[2].group
        OBVIOUS
      <4>2. g \in DOMAIN groupIndex
        BY <2>2, <3>0, <4>1 DEF There
      <4>3. PICK d \in file["policies"] : d[2].group = g /\ d[1] = groupIndex[g]
        BY <3>2, <4>2
      <4>4. d = e
        BY <3>3, <4>1, <4>3 DEF Consistent
      <4> QED
        BY <4>1, <4>2, <4>3, <4>4
    <3>5. ASSUME NEW e \in file["policies"]
          PROVE  \E g \in DOMAIN groupIndex : <<e[2].group, e[1]>> = <<g, groupIndex[g]>>
      BY <3>4
    <3>6. ASSUME NEW g \in DOMAIN groupIndex
          PROVE  \E e \in file["policies"] : <<g, groupIndex[g]>> = <<e[2].group, e[1]>>
      BY <3>2
    <3> QED
      BY <3>5, <3>6
  <2> QED
    BY <2>4, <2>6, <2>7, <2>8, <2>9 DEF RoundTrip
<1>2. ImportInv => RoundTrip
  BY <1>1 DEF RoundTrip
<1> QED
  BY <1>2, ImportInvariant, PTL

\* The results of a CSV import that runs alone are true, between any two rows
\* (import_clients_csv, the loop over the rows).
THEOREM CountsAreTrue ==
    Spec => []CsvCountsAreTrue
<1>1. ASSUME ImportInv, ReadingCsv, quiet, ~Busy("request") PROVE CsvCountsAreTrue
  <2>1. ~Inserted
    BY <1>1, NotInserted
  <2>2. /\ before \subseteq DOMAIN memory["clients"]
        /\ Cardinality(DOMAIN memory["clients"]) = Cardinality(before) + counts.imported + 0
        /\ \A j \in DOMAIN memory["clients"] \ before, k \in DOMAIN memory["clients"] :
                j[1] = k[1] => j = k
    BY <1>1, <2>1 DEF ImportInv, CsvInv
  <2>3. Cardinality(before) \in Nat
    <3>1. IsFiniteSet(before)
      BY <1>1, KeysAreFinite, FS_Subset DEF ImportInv, BaseInv, RequestsType
    <3> QED
      BY <3>1, FS_CardinalityType
  <2>4. counts.imported \in Nat
    <3>1. counts \in [{"imported", "updated", "failed"} -> 0..MaxRows]
      BY <1>1 DEF ImportInv, BaseInv, RequestsType
    <3> QED
      BY <3>1
  <2> QED
    BY <2>2, <2>3, <2>4 DEF CsvCountsAreTrue
<1>2. ImportInv => CsvCountsAreTrue
  BY <1>1 DEF CsvCountsAreTrue
<1> QED
  BY <1>2, ImportInvariant, PTL

\* An import adds and neither changes nor removes what is there, whatever the
\* other thread does between its steps, except for what that thread has created
\* under the same key since the import looked and for a policy whose name the
\* file has for another client group (import_all, create_device, create_client,
\* create_policy).
THEOREM ImportKeeps ==
    Spec => ImportKeepsWhatIsThere
<1>1. BaseInv /\ KeyFree /\ [Next]_vars => [ImportStep => Kept]_vars
  BY NextKeeps
<1>2. ImportInv => BaseInv /\ KeyFree
  BY DEF ImportInv
<1> QED
  BY <1>1, <1>2, ImportInvariant, PTL DEF Spec, ImportKeepsWhatIsThere, Kept
==============================================================================
