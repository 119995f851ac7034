---------------------------- MODULE ImportExport ----------------------------
(***************************************************************************)
(* Moving a configuration from one installation to another                 *)
(* (src/import_export.py) and registering clients from a CSV file          *)
(* (import_clients_csv, src/api.py), over what the three managers keep.    *)
(*                                                                         *)
(* A JSON export lists the five kinds of entity one kind after the other;  *)
(* a JSON import creates them one after the other with the managers' own   *)
(* create operations, counts what they refuse and goes on.  A request of   *)
(* an administrator runs on another thread, its steps between those of the *)
(* import, and the process may die: it comes back with what the tables     *)
(* hold, and the import is started again.                                  *)
(*                                                                         *)
(* The rejection of malformed values is left out where no export holds     *)
(* one.  The entities of a kind are taken in any order: an export has the  *)
(* order of a dictionary.                                                  *)
(***************************************************************************)
EXTENDS Managers

CONSTANTS
    MaxChanges,                     \* bound on administrators' requests
    MaxRows                         \* bound on the rows of a CSV file

ASSUME BoundsAreNaturals == MaxChanges \in Nat /\ MaxRows \in Nat
ASSUME MacsAreFinite == IsFiniteSet(Macs)

VARIABLES
    file,                           \* the exported file: kind -> its entities
    at,                             \* the request being handled, and its step
    left,                           \* import: entities of this kind not yet tried
    existing,                       \* CSV: existing_clients, MAC -> is an object
    counts,                         \* CSV: the results counted so far
    changes,                        \* administrators' requests so far
    quiet,                          \* ghost: none since this request began
    exact,                          \* ghost: none while the file was written
    before,                         \* ghost: the keys when this CSV import began
    restoration                     \* ghost: progress of a fresh installation

csv == <<existing, counts, before>>
ghosts == <<exact, restoration>>
vars == <<managers, file, at, left, csv, changes, quiet, ghosts>>

-----------------------------------------------------------------------------
(* What a file holds *)

\* a mutant of Kinds: devices before their groups
KindsMembersFirst ==
    <<"devices", "device_groups", "client_groups", "clients", "policies">>

\* the order of export_all and of import_all: groups before their members
Kinds ==
    <<"device_groups", "devices", "client_groups", "clients", "policies">>

KindOf(step) == Kinds[step[2]]

Idle == <<"idle", 1>>
Exporting == at[1] = "export"
Importing == at[1] = "import"
ReadingCsv == at[1] = "csv"

\* the list an export writes of a kind, list_device_groups(), ...: the name of
\* each entity, for a client its MAC, with the entity
Listed(kind) ==
    {<<IF kind = "clients" THEN k[1] ELSE k, memory[kind][k]>> : k \in DOMAIN memory[kind]}

\* the key an import gives the entity e
KeyOf(kind, e) == IF kind = "clients" THEN Key(e[1]) ELSE e[1]

EmptyFile == [kind \in KindNames |-> {}]
NoCounts == [imported |-> 0, updated |-> 0, failed |-> 0]

\* Every member has its group and no two policies have the same: what the
\* managers hold unless races, crashes or a reused policy name have broken it.
Sound ==
    /\ \A kind \in Members : \A k \in DOMAIN memory[kind] :
        memory[kind][k].group \in DOMAIN memory[GroupsOf(kind)]
    /\ \A m, n \in DOMAIN memory["policies"] :
        memory["policies"][m].group = memory["policies"][n].group => m = n

-----------------------------------------------------------------------------
(* Export and JSON import *)

ExportBegins ==
    /\ at = Idle
    /\ at' = <<"export", 1>>
    /\ quiet' = ~Busy("other")
    /\ file' = EmptyFile
    /\ exact' = FALSE
    /\ restoration' = "none"
    /\ UNCHANGED <<managers, left, csv, changes>>

\* export_all: one kind listed; the last one completes the file
ExportKind ==
    /\ Exporting
    /\ file' = [file EXCEPT ![KindOf(at)] = Listed(KindOf(at))]
    /\ IF at[2] < 5
       THEN at' = <<"export", at[2] + 1>> /\ UNCHANGED exact
       ELSE at' = Idle /\ exact' = (quiet /\ Sound)
    /\ UNCHANGED <<managers, left, csv, changes, quiet, restoration>>

ImportBegins ==
    /\ at = Idle
    /\ at' = <<"import", 1>>
    /\ left' = file[Kinds[1]]
    /\ quiet' = ~Busy("other")
    /\ UNCHANGED <<managers, file, csv, changes, ghosts>>

\* the next entity, when its predecessor is created or its exception counted
ImportEntity ==
    /\ Importing
    /\ \E e \in left :
        /\ left' = left \ {e}
        /\ Begins("request", "create", KindOf(at), KeyOf(KindOf(at), e), e[2])
    /\ UNCHANGED <<file, at, csv, changes, quiet, ghosts>>

\* the next kind, or the end of import_all
ImportKindEnds ==
    /\ Importing
    /\ left = {}
    /\ ~Working("request")
    /\ work' = [work EXCEPT !["request"] = AtRest]
    /\ IF at[2] < 5
       THEN /\ at' = <<"import", at[2] + 1>>
            /\ left' = file[Kinds[at[2] + 1]]
            /\ UNCHANGED restoration
       ELSE /\ at' = Idle
            /\ restoration' = IF restoration = "none" THEN "none" ELSE "done"
            /\ UNCHANGED left
    /\ UNCHANGED <<memory, groupIndex, tables, doubtful, file, csv, changes, quiet, exact>>

-----------------------------------------------------------------------------
(* CSV import *)

\* The clients are looked up once, before the first row.  A file exported earlier
\* is laid aside.
CsvBegins ==
    /\ at = Idle
    /\ file' = EmptyFile /\ exact' = FALSE
    /\ at' = <<"csv", 1>>
    /\ existing' = [m \in {k[1] : k \in DOMAIN memory["clients"]} |-> TRUE]
    /\ counts' = NoCounts
    /\ before' = DOMAIN memory["clients"]
    /\ quiet' = ~Busy("other")
    /\ restoration' = "none"
    /\ UNCHANGED <<managers, left, changes>>

\* what the rows read so far leave room for
RowsLeft == counts.imported + counts.updated + counts.failed < MaxRows

\* A row: update_client under the canonical key if the snapshot has its MAC,
\* create_client with the MAC as the row spells it otherwise.
CsvRow(m, spelling, g) ==
    /\ ReadingCsv /\ RowsLeft /\ ~Busy("request")
    /\ IF m \in DOMAIN existing
       THEN Begins("request", "update", "clients", Key(m), [group |-> g])
       ELSE Begins("request", "create", "clients", <<m, spelling>>, [group |-> g])
    /\ UNCHANGED <<file, at, left, csv, changes, quiet, ghosts>>

\* the result of a row
Count(result) ==
    /\ counts' = [counts EXCEPT ![result] = @ + 1]
    /\ work' = [work EXCEPT !["request"] = AtRest]
    /\ UNCHANGED <<memory, groupIndex, tables, doubtful>>
    /\ UNCHANGED <<file, at, left, before, changes, quiet, ghosts>>

\* After an update the row's name, if it has one, goes on the object of the
\* snapshot and the clients are saved once more; a snapshot entry that is None
\* counts as a failure here, after the update.
CsvUpdated(named) ==
    /\ ReadingCsv
    /\ work["request"].step = "done" /\ work["request"].what = "update"
    /\ Count(IF named /\ ~existing[work["request"].key[1]] THEN "failed" ELSE "updated")
    /\ UNCHANGED existing

\* a mutant of CsvCreated: the snapshot does not learn of the new client
CsvCreatedUnseen ==
    /\ ReadingCsv
    /\ work["request"].step = "done" /\ work["request"].what = "create"
    /\ Count("imported")
    /\ UNCHANGED existing

\* After a creation the snapshot gets what get_client finds under the canonical
\* key, None for a client created under another spelling.
CsvCreated ==
    /\ ReadingCsv
    /\ work["request"].step = "done" /\ work["request"].what = "create"
    /\ LET m == work["request"].key[1]
       IN  existing' = Put(existing, m, Key(m) \in DOMAIN memory["clients"])
    /\ Count("imported")

\* the exception of an operation
CsvFailed ==
    /\ ReadingCsv
    /\ work["request"].step = "failed"
    /\ Count("failed")
    /\ UNCHANGED existing

\* a row without a MAC or a group, or with a MAC that does not parse
CsvBadRow ==
    /\ ReadingCsv /\ RowsLeft /\ ~Busy("request")
    /\ Count("failed")
    /\ UNCHANGED existing

CsvEnds ==
    /\ ReadingCsv /\ ~Busy("request")
    /\ at' = Idle
    /\ existing' = EmptyDict
    /\ counts' = NoCounts
    /\ before' = {}
    /\ UNCHANGED <<managers, file, left, changes, quiet, ghosts>>

-----------------------------------------------------------------------------
(* Administrators, new installations and crashes *)

\* An administrator's request begins on the other thread; one that is refused
\* at once changes nothing.
Administer(what, kind, key, value) ==
    /\ changes < MaxChanges
    /\ ~Busy("other")
    /\ ~Refused(what, kind, key, value)
    /\ Begins("other", what, kind, key, value)
    /\ changes' = changes + 1
    /\ quiet' = FALSE
    /\ restoration' = "none"
    /\ UNCHANGED <<file, at, left, csv, exact>>

\* the file is taken to an installation that has nothing yet
FreshInstall ==
    /\ at = Idle
    /\ Empty
    /\ restoration' = IF exact THEN "fresh" ELSE "none"
    /\ UNCHANGED <<file, at, left, csv, changes, quiet, exact>>

\* The process dies and starts again.
Crash ==
    /\ Load
    /\ at' = Idle
    /\ file' = IF Exporting THEN EmptyFile ELSE file
    /\ left' = {}
    /\ existing' = EmptyDict /\ counts' = NoCounts /\ before' = {}
    /\ restoration' = IF restoration = "none" THEN "none" ELSE "fresh"
    /\ UNCHANGED <<changes, quiet, exact>>

-----------------------------------------------------------------------------
(* The specification *)

\* what an installation may hold when a request begins
Init ==
    /\ \E dg \in Entities("device_groups"), ds \in Entities("devices"),
          cg \in Entities("client_groups"), cs \in Entities("clients"),
          ps \in Entities("policies") :
        memory = [device_groups |-> dg, devices |-> ds, client_groups |-> cg,
                  clients |-> cs, policies |-> ps]
    /\ \A kind \in Groups : \A g \in DOMAIN memory[kind] : memory[kind][g] = g
    /\ Sound
    /\ groupIndex = IndexOf(memory["policies"])
    /\ tables = memory /\ doubtful = {}
    /\ work = [t \in Threads |-> AtRest]
    /\ file = EmptyFile
    /\ at = Idle /\ left = {}
    /\ existing = EmptyDict /\ counts = NoCounts /\ before = {}
    /\ changes = 0
    /\ quiet = TRUE /\ exact = FALSE
    /\ restoration = "none"

\* the operations of the request take their steps, and so do the administrator's
Operate(t) ==
    /\ Steps(t)
    /\ UNCHANGED <<file, at, left, csv, changes, quiet, ghosts>>

Request ==
    \/ ExportBegins \/ ExportKind
    \/ ImportBegins \/ ImportEntity \/ ImportKindEnds
    \/ CsvBegins
    \/ \E m \in Macs, s \in Spellings, g \in ClientGroups : CsvRow(m, s, g)
    \/ \E named \in BOOLEAN : CsvUpdated(named)
    \/ CsvCreated \/ CsvFailed \/ CsvBadRow \/ CsvEnds

Administrator ==
    \E kind \in KindNames : \E key \in KeysOf(kind) :
        \/ \E value \in ObjectsOf(kind) :
            /\ kind \in Groups => value = key
            /\ Administer("create", kind, key, value)
        \/ kind \in Members /\ \E value \in Changes(kind) :
                                    Administer("update", kind, key, value)
        \/ Administer("delete", kind, key, NoObject)

Next ==
    \/ Request \/ Administrator
    \/ \E t \in Threads : Operate(t)
    \/ FreshInstall \/ Crash

Spec == Init /\ [][Next]_vars

-----------------------------------------------------------------------------
(* Properties *)

OperationOK(op) ==
    /\ op.what \in {"create", "update", "delete"}
    /\ op.kind \in KindNames
    /\ op.key \in KeysOf(op.kind)
    /\ op.step \in {"check", "write", "second", "save", "done", "failed"}
    /\ op.stale \in BOOLEAN
    /\ op.step = "second" => AfterWrite(op) = "second"
    /\ op.what = "create" => op.value \in ObjectsOf(op.kind)
    /\ op.what = "update" => op.kind \in Members /\ op.value \in Changes(op.kind)
    /\ op.what = "delete" => op.value \in {NoObject} \cup ObjectsOf(op.kind)

\* Types.  No malformed address gets into a dictionary or a table, and every
\* operation, also a half-way one, is one the managers have.  That members have
\* their groups is not among them: two threads can break it.
TypeOK ==
    /\ \A kind \in KindNames :
        memory[kind] \in Entities(kind) /\ tables[kind] \in Entities(kind)
    /\ groupIndex \in Dict(ClientGroups, PolicyNames)
    /\ doubtful \subseteq KindNames
    /\ \A t \in Threads : IF Busy(t) THEN OperationOK(work[t]) ELSE work[t] = AtRest
    /\ existing \in Dict(Macs, BOOLEAN)
    /\ before \subseteq Keys
    /\ counts \in [{"imported", "updated", "failed"} -> 0..MaxRows]
    /\ at \in {Idle, <<"csv", 1>>} \cup ({"export", "import"} \X (1..5))
    /\ changes \in 0..MaxChanges
    /\ quiet \in BOOLEAN /\ exact \in BOOLEAN
    /\ restoration \in {"none", "fresh", "done"}

\* An export nothing disturbed, of managers whose members have their groups,
\* imported into an installation that had nothing, brings every entity back:
\* also two devices of one address, also after crashes at any step and imports
\* that were cut short, whatever order the file has.  A MAC exported twice, in
\* two spellings, comes back once.
RoundTrip ==
    restoration = "done" =>
        /\ \A kind \in KindNames \ {"clients"} : Listed(kind) = file[kind]
        /\ {k[1] : k \in DOMAIN memory["clients"]} = {e[1] : e \in file["clients"]}
        /\ Listed("clients") \subseteq file["clients"]
        /\ DOMAIN memory["clients"] \subseteq {Key(m) : m \in Macs}
        /\ {<<g, groupIndex[g]>> : g \in DOMAIN groupIndex} =
                {<<e[2].group, e[1]>> : e \in file["policies"]}

\* a step of the import, and not of the other thread
ImportStep ==
    /\ Importing /\ at'[1] = "import"
    /\ work'["other"].step = work["other"].step

\* An import adds to what is there and neither changes nor removes any of it,
\* other threads or not, except in two ways.  An entity that another thread has
\* created under the same key since the import looked is written over.  And a
\* policy gives way to the file's policy of its name, for another client group;
\* the index still has every group it had.
ImportKeepsWhatIsThere ==
    [][ImportStep =>
        LET op == work["request"] IN
        /\ \A kind \in KindNames \ {"policies"} : \A k \in DOMAIN memory[kind] :
            /\ k \in DOMAIN memory'[kind]
            /\ \/ memory'[kind][k] = memory[kind][k]
               \/ op.stale /\ op.kind = kind /\ op.key = k
        /\ \A g \in DOMAIN groupIndex :
            /\ g \in DOMAIN groupIndex'
            /\ \/ groupIndex'[g] = groupIndex[g]
               \/ op.stale /\ op.kind = "policies" /\ op.value.group = g
        /\ \A n \in DOMAIN memory["policies"] :
            /\ n \in DOMAIN memory'["policies"]
            /\ \/ memory'["policies"][n] = memory["policies"][n]
               \/ /\ <<n, memory'["policies"][n]>> \in file["policies"]
                  /\ op.stale \/ memory'["policies"][n].group \notin DOMAIN groupIndex]_vars

\* Between the rows of a CSV import that runs alone its results are true: there
\* are as many new clients as rows counted as imported, and no MAC, registered
\* before or by a row above, in any spelling, was registered once more.
CsvCountsAreTrue ==
    ReadingCsv /\ quiet /\ ~Busy("request") =>
        /\ before \subseteq DOMAIN memory["clients"]
        /\ Cardinality(DOMAIN memory["clients"]) = Cardinality(before) + counts.imported
        /\ \A j \in DOMAIN memory["clients"] \ before, k \in DOMAIN memory["clients"] :
                j[1] = k[1] => j = k
=============================================================================
