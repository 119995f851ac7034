# FNAC: a formal model of the RADIUS MAB server

FNAC keeps network devices, MAC-addressed clients and MAB policies in one
SQLite file, answers (or lets FreeRADIUS answer) authentication requests from
them, and records every attempt. This directory holds TLA+ modules translated
from `src/src/*.py`, TLC configurations that check them on small instances, and
theorems about them that TLAPS checks for every value of the constants.

## 1. The system

| component | state | operations | interacts with |
|---|---|---|---|
| `Policy_Engine` (`policy_engine.py`) | policies by name, index group -> policy name | create, update, delete, evaluate | its table; the RADIUS server and the configuration generator read it |
| `Client_Manager` (`client_manager.py`) | clients by MAC as typed, client groups | create/update/delete client, create/delete group, look-up | two tables; API threads call it concurrently |
| `Device_Manager` (`device_manager.py`) | devices by name, device groups | the same, plus look-up by address | two tables; the RADIUS server looks devices up by address |
| persistence (`persistence.py`, `db_persistence.py`, `database.py`) | the SQLite tables | load all, delete all + insert all, schema migration | every manager; swallows every error |
| `AsyncLogWriter` (`async_log_writer.py`) | queue, batch, writer task | start, log_async, stop | the `auth_logs` table; started and stopped by `main.py` |
| `Log_Manager` (`log_manager.py`) | the list of log entries | create entry, rotate, list, filter | `auth_logs`; fed by the parser |
| log parser (`freeradius_log_parser.py`) | file position, dedup window | parse new lines | FreeRADIUS' log file, `Log_Manager` |
| configuration generator (`freeradius_config_generator.py`) | two files and their backups | write, validate, reload | the managers, FreeRADIUS |
| REST API (`api.py`) | none of its own | one handler per operation, import/export, CSV | all managers, the generator after some operations |
| RADIUS server and protocol (`radius_server.py`, `radius_protocol.py`) | socket, thread | handle one request | devices, clients, policies, logs |
| `main.py` | threads and event loops | start, parser thread, shutdown | everything |

What is hard: the managers have no lock and Flask serves requests in threads;
every change rewrites whole tables; two tables of one manager are two
transactions; every SQLite error on load is taken for an empty database and
every error on save is logged only; the same relation is kept twice (policies
and index; spelling of a MAC in memory and on disk; uniqueness of addresses and
groups in the table but not in memory); the log writer's shutdown depends on
the order of `running`, `join` and `cancel`; the FreeRADIUS files go stale;
the parser's dedup window uses the clock of the parser.

What makes each part correct: one policy and one verdict per group, which only
an operation on that group changes and a restart brings back (policies); every
client and device in a group that exists, in memory and on disk, and unique
identifiers (managers); the tables equal to memory whenever nothing is under
way (saves); every accepted log entry stored once, in order and at last, stop
included (log writer); files and FreeRADIUS that follow the managers
(generator); an answer that follows the policy, verifies, and is logged as given
(RADIUS server); a file that brings a configuration back whole, and an import
that writes over nothing another request made before it (import). `PROJECT.json` lists the hazards line by line with the
properties that cover them.

## 2. The modules

**Dicts** and **DictTheorems**: `d[k] = v`, `del d[k]` and `{}` as functions,
and the lemmas the proofs use about them.

**PolicyEngine**. `policies`, `groupIndex` and `table` are `_policies`,
`_group_index` and the rows of the policies table. Each operation is one action
that ends with `SaveData`, which either commits `InsertedRows` or fails and
leaves the table. The UNIQUE constraint on the group is in `InsertedRows`: of
several policies of one group one is inserted, the others' INSERTs are skipped.
`Restart` rebuilds memory from the table, `RestartUnreadable` is the load that
fails. `saved` is a ghost: whether the last save, or the load since, has
succeeded; no action tests it. A handler that raises changes nothing and is a
stuttering step. `FreshSpec` is the same engine with
one restriction on its callers: a new policy never gets a name in use.

**PolicyStore** says what the engine promises without names, index or table:
one verdict per group, a durable copy, and two kinds of steps (`Change` of one
group, `Reload`). `PolicyEngine!ImplementsStore` is `PolicyStore!Spec` under the
refinement mapping that evaluates every group in memory (`applied`) and in the
table (`durable`).

**ClientManager** models threads. A thread's record says where in the handler
it is (`find_group`, `create`, `scan`, `copy_clients`, `write_groups`, ...) and
what its locals hold. A step is what happens between two accesses to shared
state, which is where CPython may switch threads. Clients are objects on a heap,
because a dictionary entry, an update under way and the list of a save under way
share them: a save writes the fields the objects have when it writes. A MAC is
accepted in several spellings, the object holds the canonical one, and the
dictionary is keyed with the one typed; two spellings stand for all.
`Restart` may come between any two steps, also between the transactions of a
save. `quiet` is a ghost naming the thread whose save nobody has disturbed.

**ClientStore** says what the manager promises callers that come one after another,
without objects, spellings, handlers or transactions: groups with members, and a
durable copy of both. A `Change` is one operation on one group or one member, made
when those before it are durable; `Save` makes all of it durable at once; `Restart`
brings back what was durable. `ClientManager!ImplementsClientStore` is
`ClientStore!Spec` under the refinement mapping that takes the rows its clients make
(`Rows(ClientList)`) for the members, so that the spellings of a MAC are one member,
and the two tables for the durable copy.

**DeviceManager** keeps devices in dictionary order, since the first with an
address answers for it (`DeviceByIp`). An operation changes them in one action and
begins the save, whose two transactions (`SaveGroups`, `SaveDevices`) are steps of
their own; either may fail (`DeviceSaveFails`), and the process may stop before or
after each (`RestartDevices`). It differs from clients in the UNIQUE address and in
`UpdateDeviceRefused`, the update that assigns the group and then raises on the
address, with memory ahead of the tables. What a deletion leaves in
the dictionary and what the INSERTs leave in the table are the devices at some
positions, in their order (`Kept`): those of the other names, and those that are
the first with their address (`InsertedRows`).

An error of SQLite that is swallowed leaves tables that no invariant relates to
memory; the properties say what holds without one. For clients the constant
`SqliteMayFail` says whether there are any. For devices `devicesSaved` says whether
memory has been saved, or loaded, since it last changed, and `devicesTorn` whether a
save was ever cut, by an error or the end of the process, after its first
transaction when it had found memory ahead of the tables (`behind`). Only that
leaves a device without its group: a device refused an update has moved to another
group in memory, its old group is deleted, the group table is committed, and the
process stops. One failure alone never does it.

**AsyncLogWriter**: everything runs on one event loop, so an action is what a
task does between two suspensions. `TakeEntry` is the writer from the return of
`wait_for` to the next one, with the flush and, when `running` is cleared, the
final flush. `Stop` and `JoinReturns` are `stop()` before and after
`queue.join()`; `CancelWriter` is the cancellation as Python 3.8 and later do it
(`src/README.md:139` asks for 3.8+), where `CancelledError` passes the
`except Exception` of the writer. `failed` is a ghost: the entries of the
batches whose transaction failed.

**LogPipeline** composes the parser thread with `Log_Manager` and the
`auth_logs` table, under a clock, a FreeRADIUS that appends lines and a
logrotate that empties the file once. `ReadLines` is the part of `parse_logs`
up to `f.tell()`; each line is then suppressed (`SuppressLine`) or becomes an
entry in the three transactions of the code: `CreateLogEntry` (append, save),
`RotateLogs` (sort, cut, save) and `InsertLog` (date the entry by its line,
`save_log`). `CleanUp` is the end of `parse_logs`. `Restart` may come between
any two of them. Time counts in units in which `Window` is the dedup window and
`Shift` the three hours that `_parse_timestamp` adds.

**RadiusProtocol** is `radius_protocol.py` as functions. A datagram keeps the
bytes behind its header, where the code does arithmetic with them, and its
header as the fields they unpack to. `ParsePacket` gives the set of its result,
empty for a `RADIUSParseError`. `Grammatical` and `Verifies` are the reference
definitions: the first says what a sequence of attributes is without an offset,
the second what a network device does with an answer. A digest is the record of
what is hashed.

**RadiusServer** composes it with the three managers. A listener's record says
where in `_listen` and `handle_request` it is and what its locals hold; a step
is what lies between two accesses to shared state: one turn of the loop over the
devices, one look-up, one field of an object. Devices, clients and policies are
objects on a heap that updates change in place. A request that changes two things
changes them in two steps: `update_policy` decision and VLAN (`AssignDecision`,
`AssignVlan`), `create_policy` the policies and the index (`CreatePolicy`,
`IndexPolicy`), `delete_policy` the same (`DeletePolicy`, `UnindexPolicy`); `update`
is the second of the two. Between any two of them the listener may read the client's
group (`ReadGroup`), the name the index has for it (`FindName`), the policy of that
name (`FindPolicy`), its decision and its VLAN, so that an index entry may be stale
and a name may stand for another policy by the time it is looked up. One
administrator's request runs at a time. Identities grow, so they give the order in which a dictionary is walked. `Control` is `start` and `stop`,
in two steps each. Every `start` has its socket and its listener: `stop` closes
the socket, waits two seconds and goes on, and a thread that is in `recvfrom`
stays there and gets one more datagram (`Bound`). `Send` uses the socket of the
latest start, as the code does. A server starts on a configuration that was
loaded, and its policies are `Whole`: `create_policy` and `update_policy` validate
before they save. (A save by another thread between the two assignments of an
update could put half an updated policy into the table; a start on such a table
is left out.) `seen` is a ghost: every fact that was true at
some instant since a listener received its datagram; `calm` says whether
anything has changed since.

**FreeRadiusConfig** composes the handlers of `api.py`, the generator and
FreeRADIUS. There are three copies: `data` (the managers), `files` and `served`
(what FreeRADIUS read when it started). A thread's record says where in
`update_all_configs` it is: a file is listed, opened (which empties it) and
written in three steps, each may fail, and only if both files were written does
`reload_freeradius` ask whether FreeRADIUS runs and then restart or start it. A
file is `Whole`, `Truncated` or `Mixed`, the last after two threads wrote into
one another or a write broke off. `UpdateDevice` is the handler that changes a
device and regenerates nothing. `Restart` may come anywhere; the set-up that
follows (`SetupOpens`, `SetupWrites`, `SetupFails`) runs before requests are
served and writes `mab_users` only. `quiet` and `clean` are ghosts: the thread
whose update nobody has disturbed, and whether anything has failed, stopped or
overlapped since FreeRADIUS last served the data.

**Managers** has the operations of the three managers as two threads call them, for
every kind of entity alike. A thread's record says which operation it is at and
where: the first look (`Begins`: is the key there? for a policy: has its group an
index entry?), for a member the look for its group and for a deletion of a group the
look for its members (`Check`), the write (`Insert`, `Remove`, `Assign`), a second
write where there is one (`SetAddress`, `Index`), and `Save`. The other thread may
act between any two. `SetAddress` on a malformed address ends `update_device` with
the group changed and nothing saved. `stale` records that the other thread has put
the entry in or taken it out since the look; an update then assigns to an object
that nobody sees any more. `OnDisk` is what a crash finds: the tables, or the tables
with the group table of a save under way. What a table holds that two overlapping
operations have saved is not followed (`doubtful`): `Load` takes anything of its
types for it, since `ClientManager` follows the saves of two threads in detail. The
scan of the members is one look here, which may also raise while the other thread
is at work; `ClientManager` has it turn by turn.

**ImportExport** is a request over them: an export lists kind after kind, an import
creates entity after entity and goes on past what is refused, a CSV import looks the
clients up once and takes rows one by one (`CsvRow`, then `CsvUpdated`, `CsvCreated`
or `CsvFailed`). The thread "request" does the import's operations, the thread
"other" one that an administrator has begun (`Administer`: create, update or delete
of any kind). `Crash` reloads what the tables hold (one device per address, one
client per MAC, one policy per group), `FreshInstall` takes the file to an empty
installation. `exact` and `restoration` are ghosts: whether the export was
undisturbed and its members had their groups, and whether what is there comes from
the file alone.

The `MC*` modules only name the values the configurations use; `MCRadiusServer`
also lists the datagrams that are sent and, for the parser alone, every tail of
up to four bytes under every declared length around it.

## 3. The runs

Passing runs:

| run | bounds | shows |
|---|---|---|
| `policies` | 2 names, 3 groups, VLANs 1 and 4095, `FreshSpec` | one verdict per group, kept by a restart after a successful save (`VerdictOfOwnGroup`, `DuplicateHasPolicy`, `RestartKeepsVerdicts`), index and table in step (`IndexSound`, `InSync`), VLANs that go with decisions (`VlanMatchesDecision`), and the refinement of `PolicyStore` |
| `clients_one_thread` | 1 thread, 2 MACs in 2 spellings, 2 groups, 3 objects, no SQLite error | integrity in memory and on disk, the tables in step at rest, and the refinement of `ClientStore`: an operation is one change of the disk |
| `clients_two_threads` | 1 MAC, 2 groups, 2 threads, failing SQLite | the object graph under every interleaving; an undisturbed save settles the tables |
| `logwriter` | batches of 3, 6 entries, one duplicate id, failing flushes, fair event loop | nothing lost, repeated or reordered but the failed batches; every entry is delivered; a stop costs less than a batch |
| `devices` | 3 devices, 2 addresses, 2 groups, failing SQLite | unique names, a group for every device after any single failure, and the same device answering for an address after a restart |
| `radius_server` | 2 devices of 2 addresses and 2 secrets, 1 MAC, 2 groups, 2 policy names, 1 VLAN, 1 start with 2 changes or 2 starts, one datagram waiting per socket | every accept was earned: the client's group, the name the index gave it and the decision of a policy of that name were each so at an instant of the request, and it was a policy of that group unless policies of two groups have had the name; every answer verifies, parses and is logged as given; an undisturbed request gets the policy the index names; only strangers are dropped; a datagram that waits is received; the parser against its grammar |
| `freeradius` | 2 threads, 1 device of 2 values, 1 MAC, 3 requests, everything may fail or crash | an undisturbed successful update puts all in order, whatever it found; changed clients are served in the end |
| `import` | 2 devices of 1 address, 1 device group, 2 client groups, 1 MAC in 2 spellings, 1 policy name, 1 request of an administrator, 2 CSV rows, every initial content | a file nobody disturbed comes back whole, an import writes over nothing but what the other thread has created under the key since it looked and a same-named policy, the counts of a CSV import that runs alone are true |
| `log_pipeline` | 2 keys, 2 authentications, a list of 2, window 1, shift 2, 4 moments, 3 starts, one SQLite error | no line skipped, entries of one process a window apart, table and list together, the list cut again after crashes |

Why the bounds are enough: three groups and two names let one name move through
every group while the other stays, which is what an index entry can go wrong
with; 1 and 4095 are the two sides of the VLAN test. Two MACs in two spellings
give four keys of which two collide in the table, and three objects (`MaxObjects`
bounds the clients created between two restarts) allow one to be replaced. Two
threads are enough for each race in the code, which is between one thread that
has looked and one that changes. Batches of three distinguish empty, partial and
full, six entries make two full batches; `MaxLogs` of that module bounds the
entries. Three devices over two addresses always make two share one. In the log
pipeline a second and a third start parse the same two lines again, so lists of
up to six entries meet a limit of two, and four moments around a window of one
put two readings of one key inside, at the edge of and beyond the window; one
SQLite error may strike any of the saves and loads. For the RADIUS server two
devices let the address of one move to the other during the scan, two groups let
the client move between policies, and `MaxEvents` counts a start for two changes:
one start with up to two changes in a request, or a second start, are covered
together, and each listener has at most one datagram waiting, which is all a
listener can tell. Three requests of two threads give an update in progress, one
that overlaps it and one that repairs. In the import run two names of one
address, two spellings of one MAC and one policy name over two groups are each
the least with which an entity can collide with another; the malformed address of an
update is always among the inputs, and one request of an administrator, taken step by
step, is the thread every race is with. Symmetry is used only in
runs without liveness, over sets whose members nothing tells apart. Deadlock is
checked except where a system stops for good at its bounds, which the
configuration says: the log writer after `stop()`, the RADIUS server when its
starts are used up and the listener has ended, and `FreeRadiusConfig` when its
requests are.

Runs that show the code departing from what the repository says of it; each has
one property, and a finding in `PROJECT.json` quotes the line:

| run | what happens |
|---|---|
| `policy_other_groups_verdict` | under `Spec`, a reused policy name makes one group answered with the policy of another |
| `logwriter_stop_hangs` | the writer leaves its loop before the queue is empty, and `stop` waits for ever |
| `radius_registered_rejected` | the server looks a MAC up in upper case, a loaded client has the lower case for its key: it is rejected, whatever its group's policy says |

Other departures follow from the modules and have no run of their own:

* a load that fails is taken for an empty database, and the next save deletes
  the rows that were not read (`RestartUnreadable`, then any save);
* a save that fails is only logged, where `design.md:466` asks for a failure that
  the user sees;
* with a reused name a group may be refused as a duplicate without a policy;
* of two overlapping saves the older copy may be written last, and a crash
  between the transactions of one save leaves clients without groups;
* two spellings of one MAC are two clients in memory and one row;
* devices may come to share an address, and one of them is gone after a restart;
  a refused update of a device leaves its group changed;
* the dedup window is measured when the parser looks, so events far apart that
  are read together (a backlog, a restart) count as duplicates; after a restart
  the file is parsed from its beginning and every event is entered again;
* a client may join a group that another thread has just deleted, between the
  look-up of the group and the insertion (`client_manager.py:139-150`), or behind
  the loop that looks for its members (`:274-281`), and two threads may create two
  policies for one group (`policy_engine.py:90-103`); so under two threads no property
  says that members have their groups;
* of two requests that create one client or one device the second writes over the
  first, if both have looked before either inserts (`client_manager.py:134-150`,
  `device_manager.py:104-120`): an import may replace what an administrator has
  just made;
* an accept may come from another group's policy, if the name of a policy is used
  for two groups: through the stale index entry, or when a policy is deleted and
  another of its name created between the two look-ups (`policy_engine.py:156-157`);
* a client registered under another spelling than the canonical one is not found
  under it after a restart;
* `AsyncLogWriter.stop` that finds the queue empty cancels the writer with a
  partial batch in hand (`StopLosesLessThanABatch` is what remains true);
* in a full log the rotation drops the entry just made, which still has the time
  of its making while the others have that of their line plus three hours
  (`log_manager.py:50`, `freeradius_log_parser.py:192`);
* the RADIUS server drops a request of an unknown device where `design.md:457`
  and `requirements.md:77` ask for a reject, answers any packet code, and logs
  nothing for what it drops;
* one `sendto` that fails ends the listener, with `_running` still set
  (`radius_server.py:177`); a `stop` leaves a blocked listener behind, and a
  `start` after it gives the new socket two;
* decision and VLAN are read one after the other, so an accept with a VLAN may go
  out without one (`policy_engine.py:129-130`, `:173`);
* `generate_mab_users` evaluates the policy and writes the client whatever the
  decision, so a client whose policy rejects is accepted by FreeRADIUS
  (`requirements.md:84`);
* updates of devices, clients and policies do not regenerate the files, although
  `api.py:83` says "after data changes"; of two updates that overlap the older
  content may stay; a `clients.conf` left torn by a crash is not repaired by the
  set-up at the next start; a `start` is lost on a FreeRADIUS that another thread
  has started since `is-active`;
* an import applies entities one by one, where `IMPORT_EXPORT_GUIDE.md:94` says
  "Import validates all data before applying changes"; a policy of the file
  replaces one of the same name, where `:99` says duplicates are skipped; the
  dates of the file (`:98`) are not read;
* an export that runs beside a request may list a member without its group, which
  the import then refuses;
* a CSV row for a client registered under another spelling fails, since
  `update_client` looks the canonical key up; after a row that registered such a
  spelling the snapshot holds `None`, and a later row with a name counts as
  failed after it has changed the group;
* `main.py` initialises the log writer on an event loop that is not run again and
  shuts it down on another one, so outside of a caller that keeps the loop running
  the writer neither writes nor stops, and `main.py` does not start the RADIUS
  server (`main.py:103`);
* `_get_policy_name` reads `client_group_id` and `id`, which the objects do not
  have, so the policy name of an entry is always `None`;
* `MAX_LOGS` is 50 (`log_manager.py:16`), not the 5000 of `log_manager.py:26`.

Fairness: `AsyncLogWriter!LoopFairness` is weak fairness of what the event loop
itself schedules (a task that can run, a timer that has expired).
`LogPipeline!FairSpec` is weak fairness of `Parse`: `_log_parser_thread` loops
for ever and catches every exception. No caller is obliged to log, to stop or to
authenticate, and no restart is obliged to come or to stop coming
(`MaxStarts` bounds how many do).
`RadiusServer!Fairness` is weak fairness of each listener: a thread that does not
block is run. No datagram is obliged to come, and nothing forces a `sendto` to
succeed; `Served` excuses a listener that one has ended.
`FreeRadiusConfig!Fairness` is weak fairness of the steps of an update under way:
writes return and every `systemctl` call has a timeout
(`freeradius_config_generator.py:257`, `:268`, `:284`). Failures may strike as
often as they like, and `ClientsAreServed` excuses them.

## 4. What is proved

`PolicyEngineProofs` proves, for any sets of names, groups and integers as VLAN
inputs, through any number of operations, failed saves and failed loads, and
whether or not names are reused (`Spec`):

* `EngineInvariant`: `Spec => []EngineInv`. `EngineInv` adds to the three
  properties that the table, from which a restart rebuilds the engine, has at
  most one policy per group and consistent VLANs; without that, `IndexSound` and
  `VlanMatchesDecision` would not survive `Restart`. The index may be ahead of
  the policies (a reused name), never behind.
* `TypeCorrect`, `OnePolicyPerGroup` (`IndexSound`), `SavesAreComplete`
  (`InSync`) and `VerdictVlan` (`VlanMatchesDecision`) follow from it.

The argument has one lemma per kind of step. The step that needs thought is the
save: policies of distinct groups are all inserted, so `InsertedRows` is exactly
the dictionary; `CreatePolicy` keeps groups distinct because `IndexSound` says a
group absent from the index has no policy.

The second half of `PolicyEngineProofs` goes on for `FreshSpec`:

* `FreshInvariant`: `FreshInv` adds to `EngineInv` that the index is never ahead
  of the policies (`IndexExact`). It is kept because a fresh name cannot be the
  one an older index entry points to.
* A sound and exact index is the very function that a load builds
  (`ExactIndexIsRebuilt`). `OwnVerdict`, `NoPhantomDuplicate` and
  `SavedVerdictsSurvive` follow.
* `EngineImplementsStore`: `FreshSpec => ImplementsStore`. An operation is a
  `Change` of the group of the policy it touches, since no other group's index
  entry points there, and its save leaves the durable verdicts or makes them the
  applied ones; both restarts are a `Reload`.

`FreeRadiusConfigProofs` proves, for any devices, values, MACs, number of threads
and number of requests, whether or not anything may fail:

* `TypeCorrect` (`TypeOK`) and `QuietUpdatesApply` (`QuietUpdateApplies`).
* The inductive invariant `UpdateInv` adds to the types of the threads' records
  that nobody is at work while the generator is set up (`SetupIsAlone`), and
  `QuietProgress`: how far the thread named by `quiet` has come tells what is in
  the files. Once it has listed the devices its content is theirs; once it has
  written `clients.conf` without a failure the file is whole and up to date; at
  `is_active` both are; and when it is idle again FreeRADIUS serves them. Every
  step of another thread either takes the name from `quiet` or touches neither
  data nor files nor what is served, which is where the lemma per kind of step
  does its work (`RequestKeepsInv`, `WorkKeepsInv`, `LifecycleKeepsInv`). A
  write into a file this thread emptied and nobody has touched since leaves it
  whole (`WrittenWhole`), and a FreeRADIUS that was running before `restart`, or
  not before `start`, has read the files afterwards.
* It rests on `NobodyIsNoThread`: the ghost's "nobody" is not the name of a
  thread.

`ImportExportProofs` proves, for any names, groups, addresses, policies, a finite
set of MACs (`MacsAreFinite`: the CSV counts are cardinalities) and any number of
requests and rows:

* `TypeCorrect` (`TypeOK`), `RestoresTheFile` (`RoundTrip`), `CountsAreTrue`
  (`CsvCountsAreTrue`) and `ImportKeeps` (`ImportKeepsWhatIsThere`), all from
  `ImportInvariant`: `Spec => []ImportInv`.
* `ImportInv` has four parts. `BaseInv` is the types, with what a request holds
  between two steps (`RequestWork`), and that a thread is at work alone if `quiet`
  (`Alone`). Each step of an operation is described once, field by field (`Went`,
  `InsertDoes` and its siblings), because the two threads share it.
* `KeyFree`: an operation that creates and has looked finds its key, or its group's
  index entry, still free when it writes, unless the other thread has touched it
  since (`stale`). That is what an unlocked look is worth, and `ImportKeeps` follows
  from it (`InsertKeeps`, `IndexKeeps`), with its two exceptions and no other.
* `RestoreInv`: `RoundTrip` speaks only of the end of an import, so the invariant
  follows the file from its beginning. What an undisturbed export has listed is what
  the managers hold, so a file written in one piece from managers whose members have
  their groups names every group it needs and no entity twice (`FileIsSnapshot`,
  `Consistent`). From the new installation on, what memory and tables hold comes from
  the file (`FromFile`, kept by a crash, which only loses entries) and everything the
  import has tried is there, but for the entity it is at (`ImportProgress`). What a
  restored installation refuses is there already: what has its name or key is, the
  file being consistent, the entity itself (`RefusedIsThere`), and its group came with
  an earlier kind (`GroupIsThere`). At the end both inclusions hold (`Complete`).
* `CsvInv`: the snapshot of an undisturbed CSV import has the MAC of every client
  there is but the one of the row at work, so the row of a new one adds a key whose
  MAC no other key has, and the number of keys grows with the count (`InsertCsv`,
  `CsvResultCsv`).

`ManagerProofs` proves of `ClientManager`, for any MACs, groups and number of threads, whatever
saves and loads fail:

* `TypeCorrect` (`TypeOK`) and `QuietSavesSettle` (`QuietSaveSettles`), from
  `ClientInvariant`: `Spec => []ClientInv`.
* `ClientInv` says that the heap is numbered from 1 without holes (a new object
  gets the next number), that a key refers to an object of its MAC and no two
  entries have one position (an update rebinds the object and keeps the place),
  and that what a thread holds between two steps is still an object of the heap.
  `QuietProgress` is the part for the save: the thread named by `quiet` still has
  all the clients in its copy, then all the groups, and before its second
  transaction the groups are in their table. A step of another thread takes the
  name away or changes none of these.
* A load makes one object for each row, so `Restart` needs that the set of rows
  can be numbered (`LoadedClients`, from the theorem on finite bijections), and
  what a save writes needs that a set of entries has one in the lowest place
  (`SmallestPos`).
* It rests on `GhostsAreNoThreads`: the values of the ghost `quiet` that mean
  "settled" and "nobody" are not names of threads.

It then proves the four properties of `clients_one_thread` for any MACs and groups,
under `Alone`: one thread, and an SQLite that does not fail. With two threads they are false (a group deleted between the check and the
insertion of another request), which is why the theorems say so:

* `AloneClientsHaveGroups`, `AloneRowsHaveGroups`, `AloneSyncedAtRest` and
  `AloneImplementsClientStore`, all from `AloneInv`.
* `AloneInv` says for each step of a handler how far memory is ahead of the
  tables. Up to its change they are the same; after it either the groups or the
  clients are already what they will be, for no operation changes both, and so
  one of the two transactions changes nothing: that is why a crash between them
  loses nothing. While `delete_client_group` scans, the clients up to its
  position are known not to be in the group. `RowsHaveGroups` through the first
  transaction of a deletion needs that the groups of the rows are known in memory
  too (`RowsKnown`), and through a restart that a load keeps every row's group
  (`RowsOfNumbered`).
* `AloneImplementsClientStore`: `Spec => ImplementsClientStore`. The members are
  not a variable of the manager but what `Rows` makes of its clients, so each
  operation is shown to change them for one MAC only: a MAC whose clients, and their
  groups, are as before has the row it had (`SameRow`), and whatever an operation
  does to one spelling, its MAC has then the group of its first client or is gone
  with its last (`OneMemberChanges`). Deleting one spelling of a registered MAC is
  thus an `Assign`, deleting the last a `Remove`. Of the two transactions of a save
  the one that changes a table is the `Save`, the other a stutter
  (`WritesAreSaves`), and a load is the store's `Restart`.

The last part of `ManagerProofs` is about `DeviceManager`, for any names, addresses
and groups (so that one module can extend both managers, what they would name
alike begins with "device" in the second):

* `DevicesTypeCorrect` (`DevicesTypeOK`), `EveryDeviceHasItsGroup`
  (`DevicesHaveGroups`) and `SameDeviceAnswers` (`AddressesSurviveRestart`), all from
  `DevicesInvariant`: `DeviceSpec => []DevicesInv`.
* `DevicesInv` adds to the three that the tables alone would make a manager
  (`DeviceTablesOK`): no two rows have one name, and their groups are in the other
  table unless a save that found memory ahead of it stands between its two
  transactions. `RestartDevices` takes the tables for the memory, so without it
  neither types nor groups would survive one. A save that found the tables equal to
  memory has rows whose groups it keeps, since a group is deleted only when no
  device, hence no row, is in it (`RowsAmong`, `SavedRowsHaveGroups`).
* What `Kept` returns is a lemma for lists of any length (`KeptProperties`): each
  device in the result stood at a position that was kept, and each such position
  has one place in the result, because the numbers of kept positions before each
  are distinct and leave none out (`EarlierDiffers`, `PlacesAreTaken`). Hence a
  deletion or a save makes no two names equal and puts no device into another
  group (`KeptKeeps`).
* `SameDeviceAnswers` rests on `InsertedRowsAnswer`: if a device has the address
  there is a first one (`FirstExists`) and only one (`FirstIsOne`), it is kept, and
  no other row has its address, so it is the first in the table too. A refused
  update changes memory only and clears `devicesSaved`, unless it assigns the group the
  device was in.

`AsyncLogWriterProofs` proves, for any positive batch size, any number of entries
and any set of ids that are in the table already:

* `TypeCorrect` (`TypeOK`), `NothingLostWhileRunning` (`NothingLostBeforeStop`) and
  `StopLosesFew` (`StopLosesLessThanABatch`), from `WriterInvariant`:
  `Spec => []WriterInv`.
* `WriterInv` splits "table, batch and queue end to end" into three sequences, each
  in order and each above the one before, which together hold the entries
  accepted less those whose flush failed (`NothingLost`). To take an entry moves
  the head of the queue to the end of the batch; a flush moves the batch to the end
  of the table or all of it to the failed ones (`FlushKeeps`), and order keeps the
  failed entries apart from the others. A stop that finds `unfinished` 0 loses the
  batch and nothing else, and the batch is shorter than `batch_size`
  (`CancelLosesTheBatch`). `Turns` says that nothing goes on after that: the writer
  has ended, and `running` stays FALSE.
* It rests on `BatchSizeIsPositive` and `MaxLogsIsNatural`.

`RadiusServerProofs` proves, for any devices, addresses, secrets, MACs, groups,
VLANs of 1-4094, loaded configurations, datagrams of any bytes and length, any
number of starts and any changes by administrators:

* about the protocol, `ParserIsRight` (`ParserAgrees`): `parse_packet` accepts a
  datagram exactly if its attributes, laid end to end, fill the declared length,
  and building what was parsed gives the bytes back. The parser is a recursive
  function of the offset, defined by `CHOOSE`, so first it exists
  (`ParserExists`): a parse from an offset looks only at later ones. The induction
  is over sets of naturals (`LeastNatural`, `SetInduction`): the offsets at which
  the claim fails are a set, its least element a contradiction, and no operator
  has to be passed to a theorem of the library. `ParserSuffix` says that parsing
  from an offset is parsing what follows it, `BuildParses` and
  `ParserAcceptsGrammar` are the two directions, and `AsciiInjective` says that
  the digits in an answer tell VLANs apart.
* about the server, `TypeCorrect` (`TypeOK`), `AcceptsAreEarned`
  (`AcceptIsEarned`), `AnswersCanBeUsed` (`AnswersFit`), `QuietRequestsAreObeyed`
  (`QuietRequestsGetPolicy`) and `DropsAreOfStrangers` (`OnlyStrangersAreDropped`),
  all from `ServerInvariant`: `Spec => []Inv`.
* `Inv` has three parts. `MemoryOK`: each name has an object of its kind, no two
  names share one, a policy stands under its own name, every policy is whole but the
  one between the two assignments of an update, and a name in the index is, or was,
  the name of a policy of that group (`IndexNamed`). `ServerOK`: only the socket of the
  latest start is open, and nothing listens or waits on one before its start. `ListenersOK`: for each
  listener, `Good`. `Good` is the heart: `Knows` says that what a listener holds
  was seen as it is (`KnowsDevice`, `KnowsClient`, `KnowsGroup`, `KnowsName`,
  `KnowsPolicy`, `KnowsVerdict`), although the object may be deleted or changed, and
  the name given to another policy, since. A policy found under a name that the
  index had for another group shows that the name was used twice (`ReusedIn`):
  objects are never taken off the heap, so both are still there.
  `Current` says that in an undisturbed request the same is true now, and
  `Searching` that an undisturbed search has passed no device of the address.
* An administrator's step is one of a few moves (`Moves`): an object keeps its kind
  and an object named before and after keeps its name. That is all that `Knows`
  needs to survive (`KnowsKept`, `AdministratorMoves`), so each of the thirteen
  steps is looked at once, and not once for each place a listener can be. An
  object no longer named cannot come back, since a new object gets a new identity.
* It rests on `ConfigurationsAreLoaded` and `DatagramsAreDatagrams`, which say what
  the constants mean, and on what the constants of the module say of `None`.

`LogPipelineProofs` proves, for any keys, `MAX_LOGS`, window and shift, and any
number of lines, starts and moments, whether or not SQLite fails:

* `TypeCorrect` (`TypeOK`), `ListsAgree` (`TableFollowsList`), `WindowIsKept`
  (`EntriesAreSpaced`) and `ListIsBounded` (`RotationBounds`), all from
  `PipelineInvariant`: `Spec => []Inv`.
* What `sorted` does is a lemma for lists of any length (`SortedArranges`): the
  numbers of entries that come before each entry are distinct (`BeforeGrows`), so
  they are all the numbers below the length (`RanksAreTaken`, by the theorem on
  injections between finite sets), and sorting is a permutation of positions.
  Hence a cut or a load doubles no id and loses no row that is kept.
* `Inv` bounds the ids by the lines that each start has read (`IdsOK`), says that
  the table is the list as it is while an entry is being made and SQLite has not
  failed, and that the list is within its limit after the rotation (`ListsOK`).
  `RecentOK` is what makes the window hold through the clean-up: for each key the
  parser remembers when it made the last entry, or that was more than two windows
  ago.
* It rests on `LimitsArePositive`, `ShiftIsNatural`, `BoundsAreNatural` and
  `NoKeyIsNoEntry`: the value for "no entry" is not an entry.

The only assumptions of the two policy modules are those `PolicyEngine` names:
VLAN inputs are integers and `None` is neither an integer nor a policy name.

Each inductive invariant was checked by TLC, on the bounds of the component's run,
before it was proved.

Every safety invariant, action property and refinement that a passing run checks is
proved. Model-checked
only: liveness (`Served`, `LinesAreRead`, `ClientsAreServed` and what the log
writer must deliver), which the provers do not reach.

## 5. Not modelled

Wording, dates of policies, clients and devices, shared secrets and the fields of
log entries that decide nothing; log lines that match no pattern, and the set of
processed lines (request numbers make every line new to it); filtering the log;
the fallback INSERT with old column names and the schema migration (they fail or
do nothing in the schema `init_db` creates); a row whose INSERT fails for another
reason than a constraint; the backups of the FreeRADIUS files, the constant file
in `mods-enabled`, and `validate_config`, which nothing calls; the parsing of
requests, the answers of the web interface, and reads that change nothing
(queries, the CSV template); the collision of two MD5 digests; the saves of two
threads in `Policy_Engine` and `Device_Manager`, which have the structure of
`ClientManager`'s; `update_policy` beside an import, which changes decisions only; the web interface, the logging set-up and the installation
scripts.

## 6. Plan and state

Done, in the order of their weight: PolicyEngine with PolicyStore and
ClientManager with ClientStore, their invariants and the refinements proved;
AsyncLogWriter, LogPipeline, RadiusServer with RadiusProtocol, FreeRadiusConfig,
ImportExport over Managers, and DeviceManager with their safety proved.

Left: the saves of two concurrent requests on policies and devices step by step, as
`ClientManager` has them for clients.
