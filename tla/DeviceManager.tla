---------------------------- MODULE DeviceManager ----------------------------
(***************************************************************************)
(* Device_Manager (src/device_manager.py): network devices, their groups,  *)
(* the look-up of a device by address that a RADIUS request begins with,   *)
(* and the two SQLite tables.                                              *)
(*                                                                         *)
(* The manager has the threads of Client_Manager, modelled in              *)
(* ClientManager; here one thread changes the dictionaries and then saves  *)
(* them in two transactions, each of which may fail or be the last before  *)
(* the process stops.  What is followed is what only devices have: an      *)
(* address that the table, but not the manager, keeps unique, an order in  *)
(* which equal addresses are tried, and an update of several fields one of *)
(* which may be refused.                                                   *)
(*                                                                         *)
(* Names that ClientManager has too begin with "device" here: the proofs   *)
(* about the two managers extend both modules.                             *)
(***************************************************************************)
EXTENDS Integers, Sequences, FiniteSets

CONSTANTS
    DeviceNames,    \* device names
    Ips,            \* well-formed IPv4 addresses
    BadIp,          \* a string validate_ipv4_address refuses
    DeviceGroups,   \* device group names
    None            \* Python's None

ASSUME BadIpIsNoAddress == BadIp \notin Ips /\ None \notin Ips /\ BadIp # None
ASSUME NoneIsNoGroup == None \notin DeviceGroups

VARIABLES
    devices,        \* _devices.values(), in the order of the dictionary
    deviceGroups,   \* the keys of _device_groups
    deviceTable,    \* rows of the devices table, in the order of insertion
    deviceGroupTable, \* rows of the device_groups table
    deviceStep,     \* where _save_data stands: "idle", "save_groups", "save_devices"
    devicesSaved,   \* ghost: memory has been saved, or loaded, since it changed
    behind,         \* ghost: memory was not saved when the operation under way began
    devicesTorn     \* ghost: a save has been cut between its transactions while behind

deviceMemory == <<devices, deviceGroups>>
deviceTables == <<deviceTable, deviceGroupTable>>
deviceVars ==
    <<deviceMemory, deviceTables, deviceStep, devicesSaved, behind, devicesTorn>>

Device == [name : DeviceNames, ip : Ips, group : DeviceGroups]

-----------------------------------------------------------------------------
(* Helpers *)

Registered == {devices[i].name : i \in DOMAIN devices}

\* a device is replaced where it stands
Replace(d) ==
    [i \in DOMAIN devices |-> IF devices[i].name = d.name THEN d ELSE devices[i]]

Get(n) == CHOOSE d \in {devices[i] : i \in DOMAIN devices} : d.name = n

\* position i holds the first of the devices ds with its address
IsFirst(ds, i) == \A j \in 1..(i - 1) : ds[j].ip # ds[i].ip

\* the first of the devices ds with an address
FirstWith(ds, ip) == ds[CHOOSE i \in DOMAIN ds : ds[i].ip = ip /\ IsFirst(ds, i)]

\* get_device_by_ip, over the devices ds
DeviceByIp(ds, ip) ==
    IF \E i \in DOMAIN ds : ds[i].ip = ip THEN FirstWith(ds, ip) ELSE None

\* the devices of ds that stand at the positions ps, in their order
Kept(ds, ps) ==
    [r \in 1..Cardinality(ps) |->
        ds[CHOOSE i \in ps : Cardinality({j \in ps : j < i}) = r - 1]]

\* a mutant of InsertedRows: INSERT OR REPLACE, the last with an address stays
InsertedRowsReplacing(ds) ==
    Kept(ds, {i \in DOMAIN ds : \A j \in DOMAIN ds : j > i => ds[j].ip # ds[i].ip})

\* the rows that one INSERT per device leaves: ip_address is UNIQUE, and the
\* INSERT of a device whose address is there already is skipped
InsertedRows(ds) == Kept(ds, {i \in DOMAIN ds : IsFirst(ds, i)})

\* An operation has changed the dictionaries and calls _save_data.
BeginSave ==
    /\ deviceStep = "idle"
    /\ deviceStep' = "save_groups"
    /\ behind' = ~devicesSaved
    /\ devicesSaved' = FALSE
    /\ UNCHANGED <<deviceTables, devicesTorn>>

-----------------------------------------------------------------------------
(* The operations *)

\* create_device: the address is validated, not looked up
CreateDevice(n, ip, g) ==
    /\ n \notin Registered
    /\ g \in deviceGroups
    /\ ip # BadIp
    /\ devices' = Append(devices, [name |-> n, ip |-> ip, group |-> g])
    /\ UNCHANGED deviceGroups
    /\ BeginSave

\* a mutant of UpdateDevice: the address is not validated
UpdateDeviceAnyIp(n, ip, g) ==
    /\ n \in Registered
    /\ g = None \/ g \in deviceGroups
    /\ devices' = Replace([name  |-> n,
                           ip    |-> IF ip = None THEN Get(n).ip ELSE ip,
                           group |-> IF g = None THEN Get(n).group ELSE g])
    /\ UNCHANGED deviceGroups
    /\ BeginSave

\* update_device: what is None stays as it is
UpdateDevice(n, ip, g) ==
    /\ n \in Registered
    /\ g = None \/ g \in deviceGroups
    /\ ip # BadIp
    /\ devices' = Replace([name  |-> n,
                           ip    |-> IF ip = None THEN Get(n).ip ELSE ip,
                           group |-> IF g = None THEN Get(n).group ELSE g])
    /\ UNCHANGED deviceGroups
    /\ BeginSave

\* update_device with a group that exists and an address that does not parse:
\* the group is assigned before the address is validated, the ValueError
\* leaves it so, and nothing is saved.
UpdateDeviceRefused(n, g) ==
    /\ deviceStep = "idle"
    /\ n \in Registered
    /\ g \in deviceGroups
    /\ devices' = Replace([Get(n) EXCEPT !.group = g])
    /\ devicesSaved' = (devicesSaved /\ devices' = devices)
    /\ UNCHANGED <<deviceGroups, deviceTables, deviceStep, behind, devicesTorn>>

DeleteDevice(n) ==
    /\ n \in Registered
    /\ devices' = Kept(devices, {i \in DOMAIN devices : devices[i].name # n})
    /\ UNCHANGED deviceGroups
    /\ BeginSave

CreateDeviceGroup(g) ==
    /\ g \notin deviceGroups
    /\ deviceGroups' = deviceGroups \cup {g}
    /\ UNCHANGED devices
    /\ BeginSave

\* a mutant of DeleteDeviceGroup: only the first device is looked at
DeleteDeviceGroupFirstOnly(g) ==
    /\ g \in deviceGroups
    /\ devices # <<>> => Head(devices).group # g
    /\ deviceGroups' = deviceGroups \ {g}
    /\ UNCHANGED devices
    /\ BeginSave

\* delete_device_group: refused while a device is in the group
DeleteDeviceGroup(g) ==
    /\ g \in deviceGroups
    /\ \A i \in DOMAIN devices : devices[i].group # g
    /\ deviceGroups' = deviceGroups \ {g}
    /\ UNCHANGED devices
    /\ BeginSave

-----------------------------------------------------------------------------
(* The save *)

\* The save or the process ends where it is.
Cut ==
    /\ deviceStep' = "idle"
    /\ behind' = FALSE
    /\ devicesTorn' = (devicesTorn \/ (deviceStep = "save_devices" /\ behind))

\* the transaction of save_device_groups
SaveGroups ==
    /\ deviceStep = "save_groups"
    /\ deviceGroupTable' = deviceGroups
    /\ deviceStep' = "save_devices"
    /\ UNCHANGED <<deviceMemory, deviceTable, devicesSaved, behind, devicesTorn>>

\* the transaction of save_devices
SaveDevices ==
    /\ deviceStep = "save_devices"
    /\ deviceTable' = InsertedRows(devices)
    /\ deviceStep' = "idle"
    /\ devicesSaved' = TRUE
    /\ behind' = FALSE
    /\ UNCHANGED <<deviceMemory, deviceGroupTable, devicesTorn>>

\* SQLite fails: the transaction is rolled back, the error is swallowed, and
\* the save ends there.
DeviceSaveFails ==
    /\ deviceStep # "idle"
    /\ Cut
    /\ UNCHANGED <<deviceMemory, deviceTables, devicesSaved>>

\* The process stops, at rest or between any two steps of a save, and a new one
\* loads the tables, or fails to read them and starts empty.
RestartDevices ==
    /\ \/ /\ devices' = deviceTable
          /\ deviceGroups' = deviceGroupTable
          /\ devicesSaved' = TRUE
       \/ /\ devices' = <<>>
          /\ deviceGroups' = {}
          /\ devicesSaved' = FALSE
    /\ Cut
    /\ UNCHANGED deviceTables

DeviceInit ==
    /\ devices = <<>> /\ deviceGroups = {}
    /\ deviceTable = <<>> /\ deviceGroupTable = {}
    /\ deviceStep = "idle"
    /\ devicesSaved = TRUE
    /\ behind = FALSE
    /\ devicesTorn = FALSE

DeviceNext ==
    \/ \E n \in DeviceNames, ip \in Ips \cup {BadIp}, g \in DeviceGroups :
            CreateDevice(n, ip, g)
    \/ \E n \in DeviceNames, ip \in Ips \cup {BadIp, None},
          g \in DeviceGroups \cup {None} :
            UpdateDevice(n, ip, g)
    \/ \E n \in DeviceNames, g \in DeviceGroups : UpdateDeviceRefused(n, g)
    \/ \E n \in DeviceNames : DeleteDevice(n)
    \/ \E g \in DeviceGroups : CreateDeviceGroup(g)
    \/ \E g \in DeviceGroups : DeleteDeviceGroup(g)
    \/ SaveGroups
    \/ SaveDevices
    \/ DeviceSaveFails
    \/ RestartDevices

DeviceSpec == DeviceInit /\ [][DeviceNext]_deviceVars

-----------------------------------------------------------------------------
(* Properties *)

\* no two of the devices ds have one name
NamesDiffer(ds) == \A i, j \in DOMAIN ds : ds[i].name = ds[j].name => i = j

\* The type invariant: no device has an address that does not parse, and
\* names are unique.
DevicesTypeOK ==
    /\ devices \in Seq(Device)
    /\ deviceTable \in Seq(Device)
    /\ deviceGroups \subseteq DeviceGroups
    /\ deviceGroupTable \subseteq DeviceGroups
    /\ deviceStep \in {"idle", "save_groups", "save_devices"}
    /\ {devicesSaved, behind, devicesTorn} \subseteq BOOLEAN
    /\ NamesDiffer(devices)

\* every one of the devices ds is in one of the groups gs
InGroups(ds, gs) == \A i \in DOMAIN ds : ds[i].group \in gs

\* Every device is in a group that exists, through refused updates, failing
\* saves and loads, and a process that stops anywhere: one of these alone never
\* leaves a device without its group.  It takes two, and nothing less: a save
\* cut between its transactions, which found memory already ahead of the tables
\* through a refused update, an earlier failed save or a failed load.
DevicesHaveGroups ==
    ~devicesTorn => InGroups(devices, deviceGroups)

\* Whatever addresses devices share: the device that answers for an address
\* is, once memory has been saved, the one that answers after a restart.  The
\* first in the dictionary is the one found and the one whose row is kept.
AddressesSurviveRestart ==
    devicesSaved => \A ip \in Ips : DeviceByIp(deviceTable, ip) = DeviceByIp(devices, ip)

=============================================================================
