-------------------------- MODULE FreeRadiusConfig --------------------------
(***************************************************************************)
(* FreeRADIUSConfigGenerator (src/freeradius_config_generator.py) as the   *)
(* REST handlers (src/api.py) use it: after most changes of devices,       *)
(* clients and policies the request's thread writes clients.conf and       *)
(* mab_users anew and restarts FreeRADIUS.                                 *)
(*                                                                         *)
(* FreeRADIUS authenticates with what it read from the two files when it   *)
(* started, so there are three copies of the data: the managers' memory,   *)
(* the files, and what is being served.  No lock orders the threads.       *)
(***************************************************************************)
EXTENDS Integers, FiniteSets, Dicts

CONSTANTS
    Devices,        \* names of devices
    Values,         \* what clients.conf says of a device: address and secret
    Macs,           \* MAC addresses
    Threads,        \* request threads of the web server
    MayFail,        \* whether writing and restarting may fail, and the
                    \* processes may stop
    MaxChanges      \* bound: requests that change something

ASSUME MayFailIsBoolean == MayFail \in BOOLEAN
ASSUME MaxChangesIsNat == MaxChanges \in Nat

VARIABLES
    devices,        \* Device_Manager: name -> value
    macs,           \* Client_Manager: the MACs of its clients
    clientsConf,    \* the file clients.conf
    mabUsers,       \* the file mab_users
    served,         \* what FreeRADIUS runs with, Stopped if it does not run
    app,            \* the program: serving, or setting up mab_users at a start
    thread,         \* what each thread is doing
    changes,        \* requests made so far
    quiet,          \* ghost: the thread that alone has done anything since its
                    \* update began, Nobody if there is none
    clean           \* ghost: since FreeRADIUS last served the data nothing has
                    \* failed or stopped and no two requests were under way

data == <<devices, macs>>
files == <<clientsConf, mabUsers>>
ghosts == <<quiet, clean>>
vars == <<data, files, served, app, thread, changes, ghosts>>

\* A file has been written whole, or it is open and empty, or two threads that
\* had it open wrote over each other or a write broke off.
Whole(content) == [is |-> content]
Truncated == [torn |-> "truncated"]
Mixed == [torn |-> "mixed"]

Files(contents) == {Whole(c) : c \in contents} \cup {Truncated, Mixed}

\* generate_clients_conf and generate_mab_users: the devices as they are, the
\* MACs of all clients.  The policy of a client's group is evaluated and not
\* used: the MAC of a client that is to be rejected is written like any other.
ConfContents == Dict(Devices, Values)
UsersContents == SUBSET Macs

Stopped == [stopped |-> TRUE]

Nobody == "nobody"

ASSUME NobodyIsNoThread == Nobody \notin Threads

Idle == [at |-> "idle"]

-----------------------------------------------------------------------------
(* Helpers *)

Goto(t, r) == thread' = [thread EXCEPT ![t] = r]

\* t has done something that another thread's update may depend on
Disturb(t) == quiet' = IF quiet = t THEN t ELSE Nobody

\* t has ended in an error
Trouble(t) == quiet' = Nobody /\ clean' = FALSE

Alone(t) == \A u \in Threads \ {t} : thread[u] = Idle

\* A write to a file that was truncated since gives its content; on top of
\* other content it may leave the rest of a longer one behind.
Written(file, content) ==
    IF file \in {Truncated, Whole(content)} THEN {Whole(content)}
    ELSE {Whole(content), Mixed}

-----------------------------------------------------------------------------
(* The requests *)

\* a mutant of Request: requests are served while the generator is set up
RequestDuringSetup(t) ==
    /\ thread[t] = Idle
    /\ changes < MaxChanges
    /\ changes' = changes + 1
    /\ UNCHANGED <<files, served, app>>

\* what a request does before it regenerates the configuration
Request(t) ==
    /\ app = "serving"
    /\ thread[t] = Idle
    /\ changes < MaxChanges
    /\ changes' = changes + 1
    /\ UNCHANGED <<files, served, app>>

\* _update_freeradius_config, update_all_configs: the update begins
Update(t) ==
    /\ Goto(t, [at |-> "generate_conf", ok |-> TRUE])
    /\ quiet' = Nobody
    /\ clean' = (clean /\ Alone(t))

\* POST /api/devices
CreateDevice(t, d, v) ==
    /\ d \notin DOMAIN devices
    /\ devices' = Put(devices, d, v)
    /\ UNCHANGED macs
    /\ Request(t)
    /\ Update(t)

\* DELETE /api/devices/<name>
DeleteDevice(t, d) ==
    /\ d \in DOMAIN devices
    /\ devices' = Drop(devices, d)
    /\ UNCHANGED macs
    /\ Request(t)
    /\ Update(t)

\* PUT /api/devices/<name>: nothing is regenerated
UpdateDevice(t, d, v) ==
    /\ d \in DOMAIN devices
    /\ devices' = [devices EXCEPT ![d] = v]
    /\ UNCHANGED <<macs, thread, clean>>
    /\ Request(t)
    /\ quiet' = Nobody

\* a mutant of CreateClient: nothing is regenerated
CreateClientOnly(t, m) ==
    /\ m \notin macs
    /\ macs' = macs \cup {m}
    /\ UNCHANGED <<devices, thread, clean>>
    /\ Request(t)
    /\ quiet' = Nobody

\* POST /api/clients
CreateClient(t, m) ==
    /\ m \notin macs
    /\ macs' = macs \cup {m}
    /\ UNCHANGED devices
    /\ Request(t)
    /\ Update(t)

\* DELETE /api/clients/<mac>
DeleteClient(t, m) ==
    /\ m \in macs
    /\ macs' = macs \ {m}
    /\ UNCHANGED devices
    /\ Request(t)
    /\ Update(t)

\* POST /api/policies, DELETE /api/policies/<name>: the files do not depend on
\* the policies and are written all the same
ChangePolicy(t) ==
    /\ UNCHANGED data
    /\ Request(t)
    /\ Update(t)

\* POST /api/import, POST /api/clients/csv-import: what is new is added, then
\* the configuration is generated once
Import(t, D, M) ==
    /\ devices' = [d \in DOMAIN devices \cup DOMAIN D |->
                        IF d \in DOMAIN devices THEN devices[d] ELSE D[d]]
    /\ macs' = macs \cup M
    /\ Request(t)
    /\ Update(t)

-----------------------------------------------------------------------------
(* write_clients_conf and write_mab_users.  The backup that is made before a *)
(* file is opened copies it and changes nothing here.                        *)

\* generate_clients_conf
GenerateConf(t) ==
    /\ thread[t].at = "generate_conf"
    /\ Goto(t, [at |-> "open_conf", ok |-> TRUE, content |-> devices])
    /\ quiet' = t
    /\ UNCHANGED <<data, files, served, app, changes, clean>>

\* open(..., "w") empties the file
OpenConf(t) ==
    /\ thread[t].at = "open_conf"
    /\ clientsConf' = Truncated
    /\ Goto(t, [thread[t] EXCEPT !.at = "write_conf"])
    /\ Disturb(t)
    /\ UNCHANGED <<data, mabUsers, served, app, changes, clean>>

\* f.write and the close of the with statement
WriteConf(t) ==
    /\ thread[t].at = "write_conf"
    /\ clientsConf' \in Written(clientsConf, thread[t].content)
    /\ Goto(t, [at |-> "generate_users", ok |-> TRUE])
    /\ Disturb(t)
    /\ UNCHANGED <<data, mabUsers, served, app, changes, clean>>

\* no permission, a full disk: the error is logged, the other file is written
\* all the same
ConfFails(t) ==
    /\ MayFail
    /\ \/ /\ thread[t].at = "open_conf"
          /\ UNCHANGED clientsConf
       \/ /\ thread[t].at = "write_conf"
          /\ clientsConf' \in {clientsConf, Mixed}
    /\ Goto(t, [at |-> "generate_users", ok |-> FALSE])
    /\ Disturb(t)
    /\ clean' = FALSE
    /\ UNCHANGED <<data, mabUsers, served, app, changes>>

\* generate_mab_users
GenerateUsers(t) ==
    /\ thread[t].at = "generate_users"
    /\ Goto(t, [at |-> "open_users", ok |-> thread[t].ok, content |-> macs])
    /\ UNCHANGED <<data, files, served, app, changes, ghosts>>

OpenUsers(t) ==
    /\ thread[t].at = "open_users"
    /\ mabUsers' = Truncated
    /\ Goto(t, [thread[t] EXCEPT !.at = "write_users"])
    /\ Disturb(t)
    /\ UNCHANGED <<data, clientsConf, served, app, changes, clean>>

\* a mutant of WriteUsers: FreeRADIUS is restarted whatever became of the other
\* file
WriteUsersForgetsFailure(t) ==
    /\ thread[t].at = "write_users"
    /\ mabUsers' \in Written(mabUsers, thread[t].content)
    /\ Goto(t, [at |-> "is_active"])
    /\ Disturb(t)
    /\ UNCHANGED <<data, clientsConf, served, app, changes, clean>>

\* FreeRADIUS is restarted only if both files have been written
WriteUsers(t) ==
    /\ thread[t].at = "write_users"
    /\ mabUsers' \in Written(mabUsers, thread[t].content)
    /\ Goto(t, IF thread[t].ok THEN [at |-> "is_active"] ELSE Idle)
    /\ quiet' = IF quiet = t /\ thread[t].ok THEN t ELSE Nobody
    /\ UNCHANGED <<data, clientsConf, served, app, changes, clean>>

UsersFails(t) ==
    /\ MayFail
    /\ \/ /\ thread[t].at = "open_users"
          /\ UNCHANGED mabUsers
       \/ /\ thread[t].at = "write_users"
          /\ mabUsers' \in {mabUsers, Mixed}
    /\ Goto(t, Idle)
    /\ Trouble(t)
    /\ UNCHANGED <<data, clientsConf, served, app, changes>>

-----------------------------------------------------------------------------
(* reload_freeradius *)

\* systemctl is-active decides between restart and start
IsActive(t) ==
    /\ thread[t].at = "is_active"
    /\ Goto(t, [at |-> IF served # Stopped THEN "restart" ELSE "start"])
    /\ UNCHANGED <<data, files, served, app, changes, ghosts>>

\* what FreeRADIUS has read when it has started
Loaded == [conf |-> clientsConf, users |-> mabUsers]

\* FreeRADIUS serves what the managers hold
ServesData == served = [conf |-> Whole(devices), users |-> Whole(macs)]

\* t's update has succeeded: FreeRADIUS serves the data if it was alone
Succeed(t) ==
    /\ Goto(t, Idle)
    /\ quiet' = IF quiet = t THEN t ELSE Nobody
    /\ clean' = (clean \/ (quiet = t /\ Alone(t)))
    /\ UNCHANGED <<data, files, app, changes>>

\* systemctl restart
RestartFreeRadius(t) ==
    /\ thread[t].at = "restart"
    /\ served' = Loaded
    /\ Succeed(t)

\* systemctl start, which does nothing to a FreeRADIUS that runs by now
StartFreeRadius(t) ==
    /\ thread[t].at = "start"
    /\ served' = IF served = Stopped THEN Loaded ELSE served
    /\ Succeed(t)

\* systemctl fails, or is still at it after ten seconds: FreeRADIUS runs as
\* before, has been stopped, or is restarted after all
ReloadFails(t) ==
    /\ MayFail
    /\ thread[t].at \in {"is_active", "restart", "start"}
    /\ served' \in {served, Stopped} \cup
            IF thread[t].at = "is_active" THEN {} ELSE {Loaded}
    /\ Goto(t, Idle)
    /\ Trouble(t)
    /\ UNCHANGED <<data, files, app, changes>>

-----------------------------------------------------------------------------
(* Stops and starts *)

\* FreeRADIUS stops on its own
FreeRadiusStops ==
    /\ MayFail
    /\ served' = Stopped
    /\ quiet' = Nobody
    /\ clean' = FALSE
    /\ UNCHANGED <<data, files, app, thread, changes>>

\* The program stops anywhere and is started again: the managers load what
\* they held, and the generator is constructed before a request is served.
Restart ==
    /\ MayFail
    /\ thread' = [t \in Threads |-> Idle]
    /\ app' = "setup"
    /\ quiet' = Nobody
    /\ clean' = FALSE
    /\ UNCHANGED <<data, files, served, changes>>

\* _setup_freeradius_mab_config: mab_users is generated and written; clients.conf
\* is left as it is and FreeRADIUS as it runs.
SetupOpens ==
    /\ app = "setup"
    /\ mabUsers' = Truncated
    /\ app' = "setup_write"
    /\ UNCHANGED <<data, clientsConf, served, thread, changes, ghosts>>

SetupWrites ==
    /\ app = "setup_write"
    /\ mabUsers' = Whole(macs)
    /\ app' = "serving"
    /\ UNCHANGED <<data, clientsConf, served, thread, changes, ghosts>>

\* an error is logged and the program goes on
SetupFails ==
    /\ MayFail
    /\ app \in {"setup", "setup_write"}
    /\ app' = "serving"
    /\ UNCHANGED <<data, files, served, thread, changes, ghosts>>

-----------------------------------------------------------------------------
(* The specification *)

Init ==
    /\ devices = EmptyDict
    /\ macs = {}
    /\ clientsConf = Whole(EmptyDict)
    /\ mabUsers = Whole({})
    /\ served = Loaded
    /\ app = "serving"
    /\ thread = [t \in Threads |-> Idle]
    /\ changes = 0
    /\ quiet = Nobody
    /\ clean = TRUE

Administrator(t) ==
    \/ \E d \in Devices, v \in Values : CreateDevice(t, d, v)
    \/ \E d \in Devices : DeleteDevice(t, d)
    \/ \E d \in Devices, v \in Values : UpdateDevice(t, d, v)
    \/ \E m \in Macs : CreateClient(t, m)
    \/ \E m \in Macs : DeleteClient(t, m)
    \/ ChangePolicy(t)
    \/ \E D \in ConfContents, M \in SUBSET Macs : Import(t, D, M)

Work(t) ==
    \/ GenerateConf(t)
    \/ OpenConf(t)
    \/ WriteConf(t)
    \/ ConfFails(t)
    \/ GenerateUsers(t)
    \/ OpenUsers(t)
    \/ WriteUsers(t)
    \/ UsersFails(t)
    \/ IsActive(t)
    \/ RestartFreeRadius(t)
    \/ StartFreeRadius(t)
    \/ ReloadFails(t)

Setup == SetupOpens \/ SetupWrites \/ SetupFails

Next ==
    \/ \E t \in Threads : Administrator(t) \/ Work(t)
    \/ FreeRadiusStops
    \/ Restart
    \/ Setup

\* A thread goes on with an update it has begun: nothing it does blocks for
\* ever, systemctl is given ten seconds.
Fairness == \A t \in Threads : WF_vars(Work(t))

Spec == Init /\ [][Next]_vars /\ Fairness

-----------------------------------------------------------------------------
(* Properties *)

\* The type invariant; what is served was read from files, whole or not.
TypeOK ==
    /\ devices \in ConfContents
    /\ macs \in UsersContents
    /\ clientsConf \in Files(ConfContents)
    /\ mabUsers \in Files(UsersContents)
    /\ served \in [conf : Files(ConfContents), users : Files(UsersContents)]
                    \cup {Stopped}
    /\ app \in {"serving", "setup", "setup_write"}
    /\ app # "serving" => \A t \in Threads : thread[t] = Idle
    /\ quiet \in Threads \cup {Nobody}
    /\ clean \in BOOLEAN

\* Whatever files earlier races, failures and crashes have left torn, mixed or
\* old: an update during which no other thread did anything, and that
\* succeeds, leaves FreeRADIUS serving exactly the devices and the clients
\* the managers hold.
QuietUpdateApplies ==
    \A t \in Threads : quiet = t /\ thread[t] = Idle => ServesData

\* A client that is created is served in the end and one that is deleted is
\* not any more, unless the clients change again, something fails, or two
\* requests overlap: then the older update may be the one that stays.
ClientsAreServed ==
    \A M \in SUBSET Macs :
        (macs = M /\ clean)
            ~> (macs # M \/ ~clean \/ (served # Stopped /\ served.users = Whole(M)))

=============================================================================
