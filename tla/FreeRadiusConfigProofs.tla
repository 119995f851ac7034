----------------------- MODULE FreeRadiusConfigProofs -----------------------
(***************************************************************************)
(* Proofs about FreeRadiusConfig for any devices, clients and number of    *)
(* threads and of requests, whether or not writing and restarting may      *)
(* fail.                                                                   *)
(*                                                                         *)
(* QuietUpdateApplies speaks of the end of an update.  The invariant says  *)
(* of every step of an update that has been alone so far what it has       *)
(* achieved: the content it generated is still the managers' data, the     *)
(* file it opened is still empty, the files it wrote are whole and         *)
(* current, and FreeRADIUS is still down where it found it down.           *)
(***************************************************************************)
EXTENDS FreeRadiusConfig, DictTheorems

ConfSteps == {"open_conf", "write_conf"}
UsersSteps == {"open_users", "write_users"}
ReloadSteps == {"is_active", "restart", "start"}

\* What a thread at step r carries.
StepType(r) ==
    /\ r.at \in ConfSteps =>
        r \in [at : ConfSteps, ok : {TRUE}, content : ConfContents]
    /\ r.at = "generate_users" => r \in [at : {"generate_users"}, ok : BOOLEAN]
    /\ r.at \in UsersSteps =>
        r \in [at : UsersSteps, ok : BOOLEAN, content : UsersContents]

ThreadTypes ==
    /\ thread = [t \in Threads |-> thread[t]]
    /\ \A t \in Threads : StepType(thread[t])

\* The generator is set up before anything else is done.
SetupIsAlone ==
    app # "serving" => quiet = Nobody

\* What an update that is at step r has achieved, where the managers hold devs
\* and ms, the files are conf and users, and FreeRADIUS runs with srv.
Achieved(r, devs, ms, conf, users, srv) ==
    /\ r.at # "generate_conf"
    /\ r.at \in ConfSteps => r.content = devs
    /\ r.at = "write_conf" => conf = Truncated
    /\ r.at \in {"generate_users"} \cup UsersSteps => (r.ok => conf = Whole(devs))
    /\ r.at \in UsersSteps => r.content = ms
    /\ r.at = "write_users" => users = Truncated
    /\ r.at \in ReloadSteps => conf = Whole(devs) /\ users = Whole(ms)
    /\ r.at = "start" => srv = Stopped
    /\ r.at = "idle" => srv = [conf |-> Whole(devs), users |-> Whole(ms)]

QuietProgress ==
    \A t \in Threads : quiet = t =>
        Achieved(thread[t], devices, macs, clientsConf, mabUsers, served)

UpdateInv == TypeOK /\ ThreadTypes /\ SetupIsAlone /\ QuietProgress

-----------------------------------------------------------------------------
(* Types *)

\* What a file may be.
LEMMA FileTypes ==
    ASSUME NEW C
    PROVE  /\ Truncated \in Files(C) /\ Mixed \in Files(C)
           /\ \A c \in C : Whole(c) \in Files(C)
BY DEF Files

\* What a write leaves is the content, or torn.
LEMMA WrittenType ==
    ASSUME NEW C, NEW c \in C, NEW f, NEW g \in Written(f, c)
    PROVE  g \in Files(C)
BY FileTypes DEF Written

\* A write to an emptied file leaves the content.
LEMMA WrittenWhole ==
    ASSUME NEW c, NEW g \in Written(Truncated, c)
    PROVE  g = Whole(c)
BY DEF Written

\* What FreeRADIUS reads has the type of what it runs with.
LEMMA LoadedType ==
    TypeOK => Loaded \in [conf : Files(ConfContents), users : Files(UsersContents)]
BY DEF TypeOK, Loaded

\* No two devices of a name come of an import.
LEMMA ImportedType ==
    ASSUME NEW A \in ConfContents, NEW D \in ConfContents
    PROVE  [d \in DOMAIN A \cup DOMAIN D |-> IF d \in DOMAIN A THEN A[d] ELSE D[d]]
                \in ConfContents
<1> DEFINE new == [d \in DOMAIN A \cup DOMAIN D |->
                        IF d \in DOMAIN A THEN A[d] ELSE D[d]]
<1>1. /\ A \in [DOMAIN A -> Values] /\ DOMAIN A \subseteq Devices
      /\ D \in [DOMAIN D -> Values] /\ DOMAIN D \subseteq Devices
  BY DictDef DEF ConfContents
<1>2. new \in [DOMAIN A \cup DOMAIN D -> Values]
  BY <1>1
<1>3. DOMAIN new = DOMAIN A \cup DOMAIN D
  OBVIOUS
<1> QED
  BY <1>1, <1>2, <1>3, DictDef DEF ConfContents

-----------------------------------------------------------------------------
(* The invariant *)

\* Nothing has been done at first.
LEMMA InitInv ==
    Init => UpdateInv
<1> SUFFICES ASSUME Init PROVE UpdateInv
  OBVIOUS
<1>1. EmptyDict \in ConfContents
  BY EmptyDictProperties DEF ConfContents
<1>2. clientsConf \in Files(ConfContents) /\ mabUsers \in Files(UsersContents)
  BY <1>1, FileTypes DEF Init, UsersContents
<1>3. TypeOK
  BY <1>1, <1>2 DEF Init, TypeOK, UsersContents, Loaded
<1>4. ThreadTypes
  BY DEF Init, ThreadTypes, StepType, Idle, ConfSteps, UsersSteps
<1>5. SetupIsAlone /\ QuietProgress
  BY NobodyIsNoThread DEF Init, SetupIsAlone, QuietProgress
<1> QED
  BY <1>3, <1>4, <1>5 DEF UpdateInv

\* A step that ends in no update being alone need only keep the types.
LEMMA DisturbedInv ==
    ASSUME TypeOK', ThreadTypes', quiet' = Nobody
    PROVE  UpdateInv'
BY NobodyIsNoThread DEF UpdateInv, SetupIsAlone, QuietProgress

\* A request changes the managers' data, and its thread begins an update or
\* does not.
LEMMA RequestKeepsInv ==
    ASSUME UpdateInv, NEW t \in Threads, Request(t),
           devices' \in ConfContents, macs' \in UsersContents,
           \/ Update(t)
           \/ UNCHANGED <<thread, clean>> /\ quiet' = Nobody
    PROVE  UpdateInv'
<1>1. quiet' = Nobody /\ clean' \in BOOLEAN
  BY DEF Update, UpdateInv, TypeOK
<1>2. TypeOK'
  BY <1>1 DEF Request, UpdateInv, TypeOK, files
<1>3. ThreadTypes'
  <2> DEFINE begun == [at |-> "generate_conf", ok |-> TRUE]
  <2>1. StepType(begun)
    BY DEF StepType, ConfSteps, UsersSteps
  <2>2. CASE thread' = [thread EXCEPT ![t] = begun]
    <3> HIDE DEF begun
    <3>1. thread' = [u \in Threads |-> thread'[u]]
      BY <2>2 DEF UpdateInv, ThreadTypes
    <3>2. \A u \in Threads : thread'[u] = IF u = t THEN begun ELSE thread[u]
      BY <2>2 DEF UpdateInv, ThreadTypes
    <3>3. \A u \in Threads : StepType(thread'[u])
      BY <2>1, <3>2 DEF UpdateInv, ThreadTypes
    <3> QED
      BY <3>1, <3>3 DEF ThreadTypes, StepType
  <2>3. CASE UNCHANGED thread
    BY <2>3 DEF UpdateInv, ThreadTypes, StepType
  <2> QED
    BY <2>2, <2>3 DEF Update, Goto
<1> QED
  BY <1>1, <1>2, <1>3, DisturbedInv

\* A thread takes a step of its update.  It has to keep the types, to have
\* achieved what its next step says if it is still alone, and, if another
\* thread is, to have left the files and FreeRADIUS as they were.
LEMMA WorkKeepsInv ==
    ASSUME UpdateInv, NEW t \in Threads, thread[t].at # "idle",
           UNCHANGED <<data, app>>,
           thread' = [thread EXCEPT ![t] = thread'[t]],
           StepType(thread'[t]),
           clientsConf' \in Files(ConfContents),
           mabUsers' \in Files(UsersContents),
           served' \in [conf : Files(ConfContents), users : Files(UsersContents)]
                        \cup {Stopped},
           quiet' \in Threads \cup {Nobody}, clean' \in BOOLEAN,
           quiet' = t => Achieved(thread'[t], devices, macs,
                                  clientsConf', mabUsers', served'),
           quiet' \in {t, Nobody} \/ UNCHANGED <<files, served, quiet>>
    PROVE  UpdateInv'
<1>1. app = "serving"
  BY DEF UpdateInv, TypeOK, Idle
<1>2. TypeOK'
  BY <1>1 DEF UpdateInv, TypeOK, data
<1>3. \A u \in Threads \ {t} : thread'[u] = thread[u]
  BY DEF UpdateInv, ThreadTypes
<1>4. ThreadTypes'
  <2>1. thread' = [u \in Threads |-> thread'[u]]
    BY DEF UpdateInv, ThreadTypes
  <2>2. \A u \in Threads : StepType(thread'[u])
    BY <1>3 DEF UpdateInv, ThreadTypes
  <2> QED
    BY <2>1, <2>2 DEF ThreadTypes, StepType
<1>5. SetupIsAlone'
  BY <1>1 DEF SetupIsAlone
<1>6. QuietProgress'
  <2> SUFFICES ASSUME NEW u \in Threads, quiet' = u
               PROVE  Achieved(thread'[u], devices', macs',
                               clientsConf', mabUsers', served')
    BY DEF QuietProgress, Achieved
  <2>1. CASE u = t
    BY <2>1 DEF data
  <2>2. CASE u # t
    <3>1. UNCHANGED <<files, served, quiet>>
      BY <2>2, NobodyIsNoThread
    <3>2. Achieved(thread[u], devices, macs, clientsConf, mabUsers, served)
      BY <3>1 DEF UpdateInv, QuietProgress
    <3> QED
      BY <1>3, <2>2, <3>1, <3>2 DEF data, files
  <2> QED
    BY <2>1, <2>2
<1> QED
  BY <1>2, <1>4, <1>5, <1>6 DEF UpdateInv

\* Where a thread goes, and that it is the one that goes there.
LEMMA GotoMoves ==
    ASSUME ThreadTypes, NEW t \in Threads, NEW r, Goto(t, r)
    PROVE  thread'[t] = r /\ thread' = [thread EXCEPT ![t] = thread'[t]]
BY DEF ThreadTypes, Goto

\* The administrators' requests keep the invariant.
LEMMA AdministratorKeepsInv ==
    ASSUME UpdateInv, NEW t \in Threads, Administrator(t)
    PROVE  UpdateInv'
<1>1. devices \in ConfContents /\ macs \in UsersContents
  BY DEF UpdateInv, TypeOK
<1>2. CASE \E d \in Devices, v \in Values : CreateDevice(t, d, v)
  <2>1. PICK d \in Devices, v \in Values : CreateDevice(t, d, v)
    BY <1>2
  <2>2. devices' \in ConfContents
    BY <1>1, <2>1, PutProperties DEF CreateDevice, ConfContents
  <2> QED
    BY <1>1, <2>1, <2>2, RequestKeepsInv DEF CreateDevice
<1>3. CASE \E d \in Devices : DeleteDevice(t, d)
  <2>1. PICK d \in Devices : DeleteDevice(t, d)
    BY <1>3
  <2>2. devices' \in ConfContents
    BY <1>1, <2>1, DropProperties DEF DeleteDevice, ConfContents
  <2> QED
    BY <1>1, <2>1, <2>2, RequestKeepsInv DEF DeleteDevice
<1>4. CASE \E d \in Devices, v \in Values : UpdateDevice(t, d, v)
  <2>1. PICK d \in Devices, v \in Values : UpdateDevice(t, d, v)
    BY <1>4
  <2>2. devices' \in ConfContents
    BY <1>1, <2>1, DictDef DEF UpdateDevice, ConfContents
  <2> QED
    BY <1>1, <2>1, <2>2, RequestKeepsInv DEF UpdateDevice
<1>5. CASE \E m \in Macs : CreateClient(t, m)
  BY <1>1, <1>5, RequestKeepsInv DEF CreateClient, UsersContents
<1>6. CASE \E m \in Macs : DeleteClient(t, m)
  BY <1>1, <1>6, RequestKeepsInv DEF DeleteClient, UsersContents
<1>7. CASE ChangePolicy(t)
  BY <1>1, <1>7, RequestKeepsInv DEF ChangePolicy, data
<1>8. CASE \E D \in ConfContents, M \in SUBSET Macs : Import(t, D, M)
  <2>1. PICK D \in ConfContents, M \in SUBSET Macs : Import(t, D, M)
    BY <1>8
  <2>2. devices' \in ConfContents
    BY <1>1, <2>1, ImportedType DEF Import
  <2> QED
    BY <1>1, <2>1, <2>2, RequestKeepsInv DEF Import, UsersContents
<1> QED
  BY <1>2, <1>3, <1>4, <1>5, <1>6, <1>7, <1>8 DEF Administrator

\* So do the steps of an update.
LEMMA UpdateStepKeepsInv ==
    ASSUME UpdateInv, NEW t \in Threads, Work(t)
    PROVE  UpdateInv'
<1> USE DEF ConfSteps, UsersSteps, ReloadSteps
<1>1. TypeOK /\ ThreadTypes /\ StepType(thread[t])
  BY DEF UpdateInv, ThreadTypes
<1>2. quiet = t =>
        Achieved(thread[t], devices, macs, clientsConf, mabUsers, served)
  BY DEF UpdateInv, QuietProgress
<1>3. /\ clientsConf \in Files(ConfContents) /\ mabUsers \in Files(UsersContents)
      /\ served \in [conf : Files(ConfContents), users : Files(UsersContents)]
                    \cup {Stopped}
      /\ devices \in ConfContents /\ macs \in UsersContents
      /\ quiet \in Threads \cup {Nobody} /\ clean \in BOOLEAN
  BY <1>1 DEF TypeOK
<1>4. t # Nobody
  BY NobodyIsNoThread
<1>5. CASE GenerateConf(t)
  <2> DEFINE r == [at |-> "open_conf", ok |-> TRUE, content |-> devices]
  <2>1. thread'[t] = r /\ thread' = [thread EXCEPT ![t] = thread'[t]]
    BY <1>1, <1>5, GotoMoves DEF GenerateConf
  <2>2. StepType(r) /\ Achieved(r, devices, macs, clientsConf, mabUsers, served)
    BY <1>3 DEF StepType, Achieved
  <2> QED
    BY <1>3, <1>5, <2>1, <2>2, WorkKeepsInv DEF GenerateConf, files
<1>6. CASE OpenConf(t)
  <2> DEFINE r == [thread[t] EXCEPT !.at = "write_conf"]
  <2>1. thread'[t] = r /\ thread' = [thread EXCEPT ![t] = thread'[t]]
    BY <1>1, <1>6, GotoMoves DEF OpenConf
  <2>2. thread[t] \in [at : ConfSteps, ok : {TRUE}, content : ConfContents]
    BY <1>1, <1>6 DEF StepType, OpenConf
  <2>3. StepType(r) /\ r.at = "write_conf" /\ r.content = thread[t].content
    BY <2>2 DEF StepType
  <2>4. quiet = t => Achieved(r, devices, macs, Truncated, mabUsers, served)
    BY <1>2, <1>6, <2>3 DEF Achieved, OpenConf
  <2>5. clientsConf' \in Files(ConfContents)
    BY <1>6, FileTypes DEF OpenConf
  <2> QED
    BY <1>3, <1>4, <1>6, <2>1, <2>3, <2>4, <2>5, WorkKeepsInv DEF OpenConf, Disturb
<1>7. CASE WriteConf(t)
  <2> DEFINE r == [at |-> "generate_users", ok |-> TRUE]
  <2>1. thread'[t] = r /\ thread' = [thread EXCEPT ![t] = thread'[t]]
    BY <1>1, <1>7, GotoMoves DEF WriteConf
  <2>2. thread[t].content \in ConfContents
    BY <1>1, <1>7 DEF StepType, WriteConf
  <2>3. clientsConf' \in Files(ConfContents)
    BY <1>7, <2>2, WrittenType DEF WriteConf
  <2>4. StepType(r)
    BY DEF StepType
  <2>5. quiet = t => clientsConf' = Whole(devices)
    BY <1>2, <1>7, WrittenWhole DEF Achieved, WriteConf
  <2>6. quiet = t => Achieved(r, devices, macs, clientsConf', mabUsers, served)
    BY <2>5 DEF Achieved
  <2> QED
    BY <1>3, <1>4, <1>7, <2>1, <2>3, <2>4, <2>6, WorkKeepsInv DEF WriteConf, Disturb
<1>8. CASE ConfFails(t)
  <2> DEFINE r == [at |-> "generate_users", ok |-> FALSE]
  <2>1. thread'[t] = r /\ thread' = [thread EXCEPT ![t] = thread'[t]]
    BY <1>1, <1>8, GotoMoves DEF ConfFails
  <2>2. clientsConf' \in Files(ConfContents)
    BY <1>3, <1>8, FileTypes DEF ConfFails
  <2>3. StepType(r)
        /\ Achieved(r, devices, macs, clientsConf', mabUsers, served)
    BY DEF StepType, Achieved
  <2> QED
    BY <1>3, <1>4, <1>8, <2>1, <2>2, <2>3, WorkKeepsInv DEF ConfFails, Disturb
<1>9. CASE GenerateUsers(t)
  <2> DEFINE r == [at |-> "open_users", ok |-> thread[t].ok, content |-> macs]
  <2>1. thread'[t] = r /\ thread' = [thread EXCEPT ![t] = thread'[t]]
    BY <1>1, <1>9, GotoMoves DEF GenerateUsers
  <2>2. thread[t] \in [at : {"generate_users"}, ok : BOOLEAN]
    BY <1>1, <1>9 DEF StepType, GenerateUsers
  <2>3. StepType(r)
    BY <1>3, <2>2 DEF StepType
  <2>4. quiet = t => Achieved(r, devices, macs, clientsConf, mabUsers, served)
    BY <1>2, <1>9 DEF Achieved, GenerateUsers
  <2> QED
    BY <1>3, <1>9, <2>1, <2>3, <2>4, WorkKeepsInv
    DEF GenerateUsers, files, ghosts
<1>10. CASE OpenUsers(t)
  <2> DEFINE r == [thread[t] EXCEPT !.at = "write_users"]
  <2>1. thread'[t] = r /\ thread' = [thread EXCEPT ![t] = thread'[t]]
    BY <1>1, <1>10, GotoMoves DEF OpenUsers
  <2>2. thread[t] \in [at : UsersSteps, ok : BOOLEAN, content : UsersContents]
    BY <1>1, <1>10 DEF StepType, OpenUsers
  <2>3. /\ StepType(r) /\ r.at = "write_users"
        /\ r.content = thread[t].content /\ r.ok = thread[t].ok
    BY <2>2 DEF StepType
  <2>4. quiet = t => Achieved(r, devices, macs, clientsConf, Truncated, served)
    BY <1>2, <1>10, <2>3 DEF Achieved, OpenUsers
  <2>5. mabUsers' \in Files(UsersContents)
    BY <1>10, FileTypes DEF OpenUsers
  <2> QED
    BY <1>3, <1>4, <1>10, <2>1, <2>3, <2>4, <2>5, WorkKeepsInv
    DEF OpenUsers, Disturb
<1>11. CASE WriteUsers(t)
  <2> DEFINE r == IF thread[t].ok THEN [at |-> "is_active"] ELSE Idle
  <2>1. thread'[t] = r /\ thread' = [thread EXCEPT ![t] = thread'[t]]
    BY <1>1, <1>11, GotoMoves DEF WriteUsers
  <2>2. thread[t].content \in UsersContents
    BY <1>1, <1>11 DEF StepType, WriteUsers
  <2>3. mabUsers' \in Files(UsersContents)
    BY <1>11, <2>2, WrittenType DEF WriteUsers
  <2>4. StepType(r)
    BY DEF StepType, Idle
  <2>5. quiet = t => mabUsers' = Whole(macs)
    BY <1>2, <1>11, WrittenWhole DEF Achieved, WriteUsers
  <2>6. quiet' = t => Achieved(r, devices, macs, clientsConf, mabUsers', served)
    BY <1>2, <1>4, <1>11, <2>5 DEF Achieved, WriteUsers
  <2> QED
    BY <1>3, <1>4, <1>11, <2>1, <2>3, <2>4, <2>6, WorkKeepsInv DEF WriteUsers
<1>12. CASE UsersFails(t)
  <2>1. thread'[t] = Idle /\ thread' = [thread EXCEPT ![t] = thread'[t]]
    BY <1>1, <1>12, GotoMoves DEF UsersFails
  <2>2. mabUsers' \in Files(UsersContents)
    BY <1>3, <1>12, FileTypes DEF UsersFails
  <2>3. StepType(Idle)
    BY DEF StepType, Idle
  <2> QED
    BY <1>3, <1>4, <1>12, <2>1, <2>2, <2>3, WorkKeepsInv DEF UsersFails, Trouble
<1>13. CASE IsActive(t)
  <2> DEFINE r == [at |-> IF served # Stopped THEN "restart" ELSE "start"]
  <2>1. thread'[t] = r /\ thread' = [thread EXCEPT ![t] = thread'[t]]
    BY <1>1, <1>13, GotoMoves DEF IsActive
  <2>2. StepType(r)
    BY DEF StepType
  <2>3. quiet = t => Achieved(r, devices, macs, clientsConf, mabUsers, served)
    BY <1>2, <1>13 DEF Achieved, IsActive
  <2> QED
    BY <1>3, <1>13, <2>1, <2>2, <2>3, WorkKeepsInv DEF IsActive, files, ghosts
<1>14. CASE RestartFreeRadius(t) \/ StartFreeRadius(t)
  <2>1. thread'[t] = Idle /\ thread' = [thread EXCEPT ![t] = thread'[t]]
    BY <1>1, <1>14, GotoMoves DEF RestartFreeRadius, StartFreeRadius, Succeed
  <2>2. served' \in [conf : Files(ConfContents), users : Files(UsersContents)]
                    \cup {Stopped}
    BY <1>1, <1>3, <1>14, LoadedType DEF RestartFreeRadius, StartFreeRadius
  <2>3. StepType(Idle)
    BY DEF StepType, Idle
  <2>4. quiet = t => Achieved(Idle, devices, macs, clientsConf, mabUsers, served')
    BY <1>2, <1>14 DEF Achieved, Idle, Loaded, RestartFreeRadius, StartFreeRadius
  <2>5. /\ thread[t].at # "idle"
        /\ UNCHANGED <<data, files, app>>
        /\ quiet' = (IF quiet = t THEN t ELSE Nobody)
        /\ clean' \in BOOLEAN
    BY <1>14 DEF RestartFreeRadius, StartFreeRadius, Succeed
  <2> QED
    BY <1>3, <1>4, <2>1, <2>2, <2>3, <2>4, <2>5, WorkKeepsInv DEF files
<1>15. CASE ReloadFails(t)
  <2>1. thread'[t] = Idle /\ thread' = [thread EXCEPT ![t] = thread'[t]]
    BY <1>1, <1>15, GotoMoves DEF ReloadFails
  <2>2. served' \in [conf : Files(ConfContents), users : Files(UsersContents)]
                    \cup {Stopped}
    BY <1>1, <1>3, <1>15, LoadedType DEF ReloadFails
  <2>3. StepType(Idle)
    BY DEF StepType, Idle
  <2> QED
    BY <1>3, <1>4, <1>15, <2>1, <2>2, <2>3, WorkKeepsInv
    DEF ReloadFails, Trouble, files
<1> QED
  BY <1>5, <1>6, <1>7, <1>8, <1>9, <1>10, <1>11, <1>12, <1>13, <1>14, <1>15
  DEF Work

\* Stops, starts and the setup of the generator keep the invariant.
LEMMA LifecycleKeepsInv ==
    ASSUME UpdateInv, FreeRadiusStops \/ Restart \/ Setup
    PROVE  UpdateInv'
<1>1. TypeOK /\ ThreadTypes /\ SetupIsAlone
  BY DEF UpdateInv
<1>2. CASE FreeRadiusStops
  <2>1. TypeOK'
    BY <1>1, <1>2 DEF TypeOK, FreeRadiusStops, data, files
  <2>2. ThreadTypes'
    BY <1>1, <1>2 DEF ThreadTypes, StepType, FreeRadiusStops
  <2> QED
    BY <1>2, <2>1, <2>2, DisturbedInv DEF FreeRadiusStops
<1>3. CASE Restart
  <2>1. TypeOK'
    BY <1>1, <1>3 DEF TypeOK, Restart, data, files
  <2>2. ThreadTypes'
    BY <1>3 DEF ThreadTypes, StepType, Idle, Restart, ConfSteps, UsersSteps
  <2> QED
    BY <1>3, <2>1, <2>2, DisturbedInv DEF Restart
<1>4. CASE Setup
  <2>1. quiet' = Nobody
    BY <1>1, <1>4
    DEF SetupIsAlone, Setup, SetupOpens, SetupWrites, SetupFails, ghosts
  <2>2. mabUsers' \in Files(UsersContents)
    BY <1>1, <1>4, FileTypes
    DEF TypeOK, Setup, SetupOpens, SetupWrites, SetupFails, files
  <2>3. TypeOK'
    BY <1>1, <1>4, <2>2
    DEF TypeOK, Setup, SetupOpens, SetupWrites, SetupFails, data, files, ghosts
  <2>4. ThreadTypes'
    BY <1>1, <1>4
    DEF ThreadTypes, StepType, Setup, SetupOpens, SetupWrites, SetupFails
  <2> QED
    BY <2>1, <2>3, <2>4, DisturbedInv
<1> QED
  BY <1>2, <1>3, <1>4

\* Every step keeps the invariant.
LEMMA NextKeepsInv ==
    UpdateInv /\ [Next]_vars => UpdateInv'
<1> SUFFICES ASSUME UpdateInv, [Next]_vars PROVE UpdateInv'
  OBVIOUS
<1>1. CASE \E t \in Threads : Administrator(t) \/ Work(t)
  BY <1>1, AdministratorKeepsInv, UpdateStepKeepsInv
<1>2. CASE FreeRadiusStops \/ Restart \/ Setup
  BY <1>2, LifecycleKeepsInv
<1>3. CASE UNCHANGED vars
  BY <1>3 DEF vars, data, files, ghosts, UpdateInv, TypeOK, ThreadTypes, StepType,
              SetupIsAlone, QuietProgress, Achieved
<1> QED
  BY <1>1, <1>2, <1>3 DEF Next

-----------------------------------------------------------------------------
(* The theorems *)

\* The data, the files and what FreeRADIUS runs with keep their types, and the
\* generator is set up before any request is served, whatever fails and
\* however the threads interleave.
THEOREM TypeCorrect == Spec => []TypeOK
<1>1. UpdateInv => TypeOK
  BY DEF UpdateInv
<1> QED
  BY <1>1, InitInv, NextKeepsInv, PTL DEF Spec

\* An update nothing disturbed and that succeeds leaves FreeRADIUS serving
\* exactly the devices and clients the managers hold, whatever update_all_configs
\* and reload_freeradius of other threads, failed writes and crashes did before.
THEOREM QuietUpdatesApply == Spec => []QuietUpdateApplies
<1>1. UpdateInv => QuietUpdateApplies
  BY DEF UpdateInv, QuietProgress, Achieved, QuietUpdateApplies, ServesData, Idle
<1> QED
  BY <1>1, InitInv, NextKeepsInv, PTL DEF Spec
=============================================================================
