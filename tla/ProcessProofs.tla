---------------------------- MODULE ProcessProofs ---------------------------
(***************************************************************************)
(* The life of a gateway process beside its requests.                      *)
(*                                                                         *)
(* Configuration, for every number of replicas, sessions, rows, edits and  *)
(* failures: what is written keeps its form, and the API key is off only   *)
(* where somebody turned it off.  Shutdown, for every number of requests   *)
(* and signals and every size of the telemetry channel: requests are cut   *)
(* off only by the deadline.                                               *)
(***************************************************************************)
EXTENDS Config, Drain, TLAPS

\* A switch that is off, or that a reload has read as off, was turned off.
OffWasAsked ==
    /\ db.set["require"] = FALSE => opened
    /\ \A r \in Replicas : tuner[r].pc = "limit" /\ ~tuner[r].require => opened

Inv == ConfigIsSound /\ OffWasAsked

-----------------------------------------------------------------------------
(* Types of the parts.                                                     *)

LEMMA Types ==
    ASSUME Inv
    PROVE  /\ TypeOK /\ db \in Databases /\ task \in [Tasks -> TaskStates]
           /\ tuner \in [Replicas -> TunerStates] /\ tun \in [Replicas -> [Settings -> BOOLEAN]]
           /\ db.prov \in ProviderTables /\ db.route \in RouteTables /\ db.set \in SettingTables
    BY DEF Inv, ConfigIsSound, TypeOK, Databases

LEMMA SessionsAreTasks ==
    /\ Sessions \subseteq Tasks
    /\ \A r \in Replicas : Poller(r) \in Tasks /\ Poller(r) \in Watchers /\ Tuner(r) \in Watchers
    BY DEF Tasks, Pollers, Watchers

\* A record of tunables.
LEMMA TunablesType ==
    ASSUME NEW a \in BOOLEAN, NEW b \in BOOLEAN
    PROVE  [require |-> a, limit |-> b] \in [Settings -> BOOLEAN]
    <1> DEFINE both == [require |-> a, limit |-> b]
    <1>1. both.require = a /\ both.limit = b
        OBVIOUS
    <1>2. both = [k \in Settings |-> both[k]]
        BY <1>1 DEF Settings
    <1>3. \A k \in Settings : both[k] \in BOOLEAN
        BY <1>1 DEF Settings
    <1> HIDE DEF both
    <1>4. both \in [Settings -> BOOLEAN]
        BY <1>2, <1>3
    <1> QED
        BY <1>4 DEF both

\* An entry of a routing table: providers of the row, with their keys.
LEMMA EntryType ==
    ASSUME NEW prov \in ProviderTables, NEW row \in RouteRows \cup {Absent}
    PROVE  Entry(prov, row) \subseteq Providers \X Secrets
    BY DEF Entry, ProviderTables, ProviderRows, RouteRows

LEMMA TablesType ==
    ASSUME NEW prov \in ProviderTables, NEW route \in RouteTables, NEW new \in Tables(prov, route)
    PROVE  new \in [Models -> SUBSET (Providers \X Secrets)]
    <1>1. PICK k \in [Models -> RouteIds] :
             new = [m \in Models |-> IF RowsOf(route, m) = {} THEN {} ELSE Entry(prov, route[k[m]])]
        BY DEF Tables
    <1>2. \A m \in Models : route[k[m]] \in RouteRows \cup {Absent}
        BY DEF RouteTables
    <1>3. \A m \in Models : Entry(prov, route[k[m]]) \subseteq Providers \X Secrets
        BY <1>2, EntryType
    <1> QED
        BY <1>1, <1>3

\* Every row without targets in a table is a file's.
Stocked(route) ==
    \A i \in RouteIds : route[i] # Absent /\ route[i].targets = {} => route[i].from = "file"

\* The properties, taken apart: types, routes, and who turned the key off.
LEMMA InvParts ==
    /\ Inv <=> TypeOK /\ AuthStaysOn /\ OffWasAsked /\ Stocked(db.route)
    /\ Inv' <=> TypeOK' /\ AuthStaysOn' /\ OffWasAsked' /\ Stocked(db'.route)
    BY DEF Inv, ConfigIsSound, RoutesHaveTargets, Stocked

\* A step of a task that writes no row and no tunable.
LEMMA TaskMoves ==
    ASSUME Inv, NEW t \in Tasks, NEW x \in TaskStates, task' = [task EXCEPT ![t] = x],
           UNCHANGED <<db, tun, tuner, opened>>,
           behind' \in [Watchers -> BOOLEAN], edits' \in [Sessions -> 0..MaxEdits],
           faults' \in 0..MaxFaults,
           table' \in [Replicas -> [Models -> SUBSET (Providers \X Secrets)]]
    PROVE  Inv'
    <1>1. task' \in [Tasks -> TaskStates]
        BY Types
    <1>2. TypeOK'
        BY <1>1, Types DEF TypeOK
    <1>3. AuthStaysOn' /\ OffWasAsked'
        BY InvParts DEF AuthStaysOn, OffWasAsked
    <1>4. Stocked(db'.route)
        BY InvParts
    <1> QED
        BY <1>2, <1>3, <1>4, InvParts

\* What the epoch and the bound on failures turn into.
LEMMA EpochType ==
    ASSUME Inv
    PROVE  /\ UNCHANGED behind => behind' \in [Watchers -> BOOLEAN]
           /\ bump_epoch => behind' \in [Watchers -> BOOLEAN]
           /\ \A w : ReadEpoch(w) \/ ForgetEpoch(w) => behind' \in [Watchers -> BOOLEAN]
           /\ Fault \/ NoFault => faults' \in 0..MaxFaults
    <1>1. behind \in [Watchers -> BOOLEAN] /\ faults \in 0..MaxFaults
        BY Types DEF TypeOK
    <1>2. Fault \/ NoFault => faults' \in 0..MaxFaults
        BY <1>1, ConfigAssumption DEF Fault, NoFault
    <1> QED
        BY <1>1, <1>2 DEF bump_epoch, ReadEpoch, ForgetEpoch

-----------------------------------------------------------------------------
(* Refreshes and rounds.                                                   *)

LEMMA IdleType == Idle \in TaskStates /\ Idle \in TunerStates /\ \A t : refresh(t) \in TaskStates
    BY DEF Idle, TaskStates, TunerStates, refresh

LEMMA RefreshKeepsInv ==
    ASSUME Inv, NEW t \in Tasks, Refresh(t) \/ RefreshFails(t)
    PROVE  Inv'
    <1>0. /\ edits \in [Sessions -> 0..MaxEdits] /\ faults \in 0..MaxFaults
          /\ table \in [Replicas -> [Models -> SUBSET (Providers \X Secrets)]]
          /\ task[t] \in TaskStates
        BY Types DEF TypeOK
    <1>1. CASE LoadProviders(t)
        <2>1. [pc |-> "routes", prov |-> db.prov] \in TaskStates
            BY Types DEF TaskStates
        <2> QED
            BY <1>0, <1>1, <2>1, TaskMoves, EpochType DEF LoadProviders
    <1>2. CASE LoadRoutes(t)
        <2>1. task[t].prov \in ProviderTables
            BY <1>0, <1>2 DEF LoadRoutes, TaskStates
        <2>2. [pc |-> "bump", prov |-> task[t].prov, route |-> db.route] \in TaskStates
            BY <2>1, Types DEF TaskStates
        <2> QED
            BY <1>0, <1>2, <2>2, TaskMoves, EpochType DEF LoadRoutes
    <1>3. CASE BumpForSnapshot(t)
        <2>1. task[t] \in [pc : {"bump", "publish"}, prov : ProviderTables, route : RouteTables]
            BY <1>0, <1>3 DEF BumpForSnapshot, TaskStates
        <2>2. [task[t] EXCEPT !.pc = "publish"] \in TaskStates
            BY <2>1 DEF TaskStates
        <2> QED
            BY <1>0, <1>3, <2>2, TaskMoves, EpochType DEF BumpForSnapshot
    <1>4. CASE Publish(t)
        <2>1. task[t].prov \in ProviderTables /\ task[t].route \in RouteTables
            BY <1>0, <1>4 DEF Publish, TaskStates
        <2>2. PICK new \in Tables(task[t].prov, task[t].route) :
                 table' = [table EXCEPT ![ReplicaOf(t)] = new]
            BY <1>4 DEF Publish
        <2>3. table' \in [Replicas -> [Models -> SUBSET (Providers \X Secrets)]]
            BY <1>0, <2>1, <2>2, TablesType
        <2> QED
            BY <1>0, <1>4, <2>3, IdleType, TaskMoves, EpochType DEF Publish
    <1>5. CASE RemoteRefresh(t)
        BY <1>0, <1>5, IdleType, TaskMoves, EpochType DEF RemoteRefresh
    <1>6. CASE RefreshFails(t)
        <2>1. behind' \in [Watchers -> BOOLEAN] /\ faults' \in 0..MaxFaults
            BY <1>6, EpochType DEF RefreshFails
        <2> QED
            BY <1>0, <1>6, <2>1, IdleType, TaskMoves DEF RefreshFails
    <1> QED
        BY <1>1, <1>2, <1>3, <1>4, <1>5, <1>6 DEF Refresh

LEMMA PollRoundKeepsInv ==
    ASSUME Inv, NEW r \in Replicas, PollRound(r)
    PROVE  Inv'
    <1>1. /\ edits \in [Sessions -> 0..MaxEdits] /\ faults \in 0..MaxFaults
          /\ table \in [Replicas -> [Models -> SUBSET (Providers \X Secrets)]]
        BY Types DEF TypeOK
    <1> QED
        BY <1>1, SessionsAreTasks, IdleType, TaskMoves, EpochType DEF PollRound

\* The reloader: a value read as off is the row's, and the row's is asked for.
LEMMA TunerKeepsInv ==
    ASSUME Inv, NEW r \in Replicas, TunerStep(r)
    PROVE  Inv'
    <1>1. CASE TuneRound(r)
        <2>1. [pc |-> "require"] \in TunerStates
            BY DEF TunerStates
        <2>2. TypeOK'
            BY <1>1, <2>1, Types, EpochType DEF TypeOK, TuneRound
        <2>3. AuthStaysOn' /\ OffWasAsked'
            BY <1>1, Types, InvParts DEF TuneRound, AuthStaysOn, OffWasAsked
        <2> QED
            BY <1>1, <2>2, <2>3, InvParts DEF TuneRound
    <1>2. CASE TuneRequire(r)
        <2>1. PICK v \in BOOLEAN :
                 /\ Read("require", r, v)
                 /\ tuner' = [tuner EXCEPT ![r] = [pc |-> "limit", require |-> v]]
            BY <1>2 DEF TuneRequire
        <2>2. [pc |-> "limit", require |-> v] \in TunerStates
            BY DEF TunerStates
        <2>3. faults' \in 0..MaxFaults
            BY <2>1, EpochType DEF Read
        <2>4. UNCHANGED <<db, table, tun, task, behind, opened, edits>>
            BY <1>2 DEF TuneRequire
        <2>5. TypeOK'
            BY <2>1, <2>2, <2>3, <2>4, Types DEF TypeOK
        <2>6. ~v => db.set["require"] = FALSE
            BY <2>1 DEF Read, Default
        <2>7. ~v => opened
            BY <2>6, InvParts DEF OffWasAsked
        <2>8. AuthStaysOn' /\ OffWasAsked'
            BY <2>1, <2>4, <2>7, Types, InvParts DEF AuthStaysOn, OffWasAsked
        <2> QED
            BY <2>4, <2>5, <2>8, InvParts
    <1>3. CASE TuneLimit(r)
        <2>1. PICK v \in BOOLEAN :
                 /\ Read("limit", r, v)
                 /\ tun' = [tun EXCEPT ![r] = [require |-> tuner[r].require, limit |-> v]]
            BY <1>3 DEF TuneLimit
        <2>2. tuner[r].require \in BOOLEAN /\ tuner[r].pc = "limit"
            BY <1>3, Types DEF TuneLimit, TunerStates
        <2> DEFINE new == [require |-> tuner[r].require, limit |-> v]
        <2>3. new \in [Settings -> BOOLEAN] /\ new.require = tuner[r].require
            BY <2>2, TunablesType
        <2>4. faults' \in 0..MaxFaults
            BY <2>1, EpochType DEF Read
        <2>5. /\ UNCHANGED <<db, table, task, behind, opened, edits>>
              /\ tuner' = [tuner EXCEPT ![r] = Idle] /\ tun' = [tun EXCEPT ![r] = new]
            BY <1>3, <2>1 DEF TuneLimit
        <2> HIDE DEF new
        <2>6. TypeOK'
            BY <2>3, <2>4, <2>5, Types, IdleType DEF TypeOK
        <2>7. ~new.require => opened
            BY <2>2, <2>3, InvParts DEF OffWasAsked
        <2>8. Idle.pc = "idle"
            BY DEF Idle
        <2>9. AuthStaysOn' /\ OffWasAsked'
            BY <2>5, <2>7, <2>8, Types, InvParts DEF AuthStaysOn, OffWasAsked
        <2> QED
            BY <2>5, <2>6, <2>9, InvParts
    <1> QED
        BY <1>1, <1>2, <1>3 DEF TunerStep

-----------------------------------------------------------------------------
(* Edits.                                                                  *)

LEMMA StartEditKeepsInv ==
    ASSUME Inv, NEW s \in Sessions, NEW e \in Edits, StartEdit(s, e)
    PROVE  Inv'
    <1>1. e \in EditRequests
        BY ConfigAssumption
    <1>2. Existing(e) \in ProviderRows \cup {Absent}
        BY <1>1, Types DEF Existing, EditRequests, SettingEdits, ProviderTables
    <1>3. [pc |-> "write", edit |-> e, read |-> Existing(e)] \in TaskStates
        BY <1>1, <1>2 DEF TaskStates
    <1>4. edits' \in [Sessions -> 0..MaxEdits]
        <2>1. edits \in [Sessions -> 0..MaxEdits] /\ edits[s] - 1 \in 0..MaxEdits
            BY Types, ConfigAssumption DEF StartEdit, TypeOK
        <2> QED
            BY <2>1 DEF StartEdit
    <1>5. /\ faults \in 0..MaxFaults
          /\ table \in [Replicas -> [Models -> SUBSET (Providers \X Secrets)]]
        BY Types DEF TypeOK
    <1> QED
        BY <1>3, <1>4, <1>5, SessionsAreTasks, TaskMoves, EpochType DEF StartEdit

\* Databases with their routes in order.
Sound == {rows \in Databases : Stocked(rows.route)}

\* Every edit that is written leaves rows of the same form.
LEMMA RowsType ==
    ASSUME Inv, NEW e \in EditRequests, NEW read \in ProviderRows \cup {Absent}
    PROVE  /\ e.op = "provider" => upsert_provider(e, read) \in Sound
           /\ e.op = "route" /\ e.targets # {} => upsert_route(e) \in Sound
           /\ e.op = "drop_route" => delete_route(e) \in Sound
           /\ e.op = "import" => import_config(e) \in Sound
    <1>0. Stocked(db.route)
        BY InvParts
    <1>1. ASSUME e.op = "provider"
          PROVE  upsert_provider(e, read) \in Sound
        <2> DEFINE kept == IF read = Absent THEN NoSecret ELSE read.key
                   row == [key |-> IF e.key = NoSecret THEN kept ELSE e.key, on |-> e.on]
        <2>1. e \in [op : {"provider"}, id : Providers, key : Secrets, on : BOOLEAN]
            BY <1>1 DEF EditRequests, SettingEdits
        <2>2. kept \in Secrets
            BY ConfigAssumption DEF ProviderRows
        <2> HIDE DEF kept
        <2>3. row \in ProviderRows
            BY <2>1, <2>2 DEF ProviderRows
        <2>4. upsert_provider(e, read) = [db EXCEPT !.prov = [db.prov EXCEPT ![e.id] = row]]
            BY DEF upsert_provider, kept
        <2> HIDE DEF row
        <2>5. [db.prov EXCEPT ![e.id] = row] \in ProviderTables
            BY <2>3, Types DEF ProviderTables
        <2> QED
            BY <1>0, <2>4, <2>5, Types DEF Databases, Sound
    <1>3. ASSUME e.op = "route", e.targets # {}
          PROVE  upsert_route(e) \in Sound
        <2> DEFINE row == [model |-> e.model, targets |-> e.targets, on |-> e.on, from |-> "edit"]
                   left == [db.route EXCEPT ![e.id] = row]
        <2>1. row \in RouteRows /\ row.targets # {}
            BY <1>3 DEF EditRequests, SettingEdits, RouteRows
        <2>3. upsert_route(e) = [db EXCEPT !.route = left]
            BY DEF upsert_route
        <2> HIDE DEF row
        <2>2. left \in RouteTables
            BY <2>1, Types DEF RouteTables
        <2>4. Stocked(left)
            BY <1>0, <2>1, Types DEF Stocked, RouteTables
        <2> HIDE DEF left
        <2> QED
            BY <2>2, <2>3, <2>4, Types DEF Databases, Sound
    <1>4. delete_route(e) \in Sound
        <2> DEFINE left == [db.route EXCEPT ![e.id] = Absent]
        <2>1. left \in RouteTables
            BY Types DEF RouteTables
        <2>2. delete_route(e) = [db EXCEPT !.route = left]
            BY DEF delete_route
        <2>3. Stocked(left)
            BY <1>0, Types DEF Stocked, RouteTables
        <2> HIDE DEF left
        <2> QED
            BY <2>1, <2>2, <2>3, Types DEF Databases, Sound
    <1>5. ASSUME e.op = "import"
          PROVE  import_config(e) \in Sound
        <2>1. /\ e.prov \in Selections(Providers, ProviderRows)
              /\ e.route \in Selections(RouteIds, {row \in RouteRows : row.from = "file"})
              /\ e.set \in Selections(Settings, BOOLEAN)
            BY <1>5 DEF EditRequests, SettingEdits
        <2>2. /\ \A x \in DOMAIN e.prov : e.prov[x] \in ProviderRows
              /\ \A x \in DOMAIN e.route : e.route[x] \in RouteRows /\ e.route[x].from = "file"
              /\ \A x \in DOMAIN e.set : e.set[x] \in BOOLEAN
            BY <2>1 DEF Selections
        <2>3. import_providers(e) \in ProviderTables
            BY <2>2, Types DEF import_providers, Selected, ProviderTables
        <2>4. import_routes(e) \in RouteTables
            BY <2>2, Types DEF import_routes, Selected, RouteTables
        <2>5. import_settings(e) \in SettingTables
            BY <2>2, Types DEF import_settings, Selected, SettingTables
        <2>6. Stocked(import_routes(e))
            BY <1>0, <2>2, Types DEF import_routes, Selected, RouteTables, Stocked
        <2> QED
            BY <2>3, <2>4, <2>5, <2>6 DEF import_config, Databases, Sound
    <1> QED
        BY <1>1, <1>3, <1>4, <1>5

\* A cascade leaves no route without targets, however old what it read is.
LEMMA CascadeType ==
    ASSUME Inv, NEW e \in EditRequests, NEW routes \in RouteTables
    PROVE  delete_provider_cascade_route_targets(e, routes) \in Sound
    <1> DEFINE Cleaned(row, read) ==
                 IF row = Absent \/ read = Absent THEN row
                 ELSE IF e.id \notin read.targets THEN row
                 ELSE IF read.targets = {e.id} THEN Absent
                 ELSE [row EXCEPT !.targets = read.targets \ {e.id}]
               left == [i \in RouteIds |-> Cleaned(db.route[i], routes[i])]
    <1>1. \A row, read \in RouteRows \cup {Absent} :
             /\ Cleaned(row, read) \in RouteRows \cup {Absent}
             /\ \/ Cleaned(row, read) \in {row, Absent}
                \/ Cleaned(row, read).targets # {}
        <2> TAKE row, read \in RouteRows \cup {Absent}
        <2>1. CASE Cleaned(row, read) \in {row, Absent}
            BY <2>1
        <2>2. CASE Cleaned(row, read) \notin {row, Absent}
            <3>1. /\ row \in RouteRows /\ read \in RouteRows
                  /\ e.id \in read.targets /\ read.targets # {e.id}
                  /\ Cleaned(row, read) = [row EXCEPT !.targets = read.targets \ {e.id}]
                BY <2>2
            <3>2. /\ read.targets \ {e.id} \in SUBSET Providers
                  /\ read.targets \ {e.id} # {}
                BY <3>1 DEF RouteRows
            <3> HIDE DEF Cleaned
            <3> QED
                BY <3>1, <3>2 DEF RouteRows
        <2> QED
            BY <2>1, <2>2
    <1>2. delete_provider_cascade_route_targets(e, routes) =
            [db EXCEPT !.prov = [db.prov EXCEPT ![e.id] = Absent], !.route = left]
        BY DEF delete_provider_cascade_route_targets
    <1> HIDE DEF Cleaned
    <1>3. \A i \in RouteIds : db.route[i] \in RouteRows \cup {Absent}
                             /\ routes[i] \in RouteRows \cup {Absent}
        BY Types DEF RouteTables
    <1>4. left \in RouteTables
        BY <1>1, <1>3 DEF RouteTables
    <1>5. Stocked(left)
        <2>1. Stocked(db.route)
            BY InvParts
        <2> QED
            BY <1>1, <1>3, <2>1 DEF Stocked
    <1>6. [db.prov EXCEPT ![e.id] = Absent] \in ProviderTables
        BY Types DEF ProviderTables
    <1> HIDE DEF left
    <1> QED
        BY <1>2, <1>4, <1>5, <1>6, Types DEF Databases, Sound

\* A step that writes rows of the right form and notes what they turn off.
LEMMA NotedWrites ==
    ASSUME Inv, NEW t \in Tasks, NEW x \in TaskStates, task' = [task EXCEPT ![t] = x],
           db' \in Sound, NoteOpened, UNCHANGED <<table, tun, tuner, behind, edits, faults>>
    PROVE  Inv'
    <1>0. db' \in Databases /\ Stocked(db'.route)
        BY DEF Sound
    <1>1. opened' \in BOOLEAN /\ (opened => opened') /\ (db'.set["require"] = FALSE => opened')
        BY Zenon DEF NoteOpened
    <1>2. TypeOK'
        BY <1>0, <1>1, Types DEF TypeOK
    <1>3. AuthStaysOn' /\ OffWasAsked'
        BY <1>1, InvParts DEF AuthStaysOn, OffWasAsked
    <1> QED
        BY <1>0, <1>2, <1>3, InvParts

LEMMA CascadeKeepsInv ==
    ASSUME Inv, NEW s \in Sessions, ReadCascade(s) \/ DeleteProvider(s)
    PROVE  Inv'
    <1>0. task[s] \in TaskStates /\ s \in Tasks
        BY Types, SessionsAreTasks
    <1>1. CASE ReadCascade(s)
        <2>1. task[s].edit \in EditRequests
            BY <1>0, <1>1 DEF ReadCascade, Handles, TaskStates
        <2>2. [pc |-> "cascade", edit |-> task[s].edit, route |-> db.route] \in TaskStates
            BY <2>1, Types DEF TaskStates
        <2>3. /\ edits \in [Sessions -> 0..MaxEdits] /\ faults \in 0..MaxFaults
              /\ table \in [Replicas -> [Models -> SUBSET (Providers \X Secrets)]]
            BY Types DEF TypeOK
        <2> QED
            BY <1>0, <1>1, <2>2, <2>3, TaskMoves, EpochType DEF ReadCascade
    <1>2. CASE DeleteProvider(s)
        <2>1. task[s].edit \in EditRequests /\ task[s].route \in RouteTables
            BY <1>0, <1>2 DEF DeleteProvider, TaskStates
        <2>2. PICK rows \in Sound : Writes(s, rows)
            BY <1>2, <2>1, CascadeType DEF DeleteProvider
        <2> QED
            BY <1>0, <2>2, IdleType, NotedWrites DEF Writes
    <1> QED
        BY <1>1, <1>2

LEMMA EditsKeepInv ==
    ASSUME Inv, NEW s \in Sessions,
           PutProvider(s) \/ PutRoute(s) \/ DeleteRoute(s) \/ ImportConfig(s)
    PROVE  Inv'
    <1>1. task[s].pc = "write" /\ task[s] \in TaskStates /\ s \in Tasks
        BY Types, SessionsAreTasks DEF PutProvider, PutRoute, DeleteRoute, ImportConfig, Handles
    <1>2. task[s].edit \in EditRequests /\ task[s].read \in ProviderRows \cup {Absent}
        BY <1>1 DEF TaskStates
    <1>3. PICK rows \in Sound : Writes(s, rows)
        BY <1>2, RowsType DEF PutProvider, PutRoute, DeleteRoute, ImportConfig, Handles
    <1> QED
        BY <1>1, <1>3, IdleType, NotedWrites DEF Writes

LEMMA WriteFailsKeepsInv ==
    ASSUME Inv, NEW s \in Sessions, WriteFails(s)
    PROVE  Inv'
    <1>1. /\ edits \in [Sessions -> 0..MaxEdits]
          /\ table \in [Replicas -> [Models -> SUBSET (Providers \X Secrets)]]
        BY Types DEF TypeOK
    <1>2. faults' \in 0..MaxFaults
        BY EpochType DEF WriteFails
    <1> QED
        BY <1>1, <1>2, SessionsAreTasks, IdleType, TaskMoves, EpochType DEF WriteFails

LEMMA SettingsKeepInv ==
    ASSUME Inv, NEW s \in Sessions, WriteSetting(s) \/ NotifySetting(s)
    PROVE  Inv'
    <1>0. task[s] \in TaskStates /\ s \in Tasks
        BY Types, SessionsAreTasks
    <1>1. CASE WriteSetting(s)
        <2> DEFINE e == task[s].edit
        <2>1. /\ task[s] \in [pc : {"write"}, edit : EditRequests, read : ProviderRows \cup {Absent}]
              /\ e.op = "settings"
            BY <1>0, <1>1 DEF WriteSetting, Handles, TaskStates
        <2>2. e \in SettingEdits
            BY <2>1 DEF EditRequests, SettingEdits
        <2>3. Head(e.list) \in Settings \X BOOLEAN
            BY <2>2 DEF SettingEdits
        <2>4. [task[s] EXCEPT !.pc = "notify"] \in TaskStates
            BY <2>1, <2>2 DEF TaskStates
        <2> DEFINE new == [db.set EXCEPT ![Head(e.list)[1]] = Head(e.list)[2]]
        <2>5. new \in SettingTables
            BY <2>3, Types DEF SettingTables
        <2>6. db' = [db EXCEPT !.set = new]
            BY <1>1 DEF WriteSetting
        <2>7. task' = [task EXCEPT ![s] = [task[s] EXCEPT !.pc = "notify"]]
              /\ NoteOpened /\ UNCHANGED <<table, tun, tuner, behind, edits, faults>>
            BY <1>1 DEF WriteSetting
        <2> HIDE DEF new, e
        <2>8. db' \in Sound
            <3>1. Stocked(db.route)
                BY InvParts
            <3> QED
                BY <2>5, <2>6, <3>1, Types DEF Databases, Sound
        <2> QED
            BY <1>0, <2>4, <2>7, <2>8, NotedWrites
    <1>2. CASE NotifySetting(s)
        <2> DEFINE rest == Tail(task[s].edit.list)
                   next == IF rest = <<>> THEN Idle
                           ELSE [task[s] EXCEPT !.pc = "write", !.edit.list = rest]
        <2>1. task[s] \in [pc : {"notify"}, edit : SettingEdits, read : ProviderRows \cup {Absent}]
            BY <1>0, <1>2 DEF NotifySetting, TaskStates
        <2>2. rest \in Seq(Settings \X BOOLEAN)
            BY <2>1 DEF SettingEdits
        <2>3. next \in TaskStates
            <3>1. CASE rest = <<>>
                BY <3>1, IdleType
            <3>2. CASE rest # <<>>
                <4> HIDE DEF rest
                <4>1. [task[s].edit EXCEPT !.list = rest] \in EditRequests
                    BY <2>1, <2>2, <3>2 DEF SettingEdits, EditRequests
                <4>2. next = [task[s] EXCEPT !.pc = "write", !.edit = [task[s].edit EXCEPT !.list = rest]]
                    BY <2>1, <3>2
                <4> QED
                    BY <2>1, <4>1, <4>2 DEF TaskStates
            <3> QED
                BY <3>1, <3>2
        <2>4. task' = [task EXCEPT ![s] = next] /\ UNCHANGED <<db, table, tun, tuner, opened, edits>>
            BY <1>2 DEF NotifySetting
        <2>5. behind' \in [Watchers -> BOOLEAN] /\ faults' \in 0..MaxFaults
            BY <1>2, EpochType DEF NotifySetting
        <2>6. /\ edits \in [Sessions -> 0..MaxEdits]
              /\ table \in [Replicas -> [Models -> SUBSET (Providers \X Secrets)]]
            BY Types DEF TypeOK
        <2> HIDE DEF next
        <2> QED
            BY <1>0, <2>3, <2>4, <2>5, <2>6, TaskMoves
    <1> QED
        BY <1>1, <1>2

LEMMA RestartKeepsInv ==
    ASSUME Inv, NEW r \in Replicas \cup Editors, Restart(r)
    PROVE  Inv'
    <1>1. PICK unread \in SUBSET (DOMAIN db.set) :
             db' = [db EXCEPT !.set = bootstrap_settings(unread)]
        BY DEF Restart
    <1>2. bootstrap_settings(unread) \in SettingTables
        BY Types, ConfigAssumption DEF bootstrap_settings, SettingTables
    <1>3. db' \in Databases
        BY <1>1, <1>2, Types DEF Databases
    <1>4. PICK new \in Tables(db.prov, db.route) :
             table' = [x \in Replicas |-> IF x = r THEN new ELSE table[x]]
        BY DEF Restart
    <1>5. table' \in [Replicas -> [Models -> SUBSET (Providers \X Secrets)]]
        BY <1>4, Types, TablesType DEF TypeOK
    <1>6. /\ tun' = [x \in Replicas |-> IF x = r THEN Env ELSE tun[x]]
          /\ task' = [t \in Tasks |-> IF ReplicaOf(t) = r THEN Idle ELSE task[t]]
          /\ tuner' = [x \in Replicas |-> IF x = r THEN Idle ELSE tuner[x]]
          /\ bump_epoch /\ NoteOpened /\ Fault /\ UNCHANGED edits
        BY DEF Restart
    <1>7. opened' \in BOOLEAN /\ (opened => opened') /\ (db'.set["require"] = FALSE => opened')
        BY <1>6, Zenon DEF NoteOpened
    <1>8. /\ tun' \in [Replicas -> [Settings -> BOOLEAN]] /\ task' \in [Tasks -> TaskStates]
          /\ tuner' \in [Replicas -> TunerStates]
        BY <1>6, Types, IdleType, ConfigAssumption
    <1>9. TypeOK'
        BY <1>3, <1>5, <1>6, <1>7, <1>8, Types, EpochType DEF TypeOK
    <1>10. Idle.pc = "idle"
        BY DEF Idle
    <1>11. AuthStaysOn' /\ OffWasAsked'
        BY <1>6, <1>7, <1>10, InvParts DEF AuthStaysOn, OffWasAsked
    <1>12. db'.route = db.route
        BY <1>1, Types DEF Databases
    <1> QED
        BY <1>9, <1>11, <1>12, InvParts

-----------------------------------------------------------------------------
LEMMA InitInv ==
    ASSUME Init
    PROVE  Inv
    <1>1. InitDb \in Databases /\ InitDb.prov \in ProviderTables /\ InitDb.route \in RouteTables
        BY ConfigAssumption DEF Databases
    <1>2. table \in [Replicas -> [Models -> SUBSET (Providers \X Secrets)]]
        <2>1. table \in [Replicas -> Tables(InitDb.prov, InitDb.route)]
            BY DEF Init
        <2>2. \A new \in Tables(InitDb.prov, InitDb.route) :
                 new \in [Models -> SUBSET (Providers \X Secrets)]
            BY <1>1, TablesType
        <2> QED
            BY <2>1, <2>2
    <1>3. opened \in BOOLEAN /\ (db.set["require"] = FALSE => opened)
        BY Zenon DEF Init
    <1>4. /\ tun \in [Replicas -> [Settings -> BOOLEAN]] /\ task \in [Tasks -> TaskStates]
          /\ tuner \in [Replicas -> TunerStates] /\ behind \in [Watchers -> BOOLEAN]
        BY IdleType, ConfigAssumption DEF Init
    <1>5. edits \in [Sessions -> 0..MaxEdits] /\ faults \in 0..MaxFaults
        BY ConfigAssumption DEF Init
    <1>6. TypeOK
        BY <1>1, <1>2, <1>3, <1>4, <1>5 DEF Init, TypeOK
    <1>7. Idle.pc = "idle"
        BY DEF Idle
    <1>8. AuthStaysOn /\ OffWasAsked
        BY <1>3, <1>7 DEF Init, AuthStaysOn, OffWasAsked
    <1>9. Stocked(db.route)
        BY ConfigAssumption DEF Init, Stocked
    <1> QED
        BY <1>6, <1>8, <1>9, InvParts

LEMMA StepKeepsInv ==
    ASSUME Inv, [Next]_vars
    PROVE  Inv'
    <1>1. ASSUME NEW r \in Replicas, PollerStep(r) \/ TunerStep(r)
          PROVE  Inv'
        BY <1>1, SessionsAreTasks, PollRoundKeepsInv, RefreshKeepsInv, TunerKeepsInv DEF PollerStep
    <1>2. ASSUME NEW s \in Sessions, SessionStep(s)
          PROVE  Inv'
        BY <1>2, SessionsAreTasks, EditsKeepInv, CascadeKeepsInv, WriteFailsKeepsInv,
           SettingsKeepInv, RefreshKeepsInv DEF SessionStep
    <1>3. CASE UNCHANGED vars
        BY <1>3 DEF vars, Inv, ConfigIsSound, TypeOK, AuthStaysOn, RoutesHaveTargets, OffWasAsked
    <1> QED
        BY <1>1, <1>2, <1>3, RestartKeepsInv, StartEditKeepsInv, RefreshKeepsInv DEF Next

\* Whatever is edited, imported, reloaded or restarted, and whatever fails on the
\* way: a replica serves without API keys only after somebody turned them off, and
\* a route is without targets only if a file that was imported said so; a cascade
\* that works on routes it read long ago leaves none.
THEOREM ConfigStaysSound == Spec => []ConfigIsSound
    <1>1. Init => Inv
        BY InitInv
    <1>2. Inv /\ [Next]_vars => Inv'
        BY StepKeepsInv
    <1>3. Inv => ConfigIsSound
        BY DEF Inv
    <1> QED
        BY <1>1, <1>2, <1>3, PTL DEF Spec

-----------------------------------------------------------------------------
(* The shutdown.                                                           *)

LEMMA RequestsKeepDrain ==
    ASSUME DrainTypes, NEW r \in Requests, Accept(r) \/ Finish(r)
    PROVE  DrainTypes'
    <1>1. req' \in [Requests -> {"new", "in_flight"}]
        BY DEF DrainTypes, Accept, Finish
    <1>2. queue' \in Seq(Requests) /\ Len(queue') <= Capacity
        BY DrainAssumption DEF DrainTypes, Accept, Finish
    <1> QED
        BY <1>1, <1>2 DEF DrainTypes, Accept, Finish

LEMMA StepKeepsDrain ==
    ASSUME DrainTypes, [DrainNext]_drainVars
    PROVE  DrainTypes'
    <1>1. CASE SendSignal
        <2>1. sent' \in 0..MaxSignals
            BY <1>1, DrainAssumption DEF SendSignal, DrainTypes
        <2>2. proc' \in {"running", "exited", "killed"} /\ pending' \in BOOLEAN
            BY <1>1, Zenon DEF SendSignal, DrainTypes
        <2> QED
            BY <1>1, <2>1, <2>2 DEF SendSignal, DrainTypes
    <1>2. CASE InstallHandler \/ SetGlobalDrainSignalled
        BY <1>2 DEF InstallHandler, SetGlobalDrainSignalled, DrainTypes, Running
    <1>3. CASE SignalDrain
        BY <1>3 DEF SignalDrain, Notified, DrainTypes, Running
    <1>4. ASSUME NEW w \in Waiters, PollWaiter(w)
          PROVE  DrainTypes'
        BY <1>4 DEF PollWaiter, DrainTypes, Running
    <1>5. CASE WriteEvent
        <2>1. queue' \in Seq(Requests) /\ Len(queue') <= Capacity
            BY <1>5, DrainAssumption DEF WriteEvent, DrainTypes
        <2> QED
            BY <1>5, <2>1 DEF WriteEvent, DrainTypes
    <1>6. CASE ServerDrained \/ DrainTimeout
        BY <1>6 DEF ServerDrained, DrainTimeout, DrainTypes
    <1>7. CASE UNCHANGED drainVars
        BY <1>7 DEF drainVars, DrainTypes
    <1> QED
        BY <1>1, <1>2, <1>3, <1>4, <1>5, <1>6, <1>7, RequestsKeepDrain DEF DrainNext, Gateway, Ended

\* Requests are cut off by the deadline of main.rs only, and the telemetry
\* channel keeps to its capacity: a process that has exited takes no more steps,
\* so what was in flight when it did decides.
THEOREM DrainOrderly == DrainSpec => []DrainIsOrderly
    <1>1. DrainInit => DrainIsOrderly
        <2>1. DrainInit => sent \in 0..MaxSignals /\ queue \in Seq(Requests) /\ Len(queue) <= Capacity
            BY DrainAssumption DEF DrainInit
        <2>2. DrainInit => /\ waiter \in [Waiters -> {"unpolled", "registered", "woken"}]
                      /\ req \in [Requests -> {"new", "in_flight"}]
            BY DEF DrainInit
        <2> QED
            BY <2>1, <2>2 DEF DrainInit, DrainIsOrderly, DrainTypes, CutOnlyAtDeadline
    <1>2. ASSUME DrainIsOrderly, [DrainNext]_drainVars
          PROVE  DrainIsOrderly'
        <2>1. DrainTypes'
            BY <1>2, StepKeepsDrain DEF DrainIsOrderly
        <2>2. CutOnlyAtDeadline'
            <3>1. CASE ServerDrained
                BY <3>1 DEF ServerDrained, CutOnlyAtDeadline, InFlight
            <3>2. CASE DrainTimeout
                BY <3>2 DEF DrainTimeout, CutOnlyAtDeadline
            <3>3. CASE UNCHANGED drainVars
                BY <1>2, <3>3 DEF drainVars, DrainIsOrderly, CutOnlyAtDeadline, InFlight
            <3>4. CASE SendSignal
                BY <3>4 DEF SendSignal, Running, CutOnlyAtDeadline
            <3>5. CASE \/ InstallHandler \/ SignalDrain \/ SetGlobalDrainSignalled \/ WriteEvent
                       \/ \E w \in Waiters : PollWaiter(w)
                       \/ \E r \in Requests : Accept(r) \/ Finish(r)
                BY <3>5 DEF InstallHandler, SignalDrain, SetGlobalDrainSignalled, WriteEvent, PollWaiter,
                   Accept, Finish, Running, CutOnlyAtDeadline
            <3> QED
                BY <1>2, <3>1, <3>2, <3>3, <3>4, <3>5 DEF DrainNext, Gateway, Ended
        <2> QED
            BY <2>1, <2>2 DEF DrainIsOrderly
    <1> QED
        BY <1>1, <1>2, PTL DEF DrainSpec

=============================================================================
