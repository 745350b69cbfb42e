------------------------------- MODULE Config -------------------------------
(***************************************************************************)
(* The configuration of the gateway: provider rows, route rows and         *)
(* settings in one database, shared by several replicas.  Every replica    *)
(* serves from a routing table and a set of tunables of its own, which a   *)
(* poller and a reloader rebuild when the epoch row moves.  Admin sessions *)
(* edit the rows and refresh the replica they are talking to.              *)
(*                                                                         *)
(* Nothing holds a lock across two database calls: a refresh reads the     *)
(* providers, then the routes, then moves the epoch, then publishes, and   *)
(* other tasks run in between.  The epoch is only ever compared for        *)
(* equality with the value a watcher saw last, so a watcher keeps one bit  *)
(* of it: behind (the row differs from what I saw last).                   *)
(***************************************************************************)
EXTENDS Naturals, Sequences, FiniteSets

CONSTANTS
    Replicas,       \* the gateway processes whose snapshots are followed
    Editors,        \* the processes an admin client talks to, these or others
    Providers, RouteIds, Models,
    Edits,          \* the admin requests of this instance
    InitDb,         \* the rows at the start
    Env,            \* the tunables of the process environment
    Absent,         \* no such row
    Secrets,        \* API keys
    NoSecret,       \* an empty api_key column, and an omitted request field
    MaxEdits,       \* bounds: edits of each session,
    MaxFaults       \* and crashed processes or failed calls of the whole run

-----------------------------------------------------------------------------
(* Rows and requests.                                                      *)

Settings == {"require", "limit"}

ProviderRows == [key : Secrets, on : BOOLEAN]
\* from is history: whether upsert_route or a file wrote the row.
RouteRows == [model : Models, targets : SUBSET Providers, on : BOOLEAN, from : {"edit", "file"}]

ProviderTables == [Providers -> ProviderRows \cup {Absent}]
RouteTables == [RouteIds -> RouteRows \cup {Absent}]
SettingTables == [Settings -> BOOLEAN \cup {Absent}]

Databases == [prov : ProviderTables, route : RouteTables, set : SettingTables]

\* The rows of a file for some of the identifiers.
Selections(ids, rows) == UNION {[some -> rows] : some \in SUBSET ids}

SettingEdits == [op : {"settings"}, list : Seq(Settings \X BOOLEAN) \ {<<>>}]

EditRequests ==
    [op : {"provider"}, id : Providers, key : Secrets, on : BOOLEAN]
    \cup [op : {"drop_provider"}, id : Providers]
    \cup [op : {"route"}, id : RouteIds, model : Models, targets : SUBSET Providers, on : BOOLEAN]
    \cup [op : {"drop_route"}, id : RouteIds]
    \cup [op : {"import"}, prov : Selections(Providers, ProviderRows),
          route : Selections(RouteIds, {row \in RouteRows : row.from = "file"}), set : Selections(Settings, BOOLEAN)]
    \cup SettingEdits

ASSUME ConfigAssumption ==
    /\ NoSecret \in Secrets
    /\ Env \in [Settings -> BOOLEAN]
    /\ InitDb \in Databases
    /\ \A i \in RouteIds : InitDb.route[i] # Absent /\ InitDb.route[i].targets = {} =>
                              InitDb.route[i].from = "file"
    /\ Edits \subseteq EditRequests
    /\ MaxEdits \in Nat /\ MaxFaults \in Nat

-----------------------------------------------------------------------------
VARIABLES
    db,         \* [prov, route, set]: the three tables
    table,      \* replica -> its published routing table
    tun,        \* replica -> its published tunables
    task,       \* poller or session -> what it is doing
    tuner,      \* replica -> what its tunables reloader is doing
    behind,     \* watcher -> the epoch is not the one it read last
    opened,     \* history: some admin wrote require_api_key = false
    edits, faults       \* what is left of the bounds

vars == <<db, table, tun, task, tuner, behind, opened,
          edits, faults>>

Poller(r) == <<"poll", r>>
Tuner(r) == <<"tune", r>>
Pollers == {Poller(r) : r \in Replicas}
Watchers == Pollers \cup {Tuner(r) : r \in Replicas}
Sessions == {<<"admin", r>> : r \in Editors}
Tasks == Pollers \cup Sessions
ReplicaOf(t) == t[2]

Idle == [pc |-> "idle"]

-----------------------------------------------------------------------------
(* From rows to a routing table.                                           *)

\* One target survives if it names an enabled provider; an empty column is
\* an empty key.
Entry(prov, row) ==
    IF row = Absent \/ ~row.on THEN {}
    ELSE {<<p, prov[p].key>> : p \in {q \in row.targets : prov[q] # Absent /\ prov[q].on}}

\* refresh() collects the route rows into a map by virtual model.  The
\* column is not unique and the query is not ordered: of two rows for one
\* model either may be the one that stays, a disabled one included.
RowsOf(route, m) == {i \in RouteIds : route[i] # Absent /\ route[i].model = m}

Tables(prov, route) ==
    LET picks == [Models -> RouteIds]
        valid == {k \in picks : \A m \in Models :
                    RowsOf(route, m) # {} => k[m] \in RowsOf(route, m)}
    IN  {[m \in Models |-> IF RowsOf(route, m) = {} THEN {} ELSE Entry(prov, route[k[m]])] :
            k \in valid}

-----------------------------------------------------------------------------
(* The epoch.                                                              *)

\* One upsert moves the epoch for every watcher of every replica.
bump_epoch == behind' = [w \in Watchers |-> TRUE]

\* A round reads the epoch at its start and remembers that value if it gets
\* to its end; otherwise the one it remembered before, which is older.
ReadEpoch(w) == behind' = [behind EXCEPT ![w] = FALSE]
ForgetEpoch(w) == behind' = [behind EXCEPT ![w] = TRUE]

Fault == faults > 0 /\ faults' = faults - 1
NoFault == UNCHANGED faults

-----------------------------------------------------------------------------
(* refresh(), run by a poller or at the end of an admin edit.              *)

LoadProviders(t) ==
    /\ task[t].pc = "load"
    /\ task' = [task EXCEPT ![t] = [pc |-> "routes", prov |-> db.prov]]
    /\ UNCHANGED <<db, table, tun, tuner, behind, opened, edits, faults>>

LoadRoutes(t) ==
    /\ task[t].pc = "routes"
    /\ task' = [task EXCEPT ![t] = [pc |-> "bump", prov |-> @.prov, route |-> db.route]]
    /\ UNCHANGED <<db, table, tun, tuner, behind, opened, edits, faults>>

BumpForSnapshot(t) ==
    /\ task[t].pc = "bump"
    /\ task' = [task EXCEPT ![t].pc = "publish"]
    /\ bump_epoch
    /\ UNCHANGED <<db, table, tun, tuner, opened, edits, faults>>

\* Mutant: the poller remembers the epoch its own refresh left.
PublishAndSettle(t) ==
    /\ task[t].pc = "publish"
    /\ \E new \in Tables(task[t].prov, task[t].route) :
          table' = [table EXCEPT ![ReplicaOf(t)] = new]
    /\ task' = [task EXCEPT ![t] = Idle]
    /\ IF t \in Pollers THEN ReadEpoch(t) ELSE UNCHANGED behind
    /\ UNCHANGED <<db, tun, tuner, opened, edits, faults>>

\* The snapshot goes into the ArcSwap whatever was published meanwhile.
Publish(t) ==
    /\ task[t].pc = "publish"
    /\ \E new \in Tables(task[t].prov, task[t].route) :
          table' = [table EXCEPT ![ReplicaOf(t)] = new]
    /\ task' = [task EXCEPT ![t] = Idle]
    /\ UNCHANGED <<db, tun, tuner, behind, opened, edits, faults>>

\* Of a refresh in a process whose snapshot is not followed, only the moved
\* epoch shows.
RemoteRefresh(t) ==
    /\ task[t].pc = "remote"
    /\ task' = [task EXCEPT ![t] = Idle]
    /\ bump_epoch
    /\ UNCHANGED <<db, table, tun, tuner, opened, edits, faults>>

refresh(t) == [pc |-> IF ReplicaOf(t) \in Replicas THEN "load" ELSE "remote"]

\* Mutant: the epoch is remembered although the refresh failed.
RefreshGivesUp(t) ==
    /\ task[t].pc \in {"load", "routes", "bump", "publish", "remote"}
    /\ Fault
    /\ task' = [task EXCEPT ![t] = Idle]
    /\ UNCHANGED <<db, table, tun, tuner, behind, opened, edits>>

\* Any of the four calls may fail.  The poller goes to its next round with
\* the epoch it saw before; a session answers 500, its rows stay written.
RefreshFails(t) ==
    /\ task[t].pc \in {"load", "routes", "bump", "publish", "remote"}
    /\ Fault
    /\ task' = [task EXCEPT ![t] = Idle]
    /\ IF t \in Pollers THEN ForgetEpoch(t) ELSE UNCHANGED behind
    /\ UNCHANGED <<db, table, tun, tuner, opened, edits>>

Refresh(t) ==
    \/ LoadProviders(t) \/ LoadRoutes(t) \/ BumpForSnapshot(t) \/ Publish(t)
    \/ RemoteRefresh(t)

-----------------------------------------------------------------------------
(* The epoch poller.                                                       *)

\* A round that finds the epoch it saw last goes back to sleep.
PollRound(r) ==
    LET w == Poller(r) IN
    /\ task[w] = Idle
    /\ behind[w]
    /\ task' = [task EXCEPT ![w] = refresh(w)]
    /\ ReadEpoch(w)
    /\ UNCHANGED <<db, table, tun, tuner, opened, edits, faults>>

-----------------------------------------------------------------------------
(* The tunables reloader.  It reads the settings one by one; require       *)
(* stands for the settings with a fixed default, limit for the ones whose  *)
(* default is the value in force.                                          *)

\* Mutant: a switch that cannot be read is off.
DefaultOff(k, r) == IF k = "require" THEN FALSE ELSE tun[r][k]

Default(k, r) == IF k = "require" THEN TRUE ELSE tun[r][k]

TuneRound(r) ==
    LET w == Tuner(r) IN
    /\ tuner[r] = Idle
    /\ behind[w]
    /\ tuner' = [tuner EXCEPT ![r] = [pc |-> "require"]]
    /\ ReadEpoch(w)
    /\ UNCHANGED <<db, table, tun, task, opened, edits, faults>>

\* get_bool and its kin: the value, or the default when the read fails.
Read(k, r, v) ==
    \/ NoFault /\ v = (IF db.set[k] = Absent THEN Default(k, r) ELSE db.set[k])
    \/ Fault /\ v = Default(k, r)

TuneRequire(r) ==
    /\ tuner[r].pc = "require"
    /\ \E v \in BOOLEAN :
          /\ Read("require", r, v)
          /\ tuner' = [tuner EXCEPT ![r] = [pc |-> "limit", require |-> v]]
    /\ UNCHANGED <<db, table, tun, task, behind, opened, edits>>

TuneLimit(r) ==
    /\ tuner[r].pc = "limit"
    /\ \E v \in BOOLEAN :
          /\ Read("limit", r, v)
          /\ tun' = [tun EXCEPT ![r] = [require |-> tuner[r].require, limit |-> v]]
    /\ tuner' = [tuner EXCEPT ![r] = Idle]
    /\ UNCHANGED <<db, table, task, behind, opened, edits>>

-----------------------------------------------------------------------------
(* Admin edits.  A handler reads the row it is about to write (for the     *)
(* audit trail and for the secrets the request leaves out), writes, and    *)
(* refreshes.                                                              *)

Existing(e) == IF e.op = "provider" THEN db.prov[e.id] ELSE Absent

StartEdit(s, e) ==
    /\ task[s] = Idle
    /\ edits[s] > 0
    /\ edits' = [edits EXCEPT ![s] = @ - 1]
    /\ task' = [task EXCEPT ![s] = [pc |-> "write", edit |-> e, read |-> Existing(e)]]
    /\ UNCHANGED <<db, table, tun, tuner, behind, opened, faults>>

\* A secret the request omits is copied from the row read before.
upsert_provider(e, read) ==
    LET kept == IF read = Absent THEN NoSecret ELSE read.key
    IN  [db EXCEPT !.prov[e.id] =
            [key |-> IF e.key = NoSecret THEN kept ELSE e.key, on |-> e.on]]

\* The targets of the provider leave the routes that had them when they were
\* read, routes left without a target are deleted, then the provider.  Rows are
\* written by their id, whatever they hold by now: what others wrote since the
\* read is overwritten.
delete_provider_cascade_route_targets(e, routes) ==
    LET Cleaned(row, read) ==
            IF row = Absent \/ read = Absent THEN row
            ELSE IF e.id \notin read.targets THEN row
            ELSE IF read.targets = {e.id} THEN Absent
            ELSE [row EXCEPT !.targets = read.targets \ {e.id}]
    IN  [db EXCEPT !.prov[e.id] = Absent,
                   !.route = [i \in RouteIds |-> Cleaned(db.route[i], routes[i])]]

upsert_route(e) ==
    [db EXCEPT !.route[e.id] =
        [model |-> e.model, targets |-> e.targets, on |-> e.on, from |-> "edit"]]

delete_route(e) == [db EXCEPT !.route[e.id] = Absent]

\* One transaction over the rows of the file that the admin selected.
Selected(rows, file) ==
    [x \in DOMAIN rows |-> IF x \in DOMAIN file THEN file[x] ELSE rows[x]]

import_providers(e) == Selected(db.prov, e.prov)
import_routes(e) == Selected(db.route, e.route)
import_settings(e) == Selected(db.set, e.set)

import_config(e) ==
    [prov |-> import_providers(e), route |-> import_routes(e), set |-> import_settings(e)]

NoteOpened == opened' = (opened \/ db'.set["require"] = FALSE)

\* Every handler writes, refreshes, and then answers.
Handles(s, op) == task[s].pc = "write" /\ task[s].edit.op = op
Writes(s, rows) ==
    /\ db' = rows
    /\ NoteOpened
    /\ task' = [task EXCEPT ![s] = refresh(s)]
    /\ UNCHANGED <<table, tun, tuner, behind, edits, faults>>

PutProvider(s) ==
    Handles(s, "provider") /\ Writes(s, upsert_provider(task[s].edit, task[s].read))

\* The transaction of a cascade reads all routes, without a lock on them,
ReadCascade(s) ==
    /\ Handles(s, "drop_provider")
    /\ db.prov[task[s].edit.id] # Absent
    /\ task' = [task EXCEPT ![s] = [pc |-> "cascade", edit |-> @.edit, route |-> db.route]]
    /\ UNCHANGED <<db, table, tun, tuner, behind, opened, edits, faults>>

\* and commits what it makes of them.
DeleteProvider(s) ==
    /\ task[s].pc = "cascade"
    /\ db.prov[task[s].edit.id] # Absent
    /\ Writes(s, delete_provider_cascade_route_targets(task[s].edit, task[s].route))

PutRoute(s) ==
    /\ Handles(s, "route")
    /\ task[s].edit.targets # {}
    /\ Writes(s, upsert_route(task[s].edit))

DeleteRoute(s) ==
    /\ Handles(s, "drop_route")
    /\ db.route[task[s].edit.id] # Absent
    /\ Writes(s, delete_route(task[s].edit))

ImportConfig(s) == Handles(s, "import") /\ Writes(s, import_config(task[s].edit))

\* What is answered 400 or 404, before anything is written.
Refused(e) ==
    \/ e.op = "route" /\ e.targets = {}
    \/ e.op = "drop_route" /\ db.route[e.id] = Absent
    \/ e.op = "drop_provider" /\ db.prov[e.id] = Absent

\* The statement or the commit fails, or there is nothing to write.
WriteFails(s) ==
    /\ task[s].pc \in {"write", "cascade"}
    /\ \/ Refused(task[s].edit) /\ NoFault
       \/ Fault
    /\ task' = [task EXCEPT ![s] = Idle]
    /\ UNCHANGED <<db, table, tun, tuner, behind, opened, edits>>

\* update_settings writes its settings one after the other, and moves the
\* epoch after each one.
WriteSetting(s) ==
    LET e == task[s].edit IN
    /\ Handles(s, "settings")
    /\ db' = [db EXCEPT !.set[Head(e.list)[1]] = Head(e.list)[2]]
    /\ NoteOpened
    /\ task' = [task EXCEPT ![s].pc = "notify"]
    /\ UNCHANGED <<table, tun, tuner, behind, edits, faults>>

\* A bump that fails is a line in the log: the next setting is written.
NotifySetting(s) ==
    LET rest == Tail(task[s].edit.list) IN
    /\ task[s].pc = "notify"
    /\ \/ NoFault /\ bump_epoch
       \/ Fault /\ UNCHANGED behind
    /\ task' = [task EXCEPT ![s] =
            IF rest = <<>> THEN Idle ELSE [@ EXCEPT !.pc = "write", !.edit.list = rest]]
    /\ UNCHANGED <<db, table, tun, tuner, opened, edits>>

-----------------------------------------------------------------------------
(* A replica dies, with everything it was doing, and comes up again.       *)

\* ensure_setting writes the value of the environment where the row is
\* missing, or could not be read.
bootstrap_settings(unread) ==
    [k \in DOMAIN db.set |-> IF db.set[k] = Absent \/ k \in unread THEN Env[k] ELSE db.set[k]]

\* The first refresh is done before the listener opens: no request and no
\* other task of the replica runs before it.  Tunables start as the
\* environment says, the watchers have seen no epoch.
Restart(r) ==
    /\ Fault
    /\ \E unread \in {{}} \cup {{k} : k \in DOMAIN db.set} :
          db' = [db EXCEPT !.set = bootstrap_settings(unread)]
    /\ \E new \in Tables(db.prov, db.route) :
          table' = [x \in Replicas |-> IF x = r THEN new ELSE table[x]]
    /\ tun' = [x \in Replicas |-> IF x = r THEN Env ELSE tun[x]]
    /\ task' = [t \in Tasks |-> IF ReplicaOf(t) = r THEN Idle ELSE task[t]]
    /\ tuner' = [x \in Replicas |-> IF x = r THEN Idle ELSE tuner[x]]
    /\ bump_epoch
    /\ NoteOpened
    /\ UNCHANGED edits

-----------------------------------------------------------------------------
Init ==
    /\ db = InitDb
    /\ table \in [Replicas -> Tables(db.prov, db.route)]
    /\ tun = [r \in Replicas |-> Env]
    /\ task = [t \in Tasks |-> Idle]
    /\ tuner = [r \in Replicas |-> Idle]
    /\ behind = [w \in Watchers |-> TRUE]
    /\ opened = (InitDb.set["require"] = FALSE)
    /\ edits = [s \in Sessions |-> MaxEdits] /\ faults = MaxFaults

PollerStep(r) == PollRound(r) \/ Refresh(Poller(r))
TunerStep(r) == TuneRound(r) \/ TuneRequire(r) \/ TuneLimit(r)
SessionStep(s) ==
    \/ PutProvider(s) \/ ReadCascade(s) \/ DeleteProvider(s) \/ PutRoute(s) \/ DeleteRoute(s)
    \/ ImportConfig(s) \/ WriteFails(s) \/ WriteSetting(s) \/ NotifySetting(s) \/ Refresh(s)

Next ==
    \/ \E r \in Replicas : PollerStep(r) \/ TunerStep(r)
    \/ \E r \in Replicas \cup Editors : Restart(r)
    \/ \E s \in Sessions : SessionStep(s) \/ \E e \in Edits : StartEdit(s, e)
    \/ \E t \in Tasks : RefreshFails(t)

\* Pollers, reloaders and handlers are tasks of a runtime that schedules
\* every ready task, and their database calls are answered.
Spec ==
    /\ Init /\ [][Next]_vars
    /\ \A r \in Replicas : WF_vars(PollerStep(r)) /\ WF_vars(TunerStep(r))
    /\ \A s \in Sessions : WF_vars(SessionStep(s))

-----------------------------------------------------------------------------
(* Properties.                                                             *)

TaskStates ==
    [pc : {"idle", "load", "remote"}]
    \cup [pc : {"routes"}, prov : ProviderTables]
    \cup [pc : {"bump", "publish"}, prov : ProviderTables, route : RouteTables]
    \cup [pc : {"write"}, edit : EditRequests, read : ProviderRows \cup {Absent}]
    \cup [pc : {"cascade"}, edit : EditRequests, route : RouteTables]
    \cup [pc : {"notify"}, edit : SettingEdits, read : ProviderRows \cup {Absent}]

TunerStates == [pc : {"idle", "require"}] \cup [pc : {"limit"}, require : BOOLEAN]

\* Types of the rows, the snapshots, the tunables and what is in progress.
TypeOK ==
    /\ db \in Databases
    /\ table \in [Replicas -> [Models -> SUBSET (Providers \X Secrets)]]
    /\ tun \in [Replicas -> [Settings -> BOOLEAN]]
    /\ task \in [Tasks -> TaskStates]
    /\ tuner \in [Replicas -> TunerStates]
    /\ behind \in [Watchers -> BOOLEAN]
    /\ opened \in BOOLEAN
    /\ edits \in [Sessions -> 0..MaxEdits] /\ faults \in 0..MaxFaults

\* Once the edits stop, every replica serves, for good, a table that the
\* rows in the database give: whatever order the edits, the refreshes of
\* the sessions and the pollers' rounds ran in (a late publish overwrites a
\* newer one, a snapshot mixes two versions), whatever call failed and
\* whichever replica died between writing and refreshing.
SnapshotsConverge ==
    <>[](\A r \in Replicas : table[r] \in Tables(db.prov, db.route))

\* Once the edits stop, every replica runs with the settings in the
\* database, also when a reload mixed two versions, took a default for a
\* row it could not read, or the epoch did not move after a write.
TunablesConverge == <>[](\A r \in Replicas : tun[r] = db.set)

\* A replica lets anonymous requests in only if an admin (or the
\* environment) turned the API key off at some time: no failed read, no
\* restart and no half-done reload opens it.
AuthStaysOn ==
    \A r \in Replicas : ~tun[r].require => opened \/ ~Env.require

\* A route row has a target left to send to, whichever providers were deleted
\* under it and whoever wrote it while a cascade was under way: only a file with
\* a route without targets, which import_config takes as it is, makes one.
RoutesHaveTargets ==
    \A i \in RouteIds : db.route[i] # Absent /\ db.route[i].targets = {} =>
                          db.route[i].from = "file"

\* No reload, boot or crash opens the gateway by accident, and no deleted
\* provider leaves a route without targets (spawn_tunables_reloader,
\* delete_provider_cascade_route_targets).
ConfigIsSound == TypeOK /\ AuthStaysOn /\ RoutesHaveTargets

=============================================================================
