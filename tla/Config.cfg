CONSTANTS
    Replicas = {"r1"}
    Editors = {"r1", "r2"}
    Providers = {"p", "q"}
    RouteIds = {"a", "b"}
    Models = {"m"}
    Edits <- MCEdits
    InitDb <- MCInitDb
    Env <- MCEnv
    Absent = Absent
    NoSecret = ""
    Secrets = {"", "k1", "k2"}
    MaxEdits = 1
    MaxFaults = 1
SPECIFICATION Spec
INVARIANT ConfigIsSound
PROPERTY SnapshotsConverge TunablesConverge
CHECK_DEADLOCK FALSE
