SPECIFICATION Spec
CONSTANTS
    Clients = {c1}
    Tasks = {t1, t2, t3}
    MaxFailures = 2
    MaxLockouts = 2
    LockTicks = 2
    EscalatedTicks = 4
    MaxFaults = 1
INVARIANT GuardCounts
PROPERTY LocksRunTheirCourse
