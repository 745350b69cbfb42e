SPECIFICATION Spec
CONSTANTS
    k1 = k1
    k2 = k2
    sA = sA
    sB = sB
    small = small
    large = large
    none = none
    anyone = anyone
    blank = blank
    nobody = nobody
    hi = hi
    Requests = {r1, r2}
    Inputs <- MCInputs
    NoCred = nobody
    KeyIds = {k1, k2}
    InitKeys <- MCKeys
    KeyEdits <- MCEdits
    Routed = {small}
    Permits = 1
    Tunables <- MCTunables
    Absent = none
    Anyone = anyone
    Blank = blank
    MaxKeyEdits = 1
    MaxReloads = 1
    MaxFaults = 1
INVARIANT ServedAsAllowed
PROPERTY AccountsForEveryRequest
CHECK_DEADLOCK FALSE
