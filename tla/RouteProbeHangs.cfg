CONSTANTS
    p1 = p1 p2 = p2 k1 = k1 k2 = k2
    Procs = {p1}
    Keys = {k1}
    MaxOps = 1
    LeaseTime = 2
    Patience = 1
    MaxCrashes = 1
    MaxTime = 3
SPECIFICATION AnySpec
CHECK_DEADLOCK FALSE
PROPERTY Concludes
