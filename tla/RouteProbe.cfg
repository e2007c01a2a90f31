CONSTANTS
    p1 = p1 p2 = p2 k1 = k1 k2 = k2
    Procs = {p1, p2}
    Keys = {k1, k2}
    MaxOps = 2
    LeaseTime = 2
    Patience = 1
    MaxCrashes = 1
    MaxTime = 3
SPECIFICATION ScenesSpec
CHECK_DEADLOCK FALSE
INVARIANTS OneProbe CalledOnce JoinsActive FactsVerified
PROPERTIES StatusPath CalmConcludes
