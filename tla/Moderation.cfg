CONSTANTS
    t1 = t1 t2 = t2 t3 = t3 t4 = t4 a1 = a1 a2 = a2
    Turns = {t1, t2, t3, t4}
    Admins = {a1, a2}
    MaxIncidents = 2
    Ttl = 2
    ReleaseLease = 1
    MaxTime = 4
SPECIFICATION Spec
CONSTRAINT Kept
SYMMETRY PeopleSymmetry
CHECK_DEADLOCK FALSE
INVARIANTS MuteEarned FailedNotMuted LiftOnce
PROPERTY ReleaseIsTrue
