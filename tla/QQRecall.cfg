CONSTANTS
    o1 = o1 o2 = o2 o3 = o3 u1 = u1 u2 = u2 r1 = r1 r2 = r2
    None = None
    Admin = Admin
    Ops = {o1, o2}
    MaxParts = 2
    Users = {u1, u2}
    Requests = {r1, r2}
    Writes <- MixedWrites
    Asks <- MixedAsks
    Window = 0
    MaxTime = 1
SPECIFICATION Spec
CONSTRAINT Kept
SYMMETRY RequestSymmetry
CHECK_DEADLOCK FALSE
INVARIANTS RecallOnce WholeOperation OnlyAskedFor ReportIsTrue
