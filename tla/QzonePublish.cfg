CONSTANTS
    o1 = o1 o2 = o2 m1 = m1 c1 = c1 c2 = c2 c3 = c3 b1 = b1 t1 = t1 t2 = t2 s0 = s0
    None = None
    Bots = {b1}
    Texts = {t1, t2}
    Sources = {s0}
    Ops = {o1, o2}
    Callers = {c1, c2, c3}
    Manual = {m1}
    Recordable = {o1}
    Forces = {FALSE, TRUE}
    Offers <- MixedOffers
    Limit = 2
    Interval = 0
    Lease = 1
    Window = 2
    MonthLength = 2
    MaxTime = 3
SPECIFICATION ScenesSpec
CHECK_DEADLOCK FALSE
INVARIANTS
    AtMostOneWrite
    CountedOnce
    SuccessIsReal
    RemoteClaimedOnce
PROPERTIES
    KeepsPromise
    DispatchSettles
