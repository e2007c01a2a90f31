CONSTANTS
    u1 = u1 u2 = u2 e1 = e1 f1 = f1 x1 = x1 g1 = g1 bg = bg j1 = j1 j2 = j2
    None = None
    Jobs = {j1, j2}
    Targets = {u1, u2}
    Events = {e1, f1}
    Feeds = {f1}
    Texts = {x1}
    Groups = {g1, bg}
    Plans <- MixedPlans
    Cooldown = 1
    Pause = 1
    GroupLimit = 1
    TargetLimit = 1
    Quota = 1
    DayLength = 2
    MaxTime = 2
SPECIFICATION Spec
SYMMETRY JobSymmetry
CHECK_DEADLOCK FALSE
INVARIANTS EventOnce PayloadOnce StandingIsKept DailyLimits
