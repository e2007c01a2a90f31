CONSTANTS
    k1 = k1 k2 = k2 k3 = k3 v1 = v1 v2 = v2 t1 = t1 t2 = t2 t3 = t3
    w1 = w1 w2 = w2 r1 = r1 r2 = r2 NoToken = NoToken
    Keys = {k1, k2, k3}
    Convs = {v1}
    ConvOf <- OneConv
    Size <- Lengths
    Routes = {r1}
    Workers = {w1, w2}
    Tokens = {t1, t2}
    Lease = 1
    TTL = 2
    Backoffs = {0}
    MaxAttempts = 2
    MaxBatch = 2
    MaxChars = 2
    MaxReports <- Twice
    MaxTime = 2
SPECIFICATION ScenesSpec
SYMMETRY WorkerSymmetry
CHECK_DEADLOCK FALSE
INVARIANTS
    OneTurnPerConversation
    RecoveredWasSent
    NoBlindReplay
    AttemptsBounded
    PromptAnsweredOnce
    BatchLimits
PROPERTY
    ClosedStays
