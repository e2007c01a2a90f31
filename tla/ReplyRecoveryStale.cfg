CONSTANTS
    k1 = k1
    k2 = k2
    k3 = k3
    v1 = v1
    v2 = v2
    t1 = t1
    t2 = t2
    t3 = t3
    w1 = w1
    w2 = w2
    r1 = r1
    r2 = r2
    NoToken = NoToken
    Keys = {k1}
    Convs = {v1}
    ConvOf <- OneConv
    Size <- Short
    Routes = {r1}
    Workers = {w1}
    Tokens = {t1, t2}
    Lease = 1
    TTL = 2
    Backoffs = {0}
    MaxAttempts = 2
    MaxBatch = 2
    MaxChars = 2
    MaxReports <- Once
    MaxTime = 4
SPECIFICATION WholeSpec
SYMMETRY WorkerSymmetry
CHECK_DEADLOCK FALSE
PROPERTY
    StaleDispatchQuarantined
