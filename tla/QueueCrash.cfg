CONSTANTS
    p1 = p1  p2 = p2  w1 = w1  w2 = w2
    t1 = t1  t2 = t2  t3 = t3
    fp = fp  None = None
    Proc = {p1, p2}
    Worker = {w1, w2}
    Home <- TwoHomes
    Task = {t1, t2}
    Priority <- Priorities
    Jumps = {}
    Fingerprint <- NoFp
    DontFilter = {}
    MaxRetries = 1
    StaleTimeout = 1
    RedisMayFail = FALSE
    MaxTime = 4
    MaxCrashes = 2
    MaxAdmin = 0
SPECIFICATION Spec
INVARIANTS
    ActiveRecoverable
CHECK_DEADLOCK FALSE
