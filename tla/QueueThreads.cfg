CONSTANTS
    p1 = p1  p2 = p2  w1 = w1  w2 = w2
    t1 = t1  t2 = t2  t3 = t3
    fp = fp  None = None
    Proc = {p1}
    Worker = {w1, w2}
    Home <- OneHome
    Task = {t1, t2, t3}
    Priority <- Priorities
    Jumps = {t3}
    Fingerprint <- SameFp
    DontFilter = {t3}
    MaxRetries = 1
    StaleTimeout = 1
    RedisMayFail = FALSE
    MaxTime = 3
    MaxCrashes = 0
    MaxAdmin = 1
SPECIFICATION FairSpec
INVARIANTS
    TypeOK
    NoLostWakeup
    OneCopy
    MirrorExact
    Dedup
PROPERTIES
    EveryTaskSettles
CHECK_DEADLOCK FALSE
