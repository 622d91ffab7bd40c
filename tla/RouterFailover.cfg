CONSTANTS
    m1 = m1  m2 = m2  m3 = m3  c1 = c1  c2 = c2
    None = None
    Caller = {c1, c2}
    Provider = {m1, m2, m3}
    Rank <- Ranks
    FailureThreshold = 1
    SuccessThreshold = 2
    RecoveryTimeout = 1
    Strategy = "failover"
    Matching = {{m1, m2, m3}, {m2, m3}}
    MaxFailovers = 1
    MaxTime = 1
    MaxChats = 3
    MaxResets = 1
SPECIFICATION FairSpec
INVARIANTS
    Counted
    OnceEach
PROPERTIES
    OpenHolds
    ChatEnds
CHECK_DEADLOCK FALSE
