SPECIFICATION FairSpec
CONSTANTS
    e1 = e1
    e2 = e2
    loop = loop
    Executors <- TwoExecutors
    User <- TwoExecutors
    Loops <- OneLoop
    Calls <- FewCalls
    Home <- TwoHomes
    Reading = {"read"}
    Writing = {}
    Deleting = {"delete"}
    None = None
    Original = Original
    InitialLow = 1
    InitialHigh = 1
    Initial = 1
    OtherHigh = 2
    MinSamples = 1
    MaxSemaphores = 2
    MaxCache = 1
    MaxSteps = 2
    MaxTries = 2
    Retried = {"read"}
    Vouched = {"delete"}
    AutoApprove = FALSE
    MaxApprovals = 1
    MaxRounds = 1
    MaxManaged = 1
INVARIANTS
    CurrentServes
    StepLimit
    CacheSound
    Gated
PROPERTIES
    CallEnds
CHECK_DEADLOCK FALSE
