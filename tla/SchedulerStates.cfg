CONSTANTS
    pa = pa  pb = pb  pc = pc
    None = None
    Pid = {pa, pb, pc}
    Priority <- Priorities
    Realtime = 4
    PreemptEnabled = TRUE
    LoopEnabled = TRUE
    StorageMayFail = TRUE
SPECIFICATION FairSpec
INVARIANTS
    Consistent
PROPERTIES
    ImplementsLifecycle
    ShutdownIsOver
CHECK_DEADLOCK FALSE
