SPECIFICATION FairSpec
CONSTANTS
    MaxSteps = 2
    MaxReflect = 1
    ForceDelivery = TRUE
    KeepFirst = 2
    KeepRecent = 2
    Soft = 7
    Hard = 10
    Target = 6
    Least = 4
    ResultSizes <- SmallOrLarge
    SummarySizes <- TwoTokens
    MaxAttempts = 2
    MaxEvents = 6
    MaxCalls = 2
    MaxExpiries = 1
INVARIANTS
    LogExact
    OneRoundAtRisk
    SnapshotPrefix
    HeadKept
PROPERTIES
    AttemptEnds
CHECK_DEADLOCK FALSE
