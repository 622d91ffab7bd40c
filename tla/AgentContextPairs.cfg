SPECIFICATION Spec
CONSTANTS
    MaxSteps = 2
    MaxReflect = 1
    ForceDelivery = TRUE
    KeepFirst = 2
    KeepRecent = 2
    Soft = 7
    Hard = 10
    Target = 6
    Least = 4
    ResultSizes <- SmallOrLarge
    SummarySizes <- TwoTokens
    MaxAttempts = 1
    MaxEvents = 6
    MaxCalls = 2
    MaxExpiries = 1
INVARIANT
    PairsComplete
CHECK_DEADLOCK FALSE
