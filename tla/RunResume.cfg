SPECIFICATION FairSpec
CONSTANTS
    MaxAttempts = 2
    MaxEvents = 6
    CheckpointEvery = 2
    MaxRefusals = 1
    None = None
INVARIANTS
    AllLogged
    SettledStatus
    CheckpointKeepsUp
PROPERTIES
    AttemptEnds
CHECK_DEADLOCK FALSE
