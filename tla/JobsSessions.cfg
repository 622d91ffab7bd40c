CONSTANTS
    j1 = j1  j2 = j2  j3 = j3  s1 = s1  s2 = s2
    None = None
    Item = {j1, j2, j3}
    Session = {s1, s2}
    SessionOf <- Sessions
    JobPriority <- Priorities
    MaxConcurrent = 2
    MaxRetries = 1
    MaxStops = 1
    MaxRestarts = 1
SPECIFICATION Spec
INVARIANTS
    OnePlace
    OpenSessionHasJob
    FlagsHaveJobs
CHECK_DEADLOCK FALSE
