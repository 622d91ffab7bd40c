CONSTANTS
    j1 = j1  j2 = j2  j3 = j3  s1 = s1  s2 = s2
    None = None
    Item = {j1, j2, j3}
    Session = {s1, s2}
    SessionOf <- Sessions
    JobPriority <- Priorities
    MaxConcurrent = 1
    MaxRetries = 1
    MaxStops = 0
    MaxRestarts = 1
SPECIFICATION FairSpec
PROPERTIES
    EveryJobSettles
    QueueProtocol
CHECK_DEADLOCK FALSE
