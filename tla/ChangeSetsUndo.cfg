SPECIFICATION Spec
CONSTANTS
    f = f
    g = g
    a = a
    b = b
    File = {f, g}
    Content = {a, b}
    Original <- OneIsThere
    Missing = Missing
    Torn = Torn
    None = None
    MaxPreviews = 3
    MaxSets = 2
    MaxUndos = 1
    MaxEdits = 1
    MaxFaults = 1
INVARIANTS
    AllOrNothing
    LatestIsSaved
    UndoRestores
PROPERTIES
    NoBlindWrite
CHECK_DEADLOCK FALSE
