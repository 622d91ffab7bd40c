\* Two agents, two requests, two events, two calls of unregister.
SPECIFICATION BusSpec
CONSTANTS
    Agents = {a1, a2}
    Requests = {r1, r2}
    Types = {"response", "error"}
    MaxEvents = 2
    MaxUnregisters = 2
INVARIANTS PendingExact Conserved
PROPERTIES KeepsPromise
CHECK_DEADLOCK FALSE
