\* The insertion of the first generation fails after it took effect.
SPECIFICATION Spec
CONSTANTS
    NoClient = NoClient
    c1 = c1
    c2 = c2
    p1 = p1
    p2 = p2
    t1 = t1
    Clients = {c1, c2}
    Conns = {p1, p2}
    Timers = {t1}
    Windows = {TRUE}
    MaxCalls = 2
    MaxFaults = 1
CHECK_DEADLOCK FALSE
INVARIANTS
    EnsureFindsTheGeneration
