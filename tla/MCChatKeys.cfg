\* Two members, two connections, with and without a coalescing window, and
\* one failure.  Once the calls are used up the server is idle.
SPECIFICATION FairSpec
CONSTANTS
    NoClient = NoClient
    c1 = c1
    c2 = c2
    p1 = p1
    p2 = p2
    t1 = t1
    Clients = {c1, c2}
    Conns = {p1, p2}
    Timers = {t1}
    Windows = {TRUE, FALSE}
    MaxCalls = 3
    MaxFaults = 1
CHECK_DEADLOCK FALSE
INVARIANTS
    TypeOK
    HistoryOpens
    LeavesAreNotLost
    MembersAreServed
PROPERTIES
    LeavesAreAnswered
