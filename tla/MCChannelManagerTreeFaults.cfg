\* One goroutine and the timers; the database fails, or fails to answer.
SPECIFICATION Spec
CONSTANTS
    c1 = c1
    w1 = w1
    NoClient = NoClient
    Clients = {c1}
    Workers = {w1}
    Channels = {1, 2, 3}
    ChannelTypes = {0, 2}
    Ops = {"move", "delete", "reparent"}
    Faults = {"error", "ambiguous", "unconfirmed"}
    Gens = {1, 2}
    MaxChannelDepth = 3
    MaxFaults = 1
    MaxRestarts = 0
    InitRows <- ThreeRows
    InitParent <- Root
    InitType <- SecondTemporary
INVARIANTS
    MirrorCoherent
    TimersCoherent
    TableIsTree
