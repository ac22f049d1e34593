\* Two goroutines under fairness; one database error on the way.
SPECIFICATION FairSpec
CONSTANTS
    c1 = c1
    w1 = w1
    w2 = w2
    NoClient = NoClient
    Clients = {c1}
    Workers = {w1, w2}
    Channels = {1, 2}
    ChannelTypes = {0}
    Ops = {"create", "move"}
    Faults = {"error"}
    Gens = {1, 2}
    MaxChannelDepth = 3
    MaxFaults = 1
    MaxRestarts = 0
    InitRows <- OneRow
    InitParent <- Root
    InitType <- AllTemporary
PROPERTIES
    OperationsEnd
    
