\* A re-parenting whose commit cannot be confirmed, then a cleanup.
SPECIFICATION Spec
CONSTANTS
    c1 = c1
    w1 = w1
    NoClient = NoClient
    Clients = {c1}
    Workers = {w1}
    Channels = {1, 2, 3}
    ChannelTypes = {0, 2}
    Ops = {"move", "delete", "reparent"}
    Faults = {"unconfirmed"}
    Gens = {1, 2}
    MaxChannelDepth = 3
    MaxFaults = 1
    MaxRestarts = 0
    InitRows <- ThreeRows
    InitParent <- Root
    InitType <- SecondTemporary
PROPERTIES
    CleanupNeverCascades
