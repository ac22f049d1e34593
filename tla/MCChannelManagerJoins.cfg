\* Two clients, two goroutines, a tree that is re-parented and deleted.
SPECIFICATION Spec
CONSTANTS
    c1 = c1
    c2 = c2
    w1 = w1
    w2 = w2
    NoClient = NoClient
    Clients = {c1, c2}
    Workers = {w1, w2}
    Channels = {1, 2}
    ChannelTypes = {0}
    Ops = {"reparent", "move", "remove", "lifecycle", "delete"}
    Faults = {}
    Gens = {1, 2}
    MaxChannelDepth = 3
    MaxFaults = 0
    MaxRestarts = 0
    InitRows <- TwoRows
    InitParent <- Root
    InitType <- AllTemporary
SYMMETRY Symmetry
INVARIANTS
    TypeOK
    MirrorCoherent
    TimersCoherent
    CallbacksSeeTheChannel
PROPERTIES
    CleanupTakesEmptyLeaves
    Serves
