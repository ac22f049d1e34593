\* An edit and a join between the INSERT and the registration of a channel.
SPECIFICATION Spec
CONSTANTS
    c1 = c1
    w1 = w1
    w2 = w2
    NoClient = NoClient
    Clients = {c1}
    Workers = {w1, w2}
    Channels = {1, 2}
    ChannelTypes = {0, 2}
    Ops = {"create", "edit", "move"}
    Faults = {}
    Gens = {1, 2}
    MaxChannelDepth = 3
    MaxFaults = 0
    MaxRestarts = 0
    InitRows <- OneRow
    InitParent <- Root
    InitType <- AllTemporary
INVARIANTS
    CountMirrored
