SPECIFICATION Spec
CONSTANTS
    c1 = c1
    c2 = c2
    Clients = {c1, c2}
    Channels = {1, 2}
    ChannelTypes = {0}
SYMMETRY ClientSymmetry
INVARIANTS
    TypeOK
    MembershipMirrorsClients
    
    SubscriptionsMirror
    SpeakingMirror
