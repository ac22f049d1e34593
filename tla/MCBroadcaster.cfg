\* Two senders, two sessions, queues of two messages.
SPECIFICATION FairSpec
CONSTANTS
    NoClient = NoClient
    c1 = c1
    c2 = c2
    s1 = s1
    s2 = s2
    Clients = {c1, c2}
    Senders = {s1, s2}
    Buffer = 2
    MaxMessages = 4
INVARIANTS
    TypeOK
    SendsAreSafe
    SameOrder
PROPERTIES
    BroadcastsEnd
    
