\* Two publishers and two subscribers; buffers of one event, eviction after two
\* drops.
SPECIFICATION FairSpec
CONSTANTS
    p1 = p1
    p2 = p2
    s1 = s1
    s2 = s2
    a = a
    b = b
    Publishers = {p1, p2}
    Subs = {s1, s2}
    Types = {a, b}
    Filter <- SecondFiltered
    Buffer = 1
    MaxDrops = 2
    MaxSeq = 4
INVARIANTS
    TypeOK
    RegisteredAreOpen
    
    GapsAreDrops
    SlowConsumersWereSlow

    
    
