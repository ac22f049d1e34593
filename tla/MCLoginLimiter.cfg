\* Four scopes compete for three entries, three callers for two KDF slots;
\* two failures lock for two ticks.
SPECIFICATION Spec
CONSTANTS
    src = src
    pw = pw
    u1 = u1
    u2 = u2
    c1 = c1
    c2 = c2
    c3 = c3
    Callers = {c1, c2, c3}
    Scopes = {src, pw, u1, u2}
    Requests <- Logins
    MaxFailures = 2
    Lockout = 2
    FailureTTL = 2
    MaxEntries = 3
    MaxConcurrentKDF = 2
    MaxTime = 7
SYMMETRY Symmetry
INVARIANTS
    TypeOK
    SlotsAreHeld
    LockedScopesRest
PROPERTIES
    LockoutsHold
    
