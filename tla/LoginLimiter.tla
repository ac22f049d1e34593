---------------------------- MODULE LoginLimiter ----------------------------
(***************************************************************************)
(* The process-wide limiter of failed logins (internal/auth/limiter.go)    *)
(* and the login paths that share it: the control connection, ServerQuery  *)
(* over TCP and SSH, the event stream and gRPC.  A caller reserves the     *)
(* scopes of a login (its source and its principal), verifies the          *)
(* password without the lock, and finishes the reservation once.           *)
(*                                                                         *)
(* Every operation runs under l.mu and is one action.  Time is a number;   *)
(* 0 is Go's zero time.  overflowUntil is left out: the code writes it     *)
(* and never lets it decide anything.                                      *)
(***************************************************************************)
EXTENDS Integers, Sequences, FiniteSets, Functions

CONSTANTS
    Callers,
    Scopes,
    Requests,          \* the scope lists logins reserve; the principal is last
    MaxFailures,
    Lockout,           \* lockoutDuration
    FailureTTL,
    MaxEntries,
    MaxConcurrentKDF,
    MaxTime            \* bound on the clock

ASSUME RequestsAssumption == \A r \in Requests : r \in Seq(Scopes) /\ Len(r) \in 1..2
ASSUME ConfigAssumption ==
    {MaxFailures, Lockout, FailureTTL, MaxEntries, MaxConcurrentKDF, MaxTime} \subseteq Nat \ {0}

VARIABLES
    entries,    \* the map: scope -> entry
    inFlight,   \* KDF slots in use
    attempt,    \* attempt[c]: the scopes c holds, <<>> without a reservation
    now         \* the clock

vars == <<entries, inFlight, attempt, now>>

Fresh == [failures |-> 0, lastFailure |-> 0, lockedUntil |-> 0, inFlight |-> FALSE]

Init ==
    /\ entries = << >>
    /\ inFlight = 0
    /\ attempt = [c \in Callers |-> <<>>]
    /\ now = 1

Busy(e) == e.inFlight \/ e.lockedUntil > now

\* pruneExpiredLocked
Expired(e) ==
    /\ ~Busy(e)
    /\ \/ e.lockedUntil # 0
       \/ e.lastFailure = 0
       \/ now - e.lastFailure >= FailureTTL

Pruned == Restrict(entries, {s \in DOMAIN entries : ~Expired(entries[s])})

\* Mutant: work in progress may be evicted.
EvictableInFlight(es, protected) ==
    {s \in DOMAIN es \ protected : es[s].lockedUntil <= now}

\* Mutant: a lockout may be evicted.
EvictableLocked(es, protected) == {s \in DOMAIN es \ protected : ~es[s].inFlight}

Evictable(es, protected) == {s \in DOMAIN es \ protected : ~Busy(es[s])}

\* Mutant: one entry too many.
ShortageOffByOne(es, needed) == Cardinality(DOMAIN es) + needed - MaxEntries - 1

Shortage(es, needed) == Cardinality(DOMAIN es) + needed - MaxEntries

\* makeRoomLocked: the sets of entries it may evict, the oldest failures first
\* and in map order among equals; none when there is no room to make.
Evictions(es, needed, protected) ==
    LET old == Evictable(es, protected) IN
    IF Shortage(es, needed) <= 0 THEN {{}}
    ELSE {D \in SUBSET old :
            /\ Cardinality(D) = Shortage(es, needed)
            /\ \A d \in D, k \in old \ D : es[d].lastFailure <= es[k].lastFailure}

\* Mutant: a locked scope is available.
AvailableLocked(es, S) ==
    /\ \A s \in S \cap DOMAIN es : ~es[s].inFlight
    /\ Shortage(es, Cardinality(S \ DOMAIN es)) <= Cardinality(Evictable(es, S))

\* scopesAvailableLocked
Available(es, S) ==
    /\ \A s \in S \cap DOMAIN es : ~Busy(es[s])
    /\ S \subseteq DOMAIN es
       \/ Shortage(es, Cardinality(S \ DOMAIN es)) <= Cardinality(Evictable(es, S))

\* Mutant: a reservation starts from a clean entry.
ReservedAfresh(es, s) == [Fresh EXCEPT !.inFlight = TRUE]

Reserved(es, s) == [IF s \in DOMAIN es THEN es[s] ELSE Fresh EXCEPT !.inFlight = TRUE]

Reserve(c, r) ==
    LET es == Pruned
        S  == Range(r)
    IN  /\ attempt[c] = <<>>
        /\ IF inFlight < MaxConcurrentKDF /\ Available(es, S)
           THEN \E D \in Evictions(es, Cardinality(S \ DOMAIN es), S) :
                   /\ entries' = [s \in (DOMAIN es \ D) \cup S |->
                                    IF s \in S THEN Reserved(es, s) ELSE es[s]]
                   /\ inFlight' = inFlight + 1
                   /\ attempt' = [attempt EXCEPT ![c] = r]
           ELSE /\ entries' = es
                /\ UNCHANGED <<inFlight, attempt>>
        /\ UNCHANGED now

\* One more failure; the last of a streak locks.
Failed(e) ==
    LET n == e.failures + 1 IN
    [failures    |-> IF n >= MaxFailures THEN 0 ELSE n,
     lastFailure |-> now,
     lockedUntil |-> IF n >= MaxFailures THEN now + Lockout ELSE e.lockedUntil,
     inFlight    |-> FALSE]

\* The reservation ends in one of three ways.  A success clears the principal;
\* an entry without history goes.
Finish(c, result) ==
    LET es   == Pruned
        r    == attempt[c]
        mine == {s \in Range(r) \cap DOMAIN es : es[s].inFlight}
        gone == {s \in mine : /\ result # "fail"
                              /\ \/ result = "succeed" /\ s = r[Len(r)]
                                 \/ es[s].failures = 0 /\ es[s].lockedUntil = 0}
    IN  /\ r # <<>>
        /\ entries' = [s \in DOMAIN es \ gone |->
                         IF s \notin mine THEN es[s]
                         ELSE IF result = "fail" THEN Failed(es[s])
                         ELSE [es[s] EXCEPT !.inFlight = FALSE]]
        /\ inFlight' = IF mine = {} THEN inFlight ELSE inFlight - 1
        /\ attempt' = [attempt EXCEPT ![c] = <<>>]
        /\ UNCHANGED now

\* recordFailureLocked: the maps it may leave.
Recorded(es, s) ==
    IF s \in DOMAIN es
    THEN {IF es[s].inFlight THEN es ELSE [es EXCEPT ![s] = Failed(@)]}
    ELSE LET rooms == Evictions(es, 1, {}) IN
         IF rooms = {} THEN {es}
         ELSE {[x \in (DOMAIN es \ D) \cup {s} |-> IF x = s THEN Failed(Fresh) ELSE es[x]] :
                 D \in rooms}

\* RecordFailure, for a login that is refused without a verification.  The
\* scopes are recorded one after the other.
RecordFailure(r) ==
    /\ Len(r) = 2
    /\ \E first \in Recorded(Pruned, r[1]) : entries' \in Recorded(first, r[2])
    /\ UNCHANGED <<inFlight, attempt, now>>

Tick ==
    /\ now < MaxTime
    /\ now' = now + 1
    /\ UNCHANGED <<entries, inFlight, attempt>>

Next ==
    \/ \E c \in Callers, r \in Requests : Reserve(c, r)
    \/ \E c \in Callers, result \in {"succeed", "fail", "cancel"} : Finish(c, result)
    \/ \E r \in Requests : RecordFailure(r)
    \/ Tick

Spec == Init /\ [][Next]_vars

-----------------------------------------------------------------------------
(* Properties. *)

\* The types; the map stays within its bound.
TypeOK ==
    /\ DOMAIN entries \subseteq Scopes
    /\ Cardinality(DOMAIN entries) <= MaxEntries
    /\ \A s \in DOMAIN entries :
         entries[s] \in [failures : 0..(MaxFailures - 1), lastFailure : 0..now,
                         lockedUntil : 0..(now + Lockout), inFlight : BOOLEAN]
    /\ inFlight \in 0..MaxConcurrentKDF
    /\ attempt \in [Callers -> Requests \cup {<<>>}]
    /\ now \in 1..MaxTime

\* A KDF slot is in use exactly while a caller holds a reservation, and every
\* entry marked in flight belongs to one of them: no slot and no scope is ever
\* leaked or released twice, whatever is evicted, pruned or recorded while
\* the password is verified outside the lock.
SlotsAreHeld ==
    /\ inFlight = Cardinality({c \in Callers : attempt[c] # <<>>})
    /\ \A c \in Callers : \A s \in Range(attempt[c]) : s \in DOMAIN entries /\ entries[s].inFlight
    /\ \A s \in DOMAIN entries : entries[s].inFlight =>
         \E c \in Callers : {d \in Callers : s \in Range(attempt[d])} = {c}

\* No password is verified for a scope that is locked out.
LockedScopesRest ==
    \A c \in Callers : \A s \in Range(attempt[c]) : entries[s].lockedUntil <= now

\* "Active lockouts are never evicted": until a lockout has run out, no login
\* of another scope and no pressure on the map ends or shortens it.
LockoutsHold ==
    [][\A s \in DOMAIN entries :
         entries[s].lockedUntil > now' =>
            s \in DOMAIN entries' /\ entries'[s].lockedUntil >= entries[s].lockedUntil]_vars

\* A streak of failures is forgotten only when it leads to a lockout, when it
\* is too old, when its principal logs in, or when the map is full.
StreaksAreKept ==
    [][\A s \in DOMAIN entries :
         \/ s \in DOMAIN entries' /\ entries'[s].failures >= entries[s].failures
         \/ s \in DOMAIN entries' /\ entries'[s].lockedUntil > now
         \/ Expired(entries[s])
         \/ \E c \in Callers : /\ attempt[c] # <<>> /\ attempt'[c] = <<>>
                               /\ s = attempt[c][Len(attempt[c])]
         \/ Cardinality(DOMAIN entries \cup DOMAIN entries') > MaxEntries
         \/ entries[s].failures = 0]_vars
=============================================================================
