------------------------------ MODULE ChatKeys ------------------------------
(***************************************************************************)
(* The chat key of one channel: its generations in the database            *)
(* (store/chatkeys.go), the server's cache of the current one              *)
(* (server/chatkeys.go), its rotation when members leave and its delivery  *)
(* to those who are there (server/e2e.go, server/handlers.go), and the     *)
(* clients' key stores (client/e2e.go).                                    *)
(*                                                                         *)
(* A generation is its id: ids come from a database sequence and are never *)
(* given out twice.  All work on the cache and the rows of a scope is done *)
(* under its entry's mutex and is one step here, with every way it can     *)
(* fail.  What a goroutine does between two such sections interleaves.     *)
(* Subscribers of the channel that are not members, and the archival       *)
(* cache, which only repeats rows, are left out.                           *)
(***************************************************************************)
EXTENDS Integers, FiniteSets, FiniteSetsExt

CONSTANTS
    Clients,
    NoClient,
    Conns,       \* goroutines that serve connections
    Timers,      \* callbacks of rotation timers
    Windows,     \* whether chat_key_rotate_min_seconds is positive: the choices
    MaxCalls,    \* bound on joins and plaintext messages
    MaxFaults    \* bound on database and connection failures

ASSUME NoClientAssumption == NoClient \notin Clients
ASSUME ProcessAssumption == Conns \cap Timers = {}
ASSUME WindowAssumption == Windows \subseteq BOOLEAN
ASSUME BoundAssumption == MaxCalls \in Nat /\ MaxFaults \in Nat

Procs == Conns \cup Timers

VARIABLES
    window,    \* the configured choice
    keys,      \* [next: the sequence, rows: the generations in the database,
               \*  live: the one not retired or 0, loaded and cur: the cache]
    stored,    \* the generations stored messages are sealed under
    members,   \* the members of the channel
    latest,    \* latest[c]: the generation c sends under, 0 for none
    pending,   \* rotPending of the channel
    armed,     \* a rotation timer runs
    pc,        \* pc[p]: what p does next
    at,        \* at[p]: the client p serves
    gen,       \* gen[p]: the generation p delivers
    todo,      \* todo[p]: the members p has yet to serve
    lane,      \* the goroutines in a lifecycle callback of the channel
    owed,      \* how members left since a rotation was last attempted
    missed,    \* clients a delivery to whom failed
    calls, faults

procVars == <<pc, at, gen, todo, lane>>
rotVars  == <<pending, armed, owed>>
vars     == <<window, keys, stored, members, latest, procVars, rotVars, missed, calls, faults>>

Init ==
    /\ window \in Windows
    /\ keys = [next |-> 1, rows |-> {}, live |-> 0, loaded |-> FALSE, cur |-> 0]
    /\ stored = {}
    /\ members = {}
    /\ latest = [c \in Clients |-> 0]
    /\ pending = FALSE /\ armed = FALSE
    /\ pc = [p \in Procs |-> "idle"]
    /\ at = [p \in Procs |-> NoClient]
    /\ gen = [p \in Procs |-> 0]
    /\ todo = [p \in Procs |-> {}]
    /\ lane = {}
    /\ owed = {}
    /\ missed = {}
    /\ calls = 0 /\ faults = 0

-----------------------------------------------------------------------------
(* The key manager.  An answer is [ok, faulty, keys]: the call succeeded or *)
(* not, because of a failure or not, and what it leaves.                    *)

Answer(ok, faulty, k) == [ok |-> ok, faulty |-> faulty, keys |-> k]

\* loadLocked
Loaded == [keys EXCEPT !.loaded = TRUE, !.cur = IF keys.loaded THEN @ ELSE keys.live]
LoadAnswers == {Answer(TRUE, FALSE, Loaded)} \cup
               IF keys.loaded THEN {} ELSE {Answer(FALSE, TRUE, keys)}

\* Mutant: the next id is not taken from the sequence.
AllocatedInMemory(k) == k

\* AllocScopeKeyID
Allocated(k) == [k EXCEPT !.next = @ + 1]

\* Mutant: the cache is filled before the row is written.
NotInstalledCached(k) == [Allocated(k) EXCEPT !.cur = k.next]

\* The row was not written.
NotInstalled(k) == Allocated(k)

\* mintLocked, and the rest of rotate.  Without a cached generation the row
\* is inserted, and the index over live rows rejects a second one; with one,
\* whatever is live is retired in the same transaction.  The statement or
\* the commit may fail, and may have taken effect all the same.
InstallAnswers(k) ==
    LET row == [Allocated(k) EXCEPT !.rows = @ \cup {k.next}, !.live = k.next] IN
    IF k.cur = 0 /\ k.live # 0 THEN {Answer(FALSE, FALSE, NotInstalled(k))}
    ELSE {Answer(TRUE, FALSE, [row EXCEPT !.cur = k.next]),
          Answer(FALSE, TRUE, k),
          Answer(FALSE, TRUE, NotInstalled(k)),
          Answer(FALSE, TRUE, row)}

After(answers, Continue(_)) ==
    UNION {IF a.ok THEN Continue(a.keys) ELSE {a} : a \in answers}

EnsureScope ==
    After(LoadAnswers, LAMBDA k : IF k.cur # 0 THEN {Answer(TRUE, FALSE, k)} ELSE InstallAnswers(k))

rotate == After(LoadAnswers, InstallAnswers)

\* A call of the key manager; failures are rationed.
Call(answers, a) ==
    /\ a \in answers
    /\ a.faulty => faults < MaxFaults
    /\ faults' = IF a.faulty THEN faults + 1 ELSE faults
    /\ keys' = a.keys

-----------------------------------------------------------------------------
(* Members come and go.  Moves run their callback under the lifecycle lock  *)
(* of the channel; a disconnect releases it before it asks for a rotation.  *)

\* moveClient, into the channel: the member is committed, its key follows.
Join(p, c) ==
    /\ pc[p] = "idle" /\ lane = {} /\ c \notin members
    /\ calls < MaxCalls
    /\ calls' = calls + 1
    /\ members' = members \cup {c}
    /\ missed' = missed \ {c}
    /\ lane' = {p}
    /\ pc' = [pc EXCEPT ![p] = "serve"]
    /\ todo' = [todo EXCEPT ![p] = {c}]
    /\ UNCHANGED <<window, keys, stored, latest, at, gen, rotVars, faults>>

\* moveClient, out of the channel, and onDisconnect.  The key store of a
\* client does not outlive its connection.
Leave(p, c, how) ==
    /\ pc[p] = "idle" /\ lane = {} /\ c \in members
    /\ members' = members \ {c}
    /\ latest' = IF how = "disconnect" THEN [latest EXCEPT ![c] = 0] ELSE latest
    /\ owed' = owed \cup {how}
    /\ lane' = IF how = "move" THEN {p} ELSE {}
    /\ pc' = [pc EXCEPT ![p] = "request"]
    /\ UNCHANGED <<window, keys, stored, at, gen, todo, pending, armed, missed, calls, faults>>

\* performKick, from the channel.
Kick(p, c) ==
    /\ pc[p] = "idle" /\ lane = {} /\ c \in members
    /\ members' = members \ {c}
    /\ owed' = owed \cup {"kick"}
    /\ UNCHANGED <<window, keys, stored, latest, procVars, pending, armed, missed, calls, faults>>

-----------------------------------------------------------------------------
(* Rotation. *)

Done(p) ==
    /\ pc' = [pc EXCEPT ![p] = "idle"]
    /\ lane' = lane \ {p}

\* rotateScopeKey: leaves within the window share a timer.
rotateScopeKey(p) ==
    /\ pc[p] = "request"
    /\ IF window
       THEN /\ Done(p)
            /\ pending' = TRUE
            /\ armed' = (armed \/ ~pending)
       ELSE /\ pc' = [pc EXCEPT ![p] = "rotate"]
            /\ UNCHANGED <<lane, pending, armed>>
    /\ UNCHANGED <<window, keys, stored, members, latest, at, gen, todo, owed, missed, calls, faults>>

\* Mutant: the timer does not give up the flag.
PendingAfterFireKept == TRUE

PendingAfterFire == FALSE

\* The timer fires: the flag goes before the rotation starts.
Fire(t) ==
    /\ pc[t] = "idle" /\ armed
    /\ armed' = FALSE
    /\ pending' = PendingAfterFire
    /\ pc' = [pc EXCEPT ![t] = "rotate"]
    /\ UNCHANGED <<window, keys, stored, members, latest, at, gen, todo, lane, owed, missed, calls, faults>>

\* doRotateScopeKey: the rotation.  A failure leaves the old key in use.
doRotateScopeKey(p) ==
    /\ pc[p] = "rotate"
    /\ \E a \in rotate :
         /\ Call(rotate, a)
         /\ IF a.ok
            THEN pc' = [pc EXCEPT ![p] = "members"] /\ UNCHANGED lane
            ELSE Done(p)
    /\ owed' = {}
    /\ UNCHANGED <<window, stored, members, latest, at, gen, todo, pending, armed, missed, calls>>

\* doRotateScopeKey: the members, as they are now, are to be served.
ChannelMembers(p) ==
    /\ pc[p] = "members"
    /\ todo' = [todo EXCEPT ![p] = members]
    /\ pc' = [pc EXCEPT ![p] = "serve"]
    /\ UNCHANGED <<window, keys, stored, members, latest, at, gen, lane, rotVars, missed, calls, faults>>

\* deliverScopeKey, for the next member: the current generation, which may
\* have to be minted.  A failed delivery is logged.
deliverScopeKey(p, c) ==
    /\ pc[p] = "serve" /\ c \in todo[p]
    /\ todo' = [todo EXCEPT ![p] = @ \ {c}]
    /\ \E a \in EnsureScope :
         /\ Call(EnsureScope, a)
         /\ IF a.ok
            THEN /\ pc' = [pc EXCEPT ![p] = "write"]
                 /\ at' = [at EXCEPT ![p] = c]
                 /\ gen' = [gen EXCEPT ![p] = a.keys.cur]
                 /\ UNCHANGED missed
            ELSE /\ missed' = missed \cup {c}
                 /\ UNCHANGED <<pc, at, gen>>
    /\ UNCHANGED <<window, stored, members, latest, lane, rotVars, calls>>

\* Mutant: the client sends under the key that arrived last.
PutLastArrived(c, g) == g

\* scopeKeyStore.put: the send generation only advances.
Put(c, g) == Max({latest[c], g})

\* The sealed key is written to the connection, which may fail.
WriteKey(p) ==
    LET c == at[p] IN
    /\ pc[p] = "write"
    /\ \/ /\ latest' = [latest EXCEPT ![c] = Put(c, gen[p])]
          /\ UNCHANGED <<missed, faults>>
       \/ /\ faults < MaxFaults
          /\ faults' = faults + 1
          /\ missed' = missed \cup {c}
          /\ UNCHANGED latest
    /\ pc' = [pc EXCEPT ![p] = "serve"]
    /\ at' = [at EXCEPT ![p] = NoClient]
    /\ gen' = [gen EXCEPT ![p] = 0]
    /\ UNCHANGED <<window, keys, stored, members, todo, lane, rotVars, calls>>

\* Everyone has been served.
Served(p) ==
    /\ pc[p] = "serve" /\ todo[p] = {}
    /\ Done(p)
    /\ UNCHANGED <<window, keys, stored, members, latest, at, gen, todo, rotVars, missed, calls, faults>>

-----------------------------------------------------------------------------
(* Messages. *)

\* handleChatSend with a sealed message: it is stored under the generation the
\* client named if that is the current one, and refused as stale otherwise.
handleChatSend(c) ==
    /\ c \in members /\ latest[c] # 0
    /\ \E a \in LoadAnswers :
         /\ Call(LoadAnswers, a)
         /\ stored' = IF a.ok /\ a.keys.cur = latest[c] THEN stored \cup {latest[c]} ELSE stored
    /\ UNCHANGED <<window, members, latest, procVars, rotVars, missed, calls>>

\* routeScopedChat with a plaintext message, where those are allowed: the
\* server seals it, minting the first generation if need be.
SendPlain(c) ==
    /\ c \in members
    /\ calls < MaxCalls
    /\ calls' = calls + 1
    /\ \E a \in EnsureScope :
         /\ Call(EnsureScope, a)
         /\ stored' = IF a.ok THEN stored \cup {a.keys.cur} ELSE stored
    /\ UNCHANGED <<window, members, latest, procVars, rotVars, missed>>

\* The server stops and starts, with the configuration of the day:
\* connections, timers and the cache are gone.
Restart ==
    /\ faults < MaxFaults
    /\ window' \in Windows
    /\ faults' = faults + 1
    /\ keys' = [keys EXCEPT !.loaded = FALSE, !.cur = 0]
    /\ members' = {}
    /\ latest' = [c \in Clients |-> 0]
    /\ pending' = FALSE /\ armed' = FALSE
    /\ pc' = [p \in Procs |-> "idle"]
    /\ at' = [p \in Procs |-> NoClient]
    /\ gen' = [p \in Procs |-> 0]
    /\ todo' = [p \in Procs |-> {}]
    /\ lane' = {}
    /\ owed' = {}
    /\ missed' = {}
    /\ UNCHANGED <<stored, calls>>

Step(p) ==
    \/ rotateScopeKey(p) \/ doRotateScopeKey(p) \/ ChannelMembers(p)
    \/ \E c \in Clients : deliverScopeKey(p, c)
    \/ WriteKey(p) \/ Served(p)

Next ==
    \/ \E p \in Conns, c \in Clients :
         Join(p, c) \/ Kick(p, c) \/ \E how \in {"move", "disconnect"} : Leave(p, c, how)
    \/ \E t \in Timers : Fire(t)
    \/ \E p \in Procs : Step(p)
    \/ \E c \in Clients : handleChatSend(c) \/ SendPlain(c)
    \/ Restart

Spec == Init /\ [][Next]_vars

\* Goroutines run and timers fire.
FairSpec ==
    /\ Spec
    /\ \A p \in Procs : WF_vars(Step(p))
    /\ \A t \in Timers : WF_vars(Fire(t))

-----------------------------------------------------------------------------
(* Properties. *)

\* The types.  At most one row is live and every row has an id the sequence
\* has given out, so that no id can be given to a second key.
TypeOK ==
    /\ window \in Windows
    /\ keys.next \in Nat
    /\ keys.rows \subseteq 1..(keys.next - 1)
    /\ keys.live \in keys.rows \cup {0}
    /\ keys.cur \in Nat /\ keys.loaded \in BOOLEAN
    /\ members \subseteq Clients /\ missed \subseteq Clients
    /\ latest \in [Clients -> Nat]
    /\ {pending, armed} \subseteq BOOLEAN
    /\ pc \in [Procs -> {"idle", "request", "rotate", "members", "serve", "write"}]
    /\ \A p \in Procs : pc[p] = "write" <=> at[p] # NoClient
    /\ lane \subseteq Conns /\ Cardinality(lane) <= 1

\* No message is ever stored under a generation that is not in the database,
\* where it would stay unreadable after a restart: whatever statement fails
\* or half succeeds, the server and its clients only use keys that last.
HistoryOpens ==
    /\ stored \subseteq keys.rows
    /\ keys.cur \in keys.rows \cup {0}
    /\ \A c \in Clients : latest[c] \in keys.rows \cup {0}

\* A rotation is on its way.
Rotating == armed \/ \E p \in Procs : pc[p] \in {"request", "rotate"}

\* The leaves that are coalesced are not lost: after a member has moved away
\* or disconnected, a rotation that starts later is always on its way.  (A
\* kick asks for none: performKick leaves the generation in use.)
LeavesAreNotLost == owed \ {"kick"} # {} => Rotating

\* A member whose deliveries succeed is served: it can send under the
\* current generation, or somebody is about to give it that.
MembersAreServed ==
    \A c \in members \ missed :
        \/ latest[c] = keys.cur
        \/ \E p \in Procs :
             \/ pc[p] = "members"
             \/ pc[p] \in {"serve", "write"} /\ c \in todo[p]
             \/ at[p] = c /\ gen[p] = keys.cur

\* Once nobody is under way any more, every leave has been answered.
LeavesAreAnswered ==
    \A how \in {"move", "disconnect"} : how \in owed ~> how \notin owed

\* "EnsureScope returns the scope's current generation, MINTING generation 1
\* when the scope has none" (server/chatkeys.go:207): the cache does not say
\* that there is none while there is one.
EnsureFindsTheGeneration == keys.loaded /\ keys.cur = 0 => keys.live = 0
=============================================================================
