--------------------------- MODULE ChannelManager ---------------------------
(***************************************************************************)
(* The channel lifecycle (internal/channels/manager.go): goroutines that   *)
(* create, delete, re-parent, retype and edit channels and move clients    *)
(* between them, over the channels table, its in-memory mirror (the        *)
(* StateManager) and the timers that delete empty temporary channels.      *)
(*                                                                         *)
(* treeMu is a readers-writer lock.  An operation that holds it for        *)
(* reading runs in steps that interleave with the other readers; one that  *)
(* holds it for writing (subtree deletion, re-parenting, a cleanup         *)
(* callback) excludes all others and is one step.  Readers take a client   *)
(* lock, then channel locks in ascending order.                            *)
(*                                                                         *)
(* A timer token is compared for equality only, so a generation number is  *)
(* used again once no running timer and no late callback carries it.       *)
(***************************************************************************)
EXTENDS Integers, FiniteSets, Sequences

CONSTANTS
    Clients, Channels, ChannelTypes,    \* of StateManager
    NoClient,
    Workers,         \* goroutines running an operation of the manager
    Ops,             \* the operations that are requested
    Faults,          \* database faults: {"error", "ambiguous", "unconfirmed"}
    Gens,            \* timer generations: bounds the late callbacks of a channel
    MaxChannelDepth, \* maxChannelDepth
    MaxFaults, MaxRestarts,   \* bounds on the faults and the restarts of a run
    InitRows, InitParent, InitType  \* the channels table at the first start

ASSUME NoClientAssumption == NoClient \notin Clients
ASSUME ChannelIdsAssumption == Channels \subseteq Nat \ {0}
ASSUME GensAssumption == Gens \subseteq Nat \ {0} /\ Gens # {}
ASSUME InitRowsAssumption ==
    /\ InitRows \subseteq Channels
    /\ InitRows = 1..Cardinality(InitRows)
    /\ InitParent \in [Channels -> InitRows \cup {0}]
    /\ InitType \in [Channels -> ChannelTypes]

VARIABLES
    clients, clientChannel, isSpeaking, channels, parent, ctype, count,
    membership, speaking, subs, subsByChannel,  \* the StateManager
    rows, rowParent, rowType,   \* the channels table
    nextId,                     \* its id sequence
    timers,     \* timers[ch]: generation of the active cleanup token, 0 = none
    scheduled,  \* tokens whose runtime timer has not fired
    fired,      \* tokens whose callback runs but has not asked for treeMu
    waiting,    \* tokens whose callback waits for treeMu
    pc, job,    \* program counter and locals of each worker
    suspect,    \* channels an operation reported an unresolved failure about
    faults, restarts    \* how many there were

state == INSTANCE StateManager

registry  == <<clients, clientChannel, isSpeaking, channels, parent, ctype, count,
               membership, speaking, subs, subsByChannel>>
table     == <<rows, rowParent, rowType, nextId>>
timerVars == <<timers, scheduled, fired, waiting>>
workers   == <<pc, job>>
bounds    == <<faults, restarts>>
vars      == <<registry, table, timerVars, workers, suspect, bounds>>

Temporary == 0
ChannelOrNone == Channels \cup {0}

Idle == [op |-> "none", c |-> NoClient, ch |-> 0, p |-> 0, t |-> Temporary, old |-> 0,
         need |-> {}, held |-> {}, todo |-> <<>>, start |-> FALSE]

-----------------------------------------------------------------------------
(* The channel tree and the timers. *)

\* The channels of chs reachable from root along child edges, root included
\* when it is one of them.
Subtree(root, chs, par) ==
    {d \in chs : \A S \in SUBSET (chs \cup {root}) :
        root \in S /\ (\A x \in chs : par[x] \in S => x \in S) => d \in S}

Leaf(ch, chs, par) == \A d \in chs \ {ch} : par[d] # ch

\* The proper ancestors of ch in the table.
Ancestors(ch) == {a \in rows \ {ch} : ch \in Subtree(a, rows, rowParent)}

\* Mutant: occupied channels count as empty.
EligibleWithMembers(chs, par, typ) ==
    {ch \in chs : typ[ch] = Temporary /\ Leaf(ch, chs, par)}

\* The channels a cleanup watcher belongs to: temporary, empty, childless.
Eligible(chs, par, typ) ==
    {ch \in chs : /\ typ[ch] = Temporary
                  /\ membership[ch] \cap clients = {}
                  /\ Leaf(ch, chs, par)}

Outstanding(ch) == {g \in Gens : <<ch, g>> \in fired \cup waiting}
FreshGen(ch) == CHOOSE g \in Gens : g \notin Outstanding(ch)

CurrentTimers == [timers |-> timers, scheduled |-> scheduled]

\* Timer ownership after the channels of S were reconciled: those in E get a
\* new token, the others lose theirs, and Stop keeps a running timer from
\* firing.
Reconciled(T, S, E) ==
    [timers |-> [ch \in Channels |->
                    IF ch \in S
                    THEN IF ch \in E THEN FreshGen(ch) ELSE 0
                    ELSE T.timers[ch]],
     scheduled |-> {x \in T.scheduled : x[1] \notin S}
                       \cup {<<ch, FreshGen(ch)>> : ch \in S \cap E}]

SetTimers(T) ==
    /\ timers' = T.timers
    /\ scheduled' = T.scheduled

-----------------------------------------------------------------------------
(* Workers and locks. *)

\* LoadIntoState registers the whole table, then gives the empty temporary
\* leaves their tokens.
FirstGen == CHOOSE g \in Gens : TRUE
LoadedTimers(chs, par, typ) ==
    LET E == {ch \in chs : typ[ch] = Temporary /\ Leaf(ch, chs, par)}
    IN  [timers |-> [ch \in Channels |-> IF ch \in E THEN FirstGen ELSE 0],
         scheduled |-> E \X {FirstGen}]

Init ==
    /\ rows = InitRows
    /\ rowParent = InitParent
    /\ rowType = InitType
    /\ nextId = Cardinality(InitRows) + 1
    /\ channels = InitRows
    /\ parent = InitParent
    /\ ctype = InitType
    /\ timers = LoadedTimers(rows, rowParent, rowType).timers
    /\ scheduled = LoadedTimers(rows, rowParent, rowType).scheduled
    /\ clients = {}
    /\ clientChannel = [c \in Clients |-> 0]
    /\ isSpeaking = {}
    /\ count = [ch \in Channels |-> 0]
    /\ membership = [ch \in Channels |-> {}]
    /\ speaking = [c \in Clients |-> -1]
    /\ subs = [c \in Clients |-> {}]
    /\ subsByChannel = [ch \in Channels |-> {}]
    /\ fired = {}
    /\ waiting = {}
    /\ pc = [w \in Workers |-> "idle"]
    /\ job = [w \in Workers |-> Idle]
    /\ suspect = {}
    /\ faults = 0
    /\ restarts = 0

\* Mutant: the locks are released before the callbacks run.
ReadersEarlyRelease == {w \in Workers : pc[w] \notin {"idle", "wlock", "after", "op"}}

\* The holders of treeMu for reading.
Readers == {w \in Workers : pc[w] \notin {"idle", "wlock"}}
WriterWaits == waiting # {} \/ \E w \in Workers : pc[w] = "wlock"

\* A writer may have treeMu.
Exclusive == Readers = {}

\* The database fails in way f.
Fault(f) ==
    /\ f \in Faults
    /\ faults < MaxFaults
    /\ faults' = faults + 1

Set(w, next, j) ==
    /\ pc' = [pc EXCEPT ![w] = next]
    /\ job' = [job EXCEPT ![w] = j]

\* Every deferred unlock runs.
Finish(w) == Set(w, "idle", Idle)

\* After the registry is changed the timer chores of the operation run in
\* order; a move then runs its afterMove callback, still under its locks.
Chores(w, todo) ==
    IF todo # <<>> THEN Set(w, "timers", [job[w] EXCEPT !.todo = todo])
    ELSE IF job[w].op = "move" THEN Set(w, "after", [job[w] EXCEPT !.todo = todo])
    ELSE Finish(w)

Reconcile(ch) == <<"reconcile", ch>>
Cancel(ch)    == <<"cancel", ch>>
ReconcileIf(ch) == IF ch = 0 THEN <<>> ELSE <<Reconcile(ch)>>

\* treeMu.RLock: a waiting writer holds new readers back.
RLock(w) == pc[w] = "idle" /\ ~WriterWaits

BeginClientOp(w, op, c, ch) ==
    /\ op \in Ops
    /\ RLock(w)
    /\ c \in clients
    /\ Set(w, "client", [Idle EXCEPT !.op = op, !.c = c, !.ch = ch])
    /\ UNCHANGED <<registry, table, timerVars, suspect, bounds>>

\* As many creations start as there are ids left in the bounded sequence.
BeginCreate(w, p, t) ==
    /\ "create" \in Ops
    /\ nextId + Cardinality({v \in Workers : pc[v] = "insert"}) \in Channels
    /\ RLock(w)
    /\ Set(w, "insert", [Idle EXCEPT !.op = "create", !.p = p, !.t = t])
    /\ UNCHANGED <<registry, table, timerVars, suspect, bounds>>

BeginChannelOp(w, op, ch, t) ==
    /\ op \in Ops
    /\ RLock(w)
    /\ Set(w, "channels", [Idle EXCEPT !.op = op, !.ch = ch, !.t = t, !.need = {ch}])
    /\ UNCHANGED <<registry, table, timerVars, suspect, bounds>>

\* treeMu.Lock: the worker waits until the readers are gone.
BeginTreeOp(w, op, ch, p) ==
    /\ op \in Ops
    /\ pc[w] = "idle"
    /\ Set(w, "wlock", [Idle EXCEPT !.op = op, !.ch = ch, !.p = p])
    /\ UNCHANGED <<registry, table, timerVars, suspect, bounds>>

ClientLocked(c) == \E v \in Workers : job[v].c = c /\ pc[v] # "client"

\* Where an operation goes once it has its channel locks.
Locked(op) ==
    CASE op \in {"move", "leave", "remove", "lifecycle"} -> "mutate"
      [] op \in {"settype", "edit"} -> "commit"
      [] op = "create" -> "timers"

\* clientLocks.lock and the read of the client's channel.
LockClient(w) ==
    LET j == job[w]
        old == clientChannel[j.c]
        need == {old, j.ch} \ {0}
    IN  /\ pc[w] = "client"
        /\ ~ClientLocked(j.c)
        /\ IF j.c \notin clients \/ (j.op = "leave" /\ old = 0)
           THEN Finish(w)
           ELSE Set(w, IF need = {} THEN Locked(j.op) ELSE "channels",
                    [j EXCEPT !.old = old, !.need = need])
        /\ UNCHANGED <<registry, table, timerVars, suspect, bounds>>

\* Mutant: the lock is not exclusive.
LockChannelShared(w) ==
    LET j == job[w] IN
    /\ pc[w] = "channels"
    /\ Set(w, Locked(j.op), [j EXCEPT !.held = j.need])
    /\ UNCHANGED <<registry, table, timerVars, suspect, bounds>>

\* Mutant: the locks are taken in any order.
LockOrderAny(ch, rest) == TRUE

LockOrder(ch, rest) == \A d \in rest : ch <= d

\* lockChannels: one lock at a time, the smallest id first.
LockChannel(w) ==
    LET j == job[w] IN
    /\ pc[w] = "channels"
    /\ \E ch \in j.need \ j.held :
        /\ LockOrder(ch, j.need \ j.held)
        /\ \A v \in Workers : ch \notin job[v].held
        /\ LET held == j.held \cup {ch} IN
           Set(w, IF held = j.need THEN Locked(j.op) ELSE "channels",
               [j EXCEPT !.held = held])
    /\ UNCHANGED <<registry, table, timerVars, suspect, bounds>>

-----------------------------------------------------------------------------
(* The operations that hold treeMu for reading. *)

\* MoveClientWithLifecycle, LeaveClient, RemoveClient and WithChannelLifecycle
\* under their locks.
Mutate(w) ==
    LET j == job[w] IN
    /\ pc[w] = "mutate"
    /\ \/ /\ j.op = "move"
          /\ j.c \in clients /\ j.ch \in channels
          /\ \/ state!MoveClient(j.c, j.ch)
             \/ clientChannel[j.c] = j.ch /\ UNCHANGED registry
          /\ Chores(w, <<Cancel(j.ch)>> \o
                       IF j.old # j.ch THEN ReconcileIf(j.old) ELSE <<>>)
       \/ /\ j.op = "leave"
          /\ state!LeaveChannel(j.c)
          /\ Chores(w, <<Reconcile(j.old)>>)
       \/ /\ j.op = "remove"
          /\ state!RemoveClient(j.c)
          /\ Chores(w, ReconcileIf(clientChannel[j.c]))
       \/ /\ j.op = "lifecycle"
          /\ j.ch \in channels
          /\ Set(w, "op", j)
          /\ UNCHANGED registry
       \/ /\ \/ j.op \in {"move", "leave", "remove"} /\ j.c \notin clients
             \/ j.op = "leave" /\ clientChannel[j.c] = 0
             \/ j.op \in {"move", "lifecycle"} /\ j.ch \notin channels
          /\ Finish(w)
          /\ UNCHANGED registry
    /\ UNCHANGED <<table, timerVars, suspect, bounds>>

\* afterMove, and the operation passed to WithChannelLifecycle, end; neither
\* may call the manager back.
EndCallback(w) ==
    /\ pc[w] \in {"after", "op"}
    /\ Finish(w)
    /\ UNCHANGED <<registry, table, timerVars, suspect, bounds>>

\* One timer chore: a cancellation, or the reads of
\* reconcileCleanupWatcherLocked, which acts on them in a later step.
Timers(w) ==
    LET j == job[w]
        chore == Head(j.todo)[1]
        ch == Head(j.todo)[2]
    IN  /\ pc[w] = "timers"
        /\ \/ /\ chore = "cancel"
              /\ SetTimers(Reconciled(CurrentTimers, {ch}, {}))
              /\ Chores(w, Tail(j.todo))
           \/ /\ chore = "reconcile"
              /\ Set(w, "apply", [j EXCEPT !.start = ch \in Eligible(channels, parent, ctype)])
              /\ UNCHANGED <<timers, scheduled>>
        /\ UNCHANGED <<registry, table, fired, waiting, suspect, bounds>>

\* startCleanupWatcherLocked or cancelCleanupLocked.
ApplyTimer(w) ==
    LET j == job[w]
        ch == Head(j.todo)[2]
    IN  /\ pc[w] = "apply"
        /\ SetTimers(Reconciled(CurrentTimers, {ch}, IF j.start THEN {ch} ELSE {}))
        /\ Chores(w, Tail(j.todo))
        /\ UNCHANGED <<registry, table, fired, waiting, suspect, bounds>>

InsertRow(id, p, t) ==
    /\ rows' = rows \cup {id}
    /\ rowParent' = [rowParent EXCEPT ![id] = p]
    /\ rowType' = [rowType EXCEPT ![id] = t]
    /\ nextId' = nextId + 1

\* CreateChannel: the parent check and the INSERT.  An INSERT whose outcome is
\* unknown is reported as a failure and leaves the registry as it was.
Insert(w) ==
    LET j == job[w] IN
    /\ pc[w] = "insert"
    /\ \/ /\ j.p = 0 \/ j.p \in rows
          /\ InsertRow(nextId, j.p, j.t)
          /\ \/ /\ Set(w, "add", [j EXCEPT !.ch = nextId])
                /\ UNCHANGED <<suspect, faults>>
             \/ /\ Fault("ambiguous")
                /\ Finish(w)
                /\ suspect' = suspect \cup ({nextId, j.p} \ {0})
       \/ /\ (j.p \notin rows \cup {0} /\ UNCHANGED faults) \/ Fault("error")
          /\ Finish(w)
          /\ UNCHANGED <<table, suspect>>
    /\ UNCHANGED <<registry, timerVars, restarts>>

\* Mutant: the parent of a new channel keeps its token.
NewEdgeChoresChildOnly(ch, p) == <<Reconcile(ch)>>

\* Both ends of a new tree edge are reconciled.
NewEdgeChores(ch, p) == <<Reconcile(ch)>> \o ReconcileIf(p)

\* CreateChannel: the registration, before the locks of the new edge.
Register(w) ==
    LET j == job[w] IN
    /\ pc[w] = "add"
    /\ state!AddChannel(j.ch, j.p, j.t)
    /\ Set(w, "channels",
           [j EXCEPT !.need = {j.ch, j.p} \ {0},
                     !.todo = NewEdgeChores(j.ch, j.p)])
    /\ UNCHANGED <<table, timerVars, suspect, bounds>>

\* SetChannelType, and an UpdateChannel that does not move the channel: the
\* transaction.  An edit changes only columns the model leaves out.
Commit(w) ==
    LET j == job[w]
        Write == rowType' = IF j.op = "settype" THEN [rowType EXCEPT ![j.ch] = j.t]
                            ELSE rowType
    IN  /\ pc[w] = "commit"
        /\ \/ /\ j.ch \in rows
              /\ Write
              /\ Set(w, "mirror", j)
              /\ UNCHANGED faults
           \/ /\ j.ch \in rows
              /\ Fault("ambiguous")
              /\ Write \/ UNCHANGED rowType
              /\ Set(w, "reload", j)
           \/ /\ (j.ch \notin rows /\ UNCHANGED faults) \/ Fault("error")
              /\ Finish(w)
              /\ UNCHANGED rowType
        /\ UNCHANGED <<registry, rows, rowParent, nextId, timerVars, suspect, restarts>>

\* Mutants: the parent, or the type, is missing in the patch.
MirrorRowWithoutParent(ch, p, t) ==
    IF ch \in channels THEN state!UpdateChannel(ch, parent[ch], t)
    ELSE state!AddChannel(ch, p, t)
MirrorRowWithoutType(ch, p, t) ==
    IF ch \in channels THEN state!UpdateChannel(ch, p, ctype[ch])
    ELSE state!AddChannel(ch, p, t)

\* A row copied into the registry (mirrorPersistedChannel).
MirrorRow(ch, p, t) ==
    IF ch \in channels THEN state!UpdateChannel(ch, p, t)
    ELSE state!AddChannel(ch, p, t)

\* A reload that fails cancels the timer of a retyped channel and leaves the
\* timer of an edited one.
ReloadFails(w) ==
    /\ Fault("unconfirmed")
    /\ Chores(w, IF job[w].op = "settype" THEN <<Cancel(job[w].ch)>> ELSE <<>>)
    /\ suspect' = suspect \cup {job[w].ch}
    /\ UNCHANGED registry

\* mirrorChannelUpdate patches the registry, or reloads the row of a channel
\* the registry does not know.
Mirror(w) ==
    LET j == job[w] IN
    /\ pc[w] = "mirror"
    /\ \/ /\ j.ch \in channels
          /\ IF j.op = "settype"
             THEN state!UpdateChannel(j.ch, parent[j.ch], j.t)
             ELSE UNCHANGED registry
          /\ Chores(w, IF j.op = "settype" THEN <<Reconcile(j.ch)>> ELSE <<>>)
          /\ UNCHANGED <<suspect, faults>>
       \/ /\ j.ch \notin channels
          /\ \/ /\ MirrorRow(j.ch, rowParent[j.ch], rowType[j.ch])
                /\ Chores(w, <<Reconcile(j.ch)>>)
                /\ UNCHANGED <<suspect, faults>>
             \/ ReloadFails(w)
    /\ UNCHANGED <<table, timerVars, restarts>>

\* After a commit of unknown outcome the row decides.
Reload(w) ==
    LET j == job[w] IN
    /\ pc[w] = "reload"
    /\ \/ /\ MirrorRow(j.ch, rowParent[j.ch], rowType[j.ch])
          /\ Chores(w, <<Reconcile(j.ch)>>)
          /\ UNCHANGED <<suspect, faults>>
       \/ ReloadFails(w)
    /\ UNCHANGED <<table, timerVars, restarts>>

-----------------------------------------------------------------------------
(* The operations that hold treeMu for writing. *)

\* Mutant: a cleanup that failed is not tried again.
RetriesNever(failed, retry) == FALSE

\* A cleanup callback that met an error asks for a new token.
Retries(failed, retry) == failed /\ retry

\* deleteChannelLocked for the channel ch, with timer ownership T.  The ids
\* come from the table and from the registry.  A registered descendant that
\* the table has elsewhere is repaired, one that the table lacks goes with the
\* subtree.  An error with a failed confirmation leaves everyone guessing.
DeleteSubtree(ch, T, retry) ==
    LET dbIds    == IF ch \in rows THEN Subtree(ch, rows, rowParent) ELSE {}
        stateIds == Subtree(ch, channels, parent)
        live     == (stateIds \ dbIds) \cap rows
        missing  == (stateIds \ dbIds) \ rows
        doomed   == dbIds \cup missing
        up       == IF dbIds # {} THEN rowParent[ch]
                    ELSE IF ch \in channels THEN parent[ch] ELSE 0
        par(R)   == [d \in Channels |-> IF d \in R THEN rowParent[d] ELSE parent[d]]
        typ(R)   == [d \in Channels |-> IF d \in R THEN rowType[d] ELSE ctype[d]]
        touched  == (live \cup {rowParent[d] : d \in live} \cup {parent[d] : d \in live}) \ {0}
        repaired == Reconciled(T, touched, Eligible(channels, par(live), typ(live)))
        \* The registry keeps its channels, the parents of R are repaired, and
        \* the outcome is an error (failed) or ErrChannelNotFound.
        Stop(R, U, failed) ==
            /\ parent' = par(R)
            /\ ctype' = typ(R)
            /\ SetTimers(IF Retries(failed, retry)
                         THEN Reconciled(U, {ch}, Eligible(channels, par(R), typ(R)))
                         ELSE U)
            /\ UNCHANGED <<clients, clientChannel, isSpeaking, channels, count,
                           membership, speaking, subs, subsByChannel>>
        DropRows ==
            /\ rows' = rows \ dbIds
            /\ rowParent' = [d \in Channels |-> IF d \in dbIds THEN 0 ELSE rowParent[d]]
            /\ rowType' = [d \in Channels |-> IF d \in dbIds THEN Temporary ELSE rowType[d]]
            /\ UNCHANGED nextId
    IN  \/ /\ doomed = {}
           /\ Stop(live, repaired, FALSE)
           /\ UNCHANGED <<table, suspect, faults>>
        \/ /\ Fault("error")
           /\ \/ Stop({}, T, TRUE)
              \/ /\ stateIds \ dbIds # {}
                 /\ \E R \in SUBSET live : Stop(R, T, TRUE)
              \/ dbIds # {} /\ Stop(live, repaired, TRUE)
           /\ UNCHANGED <<table, suspect>>
        \/ /\ doomed # {}
           /\ Fault("unconfirmed")
           /\ Stop(live, repaired, TRUE)
           /\ DropRows \/ UNCHANGED table
           /\ suspect' = suspect \cup doomed \cup ({up} \ {0})
        \/ /\ doomed # {}
           /\ DropRows
           /\ state!RemoveEntries(doomed)
           /\ parent' = [d \in Channels |-> IF d \in doomed THEN 0 ELSE par(live)[d]]
           /\ ctype' = [d \in Channels |-> IF d \in doomed THEN Temporary ELSE typ(live)[d]]
           /\ SetTimers(Reconciled(Reconciled(repaired, doomed, {}), {up} \ {0},
                                   Eligible(channels, parent, ctype)'))
           /\ UNCHANGED <<suspect, faults>>

\* DeleteChannelSubtree.
Delete(w) ==
    /\ pc[w] = "wlock" /\ job[w].op = "delete"
    /\ Exclusive
    /\ DeleteSubtree(job[w].ch, CurrentTimers, FALSE)
    /\ Finish(w)
    /\ UNCHANGED <<fired, waiting, restarts>>

\* Mutant: only the channel itself is excluded as its own parent.
ValidMoveShallow(ch, p) == p = 0 \/ p \in rows \ {ch}

\* validateMoveTx: the parent exists, is not ch or below it, and its chain is
\* not too long.
ValidMove(ch, p) ==
    \/ p = 0
    \/ /\ p \in rows
       /\ p # ch /\ ch \notin Ancestors(p)
       /\ Cardinality(Ancestors(p)) < MaxChannelDepth

\* Mutant: the parent that lost a child is forgotten.
MovedEdgesNewOnly(old, p) == {p}

\* The parents whose timers a move concerns.
MovedEdges(old, p) == {old, p}

\* Mutant: the registry does not hear of the move.
MirrorMoveForgotten(ch, p) == UNCHANGED registry

MirrorMove(ch, p) == state!UpdateChannel(ch, p, ctype[ch])

\* UpdateChannel with a ParentID.
Reparent(w) ==
    LET ch == job[w].ch
        p == job[w].p
        old == IF ch \in channels THEN parent[ch] ELSE 0
        Write == rowParent' = [rowParent EXCEPT ![ch] = p]
        ReconcileTimers(S) ==
            SetTimers(Reconciled(CurrentTimers, S \ {0}, Eligible(channels, parent, ctype)'))
        Rejected ==
            /\ UNCHANGED <<registry, rowParent, timers, scheduled, suspect>>
        \* The row could not be read back: the timers are left alone.
        Unresolved ==
            /\ Fault("unconfirmed")
            /\ suspect' = suspect \cup ({ch, p, old, rowParent[ch]} \ {0})
            /\ UNCHANGED <<registry, timers, scheduled>>
    IN  /\ pc[w] = "wlock" /\ job[w].op = "reparent"
        /\ Exclusive
        /\ \/ (ch \notin rows \/ ~ValidMove(ch, p)) /\ Rejected /\ UNCHANGED faults
           \/ Fault("error") /\ Rejected
           \/ /\ ch \in rows /\ ValidMove(ch, p)
              /\ \/ /\ Write
                    /\ \/ /\ ch \in channels
                          /\ MirrorMove(ch, p)
                          /\ ReconcileTimers(MovedEdges(old, p))
                          /\ UNCHANGED <<suspect, faults>>
                       \/ /\ ch \notin channels
                          /\ state!AddChannel(ch, p, rowType[ch])
                          /\ ReconcileTimers({ch} \cup MovedEdges(old, p))
                          /\ UNCHANGED <<suspect, faults>>
                       \/ ch \notin channels /\ Unresolved
                 \/ /\ Fault("ambiguous")
                    /\ Write \/ UNCHANGED rowParent
                    /\ MirrorRow(ch, rowParent'[ch], rowType[ch])
                    /\ ReconcileTimers({ch, rowParent'[ch]} \cup MovedEdges(old, p))
                    /\ UNCHANGED suspect
                 \/ /\ Write \/ UNCHANGED rowParent
                    /\ Unresolved
        /\ Finish(w)
        /\ UNCHANGED <<rows, rowType, nextId, fired, waiting, restarts>>

\* The delay of a token passes and its callback starts.  A generation is kept
\* in reserve, so that a new token can always be told from the late ones.
Fire(ch) ==
    /\ <<ch, timers[ch]>> \in scheduled
    /\ Cardinality(Outstanding(ch)) + 1 < Cardinality(Gens)
    /\ scheduled' = scheduled \ {<<ch, timers[ch]>>}
    /\ fired' = fired \cup {<<ch, timers[ch]>>}
    /\ UNCHANGED <<registry, table, timers, waiting, workers, suspect, bounds>>

\* The callback asks for treeMu.
CallbackWaits(x) ==
    /\ x \in fired
    /\ fired' = fired \ {x}
    /\ waiting' = waiting \cup {x}
    /\ UNCHANGED <<registry, table, timers, scheduled, workers, suspect, bounds>>

\* cleanupCallback with the write lock: claim the token if it is still the
\* active one, look again whether the channel is to go, delete it.
Callback(x) ==
    LET ch == x[1]
        claimed == [CurrentTimers EXCEPT !.timers[ch] = 0]
    IN  /\ x \in waiting
        /\ Exclusive
        /\ waiting' = waiting \ {x}
        /\ \/ /\ timers[ch] # x[2]
              /\ UNCHANGED <<registry, table, timers, scheduled, suspect, faults>>
           \/ /\ timers[ch] = x[2]
              /\ ch \notin Eligible(channels, parent, ctype)
              /\ SetTimers(claimed)
              /\ UNCHANGED <<registry, table, suspect, faults>>
           \/ /\ timers[ch] = x[2]
              /\ ch \in Eligible(channels, parent, ctype)
              /\ DeleteSubtree(ch, claimed, TRUE)
        /\ UNCHANGED <<fired, workers, restarts>>

-----------------------------------------------------------------------------

\* A session registers; ids are not used again while an operation names them.
Connect(c) ==
    /\ c \notin clients
    /\ \A w \in Workers : job[w].c # c
    /\ state!AddClient(c)
    /\ UNCHANGED <<table, timerVars, workers, suspect, bounds>>

\* The process stops at any point (Close, or a crash) and starts again.
Restart ==
    /\ restarts < MaxRestarts
    /\ restarts' = restarts + 1
    /\ channels' = rows
    /\ parent' = rowParent
    /\ ctype' = rowType
    /\ SetTimers(LoadedTimers(rows, rowParent, rowType))
    /\ clients' = {}
    /\ clientChannel' = [c \in Clients |-> 0]
    /\ isSpeaking' = {}
    /\ count' = [ch \in Channels |-> 0]
    /\ membership' = [ch \in Channels |-> {}]
    /\ speaking' = [c \in Clients |-> -1]
    /\ subs' = [c \in Clients |-> {}]
    /\ subsByChannel' = [ch \in Channels |-> {}]
    /\ fired' = {}
    /\ waiting' = {}
    /\ pc' = [w \in Workers |-> "idle"]
    /\ job' = [w \in Workers |-> Idle]
    /\ suspect' = {}
    /\ UNCHANGED <<table, faults>>

Begin(w) ==
    \/ \E c \in Clients, ch \in Channels : BeginClientOp(w, "move", c, ch)
    \/ \E c \in Clients, op \in {"leave", "remove"} : BeginClientOp(w, op, c, 0)
    \/ \E p \in ChannelOrNone, t \in ChannelTypes : BeginCreate(w, p, t)
    \/ \E ch \in Channels, t \in ChannelTypes : BeginChannelOp(w, "settype", ch, t)
    \/ \E ch \in Channels, op \in {"edit", "lifecycle"} : BeginChannelOp(w, op, ch, Temporary)
    \/ \E ch \in Channels : BeginTreeOp(w, "delete", ch, 0)
    \/ \E ch \in Channels, p \in ChannelOrNone : BeginTreeOp(w, "reparent", ch, p)

Work(w) ==
    \/ LockClient(w) \/ LockChannel(w)
    \/ Mutate(w) \/ EndCallback(w) \/ Timers(w) \/ ApplyTimer(w)
    \/ Insert(w) \/ Register(w)
    \/ Commit(w) \/ Mirror(w) \/ Reload(w)
    \/ Delete(w) \/ Reparent(w)

TimerStep(ch) ==
    \/ Fire(ch)
    \/ \E g \in Gens : CallbackWaits(<<ch, g>>) \/ Callback(<<ch, g>>)

Next ==
    \/ \E w \in Workers : Begin(w) \/ Work(w)
    \/ \E ch \in Channels : TimerStep(ch)
    \/ \E c \in Clients : Connect(c)
    \/ Restart

Spec == Init /\ [][Next]_vars

\* The scheduler runs every goroutine and every timer fires.  A lock that is
\* released again and again is obtained in the end: a Go mutex hands itself
\* to a goroutine that has waited for a millisecond, and a waiting writer
\* holds new readers back.
FairSpec ==
    /\ Spec
    /\ \A w \in Workers : SF_vars(Work(w))
    /\ \A ch \in Channels : SF_vars(TimerStep(ch))

-----------------------------------------------------------------------------
(* Properties. *)

Registered(ch) == [here |-> ch \in channels, up |-> parent[ch], type |-> ctype[ch]]
Persisted(ch)  == [here |-> ch \in rows, up |-> rowParent[ch], type |-> rowType[ch]]

\* Types, and the locks: no two workers hold the same channel.
TypeOK ==
    /\ state!TypeOK
    /\ rows \subseteq Channels
    /\ rowParent \in [Channels -> ChannelOrNone]
    /\ rowType \in [Channels -> ChannelTypes]
    /\ timers \in [Channels -> Gens \cup {0}]
    /\ scheduled \cup fired \cup waiting \subseteq Channels \X Gens
    /\ suspect \subseteq Channels
    /\ \A v, w \in Workers : v # w => job[v].held \cap job[w].held = {}

\* Once no operation is under way the registry shows what the table holds, for
\* every channel no operation failed about without an answer: creations,
\* deletions, moves and retypes of several goroutines, interrupted or reported
\* wrongly by the database, leave no channel in one and not in the other.
MirrorCoherent ==
    Readers = {} => \A ch \in Channels \ suspect : Registered(ch) = Persisted(ch)

\* Once no operation is under way exactly the empty temporary leaves have an
\* active cleanup token: none is forgotten, so that the channel would stay for
\* ever, and none is left on a channel that somebody uses.
TimersCoherent ==
    Readers = {} => \A ch \in Channels \ suspect :
        timers[ch] # 0 <=> ch \in Eligible(channels, parent, ctype)

\* state.Channel: "ClientCount is a derived field maintained by the Manager as
\* clients join and leave channels", so it is the number of members.
CountMirrored == state!CountIsMembership

\* While afterMove runs (the voice router and the peers are told) the client is
\* still in the channel, the channel still exists and no cleanup is due; while
\* an operation passed to WithChannelLifecycle runs its channel exists.
CallbacksSeeTheChannel ==
    \A w \in Workers :
        /\ pc[w] = "after" =>
            /\ clientChannel[job[w].c] = job[w].ch
            /\ job[w].ch \in channels
            /\ timers[job[w].ch] = 0
        /\ pc[w] = "op" => job[w].ch \in channels

\* Following parents always ends at a root: validateMoveTx, evaluated in the
\* transaction that writes the edge, keeps the table a tree.
Rooted(chs, par) ==
    \A S \in SUBSET chs : S # {} => \E ch \in S : par[ch] \notin S

TableIsTree == Rooted(rows, rowParent)

\* The automatic cleanup takes one channel that is, in the table, temporary,
\* without members and without children, and nothing else; channels with an
\* unresolved failure, and what the table has below them, are left out.
Doubtful == UNION {Subtree(ch, rows, rowParent) : ch \in suspect}
Expires == \E x \in waiting : x \notin waiting' /\ restarts' = restarts
CleanupTakesEmptyLeaves ==
    [][Expires => \A ch \in (rows \ rows') \ Doubtful :
            /\ rowType[ch] = Temporary
            /\ membership[ch] = {}
            /\ Leaf(ch, rows, rowParent)]_vars

\* cleanupCallback: a temporary parent is not an automatically deletable leaf,
\* which "avoids cascading cleanup through permanent or occupied descendants".
CleanupNeverCascades ==
    [][Expires => \A ch \in rows \ rows' : Leaf(ch, rows, rowParent)]_vars

\* The table and the places of the clients behave as ChannelService says: all
\* the locking, mirroring and timing comes to single steps on one tree, in
\* which nobody joins a channel that is gone.
service == INSTANCE ChannelService
    WITH exists <- rows, up <- rowParent, kind <- rowType, in <- clientChannel
Serves == service!Spec

\* Every operation of the manager comes to an end: goroutines that hold
\* several locks, and callbacks that wait for treeMu, never wait in a circle.
OperationsEnd ==
    \A w \in Workers : pc[w] # "idle" ~> pc[w] = "idle"

\* A temporary channel that is empty and childless is removed, or it is used
\* again; it is not forgotten, whatever fails on the way.
EmptyChannelsGo ==
    \A ch \in Channels : ch \in Eligible(channels, parent, ctype)
                         ~> ch \notin Eligible(channels, parent, ctype)
====
