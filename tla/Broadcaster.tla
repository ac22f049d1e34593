---------------------------- MODULE Broadcaster ----------------------------
(***************************************************************************)
(* The outbound fan-out to connected clients (internal/broadcast/          *)
(* broadcaster.go) and the goroutine that writes a client's queue to its   *)
(* connection (server/handlers.go, broadcastWriter).                       *)
(*                                                                         *)
(* A sender holds sendMu for the whole fan-out and the registry lock b.mu  *)
(* for reading while it walks the queues.  For each queue it first looks   *)
(* whether there is room and then does a send that would block on a full   *)
(* channel and panic on a closed one.  A member of Clients is one session. *)
(***************************************************************************)
EXTENDS Integers, Sequences, FiniteSets

CONSTANTS
    Clients,
    NoClient,
    Senders,      \* goroutines that broadcast
    Buffer,       \* clientBufferSize
    MaxMessages   \* bound on the number of broadcasts

ASSUME NoClientAssumption == NoClient \notin Clients
ASSUME BufferAssumption == Buffer \in Nat \ {0}
ASSUME MaxMessagesAssumption == MaxMessages \in Nat

VARIABLES
    registered,   \* the registry
    closed,       \* Close was called
    queue,        \* queue[c]: the messages in the channel of c
    sent,         \* messages so far; a message is its number
    pc,           \* pc[s]: what a sender does
    msg,          \* msg[s]: the message it sends
    todo,         \* todo[s]: the sessions it has yet to serve
    at,           \* at[s]: the session it looked at
    writer,       \* writer[c]: the goroutine that writes to the connection
    written       \* written[c]: the newest message written

vars == <<registered, closed, queue, sent, pc, msg, todo, at, writer, written>>

Init ==
    /\ registered = {}
    /\ closed = FALSE
    /\ queue = [c \in Clients |-> <<>>]
    /\ sent = 0
    /\ pc = [s \in Senders |-> "idle"]
    /\ msg = [s \in Senders |-> 0]
    /\ todo = [s \in Senders |-> {}]
    /\ at = [s \in Senders |-> NoClient]
    /\ writer = [c \in Clients |-> "new"]
    /\ written = [c \in Clients |-> 0]

\* Mutant: senders do not exclude one another.
SendMuIgnored == TRUE

\* sendMu can be taken.
SendMuFree == \A s \in Senders : pc[s] = "idle"

\* Mutant: sessions come and go while a sender walks the queues.
RegistryFreeAlways == TRUE

\* Nobody walks the queues: b.mu can be taken for writing.
RegistryFree == \A s \in Senders : pc[s] \notin {"loop", "put"}

-----------------------------------------------------------------------------
(* The registry. *)

Register(c) ==
    /\ writer[c] = "new"
    /\ RegistryFree
    /\ IF closed
       THEN /\ writer' = [writer EXCEPT ![c] = "ended"]
            /\ UNCHANGED registered
       ELSE /\ writer' = [writer EXCEPT ![c] = "run"]
            /\ registered' = registered \cup {c}
    /\ UNCHANGED <<closed, queue, sent, pc, msg, todo, at, written>>

\* The disconnect of a session closes its channel.
Unregister(c) ==
    /\ c \in registered
    /\ RegistryFree
    /\ registered' = registered \ {c}
    /\ UNCHANGED <<closed, queue, sent, pc, msg, todo, at, writer, written>>

Close ==
    /\ RegistryFree
    /\ closed' = TRUE
    /\ registered' = {}
    /\ UNCHANGED <<queue, sent, pc, msg, todo, at, writer, written>>

-----------------------------------------------------------------------------
(* A broadcast. *)

\* sendMu is taken; BroadcastToChannel reads the members of the channel and
\* BroadcastToClient has its client, before the registry is looked at.
Lock(s, S) ==
    /\ pc[s] = "idle"
    /\ SendMuFree
    /\ sent < MaxMessages
    /\ sent' = sent + 1
    /\ msg' = [msg EXCEPT ![s] = sent + 1]
    /\ todo' = [todo EXCEPT ![s] = S]
    /\ pc' = [pc EXCEPT ![s] = "locked"]
    /\ UNCHANGED <<registered, closed, queue, at, writer, written>>

\* The registry lock is taken for reading; a closed broadcaster sends nothing.
Walk(s) ==
    /\ pc[s] = "locked"
    /\ todo' = [todo EXCEPT ![s] = @ \cap registered]
    /\ pc' = [pc EXCEPT ![s] = IF closed \/ todo'[s] = {} THEN "idle" ELSE "loop"]
    /\ UNCHANGED <<registered, closed, queue, sent, msg, at, writer, written>>

\* Mutant: a queue with one message too many has room.
HasRoomOffByOne(c) == Len(queue[c]) <= Buffer

HasRoom(c) == Len(queue[c]) < Buffer

\* Mutant: a full queue is tried again.
DroppedForAgain(s, c) == todo[s]

\* noteDrop: the message is lost for a client whose queue is full.
DroppedFor(s, c) == todo[s] \ {c}

\* trySend: the length of the channel is compared with its capacity.
Look(s, c) ==
    /\ pc[s] = "loop"
    /\ c \in todo[s]
    /\ IF HasRoom(c)
       THEN /\ at' = [at EXCEPT ![s] = c]
            /\ pc' = [pc EXCEPT ![s] = "put"]
            /\ UNCHANGED todo
       ELSE /\ todo' = [todo EXCEPT ![s] = DroppedFor(s, c)]
            /\ pc' = [pc EXCEPT ![s] = IF todo'[s] = {} THEN "idle" ELSE "loop"]
            /\ UNCHANGED at
    /\ UNCHANGED <<registered, closed, queue, sent, msg, writer, written>>

\* trySend: the send, which waits for room.
Put(s) ==
    LET c == at[s] IN
    /\ pc[s] = "put"
    /\ Len(queue[c]) < Buffer
    /\ queue' = [queue EXCEPT ![c] = Append(@, msg[s])]
    /\ at' = [at EXCEPT ![s] = NoClient]
    /\ todo' = [todo EXCEPT ![s] = @ \ {c}]
    /\ pc' = [pc EXCEPT ![s] = IF todo[s] = {c} THEN "idle" ELSE "loop"]
    /\ UNCHANGED <<registered, closed, sent, msg, writer, written>>

-----------------------------------------------------------------------------
(* broadcastWriter. *)

\* One message is written to the connection; a failed write ends the writer.
Write(c) ==
    /\ writer[c] = "run"
    /\ queue[c] # <<>>
    /\ queue' = [queue EXCEPT ![c] = Tail(@)]
    /\ \/ /\ written' = [written EXCEPT ![c] = Head(queue[c])]
          /\ UNCHANGED writer
       \/ /\ writer' = [writer EXCEPT ![c] = "ended"]
          /\ UNCHANGED written
    /\ UNCHANGED <<registered, closed, sent, pc, msg, todo, at>>

\* Mutant: a closed channel does not end the loop.
DrainedNever(c) == FALSE

Drained(c) == queue[c] = <<>> /\ c \notin registered

\* The channel is closed and empty.
EndWriter(c) ==
    /\ writer[c] = "run"
    /\ Drained(c)
    /\ writer' = [writer EXCEPT ![c] = "ended"]
    /\ UNCHANGED <<registered, closed, queue, sent, pc, msg, todo, at, written>>

Next ==
    \/ \E c \in Clients : Register(c) \/ Unregister(c) \/ Write(c) \/ EndWriter(c)
    \/ \E s \in Senders, S \in SUBSET Clients : Lock(s, S)
    \/ \E s \in Senders, c \in Clients : Look(s, c)
    \/ \E s \in Senders : Walk(s) \/ Put(s)
    \/ Close

Spec == Init /\ [][Next]_vars

\* Senders and writers run.  A write to a connection has a deadline.
FairSpec ==
    /\ Spec
    /\ \A s \in Senders : WF_vars(Walk(s) \/ Put(s) \/ \E c \in Clients : Look(s, c))
    /\ \A c \in Clients : WF_vars(Write(c) \/ EndWriter(c))

-----------------------------------------------------------------------------
(* Properties. *)

\* Types; one sender at a time holds sendMu.
TypeOK ==
    /\ registered \subseteq Clients
    /\ closed \in BOOLEAN
    /\ sent \in Nat
    /\ pc \in [Senders -> {"idle", "locked", "loop", "put"}]
    /\ todo \in [Senders -> SUBSET Clients]
    /\ writer \in [Clients -> {"new", "run", "ended"}]
    /\ \A c \in Clients : queue[c] \in Seq(Nat) /\ Len(queue[c]) <= Buffer
    /\ \A s \in Senders : pc[s] = "put" <=> at[s] # NoClient
    /\ \A s, t \in Senders : pc[s] # "idle" /\ pc[t] # "idle" => s = t

\* A send never blocks and never hits a closed channel: between the look at
\* the queue and the send no other sender fills it, and the session, even one
\* whose writer has given up, is not unregistered.
SendsAreSafe ==
    \A s \in Senders : pc[s] = "put" => at[s] \in registered /\ Len(queue[at[s]]) < Buffer

\* All clients see broadcasts in the one order in which sendMu was taken,
\* though some are missing in some queues.
SameOrder ==
    \A c \in Clients :
        /\ \A i \in 1..Len(queue[c]) : written[c] < queue[c][i]
        /\ \A i, j \in 1..Len(queue[c]) : i < j => queue[c][i] < queue[c][j]

\* A stalled client does not stall a broadcast.
BroadcastsEnd ==
    \A s \in Senders : pc[s] # "idle" ~> pc[s] = "idle"

\* The writer of a session that is unregistered ends, whatever was queued.
WritersEnd ==
    \A c \in Clients : (writer[c] = "run" /\ c \notin registered) ~> writer[c] = "ended"
=============================================================================
