------------------------- MODULE BroadcasterProofs -------------------------
(***************************************************************************)
(* For any number of clients, senders and messages and any buffer size: a  *)
(* send of the broadcaster neither blocks nor hits a closed channel, and   *)
(* all clients get the broadcasts in one order.                            *)
(***************************************************************************)
EXTENDS Broadcaster, TLAPS

\* The types of what TypeOK leaves to the other invariants.
Typed ==
    /\ registered \subseteq Clients
    /\ closed \in BOOLEAN
    /\ sent \in Nat
    /\ pc \in [Senders -> {"idle", "locked", "loop", "put"}]
    /\ msg \in [Senders -> Nat]
    /\ todo \in [Senders -> SUBSET Clients]
    /\ at \in [Senders -> Clients \cup {NoClient}]
    /\ writer \in [Clients -> {"new", "run", "ended"}]
    /\ queue \in [Clients -> Seq(Nat)]
    /\ written \in [Clients -> Nat]

\* sendMu: one sender at a time is not idle.
Exclusive ==
    \A s, t \in Senders : pc[s] # "idle" /\ pc[t] # "idle" => s = t

\* b.mu: what a sender has yet to serve stays registered while it walks, and
\* the queue it found room in keeps that room until it has sent.
Held ==
    \A s \in Senders :
        /\ pc[s] \in {"loop", "put"} => todo[s] \subseteq registered
        /\ pc[s] = "put" => at[s] \in todo[s] /\ Len(queue[at[s]]) < Buffer
        /\ pc[s] # "put" => at[s] = NoClient

\* No queue holds more than its capacity.
Bounded == \A c \in Clients : Len(queue[c]) <= Buffer

SafeInv == Typed /\ Exclusive /\ Held /\ Bounded

\* The message under way is the newest, and who has yet to get it has only
\* older ones.
Newest ==
    /\ \A s \in Senders : pc[s] # "idle" => msg[s] = sent
    /\ \A c \in Clients : written[c] <= sent /\ \A i \in 1..Len(queue[c]) : queue[c][i] <= sent
    /\ \A s \in Senders : pc[s] # "idle" => \A c \in todo[s] :
         written[c] < sent /\ \A i \in 1..Len(queue[c]) : queue[c][i] < sent

OrderInv == SafeInv /\ Newest /\ SameOrder
-----------------------------------------------------------------------------
(* Queues. *)

\* What a queue holds after a send and after a receive.
LEMMA QueueFacts ==
    ASSUME NEW q \in Seq(Nat), NEW m \in Nat
    PROVE  /\ Append(q, m) \in Seq(Nat)
           /\ Len(Append(q, m)) = Len(q) + 1
           /\ \A i \in 1..Len(q) : Append(q, m)[i] = q[i]
           /\ Append(q, m)[Len(q) + 1] = m
           /\ q # <<>> => /\ Len(q) > 0
                          /\ Head(q) = q[1]
                          /\ Tail(q) \in Seq(Nat)
                          /\ Len(Tail(q)) = Len(q) - 1
                          /\ \A i \in 1..(Len(q) - 1) : Tail(q)[i] = q[i + 1]
  OBVIOUS

-----------------------------------------------------------------------------
(* Sends are safe. *)

LEMMA SafeInit == Init => SafeInv
  <1> SUFFICES ASSUME Init PROVE SafeInv
    OBVIOUS
  <1> USE DEF Init
  <1>1. <<>> \in Seq(Nat) /\ Len(<<>>) = 0
    OBVIOUS
  <1>2. Typed
    BY <1>1 DEF Typed
  <1>3. Exclusive
    BY DEF Exclusive
  <1>4. Held
    BY DEF Held
  <1>5. Bounded
    BY <1>1, BufferAssumption DEF Bounded
  <1> QED
    BY <1>2, <1>3, <1>4, <1>5 DEF SafeInv

\* Every step keeps the locks' promises.
LEMMA SafeStep == SafeInv /\ [Next]_vars => SafeInv'
  <1> SUFFICES ASSUME SafeInv, [Next]_vars PROVE SafeInv'
    OBVIOUS
  <1> USE NoClientAssumption, BufferAssumption
  <1> USE DEF SafeInv, Typed, Exclusive, Held, Bounded
  <1>1. ASSUME NEW c \in Clients, Register(c) PROVE SafeInv'
    <2>1. Typed'
      <3>1. \E w \in {"run", "ended"} : writer' = [writer EXCEPT ![c] = w]
        BY <1>1 DEF Register
      <3> QED
        BY <1>1, <3>1 DEF Register
    <2>2. Exclusive'
      BY <1>1 DEF Register, RegistryFree
    <2>3. Held'
      BY <1>1 DEF Register, RegistryFree
    <2>4. Bounded'
      BY <1>1 DEF Register, RegistryFree
    <2> QED
      BY <2>1, <2>2, <2>3, <2>4
  <1>2. ASSUME NEW c \in Clients, Unregister(c) PROVE SafeInv'
    BY <1>2 DEF Unregister, RegistryFree
  <1>3. ASSUME NEW c \in Clients, Write(c) PROVE SafeInv'
    <2> DEFINE q == queue[c]
    <2>1. q \in Seq(Nat) /\ q # <<>>
      BY <1>3 DEF Write
    <2>2. Tail(q) \in Seq(Nat) /\ Len(Tail(q)) = Len(q) - 1 /\ Head(q) \in Nat /\ Len(q) \in Nat
      BY <2>1, QueueFacts
    <2>3. Typed'
      <3>1. queue' \in [Clients -> Seq(Nat)]
        BY <1>3, <2>2 DEF Write
      <3>2. CASE written' = [written EXCEPT ![c] = Head(q)] /\ UNCHANGED writer
        BY <1>3, <2>2, <3>1, <3>2 DEF Write
      <3>3. CASE writer' = [writer EXCEPT ![c] = "ended"] /\ UNCHANGED written
        BY <1>3, <3>1, <3>3 DEF Write
      <3> QED
        BY <1>3, <3>2, <3>3 DEF Write
    <2>4. Exclusive'
      BY <1>3, <2>1, <2>2 DEF Write
    <2>5. Held'
      BY <1>3, <2>1, <2>2 DEF Write
    <2>6. Bounded'
      BY <1>3, <2>1, <2>2 DEF Write
    <2> QED
      BY <2>3, <2>4, <2>5, <2>6
  <1>4. ASSUME NEW c \in Clients, EndWriter(c) PROVE SafeInv'
    BY <1>4 DEF EndWriter
  <1>5. ASSUME NEW s \in Senders, NEW S \in SUBSET Clients, Lock(s, S) PROVE SafeInv'
    BY <1>5 DEF Lock, SendMuFree
  <1>6. ASSUME NEW s \in Senders, NEW c \in Clients, Look(s, c) PROVE SafeInv'
    <2>1. Typed'
      <3>1. pc' \in [Senders -> {"idle", "locked", "loop", "put"}]
        BY <1>6 DEF Look
      <3>2. CASE HasRoom(c)
        <4>1. at' = [at EXCEPT ![s] = c] /\ UNCHANGED todo
          BY <1>6, <3>2 DEF Look
        <4> QED
          BY <1>6, <3>1, <4>1 DEF Look
      <3>3. CASE ~HasRoom(c)
        <4>1. todo' = [todo EXCEPT ![s] = todo[s] \ {c}] /\ UNCHANGED at
          BY <1>6, <3>3 DEF Look, DroppedFor
        <4> QED
          BY <1>6, <3>1, <4>1 DEF Look
      <3> QED
        BY <3>2, <3>3
    <2>2. Exclusive'
      BY <1>6, SMTT(20) DEF Look, HasRoom, DroppedFor
    <2>3. Held'
      BY <1>6 DEF Look, HasRoom, DroppedFor
    <2>4. Bounded'
      BY <1>6 DEF Look, HasRoom, DroppedFor
    <2> QED
      BY <2>1, <2>2, <2>3, <2>4
  <1>7. ASSUME NEW s \in Senders, Walk(s) PROVE SafeInv'
    BY <1>7 DEF Walk
  <1>8. ASSUME NEW s \in Senders, Put(s) PROVE SafeInv'
    <2> DEFINE c == at[s]
    <2>1. c \in Clients /\ queue[c] \in Seq(Nat) /\ msg[s] \in Nat
      BY <1>8 DEF Put
    <2>2. /\ Append(queue[c], msg[s]) \in Seq(Nat)
          /\ Len(Append(queue[c], msg[s])) = Len(queue[c]) + 1
          /\ Len(queue[c]) \in Nat
      BY <2>1, QueueFacts
    <2>3. Typed'
      BY <1>8, <2>1, <2>2 DEF Put
    <2>4. Exclusive'
      BY <1>8, <2>1, <2>2 DEF Put
    <2>5. Held'
      BY <1>8, <2>1, <2>2 DEF Put
    <2>6. Bounded'
      BY <1>8, <2>1, <2>2 DEF Put
    <2> QED
      BY <2>3, <2>4, <2>5, <2>6
  <1>9. CASE Close
    BY <1>9 DEF Close, RegistryFree
  <1>10. CASE UNCHANGED vars
    BY <1>10 DEF vars
  <1> QED
    BY <1>1, <1>2, <1>3, <1>4, <1>5, <1>6, <1>7, <1>8, <1>9, <1>10 DEF Next

\* trySend's two steps are safe in every run: the send it does after looking
\* at the length of the channel finds room and an open channel.
THEOREM SendsSafe == Spec => []SendsAreSafe
  <1>1. SafeInv => SendsAreSafe
    BY DEF SafeInv, Typed, Held, SendsAreSafe
  <1> QED
    BY SafeInit, SafeStep, <1>1, PTL DEF Spec

\* Every variable keeps its type, no queue exceeds clientBufferSize and one
\* sender at a time holds sendMu.
THEOREM TypeCorrect == Spec => []TypeOK
  <1>1. SafeInv => TypeOK
    BY NoClientAssumption DEF SafeInv, Typed, Exclusive, Held, Bounded, TypeOK
  <1> QED
    BY SafeInit, SafeStep, <1>1, PTL DEF Spec
-----------------------------------------------------------------------------
(* One order for all. *)

LEMMA OrderInit == Init => OrderInv
  <1>1. Init => Newest /\ SameOrder
    BY DEF Init, Newest, SameOrder
  <1> QED
    BY <1>1, SafeInit DEF OrderInv

\* Every step keeps the queues sorted and the message under way the newest.
LEMMA OrderStep == OrderInv /\ [Next]_vars => OrderInv'
  <1> SUFFICES ASSUME OrderInv, [Next]_vars PROVE Newest' /\ SameOrder'
    BY SafeStep DEF OrderInv
  <1>0. Typed /\ Exclusive /\ Held
    BY DEF OrderInv, SafeInv
  <1> USE DEF OrderInv, Newest, SameOrder
  <1>1. ASSUME NEW c \in Clients, Register(c) PROVE Newest' /\ SameOrder'
    BY <1>1 DEF Register
  <1>2. ASSUME NEW c \in Clients, Unregister(c) PROVE Newest' /\ SameOrder'
    BY <1>2, SMTT(20) DEF Unregister
  <1>3. ASSUME NEW c \in Clients, Write(c) PROVE Newest' /\ SameOrder'
    <2> DEFINE q == queue[c]
    <2>1. q \in Seq(Nat) /\ q # <<>> /\ Len(q) \in Nat
      BY <1>0, <1>3 DEF Write, Typed
    <2>2. /\ Len(q) > 0 /\ Head(q) = q[1] /\ Len(Tail(q)) = Len(q) - 1
          /\ \A i \in 1..(Len(q) - 1) : Tail(q)[i] = q[i + 1]
      BY <2>1, QueueFacts
    <2>3. /\ queue'[c] = Tail(q)
          /\ \A d \in Clients \ {c} : queue'[d] = queue[d] /\ written'[d] = written[d]
          /\ written'[c] \in {written[c], q[1]}
          /\ UNCHANGED <<sent, pc, msg, todo>>
      BY <1>0, <1>3, <2>2 DEF Write, Typed
    <2>4. /\ \A i \in 1..Len(queue'[c]) : written'[c] < queue'[c][i] /\ queue'[c][i] = q[i + 1]
          /\ \A i, j \in 1..Len(queue'[c]) : i < j => queue'[c][i] < queue'[c][j]
      BY <2>1, <2>2, <2>3
    <2>5. SameOrder'
      BY <2>3, <2>4
    <2>6. q[1] <= sent /\ (\A s \in Senders : pc[s] # "idle" /\ c \in todo[s] => q[1] < sent)
      BY <2>1, <2>2
    <2>7. \A i \in 1..Len(queue'[c]) : i + 1 \in 1..Len(q)
      BY <2>1, <2>2, <2>3
    <2>8. Newest'
      <3>1. ASSUME NEW d \in Clients
            PROVE  written'[d] <= sent /\ \A i \in 1..Len(queue'[d]) : queue'[d][i] <= sent
        <4>1. CASE d = c
          <5>1. written'[c] <= sent
            BY <2>3, <2>6
          <5>2. \A i \in 1..Len(queue'[c]) : queue'[c][i] <= sent
            BY <2>4, <2>7
          <5> QED
            BY <4>1, <5>1, <5>2
        <4>2. CASE d # c
          BY <2>3, <4>2
        <4> QED
          BY <4>1, <4>2
      <3>2. ASSUME NEW s \in Senders, pc[s] # "idle", NEW d \in todo[s]
            PROVE  written'[d] < sent /\ \A i \in 1..Len(queue'[d]) : queue'[d][i] < sent
        <4>1. d \in Clients
          BY <1>0 DEF Typed
        <4>2. CASE d = c
          <5>1. written'[c] < sent
            BY <2>3, <2>6, <3>2, <4>2
          <5>2. \A i \in 1..Len(queue'[c]) : queue'[c][i] < sent
            BY <2>4, <2>7, <3>2, <4>2
          <5> QED
            BY <4>2, <5>1, <5>2
        <4>3. CASE d # c
          BY <2>3, <3>2, <4>1, <4>3
        <4> QED
          BY <4>2, <4>3
      <3> QED
        BY <2>3, <3>1, <3>2
    <2> QED
      BY <2>5, <2>8
  <1>4. ASSUME NEW c \in Clients, EndWriter(c) PROVE Newest' /\ SameOrder'
    BY <1>4 DEF EndWriter
  <1>5. ASSUME NEW s \in Senders, NEW S \in SUBSET Clients, Lock(s, S) PROVE Newest' /\ SameOrder'
    <2>1. /\ sent' = sent + 1 /\ sent \in Nat /\ msg'[s] = sent + 1
          /\ \A t \in Senders \ {s} : pc'[t] = "idle"
          /\ todo'[s] \subseteq Clients
          /\ UNCHANGED <<queue, written>>
      BY <1>0, <1>5 DEF Lock, SendMuFree, Typed
    <2>2. \A c \in Clients : /\ queue[c] \in Seq(Nat) /\ written[c] \in Nat
                             /\ \A i \in 1..Len(queue[c]) : queue[c][i] \in Nat
      BY <1>0 DEF Typed
    <2>3. \A c \in Clients : /\ written[c] < sent'
                             /\ \A i \in 1..Len(queue[c]) : queue[c][i] < sent'
      BY <2>1, <2>2
    <2>4. \A c \in Clients : /\ written[c] <= sent'
                             /\ \A i \in 1..Len(queue[c]) : queue[c][i] <= sent'
      BY <2>1, <2>2, SMTT(20)
    <2>5. Newest'
      BY <2>1, <2>3, <2>4
    <2> QED
      BY <2>1, <2>5
  <1>6. ASSUME NEW s \in Senders, NEW c \in Clients, Look(s, c) PROVE Newest' /\ SameOrder'
    <2>1. /\ \A t \in Senders : todo'[t] \subseteq todo[t] /\ (pc'[t] # "idle" => pc[t] # "idle")
          /\ UNCHANGED <<queue, written, sent, msg>>
      <3> HIDE DEF OrderInv, Newest, SameOrder
      <3>1. pc[s] = "loop" /\ UNCHANGED <<queue, written, sent, msg>>
        BY <1>6 DEF Look
      <3>2. CASE HasRoom(c)
        <4>1. UNCHANGED todo /\ pc' = [pc EXCEPT ![s] = "put"]
          BY <1>6, <3>2 DEF Look
        <4> QED
          BY <1>0, <3>1, <4>1 DEF Typed
      <3>3. CASE ~HasRoom(c)
        <4>1. /\ todo' = [todo EXCEPT ![s] = todo[s] \ {c}]
              /\ \E l \in {"idle", "loop"} : pc' = [pc EXCEPT ![s] = l]
          BY <1>6, <3>3 DEF Look, DroppedFor
        <4> QED
          BY <1>0, <3>1, <4>1 DEF Typed
      <3> QED
        BY <3>2, <3>3
    <2> QED
      BY <2>1
  <1>7. ASSUME NEW s \in Senders, Walk(s) PROVE Newest' /\ SameOrder'
    <2>1. /\ \A t \in Senders : todo'[t] \subseteq todo[t] /\ (pc'[t] # "idle" => pc[t] # "idle")
          /\ UNCHANGED <<queue, written, sent, msg>>
      BY <1>0, <1>7 DEF Walk, Typed
    <2> QED
      BY <2>1
  <1>8. ASSUME NEW s \in Senders, Put(s) PROVE Newest' /\ SameOrder'
    <2> DEFINE c == at[s]
               q == queue[c]
    <2>1. c \in todo[s] /\ c \in Clients /\ q \in Seq(Nat) /\ Len(q) \in Nat /\ msg[s] \in Nat
      BY <1>0, <1>8 DEF Put, Held, Typed
    <2>2. msg[s] = sent /\ written[c] < sent /\ \A i \in 1..Len(q) : q[i] < sent
      BY <1>8, <2>1 DEF Put
    <2>3. /\ queue'[c] = Append(q, sent)
          /\ \A d \in Clients \ {c} : queue'[d] = queue[d]
          /\ \A t \in Senders \ {s} : pc'[t] = "idle"
          /\ todo'[s] = todo[s] \ {c} /\ todo'[s] \subseteq Clients
          /\ UNCHANGED <<written, sent, msg>>
      BY <1>0, <1>8, <2>1, <2>2 DEF Put, Exclusive, Typed
    <2>4. /\ Len(queue'[c]) = Len(q) + 1 /\ queue'[c][Len(q) + 1] = sent
          /\ \A i \in 1..Len(q) : queue'[c][i] = q[i]
      BY <2>1, <2>2, <2>3, QueueFacts
    <2>5. SameOrder'
      <3>1. \A i \in 1..(Len(q) + 1) : i \in 1..Len(q) \/ i = Len(q) + 1
        BY <2>1
      <3>2. \A i \in 1..Len(queue'[c]) : written[c] < queue'[c][i]
        BY <2>1, <2>2, <2>4, <3>1
      <3>3. ASSUME NEW i \in 1..Len(queue'[c]), NEW j \in 1..Len(queue'[c]), i < j
            PROVE  queue'[c][i] < queue'[c][j]
        <4>1. i \in 1..Len(q)
          BY <2>1, <2>4, <3>3
        <4> QED
          BY <2>1, <2>2, <2>4, <3>1, <3>3, <4>1
      <3> QED
        BY <2>3, <3>2, <3>3
    <2>6. Newest'
      <3>1. \A i \in 1..(Len(q) + 1) : i \in 1..Len(q) \/ i = Len(q) + 1
        BY <2>1
      <3>2. sent \in Nat /\ written'[c] <= sent
        BY <1>0, <2>1, <2>2, <2>3 DEF Typed
      <3>3. \A i \in 1..Len(queue'[c]) : queue'[c][i] <= sent
        <4>1. \A i \in 1..Len(q) : q[i] \in Nat /\ q[i] <= sent
          BY <2>1, <2>2, <3>2
        <4> HIDE DEF OrderInv, Newest, SameOrder, c, q
        <4>2. \A i \in 1..Len(q) : queue'[c][i] <= sent
          BY <2>4, <4>1
        <4>3. queue'[c][Len(q) + 1] <= sent
          BY <2>4, <3>2
        <4> QED
          BY <2>4, <3>1, <4>2, <4>3
      <3>4. \A d \in Clients : written'[d] <= sent /\ \A i \in 1..Len(queue'[d]) : queue'[d][i] <= sent
        BY <2>3, <3>2, <3>3, SMTT(20)
      <3>5. pc[s] # "idle" /\ \A t \in Senders : pc'[t] # "idle" => t = s
        BY <1>8, <2>3 DEF Put
      <3>6. \A d \in todo'[s] : written'[d] < sent /\ \A i \in 1..Len(queue'[d]) : queue'[d][i] < sent
        BY <2>3, <3>5
      <3> QED
        BY <2>2, <2>3, <3>4, <3>5, <3>6
    <2> QED
      BY <2>5, <2>6
  <1>9. CASE Close
    BY <1>9 DEF Close
  <1>10. CASE UNCHANGED vars
    BY <1>10 DEF vars
  <1> QED
    BY <1>1, <1>2, <1>3, <1>4, <1>5, <1>6, <1>7, <1>8, <1>9, <1>10 DEF Next

\* In every run all clients get the broadcasts in the order in which sendMu
\* was taken, whatever is dropped for whom.
THEOREM OneOrder == Spec => []SameOrder
  <1>1. OrderInv => SameOrder
    BY DEF OrderInv
  <1> QED
    BY OrderInit, OrderStep, <1>1, PTL DEF Spec
=============================================================================
