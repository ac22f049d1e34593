------------------------------ MODULE EventBus ------------------------------
(***************************************************************************)
(* The lossy event bus (internal/eventbus/bus.go) and the streams that     *)
(* consume it: one goroutine per WebSocket (ws.go, serveStream) or gRPC    *)
(* subscriber (grpcserver/events.go, Subscribe).                           *)
(*                                                                         *)
(* A publisher holds publishMu throughout and the registry lock b.mu for   *)
(* reading while it fans out.  Consumers receive from their channel        *)
(* without a lock.  A slot of Subs stands for one subscription; ids are    *)
(* never used again.                                                       *)
(***************************************************************************)
EXTENDS Integers, Sequences, FiniteSets

CONSTANTS
    Publishers,  \* goroutines that publish
    Subs,        \* subscriptions
    Types,       \* event types
    Filter,      \* Filter[s]: the types s asks for
    Buffer,      \* the depth of a subscriber's channel
    MaxDrops,    \* consecutive drops that evict a subscriber
    MaxSeq       \* bound on the number of published events

ASSUME FilterAssumption == Filter \in [Subs -> SUBSET Types]
ASSUME BufferAssumption == Buffer \in Nat \ {0}
ASSUME MaxDropsAssumption == MaxDrops \in Nat \ {0}
ASSUME MaxSeqAssumption == MaxSeq \in Nat

VARIABLES
    seq,       \* the bus-wide sequence number
    closed,    \* Close was called
    subs,      \* the registry
    chan,      \* chan[s]: the events in the channel of s
    reason,    \* reason[s]: the CloseReason of s
    drops,     \* drops[s]: consecutive drops
    evicting,  \* the subscriptions whose eviction was decided
    pc,        \* pc[p]: what a publisher does
    event,     \* event[p]: the event it publishes
    victims,   \* victims[p]: the subscriptions it will evict
    stream,    \* stream[s]: what the consumer of s does
    first,     \* first[s]: the first event s was offered, or 0 (history)
    last,      \* last[s]: the newest event s received, or 0
    got,       \* got[s]: how many events s received (history)
    dropped    \* dropped[s]: lifetime drops of s

busVars    == <<seq, closed, subs, evicting>>
subVars    == <<chan, reason, drops, dropped, first>>
pubVars    == <<pc, event, victims>>
streamVars == <<stream, last, got>>
vars       == <<busVars, subVars, pubVars, streamVars>>

Reasons == {"open", "unsubscribed", "slow", "bus_closed"}

Init ==
    /\ seq = 0
    /\ closed = FALSE
    /\ subs = {}
    /\ chan = [s \in Subs |-> <<>>]
    /\ reason = [s \in Subs |-> "open"]
    /\ drops = [s \in Subs |-> 0]
    /\ evicting = {}
    /\ pc = [p \in Publishers |-> "idle"]
    /\ event = [p \in Publishers |-> 0]
    /\ victims = [p \in Publishers |-> {}]
    /\ stream = [s \in Subs |-> "new"]
    /\ first = [s \in Subs |-> 0]
    /\ last = [s \in Subs |-> 0]
    /\ got = [s \in Subs |-> 0]
    /\ dropped = [s \in Subs |-> 0]

\* Nobody reads the registry: b.mu can be taken for writing.
RegistryFree == \A p \in Publishers : pc[p] # "fan"

\* Mutant: publishers do not exclude one another.
PublishMuIgnored == TRUE

\* publishMu can be taken.
PublishMuFree == \A p \in Publishers : pc[p] = "idle"

\* Subscription.close: the first reason stays.
CloseWith(S, r) == [s \in Subs |-> IF s \in S /\ reason[s] = "open" THEN r ELSE reason[s]]

-----------------------------------------------------------------------------
(* Publish. *)

\* With both locks: the event gets its number.  For a closed bus, or one
\* without subscribers, the registry lock is released first.
Stamp(p) ==
    /\ pc[p] = "idle"
    /\ PublishMuFree
    /\ seq < MaxSeq
    /\ IF closed \/ subs = {}
       THEN /\ pc' = [pc EXCEPT ![p] = "count"]
            /\ UNCHANGED <<seq, event>>
       ELSE /\ pc' = [pc EXCEPT ![p] = "fan"]
            /\ seq' = seq + 1
            /\ event' = [event EXCEPT ![p] = seq + 1]
    /\ UNCHANGED <<closed, subs, evicting, subVars, victims, streamVars>>

\* Nobody listened: the event only counts.
Count(p) ==
    /\ pc[p] = "count"
    /\ seq' = seq + 1
    /\ pc' = [pc EXCEPT ![p] = "idle"]
    /\ UNCHANGED <<closed, subs, evicting, subVars, event, victims, streamVars>>

\* Mutant: a delivery does not forgive the drops before it.
DropsAfterSticky(s, sent) == IF sent THEN drops[s] ELSE drops[s] + 1

DropsAfter(s, sent) == IF sent THEN 0 ELSE drops[s] + 1

\* Mutant: the channel has no capacity.
SentUnbounded(s, e) == Append(chan[s], e)

\* The non-blocking send.
Sent(s, e) == IF Len(chan[s]) < Buffer THEN Append(chan[s], e) ELSE chan[s]

\* Every subscriber that wants the type is offered the event; the registry
\* lock is released.
FanOut(p, type) ==
    LET offered == {s \in subs : type \in Filter[s]}
        fits(s) == Len(chan[s]) < Buffer
        late    == {s \in offered : /\ ~fits(s)
                                    /\ DropsAfter(s, FALSE) >= MaxDrops
                                    /\ s \notin evicting}
    IN  /\ pc[p] = "fan"
        /\ chan' = [s \in Subs |-> IF s \in offered THEN Sent(s, event[p]) ELSE chan[s]]
        /\ drops' = [s \in Subs |-> IF s \in offered THEN DropsAfter(s, fits(s)) ELSE drops[s]]
        /\ dropped' = [s \in Subs |->
                        IF s \in offered /\ ~fits(s) THEN dropped[s] + 1 ELSE dropped[s]]
        /\ first' = [s \in Subs |->
                      IF s \in offered /\ first[s] = 0 THEN event[p] ELSE first[s]]
        /\ evicting' = evicting \cup late
        /\ victims' = [victims EXCEPT ![p] = late]
        /\ pc' = [pc EXCEPT ![p] = IF late = {} THEN "idle" ELSE "evict"]
        /\ event' = [event EXCEPT ![p] = 0]
        /\ UNCHANGED <<seq, closed, subs, reason, streamVars>>

\* Mutant: the evicted subscription stays in the registry.
EvictedFromNowhere(s) == subs

EvictedFrom(s) == subs \ {s}

\* evict: the subscription may have left the registry in the meantime.
Evict(p, s) ==
    /\ pc[p] = "evict"
    /\ s \in victims[p]
    /\ RegistryFree
    /\ reason' = IF s \in subs THEN CloseWith({s}, "slow") ELSE reason
    /\ subs' = EvictedFrom(s)
    /\ victims' = [victims EXCEPT ![p] = @ \ {s}]
    /\ pc' = [pc EXCEPT ![p] = IF victims[p] = {s} THEN "idle" ELSE "evict"]
    /\ UNCHANGED <<seq, closed, evicting, chan, drops, dropped, first, event, streamVars>>

-----------------------------------------------------------------------------
(* The registry. *)

Subscribe(s) ==
    /\ stream[s] = "new"
    /\ RegistryFree
    /\ IF closed
       THEN /\ stream' = [stream EXCEPT ![s] = "ended"]
            /\ UNCHANGED subs
       ELSE /\ stream' = [stream EXCEPT ![s] = "open"]
            /\ subs' = subs \cup {s}
    /\ UNCHANGED <<seq, closed, evicting, chan, reason, drops, dropped, first, pubVars, last, got>>

\* Mutant: cleanup after a shutdown overwrites the reason.
UnsubscribedWithAnyway(s) ==
    [reason EXCEPT ![s] = IF @ = "slow" THEN @ ELSE "unsubscribed"]

UnsubscribedWith(s) == CloseWith({s}, IF closed THEN "bus_closed" ELSE "unsubscribed")

\* The deferred Unsubscribe of a stream that ends.
Unsubscribe(s) ==
    /\ stream[s] = "ending"
    /\ RegistryFree
    /\ stream' = [stream EXCEPT ![s] = "ended"]
    /\ subs' = IF closed THEN subs ELSE subs \ {s}
    /\ reason' = UnsubscribedWith(s)
    /\ UNCHANGED <<seq, closed, evicting, chan, drops, dropped, first, pubVars, last, got>>

Close ==
    /\ RegistryFree
    /\ closed' = TRUE
    /\ reason' = CloseWith(subs, "bus_closed")
    /\ subs' = {}
    /\ UNCHANGED <<seq, evicting, chan, drops, dropped, first, pubVars, streamVars>>

-----------------------------------------------------------------------------
(* The consumers. *)

\* An event is taken from the channel and written to the peer; when the write
\* fails the stream ends.
Receive(s) ==
    /\ stream[s] = "open"
    /\ chan[s] # <<>>
    /\ chan' = [chan EXCEPT ![s] = Tail(@)]
    /\ last' = [last EXCEPT ![s] = Head(chan[s])]
    /\ got' = [got EXCEPT ![s] = @ + 1]
    /\ \E next \in {"open", "ending"} : stream' = [stream EXCEPT ![s] = next]
    /\ UNCHANGED <<busVars, reason, drops, dropped, first, pubVars>>

\* Mutant: the consumer waits on although its channel was closed.
SeesCloseNever(s) == FALSE

\* The channel is closed and drained.
SeesClose(s) == chan[s] = <<>> /\ reason[s] # "open"

\* The stream ends: its channel is closed, or the peer hung up.
EndStream(s, hungUp) ==
    /\ stream[s] = "open"
    /\ hungUp \/ SeesClose(s)
    /\ stream' = [stream EXCEPT ![s] = "ending"]
    /\ UNCHANGED <<busVars, subVars, pubVars, last, got>>

Next ==
    \/ \E p \in Publishers : Stamp(p) \/ Count(p) \/ \E t \in Types : FanOut(p, t)
    \/ \E p \in Publishers, s \in Subs : Evict(p, s)
    \/ \E s \in Subs : Subscribe(s) \/ Unsubscribe(s) \/ Receive(s)
    \/ \E s \in Subs, hungUp \in BOOLEAN : EndStream(s, hungUp)
    \/ Close

Spec == Init /\ [][Next]_vars

\* A consumer runs: a WebSocket write has a deadline, and a gRPC send ends with
\* the call's context, so none blocks for ever.  A publisher never waits for a
\* consumer.
Serve(s) == Receive(s) \/ EndStream(s, FALSE) \/ Unsubscribe(s)
FairSpec ==
    /\ Spec
    /\ \A s \in Subs : SF_vars(Serve(s))
    /\ \A p \in Publishers : SF_vars(Count(p) \/ (\E t \in Types : FanOut(p, t)) \/ \E s \in Subs : Evict(p, s))

-----------------------------------------------------------------------------
(* Properties. *)

Latest(s) == IF chan[s] = <<>> THEN last[s] ELSE chan[s][Len(chan[s])]

\* The types; the buffer is never exceeded.
TypeOK ==
    /\ seq \in Nat
    /\ closed \in BOOLEAN
    /\ subs \subseteq Subs
    /\ evicting \subseteq Subs
    /\ reason \in [Subs -> Reasons]
    /\ drops \in [Subs -> Nat]
    /\ dropped \in [Subs -> Nat]
    /\ pc \in [Publishers -> {"idle", "count", "fan", "evict"}]
    /\ victims \in [Publishers -> SUBSET Subs]
    /\ stream \in [Subs -> {"new", "open", "ending", "ended"}]
    /\ \A s \in Subs : chan[s] \in Seq(Nat) /\ Len(chan[s]) <= Buffer

\* A registered subscription is open, so that no publisher ever sends on a
\* closed channel (which would end the process), whatever order evictions,
\* unsubscriptions and the shutdown come in; a closed bus has none.
RegisteredAreOpen ==
    /\ \A s \in subs : reason[s] = "open" /\ stream[s] \in {"open", "ending"}
    /\ closed => subs = {}

\* Several publishers notwithstanding, a consumer sees increasing sequence
\* numbers: publishMu orders the stamps and the sends alike.
InOrder ==
    \A s \in Subs :
        /\ \A i \in 1..Len(chan[s]) : last[s] < chan[s][i] /\ chan[s][i] <= seq
        /\ \A i, j \in 1..Len(chan[s]) : i < j => chan[s][i] < chan[s][j]

\* A subscriber can tell its gaps from the sequence numbers: what an unfiltered
\* one has not received or queued since its first event is what its drop
\* counter says.
GapsAreDrops ==
    \A s \in subs :
        Filter[s] = Types /\ first[s] # 0 /\ RegistryFree =>
            seq - first[s] + 1 = got[s] + Len(chan[s]) + dropped[s]

\* Only MaxDrops events in a row that found the channel full evict a consumer:
\* a burst is forgiven.
SlowConsumersWereSlow ==
    \A s \in Subs : reason[s] = "slow" => seq >= Latest(s) + MaxDrops

\* The terminal reason is immutable; a shutdown is not taken for the
\* consumer's own cancellation.
ReasonImmutable ==
    [][\A s \in Subs : reason[s] # "open" => reason'[s] = reason[s]]_vars

\* A stream whose subscription was evicted or shut down notices and ends.
ClosedStreamsEnd ==
    \A s \in Subs : reason[s] # "open" ~> stream[s] = "ended"
=============================================================================
