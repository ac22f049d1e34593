---------------------------- MODULE StateManager ----------------------------
(***************************************************************************)
(* The server's in-memory registry of connected clients, channels, channel *)
(* membership, explicit channel subscriptions and speaking states          *)
(* (internal/state/manager.go).  One mutex guards all of its maps, so each *)
(* method is one atomic step.  The registry keeps every fact twice: a      *)
(* client's ChannelID and the channel's member set, a client's             *)
(* subscription set and the channel's reverse index, the IsSpeaking flag   *)
(* and the speaking map, and a ClientCount beside the member set.  What    *)
(* can go wrong is that the copies part.                                   *)
(*                                                                         *)
(* A Go map from X to sets is a total function whose value is {} where the *)
(* map has no key (every method deletes a set that becomes empty).  The    *)
(* fields of an absent client or channel have their zero value.            *)
(***************************************************************************)
EXTENDS Integers, FiniteSets

CONSTANTS
    Clients,        \* client identities (connection ids)
    Channels,       \* channel ids the database may hand out
    ChannelTypes    \* the channel types in use, a subset of 0..2

ASSUME ClientsAssumption == IsFiniteSet(Clients)
ASSUME ChannelsAssumption == Channels \subseteq Nat \ {0}
ASSUME ChannelTypesAssumption == ChannelTypes \subseteq 0..2 /\ 0 \in ChannelTypes

VARIABLES
    clients,        \* keys of m.clients
    clientChannel,  \* Client.ChannelID, 0 = no channel
    isSpeaking,     \* clients whose IsSpeaking flag is set
    channels,       \* keys of m.channels
    parent,         \* Channel.ParentID, 0 = root
    ctype,          \* Channel.ChannelType
    count,          \* Channel.ClientCount
    membership,     \* m.membership
    speaking,       \* m.speaking: the recorded channel, or NotSpeaking
    subs,           \* m.subs
    subsByChannel   \* m.subsByChannel

clientVars  == <<clients, clientChannel, isSpeaking>>
channelVars == <<channels, parent, ctype>>
memberVars  == <<count, membership>>
subVars     == <<subs, subsByChannel>>
stateVars   == <<clientVars, channelVars, memberVars, speaking, subVars>>

NoChannel   == 0
Temporary   == 0
NotSpeaking == -1
ChannelOrNone == Channels \cup {NoChannel}

Init ==
    /\ clients = {}
    /\ clientChannel = [c \in Clients |-> NoChannel]
    /\ isSpeaking = {}
    /\ channels = {}
    /\ parent = [ch \in Channels |-> NoChannel]
    /\ ctype = [ch \in Channels |-> Temporary]
    /\ count = [ch \in Channels |-> 0]
    /\ membership = [ch \in Channels |-> {}]
    /\ speaking = [c \in Clients |-> NotSpeaking]
    /\ subs = [c \in Clients |-> {}]
    /\ subsByChannel = [ch \in Channels |-> {}]

-----------------------------------------------------------------------------
(* Clients and channels. *)

\* A client is registered outside every channel and silent.
AddClient(c) ==
    /\ clients' = clients \cup {c}
    /\ clientChannel' = [clientChannel EXCEPT ![c] = NoChannel]
    /\ isSpeaking' = isSpeaking \ {c}
    /\ UNCHANGED <<channelVars, memberVars, speaking, subVars>>

\* c taken out of the member set of its channel, if that set exists.
MembershipWithout(c) ==
    [ch \in Channels |->
        IF ch = clientChannel[c] THEN membership[ch] \ {c} ELSE membership[ch]]

\* Mutant of CountWithout: the decrement is forgotten.
CountNotDecremented(c) == count

\* The decrement that goes with it: only for a channel that has a member set
\* and is registered, and never below zero.
CountWithout(c) ==
    [ch \in Channels |->
        IF /\ ch = clientChannel[c]
           /\ membership[ch] # {}
           /\ ch \in channels
           /\ count[ch] > 0
        THEN count[ch] - 1 ELSE count[ch]]

\* Mutant of DroppedSubs: the reverse index keeps the departed client.
DroppedSubsForwardOnly(c) == subsByChannel

\* dropSubsLocked: the reverse index forgets c through c's own set.
DroppedSubs(c) ==
    [ch \in Channels |->
        IF ch \in subs[c] THEN subsByChannel[ch] \ {c} ELSE subsByChannel[ch]]

RemoveClient(c) ==
    /\ c \in clients
    /\ membership' = MembershipWithout(c)
    /\ count' = CountWithout(c)
    /\ speaking' = [speaking EXCEPT ![c] = NotSpeaking]
    /\ subsByChannel' = DroppedSubs(c)
    /\ subs' = [subs EXCEPT ![c] = {}]
    /\ clients' = clients \ {c}
    /\ clientChannel' = [clientChannel EXCEPT ![c] = NoChannel]
    /\ isSpeaking' = isSpeaking \ {c}
    /\ UNCHANGED channelVars

\* AddChannel stores what it is given, and every caller gives ClientCount 0.
AddChannel(ch, p, t) ==
    /\ channels' = channels \cup {ch}
    /\ parent' = [parent EXCEPT ![ch] = p]
    /\ ctype' = [ctype EXCEPT ![ch] = t]
    /\ count' = [count EXCEPT ![ch] = 0]
    /\ UNCHANGED <<clientVars, membership, speaking, subVars>>

\* The fields of the patch that the model keeps are the parent and the type.
UpdateChannel(ch, p, t) ==
    /\ ch \in channels
    /\ parent' = [parent EXCEPT ![ch] = p]
    /\ ctype' = [ctype EXCEPT ![ch] = t]
    /\ UNCHANGED <<clientVars, channels, memberVars, speaking, subVars>>

Displaced(S) == {c \in clients : \E ch \in S : c \in membership[ch]}
Silenced(S)  == {c \in Clients : speaking[c] \in S}

\* What the removal of the channels S takes out of the maps.
RemoveEntries(S) ==
    /\ clientChannel' = [c \in Clients |->
                            IF c \in Displaced(S) THEN NoChannel ELSE clientChannel[c]]
    /\ membership' = [ch \in Channels |-> IF ch \in S THEN {} ELSE membership[ch]]
    /\ isSpeaking' = isSpeaking \ Silenced(S)
    /\ speaking' = [c \in Clients |->
                       IF c \in Silenced(S) THEN NotSpeaking ELSE speaking[c]]
    /\ subs' = [c \in Clients |-> subs[c] \ {ch \in S : c \in subsByChannel[ch]}]
    /\ subsByChannel' = [ch \in Channels |-> IF ch \in S THEN {} ELSE subsByChannel[ch]]
    /\ channels' = channels \ S
    /\ count' = [ch \in Channels |-> IF ch \in S THEN 0 ELSE count[ch]]
    /\ UNCHANGED clients

\* RemoveChannels: the whole set goes in one critical section.
RemoveChannels(S) ==
    /\ RemoveEntries(S)
    /\ parent' = [ch \in Channels |-> IF ch \in S THEN NoChannel ELSE parent[ch]]
    /\ ctype' = [ch \in Channels |-> IF ch \in S THEN Temporary ELSE ctype[ch]]

-----------------------------------------------------------------------------
(* Membership. *)

\* Mutant of Arrive: the client stays in the member set it comes from.
ArriveWithoutDeparture(c, ch) ==
    /\ clientChannel' = [clientChannel EXCEPT ![c] = ch]
    /\ membership' = [membership EXCEPT ![ch] = @ \cup {c}]
    /\ count' = [CountWithout(c) EXCEPT ![ch] = @ + 1]
    /\ UNCHANGED <<clients, channelVars, subVars>>

\* The arrival half of JoinChannel and MoveClient, after the departure half.
Arrive(c, ch) ==
    /\ clientChannel' = [clientChannel EXCEPT ![c] = ch]
    /\ membership' = [MembershipWithout(c) EXCEPT ![ch] = @ \cup {c}]
    /\ count' = [CountWithout(c) EXCEPT ![ch] = @ + 1]
    /\ UNCHANGED <<clients, channelVars, subVars>>

\* JoinChannel leaves the speaking record alone.
JoinChannel(c, ch) ==
    /\ c \in clients
    /\ ch \in channels
    /\ clientChannel[c] # ch
    /\ Arrive(c, ch)
    /\ UNCHANGED <<isSpeaking, speaking>>

\* Mutant of StopSpeaking: the record goes and the flag stays set.
StopSpeakingKeepsFlag(c) ==
    /\ speaking' = [speaking EXCEPT ![c] = NotSpeaking]
    /\ UNCHANGED isSpeaking

\* LeaveChannel and MoveClient end the speaking state of a client that leaves
\* a channel.
StopSpeaking(c) ==
    /\ speaking' = [speaking EXCEPT ![c] = NotSpeaking]
    /\ isSpeaking' = IF speaking[c] # NotSpeaking THEN isSpeaking \ {c} ELSE isSpeaking

\* Mutant of LeaveChannel: the count is decremented a second time.
LeaveChannelTwice(c) ==
    /\ c \in clients
    /\ clientChannel[c] # NoChannel
    /\ membership' = MembershipWithout(c)
    /\ count' = [CountWithout(c) EXCEPT ![clientChannel[c]] = @ - 1]
    /\ StopSpeaking(c)
    /\ clientChannel' = [clientChannel EXCEPT ![c] = NoChannel]
    /\ UNCHANGED <<clients, channelVars, subVars>>

LeaveChannel(c) ==
    /\ c \in clients
    /\ clientChannel[c] # NoChannel
    /\ membership' = MembershipWithout(c)
    /\ count' = CountWithout(c)
    /\ StopSpeaking(c)
    /\ clientChannel' = [clientChannel EXCEPT ![c] = NoChannel]
    /\ UNCHANGED <<clients, channelVars, subVars>>

\* A client that enters its first channel keeps its speaking record.
MoveClient(c, ch) ==
    /\ c \in clients
    /\ ch \in channels
    /\ clientChannel[c] # ch
    /\ Arrive(c, ch)
    /\ IF clientChannel[c] # NoChannel
       THEN StopSpeaking(c)
       ELSE UNCHANGED <<isSpeaking, speaking>>

-----------------------------------------------------------------------------
(* Subscriptions and speaking. *)

\* Unknown channels are skipped, an unknown client is ignored.
Subscribe(c, S) ==
    /\ c \in clients
    /\ subs' = [subs EXCEPT ![c] = @ \cup (S \cap channels)]
    /\ subsByChannel' = [ch \in Channels |->
                            IF ch \in S \cap channels
                            THEN subsByChannel[ch] \cup {c} ELSE subsByChannel[ch]]
    /\ UNCHANGED <<clientVars, channelVars, memberVars, speaking>>

\* Nothing happens for a client without a subscription set.
Unsubscribe(c, S) ==
    /\ subs[c] # {}
    /\ subs' = [subs EXCEPT ![c] = @ \ S]
    /\ subsByChannel' = [ch \in Channels |->
                            IF ch \in S THEN subsByChannel[ch] \ {c} ELSE subsByChannel[ch]]
    /\ UNCHANGED <<clientVars, channelVars, memberVars, speaking>>

\* SetSpeaking(c, true) records the channel the client is in, 0 included.
StartSpeaking(c) ==
    /\ c \in clients
    /\ isSpeaking' = isSpeaking \cup {c}
    /\ speaking' = [speaking EXCEPT ![c] = clientChannel[c]]
    /\ UNCHANGED <<clients, clientChannel, channelVars, memberVars, subVars>>

\* SetSpeaking(c, false).
EndSpeaking(c) ==
    /\ c \in clients
    /\ isSpeaking' = isSpeaking \ {c}
    /\ speaking' = [speaking EXCEPT ![c] = NotSpeaking]
    /\ UNCHANGED <<clients, clientChannel, channelVars, memberVars, subVars>>

-----------------------------------------------------------------------------
\* Client ids are minted per connection and channel ids by the database, so
\* neither AddClient nor AddChannel meets an id that is registered.
Next ==
    \/ \E c \in Clients \ clients : AddClient(c)
    \/ \E c \in Clients :
        \/ RemoveClient(c)
        \/ LeaveChannel(c)
        \/ StartSpeaking(c)
        \/ EndSpeaking(c)
        \/ \E ch \in Channels : JoinChannel(c, ch) \/ MoveClient(c, ch)
        \/ \E S \in SUBSET Channels : Subscribe(c, S) \/ Unsubscribe(c, S)
    \/ \E ch \in Channels, p \in ChannelOrNone, t \in ChannelTypes :
        \/ ch \notin channels /\ AddChannel(ch, p, t)
        \/ UpdateChannel(ch, p, t)
    \/ \E S \in SUBSET Channels : RemoveChannels(S)

Spec == Init /\ [][Next]_stateVars

-----------------------------------------------------------------------------
(* Properties. *)

\* Every map holds values of its Go type.
TypeOK ==
    /\ clients \subseteq Clients
    /\ clientChannel \in [Clients -> ChannelOrNone]
    /\ isSpeaking \subseteq Clients
    /\ channels \subseteq Channels
    /\ parent \in [Channels -> ChannelOrNone]
    /\ ctype \in [Channels -> ChannelTypes]
    /\ count \in [Channels -> Nat]
    /\ membership \in [Channels -> SUBSET Clients]
    /\ speaking \in [Clients -> ChannelOrNone \cup {NotSpeaking}]
    /\ subs \in [Clients -> SUBSET Channels]
    /\ subsByChannel \in [Channels -> SUBSET Clients]

\* A client is in the member set of exactly the channel its ChannelID names,
\* and only a registered channel has members: no order of joins, moves,
\* leaves, disconnects and subtree removals makes the two copies part.
MembershipMirrorsClients ==
    /\ \A ch \in Channels, c \in Clients :
        c \in membership[ch] <=> c \in clients /\ clientChannel[c] = ch
    /\ \A ch \in Channels : membership[ch] # {} => ch \in channels

\* ClientCount, which is never recomputed, is the number of members, and the
\* guard "ClientCount > 0" of the decrements is never what stops one.
CountIsMembership ==
    \A ch \in Channels : count[ch] = Cardinality(membership[ch])

\* The two subscription indexes are inverse to one another and name only
\* registered clients and channels: a disconnect or a channel removal leaves
\* no entry behind that would fan chat out to a dead client.
SubscriptionsMirror ==
    \A c \in Clients, ch \in Channels :
        /\ ch \in subs[c] <=> c \in subsByChannel[ch]
        /\ ch \in subs[c] => c \in clients /\ ch \in channels

\* The IsSpeaking flag and the speaking map agree, only registered clients
\* speak, and a record never names a channel that was removed.
SpeakingMirror ==
    \A c \in Clients :
        /\ c \in isSpeaking <=> speaking[c] # NotSpeaking
        /\ c \in isSpeaking => c \in clients
        /\ speaking[c] \in Channels => speaking[c] \in channels

=============================================================================
