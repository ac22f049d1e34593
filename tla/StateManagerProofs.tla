------------------------- MODULE StateManagerProofs -------------------------
(***************************************************************************)
(* Proofs, for any clients and channels, of the invariants of the state    *)
(* registry that MCStateManager checks on a small instance.                *)
(***************************************************************************)
EXTENDS StateManager, FiniteSetTheorems, TLAPS

(* Every step leaves the values in their types. *)
LEMMA TypeStep == TypeOK /\ [Next]_stateVars => TypeOK'
<1> SUFFICES ASSUME TypeOK, [Next]_stateVars
             PROVE  TypeOK'
  OBVIOUS
<1> USE ChannelsAssumption, ChannelTypesAssumption
    DEF TypeOK, ChannelOrNone, NoChannel, NotSpeaking, Temporary
<1>1. CASE UNCHANGED stateVars
  BY <1>1 DEF stateVars, clientVars, channelVars, memberVars, subVars
<1>2. ASSUME NEW c \in Clients, AddClient(c)
      PROVE  TypeOK'
  BY <1>2 DEF AddClient, channelVars, memberVars, subVars
<1>3. ASSUME NEW c \in Clients
      PROVE  /\ MembershipWithout(c) \in [Channels -> SUBSET Clients]
             /\ CountWithout(c) \in [Channels -> Nat]
             /\ DroppedSubs(c) \in [Channels -> SUBSET Clients]
  BY DEF MembershipWithout, CountWithout, DroppedSubs
<1>4. ASSUME NEW c \in Clients, RemoveClient(c)
      PROVE  TypeOK'
  BY <1>3, <1>4 DEF RemoveClient, channelVars
<1>5. ASSUME NEW c \in Clients, LeaveChannel(c)
      PROVE  TypeOK'
  BY <1>3, <1>5 DEF LeaveChannel, StopSpeaking, channelVars, subVars
<1>6. ASSUME NEW c \in Clients, StartSpeaking(c) \/ EndSpeaking(c)
      PROVE  TypeOK'
  BY <1>6 DEF StartSpeaking, EndSpeaking, channelVars, memberVars, subVars
<1>7. ASSUME NEW c \in Clients, NEW ch \in Channels,
             JoinChannel(c, ch) \/ MoveClient(c, ch)
      PROVE  TypeOK'
  <2>1. /\ [MembershipWithout(c) EXCEPT ![ch] = @ \cup {c}] \in [Channels -> SUBSET Clients]
        /\ [CountWithout(c) EXCEPT ![ch] = @ + 1] \in [Channels -> Nat]
    BY <1>3
  <2>2. /\ speaking' \in [Clients -> ChannelOrNone \cup {NotSpeaking}]
        /\ isSpeaking' \subseteq Clients
    BY <1>7 DEF JoinChannel, MoveClient, StopSpeaking
  <2>3. CASE JoinChannel(c, ch)
    BY <2>1, <2>2, <2>3 DEF JoinChannel, Arrive, channelVars, subVars
  <2>4. CASE MoveClient(c, ch)
    BY <2>1, <2>2, <2>4 DEF MoveClient, Arrive, channelVars, subVars
  <2> QED
    BY <1>7, <2>3, <2>4
<1>8. ASSUME NEW c \in Clients, NEW S \in SUBSET Channels,
             Subscribe(c, S) \/ Unsubscribe(c, S)
      PROVE  TypeOK'
  <2>1. CASE Subscribe(c, S)
    BY <2>1 DEF Subscribe, clientVars, channelVars, memberVars
  <2>2. CASE Unsubscribe(c, S)
    BY <2>2 DEF Unsubscribe, clientVars, channelVars, memberVars
  <2> QED
    BY <1>8, <2>1, <2>2
<1>9. ASSUME NEW ch \in Channels, NEW p \in ChannelOrNone, NEW t \in ChannelTypes,
             AddChannel(ch, p, t) \/ UpdateChannel(ch, p, t)
      PROVE  TypeOK'
  <2>1. CASE AddChannel(ch, p, t)
    BY <2>1 DEF AddChannel, clientVars, subVars
  <2>2. CASE UpdateChannel(ch, p, t)
    BY <2>2 DEF UpdateChannel, clientVars, memberVars, subVars
  <2> QED
    BY <1>9, <2>1, <2>2
<1>10. ASSUME NEW S \in SUBSET Channels, RemoveChannels(S)
       PROVE  TypeOK'
  BY <1>10 DEF RemoveChannels, RemoveEntries, Silenced, Displaced
<1> QED
  BY <1>1, <1>2, <1>4, <1>5, <1>6, <1>7, <1>8, <1>9, <1>10 DEF Next

(* The registry starts empty, so every value has its type. *)
LEMMA TypeInit == Init => TypeOK
  BY ChannelTypesAssumption
  DEF Init, TypeOK, ChannelOrNone, NoChannel, NotSpeaking, Temporary

(* The maps of the registry hold values of their Go types for ever. *)
THEOREM TypeCorrect == Spec => []TypeOK
  BY TypeInit, TypeStep, PTL DEF Spec

-----------------------------------------------------------------------------
(* A step keeps ChannelID and the member sets copies of one another. *)
LEMMA MembershipStep ==
    TypeOK /\ MembershipMirrorsClients /\ [Next]_stateVars
        => MembershipMirrorsClients'
<1> SUFFICES ASSUME TypeOK, MembershipMirrorsClients, [Next]_stateVars
             PROVE  MembershipMirrorsClients'
  OBVIOUS
<1> USE ChannelsAssumption DEF TypeOK, MembershipMirrorsClients, ChannelOrNone, NoChannel
<1>1. CASE UNCHANGED stateVars
  BY <1>1 DEF stateVars, clientVars, channelVars, memberVars
<1>2. ASSUME NEW c \in Clients \ clients, AddClient(c)
      PROVE  MembershipMirrorsClients'
  BY <1>2 DEF AddClient, channelVars, memberVars
<1>3. ASSUME NEW c \in Clients, RemoveClient(c)
      PROVE  MembershipMirrorsClients'
  BY <1>3 DEF RemoveClient, MembershipWithout, channelVars
<1>4. ASSUME NEW c \in Clients, LeaveChannel(c)
      PROVE  MembershipMirrorsClients'
  BY <1>4 DEF LeaveChannel, MembershipWithout, channelVars
<1>5. ASSUME NEW c \in Clients, StartSpeaking(c) \/ EndSpeaking(c)
      PROVE  MembershipMirrorsClients'
  BY <1>5 DEF StartSpeaking, EndSpeaking, channelVars, memberVars
<1>6. ASSUME NEW c \in Clients, NEW ch \in Channels,
             JoinChannel(c, ch) \/ MoveClient(c, ch)
      PROVE  MembershipMirrorsClients'
  <2>1. /\ c \in clients /\ ch \in channels /\ clientChannel[c] # ch
        /\ Arrive(c, ch)
    BY <1>6 DEF JoinChannel, MoveClient
  <2>2. \A x \in Channels :
            membership'[x] = IF x = ch THEN membership[x] \cup {c}
                             ELSE IF x = clientChannel[c] THEN membership[x] \ {c}
                             ELSE membership[x]
    BY <2>1 DEF Arrive, MembershipWithout
  <2>3. /\ clientChannel' = [clientChannel EXCEPT ![c] = ch]
        /\ UNCHANGED <<clients, channels>>
    BY <2>1 DEF Arrive, channelVars
  <2>4. ASSUME NEW x \in Channels, NEW d \in Clients
        PROVE  (d \in membership[x] <=> d \in clients /\ clientChannel[d] = x)'
    <3>1. d \in membership[x] <=> d \in clients /\ clientChannel[d] = x
      OBVIOUS
    <3>2. clientChannel'[d] = IF d = c THEN ch ELSE clientChannel[d]
      BY <2>3
    <3> HIDE DEF TypeOK, MembershipMirrorsClients, ChannelOrNone
    <3>3. CASE x = ch
      BY <2>1, <2>2, <2>3, <3>1, <3>2, <3>3
    <3>4. CASE x # ch
      <4>1. membership'[x] = IF x = clientChannel[c] THEN membership[x] \ {c}
                             ELSE membership[x]
        BY <2>2, <3>4
      <4>2. CASE d = c
        BY <2>1, <2>3, <3>1, <3>2, <3>4, <4>1, <4>2
      <4>3. CASE d # c
        BY <2>3, <3>1, <3>2, <4>1, <4>3
      <4> QED
        BY <4>2, <4>3
    <3> QED
      BY <3>3, <3>4
  <2>5. ASSUME NEW x \in Channels, membership'[x] # {}
        PROVE  x \in channels'
    <3>1. membership[x] # {} => x \in channels
      OBVIOUS
    <3>2. x = ch \/ membership[x] # {}
      BY <2>2, <2>5
    <3> QED
      BY <2>1, <2>3, <3>1, <3>2
  <2> QED
    BY <2>4, <2>5
<1>7. ASSUME NEW c \in Clients, NEW S \in SUBSET Channels,
             Subscribe(c, S) \/ Unsubscribe(c, S)
      PROVE  MembershipMirrorsClients'
  BY <1>7 DEF Subscribe, Unsubscribe, clientVars, channelVars, memberVars
<1>8. ASSUME NEW ch \in Channels, NEW p \in ChannelOrNone, NEW t \in ChannelTypes,
             AddChannel(ch, p, t) \/ UpdateChannel(ch, p, t)
      PROVE  MembershipMirrorsClients'
  BY <1>8 DEF AddChannel, UpdateChannel, clientVars, memberVars
<1>9. ASSUME NEW S \in SUBSET Channels, RemoveChannels(S)
      PROVE  MembershipMirrorsClients'
  BY <1>9 DEF RemoveChannels, RemoveEntries, Displaced
<1> QED
  BY <1>1, <1>2, <1>3, <1>4, <1>5, <1>6, <1>7, <1>8, <1>9 DEF Next

(* A client is in the member set of exactly the channel its ChannelID names, *)
(* and only registered channels have members (Client.ChannelID against       *)
(* Manager.membership), whatever the order of the registry's operations.     *)
THEOREM MembershipCorrect == Spec => []MembershipMirrorsClients
<1>1. Init => MembershipMirrorsClients
  BY ChannelsAssumption DEF Init, MembershipMirrorsClients, NoChannel
<1> QED
  BY <1>1, TypeCorrect, MembershipStep, PTL DEF Spec

-----------------------------------------------------------------------------
(* A set of clients is finite and counts one less without a member. *)
LEMMA MembersFinite ==
    ASSUME NEW M \in SUBSET Clients
    PROVE  /\ IsFiniteSet(M) /\ Cardinality(M) \in Nat
           /\ M # {} => Cardinality(M) > 0
           /\ \A c \in M : Cardinality(M \ {c}) = Cardinality(M) - 1
           /\ \A c \in Clients \ M : Cardinality(M \cup {c}) = Cardinality(M) + 1
<1>1. IsFiniteSet(M)
  BY ClientsAssumption, FS_Subset
<1>2. Cardinality(M) \in Nat
  BY <1>1, FS_CardinalityType
<1>3. M # {} => Cardinality(M) > 0
  BY <1>1, <1>2, FS_EmptySet
<1>4. ASSUME NEW c \in M PROVE Cardinality(M \ {c}) = Cardinality(M) - 1
  BY <1>1, FS_RemoveElement
<1>5. ASSUME NEW c \in Clients \ M PROVE Cardinality(M \cup {c}) = Cardinality(M) + 1
  BY <1>1, FS_AddElement
<1> QED
  BY <1>1, <1>2, <1>3, <1>4, <1>5

(* The decrement of a departing client agrees with its removal from the      *)
(* member set: the guard on ClientCount never suppresses it.                 *)
LEMMA DepartureCounts ==
    ASSUME TypeOK, MembershipMirrorsClients, CountIsMembership, NEW c \in clients,
           NEW ch \in Channels
    PROVE  CountWithout(c)[ch] = Cardinality(MembershipWithout(c)[ch])
<1> USE DEF TypeOK, MembershipMirrorsClients, CountIsMembership
<1>1. CASE ch = clientChannel[c]
  <2>1. c \in membership[ch] /\ ch \in channels
    BY <1>1
  <2>2. count[ch] = Cardinality(membership[ch]) /\ count[ch] > 0
    BY <2>1, MembersFinite
  <2>3. Cardinality(membership[ch] \ {c}) = count[ch] - 1
    BY <2>1, <2>2, MembersFinite
  <2> QED
    BY <1>1, <2>1, <2>2, <2>3 DEF CountWithout, MembershipWithout
<1>2. CASE ch # clientChannel[c]
  BY <1>2 DEF CountWithout, MembershipWithout
<1> QED
  BY <1>1, <1>2

(* A step that changes a member set changes the count with it. *)
LEMMA CountStep ==
    TypeOK /\ MembershipMirrorsClients /\ CountIsMembership /\ [Next]_stateVars
        => CountIsMembership'
<1> SUFFICES ASSUME TypeOK, MembershipMirrorsClients, CountIsMembership, [Next]_stateVars,
                    NEW ch \in Channels
             PROVE  count'[ch] = Cardinality(membership'[ch])
  BY DEF CountIsMembership
<1>1. CASE UNCHANGED memberVars
  BY <1>1 DEF CountIsMembership, memberVars
<1>2. ASSUME NEW c \in Clients, RemoveClient(c) \/ LeaveChannel(c)
      PROVE  count'[ch] = Cardinality(membership'[ch])
  BY <1>2, DepartureCounts DEF RemoveClient, LeaveChannel
<1>3. ASSUME NEW c \in Clients, NEW d \in Channels,
             JoinChannel(c, d) \/ MoveClient(c, d)
      PROVE  count'[ch] = Cardinality(membership'[ch])
  <2>1. c \in clients /\ clientChannel[c] # d /\ Arrive(c, d)
    BY <1>3 DEF JoinChannel, MoveClient
  <2>2. CountWithout(c)[ch] = Cardinality(MembershipWithout(c)[ch])
    BY <2>1, DepartureCounts
  <2>3. /\ MembershipWithout(c) \in [Channels -> SUBSET Clients]
        /\ CountWithout(c) \in [Channels -> Nat]
    BY DEF TypeOK, MembershipWithout, CountWithout
  <2>4. CASE ch = d
    <3>1. c \notin MembershipWithout(c)[ch]
      BY <2>1, <2>4 DEF MembershipWithout, MembershipMirrorsClients
    <3>2. Cardinality(MembershipWithout(c)[ch] \cup {c})
            = Cardinality(MembershipWithout(c)[ch]) + 1
      BY <2>3, <3>1, MembersFinite
    <3> QED
      BY <2>1, <2>2, <2>3, <2>4, <3>2 DEF Arrive
  <2>5. CASE ch # d
    BY <2>1, <2>2, <2>3, <2>5 DEF Arrive
  <2> QED
    BY <2>4, <2>5
<1>4. ASSUME NEW d \in Channels \ channels, NEW p, NEW t, AddChannel(d, p, t)
      PROVE  count'[ch] = Cardinality(membership'[ch])
  <2>1. membership[d] = {}
    BY DEF MembershipMirrorsClients, TypeOK
  <2> QED
    BY <1>4, <2>1, FS_EmptySet DEF AddChannel, CountIsMembership, TypeOK
<1>5. ASSUME NEW S \in SUBSET Channels, RemoveChannels(S)
      PROVE  count'[ch] = Cardinality(membership'[ch])
  BY <1>5, FS_EmptySet DEF RemoveChannels, RemoveEntries, CountIsMembership
<1>6. ASSUME NEW c \in Clients, NEW S, NEW d, NEW p, NEW t,
             \/ AddClient(c) \/ StartSpeaking(c) \/ EndSpeaking(c)
             \/ Subscribe(c, S) \/ Unsubscribe(c, S) \/ UpdateChannel(d, p, t)
      PROVE  UNCHANGED memberVars
  BY <1>6 DEF AddClient, StartSpeaking, EndSpeaking, Subscribe, Unsubscribe,
              UpdateChannel, memberVars
<1>7. ASSUME NEW d, NEW p, NEW t, UpdateChannel(d, p, t)
      PROVE  UNCHANGED memberVars
  BY <1>7 DEF UpdateChannel, memberVars
<1> QED
  BY <1>1, <1>2, <1>3, <1>4, <1>5, <1>6, <1>7 DEF Next, stateVars

(* Channel.ClientCount, maintained by increments and decrements alone, is    *)
(* the number of the channel's members in every reachable state.             *)
THEOREM CountCorrect == Spec => []CountIsMembership
<1>1. Init => CountIsMembership
  BY FS_EmptySet, SMTT(20) DEF Init, CountIsMembership
<1> QED
  BY <1>1, TypeCorrect, MembershipCorrect, CountStep, PTL DEF Spec

-----------------------------------------------------------------------------
(* A step keeps the two subscription indexes inverse to one another. *)
LEMMA SubscriptionsStep ==
    TypeOK /\ SubscriptionsMirror /\ [Next]_stateVars => SubscriptionsMirror'
<1> SUFFICES ASSUME TypeOK, SubscriptionsMirror, [Next]_stateVars
             PROVE  SubscriptionsMirror'
  OBVIOUS
<1> USE DEF TypeOK, SubscriptionsMirror
<1>1. CASE UNCHANGED <<clients, channels, subVars>>
  BY <1>1 DEF subVars
<1>2. ASSUME NEW c \in Clients, AddClient(c)
      PROVE  SubscriptionsMirror'
  BY <1>2 DEF AddClient, channelVars, subVars
<1>3. ASSUME NEW c \in Clients, RemoveClient(c)
      PROVE  SubscriptionsMirror'
  BY <1>3 DEF RemoveClient, DroppedSubs, channelVars
<1>4. ASSUME NEW c \in Clients, NEW S \in SUBSET Channels, Subscribe(c, S)
      PROVE  SubscriptionsMirror'
  BY <1>4 DEF Subscribe, clientVars, channelVars
<1>5. ASSUME NEW c \in Clients, NEW S \in SUBSET Channels, Unsubscribe(c, S)
      PROVE  SubscriptionsMirror'
  BY <1>5 DEF Unsubscribe, clientVars, channelVars
<1>6. ASSUME NEW ch \in Channels, NEW p, NEW t, AddChannel(ch, p, t)
      PROVE  SubscriptionsMirror'
  BY <1>6 DEF AddChannel, clientVars, subVars
<1>7. ASSUME NEW S \in SUBSET Channels, RemoveChannels(S)
      PROVE  SubscriptionsMirror'
  BY <1>7 DEF RemoveChannels, RemoveEntries
<1>8. ASSUME NEW c, NEW ch, NEW p, NEW t,
             \/ LeaveChannel(c) \/ StartSpeaking(c) \/ EndSpeaking(c)
             \/ JoinChannel(c, ch) \/ MoveClient(c, ch) \/ UpdateChannel(ch, p, t)
      PROVE  UNCHANGED <<clients, channels, subVars>>
  BY <1>8 DEF LeaveChannel, StartSpeaking, EndSpeaking, JoinChannel, MoveClient, Arrive,
              UpdateChannel, clientVars, channelVars
<1> QED
  BY <1>1, <1>2, <1>3, <1>4, <1>5, <1>6, <1>7, <1>8
  DEF Next, stateVars, clientVars, channelVars

(* Subscriptions are dropped from both indexes by a disconnect and by the    *)
(* removal of a channel, so neither index names a client or a channel that   *)
(* is gone (Manager.subs against Manager.subsByChannel).                     *)
THEOREM SubscriptionsCorrect == Spec => []SubscriptionsMirror
<1>1. Init => SubscriptionsMirror
  BY DEF Init, SubscriptionsMirror
<1> QED
  BY <1>1, TypeCorrect, SubscriptionsStep, PTL DEF Spec

-----------------------------------------------------------------------------
(* A step keeps the speaking map and the IsSpeaking flags in agreement. *)
LEMMA SpeakingStep ==
    TypeOK /\ MembershipMirrorsClients /\ SpeakingMirror /\ [Next]_stateVars
        => SpeakingMirror'
<1> SUFFICES ASSUME TypeOK, MembershipMirrorsClients, SpeakingMirror, [Next]_stateVars
             PROVE  SpeakingMirror'
  OBVIOUS
<1> USE ChannelsAssumption DEF TypeOK, SpeakingMirror, NotSpeaking, ChannelOrNone, NoChannel
<1>1. CASE UNCHANGED <<clients, channels, isSpeaking, speaking>>
  BY <1>1
<1>2. ASSUME NEW c \in Clients \ clients, AddClient(c)
      PROVE  SpeakingMirror'
  BY <1>2 DEF AddClient, channelVars
<1>3. ASSUME NEW c \in Clients, RemoveClient(c)
      PROVE  SpeakingMirror'
  BY <1>3 DEF RemoveClient, channelVars
<1>4. ASSUME NEW c \in Clients, StopSpeaking(c), UNCHANGED <<clients, channels>>
      PROVE  SpeakingMirror'
  BY <1>4 DEF StopSpeaking
<1>5. ASSUME NEW c \in Clients, StartSpeaking(c)
      PROVE  SpeakingMirror'
  <2>1. clientChannel[c] \in Channels => clientChannel[c] \in channels
    BY <1>5 DEF StartSpeaking, MembershipMirrorsClients
  <2> QED
    BY <1>5, <2>1 DEF StartSpeaking, channelVars
<1>6. ASSUME NEW c \in Clients, EndSpeaking(c)
      PROVE  SpeakingMirror'
  BY <1>6 DEF EndSpeaking, channelVars
<1>7. ASSUME NEW ch \in Channels, NEW p, NEW t, AddChannel(ch, p, t)
      PROVE  SpeakingMirror'
  BY <1>7 DEF AddChannel, clientVars
<1>8. ASSUME NEW S \in SUBSET Channels, RemoveChannels(S)
      PROVE  SpeakingMirror'
  BY <1>8 DEF RemoveChannels, RemoveEntries, Silenced
<1>9. ASSUME NEW c \in Clients, NEW ch, LeaveChannel(c) \/ JoinChannel(c, ch) \/ MoveClient(c, ch)
      PROVE  /\ UNCHANGED <<clients, channels>>
             /\ StopSpeaking(c) \/ UNCHANGED <<isSpeaking, speaking>>
  BY <1>9 DEF LeaveChannel, JoinChannel, MoveClient, Arrive, channelVars
<1>10. ASSUME NEW c, NEW S, NEW ch, NEW p, NEW t,
              Subscribe(c, S) \/ Unsubscribe(c, S) \/ UpdateChannel(ch, p, t)
       PROVE  UNCHANGED <<clients, channels, isSpeaking, speaking>>
  BY <1>10 DEF Subscribe, Unsubscribe, UpdateChannel, clientVars, channelVars
<1> QED
  BY <1>1, <1>2, <1>3, <1>4, <1>5, <1>6, <1>7, <1>8, <1>9, <1>10
  DEF Next, stateVars, clientVars, channelVars

(* The IsSpeaking flag and the speaking map agree, and no speaking record    *)
(* names a channel that RemoveChannels took away.                            *)
THEOREM SpeakingCorrect == Spec => []SpeakingMirror
<1>1. Init => SpeakingMirror
  BY ChannelsAssumption DEF Init, SpeakingMirror, NotSpeaking
<1> QED
  BY <1>1, TypeCorrect, MembershipCorrect, SpeakingStep, PTL DEF Spec
=============================================================================
