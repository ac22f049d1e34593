--------------------------- MODULE ChannelService ---------------------------
(***************************************************************************)
(* What the channel lifecycle promises to a user of the server: a tree of  *)
(* channels and the channel each client is in, changed in single steps.    *)
(* There is no mirror, no timer and no lock.                               *)
(***************************************************************************)
EXTENDS Integers

CONSTANTS Clients, Channels, ChannelTypes

VARIABLES
    exists,     \* the channels there are
    up, kind,   \* their parent (0 = root) and their type (0 = temporary)
    in          \* in[c]: the channel of client c, 0 = none

vars == <<exists, up, kind, in>>

\* ch and everything below it.
Below(ch) ==
    {d \in exists : \A S \in SUBSET exists :
        ch \in S /\ (\A x \in exists : up[x] \in S => x \in S) => d \in S}

\* No set of channels hangs in the air or on itself.
Tree(chs, par) == \A S \in SUBSET chs : S # {} => \E ch \in S : par[ch] \notin S

Init ==
    /\ exists \in SUBSET Channels
    /\ up \in [Channels -> Channels \cup {0}]
    /\ kind \in [Channels -> ChannelTypes]
    /\ Tree(exists, up)
    /\ in = [c \in Clients |-> 0]

Create(ch) ==
    /\ ch \notin exists
    /\ exists' = exists \cup {ch}
    /\ \E p \in exists \cup {0}, t \in ChannelTypes :
        /\ up' = [up EXCEPT ![ch] = p]
        /\ kind' = [kind EXCEPT ![ch] = t]
    /\ UNCHANGED in

\* A channel goes with everything below it; whoever was in one of them is in
\* none.  An administrator asks for it, or the cleanup of an unused channel.
Delete(root) ==
    LET gone == Below(root) IN
    /\ root \in exists
    /\ exists' = exists \ gone
    /\ up' = [ch \in Channels |-> IF ch \in gone THEN 0 ELSE up[ch]]
    /\ kind' = [ch \in Channels |-> IF ch \in gone THEN 0 ELSE kind[ch]]
    /\ in' = [c \in Clients |-> IF in[c] \in gone THEN 0 ELSE in[c]]

Reparent(ch, p) ==
    /\ ch \in exists
    /\ p \in (exists \ Below(ch)) \cup {0}
    /\ up' = [up EXCEPT ![ch] = p]
    /\ UNCHANGED <<exists, kind, in>>

SetType(ch, t) ==
    /\ ch \in exists
    /\ kind' = [kind EXCEPT ![ch] = t]
    /\ UNCHANGED <<exists, up, in>>

\* A client is put into a channel that exists, or into none.
Move(c, ch) ==
    /\ ch \in exists \cup {0}
    /\ in' = [in EXCEPT ![c] = ch]
    /\ UNCHANGED <<exists, up, kind>>

\* The server stops: nobody is connected any more.
Stop ==
    /\ in' = [c \in Clients |-> 0]
    /\ UNCHANGED <<exists, up, kind>>

Next ==
    \/ \E ch \in Channels : Create(ch) \/ Delete(ch)
    \/ \E ch \in Channels, p \in Channels \cup {0} : Reparent(ch, p)
    \/ \E ch \in Channels, t \in ChannelTypes : SetType(ch, t)
    \/ \E c \in Clients, ch \in Channels \cup {0} : Move(c, ch)
    \/ Stop

Spec == Init /\ [][Next]_vars
=============================================================================
