-------------------------- MODULE MCChannelManager --------------------------
(***************************************************************************)
(* Instances of ChannelManager for TLC.                                    *)
(***************************************************************************)
EXTENDS ChannelManager, TLC

\* Channel 1 is temporary; every further row is created.
OneRow == {1}
Root == [ch \in Channels |-> 0]
AllTemporary == [ch \in Channels |-> Temporary]

\* Two or three rows; in the second case only channel 2 is temporary.
TwoRows == {1, 2}
ThreeRows == {1, 2, 3}
SecondTemporary == [ch \in Channels |-> IF ch = 2 THEN Temporary ELSE 2]

Symmetry == Permutations(Workers) \cup Permutations(Clients)
=============================================================================
