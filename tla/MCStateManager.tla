--------------------------- MODULE MCStateManager ---------------------------
(* StateManager on a small instance, for TLC. *)
EXTENDS StateManager, TLC

ClientSymmetry == Permutations(Clients)
=============================================================================
