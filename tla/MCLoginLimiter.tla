--------------------------- MODULE MCLoginLimiter ---------------------------
(* Logins from one source to two accounts, logins without a source scope    *)
(* and the server password, with a map that is too small for all of them.   *)
EXTENDS LoginLimiter, TLC

CONSTANTS src, pw, u1, u2, c1, c2, c3

Logins == {<<pw>>, <<src, u1>>, <<src, u2>>, <<u1>>, <<u2>>}
Symmetry == Permutations(Callers) \cup Permutations({u1, u2})
=============================================================================
