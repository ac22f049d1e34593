----------------------------- MODULE MCEventBus -----------------------------
(***************************************************************************)
(* Instances of EventBus for TLC.                                          *)
(***************************************************************************)
EXTENDS EventBus

CONSTANTS s2, a

\* One subscription wants everything, the other events of one type.
SecondFiltered == [s \in Subs |-> IF s = s2 THEN {a} ELSE Types]
=============================================================================
