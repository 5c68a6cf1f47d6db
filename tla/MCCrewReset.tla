---------------------------- MODULE MCCrewReset ----------------------------
(* Instances of CrewReset for TLC. *)
EXTENDS CrewReset

CONSTANTS a, a1

OneOrchestrator == {a}
OneSlot == {a1}
HomeOneSlot == [s \in OneSlot |-> a]
OneItem == {1}
NoCalls == {}
=============================================================================
