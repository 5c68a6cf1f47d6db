---------------------------- MODULE MCTaskClaim ----------------------------
(* Instances of TaskClaim for TLC: slots are named after their orchestrator. *)
EXTENDS ClaimLock, TLC

CONSTANTS a, b, a1, a2, b1

TwoOrchestrators == {a, b}
HomeOf(slots) == [s \in slots |-> IF s = b1 THEN b ELSE a]
TwoAndOne == {a1, a2, b1}
HomeTwoAndOne == HomeOf(TwoAndOne)

OneOrchestrator == {a}
OneSlot == {a1}
HomeOneSlot == HomeOf(OneSlot)
TwoSlots == {a1, a2}
HomeTwoSlots == HomeOf(TwoSlots)

OneItem == {1}

NoCalls == {}
AllButLostDeletes == {"createRef", "addLabel", "removeLabel"}
Creations == {"createRef"}
Deletions == {"deleteRef"}

=============================================================================
