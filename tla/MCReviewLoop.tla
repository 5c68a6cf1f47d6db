---------------------------- MODULE MCReviewLoop ----------------------------
(* Small instances of ReviewLoop for TLC. *)
EXTENDS ReviewLoop, TLC

CONSTANTS A1, A2  \* slots of the addresser, interchangeable

OneOrchestrator == {"o1"}
OneReviewer   == {"r1"}
OneAddresser  == {A1}
TwoAddressers == {A1, A2}

HomeSolo == [s \in {"r1"} \cup TwoAddressers |-> "o1"]
HomeOne  == [s \in {"r1", A1} |-> "o1"]

AddresserSymmetry == Permutations(TwoAddressers)

Nothing == {}
Comments == {"COMMENTED"}
AskForChanges == {"CHANGES_REQUESTED"}

NoCalls == {}
Deletions == {"deleteRef"}
=============================================================================
