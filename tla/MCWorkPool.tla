----------------------------- MODULE MCWorkPool -----------------------------
(* Instances of WorkPool for TLC. *)
EXTENDS WorkPool

CONSTANTS i1, i2

ImplementerAndAddresser == <<"implementer", "addresser">>
TwoIssuesAndPR == {<<"implementer", 1>>, <<"implementer", 2>>, <<"addresser", 3>>}
FirstIssue == {<<"implementer", 1>>}
SecondIssue == {<<"implementer", 2>>}

OneImplementer == {i1}
PoolOne == [s \in OneImplementer |-> "implementer"]
TwoImplementers == {i1, i2}
PoolTwo == [s \in TwoImplementers |-> "implementer"]

Nothing == {}
=============================================================================
