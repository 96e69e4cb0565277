-------------------------------- MODULE MCRfi --------------------------------
(* The first-inning study on its own: two games that overlap. *)
EXTENDS RfiStudy

print(at, price, quantity) == [at |-> at, price |-> price, quantity |-> quantity]
MCTapes == {<<print(0, 30, 2), print(1, 60, 1)>>, <<print(1, 44, 0), print(3, 90, 0)>>}
MCContexts == {<<>>}

Init ==
    /\ today = 0
    /\ left = [days |-> 0, commands |-> 2]
    /\ world \in RfiWorlds
    /\ files = <<>>

Spec == Init /\ [][RfiNext]_lab_vars
=============================================================================
