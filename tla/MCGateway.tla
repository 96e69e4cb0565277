----------------------------- MODULE MCGateway -----------------------------
(* The gateway on two orders of one market: a buy of two contracts and a   *)
(* sell that crosses it, or two buys of one contract.                      *)
EXTENDS Gateway, TLC

CONSTANTS o1, o2, o3, m1

MCTerms ==
    [c \in ClientOrderIds |->
        [instrument |-> m1, side |-> IF c = o2 THEN "Sell" ELSE "Buy",
         price |-> 5, quantity |-> IF c = o1 THEN 2 ELSE 1]]

(* Orders that do not cross, one contract each. *)
MCBuys ==
    [c \in ClientOrderIds |->
        [instrument |-> m1, side |-> "Buy", price |-> 5, quantity |-> 1]]

MCFillQty == [f \in FillIds |-> 1]

(* Fill ids are interchangeable. *)
FillSymmetry == Permutations(FillIds)
=============================================================================
