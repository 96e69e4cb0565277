------------------------------- MODULE MCOms -------------------------------
(* The order store on two orders of one to three contracts, three fills.  *)
EXTENDS Oms

(* A fill id doubles as the quantity it stands for, zero included. *)
MCFillQty == [f \in FillIds |-> f]
=============================================================================
