-------------------------------- MODULE Sums --------------------------------
(***************************************************************************)
(* Totals: the sum of a function's values over a finite part of its        *)
(* domain.  The books of the order store, the gateway and the sleeve       *)
(* accounting are compared with totals of what happened.                   *)
(***************************************************************************)
EXTENDS FiniteSetsExt

SumOver(f, S) == MapThenSumSet(LAMBDA x : f[x], S)
=============================================================================
