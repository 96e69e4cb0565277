--------------------------- MODULE MCAccounting ---------------------------
(* Both sides of one instrument, prices whose averages do not divide. *)
EXTENDS Accounting
=============================================================================
