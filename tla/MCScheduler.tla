---------------------------- MODULE MCScheduler ----------------------------
(* The scheduler on small capacities. *)
EXTENDS Scheduler
=============================================================================
