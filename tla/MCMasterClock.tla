----------------------------- MODULE MCMasterClock -----------------------------
(* MasterClock on a few ticks. *)
EXTENDS MasterClock

===============================================================================
