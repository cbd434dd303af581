---------------------------- MODULE MCVirtualCable ----------------------------
(* VirtualCable on rings of a few frames. *)
EXTENDS VirtualCable

===============================================================================
