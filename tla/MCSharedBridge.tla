---------------------------- MODULE MCSharedBridge ----------------------------
(* SharedBridge on a small region. *)
EXTENDS SharedBridge

===============================================================================
