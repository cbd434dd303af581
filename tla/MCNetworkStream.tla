---------------------------- MODULE MCNetworkStream ----------------------------
(* NetworkStream on a few packets and small numbers. *)
EXTENDS NetworkStream

===============================================================================
