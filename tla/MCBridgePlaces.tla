---------------------------- MODULE MCBridgePlaces ----------------------------
(* BridgePlaces with three apps, one of them with two driver instances. *)
EXTENDS BridgePlaces, TLC

CONSTANTS a, b, c, a1, a2, b1, c1

MCDrivers   == {a1, a2, b1, c1}
MCProcessOf == a1 :> a @@ a2 :> a @@ b1 :> b @@ c1 :> c

===============================================================================
