---------------------------- MODULE MCControlPlane ----------------------------
(* ControlPlane with two rates and two sets of rows. *)
EXTENDS ControlPlane

MCFirstTable == [rate |-> 44, rows |-> 1]
MCSaved      == {MCFirstTable, [rate |-> 48, rows |-> 2]}

===============================================================================
