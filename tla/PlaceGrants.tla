------------------------------ MODULE PlaceGrants ------------------------------
(***************************************************************************)
(* What a Bridge's places promise to the apps, whatever the protocol:      *)
(* a driver instance is granted a place no running app's instance has, and *)
(* a place comes back when its holder returns it or the app is gone, with  *)
(* the other places the app had.                                           *)
(***************************************************************************)
EXTENDS Integers

CONSTANTS Places, Drivers

NoPlace == -1

VARIABLE holds  \* holds[driver]: its place, or NoPlace

Init == holds = [d \in Drivers |-> NoPlace]

Grant(d, p) ==
  /\ holds[d] = NoPlace
  /\ \A e \in Drivers : holds[e] # p
  /\ holds' = [holds EXCEPT ![d] = p]

Return(ds) ==
  /\ \A d \in ds : holds[d] \in Places
  /\ holds' = [d \in Drivers |-> IF d \in ds THEN NoPlace ELSE holds[d]]

Next ==
  \/ \E d \in Drivers, p \in Places : Grant(d, p)
  \/ \E ds \in SUBSET Drivers : Return(ds)

Spec == Init /\ [][Next]_holds

\* A place has one holder.
OneHolder ==
  \A d, e \in Drivers : holds[d] = holds[e] /\ holds[d] # NoPlace => d = e

===============================================================================
