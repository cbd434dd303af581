----------------------------- MODULE DriverProofs -----------------------------
(***************************************************************************)
(* Proofs about what a driver does beside the audio.                       *)
(*                                                                         *)
(* BridgePlaces, for every set of apps and driver instances and every      *)
(* number of places: the safety properties, from the inductive invariant   *)
(* IInv, and that the places' protocol implements PlaceGrants.  OwnKeeps   *)
(* and NextPlaceKeeps stand for the two ways a step of a claim can go; the *)
(* actions of the claim follow from them.                                  *)
(*                                                                         *)
(* ControlPlane, for any tables and any number of Saves and rate changes:  *)
(* a DAW with an old view is asked to reset, from PlaneInv.                *)
(***************************************************************************)
EXTENDS BridgePlaces, ControlPlane, TLAPS

LEMMA ProcessOfDriver == \A d \in Drivers : ProcessOf[d] \in Processes /\ ProcessOf[d] # NoProcess
  BY ProcessAssumption

LEMMA InitInv == Init => IInv
  BY ProcessAssumption, PlacesAssumption, SMT
  DEF Init, IInv, TypeOK, OwnedInv, HolderInv, SeenInv, CountIsHolders, ScanInv, Claiming,
      Holding, Places

\* Taking a place that is free, or that an app that is gone has left.
LEMMA OwnKeeps ==
  ASSUME NEW d \in Drivers, NEW from \in {"free", "exchange"}, IInv, Own(d, from), Observe,
         owner[place[d]] \in dead \cup {NoProcess}
  PROVE  IInv'
<1> USE ProcessAssumption, PlacesAssumption, ProcessOfDriver
       DEF IInv, Own, Goes, region, Live, Places, Holding
<1>1. TypeOK'
  <2>1. dead' \subseteq Processes /\ counted' \in [Places -> BOOLEAN]
    BY SMT DEF TypeOK
  <2>2. owner' \in [Places -> Processes \cup {NoProcess}]
    BY SMT DEF TypeOK
  <2>3. pc' \in [Drivers -> {"closed"} \cup Claiming \cup Holding]
    BY SMT DEF TypeOK, Claiming
  <2>4. place' \in [Drivers -> Places]
    BY SMT DEF TypeOK
  <2>5. held' \in [Drivers -> Processes \cup {NoProcess}]
    BY SMT DEF TypeOK
  <2>6. openSince' \in [Drivers -> SUBSET Places]
    BY SMT DEF TypeOK, Observe, OpenPlaces
  <2> QED
    BY <2>1, <2>2, <2>3, <2>4, <2>5, <2>6 DEF TypeOK
<1>7. ASSUME NEW e \in Drivers, pc[e] \in Holding PROVE place[e] # place[d]
  <2>1. owner[place[e]] = ProcessOf[e] /\ ProcessOf[e] \notin dead
    BY <1>7, SMT DEF OwnedInv
  <2> QED
    BY <2>1, SMT
<1>2. OwnedInv'
  BY <1>7, SMT DEF OwnedInv, TypeOK
<1>3. HolderInv'
  BY <1>7, SMT DEF HolderInv, TypeOK
<1>4. SeenInv'
  BY SMT DEF SeenInv, OwnedInv, TypeOK
<1>5. CountIsHolders'
  BY SMT DEF CountIsHolders, HolderInv, OwnedInv, TypeOK
<1>6. ScanInv'
  BY SMT DEF ScanInv, OwnedInv, SeenInv, TypeOK, OpenPlaces, Observe, Claiming
<1> QED
  BY <1>1, <1>2, <1>3, <1>4, <1>5, <1>6

\* Going by a place that was not there for the claim all along.
LEMMA NextPlaceKeeps ==
  ASSUME NEW d \in Drivers, NEW from \in Claiming,
         NEW loop \in {"free", "take"}, NEW end \in {"take", "closed"},
         IF from = "free" THEN loop = "free" /\ end = "take" ELSE loop = "take" /\ end = "closed",
         IInv, NextPlace(d, from, loop, end), Observe,
         \A p \in openSince[d] : p = place[d] => from = "free" /\ owner[p] \in dead
  PROVE  IInv'
<1> USE ProcessAssumption, PlacesAssumption, ProcessOfDriver
       DEF IInv, NextPlace, Goes, Last, Claiming, region, Live, Places, Holding
<1>1. TypeOK'
  <2>1. dead' \subseteq Processes /\ counted' \in [Places -> BOOLEAN]
    BY SMT DEF TypeOK
  <2>2. owner' \in [Places -> Processes \cup {NoProcess}]
    BY SMT DEF TypeOK
  <2>3. pc' \in [Drivers -> {"closed"} \cup Claiming \cup Holding]
    BY SMT DEF TypeOK, Claiming
  <2>4. place' \in [Drivers -> Places]
    BY SMT DEF TypeOK
  <2>5. held' \in [Drivers -> Processes \cup {NoProcess}]
    BY SMT DEF TypeOK
  <2>6. openSince' \in [Drivers -> SUBSET Places]
    BY SMT DEF TypeOK, Observe, OpenPlaces
  <2> QED
    BY <2>1, <2>2, <2>3, <2>4, <2>5, <2>6 DEF TypeOK
<1>2. OwnedInv'
  BY SMT DEF OwnedInv, TypeOK, HolderInv, SeenInv
<1>3. HolderInv'
  BY SMT DEF HolderInv, OwnedInv, SeenInv, TypeOK
<1>4. SeenInv'
  BY SMT DEF SeenInv, OwnedInv, TypeOK
<1>5. CountIsHolders'
  BY SMT DEF CountIsHolders, HolderInv, OwnedInv, TypeOK
<1>6. ScanInv'
  BY SMT DEF ScanInv, OwnedInv, SeenInv, TypeOK, OpenPlaces, Observe, Claiming
<1> QED
  BY <1>1, <1>2, <1>3, <1>4, <1>5, <1>6

LEMMA ClaimKeeps ==
  ASSUME NEW d \in Drivers, IInv, Claim(d), Observe
  PROVE  IInv'
<1> USE ProcessAssumption, PlacesAssumption, ProcessOfDriver
       DEF IInv, Claim, Goes, region, Live, Places, Holding
<1>1. TypeOK'
  BY SMT DEF TypeOK, SeenInv, Observe, OpenPlaces, Claiming
<1>2. OwnedInv'
  BY SMT DEF OwnedInv, TypeOK, HolderInv, SeenInv
<1>3. HolderInv'
  BY SMT DEF HolderInv, OwnedInv, SeenInv, TypeOK
<1>4. SeenInv'
  BY SMT DEF SeenInv, OwnedInv, TypeOK
<1>5. CountIsHolders'
  BY SMT DEF CountIsHolders, HolderInv, OwnedInv, TypeOK
<1>6. ScanInv'
  BY SMT DEF ScanInv, OwnedInv, SeenInv, TypeOK, OpenPlaces, Observe, Claiming
<1> QED
  BY <1>1, <1>2, <1>3, <1>4, <1>5, <1>6

LEMMA ResetCountKeeps ==
  ASSUME NEW d \in Drivers, IInv, ResetCount(d), Observe
  PROVE  IInv'
<1> USE ProcessAssumption, PlacesAssumption, ProcessOfDriver
       DEF IInv, ResetCount, Goes, region, Live, Places, Holding
<1>1. TypeOK'
  BY SMT DEF TypeOK, SeenInv, Observe, OpenPlaces, Claiming
<1>2. OwnedInv'
  BY SMT DEF OwnedInv, TypeOK, HolderInv, SeenInv
<1>3. HolderInv'
  BY SMT DEF HolderInv, OwnedInv, SeenInv, TypeOK
<1>4. SeenInv'
  BY SMT DEF SeenInv, OwnedInv, TypeOK
<1>5. CountIsHolders'
  BY SMT DEF CountIsHolders, HolderInv, OwnedInv, TypeOK
<1>6. ScanInv'
  BY SMT DEF ScanInv, OwnedInv, SeenInv, TypeOK, OpenPlaces, Observe, Claiming
<1> QED
  BY <1>1, <1>2, <1>3, <1>4, <1>5, <1>6

LEMMA StartRunKeeps ==
  ASSUME NEW d \in Drivers, IInv, StartRun(d), Observe
  PROVE  IInv'
<1> USE ProcessAssumption, PlacesAssumption, ProcessOfDriver
       DEF IInv, StartRun, Goes, region, Live, Places, Holding
<1>1. TypeOK'
  BY SMT DEF TypeOK, SeenInv, Observe, OpenPlaces, Claiming
<1>2. OwnedInv'
  BY SMT DEF OwnedInv, TypeOK, HolderInv, SeenInv
<1>3. HolderInv'
  BY SMT DEF HolderInv, OwnedInv, SeenInv, TypeOK
<1>4. SeenInv'
  BY SMT DEF SeenInv, OwnedInv, TypeOK
<1>5. CountIsHolders'
  BY SMT DEF CountIsHolders, HolderInv, OwnedInv, TypeOK
<1>6. ScanInv'
  BY SMT DEF ScanInv, OwnedInv, SeenInv, TypeOK, OpenPlaces, Observe, Claiming
<1> QED
  BY <1>1, <1>2, <1>3, <1>4, <1>5, <1>6

LEMMA StopRunKeeps ==
  ASSUME NEW d \in Drivers, IInv, StopRun(d), Observe
  PROVE  IInv'
<1> USE ProcessAssumption, PlacesAssumption, ProcessOfDriver
       DEF IInv, StopRun, Goes, region, Live, Places, Holding
<1>1. TypeOK'
  BY SMT DEF TypeOK, SeenInv, Observe, OpenPlaces, Claiming
<1>2. OwnedInv'
  BY SMT DEF OwnedInv, TypeOK, HolderInv, SeenInv
<1>3. HolderInv'
  BY SMT DEF HolderInv, OwnedInv, SeenInv, TypeOK
<1>4. SeenInv'
  BY SMT DEF SeenInv, OwnedInv, TypeOK
<1>5. CountIsHolders'
  BY SMT DEF CountIsHolders, HolderInv, OwnedInv, TypeOK
<1>6. ScanInv'
  BY SMT DEF ScanInv, OwnedInv, SeenInv, TypeOK, OpenPlaces, Observe, Claiming
<1> QED
  BY <1>1, <1>2, <1>3, <1>4, <1>5, <1>6

LEMMA ReleaseFirstKeeps ==
  ASSUME NEW d \in Drivers, IInv, Goes(d, "stopped", "releasing"), Uncount(d), UNCHANGED place,
         UNCHANGED <<dead, held>>, Observe
  PROVE  IInv'
<1> USE ProcessAssumption, PlacesAssumption, ProcessOfDriver
       DEF IInv, Goes, Uncount, Disown, region, Live, Places, Holding
<1>1. TypeOK'
  BY SMT DEF TypeOK, SeenInv, Observe, OpenPlaces, Claiming
<1>2. OwnedInv'
  BY SMT DEF OwnedInv, TypeOK, HolderInv, SeenInv
<1>3. HolderInv'
  BY SMT DEF HolderInv, OwnedInv, SeenInv, TypeOK
<1>4. SeenInv'
  BY SMT DEF SeenInv, OwnedInv, TypeOK
<1>5. CountIsHolders'
  BY SMT DEF CountIsHolders, HolderInv, OwnedInv, TypeOK
<1>6. ScanInv'
  BY SMT DEF ScanInv, OwnedInv, SeenInv, TypeOK, OpenPlaces, Observe, Claiming
<1> QED
  BY <1>1, <1>2, <1>3, <1>4, <1>5, <1>6

LEMMA ReleaseLastKeeps ==
  ASSUME NEW d \in Drivers, IInv, Goes(d, "releasing", "closed"), Disown(d),
         place' = [place EXCEPT ![d] = 0],
         UNCHANGED <<dead, held>>, Observe
  PROVE  IInv'
<1> USE ProcessAssumption, PlacesAssumption, ProcessOfDriver
       DEF IInv, Goes, Uncount, Disown, region, Live, Places, Holding
<1>1. TypeOK'
  BY SMT DEF TypeOK, SeenInv, Observe, OpenPlaces, Claiming
<1>2. OwnedInv'
  BY SMT DEF OwnedInv, TypeOK, HolderInv, SeenInv
<1>3. HolderInv'
  BY SMT DEF HolderInv, OwnedInv, SeenInv, TypeOK
<1>4. SeenInv'
  BY SMT DEF SeenInv, OwnedInv, TypeOK
<1>5. CountIsHolders'
  BY SMT DEF CountIsHolders, HolderInv, OwnedInv, TypeOK
<1>6. ScanInv'
  BY SMT DEF ScanInv, OwnedInv, SeenInv, TypeOK, OpenPlaces, Observe, Claiming
<1> QED
  BY <1>1, <1>2, <1>3, <1>4, <1>5, <1>6

LEMMA DieKeeps ==
  ASSUME NEW q \in Processes, IInv, Die(q), Observe
  PROVE  IInv'
<1> USE ProcessAssumption, PlacesAssumption, ProcessOfDriver
       DEF IInv, Die, region, Live, Places, Holding
<1>1. TypeOK'
  BY SMT DEF TypeOK, SeenInv, Observe, OpenPlaces, Claiming
<1>2. OwnedInv'
  BY SMT DEF OwnedInv, TypeOK, HolderInv, SeenInv
<1>3. HolderInv'
  BY SMT DEF HolderInv, OwnedInv, SeenInv, TypeOK
<1>4. SeenInv'
  BY SMT DEF SeenInv, OwnedInv, TypeOK
<1>5. CountIsHolders'
  BY SMT DEF CountIsHolders, HolderInv, OwnedInv, TypeOK
<1>6. ScanInv'
  BY SMT DEF ScanInv, OwnedInv, SeenInv, TypeOK, OpenPlaces, Observe, Claiming
<1> QED
  BY <1>1, <1>2, <1>3, <1>4, <1>5, <1>6

LEMMA NewRegionKeeps ==
  ASSUME IInv, NewRegion, Observe
  PROVE  IInv'
<1> USE ProcessAssumption, PlacesAssumption, ProcessOfDriver
       DEF IInv, NewRegion, region, Live, Places, Holding
<1>1. TypeOK'
  BY SMT DEF TypeOK, SeenInv, Observe, OpenPlaces, Claiming
<1>2. OwnedInv'
  BY SMT DEF OwnedInv, TypeOK, HolderInv, SeenInv
<1>3. HolderInv'
  BY SMT DEF HolderInv, OwnedInv, SeenInv, TypeOK
<1>4. SeenInv'
  BY SMT DEF SeenInv, OwnedInv, TypeOK
<1>5. CountIsHolders'
  BY SMT DEF CountIsHolders, HolderInv, OwnedInv, TypeOK
<1>6. ScanInv'
  BY SMT DEF ScanInv, OwnedInv, SeenInv, TypeOK, OpenPlaces, Observe, Claiming
<1> QED
  BY <1>1, <1>2, <1>3, <1>4, <1>5, <1>6

LEMMA SeeOwnerKeeps ==
  ASSUME NEW d \in Drivers, IInv, Goes(d, "take", "check"),
         owner[place[d]] \notin {NoProcess, ProcessOf[d]},
         held' = [held EXCEPT ![d] = owner[place[d]]],
         UNCHANGED <<dead, region, place>>, Observe
  PROVE  IInv'
<1> USE ProcessAssumption, PlacesAssumption, ProcessOfDriver
       DEF IInv, Goes, region, Live, Places, Holding
<1>1. TypeOK'
  BY SMT DEF TypeOK, SeenInv, Observe, OpenPlaces, Claiming
<1>2. OwnedInv'
  BY SMT DEF OwnedInv, TypeOK, HolderInv, SeenInv
<1>3. HolderInv'
  BY SMT DEF HolderInv, OwnedInv, SeenInv, TypeOK
<1>4. SeenInv'
  BY SMT DEF SeenInv, OwnedInv, TypeOK
<1>5. CountIsHolders'
  BY SMT DEF CountIsHolders, HolderInv, OwnedInv, TypeOK
<1>6. ScanInv'
  BY SMT DEF ScanInv, OwnedInv, SeenInv, TypeOK, OpenPlaces, Observe, Claiming
<1> QED
  BY <1>1, <1>2, <1>3, <1>4, <1>5, <1>6

LEMMA SeeGoneKeeps ==
  ASSUME NEW d \in Drivers, IInv, Goes(d, "check", "exchange"), held[d] \in dead,
         UNCHANGED <<dead, region, place, held>>, Observe
  PROVE  IInv'
<1> USE ProcessAssumption, PlacesAssumption, ProcessOfDriver
       DEF IInv, Goes, region, Live, Places, Holding
<1>1. TypeOK'
  BY SMT DEF TypeOK, SeenInv, Observe, OpenPlaces, Claiming
<1>2. OwnedInv'
  BY SMT DEF OwnedInv, TypeOK, HolderInv, SeenInv
<1>3. HolderInv'
  BY SMT DEF HolderInv, OwnedInv, SeenInv, TypeOK
<1>4. SeenInv'
  BY SMT DEF SeenInv, OwnedInv, TypeOK
<1>5. CountIsHolders'
  BY SMT DEF CountIsHolders, HolderInv, OwnedInv, TypeOK
<1>6. ScanInv'
  BY SMT DEF ScanInv, OwnedInv, SeenInv, TypeOK, OpenPlaces, Observe, Claiming
<1> QED
  BY <1>1, <1>2, <1>3, <1>4, <1>5, <1>6

\* A place that is not there for the scan was not there all along.
LEMMA TryFreeKeeps ==
  ASSUME NEW d \in Drivers, IInv, TryFree(d), Observe
  PROVE  IInv'
<1>1. CASE owner[place[d]] = NoProcess /\ Own(d, "free")
  BY <1>1, OwnKeeps
<1>2. CASE owner[place[d]] # NoProcess /\ NextPlace(d, "free", "free", "take")
  <2>1. \A p \in openSince[d] : p = place[d] => owner[p] \in dead
    BY <1>2 DEF IInv, ScanInv, OpenPlaces
  <2> QED
    BY <1>2, <2>1, NextPlaceKeeps DEF Claiming
<1> QED
  BY <1>1, <1>2 DEF TryFree

LEMMA LookAtOwnerKeeps ==
  ASSUME NEW d \in Drivers, IInv, LookAtOwner(d), Observe
  PROVE  IInv'
<1>1. CASE /\ owner[place[d]] \notin {NoProcess, ProcessOf[d]}
           /\ Goes(d, "take", "check")
           /\ held' = [held EXCEPT ![d] = owner[place[d]]]
           /\ UNCHANGED <<dead, region, place>>
  BY <1>1, SeeOwnerKeeps
<1>2. CASE owner[place[d]] \in {NoProcess, ProcessOf[d]} /\ NextPlace(d, "take", "take", "closed")
  <2>1. owner[place[d]] \notin dead
    BY <1>2, ProcessAssumption DEF IInv, TypeOK, NextPlace, Goes, Live
  <2>2. \A p \in openSince[d] : p # place[d]
    BY <1>2, <2>1, SMT DEF IInv, ScanInv, NextPlace, Goes
  <2> QED
    BY <1>2, <2>2, NextPlaceKeeps, SMT DEF Claiming
<1> QED
  BY <1>1, <1>2 DEF LookAtOwner

LEMMA CheckOwnerKeeps ==
  ASSUME NEW d \in Drivers, IInv, CheckOwner(d), Observe
  PROVE  IInv'
<1>1. CASE /\ ~ProcessRunning(held[d])
           /\ Goes(d, "check", "exchange")
           /\ UNCHANGED <<dead, region, place, held>>
  BY <1>1, SeeGoneKeeps DEF ProcessRunning
<1>2. CASE ProcessRunning(held[d]) /\ NextPlace(d, "check", "take", "closed")
  <2>1. \A p \in openSince[d] : p # place[d]
    BY <1>2, SMT DEF IInv, ScanInv, NextPlace, Goes, ProcessRunning
  <2> QED
    BY <1>2, <2>1, NextPlaceKeeps, SMT DEF Claiming
<1> QED
  BY <1>1, <1>2 DEF CheckOwner

LEMMA TakeOverKeeps ==
  ASSUME NEW d \in Drivers, IInv, TakeOver(d), Observe
  PROVE  IInv'
<1>1. CASE owner[place[d]] = held[d] /\ Own(d, "exchange")
  <2>1. owner[place[d]] \in dead
    BY <1>1 DEF IInv, SeenInv, Own, Goes
  <2> QED
    BY <1>1, <2>1, OwnKeeps
<1>2. CASE owner[place[d]] # held[d] /\ NextPlace(d, "exchange", "take", "closed")
  <2>1. \A p \in openSince[d] : p # place[d]
    BY <1>2, SMT DEF IInv, ScanInv, NextPlace, Goes
  <2> QED
    BY <1>2, <2>1, NextPlaceKeeps, SMT DEF Claiming
<1> QED
  BY <1>1, <1>2 DEF TakeOver

LEMMA ReleaseKeeps ==
  ASSUME NEW d \in Drivers, IInv, Release(d), Observe
  PROVE  IInv'
  BY ReleaseFirstKeeps, ReleaseLastKeeps DEF Release, ReleaseStep

LEMMA StepInv == IInv /\ [Next]_vars => IInv'
<1> SUFFICES ASSUME IInv, [Next]_vars PROVE IInv'
  OBVIOUS
<1>1. CASE UNCHANGED vars
  BY <1>1, SMT DEF vars, region, IInv, TypeOK, OwnedInv, HolderInv, SeenInv, CountIsHolders,
     ScanInv, OpenPlaces, Live
<1>2. ASSUME NEW d \in Drivers, Step(d), Observe PROVE IInv'
  BY <1>2, ClaimKeeps, TryFreeKeeps, LookAtOwnerKeeps, CheckOwnerKeeps, TakeOverKeeps,
     ResetCountKeeps, StartRunKeeps, StopRunKeeps, ReleaseKeeps DEF Step
<1>3. ASSUME NEW process \in Processes, Die(process), Observe PROVE IInv'
  BY <1>3, DieKeeps
<1>4. CASE NewRegion /\ Observe
  BY <1>4, NewRegionKeeps
<1> QED
  BY <1>1, <1>2, <1>3, <1>4 DEF Next

\* IInv holds in every reachable state.
THEOREM Invariance == Spec => []IInv
  BY InitInv, StepInv, PTL DEF Spec

\* Every variable stays within its type.
THEOREM TypeCorrect == Spec => []TypeOK
<1>1. IInv => TypeOK
  BY DEF IInv
<1> QED
  BY <1>1, Invariance, PTL

\* A place's count is written by its holder only (claimClientPlace,
\* releaseClientPlace).
THEOREM CountsKept == Spec => []CountIsHolders
<1>1. IInv => CountIsHolders
  BY DEF IInv
<1> QED
  BY <1>1, Invariance, PTL

\* A claim that finds the Bridge full passed by no place it could have had
\* from its first moment on (claimClientPlace).
THEOREM FullIsRight == Spec => FullIsFull
<1> DEFINE A == \A d \in Drivers :
     pc[d] \in Claiming /\ pc'[d] = "closed" => openSince[d] = {} \/ ~Live(d)'
<1>1. ASSUME IInv, Next PROVE A
  <2> SUFFICES ASSUME NEW d \in Drivers, pc[d] \in Claiming, pc'[d] = "closed", Live(d)'
               PROVE  openSince[d] = {}
    OBVIOUS
  <2> USE ProcessAssumption, PlacesAssumption, ProcessOfDriver DEF IInv
  <2>1. LookAtOwner(d) \/ CheckOwner(d) \/ TakeOver(d)
    <3>1. ASSUME NEW e \in Drivers, Step(e) PROVE LookAtOwner(d) \/ CheckOwner(d) \/ TakeOver(d)
      BY <1>1, <3>1, SMT DEF Step, Claim, TryFree, Own, NextPlace, Goes, LookAtOwner, CheckOwner,
         TakeOver, ResetCount, StartRun, StopRun, Release, Claiming, TypeOK
    <3>2. ASSUME NEW process \in Processes, Die(process) PROVE FALSE
      BY <1>1, <3>2, SMT DEF Die, Live, Claiming, TypeOK
    <3>3. ~NewRegion
      BY <1>1, SMT DEF NewRegion, Claiming
    <3> QED
      BY <1>1, <3>1, <3>2, <3>3 DEF Next
  <2>2. Last(place[d]) /\ pc[d] \in {"take", "check", "exchange"}
    BY <1>1, <2>1, SMT DEF LookAtOwner, CheckOwner, TakeOver, Own, NextPlace, Goes, TypeOK
  <2>3. \A p \in openSince[d] : p = place[d] /\ owner[p] \in dead
    BY <1>1, <2>2, SMT DEF ScanInv, Last, OpenPlaces, Places, TypeOK
  <2>4. CASE LookAtOwner(d)
    BY <1>1, <2>3, <2>4, SMT DEF LookAtOwner, NextPlace, Goes, Live, TypeOK
  <2>5. CASE CheckOwner(d)
    BY <1>1, <2>3, <2>5, SMT DEF CheckOwner, NextPlace, Goes, ProcessRunning, ScanInv, TypeOK
  <2>6. CASE TakeOver(d)
    BY <1>1, <2>3, <2>6, SMT DEF TakeOver, Own, NextPlace, Goes, ScanInv, TypeOK
  <2> QED
    BY <2>1, <2>4, <2>5, <2>6
<1>2. IInv /\ [Next]_vars => [A]_vars
  BY <1>1
<1> QED
  BY <1>2, Invariance, PTL DEF Spec, FullIsFull

-----------------------------------------------------------------------------
(***************************************************************************)
(* The refinement: only Own grants a place, and what Release and Die do is *)
(* a return.                                                               *)
(***************************************************************************)

\* The place a driver instance has.
Holds == [d \in Drivers |-> IF pc[d] \in Holding THEN place[d] ELSE -1]

LEMMA OwnGrants ==
  ASSUME NEW d \in Drivers, NEW from \in Claiming, IInv, Own(d, from),
         owner[place[d]] \in dead \cup {NoProcess}
  PROVE  Grants!Next
<1> USE ProcessAssumption, PlacesAssumption, ProcessOfDriver DEF IInv
<1>1. PICK p \in Places : p = place[d]
  BY DEF TypeOK
<1>2. p # -1
  BY SMT DEF Places
<1>3. Holds[d] = -1
  BY SMT DEF Holds, Own, Goes, Claiming, Holding
<1>4. \A e \in Drivers : Holds[e] # p
  BY <1>1, <1>2, SMT DEF Holds, OwnedInv, Live, Holding, TypeOK
<1>5. Holds' = [Holds EXCEPT ![d] = p]
  <2>1. \A e \in Drivers : pc'[e] \in Holding <=> e = d \/ pc[e] \in Holding
    BY SMT DEF Own, Goes, TypeOK, Holding
  <2>2. place' = place
    BY DEF Own
  <2>3. \A e \in Drivers : Holds'[e] = IF e = d THEN p ELSE Holds[e]
    BY <1>1, <2>1, <2>2 DEF Holds
  <2> QED
    BY <2>3 DEF Holds
<1>6. Grants!Grant(d, p)
  BY <1>3, <1>4, <1>5 DEF Grants!Grant, Grants!NoPlace, Holds
<1> QED
  BY <1>6 DEF Grants!Next

LEMMA StepGrants == IInv /\ [Next]_vars => [Grants!Next]_Holds
<1> SUFFICES ASSUME IInv, [Next]_vars PROVE Grants!Next \/ UNCHANGED Holds
  BY DEF Holds
<1> USE ProcessAssumption, PlacesAssumption, ProcessOfDriver DEF IInv
<1>1. CASE UNCHANGED vars
  BY <1>1 DEF vars, Holds
<1>2. ASSUME NEW d \in Drivers, Step(d) PROVE Grants!Next \/ UNCHANGED Holds
  <2>1. ASSUME NEW from \in Claiming, NEW loop \in {"free", "take"}, NEW end \in {"take", "closed"},
               NextPlace(d, from, loop, end)
        PROVE  UNCHANGED Holds
    BY <2>1, SMT DEF NextPlace, Goes, Holds, Holding, Claiming, TypeOK
  <2>2. CASE TryFree(d)
    BY <2>1, <2>2, OwnGrants DEF TryFree, Claiming
  <2>3. CASE TakeOver(d)
    <3>1. owner[place[d]] = held[d] /\ Own(d, "exchange") => owner[place[d]] \in dead
      BY SMT DEF SeenInv, Own, Goes
    <3> QED
      BY <2>1, <2>3, <3>1, OwnGrants DEF TakeOver, Claiming
  <2>4. CASE Claim(d)
    BY <2>4, SMT DEF Claim, Goes, Holds, Holding, TypeOK
  <2>5. CASE LookAtOwner(d)
    <3>1. CASE Goes(d, "take", "check") /\ UNCHANGED place
      BY <3>1, SMT DEF Goes, Holds, Holding, TypeOK
    <3> QED
      BY <2>1, <2>5, <3>1 DEF LookAtOwner, Claiming
  <2>6. CASE CheckOwner(d)
    <3>1. CASE Goes(d, "check", "exchange") /\ UNCHANGED place
      BY <3>1, SMT DEF Goes, Holds, Holding, TypeOK
    <3> QED
      BY <2>1, <2>6, <3>1 DEF CheckOwner, Claiming
  <2>7. CASE ResetCount(d) \/ StartRun(d) \/ StopRun(d)
    BY <2>7, SMT DEF ResetCount, StartRun, StopRun, Goes, Holds, Holding, TypeOK
  <2>8. CASE Release(d)
    <3>1. CASE Goes(d, "stopped", "releasing") /\ UNCHANGED place
      BY <3>1, SMT DEF Goes, Holds, Holding, TypeOK
    <3>2. CASE Goes(d, "releasing", "closed") /\ place' = [place EXCEPT ![d] = 0]
      <4>1. Holds[d] \in Places
        BY <3>2, SMT DEF Goes, Holds, Holding, TypeOK
      <4>2. Holds' = [e \in Drivers |-> IF e \in {d} THEN -1 ELSE Holds[e]]
        BY <3>2, SMT DEF Goes, Holds, Holding, TypeOK
      <4>3. Grants!Return({d})
        BY <4>1, <4>2 DEF Grants!Return, Grants!NoPlace, Holds
      <4> QED
        BY <4>3 DEF Grants!Next
    <3> QED
      BY <2>8, <3>1, <3>2 DEF Release
  <2> QED
    BY <1>2, <2>2, <2>3, <2>4, <2>5, <2>6, <2>7, <2>8 DEF Step
<1>3. ASSUME NEW process \in Processes, Die(process) PROVE Grants!Next \/ UNCHANGED Holds
  <2> PICK ds \in SUBSET Drivers : ds =
         {d \in Drivers : ProcessOf[d] = process /\ pc[d] \in Holding}
    OBVIOUS
  <2>1. \A d \in ds : Holds[d] \in Places
    BY SMT DEF Holds, TypeOK
  <2>2. Holds' = [d \in Drivers |-> IF d \in ds THEN -1 ELSE Holds[d]]
    BY <1>3, SMT DEF Die, Holds, Holding, TypeOK
  <2>3. Grants!Return(ds)
    BY <2>1, <2>2 DEF Grants!Return, Grants!NoPlace, Holds
  <2> QED
    BY <2>3 DEF Grants!Next
<1>4. CASE NewRegion
  BY <1>4 DEF NewRegion, Holds
<1> QED
  BY <1>1, <1>2, <1>3, <1>4 DEF Next

\* The places' protocol implements PlaceGrants.
THEOREM Refinement == Spec => PlacesGranted
<1>1. Init => Grants!Init
  BY DEF Init, Grants!Init, Grants!NoPlace, Holding
<1> QED
  BY <1>1, StepGrants, Invariance, PTL DEF Spec, PlacesGranted, Grants!Spec, Holds

\* So no place has two holders, in any state.
THEOREM PlaceExclusive == Spec => []Grants!OneHolder
<1>1. IInv => Grants!OneHolder
  BY SMT DEF IInv, HolderInv, Grants!OneHolder, Grants!NoPlace, Holding
<1> QED
  BY <1>1, Invariance, PTL

-----------------------------------------------------------------------------
(***************************************************************************)
(* ControlPlane: one lemma per action.                                     *)
(***************************************************************************)
LEMMA PlaneInitInv == PlaneInit => PlaneInv
<1> SUFFICES ASSUME PlaneInit PROVE PlaneInv
  OBVIOUS
<1> USE PlaneAssumption DEF PlaneInit
<1>1. PlaneTypeOK
  <2>1. NoSave \in Saves
    BY DEF NoSave, Saves
  <2>2. changes \in [saves : 0..MaxSaves, rates : 0..MaxRateSets]
    OBVIOUS
  <2>3. NoSet \in Sets
    BY DEF NoSet, Sets
  <2>. HIDE DEF NoSave, NoSet
  <2>. QED BY <2>1, <2>2, <2>3 DEF PlaneTypeOK, Stopped
<1>2. SaveInv /\ SetInv /\ AskersInv /\ PendingInv /\ BridgeInv /\ OwedInv
  BY DEF SaveInv, SetInv, AskersInv, Saving, NoSave, NoSet, PendingInv, BridgeInv, OwedInv, Read, Threads
<1>. QED BY <1>1, <1>2 DEF PlaneInv

LEMMA RequestResetKeeps ==
  ASSUME NEW t \in Threads, PlaneInv, RequestReset(t)
  PROVE  PlaneInv'
<1> USE PlaneAssumption DEF PlaneInv, RequestReset, AskReset, SendReset, dawVars
<1>1. PlaneTypeOK'
  BY DEF PlaneTypeOK
<1>2. SaveInv'
  BY DEF PlaneTypeOK, SaveInv, Saving, Threads
<1>7. SetInv'
  BY DEF PlaneTypeOK, SetInv, Stopped, At, Threads
<1>3. AskersInv'
  BY DEF PlaneTypeOK, AskersInv, Askers
<1>4. PendingInv'
  BY DEF PlaneTypeOK, PendingInv, Read
<1>5. BridgeInv'
  BY DEF BridgeInv, HalfSaved, Read
<1>6. OwedInv'
  BY DEF PlaneTypeOK, PendingInv, OwedInv, Read
<1>. QED BY <1>1, <1>2, <1>3, <1>4, <1>5, <1>6, <1>7

LEMMA SaveBeginsKeeps ==
  ASSUME PlaneInv, SaveBegins
  PROVE  PlaneInv'
<1> USE PlaneAssumption DEF PlaneInv, SaveBegins, dawVars
<1>0. PICK c \in Saved : save' = [NoSave EXCEPT !.pc = "begun", !.to = c, !.before = table]
  OBVIOUS
<1>8. save'.left = {} /\ save'.pc = "begun"
  BY <1>0 DEF NoSave
<1>9. save.left = {}
  BY DEF SaveInv, Saving
<1>1. PlaneTypeOK'
  <2>1. save' \in Saves
    BY <1>0 DEF PlaneTypeOK, Saves, NoSave
  <2>. QED BY <2>1 DEF PlaneTypeOK
<1>2. SaveInv'
  BY <1>8 DEF SaveInv
<1>7. SetInv'
  BY DEF SetInv
<1>3. AskersInv'
  BY DEF AskersInv, Askers
<1>4. PendingInv'
  BY DEF PendingInv, Read
<1>5. BridgeInv'
  BY <1>8 DEF BridgeInv, HalfSaved, Read
<1>6. OwedInv'
  BY <1>8, <1>9 DEF OwedInv, VersionToCome, Read, Saving
<1>. QED BY <1>1, <1>2, <1>3, <1>4, <1>5, <1>6, <1>7

LEMMA SaveComparesKeeps ==
  ASSUME PlaneInv, SaveCompares
  PROVE  PlaneInv'
<1> USE PlaneAssumption DEF PlaneInv, SaveCompares, dawVars
<1>8. /\ save'.left = Parts /\ save'.pc = "put" /\ save'.version = version + 1
      /\ save'.version # version
  BY DEF PlaneTypeOK, Saves
<1>9. save.left = {}
  BY DEF SaveInv
<1>1. PlaneTypeOK'
  <2>1. (save.to.rate # table.rate) \in BOOLEAN /\ Parts \in SUBSET Parts /\ version + 1 \in Nat
    BY DEF PlaneTypeOK
  <2>2. save \in Saves /\ table' = table
    BY DEF PlaneTypeOK
  <2>3. save' \in Saves
    BY <2>1, <2>2 DEF Saves
  <2>. QED BY <2>3 DEF PlaneTypeOK
<1>2. SaveInv'
  BY <1>8 DEF SaveInv, Saving
<1>7. SetInv'
  BY DEF SetInv
<1>3. AskersInv'
  BY DEF AskersInv, Askers
<1>4. PendingInv'
  BY DEF PendingInv, Read
<1>5. BridgeInv'
  BY <1>8 DEF BridgeInv, HalfSaved, Read, Parts
<1>6. OwedInv'
  BY <1>8, <1>9 DEF OwedInv, VersionToCome, Read, Saving
<1>. QED BY <1>1, <1>2, <1>3, <1>4, <1>5, <1>6, <1>7

LEMMA SavePutsKeeps ==
  ASSUME NEW part \in Parts, PlaneInv, SavePuts(part)
  PROVE  PlaneInv'
<1> USE PlaneAssumption DEF PlaneInv, SavePuts, Returns, dawVars
<1>8. /\ save \in Saves /\ save'.left = save.left \ {part} /\ save'.pc = save.pc
      /\ save'.version = save.version /\ save' \in Saves
  <2>1. save \in Saves /\ save' = [save EXCEPT !.left = save.left \ {part}]
    BY DEF PlaneTypeOK
  <2>. QED BY <2>1 DEF Saves
<1>1. PlaneTypeOK'
  <2>1. save.to \in Content /\ save.version \in Nat
    BY <1>8 DEF Saves
  <2>2. table' \in Content
    BY <2>1 DEF PlaneTypeOK, Content
  <2>. QED BY <1>8, <2>1, <2>2 DEF PlaneTypeOK
<1>2. SaveInv'
  BY <1>8 DEF SaveInv, Saving
<1>7. SetInv'
  BY DEF SetInv
<1>3. AskersInv'
  BY DEF AskersInv, Askers
<1>4. PendingInv'
  BY DEF PendingInv, Read
<1>5. BridgeInv'
  BY <1>8 DEF PlaneTypeOK, BridgeInv, HalfSaved, Read, Parts, Shown
<1>6. OwedInv'
  <2>1. save.pc = "put" /\ save'.pc = "put"
    BY <1>8 DEF SaveInv
  <2>2. CASE driver = "master"
    BY <2>1, <2>2 DEF OwedInv, Saving
  <2>3. CASE driver = "bridge" /\ part # "version"
    <3>1. part \in Shown /\ version' = version
      BY <2>3 DEF Parts
    <3>2. CASE "version" \in save.left /\ save.version # version
      BY <1>8, <2>3, <3>1, <3>2 DEF OwedInv, VersionToCome
    <3>3. CASE ~("version" \in save.left /\ save.version # version)
      BY <2>3, <3>1, <3>3 DEF BridgeInv, HalfSaved, OwedInv, Read
    <3>. QED BY <3>2, <3>3
  <2>4. CASE driver = "bridge" /\ part = "version"
    <3>1. version' = save.version /\ table' = table /\ seen' = seen
      BY <2>4
    <3>2. version # seen => version' # seen' \/ missed'
      BY <2>4, <3>1
    <3>3. VersionToCome /\ version = seen => version' # seen' \/ VersionToCome'
      BY <1>8, <2>4, <3>1 DEF VersionToCome
    <3>. QED BY <2>4, <3>1, <3>2, <3>3 DEF OwedInv, Read
  <2>. QED BY <2>2, <2>3, <2>4 DEF PlaneTypeOK
<1>. QED BY <1>1, <1>2, <1>3, <1>4, <1>5, <1>6, <1>7

LEMMA SaveLooksKeeps ==
  ASSUME PlaneInv, SaveLooks
  PROVE  PlaneInv'
<1> USE PlaneAssumption DEF PlaneInv, SaveLooks, dawVars
<1>8. save' \in Saves /\ save'.left = {} /\ save'.pc = "tell"
  BY DEF PlaneTypeOK, Saves
<1>1. PlaneTypeOK'
  BY <1>8 DEF PlaneTypeOK
<1>2. SaveInv'
  BY <1>8 DEF SaveInv, Saving
<1>7. SetInv'
  BY DEF SetInv
<1>3. AskersInv'
  BY DEF AskersInv, Askers
<1>4. PendingInv'
  BY DEF PendingInv, Read
<1>5. BridgeInv'
  BY <1>8 DEF BridgeInv, HalfSaved, Read
<1>6. OwedInv'
  BY <1>8 DEF OwedInv, VersionToCome, Read, Saving
<1>. QED BY <1>1, <1>2, <1>3, <1>4, <1>5, <1>6, <1>7

LEMMA SaveTellsKeeps ==
  ASSUME PlaneInv, SaveTells
  PROVE  PlaneInv'
<1> USE PlaneAssumption DEF PlaneInv, SaveTells, Asks, dawVars
<1>8. save' \in Saves /\ save'.left = {} /\ save'.pc = "no" /\ save.left = {}
  BY DEF PlaneTypeOK, Saves, NoSave, SaveInv
<1>9. asks["panel"] = "no"
  BY DEF SaveInv, Saving
<1>1. PlaneTypeOK'
  BY <1>8 DEF PlaneTypeOK
<1>2. SaveInv'
  BY <1>8 DEF SaveInv, Saving
<1>7. SetInv'
  BY DEF PlaneTypeOK, SetInv, Threads
<1>3. AskersInv'
  BY DEF PlaneTypeOK, AskersInv, Askers, Threads
<1>4. PendingInv'
  BY <1>9 DEF PlaneTypeOK, PendingInv, Read, Threads
<1>5. BridgeInv'
  BY <1>8 DEF BridgeInv, HalfSaved, Read
<1>6. OwedInv'
  BY <1>8, <1>9 DEF PlaneTypeOK, OwedInv, VersionToCome, Read, Threads
<1>. QED BY <1>1, <1>2, <1>3, <1>4, <1>5, <1>6, <1>7

LEMMA CreateBuffersKeeps ==
  ASSUME PlaneInv, CreateBuffers
  PROVE  PlaneInv'
<1> USE PlaneAssumption DEF PlaneInv, CreateBuffers, At, dawVars
<1>1. PlaneTypeOK'
  BY DEF PlaneTypeOK, Stopped
<1>2. SaveInv'
  BY DEF SaveInv, Saving
<1>7. SetInv'
  BY DEF PlaneTypeOK, SetInv, Stopped, At, Threads
<1>3. AskersInv'
  BY DEF AskersInv, Askers
<1>4. PendingInv'
  BY DEF PendingInv, Read
<1>5. BridgeInv'
  BY DEF BridgeInv, HalfSaved, Read
<1>6. OwedInv'
  BY DEF OwedInv, VersionToCome, Read, Saving
<1>. QED BY <1>1, <1>2, <1>3, <1>4, <1>5, <1>6, <1>7

LEMMA StartKeeps ==
  ASSUME PlaneInv, Start
  PROVE  PlaneInv'
<1> USE PlaneAssumption DEF PlaneInv, Start, At, dawVars
<1>1. PlaneTypeOK'
  BY DEF PlaneTypeOK
<1>2. SaveInv'
  BY DEF SaveInv, Saving
<1>7. SetInv'
  BY DEF PlaneTypeOK, SetInv, Stopped, At, Threads
<1>3. AskersInv'
  BY DEF AskersInv, Askers
<1>4. PendingInv'
  BY DEF PendingInv, Read
<1>5. BridgeInv'
  BY DEF BridgeInv, HalfSaved, Read
<1>6. OwedInv'
  BY DEF OwedInv, VersionToCome, Read, Saving
<1>. QED BY <1>1, <1>2, <1>3, <1>4, <1>5, <1>6, <1>7

LEMMA MasterSnapshotKeeps ==
  ASSUME PlaneInv, MasterSnapshot
  PROVE  PlaneInv'
<1> USE PlaneAssumption DEF PlaneInv, MasterSnapshot, Snapshot, At, dawVars
<1>1. PlaneTypeOK'
  BY DEF PlaneTypeOK
<1>2. SaveInv'
  BY DEF SaveInv, Saving
<1>7. SetInv'
  BY DEF PlaneTypeOK, SetInv, Stopped, At, Threads
<1>3. AskersInv'
  BY DEF AskersInv, Askers
<1>4. PendingInv'
  BY DEF PendingInv
<1>5. BridgeInv'
  BY DEF BridgeInv
<1>6. OwedInv'
  BY DEF OwedInv, Read
<1>. QED BY <1>1, <1>2, <1>3, <1>4, <1>5, <1>6, <1>7

LEMMA MasterCountsKeeps ==
  ASSUME PlaneInv, MasterCounts
  PROVE  PlaneInv'
<1> USE PlaneAssumption DEF PlaneInv, MasterCounts, dawVars
<1>1. PlaneTypeOK'
  BY DEF PlaneTypeOK, Stopped
<1>2. SaveInv'
  BY DEF SaveInv, Saving
<1>7. SetInv'
  BY DEF PlaneTypeOK, SetInv, Stopped, At, Threads
<1>3. AskersInv'
  BY DEF AskersInv, Askers
<1>4. PendingInv'
  BY DEF PendingInv
<1>5. BridgeInv'
  BY DEF BridgeInv
<1>6. OwedInv'
  BY DEF OwedInv
<1>. QED BY <1>1, <1>2, <1>3, <1>4, <1>5, <1>6, <1>7

LEMMA MasterStopKeeps ==
  ASSUME PlaneInv, MasterStop
  PROVE  PlaneInv'
<1> USE PlaneAssumption DEF PlaneInv, MasterStop, At, dawVars
<1>1. PlaneTypeOK'
  BY DEF PlaneTypeOK
<1>2. SaveInv'
  BY DEF SaveInv, Saving
<1>7. SetInv'
  BY DEF PlaneTypeOK, SetInv, Stopped, At, Threads
<1>3. AskersInv'
  BY DEF AskersInv, Askers
<1>4. PendingInv'
  BY DEF PendingInv, Read
<1>5. BridgeInv'
  BY DEF BridgeInv
<1>6. OwedInv'
  BY DEF OwedInv
<1>. QED BY <1>1, <1>2, <1>3, <1>4, <1>5, <1>6, <1>7

LEMMA WorkerWokenKeeps ==
  ASSUME PlaneInv, WorkerWoken
  PROVE  PlaneInv'
<1> USE PlaneAssumption DEF PlaneInv, WorkerWoken, Asks, dawVars
<1>1. PlaneTypeOK'
  BY DEF PlaneTypeOK
<1>2. SaveInv'
  BY DEF SaveInv, Saving
<1>7. SetInv'
  BY DEF PlaneTypeOK, SetInv, Stopped, At, Threads
<1>3. AskersInv'
  BY DEF AskersInv, Askers
<1>4. PendingInv'
  BY DEF PlaneTypeOK, PendingInv, Read
<1>5. BridgeInv'
  BY DEF BridgeInv
<1>6. OwedInv'
  BY DEF PlaneTypeOK, BridgeInv, OwedInv, Threads, Askers
<1>. QED BY <1>1, <1>2, <1>3, <1>4, <1>5, <1>6, <1>7

LEMMA WorkerEndsKeeps ==
  ASSUME PlaneInv, WorkerEnds
  PROVE  PlaneInv'
<1> USE PlaneAssumption DEF PlaneInv, WorkerEnds, dawVars
<1>1. PlaneTypeOK'
  BY DEF PlaneTypeOK, Stopped
<1>2. SaveInv'
  BY DEF SaveInv, Saving
<1>7. SetInv'
  BY DEF PlaneTypeOK, SetInv, Stopped, At, Threads
<1>3. AskersInv'
  BY DEF AskersInv, Askers
<1>4. PendingInv'
  BY DEF PendingInv, Read
<1>5. BridgeInv'
  BY DEF BridgeInv
<1>6. OwedInv'
  BY DEF OwedInv, Read, Saving
<1>. QED BY <1>1, <1>2, <1>3, <1>4, <1>5, <1>6, <1>7

LEMMA SetSampleRateKeeps ==
  ASSUME NEW r \in Rates, PlaneInv, SetSampleRate(r)
  PROVE  PlaneInv'
<1> USE PlaneAssumption DEF PlaneInv, SetSampleRate, At
<1>8. set' \in Sets /\ set'.pc = "load" /\ set.pc = "no"
  BY DEF PlaneTypeOK, Sets
<1>1. PlaneTypeOK'
  <2>1. table' \in Content /\ known' \in Content
    BY DEF PlaneTypeOK, Content
  <2>2. changes' \in [saves : 0..MaxSaves, rates : 0..MaxRateSets]
    BY DEF PlaneTypeOK
  <2>. QED BY <1>8, <2>1, <2>2 DEF PlaneTypeOK
<1>2. SaveInv'
  BY DEF PlaneTypeOK, SaveInv, Saving, Threads
<1>7. SetInv'
  BY <1>8 DEF PlaneTypeOK, SetInv, Stopped, At, Threads
<1>3. AskersInv'
  BY DEF PlaneTypeOK, AskersInv, Askers, Threads
<1>4. PendingInv'
  BY DEF PlaneTypeOK, PendingInv, Read, Threads
<1>5. BridgeInv'
  BY DEF BridgeInv, HalfSaved, Read
<1>6. OwedInv'
  <2>1. CASE driver = "master"
    BY <1>8, <2>1 DEF OwedInv
  <2>2. CASE driver = "bridge"
    BY <1>8, <2>2 DEF OwedInv, VersionToCome
  <2>. QED BY <2>1, <2>2 DEF PlaneTypeOK
<1>. QED BY <1>1, <1>2, <1>3, <1>4, <1>5, <1>6, <1>7

LEMMA SetLoadsKeeps ==
  ASSUME PlaneInv, SetLoads
  PROVE  PlaneInv'
<1> USE PlaneAssumption DEF PlaneInv, SetLoads, dawVars
<1>8. set' \in Sets /\ set'.pc = "version" /\ set'.version = version + 1 /\ set'.version # version
  BY DEF PlaneTypeOK, Sets
<1>1. PlaneTypeOK'
  BY <1>8 DEF PlaneTypeOK
<1>2. SaveInv'
  BY DEF PlaneTypeOK, SaveInv, Saving, Threads
<1>7. SetInv'
  BY <1>8 DEF PlaneTypeOK, SetInv, Stopped, At, Threads
<1>3. AskersInv'
  BY DEF PlaneTypeOK, AskersInv, Askers, Threads
<1>4. PendingInv'
  BY DEF PlaneTypeOK, PendingInv, Read, Threads
<1>5. BridgeInv'
  BY DEF BridgeInv, HalfSaved, Read
<1>6. OwedInv'
  BY <1>8 DEF OwedInv, VersionToCome, Read, Saving
<1>. QED BY <1>1, <1>2, <1>3, <1>4, <1>5, <1>6, <1>7

LEMMA SetVersionKeeps ==
  ASSUME PlaneInv, SetVersion
  PROVE  PlaneInv'
<1> USE PlaneAssumption DEF PlaneInv, SetVersion, Returns, dawVars
<1>8. set' \in Sets /\ set'.pc = "event" /\ version' = set.version /\ version' \in Nat
  BY DEF PlaneTypeOK, Sets
<1>1. PlaneTypeOK'
  BY <1>8, Zenon DEF PlaneTypeOK
<1>2. SaveInv'
  BY DEF PlaneTypeOK, SaveInv, Saving, Threads
<1>7. SetInv'
  BY <1>8 DEF PlaneTypeOK, SetInv, Stopped, At, Threads
<1>3. AskersInv'
  BY DEF PlaneTypeOK, AskersInv, Askers, Threads
<1>4. PendingInv'
  BY DEF PlaneTypeOK, PendingInv, Read, Threads
<1>5. BridgeInv'
  BY <1>8 DEF PlaneTypeOK, BridgeInv, HalfSaved, Read
<1>6. OwedInv'
  <2>1. CASE driver = "master"
    BY <1>8, <2>1 DEF OwedInv, Read, Saving
  <2>2. CASE driver = "bridge"
    <3>1. version # seen => version' # seen' \/ missed'
      BY <1>8, <2>2
    <3>2. VersionToCome /\ version = seen => version' # seen' \/ VersionToCome'
      BY <1>8, <2>2 DEF VersionToCome
    <3>. QED BY <2>2, <3>1, <3>2 DEF OwedInv, Read
  <2>. QED BY <2>1, <2>2 DEF PlaneTypeOK
<1>. QED BY <1>1, <1>2, <1>3, <1>4, <1>5, <1>6, <1>7

LEMMA SetEventKeeps ==
  ASSUME PlaneInv, SetEvent
  PROVE  PlaneInv'
<1> USE PlaneAssumption DEF PlaneInv, SetEvent, dawVars
<1>8. set' \in Sets /\ set'.pc = "tell"
  BY DEF PlaneTypeOK, Sets
<1>1. PlaneTypeOK'
  BY <1>8 DEF PlaneTypeOK
<1>2. SaveInv'
  BY DEF PlaneTypeOK, SaveInv, Saving, Threads
<1>7. SetInv'
  BY <1>8 DEF PlaneTypeOK, SetInv, Stopped, At, Threads
<1>3. AskersInv'
  BY DEF PlaneTypeOK, AskersInv, Askers, Threads
<1>4. PendingInv'
  BY DEF PlaneTypeOK, PendingInv, Read, Threads
<1>5. BridgeInv'
  BY DEF BridgeInv, HalfSaved, Read
<1>6. OwedInv'
  BY <1>8 DEF OwedInv, VersionToCome, Read, Saving
<1>. QED BY <1>1, <1>2, <1>3, <1>4, <1>5, <1>6, <1>7

LEMMA SetTellsKeeps ==
  ASSUME PlaneInv, SetTells
  PROVE  PlaneInv'
<1> USE PlaneAssumption DEF PlaneInv, SetTells, Snapshot, Asks
<1>8. set' \in Sets /\ set'.pc = "no" /\ set.pc = "tell"
  BY DEF PlaneTypeOK, Sets, NoSet
<1>1. PlaneTypeOK'
  BY <1>8 DEF PlaneTypeOK
<1>2. SaveInv'
  BY DEF PlaneTypeOK, SaveInv, Saving, Threads
<1>7. SetInv'
  BY <1>8 DEF PlaneTypeOK, SetInv, Stopped, At, Threads
<1>3. AskersInv'
  BY DEF PlaneTypeOK, AskersInv, Askers, Threads
<1>4. PendingInv'
  BY <1>8 DEF PlaneTypeOK, SetInv, PendingInv, Read, Threads
<1>5. BridgeInv'
  BY DEF BridgeInv, HalfSaved, Read
<1>6. OwedInv'
  <2>1. CASE driver = "master" /\ daw = "running"
    BY <2>1 DEF PlaneTypeOK, OwedInv, Threads, Askers
  <2>2. CASE driver = "master" /\ daw # "running"
    BY <1>8, <2>2 DEF OwedInv, SetInv
  <2>3. CASE driver = "bridge"
    BY <1>8, <2>3 DEF OwedInv, VersionToCome, Read
  <2>. QED BY <2>1, <2>2, <2>3 DEF PlaneTypeOK
<1>. QED BY <1>1, <1>2, <1>3, <1>4, <1>5, <1>6, <1>7

LEMMA BridgeCountsKeeps ==
  ASSUME PlaneInv, BridgeCounts
  PROVE  PlaneInv'
<1> USE PlaneAssumption DEF PlaneInv, BridgeCounts, At, dawVars
<1>1. PlaneTypeOK'
  BY DEF PlaneTypeOK
<1>2. SaveInv'
  BY DEF SaveInv, Saving
<1>7. SetInv'
  BY DEF PlaneTypeOK, SetInv, Stopped, At, Threads
<1>3. AskersInv'
  BY DEF AskersInv, Askers
<1>4. PendingInv'
  BY DEF PendingInv, Read
<1>5. BridgeInv'
  BY DEF BridgeInv, Read
<1>6. OwedInv'
  BY DEF OwedInv
<1>. QED BY <1>1, <1>2, <1>3, <1>4, <1>5, <1>6, <1>7

LEMMA BridgeSnapshotKeeps ==
  ASSUME PlaneInv, BridgeSnapshot
  PROVE  PlaneInv'
<1> USE PlaneAssumption DEF PlaneInv, BridgeSnapshot, Snapshot, At, dawVars
<1>1. PlaneTypeOK'
  BY DEF PlaneTypeOK, Stopped
<1>2. SaveInv'
  BY DEF SaveInv, Saving
<1>7. SetInv'
  BY DEF PlaneTypeOK, SetInv, Stopped, At, Threads
<1>3. AskersInv'
  BY DEF AskersInv, Askers
<1>4. PendingInv'
  BY DEF PendingInv
<1>5. BridgeInv'
  BY DEF BridgeInv, HalfSaved
<1>6. OwedInv'
  BY DEF OwedInv
<1>. QED BY <1>1, <1>2, <1>3, <1>4, <1>5, <1>6, <1>7

LEMMA BridgeStopKeeps ==
  ASSUME PlaneInv, BridgeStop
  PROVE  PlaneInv'
<1> USE PlaneAssumption DEF PlaneInv, BridgeStop, At, dawVars
<1>1. PlaneTypeOK'
  BY DEF PlaneTypeOK, Stopped
<1>2. SaveInv'
  BY DEF SaveInv, Saving
<1>7. SetInv'
  BY DEF PlaneTypeOK, SetInv, Stopped, At, Threads
<1>3. AskersInv'
  BY DEF AskersInv, Askers
<1>4. PendingInv'
  BY DEF PendingInv, Read
<1>5. BridgeInv'
  BY DEF BridgeInv, HalfSaved, Read
<1>6. OwedInv'
  BY DEF OwedInv, VersionToCome, Read
<1>. QED BY <1>1, <1>2, <1>3, <1>4, <1>5, <1>6, <1>7

LEMMA ClockLooksKeeps ==
  ASSUME PlaneInv, ClockLooks
  PROVE  PlaneInv'
<1> USE PlaneAssumption DEF PlaneInv, ClockLooks, dawVars
<1>1. PlaneTypeOK'
  BY DEF PlaneTypeOK
<1>2. SaveInv'
  BY DEF SaveInv, Saving
<1>7. SetInv'
  BY DEF PlaneTypeOK, SetInv, Stopped, At, Threads
<1>3. AskersInv'
  BY DEF AskersInv, Askers
<1>4. PendingInv'
  BY DEF PlaneTypeOK, PendingInv, Read
<1>5. BridgeInv'
  BY DEF BridgeInv, HalfSaved, Read
<1>6. OwedInv'
  BY DEF PlaneTypeOK, OwedInv, Threads
<1>. QED BY <1>1, <1>2, <1>3, <1>4, <1>5, <1>6, <1>7

LEMMA ClockComparesKeeps ==
  ASSUME PlaneInv, ClockCompares
  PROVE  PlaneInv'
<1> USE PlaneAssumption DEF PlaneInv, ClockCompares, Asks, dawVars
<1>1. PlaneTypeOK'
  BY DEF PlaneTypeOK
<1>2. SaveInv'
  BY DEF SaveInv, Saving
<1>7. SetInv'
  BY DEF PlaneTypeOK, SetInv, Stopped, At, Threads
<1>3. AskersInv'
  BY DEF AskersInv, Askers
<1>4. PendingInv'
  BY DEF PendingInv, Read
<1>5. BridgeInv'
  BY DEF BridgeInv, HalfSaved, Read
<1>6. OwedInv'
  <2>1. driver = "bridge" /\ asks' = [asks EXCEPT !["clock"] = IF ~pending /\ view # table THEN "lock" ELSE "no"]
    BY DEF PlaneTypeOK, AskersInv, Askers, Threads
  <2>2. CASE ~pending /\ view # table
    BY <2>1, <2>2 DEF OwedInv, Threads
  <2>3. CASE pending
    BY <2>1, <2>3 DEF PendingInv, OwedInv, Read
  <2>4. CASE view = table
    BY <2>1, <2>4 DEF BridgeInv, OwedInv, Read
  <2>. QED BY <2>2, <2>3, <2>4
<1>. QED BY <1>1, <1>2, <1>3, <1>4, <1>5, <1>6, <1>7

LEMMA PlaneStepInv == PlaneInv /\ [PlaneNext]_planeVars => PlaneInv'
<1> SUFFICES ASSUME PlaneInv, [PlaneNext]_planeVars PROVE PlaneInv'
  OBVIOUS
<1>1. CASE \E t \in Threads : RequestReset(t)
  BY <1>1, RequestResetKeeps
<1>2. CASE SaveBegins \/ SaveStep
  BY <1>2, SaveBeginsKeeps, SaveComparesKeeps, SavePutsKeeps, SaveLooksKeeps, SaveTellsKeeps DEF SaveStep
<1>3. CASE CreateBuffers \/ Start
  BY <1>3, CreateBuffersKeeps, StartKeeps
<1>4. CASE MasterSnapshot \/ MasterCounts \/ MasterStop \/ WorkerWoken \/ WorkerEnds
  BY <1>4, MasterSnapshotKeeps, MasterCountsKeeps, MasterStopKeeps, WorkerWokenKeeps, WorkerEndsKeeps
<1>5. CASE (\E r \in Rates : SetSampleRate(r)) \/ SetStep
  BY <1>5, SetSampleRateKeeps, SetLoadsKeeps, SetVersionKeeps, SetEventKeeps, SetTellsKeeps DEF SetStep
<1>6. CASE BridgeCounts \/ BridgeSnapshot \/ BridgeStop \/ ClockLooks \/ ClockCompares
  BY <1>6, BridgeCountsKeeps, BridgeSnapshotKeeps, BridgeStopKeeps, ClockLooksKeeps, ClockComparesKeeps
<1>7. CASE UNCHANGED planeVars
  BY <1>7 DEF planeVars, PlaneInv, PlaneTypeOK, SaveInv, SetInv, Saving, AskersInv, Askers, PendingInv, BridgeInv,
              HalfSaved, OwedInv, VersionToCome, Read
<1>. QED BY <1>1, <1>2, <1>3, <1>4, <1>5, <1>6, <1>7 DEF PlaneNext

LEMMA PlaneInvariance == PlaneSpec => []PlaneInv
  BY PlaneInitInv, PlaneStepInv, PTL DEF PlaneSpec

\* In every behaviour a DAW whose table is no longer the one it read has been asked to
\* reset, or a look that will ask it is on its way (requestReset, onTableChanged,
\* checkTableChanged); for any tables, Saves and rate changes.
THEOREM OldViewsAreAsked == PlaneSpec => []Owed
<1>1. PlaneInv => Owed
  <2> SUFFICES ASSUME PlaneInv, Read, known # table PROVE told \/ Looking \/ missed
    BY DEF Owed
  <2>1. VersionToCome => Saving \/ set.pc # "no"
    BY DEF PlaneInv, SaveInv, VersionToCome, Saving
  <2>. QED BY <2>1 DEF PlaneInv, OwedInv, Looking
<1>. QED BY <1>1, PlaneInvariance, PTL

\* In every behaviour a mark that holds back further requests stands for one that its
\* DAW has got, or that a thread is about to send it (requestReset, snapshotDawView).
THEOREM PendingIsTold == PlaneSpec => []PendingTold
<1>1. PlaneInv => PendingTold
  BY DEF PlaneInv, PendingInv, PendingTold
<1>. QED BY <1>1, PlaneInvariance, PTL

===============================================================================
