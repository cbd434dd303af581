----------------------------- MODULE BridgePlaces -----------------------------
(***************************************************************************)
(* The client places of one Shared Bridge region: which driver instance of *)
(* which app has which of them (WinHookBridgeASIO::claimClientPlace,       *)
(* releaseClientPlace).  owner[] holds process IDs and is changed by       *)
(* compare-exchange only; clientBlocks[] is plain memory a place's holder  *)
(* writes.  The apps claim at the same time, one step of the claim after   *)
(* another, and an app may die between any two of them.                    *)
(*                                                                         *)
(* A process ID is not used again while the region lives.  clientBlocks is *)
(* abstracted to whether the place's count is mixed (not -1).              *)
(***************************************************************************)
EXTENDS Integers

CONSTANTS
  Processes,  \* the apps' process IDs
  NoProcess,  \* a place's owner when it is free: 0 in the code
  Drivers,    \* the apps' driver instances on this Bridge
  ProcessOf,  \* the app of each
  NPlaces     \* places (kBridgeClients)

ASSUME ProcessAssumption ==
  NoProcess \notin Processes /\ ProcessOf \in [Drivers -> Processes]
ASSUME PlacesAssumption == NPlaces \in Nat \ {0}

Places == 0..(NPlaces - 1)

VARIABLES
  dead,     \* the processes that exited
  \* The region.
  owner, counted,
  \* Each driver instance: where its init is, the place it looks at or has
  \* (i, then clientId_), and the owner it saw there.
  pc, place, held,
  \* History, for the properties only: the places an app could have had at
  \* every moment of the claim it is in.
  openSince

region == <<owner, counted>>
vars   == <<dead, region, pc, place, held, openSince>>

Claiming == {"free", "take", "check", "exchange"}
Holding  == {"reset", "stopped", "running", "failed", "releasing"}

Live(d) == ProcessOf[d] \notin dead

-----------------------------------------------------------------------------
(***************************************************************************)
(* claimClientPlace.                                                       *)
(***************************************************************************)

\* The driver instance's step from one place in its code to another.
Goes(d, from, to) ==
  /\ Live(d)
  /\ pc[d] = from
  /\ pc' = [pc EXCEPT ![d] = to]

Claim(d) ==
  /\ Goes(d, "closed", "free")
  /\ place' = [place EXCEPT ![d] = 0]
  /\ UNCHANGED <<dead, region, held>>

\* The place is this instance's from now on.
Own(d, from) ==
  /\ Goes(d, from, "reset")
  /\ owner' = [owner EXCEPT ![place[d]] = ProcessOf[d]]
  /\ held' = [held EXCEPT ![d] = NoProcess]
  /\ UNCHANGED <<dead, counted, place>>

FaultyLast(p) == p >= NPlaces - 2  \* the loops end a place early


Last(p) == p = NPlaces - 1

\* Not this place: the next one, or what follows the loop.
NextPlace(d, from, loop, end) ==
  /\ Goes(d, from, IF Last(place[d]) THEN end ELSE loop)
  /\ place' = [place EXCEPT ![d] = IF Last(@) THEN 0 ELSE @ + 1]
  /\ held' = [held EXCEPT ![d] = NoProcess]
  /\ UNCHANGED <<dead, region>>

\* First a free place ...
TryFree(d) ==
  \/ owner[place[d]] = NoProcess /\ Own(d, "free")
  \/ owner[place[d]] # NoProcess /\ NextPlace(d, "free", "free", "take")

\* ... then one of an app that is gone: its owner is read ...
LookAtOwner(d) ==
  \/ /\ owner[place[d]] \notin {NoProcess, ProcessOf[d]}
     /\ Goes(d, "take", "check")
     /\ held' = [held EXCEPT ![d] = owner[place[d]]]
     /\ UNCHANGED <<dead, region, place>>
  \/ /\ owner[place[d]] \in {NoProcess, ProcessOf[d]}
     /\ NextPlace(d, "take", "take", "closed")

FaultyProcessRunning(process) == FALSE  \* a process that cannot be opened is gone

ProcessRunning(process) == process \notin dead

\* ... looked up ...
CheckOwner(d) ==
  \/ /\ ~ProcessRunning(held[d])
     /\ Goes(d, "check", "exchange")
     /\ UNCHANGED <<dead, region, place, held>>
  \/ /\ ProcessRunning(held[d])
     /\ NextPlace(d, "check", "take", "closed")

\* ... and exchanged for ours, if it is still there.
TakeOver(d) ==
  \/ owner[place[d]] = held[d] /\ Own(d, "exchange")
  \/ owner[place[d]] # held[d] /\ NextPlace(d, "exchange", "take", "closed")

\* Nothing of a previous holder is mixed.
ResetCount(d) ==
  /\ Goes(d, "reset", "stopped")
  /\ counted' = [counted EXCEPT ![place[d]] = FALSE]
  /\ UNCHANGED <<dead, owner, place, held>>

-----------------------------------------------------------------------------
(***************************************************************************)
(* The holder of a place, and the end of it.                               *)
(***************************************************************************)

\* start counts the place, then makes the clock thread; where that fails the
\* place stays counted until a stop or another start.
StartRun(d) ==
  /\ \E from \in {"stopped", "failed"}, to \in {"running", "failed"} : Goes(d, from, to)
  /\ counted' = [counted EXCEPT ![place[d]] = TRUE]
  /\ UNCHANGED <<dead, owner, place, held>>

StopRun(d) ==
  /\ \E from \in {"running", "failed"} : Goes(d, from, "stopped")
  /\ counted' = [counted EXCEPT ![place[d]] = FALSE]
  /\ UNCHANGED <<dead, owner, place, held>>

Uncount(d) ==
  /\ counted' = [counted EXCEPT ![place[d]] = FALSE]
  /\ UNCHANGED owner

\* The compare-exchange finds our process ID, or leaves the place alone.
Disown(d) ==
  /\ owner' = [owner EXCEPT ![place[d]] = IF @ = ProcessOf[d] THEN NoProcess ELSE @]
  /\ UNCHANGED counted

FaultyReleaseStep(d, step) == IF step = 1 THEN Disown(d) ELSE Uncount(d)  \* given back first

ReleaseStep(d, step) == IF step = 1 THEN Uncount(d) ELSE Disown(d)

Release(d) ==
  /\ \/ Goes(d, "stopped", "releasing") /\ ReleaseStep(d, 1) /\ UNCHANGED place
     \/ Goes(d, "releasing", "closed") /\ ReleaseStep(d, 2) /\ place' = [place EXCEPT ![d] = 0]
  /\ UNCHANGED <<dead, held>>

\* The process exits or is killed: its places stay owned by it.
Die(process) ==
  /\ process \notin dead
  /\ dead' = dead \cup {process}
  /\ pc' = [d \in Drivers |-> IF ProcessOf[d] = process THEN "closed" ELSE pc[d]]
  /\ place' = [d \in Drivers |-> IF ProcessOf[d] = process THEN 0 ELSE place[d]]
  /\ held' = [d \in Drivers |-> IF ProcessOf[d] = process THEN NoProcess ELSE held[d]]
  /\ UNCHANGED region

\* No app maps the region, and the Master that opens it anew gets zeros: a
\* count of zero blocks on every place, and no owner.
NewRegion ==
  /\ \A d \in Drivers : pc[d] = "closed"
  /\ owner' = [p \in Places |-> NoProcess]
  /\ counted' = [p \in Places |-> TRUE]
  /\ UNCHANGED <<dead, pc, place, held>>

-----------------------------------------------------------------------------

Init ==
  /\ dead = {}
  /\ owner = [p \in Places |-> NoProcess]
  /\ counted = [p \in Places |-> TRUE]
  /\ pc = [d \in Drivers |-> "closed"]
  /\ place = [d \in Drivers |-> 0]
  /\ held = [d \in Drivers |-> NoProcess]
  /\ openSince = [d \in Drivers |-> {}]

Step(d) ==
  \/ Claim(d) \/ TryFree(d) \/ LookAtOwner(d) \/ CheckOwner(d) \/ TakeOver(d) \/ ResetCount(d)
  \/ StartRun(d) \/ StopRun(d) \/ Release(d)

\* The places a claim can have: free, or left by an app that is gone.
OpenPlaces == {p \in Places : owner[p] \in dead \cup {NoProcess}}

\* History.
Observe ==
  openSince' = [d \in Drivers |->
    IF pc'[d] \notin Claiming THEN {}
    ELSE IF pc[d] = "closed" THEN OpenPlaces'
    ELSE openSince[d] \cap OpenPlaces']

Next ==
  /\ \/ \E d \in Drivers : Step(d)
     \/ \E process \in Processes : Die(process)
     \/ NewRegion
  /\ Observe

Spec == Init /\ [][Next]_vars

-----------------------------------------------------------------------------
(***************************************************************************)
(* Properties.                                                             *)
(***************************************************************************)

TypeOK ==
  /\ dead \subseteq Processes
  /\ owner \in [Places -> Processes \cup {NoProcess}]
  /\ counted \in [Places -> BOOLEAN]
  /\ pc \in [Drivers -> {"closed"} \cup Claiming \cup Holding]
  /\ place \in [Drivers -> Places]
  /\ held \in [Drivers -> Processes \cup {NoProcess}]
  /\ openSince \in [Drivers -> SUBSET Places]

\* The place a driver instance has: PlaceGrants, by this protocol.
Grants == INSTANCE PlaceGrants WITH
  holds <- [d \in Drivers |-> IF pc[d] \in Holding THEN place[d] ELSE -1]

\* A place is granted only while no running app's instance has it, however
\* the claims, takeovers, releases and deaths interleave ("the
\* compare-exchange decides").
PlacesGranted == Grants!Spec

\* A place's count is its holder's: a client that runs is never taken out of
\* the mix by one that gives the place back, and one that does not run is not
\* mixed with what the place's last holder left.
CountIsHolders ==
  \A d \in Drivers :
    /\ pc[d] = "running" => counted[place[d]]
    /\ pc[d] \in {"stopped", "releasing"} => ~counted[place[d]]

\* "Bridge is full" is said only if every place had a running owner at some
\* moment of the claim: the scan goes by no place that was there all along.
FullIsFull ==
  [][\A d \in Drivers :
       pc[d] \in Claiming /\ pc'[d] = "closed" => openSince[d] = {} \/ ~Live(d)']_vars

-----------------------------------------------------------------------------
(***************************************************************************)
(* The inductive invariant behind the properties, in parts.                *)
(***************************************************************************)

\* A holder's place is owned by its app; an app that is gone has no holder.
OwnedInv ==
  \A d \in Drivers :
    /\ pc[d] # "closed" => Live(d)
    /\ pc[d] \in Holding => owner[place[d]] = ProcessOf[d]

\* No place has two holders, of one app either.
HolderInv ==
  \A d, e \in Drivers :
    pc[d] \in Holding /\ pc[e] \in Holding /\ place[d] = place[e] => d = e

\* What a claim knows of the owner it saw.
SeenInv ==
  \A d \in Drivers :
    /\ pc[d] = "check" => held[d] \in Processes
    /\ pc[d] = "exchange" => held[d] \in dead

\* A place that was there all along is still ahead of the scan.
ScanInv ==
  \A d \in Drivers : \A p \in openSince[d] :
    /\ p \in OpenPlaces
    /\ pc[d] = "free" /\ p < place[d] => owner[p] \in dead
    /\ pc[d] \in {"take", "check", "exchange"} => owner[p] \in dead /\ place[d] <= p
    /\ pc[d] \in {"check", "exchange"} /\ place[d] = p => owner[p] = held[d]

IInv == TypeOK /\ OwnedInv /\ HolderInv /\ SeenInv /\ CountIsHolders /\ ScanInv

===============================================================================
