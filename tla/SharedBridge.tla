----------------------------- MODULE SharedBridge -----------------------------
(***************************************************************************)
(* One Shared Bridge region (common/WHABridgeShared.h): the Master's       *)
(* Worker (MasterHolder::doTick) numbers its blocks and publishes block t  *)
(* in toClients[t % Ring]; up to four Bridge clients                       *)
(* (WinHookBridgeASIO::runClock) run one period per block and leave theirs *)
(* in fromClient[place][m % Ring]; at block t the Worker mixes each        *)
(* client's block t - delay.  The threads share plain memory and a few     *)
(* counters; there is no lock.                                             *)
(*                                                                         *)
(* Audio is abstracted to where it comes from: a ring cell holds the       *)
(* number of the block whose audio was written there, or Silence.  A       *)
(* variable whose value is dead (a local that went out of scope, a member  *)
(* overwritten before it is read) is reset, to keep the state space small. *)
(* The statistics clientLate and clientSkipped are left out.               *)
(***************************************************************************)
EXTENDS Integers, FiniteSets

CONSTANTS
  Places,         \* client places of the region (kBridgeClients of them)
  Channels,       \* Bridge channels (BridgeChannelOf)
  Ring,           \* blocks kept each way (kBridgeRing)
  AsioBuffers,    \* GENERAL ASIO buffer sizes a Save may choose, in frames
  BridgeBuffers,  \* GENERAL Bridge buffer sizes a Save may choose, in frames
  MaxBlocks,      \* bound on the blocks the Worker publishes
  MasterMayCrash  \* whether the Master's process may die between two steps

ASSUME RingAssumption == Ring \in Nat /\ Ring >= 3
ASSUME BufferAssumption == AsioBuffers \subseteq Nat /\ BridgeBuffers \subseteq Nat
ASSUME BoundAssumption == MaxBlocks \in Nat /\ MasterMayCrash \in BOOLEAN

VARIABLES
  \* The region, in shared memory.
  owner,         \* owner[p]: an app's process ID is in the place
  masterBlocks,  \* blocks the Worker has published
  clientBlocks,  \* blocks a client has produced; -1 = not running
  toClients,     \* toClients[slot][channel]
  fromClient,    \* fromClient[place][slot]
  bridgeTick,    \* the auto-reset event of each place
  table,         \* what doTick reads of the Slot Table
  \* The Worker of the Master's MasterHolder.
  workerPc,
  bridgeFed,     \* the channels fed in each ring slot
  mixBlock,      \* the clients' block this tick mixes
  have,          \* the clients found to have it
  masterIn,      \* masterIn[p]: the part of p in the sum of this tick
  \* The Bridge driver object of the app on each place, and its clock thread.
  clientPc, clockStop, published, nextBlock, input,
  \* History, for the properties only.
  since,         \* the first block of the current MasterHolder
  joined,        \* the block at which the client joined (start)
  gaps           \* the blocks skipped on this place

counts   == <<owner, masterBlocks, clientBlocks>>
rings    == <<toClients, fromClient>>
region   == <<counts, rings>>
holder   == <<bridgeFed, mixBlock, have, masterIn, since>>
worker   == <<workerPc, holder>>
threads  == <<clockStop, published, nextBlock, input, joined>>
clients  == <<clientPc, threads, gaps>>
vars     == <<region, bridgeTick, table, worker, clients>>

Silence == -1
Blocks  == 0..MaxBlocks
Slots   == 0..(Ring - 1)
Audio   == Blocks \cup {Silence}

Slot(block) == block % Ring

\* Operators named Faulty... are the definition after them with a bug that a
\* change of the code could bring in: the properties are shown to notice it.

FaultyDelayBlocks(bridgeBuffer, asioBuffer) ==  \* not kept within the ring
  1 + (bridgeBuffer + asioBuffer - 1) \div asioBuffer

\* Blocks a client's output trails the Master: BridgeDelayBlocks.
BridgeDelayBlocks(bridgeBuffer, asioBuffer) ==
  LET extra == IF asioBuffer = 0 THEN 1
               ELSE (bridgeBuffer + asioBuffer - 1) \div asioBuffer
      delay == 1 + extra
  IN  IF delay < 2 THEN 2 ELSE IF delay > Ring - 1 THEN Ring - 1 ELSE delay

\* What SHARED BRIDGE delay a Save can come to.
Delays == {BridgeDelayBlocks(bridge, asio) : bridge \in BridgeBuffers, asio \in AsioBuffers}

WorkerStates == {"closed", "open", "idle", "out", "look", "mix", "publish", "signal"}
\* "read" and "write" are a client inside its memcpy from or to a ring slot.
ThreadStates == {"wait", "woken", "read", "write", "advance", "exited"}
ClientStates == {"closed", "claimed", "stopped", "cleared", "joining", "failed"} \cup ThreadStates

Running(p) == clientPc[p] \in ThreadStates
Mapped(p)  == clientPc[p] # "closed"

\* A zero-filled region: the mapping is only cast to the struct, so its
\* member initialisers never run.
NoOwner  == [p \in Places |-> FALSE]
NoBlocks == [p \in Places |-> 0]
NoAudio  == [ch \in Channels |-> Silence]
NoOutput == [s \in Slots |-> NoAudio]
NoInput  == [p \in Places |-> [s \in Slots |-> Silence]]

-----------------------------------------------------------------------------
(***************************************************************************)
(* The Master.                                                             *)
(***************************************************************************)

\* The mapping outlives the Master while a client maps it.
RegionHeld == \E p \in Places : Mapped(p)

\* init: CreateFileMapping opens the region the clients still hold, and
\* makes a zero-filled one when none does.
MasterOpen ==
  /\ workerPc = "closed"
  /\ workerPc' = "open"
  /\ IF RegionHeld
     THEN UNCHANGED <<region, since, joined, gaps>>
     ELSE /\ owner' = NoOwner
          /\ masterBlocks' = 0
          /\ clientBlocks' = NoBlocks
          /\ toClients' = NoOutput
          /\ fromClient' = NoInput
          /\ since' = 0
          /\ joined' = NoBlocks
          /\ gaps' = [p \in Places |-> {}]
  /\ UNCHANGED <<bridgeTick, table, clientPc, clockStop, published, nextBlock, input,
                 bridgeFed, mixBlock, have, masterIn>>

\* start: a new MasterHolder, whose bridgeFed_ is zero.
MasterStart ==
  /\ workerPc = "open"
  /\ workerPc' = "idle"
  /\ since' = masterBlocks
  /\ UNCHANGED <<region, bridgeTick, table, clients, bridgeFed, mixBlock, have, masterIn>>

\* The holder is deleted, by stop or with the process.
HolderGone ==
  /\ bridgeFed' = [s \in Slots |-> {}]
  /\ since' = masterBlocks
  /\ mixBlock' = -1
  /\ have' = {}
  /\ masterIn' = [p \in Places |-> Silence]

\* stop: the Worker is joined, so it finishes its tick first.
MasterStop ==
  /\ workerPc = "idle"
  /\ workerPc' = "open"
  /\ HolderGone
  /\ UNCHANGED <<region, bridgeTick, table, clients>>

\* The DAW closes the driver: the destructor unmaps the region.
MasterClose ==
  /\ workerPc = "open"
  /\ workerPc' = "closed"
  /\ UNCHANGED <<region, bridgeTick, table, clients, holder>>

FaultySlotAudio(slot, ch) ==  \* a channel no longer fed is left
  IF ch \in table.routed THEN masterBlocks ELSE toClients[slot][ch]

\* What the Worker puts in a slot for block masterBlocks on a channel: the
\* Master's BRIDGE OUT slot of it; a channel fed when the ring slot was last
\* used, and not now, is cleared.
SlotAudio(slot, ch) ==
  IF ch \in table.routed THEN masterBlocks
  ELSE IF ch \in bridgeFed[slot] THEN Silence
  ELSE toClients[slot][ch]

\* The process dies at any step: the block it was writing is half there,
\* and some of the events it was setting are set.
MasterCrash ==
  /\ MasterMayCrash
  /\ workerPc # "closed"
  /\ workerPc' = "closed"
  /\ \E written \in SUBSET Channels :
       toClients' = [toClients EXCEPT ![Slot(masterBlocks)] =
         [ch \in Channels |-> IF workerPc = "out" /\ ch \in written
                              THEN SlotAudio(Slot(masterBlocks), ch) ELSE @[ch]]]
  /\ \E set \in SUBSET Places :
       bridgeTick' = [p \in Places |-> bridgeTick[p] \/ (workerPc = "signal" /\ p \in set)]
  /\ HolderGone
  /\ UNCHANGED <<counts, fromClient, table, clients>>

\* A Save of the Master's panel, at any moment of a tick.
SaveTable ==
  /\ workerPc # "closed"
  /\ table' \in [routed : SUBSET Channels, delay : Delays]
  /\ UNCHANGED <<region, bridgeTick, worker, clients>>

\* Master_Tick: block t = masterBlocks begins.
WorkerTick ==
  /\ workerPc = "idle"
  /\ masterBlocks < MaxBlocks
  /\ workerPc' = "out"
  /\ UNCHANGED <<region, bridgeTick, table, clients, holder>>

\* The Master's BRIDGE OUT slots -> block t for every client.
WorkerOut ==
  /\ workerPc = "out"
  /\ LET slot == Slot(masterBlocks) IN
       /\ toClients' = [toClients EXCEPT ![slot] = [ch \in Channels |-> SlotAudio(slot, ch)]]
       /\ bridgeFed' = [bridgeFed EXCEPT ![slot] = table.routed]
  /\ workerPc' = "look"
  /\ UNCHANGED <<counts, fromClient, bridgeTick, table, clients, mixBlock, have, masterIn, since>>

FaultyReady(p, block) ==  \* the block a client is at counts as produced
  owner[p] /\ block >= 0 /\ clientBlocks[p] >= block

\* A client's block can be mixed: an app holds the place and its count is past it.
Ready(p, block) == owner[p] /\ block >= 0 /\ clientBlocks[p] > block

\* Which clients have produced block t - delay.
WorkerLook ==
  /\ workerPc = "look"
  /\ mixBlock' = masterBlocks - table.delay
  /\ have' = {p \in Places : Ready(p, mixBlock')}
  /\ workerPc' = "mix"
  /\ UNCHANGED <<region, bridgeTick, table, clients, bridgeFed, masterIn, since>>

\* Sum the blocks of the clients that have one.
WorkerMix ==
  /\ workerPc = "mix"
  /\ masterIn' = [p \in Places |-> IF p \in have THEN fromClient[p][Slot(mixBlock)] ELSE Silence]
  /\ workerPc' = "publish"
  /\ UNCHANGED <<region, bridgeTick, table, clients, bridgeFed, mixBlock, have, since>>

WorkerPublish ==
  /\ workerPc = "publish"
  /\ masterBlocks' = masterBlocks + 1
  /\ workerPc' = "signal"
  /\ mixBlock' = -1
  /\ have' = {}
  /\ masterIn' = [p \in Places |-> Silence]
  /\ UNCHANGED <<owner, clientBlocks, rings, bridgeTick, table, clients, bridgeFed, since>>

FaultyTicked ==  \* only the places that run are woken
  [p \in Places |-> bridgeTick[p] \/ clientBlocks[p] >= 0]

Ticked == [p \in Places |-> TRUE]

\* SetEvent on every place's tick.
WorkerSignal ==
  /\ workerPc = "signal"
  /\ bridgeTick' = Ticked
  /\ workerPc' = "idle"
  /\ UNCHANGED <<region, table, clients, holder>>

-----------------------------------------------------------------------------
(***************************************************************************)
(* A Bridge client: the driver object an app has on place p, and its clock *)
(* thread.  BridgePlaces shows that a place has one holder.                *)
(***************************************************************************)

\* What the object and its thread remember of a run dies with it.
Forget(p) ==
  /\ clockStop' = [clockStop EXCEPT ![p] = FALSE]
  /\ published' = [published EXCEPT ![p] = 0]
  /\ nextBlock' = [nextBlock EXCEPT ![p] = 0]
  /\ input' = [input EXCEPT ![p] = NoAudio]

\* init, claimClientPlace: the compare-exchange on a free place, or on one
\* whose app is gone.  Needs an open Master (its Master_Tick event).
ClientClaim(p) ==
  /\ clientPc[p] = "closed"
  /\ workerPc # "closed"
  /\ clientPc' = [clientPc EXCEPT ![p] = "claimed"]
  /\ owner' = [owner EXCEPT ![p] = TRUE]
  /\ UNCHANGED <<masterBlocks, clientBlocks, rings, bridgeTick, table, worker, threads, gaps>>

\* The rest of claimClientPlace: not running yet.
ClientReset(p) ==
  /\ clientPc[p] = "claimed"
  /\ clientPc' = [clientPc EXCEPT ![p] = "stopped"]
  /\ clientBlocks' = [clientBlocks EXCEPT ![p] = -1]
  /\ UNCHANGED <<owner, masterBlocks, rings, bridgeTick, table, worker, threads, gaps>>

FaultyClearedRing(p) == fromClient[p]  \* start does not clear

ClearedRing(p) == [s \in Slots |-> Silence]

\* start, in three steps: clear the place's ring ...
ClientClear(p) ==
  /\ clientPc[p] \in {"stopped", "failed"}
  /\ clientPc' = [clientPc EXCEPT ![p] = "cleared"]
  /\ fromClient' = [fromClient EXCEPT ![p] = ClearedRing(p)]
  /\ UNCHANGED <<counts, toClients, bridgeTick, table, worker, threads, gaps>>

\* ... read the Master's block count ...
ClientJoin(p) ==
  /\ clientPc[p] = "cleared"
  /\ clientPc' = [clientPc EXCEPT ![p] = "joining"]
  /\ nextBlock' = [nextBlock EXCEPT ![p] = masterBlocks]
  /\ joined' = [joined EXCEPT ![p] = masterBlocks]
  /\ UNCHANGED <<region, bridgeTick, table, worker, clockStop, published, input, gaps>>

\* ... announce the count and start the clock thread; where that fails the
\* place stays counted until a stop or another start.
ClientRun(p) ==
  /\ clientPc[p] = "joining"
  /\ \E next \in {"wait", "failed"} : clientPc' = [clientPc EXCEPT ![p] = next]
  /\ clientBlocks' = [clientBlocks EXCEPT ![p] = nextBlock[p]]
  /\ UNCHANGED <<owner, masterBlocks, rings, bridgeTick, table, worker, threads, gaps>>

FaultyUnlessStopped(p, next) == next  \* the thread does not look at clockStop_

\* The thread goes on unless it is asked to end.
UnlessStopped(p, next) == IF clockStop[p] THEN "exited" ELSE next

\* Where runClock's loop goes when a wake's work is done.
LoopEnd(p) == UnlessStopped(p, "wait")

\* runClock: the wait ends, by the tick (auto-reset) or by its timeout.
ClientWake(p) ==
  /\ clientPc[p] = "wait"
  /\ clientPc' = [clientPc EXCEPT ![p] = UnlessStopped(p, "woken")]
  /\ bridgeTick' = [bridgeTick EXCEPT ![p] = FALSE]
  /\ UNCHANGED <<region, table, worker, threads, gaps>>


FaultyBehind(p) == masterBlocks > nextBlock[p] + 1  \* the last block waits for another

\* A block is published that the client has not run.
Behind(p) == masterBlocks > nextBlock[p]

\* A ring behind: the inputs up to the last block are gone.
RingBehind(p) == masterBlocks - nextBlock[p] >= Ring

\* Blocks published since the last wake: run them, from the last one only
\* when a ring behind.
ClientCatchUp(p) ==
  /\ clientPc[p] = "woken"
  /\ Behind(p)
  /\ LET first == IF RingBehind(p) THEN masterBlocks - 1 ELSE nextBlock[p] IN
       /\ nextBlock' = [nextBlock EXCEPT ![p] = first]
       /\ gaps' = [gaps EXCEPT ![p] = @ \cup (nextBlock[p]..(first - 1))]
       /\ IF clockStop[p]
          THEN /\ clientPc' = [clientPc EXCEPT ![p] = "exited"]
               /\ UNCHANGED <<published, input>>
          ELSE /\ clientPc' = [clientPc EXCEPT ![p] = "read"]
               /\ published' = [published EXCEPT ![p] = masterBlocks]
               /\ input' = [input EXCEPT ![p] = toClients[Slot(first)]]
  /\ UNCHANGED <<region, bridgeTick, table, worker, clockStop, joined>>

\* Nothing published: after a timeout the DAW runs a period on silence, its
\* output unused.  A count below ours (a region made anew) is followed.
ClientIdle(p) ==
  /\ clientPc[p] = "woken"
  /\ ~Behind(p)
  /\ clientPc' = [clientPc EXCEPT ![p] = LoopEnd(p)]
  /\ IF masterBlocks < nextBlock[p]
     THEN /\ nextBlock' = [nextBlock EXCEPT ![p] = masterBlocks]
          /\ clientBlocks' = [clientBlocks EXCEPT ![p] = masterBlocks]
     ELSE UNCHANGED <<nextBlock, clientBlocks>>
  /\ UNCHANGED <<owner, masterBlocks, rings, bridgeTick, table, worker, clockStop, published,
                 input, joined, gaps>>

\* What a copy of a slot may have caught of a channel by now: what was there
\* when it began, what is there, or what the Worker is writing.
Caught(p, ch) ==
  LET slot == Slot(nextBlock[p]) IN
  {input[p][ch], toClients[slot][ch]}
    \cup (IF workerPc = "out" /\ Slot(masterBlocks) = slot THEN {SlotAudio(slot, ch)} ELSE {})

\* clockTick: the copy of the inputs ends; bufferSwitch runs the DAW.
ClientRead(p) ==
  /\ clientPc[p] = "read"
  /\ clientPc' = [clientPc EXCEPT ![p] = "write"]
  /\ \E audio \in [Channels -> Audio] :
       /\ \A ch \in Channels : audio[ch] \in Caught(p, ch)
       /\ input' = [input EXCEPT ![p] = audio]
  /\ UNCHANGED <<region, bridgeTick, table, worker, clockStop, published, nextBlock, joined, gaps>>

\* clockTick: the copy of the outputs ends.
ClientWrite(p) ==
  /\ clientPc[p] = "write"
  /\ clientPc' = [clientPc EXCEPT ![p] = "advance"]
  /\ fromClient' = [fromClient EXCEPT ![p][Slot(nextBlock[p])] = nextBlock[p]]
  /\ input' = [input EXCEPT ![p] = NoAudio]
  /\ UNCHANGED <<counts, toClients, bridgeTick, table, worker, clockStop, published, nextBlock,
                 joined, gaps>>

\* Count the block; the next one of this wake, if any, begins.
ClientAdvance(p) ==
  /\ clientPc[p] = "advance"
  /\ LET next == nextBlock[p] + 1 IN
       /\ nextBlock' = [nextBlock EXCEPT ![p] = next]
       /\ clientBlocks' = [clientBlocks EXCEPT ![p] = next]
       /\ IF next < published[p] /\ ~clockStop[p]
          THEN /\ clientPc' = [clientPc EXCEPT ![p] = "read"]
               /\ input' = [input EXCEPT ![p] = toClients[Slot(next)]]
               /\ UNCHANGED published
          ELSE /\ clientPc' = [clientPc EXCEPT ![p] = LoopEnd(p)]
               /\ published' = [published EXCEPT ![p] = 0]
               /\ UNCHANGED input
  /\ UNCHANGED <<owner, masterBlocks, rings, bridgeTick, table, worker, clockStop, joined, gaps>>

\* stop: ask the thread to end ...
ClientStop(p) ==
  /\ Running(p)
  /\ clockStop' = [clockStop EXCEPT ![p] = TRUE]
  /\ UNCHANGED <<region, bridgeTick, table, worker, clientPc, published, nextBlock, input,
                 joined, gaps>>

\* ... and, once it is joined if there is one, be mixed no more.
ClientStopped(p) ==
  /\ clientPc[p] \in {"exited", "failed"}
  /\ clientPc' = [clientPc EXCEPT ![p] = "stopped"]
  /\ clientBlocks' = [clientBlocks EXCEPT ![p] = -1]
  /\ Forget(p)
  /\ joined' = [joined EXCEPT ![p] = 0]
  /\ UNCHANGED <<owner, masterBlocks, rings, bridgeTick, table, worker, gaps>>

\* The app closes the driver: releaseClientPlace.
ClientRelease(p) ==
  /\ clientPc[p] = "stopped"
  /\ clientPc' = [clientPc EXCEPT ![p] = "closed"]
  /\ clientBlocks' = [clientBlocks EXCEPT ![p] = -1]
  /\ owner' = [owner EXCEPT ![p] = FALSE]
  /\ UNCHANGED <<masterBlocks, rings, bridgeTick, table, worker, threads, gaps>>

\* The app dies: its place stays owned, its count stays, and the block it
\* was writing is there or not.
ClientCrash(p) ==
  /\ Mapped(p)
  /\ clientPc' = [clientPc EXCEPT ![p] = "closed"]
  /\ \/ UNCHANGED fromClient
     \/ /\ clientPc[p] = "write"
        /\ fromClient' = [fromClient EXCEPT ![p][Slot(nextBlock[p])] = nextBlock[p]]
  /\ Forget(p)
  /\ UNCHANGED <<counts, toClients, bridgeTick, table, worker, joined, gaps>>

-----------------------------------------------------------------------------

Init ==
  /\ owner = NoOwner
  /\ masterBlocks = 0
  /\ clientBlocks = NoBlocks
  /\ toClients = NoOutput
  /\ fromClient = NoInput
  /\ bridgeTick = [p \in Places |-> FALSE]
  /\ table \in [routed : SUBSET Channels, delay : Delays]
  /\ workerPc = "closed"
  /\ bridgeFed = [s \in Slots |-> {}]
  /\ mixBlock = -1
  /\ have = {}
  /\ masterIn = [p \in Places |-> Silence]
  /\ clientPc = [p \in Places |-> "closed"]
  /\ clockStop = [p \in Places |-> FALSE]
  /\ published = [p \in Places |-> 0]
  /\ nextBlock = [p \in Places |-> 0]
  /\ input = [p \in Places |-> NoAudio]
  /\ since = 0
  /\ joined = [p \in Places |-> 0]
  /\ gaps = [p \in Places |-> {}]

Master ==
  \/ MasterOpen \/ MasterStart \/ MasterStop \/ MasterClose \/ MasterCrash \/ SaveTable

Worker ==
  \/ WorkerTick \/ WorkerOut \/ WorkerLook \/ WorkerMix \/ WorkerPublish \/ WorkerSignal

\* The app's calls into its driver.
App(p) ==
  \/ ClientClaim(p) \/ ClientReset(p) \/ ClientClear(p) \/ ClientJoin(p) \/ ClientRun(p)
  \/ ClientStop(p) \/ ClientStopped(p) \/ ClientRelease(p) \/ ClientCrash(p)

\* Its clock thread.
Thread(p) ==
  \/ ClientWake(p) \/ ClientCatchUp(p) \/ ClientIdle(p)
  \/ ClientRead(p) \/ ClientWrite(p) \/ ClientAdvance(p)

Next ==
  \/ Master
  \/ Worker
  \/ \E p \in Places : App(p) \/ Thread(p)

Spec == Init /\ [][Next]_vars

\* A clock thread is a running Windows thread: a step of it that stays
\* possible is taken, and stop, once it waits for the thread, goes on.  The
\* apps owe nothing else, and the Master may stop ticking.
Fairness == \A p \in Places : WF_vars(Thread(p)) /\ WF_vars(Running(p) /\ ClientStopped(p))

FairSpec == Spec /\ Fairness

-----------------------------------------------------------------------------
(***************************************************************************)
(* Properties.                                                             *)
(***************************************************************************)

TypeOK ==
  /\ owner \in [Places -> BOOLEAN]
  /\ masterBlocks \in Blocks
  /\ clientBlocks \in [Places -> Blocks \cup {-1}]
  /\ toClients \in [Slots -> [Channels -> Audio]]
  /\ fromClient \in [Places -> [Slots -> Audio]]
  /\ bridgeTick \in [Places -> BOOLEAN]
  /\ table \in [routed : SUBSET Channels, delay : Delays]
  /\ workerPc \in WorkerStates
  /\ bridgeFed \in [Slots -> SUBSET Channels]
  /\ mixBlock \in Int
  /\ have \in SUBSET Places
  /\ masterIn \in [Places -> Audio]
  /\ clientPc \in [Places -> ClientStates]
  /\ clockStop \in [Places -> BOOLEAN]
  /\ published \in [Places -> Blocks]
  /\ nextBlock \in [Places -> Blocks]
  /\ input \in [Places -> [Channels -> Audio]]
  /\ since \in Blocks
  /\ joined \in [Places -> Blocks]
  /\ gaps \in [Places -> SUBSET Blocks]

\* The Worker never sums a ring slot the client is writing: the delay is
\* short of the ring by a block (BridgeDelayBlocks), whatever Save changes.
NoTornMix ==
  \A p \in have :
    workerPc = "mix" /\ clientPc[p] = "write" => Slot(mixBlock) # Slot(nextBlock[p])

\* What the Worker sums for block m of a client it finds ahead of m is that
\* block: not lost, not another one, not a previous run's.  It is silence
\* only before the client joined or when it is going, and it is anything
\* only for a block the client skipped.
MixIsExact ==
  \A p \in have :
    workerPc = "mix" /\ workerPc' = "publish" =>
      \/ masterIn'[p] = mixBlock
      \/ masterIn'[p] = Silence /\ (mixBlock < joined[p] \/ ~Running(p))
      \/ mixBlock \in gaps[p]

MixExact == [][MixIsExact]_vars

\* Audio from before the current MasterHolder's first block; a Master that
\* died may have begun that very block.
Old(audio) == audio < since \/ (MasterMayCrash /\ audio = since)

\* A client that was not overtaken while it copied block n (the Worker has
\* not come round to its slot) has block n on the channels routed then, and
\* on the others silence or what an earlier MasterHolder left there.
InputExact ==
  \A p \in Places :
    clientPc[p] = "write" /\ nextBlock[p] >= since /\ masterBlocks < nextBlock[p] + Ring =>
      \A ch \in Channels :
        IF ch \in bridgeFed[Slot(nextBlock[p])] THEN input[p][ch] = nextBlock[p]
        ELSE Old(input[p][ch])

\* A client's count is never ahead of the Master's: a region is made anew
\* only when no client holds it, so runClock's "new count" branch is dead.
NeverAhead ==
  \A p \in Places :
    /\ Running(p) => clientBlocks[p] <= nextBlock[p] /\ nextBlock[p] <= masterBlocks
    /\ clientBlocks[p] <= masterBlocks

\* A client waiting with a block to run has its tick: while the Master's
\* process lives, no block waits for the 50 ms timeout.
NoLostWakeup ==
  \A p \in Places :
    clientPc[p] = "wait" /\ nextBlock[p] < masterBlocks /\ ~MasterMayCrash =>
      bridgeTick[p] \/ workerPc = "signal"

\* A running client comes to every block the Master publishes, or is stopped.
CatchesUp ==
  \A p \in Places : \A m \in Blocks :
    (Running(p) /\ masterBlocks >= m) ~> (nextBlock[p] >= m \/ clockStop[p] \/ ~Running(p))

\* stop returns: the clock thread it joins ends, whatever the Master does.
StopEnds ==
  \A p \in Places : (Running(p) /\ clockStop[p]) ~> ~Running(p)

-----------------------------------------------------------------------------
(***************************************************************************)
(* The inductive invariant behind the safety properties, in parts.         *)
(***************************************************************************)

\* A place with a count: of a running client, or left by an app that died.
Counted(p) == clientBlocks[p] >= 0

\* Who holds what in each phase of a place.
PhaseInv ==
  \A p \in Places :
    /\ Mapped(p) => owner[p]
    /\ clientPc[p] = "stopped" => clientBlocks[p] = -1
    /\ clientPc[p] \in {"cleared", "joining", "failed"} =>
         fromClient[p] = [s \in Slots |-> Silence] /\ clientBlocks[p] <= joined[p]
    /\ clientPc[p] = "joining" => nextBlock[p] = joined[p]
    /\ clientPc[p] = "advance" => fromClient[p][Slot(nextBlock[p])] = nextBlock[p]

\* The counts of a client and the Master, and what is between them.
CursorInv ==
  /\ workerPc \in {"out", "look", "mix", "publish"} => masterBlocks < MaxBlocks
  /\ \A p \in Places :
       /\ clientBlocks[p] <= masterBlocks
       /\ clientPc[p] = "joining" => nextBlock[p] <= masterBlocks
       /\ Running(p) =>
            /\ 0 <= clientBlocks[p] /\ joined[p] <= clientBlocks[p]
            /\ clientBlocks[p] <= nextBlock[p]
            /\ nextBlock[p] <= masterBlocks
            /\ clientBlocks[p]..(nextBlock[p] - 1) \subseteq gaps[p]
       /\ clientPc[p] \in {"read", "write", "advance"} =>
            nextBlock[p] < published[p] /\ published[p] <= masterBlocks

\* A place's ring: no block but its run's, each in its slot, and every block
\* of the last Ring - 1 that was run.
PlaceRing(p) ==
  /\ \A s \in Slots :
       LET audio == fromClient[p][s] IN
       audio # Silence => joined[p] <= audio /\ audio < masterBlocks /\ Slot(audio) = s
  /\ \A m \in Blocks :
       joined[p] <= m /\ m < clientBlocks[p] /\ masterBlocks - Ring < m /\ m \notin gaps[p] =>
         fromClient[p][Slot(m)] = m

RingInv == \A p \in Places : Counted(p) => PlaceRing(p)

\* A client that runs, or whose thread is about to.
Going(p) == Running(p) \/ clientPc[p] = "joining"

\* What the Worker finds in the slot of a client it has looked at.
MixSound(p) ==
  LET audio == fromClient[p][Slot(mixBlock)] IN
  /\ mixBlock >= 0
  /\ Going(p) => mixBlock < nextBlock[p]
  /\ \/ audio = mixBlock
     \/ mixBlock \in gaps[p]
     \/ audio = Silence /\ (mixBlock < joined[p] \/ ~Going(p))

\* Between the Worker's look at the counts and its sum.
MixInv ==
  /\ workerPc = "mix" => masterBlocks - Ring < mixBlock /\ mixBlock <= masterBlocks - 2
  /\ workerPc \notin {"mix", "publish"} => have = {}
  /\ workerPc = "mix" => \A p \in have : MixSound(p)

\* The block the Worker has written last, published or not.
Written == IF workerPc \in {"look", "mix", "publish"} THEN masterBlocks ELSE masterBlocks - 1

\* Block n as the Master left it on the channels it routed, and on the others.
IsBlock(audio, n) ==
  \A ch \in Channels :
    IF ch \in bridgeFed[Slot(n)] THEN audio[ch] = n ELSE Old(audio[ch])

\* toClients holds the last Ring blocks of the current MasterHolder, and
\* bridgeFed remembers every channel it fed.
OutputInv ==
  /\ since <= masterBlocks
  /\ \A s \in Slots, ch \in Channels : ch \notin bridgeFed[s] => Old(toClients[s][ch])
  /\ \A s \in Slots, ch \in Channels : toClients[s][ch] <= masterBlocks
  /\ \A s \in Slots, ch \in Channels :
       ~MasterMayCrash /\ toClients[s][ch] = masterBlocks => workerPc \in {"look", "mix", "publish"}
  /\ \A n \in Blocks :
       since <= n /\ Written - Ring < n /\ n <= Written => IsBlock(toClients[Slot(n)], n)

\* A client in the middle of a block that was not overtaken has it.
PlaceInput(p) ==
  clientPc[p] \in {"read", "write"} /\ nextBlock[p] >= since
    /\ masterBlocks < nextBlock[p] + Ring => IsBlock(input[p], nextBlock[p])

InputInv == \A p \in Places : PlaceInput(p)

\* A client about to wait knows of every block, or will be told.
WakeInv ==
  ~MasterMayCrash =>
    \A p \in Places :
      \/ bridgeTick[p] \/ workerPc = "signal"
      \/ /\ clientPc[p] \in {"joining", "wait"} => nextBlock[p] = masterBlocks
         /\ clientPc[p] \in {"read", "write", "advance"} => published[p] = masterBlocks

IInv ==
  /\ TypeOK /\ PhaseInv /\ CursorInv /\ RingInv /\ MixInv /\ OutputInv /\ InputInv /\ WakeInv

===============================================================================
