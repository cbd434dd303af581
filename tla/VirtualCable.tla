----------------------------- MODULE VirtualCable -----------------------------
(***************************************************************************)
(* The audio of one direction of a Virtual Cable: a ring in the driver,    *)
(* "play" from a Windows playback stream to the Worker or "record" from    *)
(* the Worker to a Windows recording stream.  The Worker exchanges a block *)
(* per tick; the stream's timer moves the frames that passed since it last *)
(* ran, one millisecond as a rule.  Both go by clocks of the same rate,    *)
(* and either may be late.  Time is counted in frames.                     *)
(*                                                                         *)
(* The two directions share the Worker's calls and nothing else, so each   *)
(* is looked at alone.  Every branch of a ring hangs on its counts, so a   *)
(* ring is its counts here; what its cells hold is CableRing's.  Left out: *)
(* sample formats and volume, which change no count; failed exchanges,     *)
(* which are to the cable as missed ticks.                                 *)
(***************************************************************************)
EXTENDS CableRing

CONSTANTS
  Blocks,       \* the Worker's block sizes (asioBuffer)
  DefaultBlock, \* the block before a Worker's first exchange (512)
  Most,         \* the longest latency at the cable's rate (50 ms)
  Buffer,       \* frames of a stream's cyclic buffer
  MaxLate,      \* frames a Worker's tick may be late: a bound
  MaxTimer      \* frames a stream's timer may be late: a bound

VARIABLES
  side,          \* the direction
  ring,          \* counts of its ring (WHACable::play, WHACable::record)
  workerFrames,  \* the Worker's last block, 0 before there was one
  open,          \* whether a Worker has the control device open
  block,         \* the block the Worker ticks with
  workerDue,     \* frames passed since the Worker's tick was last on time
  waveState,     \* the Windows stream: none, halted (stopped or paused) or running
  due            \* frames passed and not yet moved by the stream

cableVars == <<side, ring, workerFrames, open, block, workerDue, waveState, due>>

ASSUME CableAssumption ==
  /\ Blocks \subseteq 1..Frames /\ DefaultBlock \in 1..Frames
  /\ Most \in Nat /\ Buffer \in Nat \ {0} /\ MaxLate \in Nat /\ MaxTimer \in Nat \ {0}

Running == waveState = "run"

CableTypeOK ==
  /\ side \in {"play", "record"}
  /\ ring \in Counts
  /\ workerFrames \in Blocks \cup {0}
  /\ open \in BOOLEAN /\ block \in Blocks
  /\ workerDue \in Nat
  /\ waveState \in {"none", "halt", "run"}
  /\ due \in Nat

CableInit ==
  /\ side \in {"play", "record"}
  /\ ring = Cleared
  /\ workerFrames = 0 /\ open = FALSE /\ block \in Blocks /\ workerDue = 0
  /\ waveState = "none" /\ due = 0

-----------------------------------------------------------------------------
(***************************************************************************)
(* Latencies, as both readers of a cable compute them (WHADriver.h).       *)
(***************************************************************************)
CableGrow(w)  == IF w = 0 THEN DefaultBlock ELSE w
CablePrime(w) == 2 * CableGrow(w)
CableSlack(w) == 4 * CableGrow(w)
CableMaxPrime(w) == Smaller(Larger(Most, 4 * CableGrow(w)), Frames \div 2)

ReadOn(c, n, w) == AfterRead(c, n, CablePrime(w), CableSlack(w), CableGrow(w), CableMaxPrime(w))

-----------------------------------------------------------------------------
(***************************************************************************)
(* The Worker.                                                             *)
(***************************************************************************)

\* It opens the control device, which one process at a time may: every cable
\* starts empty, from its base latency.
WorkerOpen ==
  /\ ~open
  /\ open' = TRUE /\ ring' = Cleared /\ workerDue' = 0
  /\ UNCHANGED <<side, workerFrames, block, waveState, due>>

WorkerClose ==
  /\ open
  /\ open' = FALSE /\ workerDue' = 0
  /\ UNCHANGED <<side, ring, workerFrames, block, waveState, due>>

\* A Save changes the block while the Worker runs.
SaveBlock ==
  /\ block' \in Blocks \ {block}
  /\ UNCHANGED <<side, ring, workerFrames, open, workerDue, waveState, due>>

FaultyRebased == ring

\* The ring as a block of another size finds it: from its base latency.
Rebased == IF workerFrames = block THEN ring ELSE ResetExtra(ring)

\* The Worker's tick: IOCTL_WHA_CABLE_EXCHANGE with a block each way.
ExchangeBlocks ==
  /\ open /\ workerDue >= block
  /\ workerFrames' = block
  /\ ring' = IF side = "play" THEN ReadOn(Rebased, block, block) ELSE Added(Rebased, block)
  /\ workerDue' = workerDue - block
  /\ UNCHANGED <<side, open, block, waveState, due>>

\* A tick is missed, or its exchange fails: nothing moves in its place.
MissTick ==
  /\ open /\ workerDue >= block
  /\ workerDue' = workerDue - block
  /\ UNCHANGED <<side, ring, workerFrames, open, block, waveState, due>>

-----------------------------------------------------------------------------
(***************************************************************************)
(* The Windows stream (WHAWaveStream).  Its buffer is there while the      *)
(* stream runs: PortCls allocates it before and frees it after.            *)
(***************************************************************************)

\* UpdateLocked: a stream that fell behind a whole buffer skips the lost part.
\* The rest moves in one part or, where it goes past the end of the cyclic
\* buffer, in two; the parts of a played stream are written one after the other.
Update ==
  LET pending == Smaller(due, Buffer) IN
    \/ side = "play" /\ ring' = Added(ring, pending)
    \/ side = "record" /\ ring' = ReadOn(ring, pending, workerFrames)
    \/ /\ side = "record"
       /\ \E first \in 1..(pending - 1) :
            ring' = ReadOn(ReadOn(ring, first, workerFrames), pending - first, workerFrames)

\* The timer, or the engine's GetPosition.
StreamTimer ==
  /\ Running /\ due > 0
  /\ Update
  /\ due' = 0
  /\ UNCHANGED <<side, workerFrames, open, block, workerDue, waveState>>

StreamNew ==
  /\ waveState = "none"
  /\ waveState' = "halt"
  /\ UNCHANGED <<side, ring, workerFrames, open, block, workerDue, due>>

StreamRun ==
  /\ waveState = "halt"
  /\ waveState' = "run"
  /\ UNCHANGED <<side, ring, workerFrames, open, block, workerDue, due>>

\* A running stream is moved up to the moment it stops or pauses.
StreamHalt ==
  /\ Running
  /\ waveState' = "halt"
  /\ Update
  /\ due' = 0
  /\ UNCHANGED <<side, workerFrames, open, block, workerDue>>

\* The stream goes away, stopped or not, with what it had not moved.
StreamClose ==
  /\ waveState # "none"
  /\ waveState' = "none" /\ due' = 0
  /\ UNCHANGED <<side, ring, workerFrames, open, block, workerDue>>

-----------------------------------------------------------------------------
\* A frame's time passes for both; how late each may be is bounded.
Elapse ==
  /\ open \/ Running
  /\ open => workerDue < block + MaxLate
  /\ Running => due < MaxTimer
  /\ workerDue' = IF open THEN workerDue + 1 ELSE workerDue
  /\ due' = IF Running THEN due + 1 ELSE due
  /\ UNCHANGED <<side, ring, workerFrames, open, block, waveState>>

CableNext ==
  \/ WorkerOpen \/ WorkerClose \/ SaveBlock \/ ExchangeBlocks \/ MissTick
  \/ StreamTimer \/ StreamNew \/ StreamRun \/ StreamHalt \/ StreamClose
  \/ Elapse

CableSpec == CableInit /\ [][CableNext]_cableVars

\* Time passes, the Worker ticks and the timer runs.
FairCableSpec == CableSpec /\ WF_cableVars(Elapse) /\ WF_cableVars(ExchangeBlocks) /\ WF_cableVars(StreamTimer)

-----------------------------------------------------------------------------
(***************************************************************************)
(* Properties.                                                             *)
(***************************************************************************)

\* A latency grows only within what the cable allows (50 ms or four blocks),
\* through Saves of the block and readers that come short.
GrownWithin ==
  ring.extra > 0 => CablePrime(workerFrames) + ring.extra <= CableMaxPrime(workerFrames)

\* Both, as one invariant.
CableInv == CableTypeOK /\ GrownWithin

\* The frames a step takes from what is due, and the block of a Worker's step.
Moves == IF due > due' THEN due - due' ELSE 0
Ticks == IF workerDue > workerDue' THEN block ELSE 0

\* A step breaks the audio of a direction that plays: frames are lost, or missing.
Gap == ring.primed /\ ring'.fill - ring.fill # IF side = "play" THEN Moves - Ticks ELSE Ticks - Moves

\* A step that loses audio before it comes to the cable.
Slip == MissTick \/ SaveBlock \/ (Running /\ due > Buffer /\ due' = 0)

\* The audio comes: the Worker has the cable, the stream runs, and from some
\* time on nothing is lost before it comes to the cable.
AudioComes == <>[](open /\ Running) /\ <>[][~Slip]_cableVars

\* However late a Worker and a stream may be, within what the latency can
\* grow to, a direction whose audio comes settles: in the end it plays
\* without a gap.
Settles == AudioComes => <>[][~Gap]_cableVars

\* The delay that missed ticks or a late start leave is not for ever: where
\* audio comes, the queue is again and again within latency and slack.
Backlog == ring.fill > Prime(ring, CablePrime(workerFrames)) + CableSlack(workerFrames)
BacklogEnds == AudioComes => []<>~Backlog

===============================================================================
