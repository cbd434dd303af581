------------------------------ MODULE HwFifos ------------------------------
(***************************************************************************)
(* The queues between the Master Clock's ticks and a HW device on its own  *)
(* clock: an input (HwInputFifo, fed by KsCapture) or an output other than *)
(* the Master Clock's (HwOutputFifo, emptied into KsAudio).  Both are      *)
(* their counts here, in frames; what they hold decides no branch.         *)
(*                                                                         *)
(* The Worker may miss ticks, a device may deliver late or play unevenly,  *)
(* and both directions wait in silence until the Master Clock has settled. *)
(* Left out: the delay-locked loops and resamplers.  The input's estimate  *)
(* of what is produced but not delivered is taken as exact; an output's    *)
(* of its device's fill may be anything up to what the device says.  Left  *)
(* out: a device that is gone, whose FIFO fills up and stays.              *)
(***************************************************************************)
EXTENDS Integers

CONSTANTS
  Block,     \* frames of a tick
  Rate,      \* frames of a second
  HwBuffer,  \* the period asked for, 0 for the device's least
  MinPeriod, \* the least period of a device opened exclusively
  MixPeriod, \* the period of Windows' mixer
  MaxLate,   \* frames a device may have produced and not delivered: a bound
  MaxMissed, \* ticks the Worker may miss in a row: a bound
  Chunks,    \* steps a device may be seen to play in (chunk_)
  MaxChunk,  \* the longest of them
  LowTicks   \* ticks a low output is given to recover (kLowSec)

ASSUME FifoAssumption ==
  /\ \A n \in {Block, Rate, MinPeriod, MixPeriod} : n \in Nat \ {0}
  /\ HwBuffer \in Nat
  /\ MaxLate \in Nat /\ \A n \in {HwBuffer, MinPeriod, MixPeriod} : n <= MaxLate
  /\ MaxMissed \in Nat
  /\ MaxChunk \in Nat /\ Chunks \subseteq 0 .. MaxChunk
  /\ LowTicks \in Nat

VARIABLES
  side,        \* "input" or "output"
  shared,      \* the device was opened through Windows' mixer
  held,        \* the Master Clock has not settled yet (hwHeld_)
  queued,      \* frames in the FIFO (count_)
  prime,       \* input: the backlog it starts at (prime_)
  primed,      \* input: it is being read
  undelivered, \* input: frames the device has produced and not delivered
  clipped,     \* input: its backlog was last set short of the target, or cut
  owed,        \* output: frames of silence to play first (silenceDue_)
  padding,     \* output: frames in the device's buffer
  low          \* output: ticks its backlog has been low

inputs == <<prime, primed, undelivered, clipped>>
outputs == <<owed, padding, low>>
vars == <<side, shared, held, queued, inputs, outputs>>

Least(a, b) == IF a <= b THEN a ELSE b
Most(a, b) == IF a >= b THEN a ELSE b

\* A period below the device's least becomes that; the mixer has its own.
Periods == [s \in BOOLEAN |-> IF s THEN MixPeriod ELSE Most(HwBuffer, MinPeriod)]
Period == Periods[shared]

\* A device's buffer: four of its periods, six of the mixer's, and four blocks.
Buffers == [s \in BOOLEAN |->
  Periods[s] * Most(IF s THEN 6 ELSE 4, (4 * Block + Periods[s] - 1) \div Periods[s])]
Buffer == Buffers[shared]

\* The mixer hands over up to two of its periods at once.
FifoPeriod == IF shared THEN 2 * Period ELSE Period

FirstPrime == 2 * Block + FifoPeriod
MostPrime == Most(FirstPrime + 16 * FifoPeriod, Rate \div 10)
InputRoom == MostPrime + FifoPeriod + 16 * Block
OutputRoom == Buffer + 16 * Block

\* The backlog an output is kept at, for the steps its device plays in.
TargetFor(chunk) == Most(Buffer - Most(chunk, Block), 2 * Block)

\* What KsAudio::start queues and an unsettled output is kept at.
DeviceFill == IF Buffer > 2 * Block THEN Buffer - 2 * Block ELSE Period

ResetInput == prime = FirstPrime /\ primed = FALSE /\ undelivered = 0 /\ clipped = FALSE
ResetOutput == owed = 0 /\ padding = DeviceFill /\ low = 0

Init ==
  /\ side \in {"input", "output"} /\ shared \in BOOLEAN
  /\ held = TRUE
  /\ queued = 0
  /\ ResetInput /\ ResetOutput

-----------------------------------------------------------------------------
(***************************************************************************)
(* An input.  A tick finds that the device has produced a block more, for  *)
(* every tick since the last one routed, and delivered some packets.       *)
(***************************************************************************)
Deliveries(missed) ==
  {n \in 0 .. (undelivered + (missed + 1) * Block) \div Period :
     undelivered + (missed + 1) * Block - n * Period <= MaxLate}

\* Held: what is delivered is thrown away, and the FIFO stays as reset.
HoldInput ==
  /\ side = "input" /\ held
  /\ \E missed \in 0 .. MaxMissed : \E n \in Deliveries(missed) :
       undelivered' = undelivered + (missed + 1) * Block - n * Period
  /\ UNCHANGED <<side, shared, held, queued, prime, primed, clipped, outputs>>

Pushed(n) == Least(queued + n * Period, InputRoom)

\* Missed ticks drop their frames from a FIFO being read.
FaultySkipped(q, missed) == q
Skipped(q, missed) == IF primed THEN q - Least(missed * Block, q) ELSE q

\* It starts once the backlog is there, at the target exactly if enough of it is queued.
Starts(q, late) == ~primed /\ q + late >= prime + Block /\ q >= Block
Excess(q, late) == q + late - (prime + Block)
Started(q, late) == IF Starts(q, late) THEN q - Least(Excess(q, late), q - Block) ELSE q

FarAbove(q) == q > prime + FifoPeriod + 8 * Block
Trimmed(q) == IF FarAbove(q) THEN prime + Block ELSE q

\* A starve raises the target by a quarter, and at least a period.
FaultyGrown == prime
Grown == Least(prime + Most(prime \div 4, FifoPeriod), MostPrime)

ReadInput ==
  /\ side = "input"
  /\ \E missed \in 0 .. MaxMissed : \E n \in Deliveries(missed) :
       LET late == undelivered + (missed + 1) * Block - n * Period
           skipped == Skipped(Pushed(n), missed)
           started == Started(skipped, late)
           reading == primed \/ Starts(skipped, late)
           ready == IF reading THEN Trimmed(started) ELSE started
       IN  /\ undelivered' = late
           /\ clipped' = IF Starts(skipped, late) THEN Excess(skipped, late) > skipped - Block
                         ELSE \/ clipped \/ Pushed(n) < queued + n * Period
                              \/ primed /\ (missed * Block > Pushed(n) \/ FarAbove(started))
           /\ \/ ~reading /\ queued' = ready /\ UNCHANGED <<prime, primed>>
              \/ reading /\ ready < Block /\ queued' = ready /\ primed' = FALSE /\ prime' = Grown
              \/ reading /\ ready >= Block /\ queued' = ready - Block /\ primed' = TRUE /\ UNCHANGED prime
  /\ held' = FALSE
  /\ UNCHANGED <<side, shared, outputs>>

-----------------------------------------------------------------------------
(***************************************************************************)
(* An output.  Since the last tick its device has played some of its       *)
(* buffer.                                                                 *)
(***************************************************************************)
\* Held: silence up to the device's fill.
HoldOutput ==
  /\ side = "output" /\ held
  /\ \E left \in 0 .. padding : padding' = Most(left, DeviceFill)
  /\ UNCHANGED <<side, shared, held, queued, inputs, owed, low>>

\* Released: the FIFO joins a device playing silence, with silence up to its target.
PrimeSilence(left) == Most(TargetFor(0) - left, 0)

\* Missed ticks owe their frames as silence.
Owed(left, missed) == IF held THEN PrimeSilence(left) ELSE owed + missed * Block

IsLow(backlog, target) == 2 * backlog < target
Refill(backlog, target, ticks) == IF IsLow(backlog, target) /\ ticks >= LowTicks THEN target - backlog ELSE 0

\* Far ahead: back to the target, owed silence first, then the oldest frames.
Surplus(backlog, target, chunk) == IF backlog > target + chunk + 4 * Block THEN backlog - target ELSE 0

\* A block goes into the FIFO, which starts afresh at its release.
PushedOutput == Least((IF held THEN 0 ELSE queued) + Block, OutputRoom)

\* The frames to write come out of the FIFO behind the silence ahead of it.
Popped(behind, ahead, n) == behind - (n - Least(n, ahead))

\* The device may refuse a write: its frames are lost.
Written(left, n) == {left, left + n}

WriteOutput ==
  /\ side = "output"
  /\ \E left \in 0 .. padding, missed \in 0 .. MaxMissed, chunk \in Chunks : \E fill \in 0 .. left :
       LET target == TargetFor(chunk)
           pushed == PushedOutput
           seen == pushed + Owed(left, missed) + fill
           refill == Refill(seen, target, low)
           silence == Owed(left, missed) + refill
           surplus == Surplus(seen + refill, target, chunk)
           fromSilence == Least(surplus, silence)
           ahead == silence - fromSilence
           behind == pushed - Least(surplus - fromSilence, pushed)
           written == Least(ahead + behind, Buffer - left)
       IN  /\ low' = IF IsLow(seen, target) /\ refill = 0 THEN Least(low + 1, LowTicks) ELSE 0
           /\ owed' = ahead - Least(written, ahead)
           /\ queued' = Popped(behind, ahead, written)
           /\ padding' \in Written(left, written)
  /\ held' = FALSE
  /\ UNCHANGED <<side, shared, inputs>>

Next == HoldInput \/ ReadInput \/ HoldOutput \/ WriteOutput

\* The Worker ticks, and the Master Clock settles, a second after its device moves.
FairSpec == Init /\ [][Next]_vars /\ WF_vars(ReadInput) /\ WF_vars(WriteOutput)
Spec == Init /\ [][Next]_vars

-----------------------------------------------------------------------------
TypeOK ==
  /\ side \in {"input", "output"} /\ shared \in BOOLEAN
  /\ held \in BOOLEAN
  /\ queued \in 0 .. Most(InputRoom, OutputRoom)
  /\ prime \in FirstPrime .. MostPrime
  /\ primed \in BOOLEAN
  /\ undelivered \in 0 .. MaxLate
  /\ clipped \in BOOLEAN
  /\ owed \in Nat
  /\ padding \in 0 .. Buffer
  /\ low \in 0 .. LowTicks

(* An input being read has its target's frames queued or under way, which is *)
(* the latency reported to the DAW, through late packets and missed ticks,   *)
(* unless its start or a skip found too few frames queued, or it was cut.    *)
OnTarget == side = "input" /\ primed /\ ~clipped => queued + undelivered = prime

(* What a block pushed to an output waits behind in the FIFO stays within    *)
(* the target and its margins, whatever its device plays and however many    *)
(* ticks were missed.                                                        *)
WaitBounded == queued + owed <= Most(InputRoom, Buffer + MaxChunk + 4 * Block)

\* An input's FIFO keeps to its own room, owes no silence and is not read while held.
InputQueue == side = "input" => queued <= InputRoom /\ owed = 0 /\ (held => ~primed)

IInv == TypeOK /\ InputQueue /\ OnTarget /\ WaitBounded

(* An input whose backlog is as it was set starves only by packets later     *)
(* than its whole target, and then the target grows, unless they are later   *)
(* than the longest one: each starve is one InputSettles may count.          *)
StarvesLate ==
  [][primed /\ ~primed' /\ ~clipped' =>
       undelivered' > prime /\ (prime' > prime \/ undelivered' > MostPrime)]_vars

(* With packets never later than the longest target, an input starves only   *)
(* finitely often: growing and trimming do not take turns for ever.          *)
InputSettles == <>[](side = "input" => primed)
=============================================================================
