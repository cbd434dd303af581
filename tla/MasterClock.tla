------------------------------ MODULE MasterClock ------------------------------
(***************************************************************************)
(* The Master's two real-time threads and how a tick passes between them:  *)
(* the Master Clock (WinHookMasterASIO::runClock, clockTick) runs the DAW  *)
(* one period per tick; the Worker (MasterHolder::run) routes the tick:    *)
(* what the DAW left in the OUT slots, and what it will read from the IN   *)
(* slots next.  Two auto-reset events and two counts join them; the wait   *)
(* for the Worker is bounded by a period, and then the clock goes on.      *)
(*                                                                         *)
(* The slots' audio is abstracted to the number of the tick it is from.    *)
(* How the clock paces itself is left out: a tick comes when it comes.     *)
(***************************************************************************)
EXTENDS Integers

CONSTANT MaxTicks  \* bound on the ticks of the Master Clock

ASSUME TicksAssumption == MaxTicks \in Nat

VARIABLES
  mode,           \* where the DAW's start and stop calls are
  \* WinHookMasterASIO.
  clockPc, clockStop, clockTicks, outSlots,
  \* The events, which outlive a MasterHolder.
  masterTick, tableChanged,
  \* MasterHolder.
  workerPc, stopRequested, workerDone, routed, ticksSeen, haveTicks, inSlots,
  \* History, for the properties only.
  first,          \* the ticks before this start
  late,           \* the threads may be out of step
  drift           \* blocks the HW devices moved, less the ticks they moved for

holder == <<workerPc, workerDone, routed, ticksSeen, haveTicks, inSlots, drift>>
clock  == <<clockPc, clockTicks, outSlots>>
stops  == <<mode, clockStop, stopRequested, first>>
events == <<masterTick, tableChanged>>
vars   == <<holder, clock, stops, events, late>>

Ticks == 0..MaxTicks

\* "stopped": no holder; "failed": start had no clock thread, the holder is kept.
Modes        == {"stopped", "failed", "streaming", "joinClock", "tick", "table", "joinWorker"}
ClockStates  == {"none", "top", "check", "sleep", "pace", "in", "out", "count", "signal", "exited"}
WorkerStates == {"none", "open", "loop", "wait", "tick", "change", "route", "routed", "done",
                 "exited"}

-----------------------------------------------------------------------------
(***************************************************************************)
(* start and stop.                                                         *)
(***************************************************************************)

\* MasterHolder::running_: the holder has a Worker, until it is joined.
HolderRuns == workerPc # "none"

\* A MasterHolder is made and started: the ticks before it count as routed,
\* and its workerDone_ is signaled.  Its Worker thread may be refused: start
\* does not look, and keeps the holder without one.
NewHolder ==
  /\ workerPc' \in {"open", "none"}
  /\ workerDone' = TRUE
  /\ routed' = clockTicks
  /\ ticksSeen' = 0
  /\ haveTicks' = FALSE
  /\ drift' = 0
  /\ stopRequested' = FALSE
  /\ first' = clockTicks
  /\ late' = FALSE
  /\ UNCHANGED inSlots

Start ==
  /\ mode = "stopped"
  /\ NewHolder
  /\ \/ mode' = "streaming" /\ clockPc' = "top"
     \/ mode' = "failed" /\ UNCHANGED clockPc
  /\ clockStop' = FALSE
  /\ UNCHANGED <<clockTicks, outSlots, events>>

\* start again after the clock thread could not be made: the holder is kept.
StartAgain ==
  /\ mode = "failed"
  /\ mode' = "streaming"
  /\ clockPc' = "top"
  /\ UNCHANGED <<holder, clockTicks, outSlots, events, clockStop, stopRequested, first, late>>

\* stop: the clock thread is told to end and joined first ...
Stop ==
  /\ mode = "streaming"
  /\ mode' = "joinClock"
  /\ clockStop' = TRUE
  /\ UNCHANGED <<holder, clock, events, stopRequested, first, late>>

ClockJoined == mode = "failed" \/ (mode = "joinClock" /\ clockPc = "exited")

\* ... then the Worker is told: its flag, then both events it may wait for ...
StopWorker ==
  /\ ClockJoined
  /\ HolderRuns
  /\ mode' = "tick"
  /\ clockPc' = "none"
  /\ stopRequested' = TRUE
  /\ UNCHANGED <<holder, clockTicks, outSlots, events, clockStop, first, late>>

StopTick ==
  /\ mode = "tick"
  /\ mode' = "table"
  /\ masterTick' = TRUE
  /\ UNCHANGED <<holder, clock, tableChanged, clockStop, stopRequested, first, late>>

StopTable ==
  /\ mode = "table"
  /\ mode' = "joinWorker"
  /\ tableChanged' = TRUE
  /\ UNCHANGED <<holder, clock, masterTick, clockStop, stopRequested, first, late>>

Stopped ==
  /\ mode = "joinWorker"
  /\ workerPc = "exited"
  /\ mode' = "stopped"
  /\ workerPc' = "none"
  /\ UNCHANGED <<clock, events, workerDone, routed, ticksSeen, haveTicks, inSlots, drift,
                 clockStop, stopRequested, first, late>>

\* ... and a holder that has none is done with at once.
StopWithoutWorker ==
  /\ ClockJoined
  /\ ~HolderRuns
  /\ mode' = "stopped"
  /\ clockPc' = "none"
  /\ UNCHANGED <<holder, clockTicks, outSlots, events, clockStop, stopRequested, first, late>>

\* A Save, in any process.
Save ==
  /\ tableChanged' = TRUE
  /\ UNCHANGED <<holder, clock, stops, masterTick, late>>

-----------------------------------------------------------------------------
(***************************************************************************)
(* The Master Clock.                                                       *)
(***************************************************************************)

ClockGoes(from, to) == clockPc = from /\ clockPc' = to

ClockTop ==
  /\ ClockGoes("top", IF clockStop THEN "exited" ELSE "check")
  /\ UNCHANGED <<holder, clockTicks, outSlots, stops, events, late>>

\* The Worker is routing: between its look at the count and its own count.
Routing == workerPc \in {"route", "routed"}

FaultyRoutedUpTo(tick) == workerDone  \* the event decides, and not the count

RoutedUpTo(tick) == routed >= tick

\* waitWorker: the count decides, and without a Worker there is no wait.
ClockCheck ==
  /\ IF ~HolderRuns \/ RoutedUpTo(clockTicks)
     THEN ClockGoes("check", "pace") /\ late' = (late /\ Routing)
     ELSE ClockGoes("check", "sleep") /\ UNCHANGED late
  /\ UNCHANGED <<holder, clockTicks, outSlots, stops, events>>

\* Its event wakes the wait, which looks at the count again ...
ClockWake ==
  /\ ClockGoes("sleep", "check")
  /\ workerDone
  /\ workerDone' = FALSE
  /\ UNCHANGED <<workerPc, routed, ticksSeen, haveTicks, inSlots, drift, clockTicks, outSlots,
                 stops, events, late>>

\* ... and a period ends it: an overrun, unless the count is there by now.
ClockTimeout ==
  /\ ClockGoes("sleep", "pace")
  /\ late' = (late \/ routed < clockTicks)
  /\ UNCHANGED <<holder, clockTicks, outSlots, stops, events>>

\* The tick is due, unless stop came.
ClockPace ==
  /\ IF clockStop THEN ClockGoes("pace", "exited")
     ELSE ClockGoes("pace", "in") /\ clockTicks < MaxTicks
  /\ UNCHANGED <<holder, clockTicks, outSlots, stops, events, late>>

\* clockTick: the IN slots are copied to the DAW and bufferSwitch runs it ...
ClockIn ==
  /\ ClockGoes("in", "out")
  /\ UNCHANGED <<holder, clockTicks, outSlots, stops, events, late>>

\* ... its outputs are copied to the OUT slots ...
ClockOut ==
  /\ ClockGoes("out", "count")
  /\ outSlots' = clockTicks + 1
  /\ UNCHANGED <<holder, clockTicks, stops, events, late>>

\* ... the tick is counted; the DAW may be told of new latencies here ...
ClockCount ==
  /\ ClockGoes("count", "signal")
  /\ clockTicks' = clockTicks + 1
  /\ UNCHANGED <<holder, outSlots, stops, events, late>>

\* ... and the Worker is woken.
ClockSignal ==
  /\ ClockGoes("signal", "top")
  /\ masterTick' = TRUE
  /\ UNCHANGED <<holder, clockTicks, outSlots, stops, tableChanged, late>>

-----------------------------------------------------------------------------
(***************************************************************************)
(* The Worker.                                                             *)
(***************************************************************************)

WorkerGoes(from, to) == workerPc = from /\ workerPc' = to

WorkerOpen ==
  /\ WorkerGoes("open", "loop")
  /\ UNCHANGED <<workerDone, routed, ticksSeen, haveTicks, inSlots, drift, clock, stops, events,
                 late>>

FaultyUnlessStopRequested(next) == next  \* the Worker does not look at stopRequested_

\* The Worker goes on unless it is asked to end.
UnlessStopRequested(next) == IF stopRequested THEN "exited" ELSE next

WorkerLoop ==
  /\ WorkerGoes("loop", UnlessStopRequested("wait"))
  /\ UNCHANGED <<workerDone, routed, ticksSeen, haveTicks, inSlots, drift, clock, stops, events,
                 late>>

\* WaitForMultipleObjects: the first handle that is signaled, and only it.
WorkerWake ==
  /\ \/ /\ WorkerGoes("wait", "tick")
        /\ masterTick
        /\ masterTick' = FALSE
        /\ UNCHANGED tableChanged
     \/ /\ WorkerGoes("wait", "change")
        /\ ~masterTick
        /\ tableChanged
        /\ tableChanged' = FALSE
        /\ UNCHANGED masterTick
  /\ UNCHANGED <<workerDone, routed, ticksSeen, haveTicks, inSlots, drift, clock, stops, late>>

\* TableChanged: the network engine and the driver are told.
WorkerChange ==
  /\ WorkerGoes("change", UnlessStopRequested("loop"))
  /\ UNCHANGED <<workerDone, routed, ticksSeen, haveTicks, inSlots, drift, clock, stops, events,
                 late>>


FaultyMissed == IF haveTicks /\ clockTicks > ticksSeen + 1 THEN clockTicks - ticksSeen ELSE 0

\* The ticks between this one and the last the Worker saw.
Missed == IF haveTicks /\ clockTicks > ticksSeen + 1 THEN clockTicks - ticksSeen - 1 ELSE 0

\* Master_Tick: the HW devices skip the blocks of missed ticks, then move one
\* with doTick.
WorkerTick ==
  /\ WorkerGoes("tick", UnlessStopRequested("route"))
  /\ IF workerPc' = "exited"
     THEN UNCHANGED <<ticksSeen, haveTicks, drift, late>>
     ELSE /\ ticksSeen' = clockTicks
          /\ haveTicks' = TRUE
          /\ drift' = drift + Missed + 1 - (IF haveTicks THEN clockTicks - ticksSeen ELSE 1)
          /\ late' = (late \/ clockTicks <= routed)
  /\ UNCHANGED <<workerDone, routed, inSlots, clock, stops, events>>

\* doTick ends: the IN slots are those of the tick.
WorkerRoute ==
  /\ WorkerGoes("route", "routed")
  /\ inSlots' = ticksSeen
  /\ UNCHANGED <<workerDone, routed, ticksSeen, haveTicks, drift, clock, stops, events, late>>

FaultyCount == routed' = routed + 1 /\ UNCHANGED workerDone  \* one tick a wake

Count  == routed' = ticksSeen /\ UNCHANGED workerDone
Signal == workerDone' = TRUE /\ UNCHANGED routed

FaultyAfterRoute(step) == IF step = 1 THEN Signal ELSE Count  \* the event before the count

\* The count, then the event.
AfterRoute(step) == IF step = 1 THEN Count ELSE Signal

WorkerRouted ==
  /\ \/ WorkerGoes("routed", "done") /\ AfterRoute(1)
     \/ WorkerGoes("done", "loop") /\ AfterRoute(2)
  /\ UNCHANGED <<ticksSeen, haveTicks, inSlots, drift, clock, stops, events, late>>

-----------------------------------------------------------------------------

Init ==
  /\ mode = "stopped"
  /\ clockPc = "none"
  /\ clockStop = FALSE
  /\ clockTicks = 0
  /\ outSlots = 0
  /\ masterTick = FALSE
  /\ tableChanged = FALSE
  /\ workerPc = "none"
  /\ stopRequested = FALSE
  /\ workerDone = FALSE
  /\ routed = 0
  /\ ticksSeen = 0
  /\ haveTicks = FALSE
  /\ inSlots = 0
  /\ first = 0
  /\ late = FALSE
  /\ drift = 0

Stopping == StopWorker \/ StopTick \/ StopTable \/ Stopped \/ StopWithoutWorker

Clock ==
  \/ ClockTop \/ ClockCheck \/ ClockWake \/ ClockTimeout \/ ClockPace
  \/ ClockIn \/ ClockOut \/ ClockCount \/ ClockSignal

Worker ==
  \/ WorkerOpen \/ WorkerLoop \/ WorkerWake \/ WorkerChange
  \/ WorkerTick \/ WorkerRoute \/ WorkerRouted

Next == Start \/ StartAgain \/ Stop \/ Stopping \/ Save \/ Clock \/ Worker

Spec == Init /\ [][Next]_vars

\* Both are running threads, and a stop that was called goes on as they end.
\* The DAW need not stop, nor a Save happen.
FairSpec == Spec /\ WF_vars(Clock) /\ WF_vars(Worker) /\ WF_vars(mode # "failed" /\ Stopping)

-----------------------------------------------------------------------------
(***************************************************************************)
(* Properties.                                                             *)
(***************************************************************************)

TypeOK ==
  /\ mode \in Modes
  /\ clockPc \in ClockStates
  /\ clockStop \in BOOLEAN
  /\ clockTicks \in Ticks
  /\ outSlots \in Ticks
  /\ masterTick \in BOOLEAN
  /\ tableChanged \in BOOLEAN
  /\ workerPc \in WorkerStates
  /\ stopRequested \in BOOLEAN
  /\ workerDone \in BOOLEAN
  /\ routed \in Ticks
  /\ ticksSeen \in Ticks
  /\ haveTicks \in BOOLEAN
  /\ inSlots \in Ticks
  /\ first \in Ticks
  /\ late \in BOOLEAN
  /\ drift \in Nat

\* A holder that has its Worker, unless a wait timed out, or the Worker routed
\* what no tick asked for, and no wait since found the Worker done: the clock copies no slot the Worker is
\* routing, what the Worker routes is the DAW's last block, and the DAW gets
\* the inputs of the tick before.  So one timeout costs no more than the ticks
\* until the Worker is done (waitWorker: "the count decides").
InStep ==
  HolderRuns /\ ~late =>
    /\ ~(clockPc \in {"in", "out"} /\ Routing)
    /\ workerPc = "route" => outSlots = ticksSeen
    /\ (clockPc = "in" /\ clockTicks > first) => inSlots = clockTicks

\* The clock does not sleep on a tick that is routed: its wake is there or
\* about to be, so only a late Worker costs a timeout.
NoMissedDone ==
  clockPc = "sleep" /\ routed >= clockTicks => workerDone \/ workerPc = "done"

\* The HW devices move one block a tick, over any number of missed ticks: more
\* only by a route of a tick they were moved for.
HwKeepsStep ==
  [][drift' # drift => mode = "stopped" \/ (drift' = drift + 1 /\ ticksSeen' = ticksSeen)]_vars

\* With a Worker, every tick is counted as routed, or stop comes: no tick waits
\* for a next.
TickRouted ==
  \A tick \in Ticks :
    (mode = "streaming" /\ HolderRuns /\ clockPc = "top" /\ clockTicks >= tick)
      ~> (routed >= tick \/ clockStop)

\* stop returns.
StopReturns == (mode = "joinClock") ~> (mode = "stopped")

-----------------------------------------------------------------------------
(***************************************************************************)
(* The inductive invariant behind the safety properties, in parts.         *)
(***************************************************************************)

\* No Worker outlives its holder, a Worker that is stopped is there, and a
\* clock thread runs only on a streaming driver.
ModeInv ==
  /\ mode = "stopped" => ~HolderRuns
  /\ mode \in {"tick", "table", "joinWorker"} => HolderRuns
  /\ mode \notin {"streaming", "joinClock"} => clockPc = "none"

\* The counts, and the OUT slots between the DAW's block and its count.
CountInv ==
  /\ routed <= clockTicks
  /\ ticksSeen <= clockTicks
  /\ haveTicks => routed <= ticksSeen
  /\ Routing => haveTicks
  /\ clockPc \in {"in", "out", "count"} => clockTicks < MaxTicks
  /\ outSlots = IF clockPc = "count" THEN clockTicks + 1 ELSE clockTicks

\* The IN slots are those of the last tick this Worker routed, or routes.
InputInv ==
  IF workerPc = "routed" THEN inSlots = ticksSeen ELSE routed > first => inSlots = routed

\* The clock is past its wait only when its last tick is routed, and the
\* Worker routes only a last tick that was not: one of them is on the slots.
TurnInv ==
  HolderRuns /\ ~late =>
    /\ clockPc \in {"pace", "in", "out", "count"} => routed = clockTicks
    /\ Routing => routed < ticksSeen /\ ticksSeen = clockTicks

\* No tick is lost on a Worker that waits: a counted tick it has not looked at
\* has its event signaled, or about to be, or the Worker is on its way to look.
TickTold ==
  workerPc \notin {"none", "exited"} /\ clockTicks > (IF haveTicks THEN ticksSeen ELSE first) =>
    masterTick \/ clockPc = "signal" \/ workerPc = "tick"

\* A Worker that is to be joined never waits for an event nobody sends: it was
\* not waiting when its flag was set, or Master_Tick is still there for it.
StopTold ==
  /\ mode \in {"tick", "table", "joinWorker"} => stopRequested
  /\ mode \in {"table", "joinWorker"} /\ workerPc = "wait" => masterTick

SignalInv ==
  /\ TickTold
  /\ StopTold
  /\ haveTicks => ticksSeen >= first
  /\ first <= clockTicks

IInv == TypeOK /\ ModeInv /\ CountInv /\ InputInv /\ TurnInv /\ SignalInv /\ NoMissedDone

===============================================================================
