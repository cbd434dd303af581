--------------------------- MODULE MasterClockProofs ---------------------------
(***************************************************************************)
(* Proofs of the safety properties of MasterClock, for every number of     *)
(* ticks.  They all follow from IInv: Init satisfies it, and each action   *)
(* keeps each of its parts.                                                *)
(***************************************************************************)
EXTENDS MasterClock, TLAPS

\* The two halves of TypeOK.
Flags ==
  /\ clockStop \in BOOLEAN /\ masterTick \in BOOLEAN /\ tableChanged \in BOOLEAN
  /\ stopRequested \in BOOLEAN /\ workerDone \in BOOLEAN /\ haveTicks \in BOOLEAN
  /\ late \in BOOLEAN

Values ==
  /\ mode \in Modes /\ clockPc \in ClockStates /\ workerPc \in WorkerStates
  /\ clockTicks \in Ticks /\ outSlots \in Ticks /\ routed \in Ticks
  /\ ticksSeen \in Ticks /\ inSlots \in Ticks /\ first \in Ticks
  /\ drift \in Nat

LEMMA InitInv == Init => IInv
<1> SUFFICES ASSUME Init PROVE IInv
  OBVIOUS
<1> USE DEF HolderRuns
<1>1. Flags
  BY Zenon DEF Init, Flags
<1>2. Values
  BY TicksAssumption, SMT DEF Init, Values, Modes, ClockStates, WorkerStates, Ticks
<1>3. ModeInv /\ CountInv /\ NoMissedDone
  BY SMT DEF Init, ModeInv, CountInv, NoMissedDone, Routing
<1>5. SignalInv
  BY SMT DEF Init, SignalInv, TickTold, StopTold
<1>4. InputInv /\ TurnInv
  BY SMT DEF Init, InputInv, TurnInv, Routing
<1> QED
  BY <1>1, <1>2, <1>3, <1>4, <1>5 DEF IInv, TypeOK, Flags, Values

LEMMA StartStep == IInv /\ Start => IInv'
<1> SUFFICES ASSUME IInv, Start PROVE IInv'
  OBVIOUS
<1> USE TicksAssumption DEF IInv, Start, NewHolder, holder, clock, stops, events, Routing, HolderRuns
<1>1. TypeOK'
  <2>1. Flags'
    BY Zenon DEF Flags, TypeOK
  <2>2. Values'
    BY SMT DEF Values, TypeOK, ModeInv, CountInv, Ticks, Modes, ClockStates, WorkerStates
  <2> QED
    BY <2>1, <2>2 DEF TypeOK, Flags, Values
<1>2. ModeInv'
  BY SMT DEF ModeInv
<1>3. CountInv'
  BY SMT DEF CountInv, TypeOK, TurnInv, Ticks, ModeInv
<1>4. InputInv'
  BY SMT DEF InputInv, CountInv, TypeOK, ModeInv, Ticks
<1>5. TurnInv'
  BY SMT DEF TurnInv, CountInv, TypeOK, ModeInv, Ticks
<1>6. NoMissedDone'
  BY SMT DEF NoMissedDone, TypeOK, CountInv, ModeInv, Ticks
<1>7. SignalInv'
  BY SMT DEF SignalInv, TickTold, StopTold, TypeOK, ModeInv, CountInv, Ticks
<1> QED
  BY <1>1, <1>2, <1>3, <1>4, <1>5, <1>6, <1>7

LEMMA StartAgainStep == IInv /\ StartAgain => IInv'
<1> SUFFICES ASSUME IInv, StartAgain PROVE IInv'
  OBVIOUS
<1> USE TicksAssumption DEF IInv, StartAgain, holder, clock, stops, events, Routing, HolderRuns
<1>1. TypeOK'
  BY SMT DEF TypeOK, ModeInv, CountInv, Ticks, Modes, ClockStates, WorkerStates
<1>2. ModeInv'
  BY SMT DEF ModeInv
<1>3. CountInv'
  BY SMT DEF CountInv, TypeOK, TurnInv, Ticks, ModeInv
<1>4. InputInv'
  BY SMT DEF InputInv, CountInv, TypeOK, ModeInv, Ticks
<1>5. TurnInv'
  BY SMT DEF TurnInv, CountInv, TypeOK, ModeInv, Ticks
<1>6. NoMissedDone'
  BY SMT DEF NoMissedDone, TypeOK, CountInv, ModeInv, Ticks
<1>7. SignalInv'
  BY SMT DEF SignalInv, TickTold, StopTold, TypeOK, ModeInv, CountInv, Ticks
<1> QED
  BY <1>1, <1>2, <1>3, <1>4, <1>5, <1>6, <1>7

LEMMA StopStep == IInv /\ Stop => IInv'
<1> SUFFICES ASSUME IInv, Stop PROVE IInv'
  OBVIOUS
<1> USE TicksAssumption DEF IInv, Stop, holder, clock, stops, events, Routing, HolderRuns
<1>1. TypeOK'
  BY SMT DEF TypeOK, ModeInv, CountInv, Ticks, Modes, ClockStates, WorkerStates
<1>2. ModeInv'
  BY SMT DEF ModeInv
<1>3. CountInv'
  BY SMT DEF CountInv, TypeOK, TurnInv, Ticks, ModeInv
<1>4. InputInv'
  BY SMT DEF InputInv, CountInv, TypeOK, ModeInv, Ticks
<1>5. TurnInv'
  BY SMT DEF TurnInv, CountInv, TypeOK, ModeInv, Ticks
<1>6. NoMissedDone'
  BY SMT DEF NoMissedDone, TypeOK, CountInv, ModeInv, Ticks
<1>7. SignalInv'
  BY SMT DEF SignalInv, TickTold, StopTold, TypeOK, ModeInv, CountInv, Ticks
<1> QED
  BY <1>1, <1>2, <1>3, <1>4, <1>5, <1>6, <1>7

LEMMA StopWorkerStep == IInv /\ StopWorker => IInv'
<1> SUFFICES ASSUME IInv, StopWorker PROVE IInv'
  OBVIOUS
<1> USE TicksAssumption DEF IInv, StopWorker, ClockJoined, holder, clock, stops, events, Routing, HolderRuns
<1>1. TypeOK'
  BY SMT DEF TypeOK, ModeInv, CountInv, Ticks, Modes, ClockStates, WorkerStates
<1>2. ModeInv'
  BY SMT DEF ModeInv
<1>3. CountInv'
  BY SMT DEF CountInv, TypeOK, TurnInv, Ticks, ModeInv
<1>4. InputInv'
  BY SMT DEF InputInv, CountInv, TypeOK, ModeInv, Ticks
<1>5. TurnInv'
  BY SMT DEF TurnInv, CountInv, TypeOK, ModeInv, Ticks
<1>6. NoMissedDone'
  BY SMT DEF NoMissedDone, TypeOK, CountInv, ModeInv, Ticks
<1>7. SignalInv'
  BY SMT DEF SignalInv, TickTold, StopTold, TypeOK, ModeInv, CountInv, Ticks
<1> QED
  BY <1>1, <1>2, <1>3, <1>4, <1>5, <1>6, <1>7

LEMMA StopWithoutWorkerStep == IInv /\ StopWithoutWorker => IInv'
<1> SUFFICES ASSUME IInv, StopWithoutWorker PROVE IInv'
  OBVIOUS
<1> USE TicksAssumption DEF IInv, StopWithoutWorker, ClockJoined, holder, clock, stops, events, Routing, HolderRuns
<1>1. TypeOK'
  BY SMT DEF TypeOK, ModeInv, CountInv, Ticks, Modes, ClockStates, WorkerStates
<1>2. ModeInv'
  BY SMT DEF ModeInv
<1>3. CountInv'
  BY SMT DEF CountInv, TypeOK, TurnInv, Ticks, ModeInv
<1>4. InputInv'
  BY SMT DEF InputInv, CountInv, TypeOK, ModeInv, Ticks
<1>5. TurnInv'
  BY SMT DEF TurnInv, CountInv, TypeOK, ModeInv, Ticks
<1>6. NoMissedDone'
  BY SMT DEF NoMissedDone, TypeOK, CountInv, ModeInv, Ticks
<1>7. SignalInv'
  BY SMT DEF SignalInv, TickTold, StopTold, TypeOK, ModeInv, CountInv, Ticks
<1> QED
  BY <1>1, <1>2, <1>3, <1>4, <1>5, <1>6, <1>7

LEMMA StopTickStep == IInv /\ StopTick => IInv'
<1> SUFFICES ASSUME IInv, StopTick PROVE IInv'
  OBVIOUS
<1> USE TicksAssumption DEF IInv, StopTick, holder, clock, stops, events, Routing, HolderRuns
<1>1. TypeOK'
  BY SMT DEF TypeOK, ModeInv, CountInv, Ticks, Modes, ClockStates, WorkerStates
<1>2. ModeInv'
  BY SMT DEF ModeInv
<1>3. CountInv'
  BY SMT DEF CountInv, TypeOK, TurnInv, Ticks, ModeInv
<1>4. InputInv'
  BY SMT DEF InputInv, CountInv, TypeOK, ModeInv, Ticks
<1>5. TurnInv'
  BY SMT DEF TurnInv, CountInv, TypeOK, ModeInv, Ticks
<1>6. NoMissedDone'
  BY SMT DEF NoMissedDone, TypeOK, CountInv, ModeInv, Ticks
<1>7. SignalInv'
  BY SMT DEF SignalInv, TickTold, StopTold, TypeOK, ModeInv, CountInv, Ticks
<1> QED
  BY <1>1, <1>2, <1>3, <1>4, <1>5, <1>6, <1>7

LEMMA StopTableStep == IInv /\ StopTable => IInv'
<1> SUFFICES ASSUME IInv, StopTable PROVE IInv'
  OBVIOUS
<1> USE TicksAssumption DEF IInv, StopTable, holder, clock, stops, events, Routing, HolderRuns
<1>1. TypeOK'
  BY SMT DEF TypeOK, ModeInv, CountInv, Ticks, Modes, ClockStates, WorkerStates
<1>2. ModeInv'
  BY SMT DEF ModeInv
<1>3. CountInv'
  BY SMT DEF CountInv, TypeOK, TurnInv, Ticks, ModeInv
<1>4. InputInv'
  BY SMT DEF InputInv, CountInv, TypeOK, ModeInv, Ticks
<1>5. TurnInv'
  BY SMT DEF TurnInv, CountInv, TypeOK, ModeInv, Ticks
<1>6. NoMissedDone'
  BY SMT DEF NoMissedDone, TypeOK, CountInv, ModeInv, Ticks
<1>7. SignalInv'
  BY SMT DEF SignalInv, TickTold, StopTold, TypeOK, ModeInv, CountInv, Ticks
<1> QED
  BY <1>1, <1>2, <1>3, <1>4, <1>5, <1>6, <1>7

LEMMA StoppedStep == IInv /\ Stopped => IInv'
<1> SUFFICES ASSUME IInv, Stopped PROVE IInv'
  OBVIOUS
<1> USE TicksAssumption DEF IInv, Stopped, holder, clock, stops, events, Routing, HolderRuns
<1>1. TypeOK'
  BY SMT DEF TypeOK, ModeInv, CountInv, Ticks, Modes, ClockStates, WorkerStates
<1>2. ModeInv'
  BY SMT DEF ModeInv
<1>3. CountInv'
  BY SMT DEF CountInv, TypeOK, TurnInv, Ticks, ModeInv
<1>4. InputInv'
  BY SMT DEF InputInv, CountInv, TypeOK, ModeInv, Ticks
<1>5. TurnInv'
  BY SMT DEF TurnInv, CountInv, TypeOK, ModeInv, Ticks
<1>6. NoMissedDone'
  BY SMT DEF NoMissedDone, TypeOK, CountInv, ModeInv, Ticks
<1>7. SignalInv'
  BY SMT DEF SignalInv, TickTold, StopTold, TypeOK, ModeInv, CountInv, Ticks
<1> QED
  BY <1>1, <1>2, <1>3, <1>4, <1>5, <1>6, <1>7

LEMMA SaveStep == IInv /\ Save => IInv'
<1> SUFFICES ASSUME IInv, Save PROVE IInv'
  OBVIOUS
<1> USE TicksAssumption DEF IInv, Save, holder, clock, stops, events, Routing, HolderRuns
<1>1. TypeOK'
  BY SMT DEF TypeOK, ModeInv, CountInv, Ticks, Modes, ClockStates, WorkerStates
<1>2. ModeInv'
  BY SMT DEF ModeInv
<1>3. CountInv'
  BY SMT DEF CountInv, TypeOK, TurnInv, Ticks, ModeInv
<1>4. InputInv'
  BY SMT DEF InputInv, CountInv, TypeOK, ModeInv, Ticks
<1>5. TurnInv'
  BY SMT DEF TurnInv, CountInv, TypeOK, ModeInv, Ticks
<1>6. NoMissedDone'
  BY SMT DEF NoMissedDone, TypeOK, CountInv, ModeInv, Ticks
<1>7. SignalInv'
  BY SMT DEF SignalInv, TickTold, StopTold, TypeOK, ModeInv, CountInv, Ticks
<1> QED
  BY <1>1, <1>2, <1>3, <1>4, <1>5, <1>6, <1>7

LEMMA ClockTopStep == IInv /\ ClockTop => IInv'
<1> SUFFICES ASSUME IInv, ClockTop PROVE IInv'
  OBVIOUS
<1> USE TicksAssumption DEF IInv, ClockTop, ClockGoes, holder, clock, stops, events, Routing, HolderRuns
<1>1. TypeOK'
  BY SMT DEF TypeOK, ModeInv, CountInv, Ticks, Modes, ClockStates, WorkerStates
<1>2. ModeInv'
  BY SMT DEF ModeInv
<1>3. CountInv'
  BY SMT DEF CountInv, TypeOK, TurnInv, Ticks, ModeInv
<1>4. InputInv'
  BY SMT DEF InputInv, CountInv, TypeOK, ModeInv, Ticks
<1>5. TurnInv'
  BY SMT DEF TurnInv, CountInv, TypeOK, ModeInv, Ticks
<1>6. NoMissedDone'
  BY SMT DEF NoMissedDone, TypeOK, CountInv, ModeInv, Ticks
<1>7. SignalInv'
  BY SMT DEF SignalInv, TickTold, StopTold, TypeOK, ModeInv, CountInv, Ticks
<1> QED
  BY <1>1, <1>2, <1>3, <1>4, <1>5, <1>6, <1>7

LEMMA ClockCheckStep == IInv /\ ClockCheck => IInv'
<1> SUFFICES ASSUME IInv, ClockCheck PROVE IInv'
  OBVIOUS
<1> USE TicksAssumption DEF IInv, ClockCheck, ClockGoes, RoutedUpTo,
      holder, clock, stops, events, Routing, HolderRuns
<1>1. TypeOK'
  <2>1. Flags'
    BY Zenon DEF Flags, TypeOK
  <2>2. Values'
    BY SMT DEF Values, TypeOK, ModeInv, CountInv, Ticks, Modes, ClockStates, WorkerStates
  <2> QED
    BY <2>1, <2>2 DEF TypeOK, Flags, Values
<1>2. ModeInv'
  BY SMT DEF ModeInv
<1>3. CountInv'
  BY SMT DEF CountInv, TypeOK, TurnInv, Ticks, ModeInv
<1>4. InputInv'
  BY SMT DEF InputInv, CountInv, TypeOK, ModeInv, Ticks
<1>5. TurnInv'
  BY SMT DEF TurnInv, CountInv, TypeOK, ModeInv, Ticks
<1>6. NoMissedDone'
  BY SMT DEF NoMissedDone, TypeOK, CountInv, ModeInv, Ticks
<1>7. SignalInv'
  BY SMT DEF SignalInv, TickTold, StopTold, TypeOK, ModeInv, CountInv, Ticks
<1> QED
  BY <1>1, <1>2, <1>3, <1>4, <1>5, <1>6, <1>7

LEMMA ClockWakeStep == IInv /\ ClockWake => IInv'
<1> SUFFICES ASSUME IInv, ClockWake PROVE IInv'
  OBVIOUS
<1> USE TicksAssumption DEF IInv, ClockWake, ClockGoes, holder, clock, stops, events, Routing, HolderRuns
<1>1. TypeOK'
  <2>1. Flags'
    BY Zenon DEF Flags, TypeOK
  <2>2. Values'
    BY SMT DEF Values, TypeOK, ModeInv, CountInv, Ticks, Modes, ClockStates, WorkerStates
  <2> QED
    BY <2>1, <2>2 DEF TypeOK, Flags, Values
<1>2. ModeInv'
  BY SMT DEF ModeInv
<1>3. CountInv'
  BY SMT DEF CountInv, TypeOK, TurnInv, Ticks, ModeInv
<1>4. InputInv'
  BY SMT DEF InputInv, CountInv, TypeOK, ModeInv, Ticks
<1>5. TurnInv'
  BY SMT DEF TurnInv, CountInv, TypeOK, ModeInv, Ticks
<1>6. NoMissedDone'
  BY SMT DEF NoMissedDone, TypeOK, CountInv, ModeInv, Ticks
<1>7. SignalInv'
  BY SMT DEF SignalInv, TickTold, StopTold, TypeOK, ModeInv, CountInv, Ticks
<1> QED
  BY <1>1, <1>2, <1>3, <1>4, <1>5, <1>6, <1>7

LEMMA ClockTimeoutStep == IInv /\ ClockTimeout => IInv'
<1> SUFFICES ASSUME IInv, ClockTimeout PROVE IInv'
  OBVIOUS
<1> USE TicksAssumption DEF IInv, ClockTimeout, ClockGoes, holder, clock, stops, events, Routing, HolderRuns
<1>1. TypeOK'
  BY SMT DEF TypeOK, ModeInv, CountInv, Ticks, Modes, ClockStates, WorkerStates
<1>2. ModeInv'
  BY SMT DEF ModeInv
<1>3. CountInv'
  BY SMT DEF CountInv, TypeOK, TurnInv, Ticks, ModeInv
<1>4. InputInv'
  BY SMT DEF InputInv, CountInv, TypeOK, ModeInv, Ticks
<1>5. TurnInv'
  <2> SUFFICES ASSUME ~late' PROVE TurnInv'
    BY DEF TurnInv
  <2>1. ~late /\ ~(routed < clockTicks)
    BY Zenon
  <2> QED
    BY <2>1, SMT DEF TurnInv, CountInv, TypeOK, Ticks
<1>6. NoMissedDone'
  BY SMT DEF NoMissedDone, TypeOK, CountInv, ModeInv, Ticks
<1>7. SignalInv'
  BY SMT DEF SignalInv, TickTold, StopTold, TypeOK, ModeInv, CountInv, Ticks
<1> QED
  BY <1>1, <1>2, <1>3, <1>4, <1>5, <1>6, <1>7

LEMMA ClockPaceStep == IInv /\ ClockPace => IInv'
<1> SUFFICES ASSUME IInv, ClockPace PROVE IInv'
  OBVIOUS
<1> USE TicksAssumption DEF IInv, ClockPace, ClockGoes, holder, clock, stops, events, Routing, HolderRuns
<1>1. TypeOK'
  BY SMT DEF TypeOK, ModeInv, CountInv, Ticks, Modes, ClockStates, WorkerStates
<1>2. ModeInv'
  BY SMT DEF ModeInv
<1>3. CountInv'
  BY SMT DEF CountInv, TypeOK, TurnInv, Ticks, ModeInv
<1>4. InputInv'
  BY SMT DEF InputInv, CountInv, TypeOK, ModeInv, Ticks
<1>5. TurnInv'
  BY SMT DEF TurnInv, CountInv, TypeOK, ModeInv, Ticks
<1>6. NoMissedDone'
  BY SMT DEF NoMissedDone, TypeOK, CountInv, ModeInv, Ticks
<1>7. SignalInv'
  BY SMT DEF SignalInv, TickTold, StopTold, TypeOK, ModeInv, CountInv, Ticks
<1> QED
  BY <1>1, <1>2, <1>3, <1>4, <1>5, <1>6, <1>7

LEMMA ClockInStep == IInv /\ ClockIn => IInv'
<1> SUFFICES ASSUME IInv, ClockIn PROVE IInv'
  OBVIOUS
<1> USE TicksAssumption DEF IInv, ClockIn, ClockGoes, holder, clock, stops, events, Routing, HolderRuns
<1>1. TypeOK'
  BY SMT DEF TypeOK, ModeInv, CountInv, Ticks, Modes, ClockStates, WorkerStates
<1>2. ModeInv'
  BY SMT DEF ModeInv
<1>3. CountInv'
  BY SMT DEF CountInv, TypeOK, TurnInv, Ticks, ModeInv
<1>4. InputInv'
  BY SMT DEF InputInv, CountInv, TypeOK, ModeInv, Ticks
<1>5. TurnInv'
  BY SMT DEF TurnInv, CountInv, TypeOK, ModeInv, Ticks
<1>6. NoMissedDone'
  BY SMT DEF NoMissedDone, TypeOK, CountInv, ModeInv, Ticks
<1>7. SignalInv'
  BY SMT DEF SignalInv, TickTold, StopTold, TypeOK, ModeInv, CountInv, Ticks
<1> QED
  BY <1>1, <1>2, <1>3, <1>4, <1>5, <1>6, <1>7

LEMMA ClockOutStep == IInv /\ ClockOut => IInv'
<1> SUFFICES ASSUME IInv, ClockOut PROVE IInv'
  OBVIOUS
<1> USE TicksAssumption DEF IInv, ClockOut, ClockGoes, holder, clock, stops, events, Routing, HolderRuns
<1>1. TypeOK'
  BY SMT DEF TypeOK, ModeInv, CountInv, Ticks, Modes, ClockStates, WorkerStates
<1>2. ModeInv'
  BY SMT DEF ModeInv
<1>3. CountInv'
  BY SMT DEF CountInv, TypeOK, TurnInv, Ticks, ModeInv
<1>4. InputInv'
  BY SMT DEF InputInv, CountInv, TypeOK, ModeInv, Ticks
<1>5. TurnInv'
  BY SMT DEF TurnInv, CountInv, TypeOK, ModeInv, Ticks
<1>6. NoMissedDone'
  BY SMT DEF NoMissedDone, TypeOK, CountInv, ModeInv, Ticks
<1>7. SignalInv'
  BY SMT DEF SignalInv, TickTold, StopTold, TypeOK, ModeInv, CountInv, Ticks
<1> QED
  BY <1>1, <1>2, <1>3, <1>4, <1>5, <1>6, <1>7

LEMMA ClockCountStep == IInv /\ ClockCount => IInv'
<1> SUFFICES ASSUME IInv, ClockCount PROVE IInv'
  OBVIOUS
<1> USE TicksAssumption DEF IInv, ClockCount, ClockGoes, holder, clock, stops, events, Routing, HolderRuns
<1>1. TypeOK'
  BY SMT DEF TypeOK, ModeInv, CountInv, Ticks, Modes, ClockStates, WorkerStates
<1>2. ModeInv'
  BY SMT DEF ModeInv
<1>3. CountInv'
  BY SMT DEF CountInv, TypeOK, TurnInv, Ticks, ModeInv
<1>4. InputInv'
  BY SMT DEF InputInv, CountInv, TypeOK, ModeInv, Ticks
<1>5. TurnInv'
  BY SMT DEF TurnInv, CountInv, TypeOK, ModeInv, Ticks
<1>6. NoMissedDone'
  BY SMT DEF NoMissedDone, TypeOK, CountInv, ModeInv, Ticks
<1>7. SignalInv'
  BY SMT DEF SignalInv, TickTold, StopTold, TypeOK, ModeInv, CountInv, Ticks
<1> QED
  BY <1>1, <1>2, <1>3, <1>4, <1>5, <1>6, <1>7

LEMMA ClockSignalStep == IInv /\ ClockSignal => IInv'
<1> SUFFICES ASSUME IInv, ClockSignal PROVE IInv'
  OBVIOUS
<1> USE TicksAssumption DEF IInv, ClockSignal, ClockGoes, holder, clock, stops, events, Routing, HolderRuns
<1>1. TypeOK'
  BY SMT DEF TypeOK, ModeInv, CountInv, Ticks, Modes, ClockStates, WorkerStates
<1>2. ModeInv'
  BY SMT DEF ModeInv
<1>3. CountInv'
  BY SMT DEF CountInv, TypeOK, TurnInv, Ticks, ModeInv
<1>4. InputInv'
  BY SMT DEF InputInv, CountInv, TypeOK, ModeInv, Ticks
<1>5. TurnInv'
  BY SMT DEF TurnInv, CountInv, TypeOK, ModeInv, Ticks
<1>6. NoMissedDone'
  BY SMT DEF NoMissedDone, TypeOK, CountInv, ModeInv, Ticks
<1>7. SignalInv'
  BY SMT DEF SignalInv, TickTold, StopTold, TypeOK, ModeInv, CountInv, Ticks
<1> QED
  BY <1>1, <1>2, <1>3, <1>4, <1>5, <1>6, <1>7

LEMMA WorkerOpenStep == IInv /\ WorkerOpen => IInv'
<1> SUFFICES ASSUME IInv, WorkerOpen PROVE IInv'
  OBVIOUS
<1> USE TicksAssumption DEF IInv, WorkerOpen, WorkerGoes, holder, clock, stops, events, Routing, HolderRuns
<1>1. TypeOK'
  BY SMT DEF TypeOK, ModeInv, CountInv, Ticks, Modes, ClockStates, WorkerStates
<1>2. ModeInv'
  BY SMT DEF ModeInv
<1>3. CountInv'
  BY SMT DEF CountInv, TypeOK, TurnInv, Ticks, ModeInv
<1>4. InputInv'
  BY SMT DEF InputInv, CountInv, TypeOK, ModeInv, Ticks
<1>5. TurnInv'
  BY SMT DEF TurnInv, CountInv, TypeOK, ModeInv, Ticks
<1>6. NoMissedDone'
  BY SMT DEF NoMissedDone, TypeOK, CountInv, ModeInv, Ticks
<1>7. SignalInv'
  BY SMT DEF SignalInv, TickTold, StopTold, TypeOK, ModeInv, CountInv, Ticks
<1> QED
  BY <1>1, <1>2, <1>3, <1>4, <1>5, <1>6, <1>7

LEMMA WorkerLoopStep == IInv /\ WorkerLoop => IInv'
<1> SUFFICES ASSUME IInv, WorkerLoop PROVE IInv'
  OBVIOUS
<1> USE TicksAssumption DEF IInv, WorkerLoop, WorkerGoes, UnlessStopRequested,
      holder, clock, stops, events, Routing, HolderRuns
<1>1. TypeOK'
  BY SMT DEF TypeOK, ModeInv, CountInv, Ticks, Modes, ClockStates, WorkerStates
<1>2. ModeInv'
  BY SMT DEF ModeInv
<1>3. CountInv'
  BY SMT DEF CountInv, TypeOK, TurnInv, Ticks, ModeInv
<1>4. InputInv'
  BY SMT DEF InputInv, CountInv, TypeOK, ModeInv, Ticks
<1>5. TurnInv'
  BY SMT DEF TurnInv, CountInv, TypeOK, ModeInv, Ticks
<1>6. NoMissedDone'
  BY SMT DEF NoMissedDone, TypeOK, CountInv, ModeInv, Ticks
<1>7. SignalInv'
  BY SMT DEF SignalInv, TickTold, StopTold, TypeOK, ModeInv, CountInv, Ticks
<1> QED
  BY <1>1, <1>2, <1>3, <1>4, <1>5, <1>6, <1>7

LEMMA WorkerWakeStep == IInv /\ WorkerWake => IInv'
<1> SUFFICES ASSUME IInv, WorkerWake PROVE IInv'
  OBVIOUS
<1> USE TicksAssumption DEF IInv, WorkerWake, WorkerGoes, holder, clock, stops, events, Routing, HolderRuns
<1>1. TypeOK'
  <2>1. Flags'
    BY Zenon DEF Flags, TypeOK
  <2>2. Values'
    BY SMT DEF Values, TypeOK, ModeInv, CountInv, Ticks, Modes, ClockStates, WorkerStates
  <2> QED
    BY <2>1, <2>2 DEF TypeOK, Flags, Values
<1>2. ModeInv'
  BY SMT DEF ModeInv
<1>3. CountInv'
  BY SMT DEF CountInv, TypeOK, TurnInv, Ticks, ModeInv
<1>4. InputInv'
  BY SMT DEF InputInv, CountInv, TypeOK, ModeInv, Ticks
<1>5. TurnInv'
  BY SMT DEF TurnInv, CountInv, TypeOK, ModeInv, Ticks
<1>6. NoMissedDone'
  BY SMT DEF NoMissedDone, TypeOK, CountInv, ModeInv, Ticks
<1>7. SignalInv'
  BY SMT DEF SignalInv, TickTold, StopTold, TypeOK, ModeInv, CountInv, Ticks
<1> QED
  BY <1>1, <1>2, <1>3, <1>4, <1>5, <1>6, <1>7

LEMMA WorkerChangeStep == IInv /\ WorkerChange => IInv'
<1> SUFFICES ASSUME IInv, WorkerChange PROVE IInv'
  OBVIOUS
<1> USE TicksAssumption DEF IInv, WorkerChange, WorkerGoes, UnlessStopRequested,
      holder, clock, stops, events, Routing, HolderRuns
<1>1. TypeOK'
  BY SMT DEF TypeOK, ModeInv, CountInv, Ticks, Modes, ClockStates, WorkerStates
<1>2. ModeInv'
  BY SMT DEF ModeInv
<1>3. CountInv'
  BY SMT DEF CountInv, TypeOK, TurnInv, Ticks, ModeInv
<1>4. InputInv'
  BY SMT DEF InputInv, CountInv, TypeOK, ModeInv, Ticks
<1>5. TurnInv'
  BY SMT DEF TurnInv, CountInv, TypeOK, ModeInv, Ticks
<1>6. NoMissedDone'
  BY SMT DEF NoMissedDone, TypeOK, CountInv, ModeInv, Ticks
<1>7. SignalInv'
  BY SMT DEF SignalInv, TickTold, StopTold, TypeOK, ModeInv, CountInv, Ticks
<1> QED
  BY <1>1, <1>2, <1>3, <1>4, <1>5, <1>6, <1>7

LEMMA WorkerTickStep == IInv /\ WorkerTick => IInv'
<1> SUFFICES ASSUME IInv, WorkerTick PROVE IInv'
  OBVIOUS
<1> USE TicksAssumption DEF IInv, WorkerTick, WorkerGoes, UnlessStopRequested, Missed,
      holder, clock, stops, events, Routing, HolderRuns
<1>1. TypeOK'
  <2>1. Flags'
    BY Zenon DEF Flags, TypeOK
  <2>2. Values'
    BY SMT DEF Values, TypeOK, ModeInv, CountInv, Ticks, Modes, ClockStates, WorkerStates
  <2> QED
    BY <2>1, <2>2 DEF TypeOK, Flags, Values
<1>2. ModeInv'
  BY SMT DEF ModeInv
<1>3. CountInv'
  BY SMT DEF CountInv, TypeOK, TurnInv, Ticks, ModeInv
<1>4. InputInv'
  BY SMT DEF InputInv, CountInv, TypeOK, ModeInv, Ticks
<1>5. TurnInv'
  <2> SUFFICES ASSUME ~late' PROVE TurnInv'
    BY DEF TurnInv
  <2>1. CASE workerPc' = "exited"
    BY <2>1, SMT DEF TurnInv, TypeOK
  <2>2. CASE workerPc' # "exited"
    <3>1. ~late /\ ~(clockTicks <= routed) /\ ticksSeen' = clockTicks
      BY <2>2, Zenon
    <3> QED
      BY <3>1, <2>2, SMT DEF TurnInv, CountInv, TypeOK, Ticks
  <2> QED
    BY <2>1, <2>2
<1>6. NoMissedDone'
  BY SMT DEF NoMissedDone, TypeOK, CountInv, ModeInv, Ticks
<1>7. SignalInv'
  BY SMT DEF SignalInv, TickTold, StopTold, TypeOK, ModeInv, CountInv, Ticks
<1> QED
  BY <1>1, <1>2, <1>3, <1>4, <1>5, <1>6, <1>7

LEMMA WorkerRouteStep == IInv /\ WorkerRoute => IInv'
<1> SUFFICES ASSUME IInv, WorkerRoute PROVE IInv'
  OBVIOUS
<1> USE TicksAssumption DEF IInv, WorkerRoute, WorkerGoes, holder, clock, stops, events, Routing, HolderRuns
<1>1. TypeOK'
  BY SMT DEF TypeOK, ModeInv, CountInv, Ticks, Modes, ClockStates, WorkerStates
<1>2. ModeInv'
  BY SMT DEF ModeInv
<1>3. CountInv'
  BY SMT DEF CountInv, TypeOK, TurnInv, Ticks, ModeInv
<1>4. InputInv'
  BY SMT DEF InputInv, CountInv, TypeOK, ModeInv, Ticks
<1>5. TurnInv'
  BY SMT DEF TurnInv, CountInv, TypeOK, ModeInv, Ticks
<1>6. NoMissedDone'
  BY SMT DEF NoMissedDone, TypeOK, CountInv, ModeInv, Ticks
<1>7. SignalInv'
  BY SMT DEF SignalInv, TickTold, StopTold, TypeOK, ModeInv, CountInv, Ticks
<1> QED
  BY <1>1, <1>2, <1>3, <1>4, <1>5, <1>6, <1>7

LEMMA WorkerRoutedStep == IInv /\ WorkerRouted => IInv'
<1> SUFFICES ASSUME IInv, WorkerRouted PROVE IInv'
  OBVIOUS
<1> USE TicksAssumption DEF IInv, WorkerRouted, WorkerGoes, AfterRoute, Count, Signal,
      holder, clock, stops, events, Routing, HolderRuns
<1>1. TypeOK'
  <2>1. Flags'
    BY Zenon DEF Flags, TypeOK
  <2>2. Values'
    BY SMT DEF Values, TypeOK, ModeInv, CountInv, Ticks, Modes, ClockStates, WorkerStates
  <2> QED
    BY <2>1, <2>2 DEF TypeOK, Flags, Values
<1>2. ModeInv'
  BY SMT DEF ModeInv
<1>3. CountInv'
  BY SMT DEF CountInv, TypeOK, TurnInv, Ticks, ModeInv
<1>4. InputInv'
  BY SMT DEF InputInv, CountInv, TypeOK, ModeInv, Ticks
<1>5. TurnInv'
  BY SMT DEF TurnInv, CountInv, TypeOK, ModeInv, Ticks
<1>6. NoMissedDone'
  BY SMT DEF NoMissedDone, TypeOK, CountInv, ModeInv, Ticks
<1>7. SignalInv'
  BY SMT DEF SignalInv, TickTold, StopTold, TypeOK, ModeInv, CountInv, Ticks
<1> QED
  BY <1>1, <1>2, <1>3, <1>4, <1>5, <1>6, <1>7

LEMMA StepInv == IInv /\ [Next]_vars => IInv'
<1> SUFFICES ASSUME IInv, [Next]_vars PROVE IInv'
  OBVIOUS
<1>1. CASE UNCHANGED vars
  BY <1>1 DEF vars, holder, clock, stops, events, IInv, TypeOK, ModeInv, CountInv, SignalInv, TickTold,
     StopTold, InputInv,
     TurnInv, NoMissedDone, Routing, HolderRuns
<1>2. CASE Start \/ StartAgain \/ Stop \/ Stopping \/ Save
  BY <1>2, StartStep, StartAgainStep, StopStep, StopWorkerStep, StopWithoutWorkerStep,
     StopTickStep, StopTableStep, StoppedStep, SaveStep DEF Stopping
<1>3. CASE Clock
  BY <1>3, ClockTopStep, ClockCheckStep, ClockWakeStep, ClockTimeoutStep, ClockPaceStep,
     ClockInStep, ClockOutStep, ClockCountStep, ClockSignalStep DEF Clock
<1>4. CASE Worker
  BY <1>4, WorkerOpenStep, WorkerLoopStep, WorkerWakeStep, WorkerChangeStep, WorkerTickStep,
     WorkerRouteStep, WorkerRoutedStep DEF Worker
<1> QED
  BY <1>1, <1>2, <1>3, <1>4 DEF Next

\* IInv holds in every reachable state.
THEOREM Invariance == Spec => []IInv
  BY InitInv, StepInv, PTL DEF Spec

\* Every variable stays within its type; no count passes the bound.
THEOREM TypeCorrect == Spec => []TypeOK
<1>1. IInv => TypeOK
  BY DEF IInv
<1> QED
  BY <1>1, Invariance, PTL

\* The DAW's clock and the Worker take turns on the slots, and each block
\* goes through in order, on a holder that has its Worker, while no wait has
\* timed out (clockTick, doTick).
THEOREM TurnsKept == Spec => []InStep
<1>1. IInv => InStep
  <2> SUFFICES ASSUME IInv, HolderRuns, ~late PROVE InStep
    BY DEF InStep
  <2>1. ~(clockPc \in {"in", "out"} /\ Routing)
    BY SMT DEF IInv, TypeOK, TurnInv, Ticks
  <2>2. workerPc = "route" => outSlots = ticksSeen
    BY SMT DEF IInv, TypeOK, TurnInv, CountInv, Routing, Ticks
  <2>3. (clockPc = "in" /\ clockTicks > first) => inSlots = clockTicks
    BY SMT DEF IInv, TypeOK, TurnInv, InputInv, Routing, Ticks
  <2> QED
    BY <2>1, <2>2, <2>3 DEF InStep
<1> QED
  BY <1>1, Invariance, PTL

\* The clock's wait for a tick that is routed is always woken (waitWorker).
THEOREM DoneNotMissed == Spec => []NoMissedDone
<1>1. IInv => NoMissedDone
  BY DEF IInv
<1> QED
  BY <1>1, Invariance, PTL

\* A tick that is counted finds its Worker: Master_Tick is signaled as long as
\* the Worker has not looked at the count since (clockTick, MasterHolder::run).
THEOREM TicksReachTheWorker == Spec => []TickTold
<1>1. IInv => TickTold
  BY DEF IInv, SignalInv
<1> QED
  BY <1>1, Invariance, PTL

\* stop does not join a Worker that sleeps for ever: the flag is set before the
\* event, which nobody but this Worker takes (MasterHolder::stop).
THEOREM StopReachesTheWorker == Spec => []StopTold
<1>1. IInv => StopTold
  BY DEF IInv, SignalInv
<1> QED
  BY <1>1, Invariance, PTL

\* The HW devices move with the ticks, whichever of them the Worker missed.
THEOREM HwInStep == Spec => HwKeepsStep
<1>1. ASSUME IInv, Next
      PROVE  drift' # drift => mode = "stopped" \/ (drift' = drift + 1 /\ ticksSeen' = ticksSeen)
  <2> SUFFICES ASSUME drift' # drift, mode # "stopped"
               PROVE  drift' = drift + 1 /\ ticksSeen' = ticksSeen
    OBVIOUS
  <2>1. WorkerTick
    BY <1>1, SMT DEF Next, Stopping, Clock, Worker, Start, StartAgain, Stop, StopWorker,
       StopWithoutWorker, StopTick, StopTable, Stopped, Save, ClockTop, ClockCheck, ClockWake, ClockTimeout, ClockPace, ClockIn,
       ClockOut, ClockCount, ClockSignal, WorkerOpen, WorkerLoop, WorkerWake, WorkerChange,
       WorkerRoute, WorkerRouted, holder
  <2>2. drift' = drift + Missed + 1 - (IF haveTicks THEN clockTicks - ticksSeen ELSE 1)
        /\ ticksSeen' = clockTicks
    BY <2>1, Zenon DEF WorkerTick
  <2>3. ticksSeen \in Nat /\ clockTicks \in Nat /\ drift \in Nat /\ ticksSeen <= clockTicks
    BY <1>1, TicksAssumption, SMT DEF IInv, TypeOK, CountInv, Ticks
  <2> QED
    BY <2>2, <2>3, SMT DEF Missed
<1>2. IInv /\ [Next]_vars =>
        [drift' # drift => mode = "stopped" \/ (drift' = drift + 1 /\ ticksSeen' = ticksSeen)]_vars
  BY <1>1
<1> QED
  BY <1>2, Invariance, PTL DEF Spec, HwKeepsStep

===============================================================================
