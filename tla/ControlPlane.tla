------------------------------ MODULE ControlPlane ------------------------------
(***************************************************************************)
(* How a change of the Slot Table reaches a DAW that shows it.  A DAW      *)
(* reads the table when it asks its driver for the channels, and must be   *)
(* asked to reset when what it read is no longer true.  The Master's panel *)
(* saves (a Bridge's shows the table and cannot), and the Master's DAW may *)
(* set the rate itself; the Worker that TableChanged wakes compares tables *)
(* for the Master, the clock thread compares versions for the Bridge.      *)
(*                                                                         *)
(* The drivers share the table and nothing else, so one of them is looked  *)
(* at ("driver").  A table is what the DAWs see of it: the rate, and the   *)
(* rows (names, types, devices).  Neither the copy a Save makes nor the    *)
(* DAW's rate has a lock: a reader may find any part of a change without   *)
(* the others, and one change may overtake another.                        *)
(***************************************************************************)
EXTENDS Naturals

CONSTANTS
  Rates, Rows, \* what a table shows
  FirstTable,  \* the table when the driver is initialised
  Saved,       \* the tables the panel saves: a bound
  MaxSaves, MaxRateSets \* Saves and rate changes of a behavior: bounds

VARIABLES
  driver,    \* the driver looked at
  table,     \* the Slot Table's content
  version,   \* its version
  save,      \* the Save under way
  set,       \* the Master's DAW's setSampleRate under way
  event,     \* TableChanged is signaled
  daw,       \* where the driver's DAW is
  known,     \* the table the DAW has read
  view,      \* dawView_: the table the driver takes its DAW to have read
  pending,   \* resetPending_
  callbacks, \* the DAW's callbacks are set
  told,      \* a reset request the DAW has still to handle
  seen,      \* the Bridge's seenVersion_
  asks,      \* per thread: where its reset request is
  missed,    \* history: a change went by in a way no later step mends
  changes    \* history: how many Saves and rate changes there were

planeVars == <<driver, table, version, save, set, event, daw, known, view, pending, callbacks, told, seen,
               asks, missed, changes>>
dawVars == <<driver, daw, known, view, callbacks, seen>>


Content == [rate : Rates, rows : Rows]
Shown   == {"rate", "rows"}
Parts   == {"version"} \cup Shown
Stopped == {"new", "queried", "ready"}

ASSUME PlaneAssumption == MaxSaves \in Nat /\ MaxRateSets \in Nat /\ FirstTable \in Content /\ Saved \subseteq Content

\* The threads that may ask the driver's DAW.
Threads == {"panel", "worker", "clock", "daw"}
Askers  == IF driver = "master" THEN {"panel", "worker", "daw"} ELSE {"clock"}

\* A Save: the parts it still has to put, of which table and version, over
\* which table, and whether its DAW is to be reset.
Saves  == [pc : {"no", "begun", "put", "tell"}, left : SUBSET Parts,
           to : Content, version : Nat, before : Content, reset : BOOLEAN]
NoSave == [pc |-> "no", left |-> {}, to |-> FirstTable, version |-> 0, before |-> FirstTable,
           reset |-> FALSE]

Sets  == [pc : {"no", "load", "version", "event", "tell"}, version : Nat]
NoSet == [pc |-> "no", version |-> 0]

PlaneTypeOK ==
  /\ driver \in {"master", "bridge"}
  /\ table \in Content /\ version \in Nat /\ changes \in [saves : 0..MaxSaves, rates : 0..MaxRateSets]
  /\ save \in Saves /\ set \in Sets
  /\ event \in BOOLEAN
  /\ daw \in Stopped \cup {"asking", "running", "stopping"}
  /\ known \in Content /\ view \in Content
  /\ pending \in BOOLEAN /\ callbacks \in BOOLEAN /\ told \in BOOLEAN /\ missed \in BOOLEAN
  /\ seen \in Nat
  /\ asks \in [Threads -> {"no", "compare", "lock", "send"}]

\* The driver is initialised; its DAW has not asked for its channels.
PlaneInit ==
  /\ driver \in {"master", "bridge"}
  /\ table = FirstTable /\ version = 1 /\ changes = [saves |-> 0, rates |-> 0]
  /\ save = NoSave /\ set = NoSet
  /\ event = FALSE
  /\ daw = "new" /\ known = FirstTable /\ view = FirstTable
  /\ pending = FALSE /\ callbacks = FALSE /\ told = FALSE /\ missed = FALSE
  /\ seen = 1
  /\ asks = [t \in Threads |-> "no"]

-----------------------------------------------------------------------------
(***************************************************************************)
(* A reset request (requestReset).                                         *)
(***************************************************************************)

FaultyAskReset(t) ==
  /\ asks[t] = "lock"
  /\ pending' = TRUE
  /\ asks' = [asks EXCEPT ![t] = IF pending THEN "send" ELSE "no"]

\* One request until the DAW asks for the channels again.
AskReset(t) ==
  /\ asks[t] = "lock"
  /\ pending' = TRUE
  /\ asks' = [asks EXCEPT ![t] = IF pending THEN "no" ELSE "send"]

\* The message; a DAW that has not given its callbacks yet gets none.
SendReset(t) ==
  /\ asks[t] = "send"
  /\ IF callbacks THEN told' = TRUE /\ UNCHANGED missed
                  ELSE missed' = TRUE /\ UNCHANGED told
  /\ asks' = [asks EXCEPT ![t] = "no"]

RequestReset(t) ==
  /\ UNCHANGED <<table, version, save, set, event, changes>> /\ UNCHANGED dawVars
  /\ \/ AskReset(t) /\ UNCHANGED <<told, missed>>
     \/ SendReset(t) /\ UNCHANGED pending

\* Asks thread t to compare, or ends its request at once.
Asks(t, changed) == asks' = [asks EXCEPT ![t] = IF changed /\ t \in Askers THEN "lock" ELSE "no"]

-----------------------------------------------------------------------------
(***************************************************************************)
(* The panel's Save (CommitPanelSave).                                     *)
(***************************************************************************)
Saving == save.pc # "no"

\* The panel's thread keeps the table it saves over ...
SaveBegins ==
  /\ ~Saving /\ asks["panel"] = "no" /\ changes.saves < MaxSaves
  /\ changes' = [changes EXCEPT !.saves = @ + 1]
  /\ \E c \in Saved : save' = [NoSave EXCEPT !.pc = "begun", !.to = c, !.before = table]
  /\ UNCHANGED <<table, version, set, event, pending, told, asks, missed>> /\ UNCHANGED dawVars

\* ... compares the clocks and takes the next version ...
SaveCompares ==
  /\ save.pc = "begun"
  /\ save' = [save EXCEPT !.pc = "put", !.left = Parts, !.version = version + 1,
                          !.reset = (save.to.rate # table.rate)]
  /\ UNCHANGED <<table, version, set, event, pending, told, asks, missed, changes>> /\ UNCHANGED dawVars

\* The table comes back to the version the Bridge saw last, under other rows.
Returns(v) == driver = "bridge" /\ version # seen /\ v = seen

\* ... its copy puts its parts in the table in any order ...
SavePuts(part) ==
  /\ part \in save.left
  /\ save' = [save EXCEPT !.left = @ \ {part}]
  /\ IF part = "version"
     THEN /\ version' = save.version /\ UNCHANGED table
          /\ missed' = (missed \/ Returns(save.version))
     ELSE /\ table' = IF part = "rate" THEN [table EXCEPT !.rate = save.to.rate]
                                        ELSE [table EXCEPT !.rows = save.to.rows]
          /\ UNCHANGED <<version, missed>>
  /\ UNCHANGED <<set, event, pending, told, asks, changes>> /\ UNCHANGED dawVars

\* ... then looks for what its DAW sees changed ...
SaveLooks ==
  /\ save.pc = "put" /\ save.left = {}
  /\ save' = [save EXCEPT !.pc = "tell", !.reset = (save.reset \/ save.before # table)]
  /\ UNCHANGED <<table, version, set, event, pending, told, asks, missed, changes>> /\ UNCHANGED dawVars

\* The Master's panel asks its own DAW, and signals nobody else.
FaultySaveTells ==
  /\ save.pc = "tell"
  /\ Asks("panel", save.reset)
  /\ save' = NoSave
  /\ UNCHANGED <<table, version, set, event, pending, told, missed, changes>> /\ UNCHANGED dawVars

\* ... and when the files are written signals TableChanged, and asks its DAW.
SaveTells ==
  /\ save.pc = "tell"
  /\ event' = TRUE
  /\ Asks("panel", save.reset)
  /\ save' = NoSave
  /\ UNCHANGED <<table, version, set, pending, told, missed, changes>> /\ UNCHANGED dawVars

SaveStep == SaveCompares \/ (\E part \in Parts : SavePuts(part)) \/ SaveLooks \/ SaveTells

-----------------------------------------------------------------------------
(***************************************************************************)
(* The DAW.  Once asked, it stops and asks for the channels again; it may  *)
(* do so at any time.                                                      *)
(***************************************************************************)
\* Its thread is in no call of the driver.
At(states) == daw \in states /\ asks["daw"] = "no" /\ (driver = "master" => set.pc = "no")

CreateBuffers ==
  /\ At({"queried"}) /\ daw' = "ready" /\ callbacks' = TRUE
  /\ UNCHANGED <<driver, table, version, save, set, event, known, view, pending, told, seen, asks, missed, changes>>

Start ==
  /\ At({"ready"}) /\ ~told /\ daw' = "running"
  /\ UNCHANGED <<driver, table, version, save, set, event, known, view, pending, callbacks, told, seen, asks, missed, changes>>

-----------------------------------------------------------------------------
(***************************************************************************)
(* The Master.                                                             *)
(***************************************************************************)

FaultySnapshot ==
  /\ view' = table
  /\ UNCHANGED pending

\* What the driver takes its DAW to have read (snapshotDawView).
Snapshot ==
  /\ view' = table'
  /\ pending' = FALSE

\* getChannels: the driver's view, then the counts.
MasterSnapshot ==
  /\ driver = "master" /\ At(Stopped)
  /\ daw' = "asking" /\ UNCHANGED table
  /\ Snapshot
  /\ told' = FALSE /\ missed' = FALSE
  /\ UNCHANGED <<driver, version, save, set, event, known, callbacks, seen, asks, changes>>

MasterCounts ==
  /\ driver = "master" /\ daw = "asking"
  /\ daw' = "queried" /\ known' = table
  /\ UNCHANGED <<driver, table, version, save, set, event, view, pending, callbacks, told, seen, asks, missed, changes>>

\* Stopping signals TableChanged to wake the Worker.
MasterStop ==
  /\ driver = "master" /\ At({"running"})
  /\ daw' = "stopping" /\ event' = TRUE
  /\ UNCHANGED <<driver, table, version, save, set, known, view, pending, callbacks, told, seen, asks, missed, changes>>

-----------------------------------------------------------------------------
(***************************************************************************)
(* A rate the Master's DAW picks is a change of the table (setSampleRate). *)
(* A Bridge sees the change alone, and not the Master that makes it.       *)
(***************************************************************************)

\* The rate is stored; what a stopped DAW has picked, it knows.
SetSampleRate(r) ==
  /\ set.pc = "no" /\ (driver = "master" => At(Stopped \cup {"running"}))
  /\ r # table.rate /\ changes.rates < MaxRateSets
  /\ table' = [table EXCEPT !.rate = r]
  /\ known' = IF driver = "master" /\ daw # "running" THEN [known EXCEPT !.rate = r] ELSE known
  /\ set' = [set EXCEPT !.pc = "load"]
  /\ changes' = [changes EXCEPT !.rates = @ + 1]
  /\ UNCHANGED <<driver, version, save, event, daw, view, pending, callbacks, told, seen, asks, missed>>

\* The version is raised, a load and a store that a Save may come between ...
SetLoads ==
  /\ set.pc = "load"
  /\ set' = [pc |-> "version", version |-> version + 1]
  /\ UNCHANGED <<table, version, save, event, pending, told, asks, missed, changes>> /\ UNCHANGED dawVars

SetVersion ==
  /\ set.pc = "version"
  /\ version' = set.version
  /\ missed' = (missed \/ Returns(set.version))
  /\ set' = [set EXCEPT !.pc = "event"]
  /\ UNCHANGED <<table, save, event, pending, told, asks, changes>> /\ UNCHANGED dawVars

\* ... TableChanged is signaled ...
SetEvent ==
  /\ set.pc = "event"
  /\ event' = TRUE
  /\ set' = [set EXCEPT !.pc = "tell"]
  /\ UNCHANGED <<table, version, save, pending, told, asks, missed, changes>> /\ UNCHANGED dawVars

\* ... and a DAW that runs is asked to reset; one that does not is taken to
\* have read the table.
SetTells ==
  /\ set.pc = "tell"
  /\ set' = NoSet /\ UNCHANGED table
  /\ \/ driver = "master" /\ daw = "running" /\ Asks("daw", TRUE) /\ UNCHANGED <<view, pending>>
     \/ driver = "master" /\ daw # "running" /\ Snapshot /\ UNCHANGED asks
     \/ driver = "bridge" /\ UNCHANGED <<asks, view, pending>>
  /\ UNCHANGED <<driver, version, save, event, daw, known, callbacks, told, seen, missed, changes>>

SetStep == SetLoads \/ SetVersion \/ SetEvent \/ SetTells

-----------------------------------------------------------------------------
(***************************************************************************)
(* The Master's Worker.                                                    *)
(***************************************************************************)

\* The Worker, woken by TableChanged while no stop is asked (onTableChanged).
\* A change during getChannels may have been undone by another one since, and a
\* Save during setSampleRate may have gone into the view.
WorkerWoken ==
  /\ driver = "master" /\ daw = "running" /\ event /\ asks["worker"] = "no"
  /\ event' = FALSE
  /\ Asks("worker", view # table)
  /\ missed' = (missed \/ (view = table /\ known # table))
  /\ UNCHANGED <<table, version, save, set, pending, told, changes>> /\ UNCHANGED dawVars

\* A stop ends the loop before anything else; what woke the Worker is gone.
WorkerEnds ==
  /\ driver = "master" /\ daw = "stopping" /\ asks["worker"] = "no"
  /\ daw' = "ready"
  /\ event' \in {FALSE, event}
  /\ missed' = (missed \/ (event /\ ~event' /\ known # table))
  /\ UNCHANGED <<driver, table, version, save, set, known, view, pending, callbacks, told, seen, asks, changes>>

-----------------------------------------------------------------------------
(***************************************************************************)
(* The Bridge.                                                             *)
(***************************************************************************)

\* A Save that has still to put its rows, under no newer version than the table shows.
HalfSaved ==
  /\ save.left \cap Shown # {}
  /\ "version" \in save.left => save.version = version

\* getChannels: the counts, then the driver's view.
BridgeCounts ==
  /\ driver = "bridge" /\ At(Stopped)
  /\ daw' = "asking" /\ known' = table
  /\ told' = FALSE /\ missed' = FALSE
  /\ UNCHANGED <<driver, table, version, save, set, event, view, pending, callbacks, seen, asks, changes>>

BridgeSnapshot ==
  /\ driver = "bridge" /\ daw = "asking"
  /\ daw' = "queried" /\ UNCHANGED table
  /\ Snapshot /\ seen' = version
  /\ missed' = (known # table \/ HalfSaved)
  /\ UNCHANGED <<driver, version, save, set, event, known, callbacks, told, asks, changes>>

BridgeStop ==
  /\ driver = "bridge" /\ At({"running"}) /\ asks["clock"] = "no"
  /\ daw' = "ready"
  /\ UNCHANGED <<driver, table, version, save, set, event, known, view, pending, callbacks, told, seen, asks, missed, changes>>

\* checkTableChanged: each period the clock thread looks for another version.
ClockLooks ==
  /\ driver = "bridge" /\ daw = "running" /\ asks["clock"] = "no" /\ version # seen
  /\ seen' = version
  /\ missed' = (missed \/ HalfSaved)
  /\ asks' = [asks EXCEPT !["clock"] = "compare"]
  /\ UNCHANGED <<driver, table, version, save, set, event, daw, known, view, pending, callbacks, told, changes>>

ClockCompares ==
  /\ asks["clock"] = "compare"
  /\ Asks("clock", ~pending /\ view # table)
  /\ UNCHANGED <<table, version, save, set, event, pending, told, missed, changes>> /\ UNCHANGED dawVars

PlaneNext ==
  \/ \E t \in Threads : RequestReset(t)
  \/ SaveBegins \/ SaveStep
  \/ CreateBuffers \/ Start
  \/ MasterSnapshot \/ MasterCounts \/ MasterStop \/ WorkerWoken \/ WorkerEnds
  \/ (\E r \in Rates : SetSampleRate(r)) \/ SetStep
  \/ BridgeCounts \/ BridgeSnapshot \/ BridgeStop \/ ClockLooks \/ ClockCompares

PlaneSpec == PlaneInit /\ [][PlaneNext]_planeVars

\* A thread goes on; a DAW that was asked stops and asks for the channels.
Fairness ==
  /\ \A t \in Threads : WF_planeVars(RequestReset(t))
  /\ WF_planeVars(SaveStep) /\ WF_planeVars(SetStep)
  /\ WF_planeVars(WorkerWoken) /\ WF_planeVars(WorkerEnds) /\ WF_planeVars(ClockLooks) /\ WF_planeVars(ClockCompares)
  /\ WF_planeVars(MasterCounts) /\ WF_planeVars(BridgeSnapshot)
  /\ WF_planeVars(told /\ (MasterStop \/ MasterSnapshot \/ BridgeStop \/ BridgeCounts))

FairPlaneSpec == PlaneSpec /\ Fairness

-----------------------------------------------------------------------------
(***************************************************************************)
(* What a DAW is told.                                                     *)
(***************************************************************************)
Read == daw \notin {"new", "asking"}

\* Something under way that will look at the table after its last change.
Looking ==
  \/ Saving \/ set.pc # "no"
  \/ \E t \in Threads : asks[t] # "no"
  \/ driver = "master" /\ event
  \/ driver = "bridge" /\ version # seen

\* A DAW whose table is no longer the one it read has been asked to reset, or
\* the look that will ask it is on its way (requestReset, onTableChanged,
\* checkTableChanged).
Owed == Read /\ known # table => told \/ Looking \/ missed

\* A request that holds back the next ones has reached the DAW, or will.
PendingTold == Read /\ pending => told \/ missed \/ \E t \in Threads : asks[t] = "send"

\* What the two rest on.  A Save with parts to put is under way, and its panel asks
\* nothing meanwhile.
SaveInv ==
  /\ save.left # {} => save.pc = "put"
  /\ Saving => asks["panel"] = "no"

\* The Master's DAW is in one call at a time, and when it is not running the
\* event of its rate waits for the next Worker.
SetInv ==
  driver = "master" /\ set.pc # "no" =>
    /\ daw \in Stopped \cup {"running"} /\ asks["daw"] = "no"
    /\ set.pc = "tell" /\ daw # "running" => event

\* Only threads of the driver looked at ask its DAW.
AskersInv == \A t \in Threads : asks[t] # "no" => t \in Askers

\* The Master takes the mark back before the counts, the Bridge after them.
PendingInv ==
  (Read \/ (driver = "master" /\ daw = "asking")) /\ pending
  => told \/ missed \/ \E t \in Threads : asks[t] = "send"

\* The Bridge compares with what its DAW has read, and when it does not look
\* again, no Save has still to put its rows under the version it has seen.
BridgeInv ==
  driver = "bridge" /\ Read => /\ (view = known \/ missed)
                              /\ (HalfSaved => version # seen \/ missed)

\* A change that has still to put a version that is not the table's.
VersionToCome ==
  \/ "version" \in save.left /\ save.version # version
  \/ set.pc = "load"
  \/ set.pc = "version" /\ set.version # version

\* Owed, without the looks of the Bridge that come to nothing.
OwedInv ==
  Read /\ known # table
  => \/ told \/ missed
     \/ (\E t \in Threads : asks[t] # "no")
     \/ driver = "master" /\ (event \/ Saving \/ set.pc # "no")
     \/ driver = "bridge" /\ (version # seen \/ VersionToCome)

PlaneInv == PlaneTypeOK /\ SaveInv /\ SetInv /\ AskersInv /\ PendingInv /\ BridgeInv /\ OwedInv

\* A DAW that stays running ends up with the table as it is.
Follows == <>[](daw = "running") => <>[](known = table \/ missed)

=============================================================================
