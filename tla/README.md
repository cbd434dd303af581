# WinHookAudio in TLA+

Models of the real-time core of WinHookAudio, checked with TLC on small
instances, and proofs with TLAPS of the safety properties for every instance.
Paths are those of the repository. "The code" is the C++ under `common/`,
`asio-master/`, `asio-bridge/` and `driver/`.

## The system

A DAW loads the **Master** ASIO driver. The Master's *clock thread* runs the DAW
one period per tick and its *Worker* thread routes each tick between the slots
the DAW sees and hardware devices, virtual cables, network streams and up to four
*Shared Bridges*. Other apps load a **Bridge** ASIO driver, take one of a Bridge's
four places, and exchange blocks with the Worker through shared memory. A control
panel edits a copy of the **Slot Table** and a Save writes it over the shared one.
Almost nothing is locked: the parts are joined by plain shared memory, counters and
Windows auto-reset events.

| Part | State it keeps | Operations | Joined to the others by |
| --- | --- | --- | --- |
| Shared Bridge exchange (`WHABridgeShared.h`, `MasterHolder::doTick`, `WinHookBridgeASIO::runClock`) | block counts of both sides, two rings of `kBridgeRing` blocks, which ring slot had which channel fed | a tick's output, mix, publish and signal; a client's catch-up, read, write, count; start, stop, close, death of either | shared region, one event per place |
| Bridge places (`claimClientPlace`, `releaseClientPlace`) | `owner[]`, `clientBlocks[]` | claim, takeover from a dead app, release | compare-exchange on the region |
| Master Clock and Worker (`WinHookMasterASIO::runClock`, `clockTick`, `MasterHolder::run`) | tick counts, slot audio, stop flags | tick, bounded wait for the Worker, route, missed ticks, start, stop | Master_Tick, TableChanged, workerDone events, shared slots |
| Network streams (`WHANetworkEngine`) | ring, sequence numbers, jitter target, gate per stream | receive, order, push; take a tick; reconfigure; send | UDP, ring, `StreamGate`, reconfigure flag |
| Virtual cable (`WHACableRing`, `WHAAdapter`, `WHAMiniports`, `CableEndpointSync`) | two rings per cable, format, underrun latency | exchange per tick, stream timers, format change and endpoint follower | IOCTL, spin lock, wake event |
| HW devices (`MasterHolder::openHw`, `KsEndpoint`, `KsAudio`, `KsCapture`, `HwInputFifo`, `HwOutputFifo`, `HwClockPacer`) | clients of Windows, routes of devices listed twice, queued frames, targets, timelines | resolve, open, start, close; push, read, skip, plan, pop | called by the Worker and the clock |
| Slot routing (`MasterHolder::doTick`) | the IN and OUT slots, the driverless cables' rings | one pass over the slots per kind of source | the Slot Table, all parts above |
| Slot Table and its readers (`WHASlotTable`, `requestReset`, `onTableChanged`, `checkTableChanged`) | table, version, the DAW's view, pending request | Save, reset request, reading the channels | named mapping, TableChanged, `asioMessage` |
| Control panel and files (`WHAControlPanelUI`, `WHAConfigYaml`, `WHASlotsJson`) | an edit copy, `routes.yml`, `settings.yml`, an old `slots.json` | edit, import, revert, Save, load | the Slot Table, files |
| Master claim, registration, installer, tools | the claim's owner; the registry | acquire, release; register | named objects |

What makes it hard: threads of different processes read and write the same ring
slots with nothing but a count between them; events are auto-reset and outlive the
objects that wait for them; waits are bounded and the waiter goes on when they
expire; any process may die or restart while others keep its memory; a Save changes
sizes and routes under running threads; datagrams are lost, doubled and reordered.
`PROJECT.json` lists each such hazard with its line and what covers it.

What makes each part correct:

* exchange: a client's block *m* reaches the mix as block *m*, whole; the Master's block *m* reaches the client; no wake-up is lost; stop ends.
* places: one holder per place, its count its own; refusal only when full.
* clock and Worker: they take turns on the slots; every tick is routed or the HW devices skip it; stop returns.
* network: frames in order, never twice; a stream is rebuilt by one thread alone; a sender's restart and a Save are noticed.
* cable: gaps end once audio comes steadily, latency stays within what the cable allows, a backlog is not for ever; a format reaches the driver and Windows' endpoint, and no stream outlives its format.
* HW devices: each device plays on the endpoint and in the mode its entry says, and no endpoint is opened twice; bounded latency; starve and trim do not alternate for ever.
* routing: an IN row gets its own source's audio of this tick or silence, across Saves and failures.
* table: a DAW whose view is old is told; a panel's copy is always valid; an edit changes what it is about; a restart finds the last Save.

## Modules

| Module | Models | Notes |
| --- | --- | --- |
| `SharedBridge` | the Shared Bridge exchange | both sides' threads and the apps' calls |
| `BridgePlaces` | the claim of a place, step by step | implements `PlaceGrants` |
| `PlaceGrants` | what a place promises, whatever the protocol | abstract specification |
| `MasterClock` | the clock thread, the Worker's loop, start and stop | |
| `NetworkStream` | one stream of the network engine, received or sent, PCM or Vorbis | sender or network, network thread, Worker |
| `CableRing` | one direction of a cable's ring: its counts and its cells, as operators | used by `VirtualCable` (counts) and the proofs (both) |
| `VirtualCable` | a ring between the Worker's ticks and a stream's timer | |
| `CableEndpoints` | a format's way from a Save to driver, endpoint and streams | Worker, follower thread and Windows |
| `SlotTable` | the Slot Table, its validity and the panel's edits, as operators | used by `OldSlots` |
| `OldSlots` | `slots.json` of earlier versions, as operators | used by `SlotPanel` |
| `SlotPanel` | the panel, its Save, the files, the Master's restarts | |
| `ControlPlane` | a table change on its way to a DAW | Master's or Bridge's driver |
| `HwDevices` | which HW devices are opened, how, and which play through which | its steps are `SlotRouting`'s |
| `SlotRouting` | `doTick` over rows, cables and HW devices, with `openHw` | EXTENDS `HwDevices` |
| `HwFifos` | the frame counts of an input and an output FIFO | |
| `MC...` | constants for TLC | each EXTENDS its module |
| `...Proofs` | theorems | each EXTENDS its module and TLAPS; `DriverProofs` is about `BridgePlaces` and `ControlPlane`, `CableProofs` about `VirtualCable` and `CableEndpoints` |

Operators named `Faulty...` stand before the definition they are a variant of:
each is a bug a change of the code could bring in, and a property is shown to
notice it (`PROJECT.json`, mutants).

### SharedBridge

A ring cell holds the *number* of the block whose audio was written there, or
`Silence`; so "the right audio" is "the right number". Actions follow the order of
stores in the code, one action for each step another thread can see in between:

* Worker (`doTick`, `MasterHolder.cpp` 350-404): `WorkerTick` (a tick begins),
  `WorkerOut` (writes its ring slot, silences channels it no longer feeds),
  `WorkerLook` (computes block *t - delay*, looks who has it), `WorkerMix` (sums),
  `WorkerPublish` (counts the block), `WorkerSignal` (sets each place's event).
* A client's clock thread (`WinHookBridgeASIO.cpp` 347-380): `ClientWake`,
  `ClientCatchUp` (reads the Master's count once per wake; skips when a ring
  behind), `ClientIdle`, `ClientRead`, `ClientWrite`, `ClientAdvance`.
* The app's calls: claim, reset of the count, `start` in three steps (clear the
  ring, join at the Master's count, announce and run), `stop` (flag, then join of
  the thread), release, and death at any step. A clock thread that cannot be made
  (`WinHookBridgeASIO.cpp:221`) leaves the place announced and counted with nobody
  behind it (`"failed"`), until a stop or another start.
* The Master: open (a region is new only when nobody maps it), start, stop, close,
  a Save of routes and buffer sizes, and death between two steps of a tick when
  `MasterMayCrash`.

History variables `since`, `joined` and `gaps` serve the properties only. All
clients are looked at in one step (`have`), although the code loops over them:
places share nothing but the Master's count, which that loop does not change.
`clientLate` and `clientSkipped`, statistics, are left out.

### BridgePlaces and PlaceGrants

One action for each interlocked operation of `claimClientPlace`: try to exchange 0,
look at the owner, ask whether its process runs, exchange it, go to the next place;
then reset of the count, start (with a thread or, `"failed"`, without one) and stop, and
release in its two stores (`ReleaseStep`: count, then owner). `Die` removes a process at any step,
`NewRegion` is a new mapping when no process holds the old one. The refinement
mapping takes the place of a driver instance that holds one. Process IDs are
assumed not to be reused while the region lives (a hazard the code cannot see).

### MasterClock

`ClockTop`, `ClockCheck`, `ClockWake`, `ClockTimeout`, `ClockPace` are `waitWorker`
and the pacing around it; `ClockIn`, `ClockOut`, `ClockCount`, `ClockSignal` are
`clockTick`. `WorkerLoop`, `WorkerWake`, `WorkerTick`, `WorkerChange`,
`WorkerRoute`, `WorkerRouted` are `MasterHolder::run` round `doTick`. `Start`,
`StartAgain` (after a clock thread that could not be made), `Stop` and its steps
are the driver's calls. Either thread may fail to be made. Without a Worker (`~HolderRuns`,
which `NewHolder` may leave so; `MasterHolder.cpp:48-49`) the driver starts all the same, `ClockCheck`
goes on at once, without a timeout (`MasterHolder.h:34`), and `StopWithoutWorker` has
nobody to join; `InStep` and `TickRouted` are about a holder that has its Worker, and
Findings say what happens to one that has none. How long a wait is does not appear: a wait ends by its
event or by its timeout at any time. `late` records that a wait timed out, and is
reset when one ends with the Worker done; properties about turns hold while it is
false, so they say how the two recover and not only that they agree at first.

### NetworkStream

One stream, of a kind chosen at the start. A frame is its number in the sender's audio.

Received: the network may deliver any packet at any time, again, or never, as long as a
late one is less than the resync distance (`kSeqResync`, 1024 packets, 2.7 s) behind.
`NetReceive` is `OnAudio`, with the room read in the ring before `NetPush` writes; the
Worker's `WorkerLook` and `WorkerTake` are the second half of `processTick`. Vorbis audio is taken
by its number but dropped until a CODEBOOK opens the decoder (`NetCodebook`, `OnCodebook`),
which begins the sequence anew, and with it the history of the properties.

Sent: `WorkerGather` and `WorkerPut` are the first half of `processTick`, again with the
room read before the write. `NetSend`, `NetBook` and `NetEncode` are `ServiceTx`; a
datagram that cannot be sent has had its number, as one the network loses. The encoder
takes what the ring holds and answers with any number of packets; a Vorbis stream
whose encoder does not open stays closed, and every later Save tries again.

Both: `NetTop`, `NetApply`, `NetClosed`, `NetOpen` are `Run`, `ApplyConfig`, `OpenTx`
and the steps of `StreamGate::close`; `WorkerTick`, `WorkerBusy`, `WorkerEnter`,
`WorkerLeave` are the gate's other side. The ring (`WHASpscRing`) is a queue: its two
ends are atomics, each stored after the frames it counts. A sender, as a received
stream sees it, is such a sent stream: `SentInOrder` is what justifies `SeqOf` and
`FramesOf`, which say what a packet of a number carries. Left out: a CODEBOOK
that changes while a stream is open, packets that do not decode, drift correction, counters, what the socket does, packets that validation or the
peer filter drops, the engine's start and stop.

### CableRing and VirtualCable

A ring decides everything by its counts (frames queued, whether the reader has
begun, by how much its latency grew, how long too much was queued). `Added` is
`write`; `Ready` and `Taken` are the two halves of `read` (begin and trim, then take
or run short). The cells are there too (`Write`, `Read`, with the copies that go past
the end of the array): what they hold is a pure function of the counts' steps, proved
in `CableProofs`, and `VirtualCable` keeps the counts only. `VirtualCable` counts time in frames: `Elapse` lets
a frame's time pass for the Worker and for the stream's timer, and each may be
late by a bound. `ExchangeBlocks` is the Worker's exchange (`MissTick` one that does not
happen), `StreamTimer` the stream's `Update`, `StreamNew`, `StreamRun`, `StreamHalt`,
`StreamClose` its life, `SaveBlock` a Save of the block size. The two directions
share only the Worker's calls, and are chosen at the start.

### CableEndpoints

The Worker's `Exchange`, `NotifyHold`, `NotifyTell` (the driver takes a format, holds
the port's events while it uses them without the lock, and tells Windows),
`StoreRate`, `StoreChannels`, `Wake` (the status is stored field by field, so a
follower may read half of it); the follower, which `OpenCables` may fail to make
(`CableEndpointSync.cpp:149-154`: the driver takes formats all the same, its endpoint no
longer follows, and `Follows` asks that of it only when there is one); the follower's `SyncWake`, `SyncRate`, `SyncChannels`,
`SyncSet`; `CloseCables` and `Joined`. Windows (`NewStream`, `StreamMade`,
`HandleChange`, `PortInit`, `PortRemoved`) is external: a stream is offered a format in
one step and made in the next.

### SlotTable, OldSlots, SlotPanel

`SlotTable` has the rows of one direction and the settings they lean on, and each
edit of the panel as a function of the table. `SlotPanel` adds the copy, the Save in
its steps (`SavePanel` checks the copy and puts it in the shared table; `MakeText` makes
both texts from that table, in which the DAW's rate may have changed meanwhile;
`settings.yml` and `routes.yml` are written from the texts, either may fail), the
restart that reads the files, or keeps the table where a Bridge app holds it, and the
DAW's rate (`SetSampleRate`). So what a restart finds is not the copy but `SavedTable`, the copy with
the rate the table had when its text was made. `OldSlots` reads `slots.json` as the keys a text has: a file that lacks
one is refused; lists that later versions added may be missing; cables without
formats numbered their sides in stereo pairs. Where the code tells "not in the file"
from "in the file", so does the model.

### ControlPlane

Only the Master's panel Saves. A Bridge's shows the table and has no Save, though comments
speak of one (Findings). A Save keeps the table it saves over (`SaveBegins`), compares rates
and takes the version it finds plus one (`SaveCompares`), puts version, rate and rows in any
order (`SavePuts`: plain stores that other threads and processes see as they come), looks
for what its DAW sees changed (`SaveLooks`), and tells (`SaveTells`: TableChanged and its own
driver's DAW). The Master's DAW may also set a rate, with steps of its own: the store
(`SetSampleRate`), the version's load and store (`SetLoads`, `SetVersion`), TableChanged (`SetEvent`),
and a reset request or a new view (`SetTells`). A Save and a rate change may interleave.
`AskReset`, `SendReset` are `requestReset`; the Master's Worker compares tables, the Bridge's
clock thread compares versions; the DAW stops, asks for the channels and starts. The
Master is one that has its Worker: without it nobody looks at TableChanged for it, and only
the panel's and the DAW's own calls ask its DAW. `missed` records a change that went by in a way no
later step mends (see Findings), among them a version that comes back to the one the
Bridge has seen (`Returns`): the properties hold up to it.

### HwDevices and SlotRouting

`CountUsed` and `Snapshot` are two steps, a Save may come between. The outputs
are opened in the list's order, then the inputs (`Turn`): each used device is resolved,
plays through an earlier twin, or is opened in its entry's mode and started; all
three may fail. `Grants` is Windows' rule for clients of an endpoint, the Master's
own included. `Tick` is `doTick`: its steps are functions of the IN rows in the
code's order (`Looped`, `Cabled`, `Recorded`), `Sent` what the HW outputs get. A
block is the set of sources summed in it and the tick it is of.

### HwFifos

`HoldInput`, `ReadInput` are an input's tick before and after the Master Clock has
settled; `HoldOutput`, `WriteOutput` an output's, with missed ticks, packets of the
device that come late and together, and a device that plays unevenly. What the input's
delay-locked loop estimates is taken as exact; what the output's reads of its device may be
anything up to what the device says.

## What TLC checks

| Run | Question | Bounds |
| --- | --- | --- |
| `shared_bridge` | is audio exact both ways, no torn mix, no lost wake | one place, one channel, ring 3, 5 blocks, delays 2 (and clamped) |
| `shared_bridge_live` | the inductive invariant with a Master that dies anywhere; a client catches up; stop ends | 3 blocks |
| `master_clock` | turns, HW steps, every tick routed, stop returns | 4 ticks |
| `bridge_places` | exclusive grants, counts, justified refusal | 4 instances of 3 apps, 2 places |
| `network_stream` | order both ways, exclusive rebuild, short restart, Saves applied | 4 packets of 2 frames, ring of 5, ticks and target of 1, encoder fed 2, numbers modulo 8, resync 3 |
| `network_stream_trim` | a tick that plays has its frames (Findings) | a received stream, packets of 3, ring of 8, ticks of 2, target of 1 |
| `virtual_cable` | gaps end, latency bounded, a backlog ends | ring of 16, blocks 1 and 3, lateness 2 and 4 |
| `cable_endpoints` | no stream of an old format, the endpoint follows, close ends | two rates, two channel settings, one setting invalid |
| `slot_panel` | validity, meaning of rows, devices apart, restart finds the Save | 3 edits, Saves, restarts; 4 rows, 2 devices, 2 cables, 1 stream |
| `control_plane` | a DAW with an old view is told and comes to the last Save | 2 Saves of 2 tables, 1 rate change, 2 rates, 2 rows |
| `slot_routing` | each device as asked, each row its own audio | 2 devices, 2 endpoints, 2 cables, 2 rows each way, 2 ticks, 1 Save |
| `hw_fifos` | targets kept, queues bounded, an input settles | block 1, periods 1 and 2, one missed tick, packets up to 12 late |

The properties:

* `NoTornMix`: the Worker never sums a ring slot the client is writing.
* `MixExact`: what is summed as a client's block *m* is block *m*; silence only before it joined or as it ends; anything else only for a block it skipped.
* `InputExact`: a client that was not overtaken read the block it runs.
* `NoLostWakeup`: a waiting client with a block to run has its tick or is about to get it.
* `CatchesUp`, `StopEnds`: a running client comes to every block, or stops; `stop` returns though the Master is dead.
* `InStep`, `HwKeepsStep`, `TickRouted`, `StopReturns`: the same for the clock and the Worker.
* `PlacesGranted`: the claim protocol implements `PlaceGrants`; `FullIsFull`.
* `RebuiltAlone`: a stream is rebuilt only while the Worker is out of it. `InOrder`: a received stream plays each run of its sender in order, no frame twice (`PlayedInOrder`), and a sent one numbers its audio as a receiver takes it (`SentInOrder`).
* `RestartIsShort`, `TableApplied`: a sender's restart costs less than the resync distance; a stream comes to the last Save, but for an encoder that does not open.
* `CableInv`, `Settles`, `BacklogEnds`: a cable's latency grows within what the cable allows; a cable whose audio comes steadily ends its gaps, and its queue is again and again within latency and slack.
* `NoStaleStream`, `Follows` (of `CableEndpoints`), `CloseEnds`: formats.
* `DevicesApart`, `RowsKept`, `DevicesKept`, `ReloadsSaved`: the panel.
* `Owed`, `PendingTold`, `Follows` (of `ControlPlane`): the DAW is told.
* `OpenedAsAsked`, `Accounted`, `OwnAudio`: HW devices and rows.
* `InputSettles`: an input stops starving; `OnTarget` and `WaitBounded` in `HwFifos`' `IInv`: latency.
* `IInv` of each module, `CableInv` of `VirtualCable`: its types and what its steps rest on, the formula proved below.

Why the bounds are enough. *SharedBridge*: what can go wrong is a comparison of
counts at the ring's size, so a ring of 3, the smallest the delay clamp allows, with
blocks enough to go round it and come back is where an off-by-one shows; the code's
ring is 6, and the proofs are for every size from 3 up. One place is enough because
no action of one place reads another's variables except the check that the region
is held; the proofs are for any set of places. The two Bridge buffers give a
delay within and one clamped by the ring. *MasterClock*: four ticks allow two
starts with a timeout, a catch-up and a missed tick in each. *BridgePlaces*: two
places and four claimants, two of one process, give a takeover raced by another
takeover, by a release and by a new death. *NetworkStream*: first numbers 3 and 7
place the wrap of the sequence in the middle, and a restart's number 0 both
behind and ahead of the number waited for; packets of two frames and a ring of
five make a partial write and a trim, and of a sent stream a tick that does not fit.
The run has received Vorbis, which is received PCM and the wait for a CODEBOOK, and both
kinds sent; the trim's run has received PCM; the proofs are for all four. *VirtualCable*: a timer late by more than a
stream's buffer, a block above and below the first one, a ring a latency can grow to.
*CableEndpoints*: two settings, one of them invalid, one of each rate. *SlotPanel*: three
steps are an edit, a Save and a restart, in any order; rows name both devices, a looped
cable, a stream and a Bridge. *ControlPlane*: two Saves and a rate change are the fewest
by which a version comes back to one that was seen; two Saves overtake each other. *SlotRouting*: the two devices may be each other's twin by name or by default; a
cable of each kind; two ticks and a Save between or before them. *HwFifos*: a mixer period
of two blocks and one of one, missed ticks and late packets up to the longest target.

Fairness. Clock threads, the Worker, the network thread, the follower and the streams'
timers are running threads: weak fairness of each thread's own steps. Apps and users
owe nothing (they need not start, stop, edit or release), nor need a Save come, nor the
Master tick: `CatchesUp` speaks of published blocks. `StopReturns` needs a stop that was
called to go on as the threads it joins end, which the code's waits do. In `NetworkStream`,
`NetDrained` (the socket is empty, or nothing left to send, at some look) and `WorkerChange` (the Worker finds
TableChanged the only signaled event) have strong fairness: under a flood of packets,
or a Worker that always overruns, the code does starve them, see Hazards. In
`CableEndpoints` not every format set is refused (strong fairness of `SyncSet(TRUE)`),
and an exchange happens again. In `ControlPlane` a DAW that was asked to reset stops or
asks for the channels in the end; without that nothing a driver does can bring it to a Save.

`CHECK_DEADLOCK FALSE` is set where counters are bounded and where the system may
rightly stop (no DAW running); `bridge_places` and `hw_fifos` check deadlock.

## What is proved

For all values of the constants that satisfy the named assumptions (the ring at
least 3, non-empty places, a resync distance of at most half the range of numbers,
positive sizes, valid first tables, at least two channels a cable), with no bound but the one on the history (in
`NetworkStream` the packets of a run are at most half the range of numbers):

* `SharedBridgeProofs`: `Invariance` (Spec => []IInv), and from it `TypeCorrect`,
  `MixNeverTorn`, `MixCorrect` (an action property), `InputCorrect`,
  `CountsOrdered`, `WakeupsKept`.
* `MasterClockProofs`: `Invariance`, `TypeCorrect`, `TurnsKept`, `DoneNotMissed`, `HwInStep`
  (an action property), `TicksReachTheWorker`, `StopReachesTheWorker`.
* `DriverProofs`, of `BridgePlaces`: `Invariance`, `TypeCorrect`, `CountsKept`, `FullIsRight`,
  `Refinement` (initial states map to initial states, each step to a step or a
  stutter of `PlaceGrants`), `PlaceExclusive`; of `ControlPlane`: `PlaneInvariance`,
  `OldViewsAreAsked`, `PendingIsTold`.
* `NetworkStreamProofs`: `Invariance`, `TypeCorrect`, `Gated`, `ShortRestart`, `Sending` (action
  properties, as `Ordered`), and `Ordered`, which assumes `TargetsCoverTicks`: no jitter
  target is below a tick. Without it the finding below breaks the order. `SavesAreNoted`.
* `SlotPanelProofs`: `Invariance`, `TypeCorrect`, `NeverRejected`; `OtherRowsKept` and
  `OtherDevicesKept` (action properties); `FilesComeBack` (all of `ReloadsSaved`) and
  `SavedComesBack`, its part on the files of this version; and `DevicesStayApart`, which assumes `FilesApart`: no file of an
  earlier version lists a device twice.
* `CableProofs`, of `CableRing`: `WriteKeepsNewest`, `ReadTakesOldest`; of `VirtualCable`:
  `LatencyWithin`; of `CableEndpoints`: `EndpointInvariance`, `StreamsToldOf`.
* `SlotRoutingProofs`: `Invariance`, `DevicesOpenedAsAsked`, `RowsAccountedFor`, `RowsGetOwnAudio`.
* `HwFifosProofs`: `Invariance`, `InputsOnTarget`, `OutputsBounded`, `StarvesGrow` (an action property).

Each module's `IInv` (`PlaneInv` of `ControlPlane`) was checked by TLC before it was
proved, and is an invariant of a run or has its parts as properties of one; each proof has
one lemma per action.

*SharedBridge.* `NoTornMix` and `MixExact` are not inductive: that slot
*m mod Ring* holds block *m* when the Worker sums it depends on what the client wrote
there earlier and on the Master's count not having gone a ring further. `IInv` says
in parts who holds what in each phase (`PhaseInv`), how the counts lie (`CursorInv`:
a client's blocks are at most its next one, that at most the Master's, and the
blocks between are skipped ones), that a place's ring holds the run's last *Ring - 1*
blocks each in its slot (`RingInv`), what the Worker will find between its look and
its sum (`MixInv`), the same for the Master's ring and a client's copy of it
(`OutputInv`, `InputInv`), and that a client about to wait knows of every block
or will be told (`WakeInv`). The arithmetic core is that two blocks in a window of
fewer than *Ring* blocks never share a slot.

*MasterClock.* `TurnInv`: while not late and with a Worker, the clock is past its wait only when its
last tick is routed, and the Worker routes only a last tick that was not, so they
cannot both be on the slots. `CountInv` and `InputInv` tie the counts to what the
slots hold. `SignalInv` is the safety `TickRouted` and `StopReturns` rest on: a counted
tick the Worker has not looked at has Master_Tick signaled, or about to be (`TickTold`);
and since stop sets its flag before its event, and only this Worker takes the event, a
Worker to be joined does not wait without one (`StopTold`).

*BridgePlaces.* `HolderInv` needs `SeenInv`: a takeover exchanges exactly the
owner that was found dead, and nobody revives it. `ScanInv` is what makes a
refusal right: a place that was open all along the claim is still ahead of the scan.

*ControlPlane.* `Owed` says that a DAW with an old view was asked, or somebody is on the
way to look. `PlaneInv` says who: a Save that has put and not told (`SaveInv`), a rate change
on its way (`SetInv`), the driver's threads between their look and their request (`AskersInv`), a mark with the request it
stands for (`PendingInv`), or a Bridge that has not seen the table's version. The Bridge's case is the
hard one: it compares its DAW's view with the rows it finds when the version moves, so a Save
that has still to put its rows must not do so under a version already seen, or it is `missed`
(`BridgeInv`), and a Save or a rate change that has put what a DAW sees and not its version
has one to come that will be looked at (`VersionToCome`, in `OwedInv`). The proof found that
a version may come back (Findings): with two changes in all TLC did not reach it.

*NetworkStream.* `GateInv`: the Worker is busy from its store to its leave, and a
stream being changed is not active. So when the network thread has seen it not busy,
a Worker that enters later sees the stream closed at its second look. `RingInv`: what
a thread found in the ring, frames or room, is still there when it acts. `SeqInv` makes
`RestartIsShort` inductive: packets refused in a row are of the new run and each is one
closer to the number waited for, so *refused* plus the distance left is never more than
the resync distance. `SendInv`: a sent stream's ring holds what was gathered and not
yet sent, ascending, and without gaps as long as every tick fit; then the last frame sent
is the packets' count times their size, which is what `SentInOrder` says of the next one.
`PlayInv`, invariant together with `IInv`: while one run of the sender comes, last frame
played < frames in the ring <= frames that came, and the number waited for is the newest
packet's successor, so what is not late is new; until a decoder is open nothing is in the
ring, so a CODEBOOK may begin the sequence anew. That a number tells new from late needs
the packets of a run to be at most half the range (`2 * MaxPackets <= Modulus`).
`ApplyInv` is the safety `TableApplied` rests on: the flag is cleared before the table is
read, so a stream that is not as the table has it, with no event, flag or look to come, is
being made so (`SavesAreNoted`).

*SlotPanel.* A file is a part of a table that was valid when it was saved, and
validity is a conjunction over the parts; so what a load or an import puts together is
valid, or is refused. Each edit has a lemma that it keeps a table valid, one that it keeps
its devices apart, and one on the rows and devices it leaves as they were. Devices are in
the settings file only, so no mix of two files mixes two lists. `WrittenInv` makes
`SavedReloads` inductive: a Save takes both files out of date, each write brings one up to
date from the text that was made, the table cannot leave the copy but in its rate until the
text is made (`SavedTable`), and a table is the two parts it was cut into (`PartsAssumption` keeps "no file" apart
from them).

The rows of an old `slots.json` named cable channels in stereo pairs: that each comes to
the cable and side it meant is division with remainder (`DivisionOf`), and needs a cable
to have two channels at least (`SidesAssumption`).

*CableRing, VirtualCable.* A write leaves in the ring the newest frames of what was there
and what came, in order; a read gives what is left of the oldest after its trim and leaves
the rest: so a ring is the queue its counts say, through the end of the array
(`CellRound`, `PutContent`, `DroppedContent`). Both are lemmas on operators, for every
ring, size and content. `LatencyWithin` then needs that a block of another size resets the
growth (`Rebased`), since the bound depends on the block.

*CableEndpoints.* `NoStaleStream` is inductive with `IInv`: a stream is there only on a port
(`StreamsHavePort`), so the change that makes it stale finds the port's events and goes
by way of the notice. The events are held because references are counted
(`RefsCounted`) and the Worker's is given up last.

*SlotRouting.* `TurnsTaken` says that every used device before the next one was opened,
aliased or failed; `Accounted` is its case at the end of the list. That two clients never
share an endpoint follows from `Twins` being empty when one is opened, with `RoutesSound`
and the resolved names as the link. What is opened only grows within a Worker's life.
`OwnAudio` then follows for a tick as a whole: an IN row takes the frame of its own source
as it is in that tick, HW by `OpenedAsAsked`, a driverless cable's by `RingOnTime`; an OUT
row reaches the channel it names, on the cable it names.

*HwFifos.* `OnTarget` is an equation kept by every branch that does not set `clipped`; the
bound of an output is the arithmetic of one write: what goes beyond target and margin is
taken off the silence first and then off the oldest frames. `StarvesGrow` is the step
`InputSettles` counts: on its target, an input that starves has more than the target under
way, and the target then grows.

Only model-checked: the liveness properties (`CatchesUp`, `StopEnds`, `TickRouted`,
`StopReturns`, `TableApplied`, `Settles`, `BacklogEnds`, both `Follows`, `CloseEnds`,
`InputSettles`), which need fairness and are out of the prover's reach; of five of them the
safety part is proved (`WakeupsKept`, `TicksReachTheWorker`, `StopReachesTheWorker`,
`SavesAreNoted`, `StarvesGrow`). Every invariant and action property of a passing run is a
theorem.

## Findings

A statement of the repository that the model, written from the code, violates:

`network_stream_trim`: "Worker found less than one tick buffered (re-primes)"
(`common/network/WHANetworkEngine.h:29`). The drift trim to a jitter target below a
tick makes the read after it short, and part of the last tick plays again.

Other disagreements met while modelling. The properties hold only up to them, by an
exception each one names:

* A restarted Master does not know which channels its predecessor fed in the shared ring:
  old audio goes on on a channel unrouted since, though "Unrouted channels are silent"
  (`common/WHABridgeShared.h:90`). `InputExact` allows it as `Old`.
* Blocks a client skips count as produced, and old audio of its ring is mixed for them,
  not "silence from a client that has not produced it yet" (`asio-master/MasterHolder.cpp:349`).
  `MixExact` allows it for `gaps`.
* A client checks its distance once per wake; a Worker that goes round meanwhile gives it a
  later block than `common/WHABridgeShared.h:24` says. `InputExact` is about a client not overtaken.
* Events left signaled, or a wake between a tick's count and its event, make the Worker
  route with no tick to route (`asio-master/MasterHolder.cpp:94`). `InStep` excepts it as `late`.
* A Worker thread that cannot be made (`asio-master/MasterHolder.cpp:48-49`) is ignored
  (`WinHookMasterASIO.cpp:212`): start succeeds, the clock runs the DAW on IN slots nobody routes, with no
  timeout (`MasterHolder.h:34`), until a stop. `InStep` and `TickRouted` except it by `HolderRuns`.
* A Save from a panel's copy older than a rate the DAW set puts the old rate back, though "a Control Panel Save
  keeps it" (`WinHookMasterASIO.cpp:450`). A rate set between the copy and the texts does get
  into `settings.yml`, and one set after them is gone with the session: `SavedTable` in `ReloadsSaved`.
* A Bridge's panel has no Save, though comments and code expect one: "a Bridge popup in another process
  saved new slots" (`WinHookMasterASIO.cpp:733`), `host.onSaved` (`asio-bridge/WinHookBridgeASIO.cpp:418`).
* With the cable driver a looped OUT row is overwritten by the cable's exchange in the same tick
  (`MasterHolder.cpp:328-346`, `459-478`): the loopback of `CONTEXT.md:39-40` is heard
  without it only. `OwnAudio` takes either as the row's own source.
* An IN row of no source, of HW with no input open at all, or of an idle driverless cable is not
  silenced: `LeftAlone` in `OwnAudio`.
* A driverless cable's ring fills while no IN row is on it; a row a Save adds plays late for
  as long as the Worker lives: `saved` in `RingOnTime` and `OwnAudio`.
* The Windows default is looked up twice (`KsEndpoint.cpp:42`, `76`): `DefaultMoved` in `OpenedAsAsked`.
* A device whose Start failed keeps its client until the Worker ends (`MasterHolder.cpp:152`) and
  locks a later entry of the same endpoint out: `failed` in `OpenedAsAsked`.
* A Bridge that sees a Save's version with old rows remembers the version and not the rows; a rate
  set while a DAW is stopped, or a stop that takes the Worker's wake-up with it, hides a Save: `missed` in `ControlPlane`.
* A Save puts the version it found plus one, some time later, and a rate change raises it by a load and a store,
  so Saves and a rate change between them can bring the version back to one the Bridge has seen with other rows, and it never looks
  (`asio-bridge/WinHookBridgeASIO.cpp:157-160`): `Returns`, a part of `missed`.
* A DAW without callbacks drops a reset request (`WinHookMasterASIO.cpp:700`); a later change asks again.
* An import of one part leaves HW rows of devices that are not listed, which the next device added
  becomes: `Orphan` in `RowsKept` and `DevicesKept`.
* An earlier version's settings file leaves the settings of cables 9 to 16 as the table had them
  (`WHAConfigYaml.h:343`, `434-435`): `WithSettings`. A Save whose settings are not written and whose
  routes are loses an old `slots.json`'s settings: `ReloadsSaved` asks for both files.
* The Source menu offers a Vorbis stream's channels up to its count (128); `IsValidSource` refuses
  those from 32 on, so the pick does nothing: `MayAssign`.
* An input that starts or skips with too few frames queued is short of its target until it starves:
  `clipped` in `OnTarget`.

## Not modelled

* The claim of the Master between processes: what is left of it once Windows' named objects are
  taken as given is one retry loop.
* A CODEBOOK that changes while a stream is open, packets that do not decode, PCM conversion, packet
  layout and its validation; the socket, which opens with the first active stream and may fail to.
* Floating-point control loops (`WHADriftControl`, the delay-locked loops of the pacer and the FIFOs)
  and resamplers: TLC has no such numbers, and their limits are free choices where a count depends on them.
* The FIFO of an output whose device is gone, which fills and stays; the re-open of an exclusive device at
  a period it aligns; the volume and mute nodes and topology filters of the cable driver.
* Statistics, status texts, names, drawing; how a value is spelled in a file.
* COM registration, installer, probe and ABI tools, the prototype; `WHAJitterBuffer`, which no driver uses.

What would come next: a CODEBOOK that changes while its stream is
open; the claim against an abstract lock.

## Running

    tlc -config MCSharedBridge.cfg MCSharedBridge
    tlapm SharedBridgeProofs.tla
