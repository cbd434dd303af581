---------------------------- MODULE SlotRouting ----------------------------
(* What the Worker's tick (MasterHolder::doTick) puts into every IN row and sends *)
(* to every HW output, while rows change their source by a Save and devices open  *)
(* or fail: loopback, the virtual cables with and without the driver, HW devices. *)
(* Rows of Bridges and Network Streams are SharedBridge's and NetworkStream's.    *)
(*                                                                                *)
(* An IN row's memory outlives a tick, a source and a Worker: who writes it, in   *)
(* which order, and who leaves it alone, decides what the DAW records.            *)
EXTENDS HwDevices, SequencesExt

CONSTANTS
    NCables,       \* virtual cables
    DriverCables,  \* of those, the ones WinHookAudio.sys has when it is there
    CableChannels, \* cable -> channels of its setting
    RingBlocks,    \* blocks a driverless cable's ring holds
    MaxTicks,      \* bound: ticks
    MaxSaves       \* bound: Saves

ASSUME RoutingAssumption ==
    /\ NCables \in Nat /\ DriverCables \in 0 .. NCables
    /\ RingBlocks \in Nat \ {0}
    /\ MaxTicks \in Nat /\ MaxSaves \in Nat
    /\ CableChannels \in [0 .. NCables - 1 -> Nat]
    /\ \A s \in Sources :
        /\ s.type \in {"none", "hw", "virtual"}
        /\ s.type = "hw" => s.of \in Devices
        /\ s.type = "virtual" => s.of \in 0 .. NCables - 1
        /\ s.ch \in Nat /\ s.loop \in BOOLEAN
    /\ FirstTables \subseteq Tables

Cables == 0 .. NCables - 1

VARIABLES
    driver,  \* cables the driver has for this Worker (cableCount_), 0 without it
    ring,    \* driverless cable -> blocks in the Worker's own ring
    tick,    \* ticks routed
    in,      \* IN row -> its block, as the DAW's next tick reads it
    heard,   \* <<OUT row, endpoint, channel>>: what the HW outputs got from the last tick
    saves    \* Saves so far

vars == <<table, devices, driver, ring, tick, in, heard, saves>>

(* A block: the sources summed in it and the tick they are of.                    *)
Silence == [from |-> {}, at |-> 0]
Block(from, at) == IF from = {} THEN Silence ELSE [from |-> from, at |-> at]
Out(o) == <<"out", o, 0>>
Record(e, ch) == <<"capture", e, ch>>
Play(c, ch) == <<"cable", c, ch>>

Init ==
    /\ table \in FirstTables
    /\ DevicesInit
    /\ driver = 0
    /\ ring = [c \in Cables |-> <<>>]
    /\ tick = 0
    /\ in = [i \in InRows |-> Silence]
    /\ heard = {}
    /\ saves = 0

(* A Save changes a row's source or an entry of a device list.                    *)
Save ==
    /\ saves < MaxSaves
    /\ saves' = saves + 1
    /\ saved' = TRUE
    /\ \/ \E o \in OutRows, s \in Sources : table' = [table EXCEPT !.out[o] = s]
       \/ \E i \in InRows, s \in Sources : table' = [table EXCEPT !.in[i] = s]
       \/ \E f \in Flow, d \in Devices, e \in Entries : table' = [table EXCEPT !.ids[f][d] = e]
    /\ UNCHANGED <<phase, used, asked, next, resolved, route, client, failed,
                   driver, ring, tick, in, heard>>

(* openCables finds the driver or not; a new MasterHolder has empty rings.          *)
Start ==
    /\ CountUsed
    /\ driver' \in {0, DriverCables}
    /\ UNCHANGED <<ring, tick, in, heard, saves>>

OpenNext ==
    /\ \/ Snapshot
       \/ \E f \in Flow, d \in Devices : SkipDevice(f, d) \/ OpenDevice(f, d)
    /\ UNCHANGED <<driver, ring, tick, in, heard, saves>>

Stop ==
    /\ CloseDevices
    /\ driver' = 0
    /\ ring' = [c \in Cables |-> <<>>]
    /\ heard' = {}
    /\ UNCHANGED <<tick, in, saves>>

----------------------------------------------------------------------------
(* The tick, in doTick's order: each step is a function of the IN rows so far.    *)

OnCable(rows, c) == {i \in DOMAIN rows : rows[i].type = "virtual" /\ rows[i].of = c}

\* A looped OUT row is copied into the first IN row on its cable and channel; the last such OUT row wins.
LoopInto(o) == {i \in OnCable(table.in, table.out[o].of) : table.in[i].ch = table.out[o].ch}
LoopedTo(i, o) ==
    /\ table.out[o].type = "virtual" /\ table.out[o].loop
    /\ i \in LoopInto(o) /\ \A j \in LoopInto(o) : i <= j
Looped(i, t) ==
    LET from == {o \in OutRows : LoopedTo(i, o)}
    IN  IF from = {} THEN in[i] ELSE Block({Out(Max(from))}, t)

\* The OUT rows summed into each channel a cable has.
CableOut(c) == [ch \in 0 .. CableChannels[c] - 1 |->
    {Out(o) : o \in {x \in OnCable(table.out, c) : table.out[x].ch = ch}}]
AnyOut(c) == \E o \in OnCable(table.out, c) : table.out[o].ch < CableChannels[c]
AnyIn(c) == OnCable(table.in, c) # {}

\* The ring takes a whole block or refuses it, and gives the oldest or none.
Pushed(q, block) == IF Len(q) < RingBlocks THEN Append(q, block) ELSE q
Popped(q) == IF q = <<>> THEN q ELSE Tail(q)

\* A driverless cable's ring after the tick's write.
Written(c, t) == IF AnyOut(c) THEN Pushed(ring[c], [of |-> CableOut(c), at |-> t]) ELSE ring[c]

\* Mutant: the ring is read before it is written.
FaultyRingAfter(c, t) ==
    IF c < driver THEN ring[c] ELSE IF AnyIn(c) /\ ring[c] # <<>> THEN Popped(Written(c, t)) ELSE Written(c, t)

RingAfter(c, t) ==
    IF c < driver THEN ring[c] ELSE IF AnyIn(c) THEN Popped(Written(c, t)) ELSE Written(c, t)

\* An IN row of a cable: silent past the cable's channels, else what Windows played (silence when the
\* exchange failed), or the oldest block of the ring; an empty ring leaves it alone.
Cabled(i, before, exchanged, t) ==
    LET c == table.in[i].of
        ch == table.in[i].ch
    IN  IF table.in[i].type # "virtual" THEN before
        ELSE IF ch >= CableChannels[c] THEN Silence
        ELSE IF c < driver THEN IF c \in exchanged THEN Block({Play(c, ch)}, t) ELSE Silence
        ELSE IF Written(c, t) = <<>> THEN before
        ELSE Block(Head(Written(c, t)).of[ch], Head(Written(c, t)).at)

\* An HW IN row: untouched with no input open, else its device's channel; silent without one.
AnyInput == \E d \in Devices : route["capture"][d] = d
\* Mutant: a row whose device is not open is left alone.
FaultyRecorded(i, before, settled, t) ==
    LET p == route["capture"][table.in[i].of]
    IN  IF table.in[i].type # "hw" \/ p = NoRoute THEN before
        ELSE IF ~settled \/ table.in[i].ch >= client["capture"][p].width THEN Silence
        ELSE Block({Record(client["capture"][p].on, table.in[i].ch)}, t)

Recorded(i, before, settled, t) ==
    LET p == route["capture"][table.in[i].of]
    IN  IF table.in[i].type # "hw" \/ ~AnyInput THEN before
        ELSE IF p = NoRoute \/ ~settled THEN Silence
        ELSE IF table.in[i].ch >= client["capture"][p].width THEN Silence
        ELSE Block({Record(client["capture"][p].on, table.in[i].ch)}, t)

\* Every HW OUT row goes to its device's channel; one past the device's channels is dropped. Until the
\* Master Clock has settled only its own device, output 0, plays.
Sent(settled) ==
    {<<o, client["render"][route["render"][table.out[o].of]].on, table.out[o].ch>> :
        o \in {x \in OutRows :
                /\ table.out[x].type = "hw"
                /\ LET p == route["render"][table.out[x].of]
                   IN  /\ p # NoRoute
                       /\ table.out[x].ch < client["render"][p].width
                       /\ settled \/ p = 0}}

Tick ==
    /\ phase = "running"
    /\ tick < MaxTicks
    /\ tick' = tick + 1
    /\ \E exchanged \in SUBSET (0 .. driver - 1), settled \in BOOLEAN :
        /\ in' = [i \in InRows |-> Recorded(i, Cabled(i, Looped(i, tick'), exchanged, tick'), settled, tick')]
        /\ heard' = Sent(settled)
    /\ ring' = [c \in Cables |-> RingAfter(c, tick')]
    /\ UNCHANGED <<table, devices, driver, saves>>

Next == Save \/ Start \/ OpenNext \/ Stop \/ Tick

Spec == Init /\ [][Next]_vars
----------------------------------------------------------------------------
CableBlocks(c) == [of : [0 .. CableChannels[c] - 1 -> SUBSET {Out(o) : o \in OutRows}], at : Nat]

TypeOK ==
    /\ table \in Tables
    /\ saved \in BOOLEAN
    /\ phase \in {"gone", "counted", "opening", "running"}
    /\ used \in [Flow -> SUBSET Devices]
    /\ asked \in [Flow -> [Devices -> Entries \cup {Unlisted}]]
    /\ next \in 0 .. 2 * NDevices
    /\ phase = "opening" => next < 2 * NDevices
    /\ resolved \in [Flow -> [Devices -> Names]]
    /\ route \in [Flow -> [Devices -> Devices \cup {NoRoute}]]
    /\ client \in [Flow -> [Devices -> [on : Names, shared : BOOLEAN, width : 0 .. HwMax]]]
    /\ failed \in [Flow -> SUBSET Devices]
    /\ driver \in {0, DriverCables}
    /\ DOMAIN ring = Cables
    /\ \A c \in Cables : ring[c] \in Seq(CableBlocks(c)) /\ Len(ring[c]) <= RingBlocks
    /\ tick \in 0 .. MaxTicks
    /\ saves \in 0 .. MaxSaves

----------------------------------------------------------------------------
(* A device that plays through itself has a client; any other plays through an      *)
(* earlier one that does and was found on the same endpoint: never through a device *)
(* that failed, is aliased itself, or is not open. A client without a route is one  *)
(* of a device that failed to start.                                                *)
RoutesSound ==
    \A f \in Flow, d \in Devices :
        /\ route[f][d] = d => client[f][d] # NoClient /\ d \notin failed[f]
        /\ client[f][d] # NoClient => client[f][d].on # NoId /\ (route[f][d] = d \/ d \in failed[f])
        /\ route[f][d] # NoRoute =>
            LET p == route[f][d]
            IN  /\ p <= d /\ route[f][p] = p
                /\ p # d => resolved[f][p] = resolved[f][d] /\ resolved[f][d] # NoId

\* The Windows default changed, or was not found, between the look for twins and the opening.
DefaultMoved(f) == \E d \in Devices : client[f][d] # NoClient /\ resolved[f][d] # client[f][d].on

(* No endpoint is opened by two devices of one direction, unless the first failed   *)
(* to start; a device listed by an ID plays on the endpoint of that ID, and its own *)
(* client shares the endpoint only if its entry lets it and takes it only if its    *)
(* entry does not say shared; as long as the Windows default answers the same to    *)
(* both looks.                                                                      *)
OpenedAsAsked ==
    \A f \in Flow : ~DefaultMoved(f) =>
        /\ \A d, e \in Devices :
              client[f][d] # NoClient /\ client[f][d].on = client[f][e].on /\ d < e => d \in failed[f]
        /\ \A d \in Devices : route[f][d] # NoRoute =>
              /\ asked[f][d].id # NoId => client[f][route[f][d]].on = asked[f][d].id
              /\ route[f][d] = d => asked[f][d].mode # IF client[f][d].shared THEN "exclusive" ELSE "shared"

(* A row of a running Worker has no device only because its opening failed or the   *)
(* list has no entry for it, unless a Save came after the devices were counted.     *)
Accounted ==
    phase = "running" /\ ~saved =>
        \A f \in Flow : \A d \in HwDevicesOf(IF f = "render" THEN table.out ELSE table.in) :
            route[f][d] # NoRoute \/ d \in failed[f] \/ ~Listed(f, d)

(* A driverless cable's ring holds blocks between ticks only if no row reads it:    *)
(* what a row records from it is not late. A Save may add such a row to a full ring.*)
RingOnTime == ~saved => \A c \in Cables : ring[c] = <<>> \/ ~AnyIn(c)

(* Behind them: a device whose turn has not come is blank, every used one before    *)
(* the next was opened, aliased or failed, by the list's ID where it has one; what   *)
(* is used stays what the rows use until a Save; no ring outlives its Worker.        *)
Blank(f, d) == route[f][d] = NoRoute /\ client[f][d] = NoClient /\ d \notin failed[f]

TurnsTaken ==
    /\ phase \in {"gone", "counted"} => next = 0
    /\ phase = "running" => next = 2 * NDevices
    /\ \A f \in Flow, d \in Devices :
        IF d \in used[f] /\ Listed(f, d) /\ Turn(f, d) < next
        THEN /\ route[f][d] # NoRoute \/ d \in failed[f]
             /\ asked[f][d].id # NoId => resolved[f][d] = asked[f][d].id
        ELSE Blank(f, d)

UsedKept == phase # "gone" /\ ~saved => used = Used

RingsOfWorker == phase # "running" => \A c \in Cables : ring[c] = <<>>

\* What holds of the Worker's devices and cables at every step, whatever fails.
IInv == TypeOK /\ RoutesSound /\ TurnsTaken /\ UsedKept /\ RingsOfWorker /\ RingOnTime

(* A tick leaves an IN row alone only if it has no source, no HW input is open at   *)
(* all, or nothing is in its driverless cable. Every other row gets its own         *)
(* source's audio of this tick, or silence; another source's, and older audio, only *)
(* from the ring of a cable while a Save has changed rows. A HW row takes or plays  *)
(* its own channel, on the endpoint the ID of its device names.                     *)
LeftAlone(i) ==
    LET s == table.in[i]
    IN  \/ s.type = "none"
        \/ s.type = "hw" /\ ~AnyInput
        \/ s.type = "virtual" /\ s.of >= driver /\ s.ch < CableChannels[s.of] /\ ~AnyOut(s.of) /\ ring[s.of] = <<>>

\* Device d of its list is asked for endpoint e: by ID, or as the Windows default.
AskedOn(f, d, e) == asked[f][d].id \in {NoId, e} \/ DefaultMoved(f)

OwnSources(i) ==
    LET s == table.in[i]
    IN  IF s.type = "hw" THEN {Record(e, s.ch) : e \in {x \in Endpoints : AskedOn("capture", s.of, x)}}
        ELSE {Play(s.of, s.ch)} \cup
             {Out(o) : o \in {x \in OutRows : saved \/ (x \in OnCable(table.out, s.of) /\ table.out[x].ch = s.ch)}}

HeardWhereAsked(sent) ==
    \A x \in sent :
        LET s == table.out[x[1]]
        IN  /\ s.type = "hw" /\ s.ch = x[3]
            /\ AskedOn("render", s.of, x[2])

OwnAudio == [][tick' # tick =>
  /\ HeardWhereAsked(heard')
  /\ \A i \in InRows :
        IF LeftAlone(i) THEN in'[i] = in[i]
        ELSE /\ in'[i].from \subseteq OwnSources(i)
             /\ in'[i] = Silence \/ in'[i].at = tick' \/ (saved /\ table.in[i].type = "virtual")]_vars

=============================================================================
