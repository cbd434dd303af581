----------------------------- MODULE HwDevices -----------------------------
(* The HW devices of a Master (MasterHolder::openHw, closeHw and KsEndpoint,     *)
(* KsAudio, KsCapture): which devices the rows of the Slot Table use, which      *)
(* endpoint each is opened on, and through which open device a device listed     *)
(* twice plays.                                                                  *)
(*                                                                               *)
(* The Worker opens the devices at its start, one after the other, from a        *)
(* snapshot of the list; the table may be saved meanwhile. An entry without an   *)
(* ID is the Windows default, which the Worker looks up twice, to find devices   *)
(* listed twice and to open it: Windows may answer differently, or not at all.   *)
(*                                                                               *)
(* A client takes its endpoint for itself (exclusive mode) or shares it through  *)
(* the Windows mixer; Windows refuses what does not go with a client that is     *)
(* open already, the Master's own ones included.                                 *)
EXTENDS Integers, FiniteSets

CONSTANTS
    NDevices,   \* places of each device list (kHwDevices)
    Endpoints,  \* endpoints of Windows
    NoId,       \* no endpoint: an empty ID, nothing found, nothing open
    HwMax,      \* most channels of a device (kHwMaxChannels)
    DeviceChannels, \* endpoint -> channels of its Windows device format
    MixChannels,    \* endpoint -> channels of the Windows mixer
    Entries,    \* what a place of a list may hold
    OutRows, InRows,  \* numbers of the table's rows
    Sources,    \* what a row may be assigned to, see SlotRouting
    FirstTables \* tables a Master may start with

ASSUME DevicesAssumption ==
    /\ NDevices \in Nat \ {0}
    /\ NoId \notin Endpoints
    /\ HwMax \in Nat \ {0, 1}
    /\ DeviceChannels \in [Endpoints -> Nat \ {0}] /\ MixChannels \in [Endpoints -> Nat]
    /\ Entries \subseteq [id : Endpoints \cup {NoId}, mode : {"exclusive", "shared", "auto"}]
    /\ OutRows \subseteq Nat /\ InRows \subseteq Nat

Devices == 0 .. NDevices - 1
Flow == {"render", "capture"}
Names == Endpoints \cup {NoId}
NoRoute == -1

Tables == [ids: [Flow -> [Devices -> Entries]], out: [OutRows -> Sources], in: [InRows -> Sources]]

VARIABLES
    table,     \* the Slot Table, saved at any time
    saved,     \* a Save came since the Worker counted its devices
    phase,     \* the Worker: "gone", "counted", "opening" or "running"
    used,      \* per flow: the devices it will open
    asked,     \* per flow: the list it opens them by
    next,      \* the device it opens next: outputs, then inputs
    resolved,  \* per flow and device: the endpoint its ID stood for
    route,     \* per flow and device: the open device it plays through
    client,    \* per flow and device: its own client
    failed     \* per flow: the devices whose opening failed

devices == <<saved, phase, used, asked, next, resolved, route, client, failed>>

Unlisted == [id |-> NoId, mode |-> "exclusive"]
NoClient == [on |-> NoId, shared |-> FALSE, width |-> 0]

PerDevice(v) == [f \in Flow |-> [d \in Devices |-> v]]

\* The devices the rows of a list use.
HwDevicesOf(rows) == {s.of : s \in {rows[i] : i \in {j \in DOMAIN rows : rows[j].type = "hw"}}}

\* An index without an ID is not in the list; the first is the Windows default then.
Listed(f, d) == d = 0 \/ asked[f][d].id # NoId

DevicesInit ==
    /\ saved = FALSE
    /\ phase = "gone"
    /\ used = [f \in Flow |-> {}]
    /\ asked = PerDevice(Unlisted)
    /\ next = 0
    /\ resolved = PerDevice(NoId)
    /\ route = PerDevice(NoRoute)
    /\ client = PerDevice(NoClient)
    /\ failed = [f \in Flow |-> {}]

(* openHw counts what the rows use: output 0 too as soon as there is any HW row, *)
(* for it paces the Master Clock.                                                *)
Used ==
    LET outs == HwDevicesOf(table.out)
        ins == HwDevicesOf(table.in)
    IN  [f \in Flow |-> IF f = "capture" THEN ins
                        ELSE IF outs \cup ins = {} THEN {} ELSE outs \cup {0}]

CountUsed ==
    /\ phase = "gone"
    /\ phase' = "counted"
    /\ used' = Used
    /\ saved' = FALSE
    /\ UNCHANGED <<table, asked, next, resolved, route, client, failed>>

(* ... and copies the lists: a Save may have come in between.                    *)
Snapshot ==
    /\ phase = "counted"
    /\ phase' = "opening"
    /\ asked' = table.ids
    /\ UNCHANGED <<table, saved, used, next, resolved, route, client, failed>>

\* The outputs are opened first, in the list's order, then the inputs.
Turn(f, d) == IF f = "render" THEN d ELSE NDevices + d

Opening(f, d) == phase = "opening" /\ next = Turn(f, d)

Opened ==
    /\ next' = next + 1
    /\ phase' = IF next + 1 = 2 * NDevices THEN "running" ELSE "opening"
    /\ UNCHANGED <<table, saved, used, asked>>

\* Windows' answers for an ID: the ID itself, or for none its default of that moment.
Resolutions(id) == IF id = NoId THEN Names ELSE {id}
Opens(id) == IF id = NoId THEN Endpoints ELSE {id}

SkipDevice(f, d) ==
    /\ Opening(f, d)
    /\ d \notin used[f] \/ ~Listed(f, d)
    /\ Opened
    /\ UNCHANGED <<resolved, route, client, failed>>

\* Mutants: the device before left out; one that failed taken.
FaultyLastTwins(f, d, e) == {j \in 0 .. d - 2 : e # NoId /\ resolved[f][j] = e /\ route[f][j] # NoRoute}
FaultyFailedTwins(f, d, e) == {j \in 0 .. d - 1 : e # NoId /\ resolved[f][j] = e}

\* An earlier device of the list that was found on the same endpoint and is open, or plays through one that is.
Twins(f, d, e) == {j \in 0 .. d - 1 : e # NoId /\ resolved[f][j] = e /\ route[f][j] # NoRoute}

FirstTwin(f, d, e, j) == j \in Twins(f, d, e) /\ \A k \in Twins(f, d, e) : j <= k

\* Windows grants a client where no other is open that wants the endpoint for itself.
Grants(f, e, shared) == \A d \in Devices : client[f][d].on = e => shared /\ client[f][d].shared

\* Exclusive: all the channels the device has, up to HwMax, or stereo if it refuses those.
OpenExclusive(f, e) ==
    IF ~Grants(f, e, FALSE) THEN {}
    ELSE {[on |-> e, shared |-> FALSE, width |-> w] : w \in {IF DeviceChannels[e] > HwMax THEN HwMax ELSE DeviceChannels[e], 2}}

\* Shared: the mixer's channels, or stereo where it has none or too many.
OpenShared(f, e) ==
    IF ~Grants(f, e, TRUE) THEN {}
    ELSE {[on |-> e, shared |-> TRUE, width |-> IF MixChannels[e] \in 1 .. HwMax THEN MixChannels[e] ELSE 2]}

\* The clients a mode may get; automatic falls back to the mixer.
KsOpen(f, e, mode) ==
    (IF mode = "shared" THEN {} ELSE OpenExclusive(f, e))
    \cup (IF mode = "exclusive" THEN {} ELSE OpenShared(f, e))

\* open: a client of the mode asked for, on the endpoint Windows names now.
OpenClient(f, d) ==
    \E x \in Opens(asked[f][d].id) : \E c \in KsOpen(f, x, asked[f][d].mode) :
        client' = [client EXCEPT ![f][d] = c]

Fails(f, d) == failed' = [failed EXCEPT ![f] = @ \cup {d}] /\ UNCHANGED route

\* start: the open client runs, or Windows refuses.
StartClient(f, d) ==
    \/ route' = [route EXCEPT ![f][d] = d] /\ UNCHANGED failed
    \/ Fails(f, d)

(* A used device is resolved; one listed twice plays through the earlier one,    *)
(* any other is opened and started. One that fails to start keeps its client.    *)
OpenDevice(f, d) ==
    /\ Opening(f, d)
    /\ d \in used[f] /\ Listed(f, d)
    /\ \E e \in Resolutions(asked[f][d].id) :
        /\ resolved' = [resolved EXCEPT ![f][d] = e]
        /\ \/ /\ \E j \in Devices :
                    /\ FirstTwin(f, d, e, j)
                    /\ route' = [route EXCEPT ![f][d] = route[f][j]]
              /\ UNCHANGED <<client, failed>>
           \/ /\ Twins(f, d, e) = {}
              /\ OpenClient(f, d)
              /\ StartClient(f, d)
           \/ /\ Twins(f, d, e) = {}
              /\ Fails(f, d)
              /\ UNCHANGED client
    /\ Opened

(* closeHw at the Worker's end; the MasterHolder and what it knew go with it.      *)
CloseDevices ==
    /\ phase = "running"
    /\ phase' = "gone"
    /\ route' = PerDevice(NoRoute)
    /\ client' = PerDevice(NoClient)
    /\ used' = [f \in Flow |-> {}]
    /\ failed' = [f \in Flow |-> {}]
    /\ asked' = PerDevice(Unlisted)
    /\ resolved' = PerDevice(NoId)
    /\ next' = 0
    /\ saved' = FALSE
    /\ UNCHANGED table

DevicesNext ==
    \/ CountUsed
    \/ Snapshot
    \/ \E f \in Flow, d \in Devices : SkipDevice(f, d) \/ OpenDevice(f, d)
    \/ CloseDevices
=============================================================================
