------------------------------- MODULE SlotTable -------------------------------
(***************************************************************************)
(* One direction (INPUTS or OUTPUTS) of the Slot Table, the settings its   *)
(* rows lean on, and the Control Panel's edits of it, as operators.  A     *)
(* list is an array of kMax rows of which the first "count" are in use;    *)
(* rows are counted from 1.                                                *)
(*                                                                         *)
(* Left out: names and the enabled mark, which no guard reads; the jitter  *)
(* times, which are never checked; a stream's address, port and quality.   *)
(***************************************************************************)
EXTENDS Naturals, FiniteSets

CONSTANTS
  kMax,           \* rows of a direction (512)
  HwDevices,      \* device places of a direction (kHwDevices, 128)
  HwChannels,     \* channels of a device (kHwMaxChannels, 64)
  NetStreams,     \* network streams of a direction (8)
  PcmChannels,    \* channels of an uncompressed stream (32)
  VorbisChannels, \* channels of a Vorbis stream (128)
  VirtualSlotCables, \* Virtual Cables (16)
  FirstCables,    \* cables a settings file of an earlier version has (8)
  CableChannels,  \* channels a Virtual Cable has at most (8)
  CableFormats,   \* the valid cable settings: channels and a sample format
  FirstFormat,    \* the setting of a new cable
  Things,         \* what has a buffer of its own: the Bridges, "hw", cables, streams
  Frames,         \* the buffer sizes a combo offers
  FirstBuffer,    \* the buffer sizes of a new table, per thing
  BridgeChannels, \* channels of a Bridge app
  Bridges,        \* the Bridge slot types
  Endpoints,      \* the IDs of Windows' audio endpoints
  Clocks          \* the valid Master Clocks: a rate and a buffer

Default == "" \* in place 0 the Windows default device, elsewhere no device

ASSUME TableAssumption ==
  /\ kMax \in Nat /\ kMax >= 2
  /\ \A n \in {HwDevices, HwChannels, NetStreams, PcmChannels, VirtualSlotCables,
               FirstCables, CableChannels, BridgeChannels} : n \in Nat \ {0}
  /\ VorbisChannels \in Nat /\ VorbisChannels >= PcmChannels /\ PcmChannels >= 2
  /\ Default \notin Endpoints
  /\ Bridges \cap {"none", "hw", "virtual", "network"} = {}
  /\ Bridges \cup {"hw"} \subseteq Things
  /\ FirstFormat \in CableFormats
  /\ \A f \in CableFormats : f.channels \in 1..CableChannels
  /\ Frames \subseteq Nat /\ FirstBuffer \in [Things -> Frames]

Types   == {"none", "hw", "virtual", "network"} \cup Bridges
Modes   == {"exclusive", "shared", "auto"}
Codecs  == {"pcm", "vorbis"}
Devices == 0..(HwDevices - 1)
Streams == 0..(NetStreams - 1)
Cables  == 0..(VirtualSlotCables - 1)
Index   == 1..kMax

Slot   == [type : Types, src : Nat, stream : Nat, loopback : BOOLEAN]
Stream == [codec : Codecs, channels : Nat]
Table  == [count : Index, slot : [Index -> Slot],
           id : [Devices -> Endpoints \cup {Default}], mode : [Devices -> Modes],
           cable : [Cables -> CableFormats], net : [Streams -> Stream],
           buffer : [Things -> Nat], clock : Clocks]

NoSlot == [type |-> "none", src |-> 0, stream |-> 0, loopback |-> FALSE]

Rows(t) == {i \in Index : i <= t.count}

\* The first-run table: one HW row, one empty row, the Windows default device.
DefaultTable(clock) ==
  [count |-> 2,
   slot |-> [i \in Index |-> IF i = 1 THEN [NoSlot EXCEPT !.type = "hw"] ELSE NoSlot],
   id |-> [d \in Devices |-> Default], mode |-> [d \in Devices |-> "exclusive"],
   cable |-> [c \in Cables |-> FirstFormat],
   net |-> [n \in Streams |-> [codec |-> "pcm", channels |-> 2]],
   buffer |-> FirstBuffer, clock |-> clock]

-----------------------------------------------------------------------------
(***************************************************************************)
(* What a table is.                                                        *)
(***************************************************************************)
ChannelsOf(codec) == 1..(IF codec = "vorbis" THEN VorbisChannels ELSE PcmChannels)

\* A source a slot of this type may have.
IsValidSource(type, src, stream) ==
  CASE type = "hw"      -> src < HwChannels /\ stream \in Devices
    [] type = "network" -> src < PcmChannels /\ stream \in Streams
    [] type = "virtual" -> src < CableChannels * VirtualSlotCables
    [] type = "none"    -> src < kMax
    [] OTHER            -> src < BridgeChannels

IsValidSlot(s) ==
  /\ s.type = "network" => s.stream \in Streams
  /\ s.loopback => s.type = "virtual"

\* What a Save asks of a table, and an import of a file.
ValidateSlots(t) ==
  /\ t.count \in Index
  /\ \A i \in Rows(t) : IsValidSlot(t.slot[i])
  /\ \A b \in Bridges : t.buffer[b] \in Frames
  /\ \A n \in Streams : t.net[n].channels \in ChannelsOf(t.net[n].codec)

DeviceOf(s) == IF s.stream \in Devices THEN s.stream ELSE 0
Listed(t, d) == d = 0 \/ t.id[d] # Default
Places(t, id) == {d \in Devices : Listed(t, d) /\ t.id[d] = id}
FaultyUsers(t, d) == {i \in Rows(t) : i < t.count /\ t.slot[i].type = "hw" /\ DeviceOf(t.slot[i]) = d}
Users(t, d) == {i \in Rows(t) : t.slot[i].type = "hw" /\ DeviceOf(t.slot[i]) = d}

-----------------------------------------------------------------------------
(***************************************************************************)
(* Edits of a list.                                                        *)
(***************************************************************************)
\* A row goes in at i: the rows from there on move down by one.
Inserted(t, i, s) ==
  [t EXCEPT !.count = @ + 1,
            !.slot = [k \in Index |-> IF k = i THEN s
                                      ELSE IF i < k /\ k <= t.count + 1 THEN t.slot[k - 1]
                                      ELSE t.slot[k]]]

\* Row i goes: the rows after it move up, and the place they leave is cleared.
Deleted(t, i) ==
  [t EXCEPT !.count = @ - 1,
            !.slot = [k \in Index |-> IF k = t.count THEN NoSlot
                                      ELSE IF i <= k /\ k < t.count THEN t.slot[k + 1]
                                      ELSE t.slot[k]]]

\* Row "from" is dragged onto row "to": those between move by one.
Moved(t, from, to) ==
  [t EXCEPT !.slot = [k \in Index |-> IF k = to THEN t.slot[from]
                                      ELSE IF from <= k /\ k < to THEN t.slot[k + 1]
                                      ELSE IF to < k /\ k <= from THEN t.slot[k - 1]
                                      ELSE t.slot[k]]]

FaultyRetyped(t, s, type) == [s EXCEPT !.type = type]

\* A slot takes a type: its loopback goes unless it is a cable's, and what is
\* not a HW source is made one.
Retyped(t, s, type) ==
  LET loopback == s.loopback /\ type = "virtual" IN
  IF type # "hw" THEN [s EXCEPT !.type = type, !.loopback = loopback]
  ELSE [type |-> type, loopback |-> loopback,
        src |-> IF s.src < HwChannels THEN s.src ELSE 0,
        stream |-> IF s.stream \in Devices /\ Listed(t, s.stream) THEN s.stream ELSE 0]

\* The row's Source menu: a type, and a source of that type.
Assigned(t, i, type, src, stream) ==
  [t EXCEPT !.slot[i] = [Retyped(t, @, type) EXCEPT !.src = src, !.stream = stream]]

MayAssign(t, i, type, src, stream) ==
  /\ i \in Rows(t) /\ IsValidSource(type, src, stream)
  /\ type = "hw" => Listed(t, stream)

-----------------------------------------------------------------------------
(***************************************************************************)
(* Edits of the devices.                                                   *)
(***************************************************************************)
FaultyMaySetDevice(t, d, id) == d > 0 => id # Default

\* A place takes an endpoint no other place has.
MaySetDevice(t, d, id) == /\ d > 0 => id # Default
                          /\ Places(t, id) \subseteq {d}
DeviceSet(t, d, id) == [t EXCEPT !.id[d] = id]

\* The first place without a device takes the endpoint.
IsFree(t, d) == d \in Devices \ {0} /\ ~Listed(t, d) /\ \A e \in Devices : e < d => Listed(t, e)

\* A device goes, with its mode; the rows that used it become empty.
DeviceRemoved(t, d) ==
  [t EXCEPT !.id[d] = Default, !.mode[d] = "exclusive",
            !.slot = [i \in Index |-> IF i \in Users(t, d)
                                      THEN [t.slot[i] EXCEPT !.type = "none", !.src = 0, !.stream = 0]
                                      ELSE t.slot[i]]]

\* Place 0 is free to switch when no HW row but this one uses it.
ZeroFree(t, i) == Users(t, 0) \subseteq {i}

FaultyPlaceFor(t, i, id, d) ==
  IF Places(t, id) # {} THEN d \in Places(t, id) /\ \A e \in Places(t, id) : d <= e
  ELSE d = 0

\* The place an endpoint picked in row i's menu gets: its own, else place 0
\* when that can switch, else a free one.
PlaceFor(t, i, id, d) ==
  IF Places(t, id) # {} THEN d \in Places(t, id) /\ \A e \in Places(t, id) : d <= e
  ELSE IF ZeroFree(t, i) THEN d = 0
  ELSE id # Default /\ IsFree(t, d)

HwAssigned(t, i, id, src, d) == Assigned(DeviceSet(t, d, id), i, "hw", src, d)

\* One row per app channel in OUTPUTS: the menu greys the others'.
CanAssignBridge(t, side, i, type, src) ==
  side = "out" => \A j \in Rows(t) \ {i} : ~(t.slot[j].type = type /\ t.slot[j].src = src)

=============================================================================
