------------------------------- MODULE OldSlots -------------------------------
(***************************************************************************)
(* slots.json, the one file earlier versions saved the Slot Table in.  It  *)
(* is read while neither routes.yml nor settings.yml exists, and imported. *)
(*                                                                         *)
(* A JSON object is a record whose fields are the keys the text has, an    *)
(* array a sequence: what tells files apart is which keys there are, how   *)
(* long the lists are and the values, not how a number is spelled.  A key  *)
(* that no definition here reads stands for those the model leaves out.    *)
(***************************************************************************)
EXTENDS SlotTable, Sequences

\* A cable has the two sides it had before it had formats (kVirtualCableChannels is 8).
ASSUME SidesAssumption == CableChannels \in Nat /\ CableChannels >= 2

Directions == {"in", "out"}

SlotKeys    == {"type", "srcChannel", "streamId", "name", "enabled", "loopback"}
StreamKeys  == {"ip", "port", "codec", "quality", "channels"}
TopKeys     == {"version", "masterInCount", "masterIn", "masterOutCount", "masterOut",
                "general", "netTx", "netRx"}
GeneralKeys == {"asioBuffer", "buffers", "virtualName"}
LaterKeys   == {"hwCapture", "hwRender", "hwCaptureModes", "hwRenderModes", "cables"}

\* The keys of a direction.
Count(f, dir)   == IF dir = "in" THEN f.masterInCount ELSE f.masterOutCount
List(f, dir)    == IF dir = "in" THEN f.masterIn ELSE f.masterOut
Net(f, dir)     == IF dir = "in" THEN f.netRx ELSE f.netTx
IdsKey(dir)     == IF dir = "in" THEN "hwCapture" ELSE "hwRender"
ModesKey(dir)   == IF dir = "in" THEN "hwCaptureModes" ELSE "hwRenderModes"

-----------------------------------------------------------------------------
(***************************************************************************)
(* Which files are read.                                                   *)
(***************************************************************************)

\* A slot has each of its keys, and no other.
ParseSlot(o) == DOMAIN o = SlotKeys

ParseNetworkStream(o) == DOMAIN o = StreamKeys

\* The slots are as many as the count beside them says.
ParseList(f, dir) ==
  /\ Len(List(f, dir)) = Count(f, dir) /\ Count(f, dir) <= kMax
  /\ \A i \in DOMAIN List(f, dir) : ParseSlot(List(f, dir)[i])

\* Lists that later versions added may be left out.  A list of the cables has
\* those of the version that wrote it.
ParseGeneral(g) ==
  /\ GeneralKeys \subseteq DOMAIN g /\ DOMAIN g \subseteq GeneralKeys \cup LaterKeys
  /\ \A k \in DOMAIN g \ GeneralKeys :
       Len(g[k]) \in IF k = "cables" THEN {FirstCables, VirtualSlotCables} ELSE 0..HwDevices

ParseStreams(f, dir) ==
  /\ Len(Net(f, dir)) = NetStreams
  /\ \A n \in DOMAIN Net(f, dir) : ParseNetworkStream(Net(f, dir)[n])

Parses(f) ==
  /\ DOMAIN f = TopKeys
  /\ ParseGeneral(f.general)
  /\ \A dir \in Directions : ParseList(f, dir) /\ ParseStreams(f, dir)

-----------------------------------------------------------------------------
(***************************************************************************)
(* What they are read as.                                                  *)
(***************************************************************************)

\* A place of a list some files end before, or do not have.
PlaceOf(g, k, n, default) == IF k \in DOMAIN g /\ n < Len(g[k]) THEN g[k][n + 1] ELSE default

\* Before cables had formats they were stereo: a source was cable * 2 + side.
Converted(f, o) ==
  IF o.type = "virtual" /\ "cables" \notin DOMAIN f.general
  THEN (o.srcChannel \div 2) * CableChannels + (o.srcChannel % 2)
  ELSE o.srcChannel

ReadSlot(f, o) ==
  [type |-> o.type, src |-> Converted(f, o), stream |-> o.streamId, loopback |-> o.loopback]

\* The table of one direction a file that parses holds.
OldTable(f, dir) ==
  LET g == f.general IN
  [count  |-> Count(f, dir),
   slot   |-> [i \in Index |-> IF i <= Count(f, dir) THEN ReadSlot(f, List(f, dir)[i]) ELSE NoSlot],
   id     |-> [d \in Devices |-> PlaceOf(g, IdsKey(dir), d, Default)],
   mode   |-> [d \in Devices |-> PlaceOf(g, ModesKey(dir), d, "exclusive")],
   cable  |-> [c \in Cables |-> PlaceOf(g, "cables", c, FirstFormat)],
   net    |-> [n \in Streams |-> [codec |-> Net(f, dir)[n + 1].codec, channels |-> Net(f, dir)[n + 1].channels]],
   buffer |-> g.buffers,
   clock  |-> g.asioBuffer]

\* A file is read if it parses and what it holds is valid both ways.
DeserializeSlots(f) == Parses(f) /\ \A dir \in Directions : ValidateSlots(OldTable(f, dir))
=============================================================================
