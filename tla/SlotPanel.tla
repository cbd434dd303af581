------------------------------- MODULE SlotPanel -------------------------------
(***************************************************************************)
(* The Control Panel's life around the Slot Table: the panel edits a copy, *)
(* a Save puts the copy in the table, makes the text of two files from the *)
(* table, and writes them one after the other, either of which may fail;   *)
(* the Master may end at any moment; its next start reads the files unless *)
(* a Bridge app still held the table.  At any of these steps the DAW may   *)
(* set the Master Clock's rate in the table.                               *)
(*                                                                         *)
(* The two directions share the code and the files and touch nothing of    *)
(* each other, so one of them is looked at ("side").  Files a user picks   *)
(* to import are the saved ones: others come from an Export of some table. *)
(***************************************************************************)
EXTENDS OldSlots

CONSTANTS
  FirstClock, \* the Master Clock of a new table
  None,       \* no panel, no file
  OldFiles,   \* what a slots.json may hold
  FirstTable, \* a table saved before the Master first starts
  MaxWork     \* edits, Saves, restarts and rate changes of a behavior: a bound

VARIABLES
  side,     \* the direction
  json,     \* slots.json: read, never written
  table,    \* the Slot Table
  edit,     \* the panel's copy, None while no panel is open
  saving,   \* what the Save under way still has to do
  text,     \* the table its text was made of, None before and after
  routes,   \* routes.yml, None when there is none
  settings, \* settings.yml
  saved,    \* history: the copy the last Save put in the table
  rate,     \* history: the clock of the table its text was made of
  failed,   \* history: a write of the last Save failed, or the Master ended in it
  work,     \* history: edits, Saves, restarts and rate changes so far
  last      \* history: the kind of the last of them

vars == <<side, json, table, edit, saving, text, routes, settings, saved, rate, failed, work, last>>
fileVars == <<saving, text, routes, settings, saved, rate, failed>>

ASSUME PanelAssumption ==
  /\ FirstClock \in Clocks /\ MaxWork \in Nat
  /\ None \notin Table
  /\ FirstTable \in Table /\ ValidateSlots(FirstTable)
  /\ None \notin OldFiles
  /\ \A f \in OldFiles : Parses(f) => \A dir \in Directions :
       /\ OldTable(f, dir) \in Table
       /\ \A i \in DOMAIN List(f, dir) : List(f, dir)[i].srcChannel \in Nat

Kinds == {"none", "row", "settings", "whole", "save", "restart", "rate"}

\* The parts of a table a file holds.
Routes(t)   == [count |-> t.count, slot |-> t.slot]
Settings(t) == [id |-> t.id, mode |-> t.mode, cable |-> t.cable, net |-> t.net,
                buffer |-> t.buffer, clock |-> t.clock]

\* The settings file of a version with fewer cables.
Earlier(s) == [s EXCEPT !.cable = [c \in Cables \cap 0..(FirstCables - 1) |-> s.cable[c]]]

WithRoutes(t, r)   == [t EXCEPT !.count = r.count, !.slot = r.slot]

\* What a settings file leaves out gets its default, but for the cables from
\* FirstCables on: those keep what the table had.
WithSettings(t, s) ==
  [t EXCEPT !.id = s.id, !.mode = s.mode, !.net = s.net, !.buffer = s.buffer, !.clock = s.clock,
            !.cable = [c \in Cables |-> IF c \in DOMAIN s.cable THEN s.cable[c]
                                         ELSE IF c < FirstCables THEN FirstFormat
                                         ELSE t.cable[c]]]

RoutesPart   == [count : Index, slot : [Index -> Slot]]
SettingsPart == [id : [Devices -> Endpoints \cup {Default}], mode : [Devices -> Modes],
                 cable : UNION {[C -> CableFormats] : C \in SUBSET Cables},
                 net : [Streams -> Stream], buffer : [Things -> Nat], clock : Clocks]

ASSUME PartsAssumption == None \notin RoutesPart \cup SettingsPart

Open == edit # None
Idle == saving = {}

TypeOK ==
  /\ side \in Directions /\ json \in OldFiles \cup {None}
  /\ table \in Table /\ edit \in Table \cup {None}
  /\ saving \in {{}, {"settings"}, {"routes", "settings"}, {"text", "routes", "settings"}}
  /\ text \in Table \cup {None}
  /\ routes \in RoutesPart \cup {None} /\ settings \in SettingsPart \cup {None}
  /\ saved \in Table \cup {None} /\ rate \in Clocks /\ failed \in BOOLEAN
  /\ work \in 0..MaxWork /\ last \in Kinds

\* What the first process to map the table finds: a part without a file has
\* its defaults; slots.json counts while there is neither of the two.
LoadConfigFiles ==
  LET t == DefaultTable(FirstClock)
      r == IF routes = None THEN t ELSE WithRoutes(t, routes)
  IN IF settings = None THEN r ELSE WithSettings(r, settings)

Loaded ==
  IF routes = None /\ settings = None /\ json # None
  THEN IF DeserializeSlots(json) THEN OldTable(json, side) ELSE DefaultTable(FirstClock)
  ELSE IF ValidateSlots(LoadConfigFiles) THEN LoadConfigFiles ELSE DefaultTable(FirstClock)

\* The first start, with or without files of an earlier version.
Init ==
  /\ side \in Directions
  /\ \/ routes = None /\ settings = None /\ json \in OldFiles \cup {None}
     \/ /\ routes = Routes(FirstTable) /\ settings = Earlier(Settings(FirstTable))
        /\ json = None
  /\ table = Loaded /\ edit = None
  /\ saving = {} /\ text = None /\ saved = None /\ rate = FirstClock /\ failed = FALSE
  /\ work = 0 /\ last = "none"

-----------------------------------------------------------------------------
(***************************************************************************)
(* The panel's edits.  An edit is one frame of the panel's thread.         *)
(***************************************************************************)
Work(kind) == work < MaxWork /\ work' = work + 1 /\ last' = kind

Edit(kind, t) ==
  /\ Open /\ Idle /\ Work(kind)
  /\ edit' = t
  /\ UNCHANGED <<side, json, table>> /\ UNCHANGED fileVars

\* Add, Insert Empty Above and Insert Empty Below.
InsertRow(i) == Open /\ edit.count < kMax /\ i \in 1..(edit.count + 1) /\ Edit("row", Inserted(edit, i, NoSlot))

DuplicateRow(i) == Open /\ edit.count < kMax /\ i \in Rows(edit) /\ Edit("row", Inserted(edit, i + 1, edit.slot[i]))

DeleteRow(i) == Open /\ edit.count > 1 /\ i \in Rows(edit) /\ Edit("row", Deleted(edit, i))

MoveRow(i, j) == Open /\ i \in Rows(edit) /\ j \in Rows(edit) \ {i} /\ Edit("row", Moved(edit, i, j))

\* The Loop box of a row, drawn for Virtual Cable rows.
SetLoopback(i) ==
  /\ Open /\ i \in Rows(edit) /\ edit.slot[i].type = "virtual"
  /\ Edit("row", [edit EXCEPT !.slot[i].loopback = ~@])

AssignSource(i, type, src, stream) ==
  /\ Open /\ type # "hw" /\ MayAssign(edit, i, type, src, stream)
  /\ type \in Bridges => CanAssignBridge(edit, side, i, type, src)
  /\ Edit("row", Assigned(edit, i, type, src, stream))

AssignHw(i, id, src) ==
  /\ Open /\ i \in Rows(edit) /\ src < HwChannels
  /\ \E d \in Devices : PlaceFor(edit, i, id, d) /\ Edit("row", HwAssigned(edit, i, id, src, d))

\* The Source menu of a row: what it offers of each kind.  A cable has the
\* channels of its format, a stream those of its row in NETWORK.
SourceMenu(i) ==
  \/ AssignSource(i, "none", 0, 0)
  \/ \E id \in Endpoints \cup {Default}, src \in 0..(HwChannels - 1) : AssignHw(i, id, src)
  \/ \E c \in Cables, ch \in 0..(CableChannels - 1) :
       Open /\ ch < edit.cable[c].channels /\ AssignSource(i, "virtual", c * CableChannels + ch, 0)
  \/ \E n \in Streams, ch \in 0..(VorbisChannels - 1) :
       Open /\ ch < edit.net[n].channels /\ AssignSource(i, "network", ch, n)
  \/ \E b \in Bridges, ch \in 0..(BridgeChannels - 1) : AssignSource(i, b, ch, 0)

\* The INPUTS or OUTPUTS tab.
RowEdit ==
  /\ Open /\ work < MaxWork
  /\ \/ \E i \in 1..(kMax + 1) : InsertRow(i)
     \/ \E i \in Index : DuplicateRow(i) \/ DeleteRow(i) \/ SetLoopback(i) \/ SourceMenu(i)
     \/ \E i, j \in Index : MoveRow(i, j)

SetHwDevice(d, id) ==
  /\ Open /\ Listed(edit, d) /\ edit.id[d] # id /\ MaySetDevice(edit, d, id)
  /\ Edit("settings", DeviceSet(edit, d, id))

AddHwDevice(d, id) ==
  /\ Open /\ Places(edit, id) = {} /\ IsFree(edit, d)
  /\ Edit("settings", DeviceSet(edit, d, id))

RemoveHwDevice(d) == Open /\ d # 0 /\ Listed(edit, d) /\ Edit("settings", DeviceRemoved(edit, d))

SetHwMode(d, m) == Open /\ Listed(edit, d) /\ edit.mode[d] # m /\ Edit("settings", [edit EXCEPT !.mode[d] = m])

\* A codec with fewer channels cuts the count.
SetCodec(n, c) ==
  /\ Open /\ edit.net[n].codec # c
  /\ Edit("settings", [edit EXCEPT !.net[n] =
            [codec |-> c, channels |-> IF @.channels \in ChannelsOf(c) THEN @.channels ELSE PcmChannels]])

SetChannels(n, k) ==
  /\ Open /\ edit.net[n].channels # k /\ k \in ChannelsOf(edit.net[n].codec)
  /\ Edit("settings", [edit EXCEPT !.net[n].channels = k])

SetMasterClock(c) == Open /\ edit.clock # c /\ Edit("settings", [edit EXCEPT !.clock = c])

\* A row of the NETWORK tab.
DrawNetworkStreams ==
  \/ \E n \in Streams, c \in Codecs : SetCodec(n, c)
  \/ \E n \in Streams, k \in 1..VorbisChannels : SetChannels(n, k)

\* The setting of a cable, valid by the lists its combos show.
SetCable(c, f) == Open /\ edit.cable[c] # f /\ Edit("settings", [edit EXCEPT !.cable[c] = f])

DrawCableFormats == \E c \in Cables, f \in CableFormats : SetCable(c, f)

\* Only the hardware has an automatic buffer, 0.
SetBuffer(x, n) ==
  /\ Open /\ edit.buffer[x] # n
  /\ Edit("settings", [edit EXCEPT !.buffer[x] = n])

\* The GENERAL and NETWORK tabs.
SettingsEdit ==
  /\ Open /\ work < MaxWork
  /\ \/ \E d \in Devices, id \in Endpoints : SetHwDevice(d, id) \/ AddHwDevice(d, id)
     \/ SetHwDevice(0, Default)
     \/ \E d \in Devices, m \in Modes : RemoveHwDevice(d) \/ SetHwMode(d, m)
     \/ DrawNetworkStreams \/ DrawCableFormats
     \/ \E c \in Clocks : SetMasterClock(c)
     \/ \E x \in Things, n \in Frames : SetBuffer(x, n)
     \/ SetBuffer("hw", 0)

ResetToDefault == Open /\ Edit("whole", DefaultTable(FirstClock))

\* Import takes the parts its file holds; the whole must be valid, or nothing changes.
Import(t) == Open /\ ValidateSlots(t) /\ Edit("whole", t)
ImportConfig ==
  \/ Open /\ routes # None /\ Import(WithRoutes(edit, routes))
  \/ Open /\ settings # None /\ Import(WithSettings(edit, settings))
  \/ Open /\ routes # None /\ settings # None /\ Import(WithSettings(WithRoutes(edit, routes), settings))
  \/ json # None /\ DeserializeSlots(json) /\ Import(OldTable(json, side))

-----------------------------------------------------------------------------
(***************************************************************************)
(* The panel's window and its Save.                                        *)
(***************************************************************************)
OpenPanel ==
  /\ ~Open
  /\ edit' = table
  /\ UNCHANGED <<side, json, table, work, last>> /\ UNCHANGED fileVars

Revert ==
  /\ Open /\ Idle
  /\ edit' = table
  /\ UNCHANGED <<side, json, table, work, last>> /\ UNCHANGED fileVars

\* Closing saves first when the user asks for it: a Save, then this.
ClosePanel ==
  /\ Open /\ Idle
  /\ edit' = None
  /\ UNCHANGED <<side, json, table, work, last>> /\ UNCHANGED fileVars

\* SavePanel: the copy becomes the table ...
SavePanel ==
  /\ Open /\ Idle /\ ValidateSlots(edit) /\ Work("save")
  /\ table' = edit /\ saved' = edit /\ rate' = edit.clock
  /\ saving' = {"text", "routes", "settings"} /\ failed' = FALSE
  /\ UNCHANGED <<side, json, edit, text, routes, settings>>

\* ... and the files' text is made, from the table and not from the copy.  Of
\* the table only the clock may change meanwhile, which is in one of the texts.
MakeText ==
  /\ "text" \in saving
  /\ saving' = {"routes", "settings"} /\ text' = table
  /\ UNCHANGED <<side, json, table, edit, routes, settings, saved, rate, failed, work, last>>

\* A file takes its place whole or stays as it was: it is written beside it first.
WriteRoutes(ok) ==
  /\ routes' = IF ok THEN Routes(text) ELSE routes
  /\ UNCHANGED <<text, settings>>

\* The settings as the table has them when the file is written.
FaultyWriteSettings(ok) ==
  /\ settings' = IF ok THEN Settings(table) ELSE settings
  /\ text' = None
  /\ UNCHANGED routes

WriteSettings(ok) ==
  /\ settings' = IF ok THEN Settings(text) ELSE settings
  /\ text' = None
  /\ UNCHANGED routes

\* The routes go first, then the settings.
WriteFile(ok) ==
  /\ text # None /\ failed' = (failed \/ ~ok)
  /\ IF "routes" \in saving THEN saving' = {"settings"} /\ WriteRoutes(ok)
                            ELSE saving' = {} /\ WriteSettings(ok)
  /\ UNCHANGED <<side, json, table, edit, saved, rate, work, last>>

\* The DAW picks another rate: the table's clock, for this session.
SetSampleRate(c) ==
  /\ c # table.clock /\ Work("rate")
  /\ table' = [table EXCEPT !.clock = c]
  /\ rate' = IF "text" \in saving THEN c ELSE rate
  /\ UNCHANGED <<side, json, edit, saving, text, routes, settings, saved, failed>>

\* The Master's process ends, in a Save or not, and another begins.  A Bridge
\* app may keep the table meanwhile.
Restart ==
  /\ Work("restart")
  /\ edit' = None
  /\ saving' = {} /\ text' = None /\ failed' = (failed \/ ~Idle)
  /\ table' \in {Loaded, table}
  /\ UNCHANGED <<side, json, routes, settings, saved, rate>>

\* A frame of the open panel: an edit on the tab that shows, or a button.
DrawControlPanel ==
  RowEdit \/ SettingsEdit \/ ResetToDefault \/ ImportConfig \/ Revert \/ ClosePanel \/ SavePanel

Next ==
  \/ OpenPanel \/ DrawControlPanel \/ MakeText
  \/ \E ok \in BOOLEAN : WriteFile(ok)
  \/ \E c \in Clocks : SetSampleRate(c)
  \/ Restart

Spec == Init /\ [][Next]_vars

-----------------------------------------------------------------------------
(***************************************************************************)
(* What the panel keeps.                                                   *)
(***************************************************************************)

\* A Save is never rejected: whatever edits, imports and restarts came before,
\* the panel's copy and the table are valid.  An edit leaves no loopback on a
\* row that is no cable, no stream of another type on a network row, no count
\* of channels of another codec (SetInputType, SavePanel, LoadConfigFiles).
Savable == ValidateSlots(table) /\ (Open => ValidateSlots(edit))

\* A table, and what each file has of one, whose rows and streams are valid.
Good(t) == t \in Table /\ ValidateSlots(t)
GoodRoutes(r) == r \in RoutesPart /\ \A i \in Index : i <= r.count => IsValidSlot(r.slot[i])
GoodSettings(s) ==
  /\ s \in SettingsPart
  /\ \A b \in Bridges : s.buffer[b] \in Frames
  /\ \A n \in Streams : s.net[n].channels \in ChannelsOf(s.net[n].codec)

\* Inductive: a file keeps what was valid when it was written, so that parts put
\* together by a load or an import are (LoadConfigFiles, ImportConfig).
IInv ==
  /\ TypeOK
  /\ Good(table)
  /\ Open => Good(edit)
  /\ routes # None => GoodRoutes(routes)
  /\ settings # None => GoodSettings(settings)
  /\ saved # None => Good(saved)
  /\ text # None => Good(text)
  /\ text # None <=> saving \in {{"settings"}, {"routes", "settings"}}
  /\ ~Idle => saved # None

\* No endpoint is in two places of a device list, and a place without a device
\* has the mode a device added there starts with (SetHwDevice, RemoveHwDevice).
Apart(t) ==
  /\ \A d, e \in Devices : Listed(t, d) /\ Listed(t, e) /\ t.id[d] = t.id[e] => d = e
  /\ \A d \in Devices : ~Listed(t, d) => t.mode[d] = "exclusive"

DevicesApart == \A t \in {table, edit} \ {None} : Apart(t)

\* The files of earlier versions have their devices apart: none but the panel's
\* own edits wrote them, and a load checks no device list.
FilesApart ==
  /\ Apart(FirstTable)
  /\ \A f \in OldFiles, dir \in Directions : DeserializeSlots(f) => Apart(OldTable(f, dir))

\* Invariant with IInv if FilesApart: a file that was saved has them apart too.
ApartInv ==
  /\ DevicesApart
  /\ settings # None => Apart(settings)
  /\ text # None => Apart(text)

Did(kind) == last' = kind /\ work' = work + 1

\* What a row carries: its slot, and the endpoint behind a HW source.
Means(t, i) == [slot |-> t.slot[i],
                endpoint |-> IF t.slot[i].type = "hw" THEN {t.id[DeviceOf(t.slot[i])]} ELSE {}]

\* A HW row whose device is not in the list: an import or a load of one part
\* may leave one.  The next device added in that place becomes its device.
Orphan(t, i) == t.slot[i].type = "hw" /\ ~Listed(t, DeviceOf(t.slot[i]))

Kept(t, u, i, j) == Orphan(t, i) \/ Means(t, i) = Means(u, j)

OneChanged(t, u) ==
  u.count = t.count /\ \E i \in Rows(t) : \A j \in Rows(t) \ {i} : Kept(t, u, j, j)
OneIn(t, u) ==
  u.count = t.count + 1
    /\ \E i \in Rows(u) : \A j \in Rows(t) : Kept(t, u, j, IF j < i THEN j ELSE j + 1)
OneOut(t, u) ==
  t.count = u.count + 1
    /\ \E i \in Rows(t) : \A j \in Rows(t) \ {i} : Kept(t, u, j, IF j < i THEN j ELSE j - 1)
OneMoved(t, u) ==
  u.count = t.count /\ \E i, k \in Rows(t) :
    /\ Kept(t, u, i, k)
    /\ \A j \in Rows(t) \ {i} :
         LET r == IF j < i THEN j ELSE j - 1 IN Kept(t, u, j, IF r < k THEN r ELSE r + 1)

\* An edit of a row changes that row alone: the others keep their order, their
\* sources and the endpoints they play, also when the edit switches place 0 to
\* another endpoint or takes a free place (InsertEmptyAbove, MoveInput, AssignHw).
RowsKept ==
  [][Did("row") => \/ OneChanged(edit, edit') \/ OneIn(edit, edit')
                    \/ OneOut(edit, edit') \/ OneMoved(edit, edit')]_vars

\* An edit of the settings touches the HW rows of at most one device, and no
\* edit but an import leaves a HW row whose device is not listed, unless it was
\* there before (RemoveHwDevice, AssignHw, AddHwDevice).
DevicesKept ==
  [][/\ Did("settings") =>
          \E d \in Devices : \A i \in Rows(edit) : i \in Users(edit, d) \/ Kept(edit, edit', i, i)
     /\ Did("row") \/ Did("settings") =>
          \A i \in Rows(edit') : Orphan(edit', i) =>
            \E j \in Rows(edit) : Orphan(edit, j) /\ edit.slot[j] = edit'.slot[i]]_vars

\* The last Save's table: its copy, with the rate a DAW set in the table before
\* the text was made of it, if one did.
SavedTable == [saved EXCEPT !.clock = rate]

\* Between Saves, a start of the Master finds what the last Save put in the
\* table, if both its files were written: the two files are of one table, and
\* of it a rate the DAW set has changed the clock alone, and only between the
\* copy and its text; one set later is gone (SavePanel, CommitPanelSave,
\* LoadConfigFiles).  Until a Save writes a file,
\* every start plays the rows of an old slots.json from the cables, and their
\* sides, that they named in the version that wrote it (DeserializeSlots).
SavedReloads == Idle /\ ~failed /\ saved # None => Loaded = SavedTable

ReloadsSaved ==
  /\ SavedReloads
  /\ routes = None /\ settings = None /\ json # None /\ DeserializeSlots(json) =>
       \A i \in Rows(Loaded) : Loaded.slot[i].type = "virtual" =>
         LET was  == List(json, side)[i].srcChannel
             is   == Loaded.slot[i].src
             wide == IF "cables" \in DOMAIN json.general THEN CableChannels ELSE 2
         IN is \div CableChannels = was \div wide /\ is % CableChannels = was % wide

\* What is written of the last Save is in its file, unless a write failed.
\* Invariant with IInv.
WrittenInv ==
  ~failed /\ saved # None =>
    /\ "text" \in saving => table = SavedTable
    /\ text # None => text = SavedTable
    /\ saving \cap {"text", "routes"} = {} => routes = Routes(SavedTable)
    /\ Idle => settings = Settings(SavedTable)

=============================================================================
