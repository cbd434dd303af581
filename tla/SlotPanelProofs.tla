--------------------------- MODULE SlotPanelProofs ---------------------------
(***************************************************************************)
(* A Save of the Control Panel is never rejected, for tables of any size.  *)
(* Each edit maps a valid table to a valid one; a load and an import put   *)
(* parts together that were valid apart, and validity of a table is        *)
(* validity of its parts. Then: what was saved comes back, the devices of  *)
(* a table stay apart, and an edit leaves the other rows and devices alone.*)
(***************************************************************************)
EXTENDS SlotPanel, Integers, TLAPS

-----------------------------------------------------------------------------
(***************************************************************************)
(* Tables.                                                                 *)
(***************************************************************************)

\* An empty slot is a valid one.
LEMMA NoSlotGood == NoSlot \in Slot /\ IsValidSlot(NoSlot)
  BY DEF NoSlot, Slot, Types, IsValidSlot

\* A list rebuilt from valid slots is a good one.
LEMMA ListGood ==
  ASSUME NEW t, Good(t), NEW n \in Index, NEW slots \in [Index -> Slot],
         \A k \in Index : k <= n => IsValidSlot(slots[k])
  PROVE  Good([t EXCEPT !.count = n, !.slot = slots])
<1> DEFINE u == [t EXCEPT !.count = n, !.slot = slots]
<1>1. t \in Table  BY DEF Good
<1>2. u \in Table  BY <1>1 DEF Table
<1>3. u.net = t.net /\ u.buffer = t.buffer /\ u.count = n /\ u.slot = slots  BY <1>1 DEF Table
<1> HIDE DEF u
<1>4. ValidateSlots(u)  BY <1>3 DEF Good, ValidateSlots, Rows
<1> QED  BY <1>2, <1>4 DEF Good, u

\* What a good table says of its counts and rows.
LEMMA GoodRows ==
  ASSUME NEW t, Good(t)
  PROVE  /\ kMax \in Nat /\ t.count \in Index /\ t.count \in Nat /\ t.count >= 1 /\ t.count <= kMax
         /\ t.slot \in [Index -> Slot]
         /\ t = [t EXCEPT !.count = t.count, !.slot = t.slot]
         /\ \A k \in Index : k <= t.count => IsValidSlot(t.slot[k])
<1>1. kMax \in Nat  BY TableAssumption
<1>2. t \in Table  BY DEF Good
<1>3. t.count \in Index /\ t.slot \in [Index -> Slot] /\ t = [t EXCEPT !.count = t.count, !.slot = t.slot]
  BY <1>2 DEF Table
<1>4. t.count \in Nat /\ t.count >= 1 /\ t.count <= kMax  BY <1>1, <1>3 DEF Index
<1>5. \A k \in Index : k <= t.count => IsValidSlot(t.slot[k])  BY DEF Good, ValidateSlots, Rows
<1> QED  BY <1>1, <1>3, <1>4, <1>5

\* A row goes in (InsertEmptyAbove, DuplicateInput).
LEMMA InsertedGood ==
  ASSUME NEW t, Good(t), t.count < kMax, NEW i \in 1..(t.count + 1), NEW s \in Slot, IsValidSlot(s)
  PROVE  Good(Inserted(t, i, s))
<1> DEFINE slots == [k \in Index |-> IF k = i THEN s
                                     ELSE IF i < k /\ k <= t.count + 1 THEN t.slot[k - 1]
                                     ELSE t.slot[k]]
<1>1. /\ kMax \in Nat /\ t.count \in Nat /\ t.count <= kMax /\ t.slot \in [Index -> Slot]
      /\ \A k \in Index : k <= t.count => IsValidSlot(t.slot[k])
  BY GoodRows
<1>2. t.count + 1 \in Index  BY <1>1 DEF Index
<1>3. ASSUME NEW k \in Index
      PROVE  slots[k] \in Slot /\ (k <= t.count + 1 => IsValidSlot(slots[k]))
  <2>1. CASE k = i  BY <1>3, <2>1
  <2>2. CASE i < k /\ k <= t.count + 1
    <3>1. k # i /\ k - 1 \in Index /\ k - 1 <= t.count  BY <1>1, <1>3, <2>2 DEF Index
    <3> QED  BY <1>1, <1>3, <2>2, <3>1
  <2>3. CASE k # i /\ ~(i < k /\ k <= t.count + 1)
    <3>1. k <= t.count + 1 => k <= t.count  BY <1>1, <1>3, <2>3 DEF Index
    <3> QED  BY <1>1, <1>3, <2>3, <3>1
  <2> QED  BY <2>1, <2>2, <2>3
<1>4. slots \in [Index -> Slot]  BY <1>3
<1>5. Inserted(t, i, s) = [t EXCEPT !.count = t.count + 1, !.slot = slots]  BY DEF Inserted, Good, Table
<1> HIDE DEF slots
<1>6. \A k \in Index : k <= t.count + 1 => IsValidSlot(slots[k])  BY <1>3
<1>7. Good([t EXCEPT !.count = t.count + 1, !.slot = slots])  BY <1>2, <1>4, <1>6, ListGood
<1> QED  BY <1>5, <1>7

\* A row goes (DeleteInput).
LEMMA DeletedGood ==
  ASSUME NEW t, Good(t), t.count > 1, NEW i \in Rows(t)
  PROVE  Good(Deleted(t, i))
<1> DEFINE slots == [k \in Index |-> IF k = t.count THEN NoSlot
                                     ELSE IF i <= k /\ k < t.count THEN t.slot[k + 1]
                                     ELSE t.slot[k]]
<1>1. /\ kMax \in Nat /\ t.count \in Nat /\ t.count <= kMax /\ t.slot \in [Index -> Slot]
      /\ \A k \in Index : k <= t.count => IsValidSlot(t.slot[k])
  BY GoodRows
<1>2. t.count - 1 \in Index  BY <1>1 DEF Index
<1>3. ASSUME NEW k \in Index
      PROVE  slots[k] \in Slot /\ (k <= t.count - 1 => IsValidSlot(slots[k]))
  <2>1. CASE k = t.count
    <3>1. ~(k <= t.count - 1)  BY <1>1, <2>1
    <3> QED  BY <1>3, <2>1, <3>1, NoSlotGood
  <2>2. CASE i <= k /\ k < t.count
    <3>1. k # t.count /\ k + 1 \in Index /\ k + 1 <= t.count  BY <1>1, <1>3, <2>2 DEF Index
    <3> QED  BY <1>1, <1>3, <2>2, <3>1
  <2>3. CASE k # t.count /\ ~(i <= k /\ k < t.count)
    <3>1. k <= t.count - 1 => k <= t.count  BY <1>1, <1>3 DEF Index
    <3> QED  BY <1>1, <1>3, <2>3, <3>1
  <2> QED  BY <2>1, <2>2, <2>3
<1>4. slots \in [Index -> Slot]  BY <1>3
<1>5. Deleted(t, i) = [t EXCEPT !.count = t.count - 1, !.slot = slots]  BY DEF Deleted, Good, Table
<1> HIDE DEF slots
<1>6. \A k \in Index : k <= t.count - 1 => IsValidSlot(slots[k])  BY <1>3
<1>7. Good([t EXCEPT !.count = t.count - 1, !.slot = slots])  BY <1>2, <1>4, <1>6, ListGood
<1> QED  BY <1>5, <1>7

\* A row moves (MoveInput).
LEMMA MovedGood ==
  ASSUME NEW t, Good(t), NEW i \in Rows(t), NEW j \in Rows(t)
  PROVE  Good(Moved(t, i, j))
<1> DEFINE slots == [k \in Index |-> IF k = j THEN t.slot[i]
                                     ELSE IF i <= k /\ k < j THEN t.slot[k + 1]
                                     ELSE IF j < k /\ k <= i THEN t.slot[k - 1]
                                     ELSE t.slot[k]]
<1>1. /\ kMax \in Nat /\ t.count \in Index /\ t.count \in Nat /\ t.count <= kMax
      /\ t.slot \in [Index -> Slot]
      /\ \A k \in Index : k <= t.count => IsValidSlot(t.slot[k])
  BY GoodRows
<1>2. i \in Index /\ j \in Index /\ i <= t.count /\ j <= t.count  BY DEF Rows
<1>3. ASSUME NEW k \in Index
      PROVE  slots[k] \in Slot /\ (k <= t.count => IsValidSlot(slots[k]))
  <2>1. CASE k = j  BY <1>1, <1>2, <1>3, <2>1
  <2>2. CASE k # j /\ i <= k /\ k < j
    <3>1. k + 1 \in Index /\ k + 1 <= t.count  BY <1>1, <1>2, <1>3, <2>2 DEF Index
    <3> QED  BY <1>1, <1>3, <2>2, <3>1
  <2>3. CASE k # j /\ ~(i <= k /\ k < j) /\ j < k /\ k <= i
    <3>1. k - 1 \in Index /\ k - 1 <= t.count  BY <1>1, <1>2, <1>3, <2>3 DEF Index
    <3> QED  BY <1>1, <1>3, <2>3, <3>1
  <2>4. CASE k # j /\ ~(i <= k /\ k < j) /\ ~(j < k /\ k <= i)  BY <1>1, <1>3, <2>4
  <2> QED  BY <2>1, <2>2, <2>3, <2>4
<1>4. slots \in [Index -> Slot]  BY <1>3
<1>5. Moved(t, i, j) = [t EXCEPT !.count = t.count, !.slot = slots]  BY DEF Moved, Good, Table
<1> HIDE DEF slots
<1>6. \A k \in Index : k <= t.count => IsValidSlot(slots[k])  BY <1>3
<1>7. Good([t EXCEPT !.count = t.count, !.slot = slots])  BY <1>1, <1>4, <1>6, ListGood
<1> QED  BY <1>5, <1>7

\* One slot changes to a valid one.
LEMMA SlotSetGood ==
  ASSUME NEW t, Good(t), NEW i \in Index, NEW s \in Slot, IsValidSlot(s)
  PROVE  Good([t EXCEPT !.slot[i] = s])
<1> DEFINE slots == [t.slot EXCEPT ![i] = s]
<1>1. /\ t.count \in Index /\ t.slot \in [Index -> Slot]
      /\ \A k \in Index : k <= t.count => IsValidSlot(t.slot[k])
  BY GoodRows
<1>2. slots \in [Index -> Slot] /\ \A k \in Index : k <= t.count => IsValidSlot(slots[k])  BY <1>1
<1>3. [t EXCEPT !.slot[i] = s] = [t EXCEPT !.count = t.count, !.slot = slots]  BY DEF Good, Table
<1> HIDE DEF slots
<1> QED  BY <1>1, <1>2, <1>3, ListGood

\* Settings that are valid replace a table's (GENERAL, NETWORK, settings.yml).
LEMMA WithSettingsGood ==
  ASSUME NEW t, Good(t), NEW s, GoodSettings(s)
  PROVE  Good(WithSettings(t, s))
<1> DEFINE u == WithSettings(t, s)
           cable == [c \in Cables |-> IF c \in DOMAIN s.cable THEN s.cable[c]
                                      ELSE IF c < FirstCables THEN FirstFormat
                                      ELSE t.cable[c]]
<1>1. t \in Table /\ s \in SettingsPart  BY DEF Good, GoodSettings
<1>2. cable \in [Cables -> CableFormats]
  <2>1. PICK C \in SUBSET Cables : s.cable \in [C -> CableFormats]  BY <1>1 DEF SettingsPart
  <2>2. t.cable \in [Cables -> CableFormats] /\ FirstFormat \in CableFormats
    BY <1>1, TableAssumption DEF Table
  <2> QED  BY <2>1, <2>2
<1>3. u = [t EXCEPT !.id = s.id, !.mode = s.mode, !.net = s.net, !.buffer = s.buffer, !.clock = s.clock,
                    !.cable = cable]
  BY DEF WithSettings
<1> HIDE DEF cable, u
<1>4. u \in Table /\ u.count = t.count /\ u.slot = t.slot /\ u.net = s.net /\ u.buffer = s.buffer
  BY <1>1, <1>2, <1>3 DEF Table, SettingsPart
<1>5. ValidateSlots(u)  BY <1>4 DEF Good, GoodSettings, ValidateSlots, Rows
<1> QED  BY <1>4, <1>5 DEF Good, u

\* Valid routes replace a table's (routes.yml).
LEMMA WithRoutesGood ==
  ASSUME NEW t, Good(t), NEW r, GoodRoutes(r)
  PROVE  Good(WithRoutes(t, r))
<1>1. r.count \in Index /\ r.slot \in [Index -> Slot] /\ \A k \in Index : k <= r.count => IsValidSlot(r.slot[k])
  BY DEF GoodRoutes, RoutesPart
<1> QED  BY <1>1, ListGood DEF WithRoutes

\* The parts of a good table are good parts.
LEMMA PartsGood ==
  ASSUME NEW t, Good(t)
  PROVE  GoodRoutes(Routes(t)) /\ GoodSettings(Settings(t))
<1>1. t \in Table  BY DEF Good
<1>2. Routes(t) \in RoutesPart /\ Routes(t).count = t.count /\ Routes(t).slot = t.slot
  BY <1>1 DEF Routes, Table, RoutesPart
<1>3. /\ Settings(t) = [id |-> t.id, mode |-> t.mode, cable |-> t.cable, net |-> t.net,
                        buffer |-> t.buffer, clock |-> t.clock]
      /\ t.cable \in UNION {[C -> CableFormats] : C \in SUBSET Cables}
  BY <1>1 DEF Settings, Table
<1>4. Settings(t) \in SettingsPart /\ Settings(t).net = t.net /\ Settings(t).buffer = t.buffer
  BY <1>1, <1>3 DEF Table, SettingsPart
<1> QED  BY <1>2, <1>4 DEF Good, ValidateSlots, Rows, GoodRoutes, GoodSettings

\* So are those of an earlier version's file.
LEMMA EarlierGood ==
  ASSUME NEW s, GoodSettings(s), s.cable \in [Cables -> CableFormats]
  PROVE  GoodSettings(Earlier(s))
<1> DEFINE C == Cables \cap 0..(FirstCables - 1)
           first == [c \in C |-> s.cable[c]]
<1>1. first \in [C -> CableFormats] /\ C \in SUBSET Cables  OBVIOUS
<1>2. Earlier(s) = [s EXCEPT !.cable = first]  BY DEF Earlier
<1>3. s \in SettingsPart  BY DEF GoodSettings
<1>4. first \in UNION {[D -> CableFormats] : D \in SUBSET Cables}  BY <1>1
<1> HIDE DEF first, C
<1>5. Earlier(s) \in SettingsPart /\ Earlier(s).net = s.net /\ Earlier(s).buffer = s.buffer
  BY <1>2, <1>3, <1>4 DEF SettingsPart
<1> QED  BY <1>5 DEF GoodSettings

\* The first-run table is good (FillDefaultSlotTable).
LEMMA DefaultGood == Good(DefaultTable(FirstClock))
<1> DEFINE t == DefaultTable(FirstClock)
           slots == [i \in Index |-> IF i = 1 THEN [NoSlot EXCEPT !.type = "hw"] ELSE NoSlot]
           nets == [n \in Streams |-> [codec |-> "pcm", channels |-> 2]]
<1>1. 2 \in Index  BY TableAssumption DEF Index
<1>2. [NoSlot EXCEPT !.type = "hw"] \in Slot /\ IsValidSlot([NoSlot EXCEPT !.type = "hw"])
  BY DEF NoSlot, Slot, Types, IsValidSlot
<1>3. slots \in [Index -> Slot] /\ \A i \in Index : IsValidSlot(slots[i])  BY <1>2, NoSlotGood
<1>4. nets \in [Streams -> Stream]  BY DEF Stream, Codecs
<1>5. \A n \in Streams : nets[n].channels \in ChannelsOf(nets[n].codec)
  BY TableAssumption DEF ChannelsOf
<1>6. FirstClock \in Clocks  BY PanelAssumption
<1>7. t = [count |-> 2, slot |-> slots, id |-> [d \in Devices |-> Default],
           mode |-> [d \in Devices |-> "exclusive"], cable |-> [c \in Cables |-> FirstFormat],
           net |-> nets, buffer |-> FirstBuffer, clock |-> FirstClock]
  BY DEF DefaultTable
<1> HIDE DEF slots, nets, t
<1>10. /\ FirstFormat \in CableFormats /\ FirstBuffer \in [Things -> Frames]
       /\ Frames \subseteq Nat /\ Bridges \subseteq Things
  BY TableAssumption
<1>11. FirstBuffer \in [Things -> Nat] /\ \A b \in Bridges : FirstBuffer[b] \in Frames  BY <1>10
<1>8. t \in Table  BY <1>1, <1>3, <1>4, <1>6, <1>7, <1>10, <1>11 DEF Table, Modes
<1>9. ValidateSlots(t)  BY <1>1, <1>3, <1>5, <1>7, <1>11 DEF ValidateSlots, Rows
<1> QED  BY <1>8, <1>9 DEF Good, t

\* Settings a Save takes.
SoundSettings(u) ==
  /\ \A b \in Bridges : u.buffer[b] \in Frames
  /\ \A n \in Streams : u.net[n].channels \in ChannelsOf(u.net[n].codec)

\* A table with another's rows, and sound settings, is good.
LEMMA SameRowsGood ==
  ASSUME NEW t, Good(t), NEW u \in Table, u.count = t.count, u.slot = t.slot, SoundSettings(u)
  PROVE  Good(u)
BY DEF Good, ValidateSlots, Rows, SoundSettings

\* A table that differs in neither rows, streams nor buffers is good.
LEMMA SameChecksGood ==
  ASSUME NEW t, Good(t), NEW u \in Table, u.count = t.count, u.slot = t.slot, u.net = t.net,
         u.buffer = t.buffer
  PROVE  Good(u)
BY DEF Good, ValidateSlots, Rows

\* A slot takes a source (SetInputType, SetInputSource, AssignSource).
LEMMA AssignedGood ==
  ASSUME NEW t, Good(t), NEW i, NEW type \in Types, NEW src \in Nat, NEW stream \in Nat,
         MayAssign(t, i, type, src, stream)
  PROVE  Good(Assigned(t, i, type, src, stream))
<1> DEFINE r == Retyped(t, t.slot[i], type)
           s == [r EXCEPT !.src = src, !.stream = stream]
<1>0. t.slot \in [Index -> Slot]  BY GoodRows
<1>1. i \in Index /\ t.slot[i] \in Slot  BY <1>0 DEF MayAssign, Rows
<1>2. r \in Slot /\ r.type = type /\ (r.loopback => type = "virtual")
  <2> DEFINE loopback == t.slot[i].loopback /\ type = "virtual"
             src0 == IF t.slot[i].src < HwChannels THEN t.slot[i].src ELSE 0
             stream0 == IF t.slot[i].stream \in Devices /\ Listed(t, t.slot[i].stream)
                        THEN t.slot[i].stream ELSE 0
  <2>1. CASE type # "hw"  BY <1>1, <2>1 DEF Retyped, Slot
  <2>2. CASE type = "hw"
    <3>1. loopback = FALSE  BY <2>2
    <3>2. src0 \in Nat /\ stream0 \in Nat  BY <1>1 DEF Slot
    <3>3. r = [type |-> type, loopback |-> loopback, src |-> src0, stream |-> stream0]
      BY <2>2 DEF Retyped
    <3> HIDE DEF loopback, src0, stream0, r
    <3> QED  BY <3>1, <3>2, <3>3 DEF Slot
  <2> QED  BY <2>1, <2>2
<1> HIDE DEF r
<1>3. s \in Slot /\ s.type = type /\ s.stream = stream /\ (s.loopback => type = "virtual")
  BY <1>2 DEF Slot
<1>4. type = "network" => stream \in Streams
  BY DEF MayAssign, IsValidSource
<1> HIDE DEF s
<1>5. IsValidSlot(s)  BY <1>3, <1>4 DEF IsValidSlot
<1>6. Good([t EXCEPT !.slot[i] = s])  BY <1>1, <1>3, <1>5, SlotSetGood
<1>7. Assigned(t, i, type, src, stream) = [t EXCEPT !.slot[i] = s]  BY DEF Assigned, s, r
<1> QED  BY <1>6, <1>7

\* A place of the device list takes an endpoint (SetHwDevice, AddHwDevice).
LEMMA DeviceSetGood ==
  ASSUME NEW t, Good(t), NEW d \in Devices, NEW id \in Endpoints \cup {Default}
  PROVE  Good(DeviceSet(t, d, id))
<1>1. t \in Table  BY DEF Good
<1>2. DeviceSet(t, d, id) \in Table  BY <1>1 DEF DeviceSet, Table
<1>3. /\ DeviceSet(t, d, id).count = t.count /\ DeviceSet(t, d, id).slot = t.slot
      /\ DeviceSet(t, d, id).net = t.net /\ DeviceSet(t, d, id).buffer = t.buffer
  BY <1>1 DEF DeviceSet, Table
<1> QED  BY <1>2, <1>3, SameChecksGood

\* A device goes, and the rows that used it are emptied (RemoveHwDevice).
LEMMA DeviceRemovedGood ==
  ASSUME NEW t, Good(t), NEW d \in Devices
  PROVE  Good(DeviceRemoved(t, d))
<1> DEFINE slots == [i \in Index |-> IF i \in Users(t, d)
                                     THEN [t.slot[i] EXCEPT !.type = "none", !.src = 0, !.stream = 0]
                                     ELSE t.slot[i]]
           u == [t EXCEPT !.id[d] = Default, !.mode[d] = "exclusive"]
<1>1. /\ t.count \in Index /\ t.slot \in [Index -> Slot]
      /\ \A k \in Index : k <= t.count => IsValidSlot(t.slot[k])
  BY GoodRows
<1>2. t \in Table  BY DEF Good
<1>3. ASSUME NEW k \in Index
      PROVE  slots[k] \in Slot /\ (k <= t.count => IsValidSlot(slots[k]))
  <2>1. CASE k \in Users(t, d)
    <3>1. t.slot[k] \in Slot /\ t.slot[k].type = "hw" /\ IsValidSlot(t.slot[k])
      BY <1>1, <2>1 DEF Users, Rows
    <3>2. ~t.slot[k].loopback  BY <3>1 DEF IsValidSlot, Slot
    <3>3. [t.slot[k] EXCEPT !.type = "none", !.src = 0, !.stream = 0] \in Slot
          /\ IsValidSlot([t.slot[k] EXCEPT !.type = "none", !.src = 0, !.stream = 0])
      BY <3>1, <3>2 DEF Slot, Types, IsValidSlot
    <3> QED  BY <1>3, <2>1, <3>3
  <2>2. CASE k \notin Users(t, d)  BY <1>1, <1>3, <2>2
  <2> QED  BY <2>1, <2>2
<1>4. slots \in [Index -> Slot]  BY <1>3
<1> HIDE DEF slots
<1>5. u \in Table /\ u.count = t.count /\ u.slot = t.slot /\ u.net = t.net /\ u.buffer = t.buffer
  BY <1>2 DEF Table, Modes
<1>6. Good(u)
  <2> HIDE DEF u
  <2> QED  BY <1>5, SameChecksGood
<1>7. DeviceRemoved(t, d) = [u EXCEPT !.count = t.count, !.slot = slots]
  BY <1>2 DEF DeviceRemoved, Table, slots
<1>8. \A k \in Index : k <= t.count => IsValidSlot(slots[k])  BY <1>3
<1> HIDE DEF u
<1>9. Good([u EXCEPT !.count = t.count, !.slot = slots])  BY <1>1, <1>4, <1>6, <1>8, ListGood
<1> QED  BY <1>7, <1>9

-----------------------------------------------------------------------------
(***************************************************************************)
(* Steps.                                                                  *)
(***************************************************************************)

\* What an old file that is read holds is a good table (DeserializeSlots).
LEMMA OldGood ==
  ASSUME NEW f \in OldFiles, DeserializeSlots(f), NEW dir \in Directions
  PROVE  Good(OldTable(f, dir))
<1>1. Parses(f) /\ ValidateSlots(OldTable(f, dir))  BY DEF DeserializeSlots
<1>2. OldTable(f, dir) \in Table  BY <1>1, PanelAssumption
<1> QED  BY <1>1, <1>2 DEF Good

\* What a start of the Master finds in the files is a good table.
LEMMA LoadedGood ==
  ASSUME side \in Directions, json \in OldFiles \cup {None},
         routes # None => GoodRoutes(routes), settings # None => GoodSettings(settings)
  PROVE  Good(Loaded)
<1>1. Good(DefaultTable(FirstClock))  BY DefaultGood
<1>2. Good(LoadConfigFiles)
  <2> DEFINE t == DefaultTable(FirstClock)
             r == IF routes = None THEN t ELSE WithRoutes(t, routes)
             s == IF settings = None THEN r ELSE WithSettings(r, settings)
  <2>1. Good(t)  BY <1>1
  <2> HIDE DEF t
  <2>2. Good(r)  BY <2>1, WithRoutesGood
  <2> HIDE DEF r
  <2>3. Good(s)  BY <2>2, WithSettingsGood
  <2> QED  BY <2>3 DEF LoadConfigFiles, s, r, t
<1>3. json # None /\ DeserializeSlots(json) => Good(OldTable(json, side))  BY OldGood
<1> QED  BY <1>1, <1>2, <1>3 DEF Loaded

\* The first table is what the files of an earlier version hold, or the
\* default one.
LEMMA InitInv == Init => IInv
<1> SUFFICES ASSUME Init PROVE IInv  OBVIOUS
<1>1. /\ side \in Directions /\ edit = None /\ saving = {} /\ text = None /\ saved = None
      /\ rate \in Clocks /\ failed = FALSE
      /\ work = 0 /\ last = "none" /\ json \in OldFiles \cup {None} /\ table = Loaded
  BY PanelAssumption DEF Init
<1>3. (routes # None => GoodRoutes(routes)) /\ (settings # None => GoodSettings(settings))
  <2>1. Good(FirstTable)  BY PanelAssumption DEF Good
  <2>2. GoodRoutes(Routes(FirstTable)) /\ GoodSettings(Settings(FirstTable))  BY <2>1, PartsGood
  <2>3. Settings(FirstTable).cable \in [Cables -> CableFormats]  BY <2>1 DEF Good, Table, Settings
  <2>4. GoodSettings(Earlier(Settings(FirstTable)))  BY <2>2, <2>3, EarlierGood
  <2> QED  BY <2>2, <2>4 DEF Init
<1>2. Good(table)  BY <1>1, <1>3, LoadedGood
<1>4. routes \in RoutesPart \cup {None} /\ settings \in SettingsPart \cup {None}
  BY <1>3 DEF GoodRoutes, GoodSettings
<1>5. 0 \in 0..MaxWork  BY PanelAssumption
<1>6. TypeOK  BY <1>1, <1>2, <1>4, <1>5 DEF TypeOK, Good, Kinds
<1> QED  BY <1>1, <1>2, <1>3, <1>6 DEF IInv, Open, Idle

\* Counting a piece of work keeps within the bound.
LEMMA WorkType ==
  ASSUME TypeOK, NEW kind \in Kinds, Work(kind)
  PROVE  work' \in 0..MaxWork /\ last' \in Kinds
BY PanelAssumption DEF TypeOK, Work

\* An edit that makes a good table keeps the invariant.
LEMMA EditStep ==
  ASSUME IInv, NEW kind \in Kinds, NEW t, Good(t), Edit(kind, t)
  PROVE  IInv'
<1>1. work' \in 0..MaxWork /\ last' \in Kinds  BY WorkType DEF IInv, Edit
<1>2. edit' = t /\ UNCHANGED <<side, json, table, saving, text, routes, settings, saved, rate, failed>>
  BY DEF Edit, fileVars
<1>3. TypeOK'  BY <1>1, <1>2 DEF IInv, TypeOK, Good
<1> QED  BY <1>2, <1>3 DEF IInv, Open, Idle, Good, ValidateSlots, Rows, IsValidSlot, ChannelsOf, GoodRoutes, GoodSettings

\* What an open panel and an assigned constant are.
LEMMA OpenGood ==
  ASSUME IInv, Open
  PROVE  Good(edit) /\ edit \in Table /\ edit.slot \in [Index -> Slot]
<1>1. Good(edit)  BY DEF IInv
<1> QED  BY <1>1, GoodRows DEF Good

LEMMA AssignSourceStep ==
  ASSUME IInv, NEW i \in Index, NEW type \in Types, NEW src \in Nat, NEW stream \in Nat,
         AssignSource(i, type, src, stream)
  PROVE  IInv'
<1>1. Open /\ MayAssign(edit, i, type, src, stream)
      /\ Edit("row", Assigned(edit, i, type, src, stream))
  BY DEF AssignSource
<1>2. Good(edit)  BY <1>1, OpenGood
<1>3. Good(Assigned(edit, i, type, src, stream))  BY <1>1, <1>2, AssignedGood
<1>4. "row" \in Kinds  BY DEF Kinds
<1> QED  BY <1>1, <1>3, <1>4, EditStep

LEMMA AssignHwStep ==
  ASSUME IInv, NEW i \in Index, NEW id \in Endpoints \cup {Default}, NEW src \in Nat,
         AssignHw(i, id, src)
  PROVE  IInv'
<1>1. Open /\ i \in Rows(edit) /\ src < HwChannels  BY DEF AssignHw
<1>2. Good(edit)  BY <1>1, OpenGood
<1>3. PICK d \in Devices : PlaceFor(edit, i, id, d) /\ Edit("row", HwAssigned(edit, i, id, src, d))
  BY DEF AssignHw
<1> DEFINE u == DeviceSet(edit, d, id)
<1>4. Good(u)  BY <1>2, <1>3, DeviceSetGood
<1>5. u.count = edit.count /\ u.id = [edit.id EXCEPT ![d] = id] /\ edit.id \in [Devices -> Endpoints \cup {Default}]
  BY <1>2 DEF DeviceSet, Good, Table
<1>6. Listed(u, d)
  <2>1. CASE Places(edit, id) # {}
    <3>1. d \in Places(edit, id)  BY <1>3, <2>1 DEF PlaceFor
    <3>2. d = 0 \/ id # Default  BY <3>1 DEF Places, Listed
    <3> HIDE DEF u
    <3> QED  BY <1>5, <3>2 DEF Listed
  <2>2. CASE Places(edit, id) = {}
    <3>1. d = 0 \/ id # Default  BY <1>3, <2>2 DEF PlaceFor
    <3> HIDE DEF u
    <3> QED  BY <1>5, <3>1 DEF Listed
  <2> QED  BY <2>1, <2>2
<1>7. i \in Rows(u)
  <2> HIDE DEF u
  <2> QED  BY <1>1, <1>5 DEF Rows
<1> HIDE DEF u
<1>8. "hw" \in Types /\ d \in Nat  BY TableAssumption DEF Types, Devices
<1>9. MayAssign(u, i, "hw", src, d)  BY <1>1, <1>3, <1>6, <1>7 DEF MayAssign, IsValidSource
<1>10. Good(Assigned(u, i, "hw", src, d))  BY <1>4, <1>8, <1>9, AssignedGood
<1>11. Edit("row", Assigned(u, i, "hw", src, d))  BY <1>3 DEF HwAssigned, u
<1>12. "row" \in Kinds  BY DEF Kinds
<1> QED  BY <1>10, <1>11, <1>12, EditStep

\* A row edit keeps the invariant.
LEMMA RowStep ==
  ASSUME IInv, RowEdit
  PROVE  IInv'
<1>0. "row" \in Kinds  BY DEF Kinds
<1>1. ASSUME NEW i \in 1..(kMax + 1), InsertRow(i)  PROVE IInv'
  <2>1. Open /\ edit.count < kMax /\ i \in 1..(edit.count + 1) /\ Edit("row", Inserted(edit, i, NoSlot))
    BY <1>1 DEF InsertRow
  <2>2. Good(edit)  BY <2>1, OpenGood
  <2>3. Good(Inserted(edit, i, NoSlot))  BY <2>1, <2>2, InsertedGood, NoSlotGood
  <2> QED  BY <1>0, <2>1, <2>3, EditStep
<1>2. ASSUME NEW i \in Index, DuplicateRow(i)  PROVE IInv'
  <2>1. Open /\ edit.count < kMax /\ i \in Rows(edit) /\ Edit("row", Inserted(edit, i + 1, edit.slot[i]))
    BY <1>2 DEF DuplicateRow
  <2>2. Good(edit)  BY <2>1, OpenGood
  <2>3. edit.count \in Nat /\ edit.slot \in [Index -> Slot]
        /\ \A k \in Index : k <= edit.count => IsValidSlot(edit.slot[k])
    BY <2>2, GoodRows
  <2>5. i <= edit.count /\ i \in Nat /\ i >= 1  BY <2>1 DEF Rows, Index
  <2>6. edit.slot[i] \in Slot /\ IsValidSlot(edit.slot[i]) /\ i + 1 \in 1..(edit.count + 1)
    BY <2>3, <2>5
  <2>4. Good(Inserted(edit, i + 1, edit.slot[i]))  BY <2>1, <2>2, <2>6, InsertedGood
  <2> QED  BY <1>0, <2>1, <2>4, EditStep
<1>3. ASSUME NEW i \in Index, DeleteRow(i)  PROVE IInv'
  <2>1. Open /\ edit.count > 1 /\ i \in Rows(edit) /\ Edit("row", Deleted(edit, i))
    BY <1>3 DEF DeleteRow
  <2>2. Good(edit)  BY <2>1, OpenGood
  <2>3. Good(Deleted(edit, i))  BY <2>1, <2>2, DeletedGood
  <2> QED  BY <1>0, <2>1, <2>3, EditStep
<1>4. ASSUME NEW i \in Index, SetLoopback(i)  PROVE IInv'
  <2> DEFINE s == [edit.slot[i] EXCEPT !.loopback = ~@]
  <2>1. Open /\ edit.slot[i].type = "virtual" /\ Edit("row", [edit EXCEPT !.slot[i].loopback = ~@])
    BY <1>4 DEF SetLoopback
  <2>2. Good(edit) /\ edit \in Table /\ edit.slot[i] \in Slot  BY <2>1, OpenGood
  <2>3. s \in Slot /\ IsValidSlot(s)  BY <2>1, <2>2 DEF Slot, IsValidSlot
  <2>4. [edit EXCEPT !.slot[i].loopback = ~@] = [edit EXCEPT !.slot[i] = s]  BY <2>2 DEF Table
  <2> HIDE DEF s
  <2>5. Good([edit EXCEPT !.slot[i] = s])  BY <2>2, <2>3, SlotSetGood
  <2> QED  BY <1>0, <2>1, <2>4, <2>5, EditStep
<1>5. ASSUME NEW i \in Index, NEW j \in Index, MoveRow(i, j)  PROVE IInv'
  <2>1. Open /\ i \in Rows(edit) /\ j \in Rows(edit) /\ Edit("row", Moved(edit, i, j))
    BY <1>5 DEF MoveRow
  <2>2. Good(edit)  BY <2>1, OpenGood
  <2>3. Good(Moved(edit, i, j))  BY <2>1, <2>2, MovedGood
  <2> QED  BY <1>0, <2>1, <2>3, EditStep
<1>6. ASSUME NEW i \in Index, SourceMenu(i)  PROVE IInv'
  <2>1. CASE AssignSource(i, "none", 0, 0)  BY <2>1, AssignSourceStep DEF Types
  <2>2. ASSUME NEW id \in Endpoints \cup {Default}, NEW src \in 0..(HwChannels - 1), AssignHw(i, id, src)
        PROVE  IInv'
    BY <2>2, AssignHwStep
  <2>3. ASSUME NEW c \in Cables, NEW ch \in 0..(CableChannels - 1),
               AssignSource(i, "virtual", c * CableChannels + ch, 0)
        PROVE  IInv'
    <3>1. CableChannels \in Nat /\ c \in Nat /\ ch \in Nat  BY TableAssumption DEF Cables
    <3>2. c * CableChannels + ch \in Nat  BY <3>1
    <3>3. "virtual" \in Types /\ 0 \in Nat  BY DEF Types
    <3> QED  BY <2>3, <3>2, <3>3, AssignSourceStep
  <2>4. ASSUME NEW n \in Streams, NEW ch \in 0..(VorbisChannels - 1), AssignSource(i, "network", ch, n)
        PROVE  IInv'
    <3>1. n \in Nat  BY DEF Streams
    <3> QED  BY <2>4, <3>1, AssignSourceStep DEF Types
  <2>5. ASSUME NEW b \in Bridges, NEW ch \in 0..(BridgeChannels - 1), AssignSource(i, b, ch, 0)
        PROVE  IInv'
    <3>1. b \in Types /\ ch \in Nat /\ 0 \in Nat  BY TableAssumption DEF Types
    <3> QED  BY <2>5, <3>1, AssignSourceStep
  <2> QED  BY <1>6, <2>1, <2>2, <2>3, <2>4, <2>5 DEF SourceMenu
<1> QED  BY <1>1, <1>2, <1>3, <1>4, <1>5, <1>6 DEF RowEdit

\* A settings edit keeps the invariant.
LEMMA SettingsStep ==
  ASSUME IInv, SettingsEdit
  PROVE  IInv'
<1>0. "settings" \in Kinds  BY DEF Kinds
<1>1. ASSUME NEW d \in Devices, NEW id \in Endpoints \cup {Default}, Open,
             Edit("settings", DeviceSet(edit, d, id))
      PROVE  IInv'
  BY <1>0, <1>1, OpenGood, DeviceSetGood, EditStep
<1>2. ASSUME NEW d \in Devices, RemoveHwDevice(d)  PROVE IInv'
  BY <1>0, <1>2, OpenGood, DeviceRemovedGood, EditStep DEF RemoveHwDevice
<1>3. ASSUME Open  PROVE  \A n \in Streams : edit.net[n] \in Stream
                                          /\ edit.net[n].channels \in ChannelsOf(edit.net[n].codec)
  BY <1>3, OpenGood DEF Table, Good, ValidateSlots
<1>4. ASSUME NEW d \in Devices, NEW m \in Modes, SetHwMode(d, m)  PROVE IInv'
  <2> DEFINE u == [edit EXCEPT !.mode[d] = m]
  <2>1. Open /\ Edit("settings", u)  BY <1>4 DEF SetHwMode
  <2>2. Good(edit) /\ edit \in Table  BY <2>1, OpenGood
  <2>3. u \in Table /\ u.count = edit.count /\ u.slot = edit.slot /\ u.net = edit.net /\ u.buffer = edit.buffer
    BY <2>2 DEF Table
  <2> HIDE DEF u
  <2>4. Good(u)  BY <2>2, <2>3, SameChecksGood
  <2> QED  BY <1>0, <2>1, <2>4, EditStep
<1>5. ASSUME NEW c \in Clocks, SetMasterClock(c)  PROVE IInv'
  <2> DEFINE u == [edit EXCEPT !.clock = c]
  <2>1. Open /\ Edit("settings", u)  BY <1>5 DEF SetMasterClock
  <2>2. Good(edit) /\ edit \in Table  BY <2>1, OpenGood
  <2>3. u \in Table /\ u.count = edit.count /\ u.slot = edit.slot /\ u.net = edit.net /\ u.buffer = edit.buffer
    BY <2>2 DEF Table
  <2> HIDE DEF u
  <2>4. Good(u)  BY <2>2, <2>3, SameChecksGood
  <2> QED  BY <1>0, <2>1, <2>4, EditStep
<1>6. ASSUME NEW n \in Streams, NEW x \in Stream, x.channels \in ChannelsOf(x.codec), Open,
             Edit("settings", [edit EXCEPT !.net[n] = x])
      PROVE  IInv'
  <2> DEFINE u == [edit EXCEPT !.net[n] = x]
  <2>1. Good(edit) /\ edit \in Table  BY <1>6, OpenGood
  <2>2. u \in Table /\ u.count = edit.count /\ u.slot = edit.slot /\ u.net = [edit.net EXCEPT ![n] = x]
        /\ edit.net \in [Streams -> Stream] /\ u.buffer = edit.buffer
        /\ \A b \in Bridges : edit.buffer[b] \in Frames
    BY <2>1 DEF Table, Good, ValidateSlots
  <2>3. Edit("settings", u)  BY <1>6
  <2> HIDE DEF u
  <2>4. \A k \in Streams : u.net[k].channels \in ChannelsOf(u.net[k].codec)  BY <1>3, <1>6, <2>2
  <2>6. SoundSettings(u)  BY <2>2, <2>4 DEF SoundSettings
  <2>5. Good(u)  BY <2>1, <2>2, <2>6, SameRowsGood
  <2> QED  BY <1>0, <2>3, <2>5, EditStep
<1>7. ASSUME NEW n \in Streams, NEW c \in Codecs, SetCodec(n, c)  PROVE IInv'
  <2> DEFINE k == IF edit.net[n].channels \in ChannelsOf(c) THEN edit.net[n].channels ELSE PcmChannels
             x == [codec |-> c, channels |-> k]
  <2>1. Open /\ Edit("settings", [edit EXCEPT !.net[n] =
                     [codec |-> c, channels |-> IF @.channels \in ChannelsOf(c) THEN @.channels ELSE PcmChannels]])
    BY <1>7 DEF SetCodec
  <2>2. edit \in Table /\ edit.net[n] \in Stream  BY <1>3, <2>1, OpenGood
  <2>3. Edit("settings", [edit EXCEPT !.net[n] = x])  BY <2>1, <2>2 DEF Table
  <2>4. k \in Nat  BY <2>2, TableAssumption DEF Stream
  <2>7. PcmChannels \in ChannelsOf(c)
    <3>1. PcmChannels \in Nat /\ PcmChannels >= 2 /\ VorbisChannels \in Nat /\ VorbisChannels >= PcmChannels
      BY TableAssumption
    <3>2. PcmChannels \in 1..VorbisChannels /\ PcmChannels \in 1..PcmChannels  BY <3>1
    <3> QED  BY <3>2 DEF ChannelsOf
  <2>5. k \in ChannelsOf(c)  BY <2>7
  <2> HIDE DEF k
  <2>6. x \in Stream /\ x.codec = c /\ x.channels = k  BY <2>4 DEF Stream
  <2> HIDE DEF x
  <2> QED  BY <1>6, <2>1, <2>3, <2>5, <2>6
<1>8. ASSUME NEW n \in Streams, NEW k \in 1..VorbisChannels, SetChannels(n, k)  PROVE IInv'
  <2> DEFINE x == [edit.net[n] EXCEPT !.channels = k]
  <2>1. Open /\ k \in ChannelsOf(edit.net[n].codec) /\ Edit("settings", [edit EXCEPT !.net[n].channels = k])
    BY <1>8 DEF SetChannels
  <2>2. edit \in Table /\ edit.net[n] \in Stream  BY <1>3, <2>1, OpenGood
  <2>3. x \in Stream /\ x.codec = edit.net[n].codec /\ x.channels = k  BY <2>2 DEF Stream
  <2>4. [edit EXCEPT !.net[n].channels = k] = [edit EXCEPT !.net[n] = x]  BY <2>2 DEF Table
  <2> HIDE DEF x
  <2> QED  BY <1>6, <2>1, <2>3, <2>4
<1>9. ASSUME NEW d \in Devices, NEW id \in Endpoints, SetHwDevice(d, id) \/ AddHwDevice(d, id)  PROVE IInv'
  BY <1>1, <1>9 DEF SetHwDevice, AddHwDevice
<1>10. ASSUME SetHwDevice(0, Default)  PROVE IInv'
  <2>1. 0 \in Devices  BY TableAssumption DEF Devices
  <2> QED  BY <1>1, <1>10, <2>1 DEF SetHwDevice
<1>11. ASSUME NEW c \in Cables, NEW f \in CableFormats, SetCable(c, f)  PROVE IInv'
  <2> DEFINE u == [edit EXCEPT !.cable[c] = f]
  <2>1. Open /\ Edit("settings", u)  BY <1>11 DEF SetCable
  <2>2. Good(edit) /\ edit \in Table  BY <2>1, OpenGood
  <2>3. u \in Table /\ u.count = edit.count /\ u.slot = edit.slot /\ u.net = edit.net /\ u.buffer = edit.buffer
    BY <2>2 DEF Table
  <2> HIDE DEF u
  <2>4. Good(u)  BY <2>2, <2>3, SameChecksGood
  <2> QED  BY <1>0, <2>1, <2>4, EditStep
<1>12. ASSUME NEW x \in Things, NEW n \in Nat, n \in Frames \/ x = "hw", SetBuffer(x, n)  PROVE IInv'
  <2> DEFINE u == [edit EXCEPT !.buffer[x] = n]
  <2>1. Open /\ Edit("settings", u)  BY <1>12 DEF SetBuffer
  <2>2. Good(edit) /\ edit \in Table  BY <2>1, OpenGood
  <2>3. /\ u \in Table /\ u.count = edit.count /\ u.slot = edit.slot /\ u.net = edit.net
        /\ u.buffer = [edit.buffer EXCEPT ![x] = n] /\ edit.buffer \in [Things -> Nat]
    BY <2>2 DEF Table
  <2> HIDE DEF u
  <2>4. Bridges \subseteq Things /\ "hw" \notin Bridges  BY TableAssumption
  <2>5. \A b \in Bridges : edit.buffer[b] \in Frames  BY <2>2 DEF Good, ValidateSlots
  <2>6. \A b \in Bridges : u.buffer[b] \in Frames  BY <1>12, <2>3, <2>4, <2>5
  <2>7. SoundSettings(u)  BY <1>3, <2>1, <2>3, <2>6 DEF SoundSettings
  <2>8. Good(u)  BY <2>2, <2>3, <2>7, SameRowsGood
  <2> QED  BY <1>0, <2>1, <2>8, EditStep
<1>13. Frames \subseteq Nat /\ "hw" \in Things /\ 0 \in Nat  BY TableAssumption
<1> QED  BY <1>2, <1>4, <1>5, <1>7, <1>8, <1>9, <1>10, <1>11, <1>12, <1>13 DEF SettingsEdit, DrawNetworkStreams, DrawCableFormats

\* A new table in the panel keeps the invariant (ResetToDefault, ImportConfig).
LEMMA WholeStep ==
  ASSUME IInv, ResetToDefault \/ ImportConfig
  PROVE  IInv'
<1>0. "whole" \in Kinds  BY DEF Kinds
<1>1. CASE ResetToDefault  BY <1>0, <1>1, DefaultGood, EditStep DEF ResetToDefault
<1>2. ASSUME NEW t, Good(t), Import(t)  PROVE IInv'  BY <1>0, <1>2, EditStep DEF Import
<1>3. CASE ImportConfig
  <2>1. Open  BY <1>3 DEF ImportConfig, Import
  <2>2. Good(edit)  BY <2>1, OpenGood
  <2>3. routes # None => Good(WithRoutes(edit, routes))  BY <2>2, WithRoutesGood DEF IInv
  <2>4. settings # None => Good(WithSettings(edit, settings))  BY <2>2, WithSettingsGood DEF IInv
  <2>5. routes # None /\ settings # None => Good(WithSettings(WithRoutes(edit, routes), settings))
    BY <2>3, WithSettingsGood DEF IInv
  <2>6. json # None /\ DeserializeSlots(json) => Good(OldTable(json, side))  BY OldGood DEF IInv, TypeOK
  <2> QED  BY <1>2, <1>3, <2>3, <2>4, <2>5, <2>6 DEF ImportConfig
<1> QED  BY <1>1, <1>3

\* The window, the Save, the DAW and a new process keep the invariant.
LEMMA TableStep ==
  ASSUME IInv, \/ OpenPanel \/ Revert \/ ClosePanel \/ SavePanel \/ MakeText
               \/ \E ok \in BOOLEAN : WriteFile(ok)
               \/ \E c \in Clocks : SetSampleRate(c)
               \/ Restart
  PROVE  IInv'
<1> USE DEF IInv
<1>1. CASE OpenPanel \/ Revert
  <2>1. edit' = table /\ UNCHANGED <<side, json, table, work, last>> /\ UNCHANGED fileVars
    BY <1>1 DEF OpenPanel, Revert
  <2>2. TypeOK'  BY <2>1 DEF TypeOK, fileVars
  <2> QED  BY <2>1, <2>2 DEF fileVars, Open, Idle, Good, ValidateSlots, Rows, IsValidSlot, ChannelsOf, GoodRoutes, GoodSettings
<1>2. CASE ClosePanel
  <2>1. edit' = None /\ UNCHANGED <<side, json, table, work, last>> /\ UNCHANGED fileVars
    BY <1>2 DEF ClosePanel
  <2>2. TypeOK'  BY <2>1 DEF TypeOK, fileVars
  <2> QED  BY <2>1, <2>2 DEF fileVars, Open, Idle, Good, ValidateSlots, Rows, IsValidSlot, ChannelsOf, GoodRoutes, GoodSettings
<1>3. CASE SavePanel
  <2>1. /\ Open /\ table' = edit /\ saved' = edit /\ rate' = edit.clock /\ failed' = FALSE
        /\ saving = {} /\ saving' = {"text", "routes", "settings"}
        /\ UNCHANGED <<side, json, edit, text, routes, settings>>
    BY <1>3 DEF SavePanel, Idle
  <2>2. "save" \in Kinds  BY DEF Kinds
  <2>3. work' \in 0..MaxWork /\ last' \in Kinds  BY <1>3, <2>2, WorkType DEF SavePanel
  <2>4. Good(edit) /\ edit \in Table  BY <2>1, OpenGood
  <2>5. rate' \in Clocks  BY <2>1, <2>4 DEF Table
  <2>6. TypeOK'  BY <2>1, <2>3, <2>4, <2>5 DEF TypeOK
  <2>7. saved' # None  BY <2>1 DEF Open
  <2>8. text' = None  BY <2>1
  <2> QED  BY <2>1, <2>4, <2>6, <2>7, <2>8 DEF Open, Idle, Good, ValidateSlots, Rows, IsValidSlot, ChannelsOf, GoodRoutes, GoodSettings
<1>4. ASSUME NEW ok \in BOOLEAN, WriteFile(ok)  PROVE IInv'
  <2>1. /\ text # None /\ UNCHANGED <<side, json, table, edit, saved, rate, work, last>>
        /\ failed' \in BOOLEAN
    BY <1>4 DEF WriteFile, TypeOK
  <2>2. saved # None /\ GoodRoutes(Routes(text)) /\ GoodSettings(Settings(text))
    BY <2>1, PartsGood DEF Idle
  <2>3. /\ (saving' = {} /\ text' = None) \/ (saving' = {"settings"} /\ text' = text)
        /\ routes' \in {routes, Routes(text)} /\ settings' \in {settings, Settings(text)}
    BY <1>4 DEF WriteFile, WriteRoutes, WriteSettings
  <2>4. (routes' # None => GoodRoutes(routes')) /\ (settings' # None => GoodSettings(settings'))
    BY <2>2, <2>3
  <2>5. TypeOK'  BY <2>1, <2>3, <2>4 DEF TypeOK, GoodRoutes, GoodSettings
  <2> QED  BY <2>1, <2>2, <2>3, <2>4, <2>5 DEF Open, Idle, Good, ValidateSlots, Rows, IsValidSlot, ChannelsOf, GoodRoutes, GoodSettings
<1>5. ASSUME NEW c \in Clocks, SetSampleRate(c)  PROVE IInv'
  <2>1. /\ table' = [table EXCEPT !.clock = c] /\ Work("rate")
        /\ rate' \in Clocks
        /\ UNCHANGED <<side, json, edit, saving, text, routes, settings, saved, failed>>
    BY <1>5 DEF SetSampleRate, TypeOK
  <2>2. "rate" \in Kinds  BY DEF Kinds
  <2>3. work' \in 0..MaxWork /\ last' \in Kinds  BY <2>1, <2>2, WorkType
  <2>4. table \in Table  BY DEF Good
  <2>5. /\ table' \in Table /\ table'.count = table.count /\ table'.slot = table.slot
        /\ table'.net = table.net /\ table'.buffer = table.buffer
    BY <2>1, <2>4 DEF Table
  <2>6. Good(table')  BY <2>5, SameChecksGood
  <2>7. TypeOK'  BY <2>1, <2>3, <2>5 DEF TypeOK
  <2> QED  BY <2>1, <2>6, <2>7 DEF Open, Idle, Good, ValidateSlots, Rows, IsValidSlot, ChannelsOf, GoodRoutes, GoodSettings
<1>6. CASE Restart
  <2>1. /\ edit' = None /\ saving' = {} /\ text' = None /\ failed' \in BOOLEAN
        /\ table' \in {Loaded, table} /\ Work("restart")
        /\ UNCHANGED <<side, json, routes, settings, saved, rate>>
    BY <1>6 DEF Restart, TypeOK
  <2>2. "restart" \in Kinds  BY DEF Kinds
  <2>3. work' \in 0..MaxWork /\ last' \in Kinds  BY <2>1, <2>2, WorkType
  <2>4. Good(table')  BY <2>1, LoadedGood DEF TypeOK
  <2>5. TypeOK'  BY <2>1, <2>3, <2>4 DEF TypeOK, Good
  <2> QED  BY <2>1, <2>4, <2>5 DEF Open, Idle, Good, ValidateSlots, Rows, IsValidSlot, ChannelsOf, GoodRoutes, GoodSettings
<1>7. CASE MakeText
  <2>1. /\ "text" \in saving /\ saving' = {"routes", "settings"} /\ text' = table
        /\ UNCHANGED <<side, json, table, edit, routes, settings, saved, rate, failed, work, last>>
    BY <1>7 DEF MakeText
  <2>2. table \in Table /\ text' # None  BY <2>1, PanelAssumption DEF Good
  <2>3. TypeOK'  BY <2>1, <2>2 DEF TypeOK
  <2>4. saved' # None  BY <2>1 DEF Idle
  <2> QED  BY <2>1, <2>2, <2>3, <2>4 DEF Open, Idle, Good, ValidateSlots, Rows, IsValidSlot, ChannelsOf, GoodRoutes, GoodSettings
<1> QED  BY <1>1, <1>2, <1>3, <1>4, <1>5, <1>6, <1>7

\* A stuttering step keeps the invariant.
LEMMA StutterStep ==
  ASSUME IInv, UNCHANGED vars
  PROVE  IInv'
BY DEF IInv, vars, TypeOK, Open, Idle, Good, ValidateSlots, Rows, IsValidSlot, ChannelsOf, GoodRoutes, GoodSettings

\* The table, the panel's copy and what was saved are valid, and so is each
\* file alone, in every state (SavePanel, LoadConfigFiles, ImportConfig).
THEOREM Invariance == Spec => []IInv
<1>1. ASSUME IInv, [Next]_vars  PROVE IInv'
  BY <1>1, RowStep, SettingsStep, WholeStep, TableStep, StutterStep DEF Next, DrawControlPanel
<1> QED  BY <1>1, InitInv, PTL DEF Spec

\* The table, the panel's copy and the files hold what their types say, for
\* tables of any size.
THEOREM TypeCorrect == Spec => []TypeOK
<1>1. IInv => TypeOK  BY DEF IInv
<1> QED  BY <1>1, Invariance, PTL

\* Whatever edits, imports, failed writes and restarts came before, the table
\* and the panel's copy are valid, so no Save is rejected (SavePanel).
THEOREM NeverRejected == Spec => []Savable
<1>1. IInv => Savable  BY DEF IInv, Savable, Good
<1> QED  BY <1>1, Invariance, PTL

-----------------------------------------------------------------------------
(***************************************************************************)
(* Devices apart.  A list of devices is a table's, or a settings file's.   *)
(***************************************************************************)

\* A row edit keeps the devices.
LEMMA SameDevices ==
  ASSUME NEW t, Apart(t), NEW u, u.id = t.id, u.mode = t.mode
  PROVE  Apart(u)
BY DEF Apart, Listed

LEMMA DefaultApart == Apart(DefaultTable(FirstClock))
BY DEF Apart, Listed, DefaultTable

\* A place takes an endpoint that no other place has (SetHwDevice, AddHwDevice).
LEMMA DeviceSetApart ==
  ASSUME NEW t \in Table, Apart(t), NEW d \in Devices, NEW id \in Endpoints \cup {Default},
         Places(t, id) \subseteq {d}, d # 0 => id # Default
  PROVE  Apart(DeviceSet(t, d, id))
<1> DEFINE u == DeviceSet(t, d, id)
<1>1. u.id = [t.id EXCEPT ![d] = id] /\ u.mode = t.mode /\ t.id \in [Devices -> Endpoints \cup {Default}]
  BY DEF DeviceSet, Table
<1> HIDE DEF u
<1>2. \A e \in Devices : u.id[e] = IF e = d THEN id ELSE t.id[e]
  BY <1>1
<1>3. \A e \in Devices \ {d} : Listed(u, e) <=> Listed(t, e)
  BY <1>2 DEF Listed
<1>4. ASSUME NEW e \in Devices \ {d}, Listed(u, e) PROVE u.id[e] # id
  BY <1>2, <1>3, <1>4 DEF Places
<1>5. \A e, f \in Devices : Listed(u, e) /\ Listed(u, f) /\ u.id[e] = u.id[f] => e = f
  BY <1>2, <1>3, <1>4 DEF Apart
<1>6. Listed(u, d)
  BY <1>2 DEF Listed
<1>7. \A e \in Devices : ~Listed(u, e) => u.mode[e] = "exclusive"
  BY <1>1, <1>3, <1>6 DEF Apart
<1> QED
  BY <1>5, <1>7 DEF Apart, u

\* A place is given up with its mode (RemoveHwDevice).
LEMMA DeviceRemovedApart ==
  ASSUME NEW t \in Table, Apart(t), NEW d \in Devices, d # 0
  PROVE  Apart(DeviceRemoved(t, d))
<1> DEFINE u == DeviceRemoved(t, d)
<1>1. /\ u.id = [t.id EXCEPT ![d] = Default] /\ t.id \in [Devices -> Endpoints \cup {Default}]
      /\ u.mode = [t.mode EXCEPT ![d] = "exclusive"] /\ t.mode \in [Devices -> Modes]
  BY DEF DeviceRemoved, Table
<1> HIDE DEF u
<1>2. \A e \in Devices \ {d} : u.id[e] = t.id[e] /\ u.mode[e] = t.mode[e] /\ (Listed(u, e) <=> Listed(t, e))
  BY <1>1 DEF Listed
<1>3. ~Listed(u, d) /\ u.mode[d] = "exclusive"
  BY <1>1 DEF Listed
<1> QED
  BY <1>2, <1>3 DEF Apart, u

\* The place a row's menu finds for an endpoint has it, or takes it from no
\* other (AssignHw).
LEMMA HwAssignedApart ==
  ASSUME NEW t, Good(t), Apart(t), NEW i \in Rows(t), NEW id \in Endpoints \cup {Default}, NEW src,
         NEW d \in Devices, PlaceFor(t, i, id, d)
  PROVE  Apart(HwAssigned(t, i, id, src, d))
<1>1. t \in Table
  BY DEF Good
<1>2. Places(t, id) \subseteq {d} /\ (d # 0 => id # Default)
  <2>1. CASE Places(t, id) # {}
    <3>1. d \in Places(t, id)
      BY <2>1 DEF PlaceFor
    <3>2. \A e \in Places(t, id) : e = d
      BY <3>1 DEF Places, Apart
    <3>3. d # 0 => id # Default
      BY <3>1 DEF Places, Listed
    <3> QED
      BY <3>2, <3>3
  <2>2. CASE Places(t, id) = {}
    BY <2>2 DEF PlaceFor
  <2> QED
    BY <2>1, <2>2
<1>3. Apart(DeviceSet(t, d, id))
  BY <1>1, <1>2, DeviceSetApart
<1>4. DeviceSet(t, d, id) \in Table
  BY <1>1 DEF DeviceSet, Table
<1> DEFINE u == DeviceSet(t, d, id)
<1> HIDE DEF u
<1>5. u \in Table /\ Apart(u)
  BY <1>3, <1>4 DEF u
<1>6. /\ Assigned(u, i, "hw", src, d).id = u.id
      /\ Assigned(u, i, "hw", src, d).mode = u.mode
  BY <1>5 DEF Assigned, Table
<1>7. Apart(Assigned(u, i, "hw", src, d))
  BY <1>5, <1>6, SameDevices
<1> QED
  BY <1>7 DEF HwAssigned, u

\* The panel's copy is apart when it is there, and so is the table.
LEMMA BothApart ==
  ASSUME IInv, ApartInv
  PROVE  Apart(table) /\ (Open => Apart(edit))
<1>1. table # None
  BY PanelAssumption DEF IInv, Good
<1> QED
  BY <1>1 DEF ApartInv, DevicesApart, Open

\* An edit that keeps the devices apart.
LEMMA EditApart ==
  ASSUME ApartInv, NEW kind, NEW t, Apart(t), Edit(kind, t)
  PROVE  ApartInv'
<1>1. edit' = t /\ UNCHANGED <<table, settings, text>>
  BY DEF Edit, fileVars
<1> QED
  BY <1>1 DEF ApartInv, DevicesApart, Apart, Listed

\* A row edit keeps the devices apart.
LEMMA RowApart ==
  ASSUME IInv, ApartInv, RowEdit
  PROVE  ApartInv'
<1>0. Open
  BY DEF RowEdit
<1>1. Good(edit) /\ edit \in Table /\ Apart(edit)
  BY <1>0, OpenGood, BothApart
<1>2. ASSUME NEW u, u.id = edit.id, u.mode = edit.mode, Edit("row", u)
      PROVE  ApartInv'
  BY <1>1, <1>2, SameDevices, EditApart
<1>3. ASSUME NEW i \in 1..(kMax + 1), InsertRow(i)  PROVE ApartInv'
  <2>1. /\ Inserted(edit, i, NoSlot).id = edit.id
        /\ Inserted(edit, i, NoSlot).mode = edit.mode
    BY <1>1 DEF Inserted, Table
  <2> QED
    BY <1>2, <1>3, <2>1 DEF InsertRow
<1>4. ASSUME NEW i \in Index, DuplicateRow(i)  PROVE ApartInv'
  <2>1. /\ Inserted(edit, i + 1, edit.slot[i]).id = edit.id
        /\ Inserted(edit, i + 1, edit.slot[i]).mode = edit.mode
    BY <1>1 DEF Inserted, Table
  <2> QED
    BY <1>2, <1>4, <2>1 DEF DuplicateRow
<1>5. ASSUME NEW i \in Index, DeleteRow(i)  PROVE ApartInv'
  <2>1. Deleted(edit, i).id = edit.id /\ Deleted(edit, i).mode = edit.mode
    BY <1>1 DEF Deleted, Table
  <2> QED
    BY <1>2, <1>5, <2>1 DEF DeleteRow
<1>6. ASSUME NEW i \in Index, SetLoopback(i)  PROVE ApartInv'
  <2> DEFINE u == [edit EXCEPT !.slot[i].loopback = ~@]
  <2>1. u.id = edit.id /\ u.mode = edit.mode
    BY <1>1 DEF Table
  <2>2. Edit("row", u)
    BY <1>6 DEF SetLoopback
  <2> HIDE DEF u
  <2> QED
    BY <1>2, <2>1, <2>2
<1>7. ASSUME NEW i \in Index, NEW j \in Index, MoveRow(i, j)  PROVE ApartInv'
  <2>1. Moved(edit, i, j).id = edit.id /\ Moved(edit, i, j).mode = edit.mode
    BY <1>1 DEF Moved, Table
  <2> QED
    BY <1>2, <1>7, <2>1 DEF MoveRow
<1>8. ASSUME NEW i, NEW type, NEW src, NEW stream, AssignSource(i, type, src, stream)
      PROVE  ApartInv'
  <2>1. /\ Assigned(edit, i, type, src, stream).id = edit.id
        /\ Assigned(edit, i, type, src, stream).mode = edit.mode
    BY <1>1 DEF Assigned, Table
  <2> QED
    BY <1>2, <1>8, <2>1 DEF AssignSource
<1>9. ASSUME NEW i \in Index, NEW id \in Endpoints \cup {Default}, NEW src, AssignHw(i, id, src)
      PROVE  ApartInv'
  <2>1. PICK d \in Devices : PlaceFor(edit, i, id, d) /\ Edit("row", HwAssigned(edit, i, id, src, d))
    BY <1>9 DEF AssignHw
  <2>2. i \in Rows(edit)
    BY <1>9 DEF AssignHw
  <2>3. Apart(HwAssigned(edit, i, id, src, d))
    BY <1>1, <2>1, <2>2, HwAssignedApart
  <2> QED
    BY <2>1, <2>3, EditApart
<1>10. ASSUME NEW i \in Index, SourceMenu(i)  PROVE ApartInv'
  BY <1>8, <1>9, <1>10 DEF SourceMenu
<1> QED
  BY <1>3, <1>4, <1>5, <1>6, <1>7, <1>10 DEF RowEdit

\* A settings edit keeps the devices apart.
LEMMA SettingsApart ==
  ASSUME IInv, ApartInv, SettingsEdit
  PROVE  ApartInv'
<1>0. Open
  BY DEF SettingsEdit
<1>1. Good(edit) /\ edit \in Table /\ Apart(edit)
  BY <1>0, OpenGood, BothApart
<1>2. ASSUME NEW u, u.id = edit.id, u.mode = edit.mode, Edit("settings", u)
      PROVE  ApartInv'
  BY <1>1, <1>2, SameDevices, EditApart
<1>3. ASSUME NEW d \in Devices, NEW id \in Endpoints \cup {Default}, SetHwDevice(d, id)  PROVE ApartInv'
  <2>1. /\ Places(edit, id) \subseteq {d} /\ (d # 0 => id # Default)
        /\ Edit("settings", DeviceSet(edit, d, id))
    BY <1>3, SMT DEF SetHwDevice, MaySetDevice, Devices
  <2> QED
    BY <1>1, <2>1, DeviceSetApart, EditApart
<1>4. ASSUME NEW d \in Devices, NEW id \in Endpoints, AddHwDevice(d, id)  PROVE ApartInv'
  <2>1. /\ Places(edit, id) \subseteq {d} /\ id # Default /\ id \in Endpoints \cup {Default}
        /\ Edit("settings", DeviceSet(edit, d, id))
    BY <1>4, TableAssumption DEF AddHwDevice
  <2> QED
    BY <1>1, <2>1, DeviceSetApart, EditApart
<1>5. ASSUME NEW d \in Devices, RemoveHwDevice(d)  PROVE ApartInv'
  BY <1>1, <1>5, DeviceRemovedApart, EditApart DEF RemoveHwDevice
<1>6. ASSUME NEW d \in Devices, NEW m \in Modes, SetHwMode(d, m)  PROVE ApartInv'
  <2> DEFINE u == [edit EXCEPT !.mode[d] = m]
  <2>1. u.id = edit.id /\ u.mode = [edit.mode EXCEPT ![d] = m]
    BY <1>1 DEF Table
  <2>2. Listed(edit, d) /\ Edit("settings", u)
    BY <1>6 DEF SetHwMode
  <2> HIDE DEF u
  <2>3. \A e \in Devices : (Listed(u, e) <=> Listed(edit, e)) /\ (e # d => u.mode[e] = edit.mode[e])
    BY <1>1, <2>1 DEF Listed, Table
  <2>4. Apart(u)
    BY <1>1, <2>1, <2>2, <2>3 DEF Apart
  <2> QED
    BY <2>2, <2>4, EditApart
<1>7. ASSUME NEW n \in Streams, NEW x, Edit("settings", [edit EXCEPT !.net[n] = x])
      PROVE  ApartInv'
  <2> DEFINE u == [edit EXCEPT !.net[n] = x]
  <2>1. u.id = edit.id /\ u.mode = edit.mode
    BY <1>1 DEF Table
  <2> HIDE DEF u
  <2> QED
    BY <1>2, <1>7, <2>1 DEF u
<1>8. ASSUME NEW n \in Streams, NEW c \in Codecs, SetCodec(n, c)  PROVE ApartInv'
  <2> DEFINE k == IF edit.net[n].channels \in ChannelsOf(c) THEN edit.net[n].channels ELSE PcmChannels
  <2>1. Edit("settings", [edit EXCEPT !.net[n] = [codec |-> c, channels |-> k]])
    BY <1>1, <1>8 DEF SetCodec, Table
  <2> HIDE DEF k
  <2> QED
    BY <1>7, <2>1
<1>9. ASSUME NEW n \in Streams, NEW k, SetChannels(n, k)  PROVE ApartInv'
  <2>1. Edit("settings", [edit EXCEPT !.net[n] = [edit.net[n] EXCEPT !.channels = k]])
    BY <1>1, <1>9 DEF SetChannels, Table
  <2> QED
    BY <1>7, <2>1
<1>10. ASSUME NEW c, SetMasterClock(c)  PROVE ApartInv'
  <2>1. /\ [edit EXCEPT !.clock = c].id = edit.id
        /\ [edit EXCEPT !.clock = c].mode = edit.mode
    BY <1>1 DEF Table
  <2> QED
    BY <1>2, <1>10, <2>1 DEF SetMasterClock
<1>11. ASSUME NEW c, NEW f, SetCable(c, f)  PROVE ApartInv'
  <2>1. /\ [edit EXCEPT !.cable[c] = f].id = edit.id
        /\ [edit EXCEPT !.cable[c] = f].mode = edit.mode
    BY <1>1 DEF Table
  <2> QED
    BY <1>2, <1>11, <2>1 DEF SetCable
<1>12. ASSUME NEW x, NEW n, SetBuffer(x, n)  PROVE ApartInv'
  <2>1. /\ [edit EXCEPT !.buffer[x] = n].id = edit.id
        /\ [edit EXCEPT !.buffer[x] = n].mode = edit.mode
    BY <1>1 DEF Table
  <2> QED
    BY <1>2, <1>12, <2>1 DEF SetBuffer
<1>13. 0 \in Devices
  BY TableAssumption DEF Devices
<1> QED
  BY <1>3, <1>4, <1>5, <1>6, <1>8, <1>9, <1>10, <1>11, <1>12, <1>13
     DEF SettingsEdit, DrawNetworkStreams, DrawCableFormats

\* What a settings file has, an import or a load takes with its devices.
LEMMA WithSettingsApart ==
  ASSUME NEW t, t \in Table, NEW s, Apart(s)
  PROVE  Apart(WithSettings(t, s))
<1>1. WithSettings(t, s).id = s.id /\ WithSettings(t, s).mode = s.mode
  BY DEF WithSettings, Table
<1> QED
  BY <1>1, SameDevices

LEMMA WithRoutesApart ==
  ASSUME NEW t, t \in Table, Apart(t), NEW r
  PROVE  Apart(WithRoutes(t, r))
<1>1. WithRoutes(t, r).id = t.id /\ WithRoutes(t, r).mode = t.mode
  BY DEF WithRoutes, Table
<1> QED
  BY <1>1, SameDevices

\* A start of the Master finds the devices apart in the files.
LEMMA LoadedApart ==
  ASSUME FilesApart, side \in Directions, json \in OldFiles \cup {None},
         routes # None => GoodRoutes(routes),
         settings # None => Apart(settings)
  PROVE  Apart(Loaded)
<1> DEFINE t == DefaultTable(FirstClock)
           r == IF routes = None THEN t ELSE WithRoutes(t, routes)
           s == IF settings = None THEN r ELSE WithSettings(r, settings)
<1>1. Good(t) /\ Apart(t)
  BY DefaultGood, DefaultApart
<1> HIDE DEF t
<1>2. Good(r) /\ Apart(r)
  BY <1>1, WithRoutesGood, WithRoutesApart DEF Good
<1> HIDE DEF r
<1>3. Apart(s)
  BY <1>2, WithSettingsApart DEF Good
<1> HIDE DEF s
<1>4. Apart(LoadConfigFiles)
  BY <1>3 DEF LoadConfigFiles, s, r, t
<1>5. json # None /\ DeserializeSlots(json) => Apart(OldTable(json, side))
  BY DEF FilesApart
<1> QED
  BY <1>1, <1>4, <1>5 DEF Loaded, t

LEMMA InitApart ==
  ASSUME FilesApart, Init
  PROVE  ApartInv
<1>1. IInv
  BY InitInv
<1>2. settings # None => Apart(settings)
  <2>1. /\ Earlier(Settings(FirstTable)).id = FirstTable.id
        /\ Earlier(Settings(FirstTable)).mode = FirstTable.mode
    BY DEF Earlier, Settings
  <2>2. Apart(Earlier(Settings(FirstTable)))
    BY <2>1, SameDevices DEF FilesApart
  <2> QED
    BY <2>2 DEF Init
<1>3. Apart(Loaded)
  BY <1>1, <1>2, LoadedApart DEF Init, IInv
<1>4. table = Loaded /\ edit = None /\ text = None
  BY DEF Init
<1> QED
  BY <1>2, <1>3, <1>4 DEF ApartInv, DevicesApart

LEMMA StepApart ==
  ASSUME FilesApart, IInv, ApartInv, [Next]_vars
  PROVE  ApartInv'
<1>0. Apart(table) /\ (Open => Apart(edit)) /\ (Open => Good(edit)) /\ table \in Table
  BY BothApart DEF IInv, Good
<1>1. CASE RowEdit
  BY <1>1, RowApart
<1>2. CASE SettingsEdit
  BY <1>2, SettingsApart
<1>3. CASE ResetToDefault
  BY <1>3, DefaultApart, EditApart DEF ResetToDefault
<1>4. CASE ImportConfig
  <2>1. Open
    BY <1>4 DEF ImportConfig, Import
  <2>2. Good(edit) /\ edit \in Table /\ Apart(edit)
    BY <1>0, <2>1 DEF Good
  <2>3. routes # None => Apart(WithRoutes(edit, routes)) /\ WithRoutes(edit, routes) \in Table
    BY <2>2, WithRoutesApart, WithRoutesGood DEF Good, IInv
  <2>4. settings # None => Apart(WithSettings(edit, settings))
    BY <2>2, WithSettingsApart DEF ApartInv
  <2>5. routes # None /\ settings # None => Apart(WithSettings(WithRoutes(edit, routes), settings))
    BY <2>3, WithSettingsApart DEF ApartInv
  <2>6. json # None /\ DeserializeSlots(json) => Apart(OldTable(json, side))
    BY DEF FilesApart, IInv, TypeOK
  <2>7. ASSUME NEW t, Apart(t), Import(t)  PROVE ApartInv'
    BY <2>7, EditApart DEF Import
  <2> QED
    BY <1>4, <2>3, <2>4, <2>5, <2>6, <2>7 DEF ImportConfig
<1>5. CASE OpenPanel \/ Revert
  <2>1. edit' = table /\ UNCHANGED <<table, settings, text>>
    BY <1>5 DEF OpenPanel, Revert, fileVars
  <2> QED
    BY <2>1, <1>0 DEF ApartInv, DevicesApart, Apart, Listed
<1>6. CASE ClosePanel
  <2>1. edit' = None /\ UNCHANGED <<table, settings, text>>
    BY <1>6 DEF ClosePanel, fileVars
  <2> QED
    BY <2>1 DEF ApartInv, DevicesApart, Apart, Listed
<1>7. CASE SavePanel
  <2>1. Open /\ table' = edit /\ UNCHANGED <<edit, settings, text>>
    BY <1>7 DEF SavePanel
  <2> QED
    BY <1>0, <2>1 DEF ApartInv, DevicesApart, Apart, Listed
<1>8. ASSUME NEW ok \in BOOLEAN, WriteFile(ok)  PROVE ApartInv'
  <2>1. /\ UNCHANGED <<table, edit>> /\ text # None /\ text' \in {text, None}
        /\ settings' \in {settings, Settings(text)}
    BY <1>8 DEF WriteFile, WriteRoutes, WriteSettings
  <2>2. Settings(text).id = text.id /\ Settings(text).mode = text.mode
    BY DEF Settings
  <2>3. Apart(Settings(text))
    BY <2>1, <2>2, SameDevices DEF ApartInv
  <2> QED
    BY <2>1, <2>3 DEF ApartInv, DevicesApart, Apart, Listed
<1>9. ASSUME NEW c \in Clocks, SetSampleRate(c)  PROVE ApartInv'
  <2>1. table' = [table EXCEPT !.clock = c] /\ UNCHANGED <<edit, settings, text>>
    BY <1>9 DEF SetSampleRate
  <2>2. table'.id = table.id /\ table'.mode = table.mode
    BY <1>0, <2>1 DEF Table
  <2>3. Apart(table')
    BY <1>0, <2>2, SameDevices
  <2>4. UNCHANGED <<edit, settings, text>>
    BY <2>1
  <2> QED
    BY <2>3, <2>4 DEF ApartInv, DevicesApart, Apart, Listed
<1>10. CASE Restart
  <2>1. edit' = None /\ text' = None /\ table' \in {Loaded, table} /\ UNCHANGED settings
    BY <1>10 DEF Restart
  <2>2. Apart(Loaded)
    BY LoadedApart DEF ApartInv, IInv, TypeOK
  <2>3. Apart(table')
    BY <1>0, <2>1, <2>2
  <2> QED
    BY <2>1, <2>3 DEF ApartInv, DevicesApart, Apart, Listed
<1>11. CASE UNCHANGED vars
  BY <1>11 DEF vars, ApartInv, DevicesApart, Apart, Listed
<1>12. CASE MakeText
  <2>1. text' = table /\ UNCHANGED <<table, edit, settings>>
    BY <1>12 DEF MakeText
  <2> QED
    BY <1>0, <2>1 DEF ApartInv, DevicesApart, Apart, Listed
<1> QED
  BY <1>1, <1>2, <1>3, <1>4, <1>5, <1>6, <1>7, <1>8, <1>9, <1>10, <1>11, <1>12 DEF Next, DrawControlPanel

\* Whatever edits, imports, Saves and restarts came, no endpoint is in two
\* places of a device list and a place without a device has the first mode, if
\* it is so in the files there were to begin with: a load checks no device list
\* (SetHwDevice, AddHwDevice, AssignHw, ReadSettings).
THEOREM DevicesStayApart ==
  ASSUME FilesApart
  PROVE  Spec => []DevicesApart
<1>1. Init => ApartInv
  BY InitApart
<1>2. IInv /\ ApartInv /\ [Next]_vars => ApartInv'
  BY StepApart
<1>3. ApartInv => DevicesApart
  BY DEF ApartInv
<1> QED
  BY <1>1, <1>2, <1>3, Invariance, PTL DEF Spec

-----------------------------------------------------------------------------
(***************************************************************************)
(* What was saved comes back.                                              *)
(***************************************************************************)

\* The two files together hold a whole table.
LEMMA PartsRebuild ==
  ASSUME NEW t \in Table, NEW u \in Table
  PROVE  WithSettings(WithRoutes(t, Routes(u)), Settings(u)) = u
<1> DEFINE w == WithRoutes(t, Routes(u))
           s == Settings(u)
           cable == [c \in Cables |-> IF c \in DOMAIN s.cable THEN s.cable[c]
                                      ELSE IF c < FirstCables THEN FirstFormat
                                      ELSE w.cable[c]]
<1>1. w = [t EXCEPT !.count = u.count, !.slot = u.slot]
  BY DEF WithRoutes, Routes
<1>2. /\ s.id = u.id /\ s.mode = u.mode /\ s.cable = u.cable /\ s.net = u.net
      /\ s.buffer = u.buffer /\ s.clock = u.clock
  BY DEF Settings
<1> HIDE DEF s
<1>3. cable = u.cable
  BY <1>2 DEF Table
<1>4. WithSettings(w, s) = [w EXCEPT !.id = s.id, !.mode = s.mode, !.net = s.net, !.buffer = s.buffer,
                                     !.clock = s.clock, !.cable = cable]
  BY DEF WithSettings
<1> HIDE DEF cable, w
<1>5. WithSettings(w, s) = [t EXCEPT !.count = u.count, !.slot = u.slot, !.id = u.id, !.mode = u.mode,
                                     !.net = u.net, !.buffer = u.buffer, !.clock = u.clock, !.cable = u.cable]
  BY <1>1, <1>2, <1>3, <1>4 DEF Table
<1>6. WithSettings(w, s) = u
  BY <1>5 DEF Table
<1> QED
  BY <1>6 DEF w, s

\* An invariant of what is written: a Save takes both files out of date, and
\* each write brings one up to date, or fails (SavePanel, CommitPanelSave).
LEMMA StepWritten ==
  ASSUME IInv, WrittenInv, [Next]_vars
  PROVE  WrittenInv'
<1>1. ASSUME UNCHANGED table, UNCHANGED fileVars  PROVE WrittenInv'
  BY <1>1 DEF WrittenInv, SavedTable, Idle, fileVars, Routes, Settings
<1>2. ASSUME NEW kind, NEW t, Edit(kind, t)  PROVE WrittenInv'
  BY <1>1, <1>2 DEF Edit
<1>3. CASE RowEdit
  BY <1>2, <1>3
     DEF RowEdit, InsertRow, DuplicateRow, DeleteRow, SetLoopback, MoveRow, SourceMenu, AssignSource, AssignHw
<1>4. CASE SettingsEdit
  BY <1>2, <1>4
     DEF SettingsEdit, SetHwDevice, AddHwDevice, RemoveHwDevice, SetHwMode, DrawNetworkStreams, SetCodec, SetChannels,
         SetMasterClock, DrawCableFormats, SetCable, SetBuffer
<1>5. CASE ResetToDefault \/ ImportConfig
  BY <1>2, <1>5 DEF ResetToDefault, ImportConfig, Import
<1>6. CASE OpenPanel \/ Revert \/ ClosePanel
  BY <1>1, <1>6 DEF OpenPanel, Revert, ClosePanel
<1>7. CASE SavePanel
  <2>1. /\ Open /\ table' = edit /\ saved' = edit /\ rate' = edit.clock
        /\ saving = {} /\ saving' = {"text", "routes", "settings"} /\ text' = text
    BY <1>7 DEF SavePanel, Idle
  <2>2. [edit EXCEPT !.clock = edit.clock] = edit
    BY <2>1, OpenGood DEF Table
  <2>3. text' = None
    BY <2>1 DEF IInv
  <2> QED
    BY <2>1, <2>2, <2>3 DEF WrittenInv, SavedTable, Idle
<1>8. ASSUME NEW ok \in BOOLEAN, WriteFile(ok)  PROVE WrittenInv'
  <2> SUFFICES ASSUME ~failed', saved' # None  PROVE WrittenInv'
    BY DEF WrittenInv
  <2>1. /\ text # None /\ ok /\ ~failed /\ saved # None
        /\ SavedTable' = SavedTable /\ text = SavedTable
        /\ saving \in {{"settings"}, {"routes", "settings"}}
    BY <1>8 DEF WriteFile, WrittenInv, SavedTable, IInv
  <2>2. CASE "routes" \in saving
    <3>1. /\ saving' = {"settings"} /\ text' = text
          /\ routes' = Routes(SavedTable)
      BY <1>8, <2>1, <2>2 DEF WriteFile, WriteRoutes
    <3> QED
      BY <2>1, <3>1 DEF WrittenInv, Idle, Routes
  <2>3. CASE "routes" \notin saving
    <3>1. /\ saving' = {} /\ text' = None /\ routes' = routes
          /\ settings' = Settings(SavedTable)
      BY <1>8, <2>1, <2>3 DEF WriteFile, WriteSettings
    <3>2. routes = Routes(SavedTable)
      BY <2>1, <2>3 DEF WrittenInv
    <3> QED
      BY <2>1, <3>1, <3>2 DEF WrittenInv, Idle, Routes, Settings
  <2> QED
    BY <2>2, <2>3
<1>9. ASSUME NEW c \in Clocks, SetSampleRate(c)  PROVE WrittenInv'
  <2>1. /\ table' = [table EXCEPT !.clock = c]
        /\ UNCHANGED <<saving, text, routes, settings, saved, failed>>
        /\ "text" \in saving => rate' = c
        /\ "text" \notin saving => rate' = rate
    BY <1>9 DEF SetSampleRate
  <2> SUFFICES ASSUME ~failed, saved # None  PROVE WrittenInv'
    BY <2>1 DEF WrittenInv
  <2>2. CASE "text" \in saving
    <3>1. text = None /\ saving # {} /\ saving \cap {"text", "routes"} # {}
      BY <2>2 DEF IInv
    <3>2. saved \in Table /\ table = [saved EXCEPT !.clock = rate]
      BY <2>2 DEF WrittenInv, SavedTable, IInv, Good
    <3>3. table' = [saved EXCEPT !.clock = c]
      BY <2>1, <3>2 DEF Table
    <3> QED
      BY <2>1, <2>2, <3>1, <3>3 DEF WrittenInv, SavedTable, Idle
  <2>3. CASE "text" \notin saving
    BY <2>1, <2>3 DEF WrittenInv, SavedTable, Idle, Routes, Settings
  <2> QED
    BY <2>2, <2>3
<1>10. CASE Restart
  <2>1. /\ UNCHANGED <<routes, settings, saved, rate>> /\ (~failed' => ~failed /\ saving = {})
        /\ saving' = {} /\ text' = None
    BY <1>10 DEF Restart, Idle
  <2> QED
    BY <2>1 DEF WrittenInv, SavedTable, Idle, Routes, Settings
<1>11. CASE UNCHANGED vars
  BY <1>1, <1>11 DEF vars, fileVars
<1>12. CASE MakeText
  <2>1. /\ "text" \in saving /\ saving' = {"routes", "settings"} /\ text' = table
        /\ UNCHANGED <<table, routes, settings, saved, rate, failed>>
    BY <1>12 DEF MakeText
  <2> QED
    BY <2>1 DEF WrittenInv, SavedTable, Idle
<1> QED
  BY <1>3, <1>4, <1>5, <1>6, <1>7, <1>8, <1>9, <1>10, <1>11, <1>12 DEF Next, DrawControlPanel

\* The parts of a number made of two.
LEMMA DivisionOf ==
  ASSUME NEW a \in Nat, NEW b \in Nat, NEW n \in Nat, b < n
  PROVE  (a * n + b) \div n = a /\ (a * n + b) % n = b
<1> DEFINE x == a * n + b
           q == x \div n
           r == x % n
<1>1. x \in Int /\ q \in Int /\ r \in 0..(n - 1) /\ x = n * q + r
  OBVIOUS
<1>2. x = n * a + b
  OBVIOUS
<1> HIDE DEF x, q, r
<1>3. n * q + r = n * a + b /\ n * (a - q) = n * a - n * q /\ n * q \in Int /\ n * a \in Int
  BY <1>1, <1>2
<1>4. n * (a - q) = r - b
  BY <1>1, <1>3
<1>5. ~(a - q >= 1)
  <2>1. a - q >= 1 => n * (a - q) >= n
    BY <1>1
  <2> QED
    BY <1>1, <1>4, <2>1
<1>6. ~(a - q <= -1)
  <2>1. a - q <= -1 => n * (a - q) <= -n
    BY <1>1
  <2> QED
    BY <1>1, <1>4, <2>1
<1>7. q = a
  BY <1>1, <1>5, <1>6
<1>8. r = b
  BY <1>1, <1>3, <1>7
<1> QED
  BY <1>7, <1>8 DEF x, q, r

\* A row of an old slots.json names, when it is loaded, the cable and the side
\* that it named in the version that wrote it (DeserializeSlots).
LEMMA OldRowsConverted ==
  ASSUME IInv, json # None, DeserializeSlots(json),
         NEW i \in Rows(OldTable(json, side)), OldTable(json, side).slot[i].type = "virtual"
  PROVE  LET was  == List(json, side)[i].srcChannel
             is   == OldTable(json, side).slot[i].src
             wide == IF "cables" \in DOMAIN json.general THEN CableChannels ELSE 2
         IN is \div CableChannels = was \div wide /\ is % CableChannels = was % wide
<1> DEFINE o == List(json, side)[i]
           was == o.srcChannel
           is == OldTable(json, side).slot[i].src
<1>1. side \in Directions /\ json \in OldFiles /\ Parses(json)
  BY DEF IInv, TypeOK, DeserializeSlots
<1>2. i \in Index /\ i <= Count(json, side) /\ i \in DOMAIN List(json, side)
  <2>1. i \in Index /\ i <= Count(json, side) /\ Len(List(json, side)) = Count(json, side)
    BY <1>1 DEF Rows, OldTable, Parses, ParseList
  <2> QED
    BY <2>1, TableAssumption DEF Index
<1>3. was \in Nat
  BY <1>1, <1>2, PanelAssumption
<1>4. OldTable(json, side).slot[i] = ReadSlot(json, o)
  BY <1>2 DEF OldTable
<1>5. o.type = "virtual" /\ is = Converted(json, o)
  BY <1>4 DEF ReadSlot
<1> HIDE DEF is, was, o
<1>6. CASE "cables" \in DOMAIN json.general
  BY <1>5, <1>6 DEF Converted, was, is, o
<1>7. CASE "cables" \notin DOMAIN json.general
  <2>1. is = (was \div 2) * CableChannels + (was % 2)
    BY <1>5, <1>7 DEF Converted, was
  <2>2. was \div 2 \in Nat /\ was % 2 \in 0..1
    BY <1>3
  <2>3. is \div CableChannels = was \div 2 /\ is % CableChannels = was % 2
    <3> DEFINE a == was \div 2
               b == was % 2
    <3>1. a \in Nat /\ b \in Nat /\ CableChannels \in Nat /\ b < CableChannels
      BY <2>2, SidesAssumption
    <3> HIDE DEF a, b
    <3>2. (a * CableChannels + b) \div CableChannels = a /\ (a * CableChannels + b) % CableChannels = b
      BY <3>1, DivisionOf, Zenon
    <3> QED
      BY <2>1, <3>2 DEF a, b
  <2> QED
    BY <1>7, <2>3 DEF was, is, o
<1> QED
  BY <1>6, <1>7

\* Between Saves, a start of the Master finds what the last Save put in the
\* table, if both its files were written, with nothing of the default table or
\* of an old file in it, and with no rate a DAW set but one that came between
\* the copy and its text (SavePanel, CommitPanelSave, LoadConfigFiles).
THEOREM SavedComesBack == Spec => []SavedReloads
<1>1. Init => WrittenInv
  BY DEF Init, WrittenInv
<1>2. IInv /\ WrittenInv /\ [Next]_vars => WrittenInv'
  BY StepWritten
<1>3. IInv /\ WrittenInv => SavedReloads
  <2> SUFFICES ASSUME IInv, WrittenInv, Idle, ~failed, saved # None
               PROVE  Loaded = SavedTable
    BY DEF SavedReloads
  <2>1. routes = Routes(SavedTable) /\ settings = Settings(SavedTable)
    BY DEF WrittenInv, Idle
  <2>2. Good(SavedTable) /\ SavedTable \in Table
    <3>1. Good(saved) /\ saved \in Table /\ rate \in Clocks
      BY DEF IInv, Good, TypeOK
    <3>2. /\ SavedTable \in Table /\ SavedTable.count = saved.count /\ SavedTable.slot = saved.slot
          /\ SavedTable.net = saved.net /\ SavedTable.buffer = saved.buffer
      BY <3>1 DEF SavedTable, Table
    <3> QED
      BY <3>1, <3>2, SameChecksGood
  <2>3. routes # None /\ settings # None
    BY <2>1, <2>2, PartsGood, PartsAssumption DEF GoodRoutes, GoodSettings
  <2>4. DefaultTable(FirstClock) \in Table
    BY DefaultGood DEF Good
  <2>5. LoadConfigFiles = SavedTable
    BY <2>1, <2>2, <2>3, <2>4, PartsRebuild DEF LoadConfigFiles
  <2> QED
    BY <2>2, <2>3, <2>5 DEF Loaded, Good
<1> QED
  BY <1>1, <1>2, <1>3, Invariance, PTL DEF Spec

\* In every behaviour, with the last: until a Save writes a file, every start plays
\* the rows of an old slots.json from the cables and sides they named in the version
\* that wrote it (LoadConfigFiles, DeserializeSlots).
THEOREM FilesComeBack == Spec => []ReloadsSaved
<1>1. IInv /\ SavedReloads => ReloadsSaved
  <2> SUFFICES ASSUME IInv, routes = None, settings = None, json # None, DeserializeSlots(json),
                      NEW i \in Rows(Loaded), Loaded.slot[i].type = "virtual"
               PROVE  LET was  == List(json, side)[i].srcChannel
                          is   == Loaded.slot[i].src
                          wide == IF "cables" \in DOMAIN json.general THEN CableChannels ELSE 2
                      IN is \div CableChannels = was \div wide /\ is % CableChannels = was % wide
    BY DEF ReloadsSaved
  <2>1. Loaded = OldTable(json, side)
    BY DEF Loaded
  <2> QED
    BY <2>1, OldRowsConverted
<1> QED
  BY <1>1, Invariance, SavedComesBack, PTL

-----------------------------------------------------------------------------
(***************************************************************************)
(* What an edit leaves alone.                                              *)
(***************************************************************************)

\* A row that is elsewhere with its slot, in a table of the same devices, means
\* what it meant.
LEMMA SlotKept ==
  ASSUME NEW t, NEW u, NEW i, NEW j, u.slot[j] = t.slot[i], u.id = t.id
  PROVE  Kept(t, u, i, j)
BY DEF Kept, Means

\* What a row edit does to a list, and that it leaves no row on a device that
\* is not listed, unless one was.
OrphansWere(t, u) ==
  \A i \in Rows(u) : Orphan(u, i) => \E j \in Rows(t) : Orphan(t, j) /\ t.slot[j] = u.slot[i]

RowChange(t, u) == OneChanged(t, u) \/ OneIn(t, u) \/ OneOut(t, u) \/ OneMoved(t, u)

LEMMA SameOrphan ==
  ASSUME NEW t, NEW u, NEW i, NEW j, u.slot[i] = t.slot[j], u.id = t.id, Orphan(u, i)
  PROVE  Orphan(t, j)
BY DEF Orphan, Listed

LEMMA InsertedKeeps ==
  ASSUME NEW t, Good(t), t.count < kMax, NEW i \in 1..(t.count + 1), NEW s \in Slot,
         s.type # "hw" \/ (\E j \in Rows(t) : t.slot[j] = s)
  PROVE  RowChange(t, Inserted(t, i, s)) /\ OrphansWere(t, Inserted(t, i, s))
<1> DEFINE u == Inserted(t, i, s)
<1>1. kMax \in Nat /\ t.count \in Nat /\ t.count <= kMax /\ t.slot \in [Index -> Slot] /\ t \in Table
  BY GoodRows DEF Good
<1>2. /\ u.count = t.count + 1 /\ u.id = t.id
      /\ u.slot = [k \in Index |-> IF k = i THEN s
                                   ELSE IF i < k /\ k <= t.count + 1 THEN t.slot[k - 1]
                                   ELSE t.slot[k]]
  BY <1>1 DEF Inserted, Table
<1> HIDE DEF u
<1>3. i \in Rows(u)
  BY <1>1, <1>2 DEF Rows, Index
<1>4. ASSUME NEW j \in Rows(t)  PROVE Kept(t, u, j, IF j < i THEN j ELSE j + 1)
  <2>1. j \in Nat /\ j >= 1 /\ j <= t.count
    BY DEF Rows, Index
  <2>2. CASE j < i
    <3>1. u.slot[j] = t.slot[j]
      BY <1>1, <1>2, <2>1, <2>2 DEF Index
    <3> QED
      BY <1>2, <2>2, <3>1, SlotKept
  <2>3. CASE ~(j < i)
    <3>1. j + 1 \in Index /\ i < j + 1 /\ j + 1 <= t.count + 1 /\ (j + 1) - 1 = j
      BY <1>1, <2>1, <2>3 DEF Index
    <3>2. u.slot[j + 1] = t.slot[j]
      BY <1>1, <1>2, <3>1
    <3> QED
      BY <1>2, <2>3, <3>2, SlotKept
  <2> QED
    BY <2>2, <2>3
<1>5. OneIn(t, u)
  BY <1>2, <1>3, <1>4 DEF OneIn
<1>6. ASSUME NEW k \in Rows(u), Orphan(u, k)
      PROVE  \E j \in Rows(t) : Orphan(t, j) /\ t.slot[j] = u.slot[k]
  <2>1. k \in Nat /\ k >= 1 /\ k <= t.count + 1 /\ k \in Index
    BY <1>2 DEF Rows, Index
  <2>2. PICK j \in Rows(t) : t.slot[j] = u.slot[k]
    <3>1. CASE k = i
      BY <1>2, <1>6, <2>1, <3>1 DEF Orphan
    <3>2. CASE i < k
      <4>1. k - 1 \in Rows(t)
        BY <1>1, <2>1, <3>2 DEF Rows, Index
      <4>2. u.slot[k] = t.slot[k - 1]
        BY <1>1, <1>2, <2>1, <3>2
      <4> QED
        BY <4>1, <4>2
    <3>3. CASE k < i
      <4>1. k \in Rows(t)
        BY <1>1, <2>1, <3>3 DEF Rows, Index
      <4>2. u.slot[k] = t.slot[k]
        BY <1>1, <1>2, <2>1, <3>3
      <4> QED
        BY <4>1, <4>2
    <3> QED
      BY <1>1, <2>1, <3>1, <3>2, <3>3
  <2> QED
    BY <1>2, <1>6, <2>2, SameOrphan
<1> QED
  BY <1>5, <1>6 DEF RowChange, OrphansWere, u

LEMMA DeletedKeeps ==
  ASSUME NEW t, Good(t), t.count > 1, NEW i \in Rows(t)
  PROVE  RowChange(t, Deleted(t, i)) /\ OrphansWere(t, Deleted(t, i))
<1> DEFINE u == Deleted(t, i)
<1>1. kMax \in Nat /\ t.count \in Nat /\ t.count <= kMax /\ t.slot \in [Index -> Slot] /\ t \in Table
  BY GoodRows DEF Good
<1>2. /\ u.count = t.count - 1 /\ u.id = t.id
      /\ u.slot = [k \in Index |-> IF k = t.count THEN NoSlot
                                   ELSE IF i <= k /\ k < t.count THEN t.slot[k + 1]
                                   ELSE t.slot[k]]
  BY <1>1 DEF Deleted, Table
<1> HIDE DEF u
<1>3. i \in Nat /\ i >= 1 /\ i <= t.count
  BY DEF Rows, Index
<1>4. ASSUME NEW j \in Rows(t) \ {i}  PROVE Kept(t, u, j, IF j < i THEN j ELSE j - 1)
  <2>1. j \in Nat /\ j >= 1 /\ j <= t.count /\ j # i
    BY DEF Rows, Index
  <2>2. CASE j < i
    <3>1. u.slot[j] = t.slot[j]
      BY <1>1, <1>2, <1>3, <2>1, <2>2 DEF Index
    <3> QED
      BY <1>2, <2>2, <3>1, SlotKept
  <2>3. CASE ~(j < i)
    <3>1. j - 1 \in Index /\ i <= j - 1 /\ j - 1 < t.count /\ j - 1 # t.count /\ (j - 1) + 1 = j
      BY <1>1, <1>3, <2>1, <2>3 DEF Index
    <3>2. u.slot[j - 1] = t.slot[j]
      BY <1>1, <1>2, <3>1
    <3> QED
      BY <1>2, <2>3, <3>2, SlotKept
  <2> QED
    BY <2>2, <2>3
<1>5. OneOut(t, u)
  <2>1. t.count = u.count + 1
    BY <1>1, <1>2
  <2> QED
    BY <1>4, <2>1 DEF OneOut
<1>6. ASSUME NEW k \in Rows(u), Orphan(u, k)
      PROVE  \E j \in Rows(t) : Orphan(t, j) /\ t.slot[j] = u.slot[k]
  <2>1. k \in Nat /\ k >= 1 /\ k < t.count /\ k \in Index
    BY <1>1, <1>2 DEF Rows, Index
  <2>2. PICK j \in Rows(t) : t.slot[j] = u.slot[k]
    <3>1. CASE i <= k
      <4>1. k + 1 \in Rows(t)
        BY <1>1, <2>1 DEF Rows, Index
      <4>2. u.slot[k] = t.slot[k + 1]
        BY <1>1, <1>2, <2>1, <3>1
      <4> QED
        BY <4>1, <4>2
    <3>2. CASE ~(i <= k)
      <4>1. k \in Rows(t)
        BY <1>1, <2>1 DEF Rows, Index
      <4>2. u.slot[k] = t.slot[k]
        BY <1>1, <1>2, <2>1, <3>2
      <4> QED
        BY <4>1, <4>2
    <3> QED
      BY <3>1, <3>2
  <2> QED
    BY <1>2, <1>6, <2>2, SameOrphan
<1> QED
  BY <1>5, <1>6 DEF RowChange, OrphansWere, u

LEMMA MovedKeeps ==
  ASSUME NEW t, Good(t), NEW i \in Rows(t), NEW k \in Rows(t)
  PROVE  RowChange(t, Moved(t, i, k)) /\ OrphansWere(t, Moved(t, i, k))
<1> DEFINE u == Moved(t, i, k)
<1>1. kMax \in Nat /\ t.count \in Nat /\ t.count <= kMax /\ t.slot \in [Index -> Slot] /\ t \in Table
  BY GoodRows DEF Good
<1>2. /\ u.count = t.count /\ u.id = t.id
      /\ u.slot = [n \in Index |-> IF n = k THEN t.slot[i]
                                   ELSE IF i <= n /\ n < k THEN t.slot[n + 1]
                                   ELSE IF k < n /\ n <= i THEN t.slot[n - 1]
                                   ELSE t.slot[n]]
  BY <1>1 DEF Moved, Table
<1> HIDE DEF u
<1>3. /\ i \in Nat /\ i >= 1 /\ i <= t.count /\ i \in Index
      /\ k \in Nat /\ k >= 1 /\ k <= t.count /\ k \in Index
  BY DEF Rows, Index
<1>4. ASSUME NEW j \in Rows(t) \ {i}
      PROVE  LET r == IF j < i THEN j ELSE j - 1 IN Kept(t, u, j, IF r < k THEN r ELSE r + 1)
  <2> DEFINE r == IF j < i THEN j ELSE j - 1
             n == IF r < k THEN r ELSE r + 1
  <2>1. j \in Nat /\ j >= 1 /\ j <= t.count /\ j # i /\ j \in Index
    BY DEF Rows, Index
  <2>2. u.slot[n] = t.slot[j]
    <3>1. CASE j < i /\ j < k
      BY <1>2, <1>3, <2>1, <3>1
    <3>2. CASE j < i /\ ~(j < k)
      <4>1. n = j + 1 /\ n \in Index /\ n # k /\ ~(i <= n /\ n < k) /\ k < n /\ n <= i /\ n - 1 = j
        BY <1>1, <1>3, <2>1, <3>2 DEF Index
      <4> HIDE DEF n
      <4> QED
        BY <1>2, <4>1
    <3>3. CASE ~(j < i) /\ j - 1 < k
      <4>1. n = j - 1 /\ n \in Index /\ n # k /\ i <= n /\ n < k /\ n + 1 = j
        BY <1>1, <1>3, <2>1, <3>3 DEF Index
      <4> HIDE DEF n
      <4> QED
        BY <1>2, <4>1
    <3>4. CASE ~(j < i) /\ ~(j - 1 < k)
      <4>1. n = j /\ n # k /\ ~(i <= n /\ n < k) /\ ~(k < n /\ n <= i)
        BY <1>1, <1>3, <2>1, <3>4
      <4> HIDE DEF n
      <4> QED
        BY <1>2, <2>1, <4>1
    <3> QED
      BY <3>1, <3>2, <3>3, <3>4
  <2> HIDE DEF n
  <2>3. Kept(t, u, j, n)
    BY <1>2, <2>2, SlotKept
  <2> QED
    BY <2>3 DEF n
<1>5. Kept(t, u, i, k)
  BY <1>2, <1>3, SlotKept
<1>6. OneMoved(t, u)
  BY <1>2, <1>4, <1>5 DEF OneMoved
<1>7. ASSUME NEW n \in Rows(u), Orphan(u, n)
      PROVE  \E j \in Rows(t) : Orphan(t, j) /\ t.slot[j] = u.slot[n]
  <2>1. n \in Nat /\ n >= 1 /\ n <= t.count /\ n \in Index
    BY <1>2 DEF Rows, Index
  <2>2. PICK j \in Rows(t) : t.slot[j] = u.slot[n]
    <3>1. CASE n = k
      BY <1>2, <1>3, <3>1
    <3>2. CASE n # k /\ i <= n /\ n < k
      <4>1. n + 1 \in Rows(t)
        BY <1>1, <1>3, <2>1, <3>2 DEF Rows, Index
      <4> QED
        BY <1>2, <2>1, <3>2, <4>1
    <3>3. CASE n # k /\ ~(i <= n /\ n < k) /\ k < n /\ n <= i
      <4>1. n - 1 \in Rows(t)
        BY <1>1, <1>3, <2>1, <3>3 DEF Rows, Index
      <4> QED
        BY <1>2, <2>1, <3>3, <4>1
    <3>4. CASE n # k /\ ~(i <= n /\ n < k) /\ ~(k < n /\ n <= i)
      <4>1. n \in Rows(t)
        BY <2>1 DEF Rows
      <4> QED
        BY <1>2, <2>1, <3>4, <4>1
    <3> QED
      BY <3>1, <3>2, <3>3, <3>4
  <2> QED
    BY <1>2, <1>7, <2>2, SameOrphan
<1> QED
  BY <1>6, <1>7 DEF RowChange, OrphansWere, u

\* One row takes another slot, in a table of the same devices.
LEMMA SlotSetKeeps ==
  ASSUME NEW t, Good(t), NEW i \in Rows(t), NEW u, u.count = t.count, u.id = t.id,
         \A j \in Index \ {i} : u.slot[j] = t.slot[j], u.slot[i].type # "hw"
  PROVE  RowChange(t, u) /\ OrphansWere(t, u)
<1>1. \A j \in Rows(t) \ {i} : Kept(t, u, j, j)
  BY SlotKept DEF Rows
<1>2. OneChanged(t, u)
  BY <1>1 DEF OneChanged
<1>3. ASSUME NEW k \in Rows(u), Orphan(u, k)
      PROVE  \E j \in Rows(t) : Orphan(t, j) /\ t.slot[j] = u.slot[k]
  <2>1. k # i
    BY <1>3 DEF Orphan
  <2>2. k \in Rows(t) /\ k \in Index
    BY DEF Rows
  <2> QED
    BY <1>3, <2>1, <2>2, SameOrphan
<1> QED
  BY <1>2, <1>3 DEF RowChange, OrphansWere

\* The slot that Assigned gives a row.
Sourced(t, s, type, src, stream) == [Retyped(t, s, type) EXCEPT !.src = src, !.stream = stream]

LEMMA AssignedIs ==
  ASSUME NEW t \in Table, NEW i \in Index, NEW type, NEW src, NEW stream,
         NEW u, u = Assigned(t, i, type, src, stream)
  PROVE  /\ u.count = t.count /\ u.id = t.id
         /\ \A j \in Index \ {i} : u.slot[j] = t.slot[j]
         /\ u.slot[i] = Sourced(t, t.slot[i], type, src, stream)
BY DEF Assigned, Table, Sourced

\* A slot of a type: the type is the one it was given.
LEMMA RetypedIs ==
  ASSUME NEW t, NEW s \in Slot, NEW type, NEW src, NEW stream
  PROVE  Sourced(t, s, type, src, stream).type = type /\ Sourced(t, s, type, src, stream).stream = stream
<1> DEFINE loopback == s.loopback /\ type = "virtual"
           src0 == IF s.src < HwChannels THEN s.src ELSE 0
           stream0 == IF s.stream \in Devices /\ Listed(t, s.stream) THEN s.stream ELSE 0
<1>1. CASE type # "hw"
  <2>1. Retyped(t, s, type) = [s EXCEPT !.type = type, !.loopback = loopback]
    BY <1>1 DEF Retyped
  <2> HIDE DEF loopback
  <2> QED
    BY <2>1 DEF Slot, Sourced
<1>2. CASE type = "hw"
  <2>1. Retyped(t, s, type) = [type |-> type, loopback |-> loopback, src |-> src0, stream |-> stream0]
    BY <1>2 DEF Retyped
  <2> HIDE DEF loopback, src0, stream0
  <2> QED
    BY <2>1 DEF Sourced
<1> QED
  BY <1>1, <1>2

\* A row takes a source of HW: of the others, those on the place that changes
\* its endpoint had no device there (AssignHw).
LEMMA HwAssignedKeeps ==
  ASSUME NEW t, Good(t), NEW i \in Rows(t), NEW id \in Endpoints \cup {Default}, NEW src,
         NEW d \in Devices, PlaceFor(t, i, id, d)
  PROVE  RowChange(t, HwAssigned(t, i, id, src, d)) /\ OrphansWere(t, HwAssigned(t, i, id, src, d))
<1> DEFINE v == DeviceSet(t, d, id)
           u == HwAssigned(t, i, id, src, d)
<1>1. t \in Table /\ t.id \in [Devices -> Endpoints \cup {Default}] /\ i \in Index
      /\ t.slot \in [Index -> Slot]
  BY GoodRows DEF Good, Table, Rows
<1>2. v \in Table /\ v.count = t.count /\ v.slot = t.slot /\ v.id = [t.id EXCEPT ![d] = id]
  BY <1>1 DEF DeviceSet, Table
<1>3. u = Assigned(v, i, "hw", src, d)
  BY DEF HwAssigned
<1> HIDE DEF u, v
<1>4. /\ u.count = t.count /\ u.id = [t.id EXCEPT ![d] = id]
      /\ \A j \in Index \ {i} : u.slot[j] = t.slot[j]
      /\ u.slot[i].type = "hw" /\ u.slot[i].stream = d
  <2>1. /\ u.count = v.count /\ u.id = v.id
        /\ \A j \in Index \ {i} : u.slot[j] = v.slot[j]
        /\ u.slot[i] = Sourced(v, v.slot[i], "hw", src, d)
    BY <1>1, <1>2, <1>3, AssignedIs
  <2>2. v.slot[i] \in Slot
    BY <1>1, <1>2
  <2>3. u.slot[i].type = "hw" /\ u.slot[i].stream = d
    BY <2>1, <2>2, RetypedIs
  <2> QED
    BY <1>2, <2>1, <2>3
<1>5. d = 0 \/ id # Default
  BY DEF PlaceFor, Places, Listed
<1>6. \A e \in Devices \ {d} : u.id[e] = t.id[e] /\ (Listed(u, e) <=> Listed(t, e))
  BY <1>1, <1>4 DEF Listed
<1>7. u.id[d] = id /\ Listed(u, d)
  BY <1>1, <1>4, <1>5 DEF Listed
<1>8. 0 \in Devices
  BY TableAssumption DEF Devices
<1>9. ASSUME NEW j \in Rows(t) \ {i}  PROVE Kept(t, u, j, j)
  <2> DEFINE e == DeviceOf(t.slot[j])
  <2>1. u.slot[j] = t.slot[j] /\ e \in Devices
    BY <1>4, <1>8 DEF Rows, DeviceOf
  <2>2. CASE t.slot[j].type # "hw" \/ e # d
    BY <1>6, <2>1, <2>2 DEF Kept, Means
  <2>3. CASE t.slot[j].type = "hw" /\ e = d
    <3>1. CASE Places(t, id) # {}
      <4>1. t.id[d] = id
        BY <3>1 DEF PlaceFor, Places
      <4> QED
        BY <1>7, <2>1, <2>3, <4>1 DEF Kept, Means
    <3>2. CASE Places(t, id) = {} /\ ZeroFree(t, i)
      <4>1. j \in Users(t, 0)
        BY <2>3, <3>2 DEF PlaceFor, Users
      <4> QED
        BY <3>2, <4>1 DEF ZeroFree
    <3>3. CASE Places(t, id) = {} /\ ~ZeroFree(t, i)
      <4>1. ~Listed(t, d)
        BY <3>3 DEF PlaceFor, IsFree
      <4> QED
        BY <2>3, <4>1 DEF Kept, Orphan
    <3> QED
      BY <3>1, <3>2, <3>3
  <2> QED
    BY <2>2, <2>3
<1>10. OneChanged(t, u)
  BY <1>4, <1>9 DEF OneChanged
<1>11. ASSUME NEW k \in Rows(u), Orphan(u, k)
       PROVE  Orphan(t, k) /\ t.slot[k] = u.slot[k] /\ k \in Rows(t)
  <2>1. k \in Rows(t) /\ k \in Index
    BY <1>4 DEF Rows
  <2>2. k # i
    BY <1>4, <1>7, <1>11 DEF Orphan, DeviceOf
  <2>3. u.slot[k] = t.slot[k]
    BY <1>4, <2>1, <2>2
  <2>4. DeviceOf(u.slot[k]) \in Devices \ {d}
    BY <1>7, <1>8, <1>11 DEF Orphan, DeviceOf
  <2> QED
    BY <1>6, <1>11, <2>1, <2>3, <2>4 DEF Orphan
<1> QED
  BY <1>10, <1>11 DEF RowChange, OrphansWere, u

\* A row edit changes one row, and takes no device from another.
LEMMA RowKeeps ==
  ASSUME IInv, RowEdit
  PROVE  RowChange(edit, edit') /\ OrphansWere(edit, edit')
<1>0. Open
  BY DEF RowEdit
<1>1. Good(edit) /\ edit \in Table /\ edit.slot \in [Index -> Slot]
  BY <1>0, OpenGood
<1>2. ASSUME NEW i \in 1..(kMax + 1), InsertRow(i)
      PROVE  RowChange(edit, edit') /\ OrphansWere(edit, edit')
  <2>1. edit.count < kMax /\ i \in 1..(edit.count + 1) /\ edit' = Inserted(edit, i, NoSlot)
    BY <1>2 DEF InsertRow, Edit
  <2>2. NoSlot.type # "hw"
    BY DEF NoSlot
  <2> QED
    BY <1>1, <2>1, <2>2, NoSlotGood, InsertedKeeps
<1>3. ASSUME NEW i \in Index, DuplicateRow(i)
      PROVE  RowChange(edit, edit') /\ OrphansWere(edit, edit')
  <2>1. edit.count < kMax /\ i \in Rows(edit) /\ edit' = Inserted(edit, i + 1, edit.slot[i])
    BY <1>3 DEF DuplicateRow, Edit
  <2>2. i + 1 \in 1..(edit.count + 1) /\ edit.slot[i] \in Slot
    <3>1. edit.count \in Nat /\ kMax \in Nat
      BY <1>1, GoodRows
    <3> QED
      BY <1>1, <2>1, <3>1 DEF Rows, Index
  <2> QED
    BY <1>1, <2>1, <2>2, InsertedKeeps
<1>4. ASSUME NEW i \in Index, DeleteRow(i)
      PROVE  RowChange(edit, edit') /\ OrphansWere(edit, edit')
  BY <1>1, <1>4, DeletedKeeps DEF DeleteRow, Edit
<1>5. ASSUME NEW i \in Index, SetLoopback(i)
      PROVE  RowChange(edit, edit') /\ OrphansWere(edit, edit')
  <2>1. /\ i \in Rows(edit) /\ edit.slot[i].type = "virtual"
        /\ edit' = [edit EXCEPT !.slot[i].loopback = ~@]
    BY <1>5 DEF SetLoopback, Edit
  <2>2. edit.slot[i] \in Slot
    BY <1>1
  <2>3. /\ edit'.count = edit.count /\ edit'.id = edit.id
        /\ \A j \in Index \ {i} : edit'.slot[j] = edit.slot[j]
        /\ edit'.slot[i].type = edit.slot[i].type
    BY <1>1, <2>1, <2>2 DEF Table, Slot
  <2>4. edit'.slot[i].type # "hw"
    BY <2>1, <2>3
  <2> DEFINE u == edit'
  <2> HIDE DEF u
  <2>5. u.count = edit.count /\ u.id = edit.id /\ u.slot[i].type # "hw"
        /\ \A j \in Index \ {i} : u.slot[j] = edit.slot[j]
    BY <2>3, <2>4 DEF u
  <2>6. RowChange(edit, u) /\ OrphansWere(edit, u)
    BY <1>1, <2>1, <2>5, SlotSetKeeps
  <2> QED
    BY <2>6 DEF u
<1>6. ASSUME NEW i \in Index, NEW j \in Index, MoveRow(i, j)
      PROVE  RowChange(edit, edit') /\ OrphansWere(edit, edit')
  BY <1>1, <1>6, MovedKeeps DEF MoveRow, Edit
<1>7. ASSUME NEW i \in Index, NEW type, NEW src, NEW stream, AssignSource(i, type, src, stream)
      PROVE  RowChange(edit, edit') /\ OrphansWere(edit, edit')
  <2>1. type # "hw" /\ i \in Rows(edit) /\ edit' = Assigned(edit, i, type, src, stream)
    BY <1>7 DEF AssignSource, MayAssign, Edit
  <2> DEFINE u == Assigned(edit, i, type, src, stream)
  <2> HIDE DEF u
  <2>2. edit.slot[i] \in Slot
    BY <1>1
  <2>3. /\ u.count = edit.count /\ u.id = edit.id
        /\ \A j \in Index \ {i} : u.slot[j] = edit.slot[j]
        /\ u.slot[i] = Sourced(edit, edit.slot[i], type, src, stream)
    BY <1>1, AssignedIs DEF u
  <2>4. u.slot[i].type # "hw"
    BY <2>1, <2>2, <2>3, RetypedIs
  <2>5. RowChange(edit, u) /\ OrphansWere(edit, u)
    <3>1. u.count = edit.count /\ u.id = edit.id /\ \A j \in Index \ {i} : u.slot[j] = edit.slot[j]
      BY <2>3
    <3> QED
      BY <1>1, <2>1, <2>4, <3>1, SlotSetKeeps
  <2> QED
    BY <2>1, <2>5 DEF u
<1>8. ASSUME NEW i \in Index, NEW id \in Endpoints \cup {Default}, NEW src, AssignHw(i, id, src)
      PROVE  RowChange(edit, edit') /\ OrphansWere(edit, edit')
  <2>1. PICK d \in Devices : PlaceFor(edit, i, id, d) /\ edit' = HwAssigned(edit, i, id, src, d)
    BY <1>8 DEF AssignHw, Edit
  <2>2. i \in Rows(edit)
    BY <1>8 DEF AssignHw
  <2> QED
    BY <1>1, <2>1, <2>2, HwAssignedKeeps
<1> QED
  BY <1>2, <1>3, <1>4, <1>5, <1>6, <1>7, <1>8 DEF RowEdit, SourceMenu

\* What a settings edit leaves of the rows: all but the users of one device.
OneDevice(t, u) ==
  \E d \in Devices : \A i \in Rows(t) : i \in Users(t, d) \/ Kept(t, u, i, i)

LEMMA SameRowsKeep ==
  ASSUME NEW t, NEW u, u.count = t.count, u.slot = t.slot, u.id = t.id
  PROVE  OneDevice(t, u) /\ OrphansWere(t, u)
<1>1. 0 \in Devices
  BY TableAssumption DEF Devices
<1>2. \A i \in Rows(t) : Kept(t, u, i, i)
  BY SlotKept
<1>3. Rows(u) = Rows(t)
  BY DEF Rows
<1>4. OrphansWere(t, u)
  BY <1>3, SameOrphan DEF OrphansWere
<1> QED
  BY <1>1, <1>2, <1>4 DEF OneDevice

LEMMA DeviceSetKeeps ==
  ASSUME NEW t \in Table, NEW d \in Devices, NEW id \in Endpoints \cup {Default}, d # 0 => id # Default
  PROVE  OneDevice(t, DeviceSet(t, d, id)) /\ OrphansWere(t, DeviceSet(t, d, id))
<1> DEFINE u == DeviceSet(t, d, id)
<1>1. /\ u.count = t.count /\ u.slot = t.slot /\ u.id = [t.id EXCEPT ![d] = id]
      /\ t.id \in [Devices -> Endpoints \cup {Default}] /\ 0 \in Devices
  BY TableAssumption DEF DeviceSet, Table, Devices
<1> HIDE DEF u
<1>2. \A e \in Devices \ {d} : u.id[e] = t.id[e] /\ (Listed(u, e) <=> Listed(t, e))
  BY <1>1 DEF Listed
<1>3. Listed(u, d)
  BY <1>1 DEF Listed
<1>4. \A s : DeviceOf(s) \in Devices
  BY <1>1 DEF DeviceOf
<1>5. ASSUME NEW i \in Rows(t), i \notin Users(t, d)  PROVE Kept(t, u, i, i)
  BY <1>1, <1>2, <1>4, <1>5 DEF Users, Kept, Means
<1>6. ASSUME NEW i \in Rows(u), Orphan(u, i)
      PROVE  i \in Rows(t) /\ Orphan(t, i) /\ t.slot[i] = u.slot[i]
  BY <1>1, <1>2, <1>3, <1>4, <1>6 DEF Rows, Orphan
<1> QED
  BY <1>5, <1>6 DEF OneDevice, OrphansWere, u

LEMMA DeviceRemovedKeeps ==
  ASSUME NEW t \in Table, NEW d \in Devices, d # 0
  PROVE  OneDevice(t, DeviceRemoved(t, d)) /\ OrphansWere(t, DeviceRemoved(t, d))
<1> DEFINE u == DeviceRemoved(t, d)
           emptied(i) == [t.slot[i] EXCEPT !.type = "none", !.src = 0, !.stream = 0]
<1>1. /\ u.count = t.count /\ u.id = [t.id EXCEPT ![d] = Default]
      /\ \A i \in Index : u.slot[i] = IF i \in Users(t, d) THEN emptied(i) ELSE t.slot[i]
      /\ t.id \in [Devices -> Endpoints \cup {Default}] /\ 0 \in Devices
      /\ t.slot \in [Index -> Slot]
  BY TableAssumption DEF DeviceRemoved, Table, Devices
<1> HIDE DEF u
<1>2. \A e \in Devices \ {d} : u.id[e] = t.id[e] /\ (Listed(u, e) <=> Listed(t, e))
  BY <1>1 DEF Listed
<1>3. \A s : DeviceOf(s) \in Devices
  BY <1>1 DEF DeviceOf
<1>4. \A i \in Index : emptied(i).type = "none"
  BY <1>1 DEF Slot
<1> HIDE DEF emptied
<1>5. ASSUME NEW i \in Rows(t), i \notin Users(t, d)  PROVE Kept(t, u, i, i)
  <2>1. u.slot[i] = t.slot[i]
    BY <1>1, <1>5 DEF Rows
  <2> QED
    BY <1>2, <1>3, <1>5, <2>1 DEF Users, Kept, Means
<1>6. ASSUME NEW i \in Rows(u), Orphan(u, i)
      PROVE  i \in Rows(t) /\ Orphan(t, i) /\ t.slot[i] = u.slot[i]
  <2>1. i \in Rows(t) /\ i \in Index
    BY <1>1 DEF Rows
  <2>2. i \notin Users(t, d)
    BY <1>1, <1>4, <1>6, <2>1 DEF Orphan
  <2>3. u.slot[i] = t.slot[i]
    BY <1>1, <2>1, <2>2
  <2>4. DeviceOf(t.slot[i]) # d
    BY <1>6, <2>1, <2>2, <2>3 DEF Users, Orphan
  <2> QED
    BY <1>2, <1>3, <1>6, <2>1, <2>3, <2>4 DEF Orphan
<1> QED
  BY <1>5, <1>6 DEF OneDevice, OrphansWere, u

\* A settings edit changes the rows of one device at most.
LEMMA SettingsKeep ==
  ASSUME IInv, SettingsEdit
  PROVE  OneDevice(edit, edit') /\ OrphansWere(edit, edit')
<1>0. Open
  BY DEF SettingsEdit
<1>1. edit \in Table
  BY <1>0, OpenGood
<1>2. ASSUME NEW u, u.count = edit.count, u.slot = edit.slot, u.id = edit.id, Edit("settings", u)
      PROVE  OneDevice(edit, edit') /\ OrphansWere(edit, edit')
  BY <1>2, SameRowsKeep DEF Edit
<1>3. ASSUME NEW d \in Devices, NEW id \in Endpoints \cup {Default}, SetHwDevice(d, id)
      PROVE  OneDevice(edit, edit') /\ OrphansWere(edit, edit')
  <2>1. (d # 0 => id # Default) /\ edit' = DeviceSet(edit, d, id)
    BY <1>3, SMT DEF SetHwDevice, MaySetDevice, Devices, Edit
  <2> QED
    BY <1>1, <2>1, DeviceSetKeeps
<1>4. ASSUME NEW d \in Devices, NEW id \in Endpoints, AddHwDevice(d, id)
      PROVE  OneDevice(edit, edit') /\ OrphansWere(edit, edit')
  <2>1. id # Default /\ id \in Endpoints \cup {Default} /\ edit' = DeviceSet(edit, d, id)
    BY <1>4, TableAssumption DEF AddHwDevice, Edit
  <2> QED
    BY <1>1, <2>1, DeviceSetKeeps
<1>5. ASSUME NEW d \in Devices, RemoveHwDevice(d)
      PROVE  OneDevice(edit, edit') /\ OrphansWere(edit, edit')
  BY <1>1, <1>5, DeviceRemovedKeeps DEF RemoveHwDevice, Edit
<1>6. ASSUME NEW d, NEW m, SetHwMode(d, m)
      PROVE  OneDevice(edit, edit') /\ OrphansWere(edit, edit')
  <2> DEFINE u == [edit EXCEPT !.mode[d] = m]
  <2>1. u.count = edit.count /\ u.slot = edit.slot /\ u.id = edit.id
    BY <1>1 DEF Table
  <2>2. Edit("settings", u)
    BY <1>6 DEF SetHwMode
  <2> HIDE DEF u
  <2> QED
    BY <1>2, <2>1, <2>2
<1>7. ASSUME NEW n, NEW x, Edit("settings", [edit EXCEPT !.net[n] = x])
      PROVE  OneDevice(edit, edit') /\ OrphansWere(edit, edit')
  <2> DEFINE u == [edit EXCEPT !.net[n] = x]
  <2>1. u.count = edit.count /\ u.slot = edit.slot /\ u.id = edit.id
    BY <1>1 DEF Table
  <2>2. Edit("settings", u)
    BY <1>7
  <2> HIDE DEF u
  <2> QED
    BY <1>2, <2>1, <2>2
<1>8. ASSUME NEW n \in Streams, NEW c \in Codecs, SetCodec(n, c)
      PROVE  OneDevice(edit, edit') /\ OrphansWere(edit, edit')
  <2> DEFINE k == IF edit.net[n].channels \in ChannelsOf(c) THEN edit.net[n].channels ELSE PcmChannels
  <2>1. Edit("settings", [edit EXCEPT !.net[n] = [codec |-> c, channels |-> k]])
    BY <1>1, <1>8 DEF SetCodec, Table
  <2> HIDE DEF k
  <2> QED
    BY <1>7, <2>1
<1>9. ASSUME NEW n \in Streams, NEW k, SetChannels(n, k)
      PROVE  OneDevice(edit, edit') /\ OrphansWere(edit, edit')
  <2>1. Edit("settings", [edit EXCEPT !.net[n] = [edit.net[n] EXCEPT !.channels = k]])
    BY <1>1, <1>9 DEF SetChannels, Table
  <2> QED
    BY <1>7, <2>1
<1>10. ASSUME NEW c, SetMasterClock(c)
       PROVE  OneDevice(edit, edit') /\ OrphansWere(edit, edit')
  <2> DEFINE u == [edit EXCEPT !.clock = c]
  <2>1. u.count = edit.count /\ u.slot = edit.slot /\ u.id = edit.id
    BY <1>1 DEF Table
  <2>2. Edit("settings", u)
    BY <1>10 DEF SetMasterClock
  <2> HIDE DEF u
  <2> QED
    BY <1>2, <2>1, <2>2
<1>11. ASSUME NEW c, NEW f, SetCable(c, f)
       PROVE  OneDevice(edit, edit') /\ OrphansWere(edit, edit')
  <2> DEFINE u == [edit EXCEPT !.cable[c] = f]
  <2>1. u.count = edit.count /\ u.slot = edit.slot /\ u.id = edit.id
    BY <1>1 DEF Table
  <2>2. Edit("settings", u)
    BY <1>11 DEF SetCable
  <2> HIDE DEF u
  <2> QED
    BY <1>2, <2>1, <2>2
<1>12. ASSUME NEW x, NEW n, SetBuffer(x, n)
       PROVE  OneDevice(edit, edit') /\ OrphansWere(edit, edit')
  <2> DEFINE u == [edit EXCEPT !.buffer[x] = n]
  <2>1. u.count = edit.count /\ u.slot = edit.slot /\ u.id = edit.id
    BY <1>1 DEF Table
  <2>2. Edit("settings", u)
    BY <1>12 DEF SetBuffer
  <2> HIDE DEF u
  <2> QED
    BY <1>2, <2>1, <2>2
<1>13. 0 \in Devices
  BY TableAssumption DEF Devices
<1> QED
  BY <1>3, <1>4, <1>5, <1>6, <1>8, <1>9, <1>10, <1>11, <1>12, <1>13
     DEF SettingsEdit, DrawNetworkStreams, DrawCableFormats

\* Only an edit of a tab is one of its kind.
LEMMA KindsOfSteps ==
  ASSUME IInv, Next, NEW kind \in {"row", "settings"}, Did(kind)
  PROVE  (kind = "row" /\ RowEdit) \/ (kind = "settings" /\ SettingsEdit)
<1>1. work \in Int /\ work' = work + 1 /\ last' = kind
  BY DEF IInv, TypeOK, Did
<1>2. work' # work
  BY <1>1
<1>3. ASSUME NEW k, NEW t, Edit(k, t)  PROVE last' = k
  BY <1>3 DEF Edit, Work
<1>4. RowEdit => last' = "row"
  BY <1>3
     DEF RowEdit, InsertRow, DuplicateRow, DeleteRow, SetLoopback, MoveRow, SourceMenu, AssignSource, AssignHw
<1>5. SettingsEdit => last' = "settings"
  BY <1>3
     DEF SettingsEdit, SetHwDevice, AddHwDevice, RemoveHwDevice, SetHwMode, DrawNetworkStreams, SetCodec, SetChannels,
         SetMasterClock, DrawCableFormats, SetCable, SetBuffer
<1>6. ResetToDefault \/ ImportConfig => last' = "whole"
  BY <1>3 DEF ResetToDefault, ImportConfig, Import
<1>7. ~(OpenPanel \/ Revert \/ ClosePanel \/ MakeText \/ \E ok \in BOOLEAN : WriteFile(ok))
  BY <1>2 DEF OpenPanel, Revert, ClosePanel, MakeText, WriteFile
<1>8. SavePanel \/ (\E c \in Clocks : SetSampleRate(c)) \/ Restart => last' \in {"save", "rate", "restart"}
  BY DEF SavePanel, SetSampleRate, Restart, Work
<1> QED
  BY <1>1, <1>4, <1>5, <1>6, <1>7, <1>8 DEF Next, DrawControlPanel

\* Whatever came before, an edit of a row changes one row alone: the others
\* keep their order, their sources and the endpoints they play (MoveInput,
\* AssignHw).
THEOREM OtherRowsKept == Spec => RowsKept
<1> DEFINE P == Did("row") => \/ OneChanged(edit, edit') \/ OneIn(edit, edit')
                              \/ OneOut(edit, edit') \/ OneMoved(edit, edit')
<1>1. IInv /\ [Next]_vars => [P]_vars
  <2> SUFFICES ASSUME IInv, Next, Did("row")  PROVE RowChange(edit, edit')
    BY DEF RowChange
  <2> QED
    BY KindsOfSteps, RowKeeps
<1> QED
  BY <1>1, Invariance, PTL DEF Spec, RowsKept

\* Whatever came before, an edit of the settings touches the rows of one device
\* at most, and an edit leaves no row on a device that is not listed, unless it
\* was there (RemoveHwDevice, AddHwDevice).
THEOREM OtherDevicesKept == Spec => DevicesKept
<1> DEFINE P == /\ Did("settings") =>
                     \E d \in Devices : \A i \in Rows(edit) : i \in Users(edit, d) \/ Kept(edit, edit', i, i)
                /\ Did("row") \/ Did("settings") =>
                     \A i \in Rows(edit') : Orphan(edit', i) =>
                       \E j \in Rows(edit) : Orphan(edit, j) /\ edit.slot[j] = edit'.slot[i]
<1>1. IInv /\ [Next]_vars => [P]_vars
  <2> SUFFICES ASSUME IInv, Next
               PROVE  /\ Did("settings") => OneDevice(edit, edit')
                      /\ Did("row") \/ Did("settings") => OrphansWere(edit, edit')
    BY DEF OneDevice, OrphansWere
  <2>1. Did("settings") => SettingsEdit
    BY KindsOfSteps
  <2>2. Did("row") => RowEdit
    BY KindsOfSteps
  <2> QED
    BY <2>1, <2>2, SettingsKeep, RowKeeps
<1> QED
  BY <1>1, Invariance, PTL DEF Spec, DevicesKept

=============================================================================
