-------------------------- MODULE SlotRoutingProofs --------------------------
(* Proofs about SlotRouting, for every number of devices, rows, cables and      *)
(* channels: how the Worker opens the devices of its lists, the rings of the    *)
(* cables without the driver, and whose audio each row gets.                    *)
EXTENDS SlotRouting, SequenceTheorems, TLAPS

------------------------------------------------------------------------------
(* What Windows may give, and what the rows use, is well typed.                 *)

Client == [on : Names, shared : BOOLEAN, width : 0 .. HwMax]

LEMMA ClientsTyped ==
  ASSUME NEW f \in Flow, NEW e \in Endpoints, NEW mode, NEW c \in KsOpen(f, e, mode)
  PROVE  c \in Client /\ c # NoClient /\ c.on = e
         /\ (mode = "exclusive" => ~c.shared) /\ (mode = "shared" => c.shared)
<1>1. /\ HwMax \in Nat \ {0, 1} /\ NoId \notin Endpoints
      /\ DeviceChannels[e] \in Nat \ {0} /\ MixChannels[e] \in Nat
  BY DevicesAssumption
<1>2. CASE c \in OpenExclusive(f, e) /\ mode # "shared"
  <2>1. PICK w \in {IF DeviceChannels[e] > HwMax THEN HwMax ELSE DeviceChannels[e], 2} :
           c = [on |-> e, shared |-> FALSE, width |-> w]
    BY <1>2 DEF OpenExclusive
  <2>2. w \in 0 .. HwMax
    BY <1>1, <2>1
  <2>3. c \in Client
    BY <2>1, <2>2 DEF Client, Names
  <2>. QED BY <1>1, <1>2, <2>1, <2>3 DEF NoClient
<1>3. CASE c \in OpenShared(f, e) /\ mode # "exclusive"
  <2>1. PICK w : /\ c = [on |-> e, shared |-> TRUE, width |-> w]
                 /\ w = IF MixChannels[e] \in 1 .. HwMax THEN MixChannels[e] ELSE 2
    BY <1>3 DEF OpenShared
  <2>2. w \in 0 .. HwMax
    BY <1>1, <2>1
  <2>3. c \in Client
    BY <2>1, <2>2 DEF Client, Names
  <2>. QED BY <1>1, <1>3, <2>1, <2>3 DEF NoClient
<1>. QED BY <1>2, <1>3 DEF KsOpen

LEMMA UsedTyped == table \in Tables => Used \in [Flow -> SUBSET Devices]
<1>1. SUFFICES ASSUME table \in Tables PROVE Used \in [Flow -> SUBSET Devices]
  OBVIOUS
<1>2. table.out \in [OutRows -> Sources] /\ table.in \in [InRows -> Sources]
  BY <1>1 DEF Tables
<1>3. \A s \in Sources : s.type = "hw" => s.of \in Devices
  BY RoutingAssumption
<1>4. HwDevicesOf(table.out) \subseteq Devices /\ HwDevicesOf(table.in) \subseteq Devices
  BY <1>2, <1>3 DEF HwDevicesOf
<1>5. 0 \in Devices
  BY DevicesAssumption DEF Devices
<1>. QED BY <1>4, <1>5 DEF Used, Flow

(* Each device has a turn of its own.                                           *)
LEMMA Turns ==
  /\ \A f \in Flow, d \in Devices : Turn(f, d) \in 0 .. 2 * NDevices - 1
  /\ \A f, g \in Flow, d, e \in Devices : Turn(f, d) = Turn(g, e) => f = g /\ d = e
BY DevicesAssumption DEF Turn, Flow, Devices

------------------------------------------------------------------------------
(* The devices: everything of the invariant that the tick does not touch.       *)

DeviceTypes ==
  /\ table \in Tables
  /\ saved \in BOOLEAN
  /\ phase \in {"gone", "counted", "opening", "running"}
  /\ used \in [Flow -> SUBSET Devices]
  /\ asked \in [Flow -> [Devices -> Entries \cup {Unlisted}]]
  /\ next \in 0 .. 2 * NDevices
  /\ phase = "opening" => next < 2 * NDevices
  /\ resolved \in [Flow -> [Devices -> Names]]
  /\ route \in [Flow -> [Devices -> Devices \cup {NoRoute}]]
  /\ client \in [Flow -> [Devices -> Client]]
  /\ failed \in [Flow -> SUBSET Devices]

DeviceInv == DeviceTypes /\ RoutesSound /\ TurnsTaken /\ UsedKept /\ OpenedAsAsked

LEMMA DevicesInitially == Init => DeviceInv
<1>1. SUFFICES ASSUME Init PROVE DeviceInv
  OBVIOUS
<1>. USE DevicesAssumption
<1>2. table \in Tables
  BY <1>1, RoutingAssumption DEF Init
<1>3. Unlisted \in Entries \cup {Unlisted} /\ NoId \in Names /\ NoClient \in Client
  BY DEF Names, NoClient, Client
<1>4. DeviceTypes
  <2>1. saved \in BOOLEAN /\ used \in [Flow -> SUBSET Devices] /\ failed \in [Flow -> SUBSET Devices]
    BY <1>1 DEF Init, DevicesInit
  <2>2. phase = "gone" /\ next = 0
    BY <1>1 DEF Init, DevicesInit
  <2>3. /\ asked = PerDevice(Unlisted) /\ resolved = PerDevice(NoId)
        /\ route = PerDevice(NoRoute) /\ client = PerDevice(NoClient)
    BY <1>1 DEF Init, DevicesInit
  <2>4. /\ asked \in [Flow -> [Devices -> Entries \cup {Unlisted}]]
        /\ resolved \in [Flow -> [Devices -> Names]]
        /\ route \in [Flow -> [Devices -> Devices \cup {NoRoute}]]
        /\ client \in [Flow -> [Devices -> Client]]
    BY <1>3, <2>3 DEF PerDevice
  <2>. QED BY <1>2, <2>1, <2>2, <2>4 DEF DeviceTypes
<1>5. \A f \in Flow, d \in Devices : route[f][d] = NoRoute /\ client[f][d] = NoClient /\ failed[f] = {}
  BY <1>1 DEF Init, DevicesInit, PerDevice
<1>6. NoRoute \notin Devices
  BY DEF NoRoute, Devices
<1>7. RoutesSound
  BY <1>5, <1>6 DEF RoutesSound
<1>8. TurnsTaken
  <2>1. next = 0 /\ phase = "gone" /\ used = [f \in Flow |-> {}]
    BY <1>1 DEF Init, DevicesInit
  <2>. QED BY <1>5, <2>1 DEF TurnsTaken, Blank
<1>9. UsedKept
  BY <1>1 DEF Init, DevicesInit, UsedKept
<1>10. OpenedAsAsked
  BY <1>5 DEF OpenedAsAsked
<1>. QED BY <1>4, <1>7, <1>8, <1>9, <1>10 DEF DeviceInv

LEMMA CountKeeps == DeviceInv /\ CountUsed => DeviceInv'
<1>1. SUFFICES ASSUME DeviceInv, CountUsed PROVE DeviceInv'
  OBVIOUS
<1>2. DeviceTypes /\ RoutesSound /\ TurnsTaken /\ OpenedAsAsked
  BY <1>1 DEF DeviceInv
<1>3. /\ phase = "gone" /\ phase' = "counted" /\ used' = Used /\ saved' = FALSE
      /\ UNCHANGED <<table, asked, next, resolved, route, client, failed>>
  BY <1>1 DEF CountUsed
<1>4. DeviceTypes'
  <2>1. saved' \in BOOLEAN
    BY <1>3
  <2>2. used' \in [Flow -> SUBSET Devices]
    BY <1>2, <1>3, UsedTyped DEF DeviceTypes
  <2>. QED BY <1>2, <1>3, <2>1, <2>2 DEF DeviceTypes
<1>5. RoutesSound'
  BY <1>2, <1>3 DEF RoutesSound
<1>6. TurnsTaken'
  <2>1. next = 0
    BY <1>2, <1>3 DEF TurnsTaken
  <2>2. \A f \in Flow, d \in Devices : ~(Turn(f, d) < next)
    BY <2>1, Turns, DevicesAssumption
  <2>3. \A f \in Flow, d \in Devices : Blank(f, d)
    BY <1>2, <2>2 DEF TurnsTaken
  <2>. QED BY <1>3, <2>1, <2>2, <2>3 DEF TurnsTaken, Blank
<1>7. UsedKept'
  BY <1>3 DEF UsedKept, Used
<1>8. OpenedAsAsked'
  BY <1>2, <1>3 DEF OpenedAsAsked, DefaultMoved
<1>. QED BY <1>4, <1>5, <1>6, <1>7, <1>8 DEF DeviceInv

LEMMA SnapshotKeeps == DeviceInv /\ Snapshot => DeviceInv'
<1>1. SUFFICES ASSUME DeviceInv, Snapshot PROVE DeviceInv'
  OBVIOUS
<1>2. DeviceTypes /\ RoutesSound /\ TurnsTaken /\ UsedKept
  BY <1>1 DEF DeviceInv
<1>3. /\ phase = "counted" /\ phase' = "opening" /\ asked' = table.ids
      /\ UNCHANGED <<table, saved, used, next, resolved, route, client, failed>>
  BY <1>1 DEF Snapshot
<1>4. next = 0
  BY <1>2, <1>3 DEF TurnsTaken
<1>5. \A f \in Flow, d \in Devices : ~(Turn(f, d) < next)
  BY <1>4, Turns, DevicesAssumption
<1>6. \A f \in Flow, d \in Devices : Blank(f, d)
  BY <1>2, <1>5 DEF TurnsTaken
<1>7. DeviceTypes'
  <2>1. asked' \in [Flow -> [Devices -> Entries \cup {Unlisted}]]
    <3>1. table.ids \in [Flow -> [Devices -> Entries]]
      BY <1>2 DEF DeviceTypes, Tables
    <3>. QED BY <1>3, <3>1
  <2>2. next' < 2 * NDevices
    BY <1>3, <1>4, DevicesAssumption
  <2>. QED BY <1>2, <1>3, <2>1, <2>2 DEF DeviceTypes
<1>8. RoutesSound'
  BY <1>2, <1>3 DEF RoutesSound
<1>9. TurnsTaken'
  BY <1>3, <1>4, <1>5, <1>6 DEF TurnsTaken, Blank
<1>10. UsedKept'
  BY <1>2, <1>3 DEF UsedKept, Used
<1>11. OpenedAsAsked'
  BY <1>3, <1>6 DEF OpenedAsAsked, Blank
<1>. QED BY <1>7, <1>8, <1>9, <1>10, <1>11 DEF DeviceInv

LEMMA CloseKeeps == DeviceInv /\ CloseDevices => DeviceInv'
<1>1. SUFFICES ASSUME DeviceInv, CloseDevices PROVE DeviceInv'
  OBVIOUS
<1>. USE DevicesAssumption
<1>2. /\ table' = table /\ phase' = "gone" /\ next' = 0 /\ saved' = FALSE
      /\ used' = [f \in Flow |-> {}] /\ failed' = [f \in Flow |-> {}]
  BY <1>1 DEF CloseDevices
<1>3. /\ asked' = PerDevice(Unlisted) /\ resolved' = PerDevice(NoId)
      /\ route' = PerDevice(NoRoute) /\ client' = PerDevice(NoClient)
  BY <1>1 DEF CloseDevices
<1>4. Unlisted \in Entries \cup {Unlisted} /\ NoId \in Names /\ NoClient \in Client
  BY DEF Names, NoClient, Client
<1>5. DeviceTypes'
  <2>1. table' \in Tables
    BY <1>1, <1>2 DEF DeviceInv, DeviceTypes
  <2>2. saved' \in BOOLEAN /\ used' \in [Flow -> SUBSET Devices] /\ failed' \in [Flow -> SUBSET Devices]
    BY <1>2
  <2>3. /\ asked' \in [Flow -> [Devices -> Entries \cup {Unlisted}]]
        /\ resolved' \in [Flow -> [Devices -> Names]]
        /\ route' \in [Flow -> [Devices -> Devices \cup {NoRoute}]]
        /\ client' \in [Flow -> [Devices -> Client]]
    BY <1>3, <1>4 DEF PerDevice
  <2>. QED BY <1>2, <2>1, <2>2, <2>3 DEF DeviceTypes
<1>6. \A f \in Flow, d \in Devices : route'[f][d] = NoRoute /\ client'[f][d] = NoClient /\ failed'[f] = {}
  BY <1>2, <1>3 DEF PerDevice
<1>7. RoutesSound'
  BY <1>6 DEF RoutesSound, NoRoute, Devices
<1>8. TurnsTaken'
  BY <1>2, <1>6 DEF TurnsTaken, Blank
<1>9. UsedKept' /\ OpenedAsAsked'
  BY <1>2, <1>6 DEF UsedKept, OpenedAsAsked
<1>. QED BY <1>5, <1>7, <1>8, <1>9 DEF DeviceInv

(* Both ways past a device: the next one has its turn.                          *)
LEMMA TurnTaken ==
  ASSUME DeviceTypes, NEW f \in Flow, NEW d \in Devices, Opening(f, d), Opened
  PROVE  /\ next' \in 0 .. 2 * NDevices /\ phase' \in {"opening", "running"}
         /\ phase' = "opening" => next' < 2 * NDevices
         /\ phase' = "running" => next' = 2 * NDevices
         /\ \A g \in Flow, e \in Devices : Turn(g, e) < next' <=> Turn(g, e) < next \/ (g = f /\ e = d)
<1>1. /\ next \in 0 .. 2 * NDevices /\ phase = "opening" /\ next < 2 * NDevices /\ next = Turn(f, d)
      /\ next' = next + 1 /\ phase' = IF next + 1 = 2 * NDevices THEN "running" ELSE "opening"
  BY DEF DeviceTypes, Opening, Opened
<1>2. NDevices \in Nat
  BY DevicesAssumption
<1>3. ASSUME NEW g \in Flow, NEW e \in Devices
      PROVE  Turn(g, e) < next' <=> Turn(g, e) < next \/ (g = f /\ e = d)
  <2>1. Turn(g, e) \in 0 .. 2 * NDevices - 1
    BY Turns
  <2>2. Turn(g, e) = next <=> g = f /\ e = d
    BY <1>1, Turns
  <2>. QED BY <1>1, <1>2, <2>1, <2>2
<1>. QED BY <1>1, <1>2, <1>3

LEMMA SkipKeeps ==
  ASSUME DeviceInv, NEW f \in Flow, NEW d \in Devices, SkipDevice(f, d)
  PROVE  DeviceInv'
<1>1. DeviceTypes /\ RoutesSound /\ TurnsTaken /\ UsedKept /\ OpenedAsAsked
  BY DEF DeviceInv
<1>2. /\ Opening(f, d) /\ Opened /\ (d \notin used[f] \/ ~Listed(f, d))
      /\ UNCHANGED <<resolved, route, client, failed>>
  BY DEF SkipDevice
<1>3. UNCHANGED <<table, saved, used, asked>> /\ phase = "opening"
  BY <1>2 DEF Opened, Opening
<1>4. /\ next' \in 0 .. 2 * NDevices /\ phase' \in {"opening", "running"}
      /\ phase' = "opening" => next' < 2 * NDevices
      /\ phase' = "running" => next' = 2 * NDevices
      /\ \A g \in Flow, e \in Devices : Turn(g, e) < next' <=> Turn(g, e) < next \/ (g = f /\ e = d)
  BY <1>1, <1>2, TurnTaken
<1>5. DeviceTypes'
  BY <1>1, <1>2, <1>3, <1>4 DEF DeviceTypes
<1>6. RoutesSound' /\ OpenedAsAsked'
  BY <1>1, <1>2, <1>3 DEF RoutesSound, OpenedAsAsked, DefaultMoved
<1>7. TurnsTaken'
  <2>1. ASSUME NEW g \in Flow, NEW e \in Devices
        PROVE  IF e \in used[g] /\ Listed(g, e) /\ Turn(g, e) < next'
               THEN /\ route[g][e] # NoRoute \/ e \in failed[g]
                    /\ asked[g][e].id # NoId => resolved[g][e] = asked[g][e].id
               ELSE Blank(g, e)
    BY <1>1, <1>2, <1>4 DEF TurnsTaken
  <2>. QED BY <1>2, <1>3, <1>4, <2>1 DEF TurnsTaken, Blank, Listed
<1>8. UsedKept'
  BY <1>1, <1>3 DEF UsedKept, Used
<1>. QED BY <1>5, <1>6, <1>7, <1>8 DEF DeviceInv

LEMMA OpenKeeps ==
  ASSUME DeviceInv, NEW f \in Flow, NEW d \in Devices, OpenDevice(f, d)
  PROVE  DeviceInv'
<1>1. DeviceTypes /\ RoutesSound /\ TurnsTaken /\ UsedKept /\ OpenedAsAsked
  BY DEF DeviceInv
<1>2. /\ Opening(f, d) /\ Opened /\ d \in used[f] /\ Listed(f, d)
  BY DEF OpenDevice
<1>3. UNCHANGED <<table, saved, used, asked>> /\ phase = "opening" /\ next = Turn(f, d)
  BY <1>2 DEF Opened, Opening
<1>4. /\ next' \in 0 .. 2 * NDevices /\ phase' \in {"opening", "running"}
      /\ phase' = "opening" => next' < 2 * NDevices
      /\ phase' = "running" => next' = 2 * NDevices
      /\ \A g \in Flow, e \in Devices : Turn(g, e) < next' <=> Turn(g, e) < next \/ (g = f /\ e = d)
  BY <1>1, <1>2, TurnTaken
<1>5. route[f][d] = NoRoute /\ client[f][d] = NoClient /\ d \notin failed[f]
  <2>1. ~(Turn(f, d) < next)
    BY <1>3, Turns, DevicesAssumption
  <2>. QED BY <1>1, <2>1 DEF TurnsTaken, Blank
<1>6. PICK e \in Resolutions(asked[f][d].id) :
        /\ resolved' = [resolved EXCEPT ![f][d] = e]
        /\ \/ /\ \E j \in Devices :
                    FirstTwin(f, d, e, j) /\ route' = [route EXCEPT ![f][d] = route[f][j]]
              /\ UNCHANGED <<client, failed>>
           \/ Twins(f, d, e) = {} /\ OpenClient(f, d) /\ StartClient(f, d)
           \/ Twins(f, d, e) = {} /\ Fails(f, d) /\ UNCHANGED client
  BY DEF OpenDevice
<1>7. /\ asked[f][d].id \in Names /\ e \in Names
      /\ asked[f][d].id # NoId => e = asked[f][d].id
  <2>1. asked[f][d] \in Entries \cup {Unlisted}
    BY <1>1 DEF DeviceTypes
  <2>2. asked[f][d].id \in Names
    BY <2>1, DevicesAssumption DEF Unlisted, Names
  <2>. QED BY <1>6, <2>2 DEF Resolutions, Names
<1>8. /\ resolved' \in [Flow -> [Devices -> Names]]
      /\ resolved'[f][d] = e
      /\ \A g \in Flow, k \in Devices : g # f \/ k # d => resolved'[g][k] = resolved[g][k]
  BY <1>1, <1>6, <1>7 DEF DeviceTypes
<1>9. NoRoute \notin Devices /\ NoClient.on = NoId /\ NoId \notin Endpoints
  BY DevicesAssumption DEF NoRoute, Devices, NoClient

(* Windows gives a client, on the ID's endpoint, of its mode.                   *)
<1>10. ASSUME OpenClient(f, d)
       PROVE  /\ client' \in [Flow -> [Devices -> Client]]
              /\ \A g \in Flow, k \in Devices : g # f \/ k # d => client'[g][k] = client[g][k]
              /\ client'[f][d] # NoClient /\ client'[f][d].on \in Endpoints
              /\ asked[f][d].mode # IF client'[f][d].shared THEN "exclusive" ELSE "shared"
  <2>0. PICK x \in Opens(asked[f][d].id) : \E c \in KsOpen(f, x, asked[f][d].mode) :
            client' = [client EXCEPT ![f][d] = c]
    BY <1>10 DEF OpenClient
  <2>1. PICK c \in KsOpen(f, x, asked[f][d].mode) : client' = [client EXCEPT ![f][d] = c]
    BY <2>0
  <2>2. x \in Endpoints
    BY <2>0, <1>7 DEF Opens, Names
  <2>3. /\ c \in Client /\ c # NoClient /\ c.on = x
        /\ (asked[f][d].mode = "exclusive" => ~c.shared) /\ (asked[f][d].mode = "shared" => c.shared)
    BY <2>2, ClientsTyped
  <2>4. /\ client' \in [Flow -> [Devices -> Client]] /\ client'[f][d] = c
        /\ \A g \in Flow, k \in Devices : g # f \/ k # d => client'[g][k] = client[g][k]
    BY <1>1, <2>1, <2>3 DEF DeviceTypes
  <2>. QED BY <2>2, <2>3, <2>4
<1>11. ASSUME NEW v \in Devices, route' = [route EXCEPT ![f][d] = v]
       PROVE  /\ route' \in [Flow -> [Devices -> Devices \cup {NoRoute}]] /\ route'[f][d] = v
              /\ \A g \in Flow, k \in Devices : g # f \/ k # d => route'[g][k] = route[g][k]
  BY <1>1, <1>11 DEF DeviceTypes
<1>12. ASSUME Fails(f, d)
       PROVE  /\ failed' \in [Flow -> SUBSET Devices] /\ d \in failed'[f] /\ route' = route
              /\ \A g \in Flow, k \in Devices : g # f \/ k # d => (k \in failed'[g] <=> k \in failed[g])
  BY <1>1, <1>12 DEF Fails, DeviceTypes

(* What changes: the device alone, in one of three ways.                        *)
<1>. DEFINE Typed == /\ route' \in [Flow -> [Devices -> Devices \cup {NoRoute}]]
                     /\ client' \in [Flow -> [Devices -> Client]]
                     /\ failed' \in [Flow -> SUBSET Devices]
                     /\ client'[f][d] # NoClient => client'[f][d].on # NoId
            Apart == \A g \in Flow, k \in Devices : g # f \/ k # d =>
                       /\ route'[g][k] = route[g][k] /\ client'[g][k] = client[g][k]
                       /\ k \in failed'[g] <=> k \in failed[g]
            Aliased(p) == /\ p \in Devices /\ p < d /\ route[f][p] = p /\ resolved[f][p] = e /\ e # NoId
                          /\ route'[f][d] = p /\ client'[f][d] = NoClient /\ d \notin failed'[f]
            Playing == /\ route'[f][d] = d /\ client'[f][d] # NoClient /\ d \notin failed'[f]
                       /\ asked[f][d].mode # IF client'[f][d].shared THEN "exclusive" ELSE "shared"
            Refused == route'[f][d] = NoRoute /\ d \in failed'[f]
            NoTwin == \A j \in Devices : j < d /\ e # NoId /\ resolved[f][j] = e => route[f][j] = NoRoute
<1>13. ASSUME Twins(f, d, e) = {} PROVE NoTwin
  BY <1>13 DEF Twins, Devices
<1>14. Typed /\ Apart /\ ((\E p \in Devices : Aliased(p)) \/ (NoTwin /\ Playing) \/ (NoTwin /\ Refused))
  <2>1. CASE \E j \in Devices :
               FirstTwin(f, d, e, j) /\ route' = [route EXCEPT ![f][d] = route[f][j]] /\ UNCHANGED <<client, failed>>
    <3>1. PICK j \in Devices :
            FirstTwin(f, d, e, j) /\ route' = [route EXCEPT ![f][d] = route[f][j]] /\ UNCHANGED <<client, failed>>
      BY <2>1
    <3>2. j \in 0 .. d - 1 /\ e # NoId /\ resolved[f][j] = e /\ route[f][j] # NoRoute
      BY <3>1 DEF FirstTwin, Twins
    <3>3. route[f][j] \in Devices
      BY <1>1, <3>2 DEF DeviceTypes
    <3>4. /\ route[f][j] <= j /\ route[f][route[f][j]] = route[f][j]
          /\ resolved[f][route[f][j]] = e
      BY <1>1, <3>2 DEF RoutesSound
    <3>5. /\ route' \in [Flow -> [Devices -> Devices \cup {NoRoute}]] /\ route'[f][d] = route[f][j]
          /\ \A g \in Flow, k \in Devices : g # f \/ k # d => route'[g][k] = route[g][k]
      BY <1>11, <3>1, <3>3
    <3>6. route[f][j] < d
      BY <3>2, <3>3, <3>4 DEF Devices
    <3>7. Aliased(route[f][j])
      BY <1>5, <3>1, <3>2, <3>3, <3>4, <3>5, <3>6
    <3>8. Typed /\ Apart
      BY <1>1, <1>5, <3>1, <3>5 DEF DeviceTypes
    <3>. QED BY <3>3, <3>7, <3>8
  <2>2. CASE Twins(f, d, e) = {} /\ OpenClient(f, d) /\ StartClient(f, d)
    <3>1. CASE route' = [route EXCEPT ![f][d] = d] /\ UNCHANGED failed
      <4>1. Typed /\ Apart
        BY <1>1, <1>9, <1>10, <1>11, <2>2, <3>1 DEF DeviceTypes
      <4>2. Playing
        BY <1>5, <1>10, <1>11, <2>2, <3>1
      <4>. QED BY <1>13, <2>2, <4>1, <4>2
    <3>2. CASE Fails(f, d)
      <4>1. Typed /\ Apart
        BY <1>1, <1>9, <1>10, <1>12, <2>2, <3>2 DEF DeviceTypes
      <4>2. Refused
        BY <1>5, <1>12, <3>2
      <4>. QED BY <1>13, <2>2, <4>1, <4>2
    <3>. QED BY <2>2, <3>1, <3>2 DEF StartClient
  <2>3. CASE Twins(f, d, e) = {} /\ Fails(f, d) /\ UNCHANGED client
    <3>1. Typed /\ Apart
      BY <1>1, <1>5, <1>12, <2>3 DEF DeviceTypes
    <3>2. Refused
      BY <1>5, <1>12, <2>3
    <3>. QED BY <1>13, <2>3, <3>1, <3>2
  <2>. QED BY <1>6, <2>1, <2>2, <2>3
<1>15. DeviceTypes'
  BY <1>1, <1>3, <1>4, <1>8, <1>14 DEF DeviceTypes
<1>16. RoutesSound'
  <2>1. SUFFICES ASSUME NEW g \in Flow, NEW k \in Devices
                 PROVE  /\ route'[g][k] = k => client'[g][k] # NoClient /\ k \notin failed'[g]
                        /\ client'[g][k] # NoClient => client'[g][k].on # NoId /\ (route'[g][k] = k \/ k \in failed'[g])
                        /\ route'[g][k] # NoRoute =>
                             /\ route'[g][k] <= k /\ route'[g][route'[g][k]] = route'[g][k]
                             /\ route'[g][k] # k => resolved'[g][route'[g][k]] = resolved'[g][k] /\ resolved'[g][k] # NoId
    BY DEF RoutesSound
  <2>2. CASE g = f /\ k = d
    <3>1. ASSUME NEW p \in Devices, Aliased(p)
          PROVE  route'[f][p] = p /\ resolved'[f][p] = e /\ p <= d /\ p # d
      BY <1>8, <1>14, <3>1 DEF Devices
    <3>2. d <= d
      BY DEF Devices
    <3>. QED BY <1>8, <1>9, <1>14, <2>2, <3>1, <3>2
  <2>3. CASE g # f \/ k # d
    <3>1. /\ route'[g][k] = route[g][k] /\ resolved'[g][k] = resolved[g][k] /\ client'[g][k] = client[g][k]
          /\ k \in failed'[g] <=> k \in failed[g]
      BY <1>8, <1>14, <2>3
    <3>2. /\ route[g][k] = k => client[g][k] # NoClient /\ k \notin failed[g]
          /\ client[g][k] # NoClient => client[g][k].on # NoId /\ (route[g][k] = k \/ k \in failed[g])
          /\ route[g][k] # NoRoute =>
               /\ route[g][k] <= k /\ route[g][route[g][k]] = route[g][k]
               /\ route[g][k] # k => resolved[g][route[g][k]] = resolved[g][k] /\ resolved[g][k] # NoId
      BY <1>1 DEF RoutesSound
    <3>3. route[g][k] # NoRoute => route[g][k] \in Devices
      BY <1>1 DEF DeviceTypes
    <3>4. route[g][k] # NoRoute => g # f \/ route[g][k] # d
      BY <1>5, <1>9, <3>2, <3>3
    <3>5. route[g][k] # NoRoute =>
            /\ route'[g][route[g][k]] = route[g][route[g][k]]
            /\ resolved'[g][route[g][k]] = resolved[g][route[g][k]]
      BY <1>8, <1>14, <3>3, <3>4
    <3>. QED BY <3>1, <3>2, <3>5
  <2>. QED BY <2>2, <2>3
<1>17. TurnsTaken'
  <2>1. SUFFICES ASSUME NEW g \in Flow, NEW k \in Devices
                 PROVE  IF k \in used[g] /\ Listed(g, k) /\ Turn(g, k) < next'
                        THEN /\ route'[g][k] # NoRoute \/ k \in failed'[g]
                             /\ asked[g][k].id # NoId => resolved'[g][k] = asked[g][k].id
                        ELSE route'[g][k] = NoRoute /\ client'[g][k] = NoClient /\ k \notin failed'[g]
    BY <1>3, <1>4 DEF TurnsTaken, Blank, Listed
  <2>2. CASE g = f /\ k = d
    <3>1. \A p : Aliased(p) => route'[f][d] # NoRoute
      BY <1>9
    <3>2. route'[f][d] # NoRoute \/ d \in failed'[f]
      BY <1>9, <1>14, <3>1
    <3>. QED BY <1>2, <1>4, <1>7, <1>8, <2>2, <3>2
  <2>3. CASE g # f \/ k # d
    <3>1. IF k \in used[g] /\ Listed(g, k) /\ Turn(g, k) < next
          THEN /\ route[g][k] # NoRoute \/ k \in failed[g]
               /\ asked[g][k].id # NoId => resolved[g][k] = asked[g][k].id
          ELSE route[g][k] = NoRoute /\ client[g][k] = NoClient /\ k \notin failed[g]
      BY <1>1 DEF TurnsTaken, Blank
    <3>. QED BY <1>4, <1>8, <1>14, <2>3, <3>1
  <2>. QED BY <2>2, <2>3
<1>18. UsedKept'
  BY <1>1, <1>3 DEF UsedKept, Used
<1>19. OpenedAsAsked'
  <2>1. SUFFICES ASSUME NEW g \in Flow, ~DefaultMoved(g)'
                 PROVE  /\ \A k, l \in Devices : client'[g][k] # NoClient /\ client'[g][k].on = client'[g][l].on
                                                 /\ k < l => k \in failed'[g]
                        /\ \A k \in Devices : route'[g][k] # NoRoute =>
                             /\ asked'[g][k].id # NoId => client'[g][route'[g][k]].on = asked'[g][k].id
                             /\ route'[g][k] = k =>
                                  asked'[g][k].mode # IF client'[g][k].shared THEN "exclusive" ELSE "shared"
    BY DEF OpenedAsAsked
  <2>2. ~DefaultMoved(g)
    BY <1>5, <1>8, <1>14, <2>1 DEF DefaultMoved
  <2>3. /\ \A k, l \in Devices : client[g][k] # NoClient /\ client[g][k].on = client[g][l].on
                                 /\ k < l => k \in failed[g]
        /\ \A k \in Devices : route[g][k] # NoRoute =>
             /\ asked[g][k].id # NoId => client[g][route[g][k]].on = asked[g][k].id
             /\ route[g][k] = k => asked[g][k].mode # IF client[g][k].shared THEN "exclusive" ELSE "shared"
    BY <1>1, <2>2 DEF OpenedAsAsked
  <2>4. ASSUME NEW p \in Devices, g = f, Aliased(p)
        PROVE  p # d /\ client'[f][p].on = e
    <3>1. p # d
      BY <2>4 DEF Devices
    <3>2. client[f][p] # NoClient
      BY <1>1, <2>4 DEF RoutesSound
    <3>3. client[f][p].on = resolved[f][p]
      BY <2>2, <2>4, <3>2 DEF DefaultMoved
    <3>. QED BY <1>14, <2>4, <3>1, <3>3
  <2>5. ASSUME NEW k \in Devices, route'[g][k] # NoRoute
        PROVE  /\ asked'[g][k].id # NoId => client'[g][route'[g][k]].on = asked'[g][k].id
               /\ route'[g][k] = k =>
                    asked'[g][k].mode # IF client'[g][k].shared THEN "exclusive" ELSE "shared"
    <3>1. CASE g = f /\ k = d
      <4>1. ASSUME NEW p \in Devices, Aliased(p)
            PROVE  client'[f][route'[f][d]].on = e /\ route'[f][d] # d
        BY <2>4, <3>1, <4>1
      <4>2. ASSUME Playing
            PROVE  client'[f][route'[f][d]].on = e
        BY <1>8, <2>1, <3>1, <4>2 DEF DefaultMoved
      <4>3. ~Refused
        BY <2>5, <3>1
      <4>. QED BY <1>3, <1>7, <1>14, <3>1, <4>1, <4>2, <4>3
    <3>2. CASE g # f \/ k # d
      <4>1. route'[g][k] = route[g][k] /\ client'[g][k] = client[g][k]
        BY <1>14, <3>2
      <4>2. route[g][k] \in Devices /\ (g # f \/ route[g][k] # d)
        <5>1. route[g][k] \in Devices /\ route[g][route[g][k]] = route[g][k]
          BY <1>1, <2>5, <4>1 DEF DeviceTypes, RoutesSound
        <5>. QED BY <1>5, <1>9, <5>1
      <4>3. client'[g][route[g][k]] = client[g][route[g][k]]
        BY <1>14, <4>2
      <4>. QED BY <1>3, <2>3, <2>5, <4>1, <4>3
    <3>. QED BY <3>1, <3>2
  <2>6. ASSUME NEW k \in Devices, NEW l \in Devices,
               client'[g][k] # NoClient, client'[g][k].on = client'[g][l].on, k < l
        PROVE  k \in failed'[g]
    <3>1. client'[g][k].on = resolved'[g][k]
      BY <2>1, <2>6 DEF DefaultMoved
    <3>2. client'[g][k].on # NoId
      BY <1>16, <2>6 DEF RoutesSound
    <3>3. CASE g = f /\ k = d
      <4>1. ~(Turn(f, l) < next)
        BY <1>3, <2>6, <3>3, DevicesAssumption DEF Turn, Devices
      <4>2. client[f][l] = NoClient /\ l # d
        BY <1>1, <2>6, <3>3, <4>1 DEF TurnsTaken, Blank, Devices
      <4>. QED BY <1>9, <1>14, <2>6, <3>2, <3>3, <4>2
    <3>4. CASE g = f /\ l = d
      <4>1. k # d
        BY <2>6, <3>4 DEF Devices
      <4>2. client'[f][k] = client[f][k] /\ (k \in failed'[f] <=> k \in failed[f]) /\ resolved'[f][k] = resolved[f][k]
        BY <1>8, <1>14, <4>1
      <4>3. client'[f][d] # NoClient /\ client'[f][d].on = e
        BY <1>8, <1>9, <2>1, <2>6, <3>2, <3>4 DEF DefaultMoved
      <4>4. NoTwin
        BY <1>14, <4>3
      <4>5. route[f][k] = NoRoute
        BY <2>6, <3>1, <3>2, <3>4, <4>2, <4>3, <4>4
      <4>. QED BY <1>1, <1>9, <2>6, <3>4, <4>2, <4>5 DEF RoutesSound
    <3>5. CASE ~(g = f /\ k = d) /\ ~(g = f /\ l = d)
      <4>1. /\ client'[g][k] = client[g][k] /\ client'[g][l] = client[g][l]
            /\ k \in failed'[g] <=> k \in failed[g]
        BY <1>14, <3>5
      <4>. QED BY <2>3, <2>6, <4>1
    <3>. QED BY <3>3, <3>4, <3>5
  <2>. QED BY <2>5, <2>6
<1>. QED BY <1>15, <1>16, <1>17, <1>18, <1>19 DEF DeviceInv

------------------------------------------------------------------------------
(* The rings of the cables without the driver.                                  *)

RingInv ==
  /\ DOMAIN ring = Cables
  /\ \A c \in Cables : ring[c] \in Seq(CableBlocks(c)) /\ Len(ring[c]) <= RingBlocks
  /\ RingsOfWorker /\ RingOnTime

(* What a tick leaves in a ring: no more than it holds, and nothing that was not there before where a row reads it. *)
LEMMA RingStep ==
  ASSUME NEW c \in Cables, NEW t \in Nat, table \in Tables, ring[c] \in Seq(CableBlocks(c)), Len(ring[c]) <= RingBlocks
  PROVE  /\ RingAfter(c, t) \in Seq(CableBlocks(c)) /\ Len(RingAfter(c, t)) <= RingBlocks
         /\ ring[c] = <<>> \/ ~AnyIn(c) => RingAfter(c, t) = <<>> \/ ~AnyIn(c)
<1>. DEFINE b == [of |-> CableOut(c), at |-> t]
            w == Written(c, t)
<1>1. RingBlocks \in Nat \ {0} /\ ring[c] \in Seq(CableBlocks(c))
  BY RoutingAssumption
<1>2. b \in CableBlocks(c)
  <2>1. CableOut(c) \in [0 .. CableChannels[c] - 1 -> SUBSET {Out(o) : o \in OutRows}]
    <3>1. \A ch : {Out(o) : o \in {x \in OnCable(table.out, c) : table.out[x].ch = ch}}
                    \subseteq {Out(o) : o \in DOMAIN table.out}
      BY DEF OnCable
    <3>2. DOMAIN table.out = OutRows
      BY DEF Tables
    <3>3. \A ch : {Out(o) : o \in {x \in OnCable(table.out, c) : table.out[x].ch = ch}}
                    \in SUBSET {Out(o) : o \in OutRows}
      BY <3>1, <3>2
    <3>. QED BY <3>3 DEF CableOut
  <2>. QED BY <2>1 DEF CableBlocks
<1>. HIDE DEF b
<1>3. w \in Seq(CableBlocks(c)) /\ Len(w) <= RingBlocks /\ (ring[c] = <<>> => Len(w) <= 1)
  <2>1. CASE AnyOut(c) /\ Len(ring[c]) < RingBlocks
    <3>1. w = Append(ring[c], b)
      BY <2>1 DEF Written, Pushed, b
    <3>2. Append(ring[c], b) \in Seq(CableBlocks(c)) /\ Len(Append(ring[c], b)) = Len(ring[c]) + 1
      BY <1>1, <1>2
    <3>3. Len(ring[c]) \in Nat /\ (ring[c] = <<>> => Len(ring[c]) = 0)
      BY <1>1
    <3>. HIDE DEF w
    <3>. QED BY <1>1, <2>1, <3>1, <3>2, <3>3
  <2>2. CASE ~(AnyOut(c) /\ Len(ring[c]) < RingBlocks)
    <3>1. w = ring[c]
      BY <2>2 DEF Written, Pushed
    <3>. HIDE DEF w
    <3>. QED BY <1>1, <3>1
  <2>. QED BY <2>1, <2>2
<1>4. /\ Popped(w) \in Seq(CableBlocks(c)) /\ Len(Popped(w)) <= RingBlocks
      /\ ring[c] = <<>> => Popped(w) = <<>>
  <2>. HIDE DEF w
  <2>1. CASE w = <<>>
    BY <1>3, <2>1 DEF Popped
  <2>2. CASE w # <<>>
    <3>1. Popped(w) = Tail(w)
      BY <2>2 DEF Popped
    <3>2. Tail(w) \in Seq(CableBlocks(c)) /\ Len(Tail(w)) = Len(w) - 1 /\ Len(w) \in Nat \ {0}
      BY <1>3, <2>2
    <3>3. Len(Tail(w)) = 0 => Tail(w) = <<>>
      BY <3>2, EmptySeq
    <3>. QED BY <1>1, <1>3, <3>1, <3>2, <3>3
  <2>. QED BY <2>1, <2>2
<1>. HIDE DEF w
<1>5. CASE c < driver
  BY <1>1, <1>5 DEF RingAfter
<1>6. CASE ~(c < driver) /\ AnyIn(c)
  <2>1. RingAfter(c, t) = Popped(w)
    BY <1>6 DEF RingAfter, w
  <2>. QED BY <1>4, <1>6, <2>1
<1>7. CASE ~(c < driver) /\ ~AnyIn(c)
  <2>1. RingAfter(c, t) = w
    BY <1>7 DEF RingAfter, w
  <2>. QED BY <1>3, <1>7, <2>1
<1>. QED BY <1>5, <1>6, <1>7

------------------------------------------------------------------------------
(* The steps of the whole.                                                      *)

Bounds == driver \in {0, DriverCables} /\ tick \in 0 .. MaxTicks /\ saves \in 0 .. MaxSaves

Inductive == DeviceInv /\ RingInv /\ Bounds

LEMMA InductiveIs == Inductive <=> IInv /\ OpenedAsAsked
BY DEF Inductive, DeviceInv, RingInv, Bounds, IInv, TypeOK, DeviceTypes, Client

LEMMA Initially == Init => Inductive
<1>1. SUFFICES ASSUME Init PROVE Inductive
  OBVIOUS
<1>2. ring = [c \in Cables |-> <<>>] /\ driver = 0 /\ tick = 0 /\ saves = 0
  BY <1>1 DEF Init
<1>3. RingInv
  <2>1. \A c \in Cables : ring[c] = <<>>
    BY <1>2
  <2>2. Len(<<>>) = 0 /\ RingBlocks \in Nat /\ \A c \in Cables : <<>> \in Seq(CableBlocks(c))
    BY RoutingAssumption
  <2>3. \A c \in Cables : Len(ring[c]) <= RingBlocks
    BY <2>1, <2>2
  <2>. QED BY <1>2, <2>1, <2>2, <2>3 DEF RingInv, RingsOfWorker, RingOnTime
<1>4. Bounds
  BY <1>2, RoutingAssumption DEF Bounds
<1>. QED BY <1>1, <1>3, <1>4, DevicesInitially DEF Inductive

LEMMA SaveKeeps == Inductive /\ Save => Inductive'
<1>1. SUFFICES ASSUME Inductive, Save PROVE Inductive'
  OBVIOUS
<1>2. /\ saved' = TRUE /\ saves' = saves + 1 /\ saves < MaxSaves
      /\ UNCHANGED <<phase, used, asked, next, resolved, route, client, failed, driver, ring, tick>>
  BY <1>1 DEF Save
<1>3. table' \in Tables
  <2>1. table \in Tables
    BY <1>1 DEF Inductive, DeviceInv, DeviceTypes
  <2>2. CASE \E o \in OutRows, s \in Sources : table' = [table EXCEPT !.out[o] = s]
    BY <2>1, <2>2 DEF Tables
  <2>3. CASE \E i \in InRows, s \in Sources : table' = [table EXCEPT !.in[i] = s]
    BY <2>1, <2>3 DEF Tables
  <2>4. CASE \E f \in Flow, d \in Devices, e \in Entries : table' = [table EXCEPT !.ids[f][d] = e]
    <3>1. PICK f \in Flow, d \in Devices, e \in Entries : table' = [table EXCEPT !.ids[f][d] = e]
      BY <2>4
    <3>2. table.ids \in [Flow -> [Devices -> Entries]]
      BY <2>1 DEF Tables
    <3>3. [table.ids EXCEPT ![f] = [@ EXCEPT ![d] = e]] \in [Flow -> [Devices -> Entries]]
      BY <3>2
    <3>4. table' = [table EXCEPT !.ids = [table.ids EXCEPT ![f] = [@ EXCEPT ![d] = e]]]
      BY <2>1, <3>1 DEF Tables
    <3>. QED BY <2>1, <3>3, <3>4 DEF Tables
  <2>. QED BY <1>1, <2>2, <2>3, <2>4 DEF Save
<1>4. DeviceTypes'
  <2>1. saved' \in BOOLEAN
    BY <1>2
  <2>. QED BY <1>1, <1>2, <1>3, <2>1 DEF Inductive, DeviceInv, DeviceTypes
<1>5. (RoutesSound /\ TurnsTaken /\ OpenedAsAsked)'
  BY <1>1, <1>2 DEF Inductive, DeviceInv, RoutesSound, TurnsTaken, OpenedAsAsked, DefaultMoved, Blank, Listed
<1>6. UsedKept' /\ RingOnTime'
  BY <1>2 DEF UsedKept, RingOnTime
<1>7. RingInv'
  BY <1>1, <1>2, <1>6 DEF Inductive, RingInv, RingsOfWorker
<1>8. Bounds'
  BY <1>1, <1>2, RoutingAssumption DEF Inductive, Bounds
<1>. QED BY <1>4, <1>5, <1>6, <1>7, <1>8 DEF Inductive, DeviceInv

(* Whatever the Worker does before it runs finds and leaves the rings empty.    *)
LEMMA EmptyKept ==
  ASSUME RingInv, phase # "running", UNCHANGED ring
  PROVE  RingInv'
<1>1. \A c \in Cables : ring[c] = <<>>
  BY DEF RingInv, RingsOfWorker
<1>. QED BY <1>1 DEF RingInv, RingsOfWorker, RingOnTime

LEMMA StartKeeps == Inductive /\ Start => Inductive'
<1>1. SUFFICES ASSUME Inductive, Start PROVE Inductive'
  OBVIOUS
<1>2. CountUsed /\ driver' \in {0, DriverCables} /\ UNCHANGED <<ring, tick, saves>>
  BY <1>1 DEF Start
<1>3. phase # "running"
  BY <1>2 DEF CountUsed
<1>4. RingInv'
  BY <1>1, <1>2, <1>3, EmptyKept DEF Inductive
<1>5. Bounds'
  BY <1>1, <1>2 DEF Inductive, Bounds
<1>. QED BY <1>1, <1>2, <1>4, <1>5, CountKeeps DEF Inductive

LEMMA OpenNextKeeps == Inductive /\ OpenNext => Inductive'
<1>1. SUFFICES ASSUME Inductive, OpenNext PROVE Inductive'
  OBVIOUS
<1>2. DeviceInv /\ RingInv /\ Bounds
  BY <1>1 DEF Inductive
<1>3. UNCHANGED <<driver, ring, tick, saves>>
  BY <1>1 DEF OpenNext
<1>4. phase # "running"
  BY <1>1 DEF OpenNext, Snapshot, SkipDevice, OpenDevice, Opening
<1>5. DeviceInv'
  BY <1>1, <1>2, SnapshotKeeps, SkipKeeps, OpenKeeps DEF OpenNext
<1>6. RingInv'
  BY <1>2, <1>3, <1>4, EmptyKept
<1>7. Bounds'
  BY <1>2, <1>3 DEF Bounds
<1>. QED BY <1>5, <1>6, <1>7 DEF Inductive

LEMMA StopKeeps == Inductive /\ Stop => Inductive'
<1>1. SUFFICES ASSUME Inductive, Stop PROVE Inductive'
  OBVIOUS
<1>2. CloseDevices /\ driver' = 0 /\ ring' = [c \in Cables |-> <<>>] /\ UNCHANGED <<tick, saves>>
  BY <1>1 DEF Stop
<1>3. RingInv'
  <2>1. \A c \in Cables : ring'[c] = <<>>
    BY <1>2
  <2>2. Len(<<>>) = 0 /\ RingBlocks \in Nat /\ \A c \in Cables : <<>> \in Seq(CableBlocks(c))
    BY RoutingAssumption
  <2>3. \A c \in Cables : Len(ring'[c]) <= RingBlocks
    BY <2>1, <2>2
  <2>. QED BY <1>2, <2>1, <2>2, <2>3 DEF RingInv, RingsOfWorker, RingOnTime
<1>4. Bounds'
  BY <1>1, <1>2 DEF Inductive, Bounds
<1>. QED BY <1>1, <1>2, <1>3, <1>4, CloseKeeps DEF Inductive

LEMMA SameDevices == DeviceInv /\ UNCHANGED <<table, devices>> => DeviceInv'
<1>1. SUFFICES ASSUME DeviceInv, UNCHANGED <<table, devices>> PROVE DeviceInv'
  OBVIOUS
<1>2. UNCHANGED <<table, saved, phase, used, asked, next, resolved, route, client, failed>>
  BY <1>1 DEF devices
<1>3. DeviceTypes'
  BY <1>1, <1>2 DEF DeviceInv, DeviceTypes
<1>4. RoutesSound' /\ UsedKept'
  BY <1>1, <1>2 DEF DeviceInv, RoutesSound, UsedKept, Used
<1>5. TurnsTaken'
  BY <1>1, <1>2 DEF DeviceInv, TurnsTaken, Blank, Listed
<1>6. OpenedAsAsked'
  BY <1>1, <1>2 DEF DeviceInv, OpenedAsAsked, DefaultMoved
<1>. QED BY <1>3, <1>4, <1>5, <1>6 DEF DeviceInv

LEMMA TickKeeps == Inductive /\ Tick => Inductive'
<1>1. SUFFICES ASSUME Inductive, Tick PROVE Inductive'
  OBVIOUS
<1>2. /\ phase = "running" /\ tick < MaxTicks /\ tick' = tick + 1
      /\ ring' = [c \in Cables |-> RingAfter(c, tick')]
      /\ UNCHANGED <<table, devices, driver, saves>>
  BY <1>1 DEF Tick
<1>3. DeviceInv /\ RingInv /\ Bounds /\ table \in Tables
  BY <1>1 DEF Inductive, DeviceInv, DeviceTypes
<1>4. Bounds' /\ tick' \in Nat
  BY <1>2, <1>3, RoutingAssumption DEF Bounds
<1>5. ASSUME NEW c \in Cables
      PROVE  /\ ring'[c] \in Seq(CableBlocks(c)) /\ Len(ring'[c]) <= RingBlocks
             /\ ring[c] = <<>> \/ ~AnyIn(c) => ring'[c] = <<>> \/ ~AnyIn(c)
  <2>1. ring[c] \in Seq(CableBlocks(c)) /\ Len(ring[c]) <= RingBlocks
    BY <1>3 DEF RingInv
  <2>2. ring'[c] = RingAfter(c, tick')
    BY <1>2
  <2>3. /\ RingAfter(c, tick') \in Seq(CableBlocks(c)) /\ Len(RingAfter(c, tick')) <= RingBlocks
        /\ ring[c] = <<>> \/ ~AnyIn(c) => RingAfter(c, tick') = <<>> \/ ~AnyIn(c)
    BY <1>3, <1>4, <2>1, RingStep
  <2>. QED BY <2>2, <2>3
<1>6. phase' = phase /\ saved' = saved /\ table' = table
  BY <1>2 DEF devices
<1>7. RingInv'
  <2>1. DOMAIN ring' = Cables
    BY <1>2, <1>5
  <2>2. RingOnTime'
    BY <1>3, <1>5, <1>6 DEF RingInv, RingOnTime, AnyIn, OnCable
  <2>. QED BY <1>2, <1>5, <1>6, <2>1, <2>2 DEF RingInv, RingsOfWorker
<1>. QED BY <1>2, <1>3, <1>4, <1>7, SameDevices DEF Inductive

LEMMA Kept == Inductive /\ [Next]_vars => Inductive'
<1>1. SUFFICES ASSUME Inductive, [Next]_vars PROVE Inductive'
  OBVIOUS
<1>2. CASE UNCHANGED vars
  <2>1. DeviceInv' /\ Bounds'
    BY <1>1, <1>2, SameDevices DEF Inductive, Bounds, vars
  <2>2. RingInv'
    BY <1>1, <1>2 DEF Inductive, RingInv, RingsOfWorker, RingOnTime, AnyIn, OnCable, vars, devices
  <2>. QED BY <2>1, <2>2 DEF Inductive
<1>. QED BY <1>1, <1>2, SaveKeeps, StartKeeps, OpenNextKeeps, StopKeeps, TickKeeps DEF Next

------------------------------------------------------------------------------
(* What a tick puts in the IN rows and sends to the HW outputs.                 *)

LEMMA BlockIs ==
  ASSUME NEW from, NEW t
  PROVE  Block(from, t).from = from /\ (Block(from, t) = Silence \/ Block(from, t).at = t)
BY DEF Block, Silence

LEMMA RowsTyped ==
  ASSUME Inductive, NEW i \in InRows
  PROVE  /\ table.in[i] \in Sources /\ DOMAIN table.in = InRows /\ DOMAIN table.out = OutRows
         /\ table.in[i].type \in {"none", "hw", "virtual"}
         /\ table.in[i].type = "hw" => table.in[i].of \in Devices
         /\ table.in[i].type = "virtual" => table.in[i].of \in Cables
         /\ table.in[i].ch \in Nat
<1>1. table \in Tables
  BY DEF Inductive, DeviceInv, DeviceTypes
<1>2. table.in[i] \in Sources /\ DOMAIN table.in = InRows /\ DOMAIN table.out = OutRows
  BY <1>1 DEF Tables
<1>. QED BY <1>2, RoutingAssumption DEF Cables

(* A looped OUT row is on the cable and the channel of the row it is copied to: *)
(* the cable has an OUT row, and writes the IN row after the copy.              *)
LEMMA LoopIsOnCable ==
  ASSUME NEW i \in InRows, NEW o \in OutRows, LoopedTo(i, o), DOMAIN table.out = OutRows
  PROVE  /\ table.in[i].type = "virtual"
         /\ table.in[i].ch < CableChannels[table.in[i].of] => AnyOut(table.in[i].of)
<1>1. /\ i \in OnCable(table.in, table.out[o].of) /\ table.in[i].ch = table.out[o].ch
      /\ table.out[o].type = "virtual"
  BY DEF LoopedTo, LoopInto
<1>2. table.in[i].type = "virtual" /\ table.in[i].of = table.out[o].of
  BY <1>1 DEF OnCable
<1>3. o \in OnCable(table.out, table.in[i].of)
  BY <1>1, <1>2 DEF OnCable
<1>. QED BY <1>1, <1>2, <1>3 DEF AnyOut

LEMMA NotLooped ==
  ASSUME NEW i \in InRows, NEW t, \A o \in OutRows : ~LoopedTo(i, o)
  PROVE  Looped(i, t) = in[i]
BY DEF Looped

(* A row left alone keeps its block.                                            *)
LEMMA AloneKept ==
  ASSUME Inductive, NEW i \in InRows, NEW t, NEW exchanged, NEW settled, LeftAlone(i)
  PROVE  Recorded(i, Cabled(i, Looped(i, t), exchanged, t), settled, t) = in[i]
<1>. DEFINE s == table.in[i]
<1>1. /\ DOMAIN table.out = OutRows
      /\ s.type = "virtual" => s.of \in Cables
  BY RowsTyped
<1>2. CASE s.type # "virtual"
  <2>1. s.type = "hw" => ~AnyInput
    BY <1>2 DEF LeftAlone
  <2>2. Looped(i, t) = in[i]
    BY <1>1, <1>2, LoopIsOnCable, NotLooped
  <2>. QED BY <1>2, <2>1, <2>2 DEF Cabled, Recorded
<1>3. CASE s.type = "virtual"
  <2>1. ~(s.of < driver) /\ s.ch < CableChannels[s.of] /\ ~AnyOut(s.of) /\ ring[s.of] = <<>>
    <3>1. s.of >= driver /\ s.ch < CableChannels[s.of] /\ ~AnyOut(s.of) /\ ring[s.of] = <<>>
      BY <1>3 DEF LeftAlone
    <3>2. s.of \in Int /\ driver \in Int
      BY <1>1, <1>3, RoutingAssumption DEF Cables, Inductive, Bounds
    <3>. QED BY <3>1, <3>2
  <2>2. Looped(i, t) = in[i]
    BY <1>1, <2>1, LoopIsOnCable, NotLooped
  <2>3. Written(s.of, t) = <<>>
    BY <2>1 DEF Written
  <2>4. ~(s.ch >= CableChannels[s.of])
    <3>1. s.ch \in Nat /\ CableChannels[s.of] \in Nat
      BY <1>1, <1>3, RowsTyped, RoutingAssumption DEF Cables
    <3>. QED BY <2>1, <3>1
  <2>. QED BY <1>3, <2>1, <2>2, <2>3, <2>4 DEF Cabled, Recorded
<1>. QED BY <1>2, <1>3

(* A row of a HW input gets its channel, or silence.                            *)
LEMMA HwRowGets ==
  ASSUME Inductive, NEW i \in InRows, NEW t, NEW before, NEW settled,
         table.in[i].type = "hw", AnyInput
  PROVE  LET x == Recorded(i, before, settled, t)
         IN  x.from \subseteq OwnSources(i) /\ (x = Silence \/ x.at = t)
<1>. DEFINE s == table.in[i]
            p == route["capture"][s.of]
            x == Recorded(i, before, settled, t)
            rec == Record(client["capture"][p].on, s.ch)
<1>1. x = Silence \/ (p # NoRoute /\ x = Block({rec}, t))
  BY DEF Recorded
<1>2. CASE x = Silence
  BY <1>2 DEF Silence
<1>3. CASE p # NoRoute /\ x = Block({rec}, t)
  <2>1. s.of \in Devices /\ RoutesSound /\ DeviceTypes /\ "capture" \in Flow
    BY RowsTyped DEF Inductive, DeviceInv, Flow
  <2>2. p \in Devices
    BY <1>3, <2>1 DEF DeviceTypes
  <2>3. route["capture"][p] = p
    BY <1>3, <2>1 DEF RoutesSound
  <2>4. client["capture"][p].on # NoId
    BY <2>1, <2>2, <2>3 DEF RoutesSound
  <2>5. client["capture"][p].on \in Endpoints
    BY <2>1, <2>2, <2>4 DEF DeviceTypes, Client, Names
  <2>6. AskedOn("capture", s.of, client["capture"][p].on)
    <3>1. OpenedAsAsked
      BY DEF Inductive, DeviceInv
    <3>. QED BY <1>3, <2>1, <3>1 DEF OpenedAsAsked, AskedOn
  <2>7. rec \in OwnSources(i)
    BY <2>5, <2>6 DEF OwnSources
  <2>. HIDE DEF rec
  <2>8. x.from = {rec} /\ (x = Silence \/ x.at = t)
    BY <1>3, BlockIs
  <2>. QED BY <2>7, <2>8
<1>. QED BY <1>1, <1>2, <1>3

(* The oldest block of a driverless cable's ring, with this tick's in it: while *)
(* no row changed, this tick's.                                                 *)
LEMMA OldestBlock ==
  ASSUME Inductive, NEW c \in Cables, AnyIn(c), NEW t \in Nat, Written(c, t) # <<>>
  PROVE  /\ Head(Written(c, t)) \in CableBlocks(c)
         /\ saved \/ Head(Written(c, t)) = [of |-> CableOut(c), at |-> t]
<1>. DEFINE b == [of |-> CableOut(c), at |-> t]
<1>1. RingBlocks \in Nat \ {0} /\ ring[c] \in Seq(CableBlocks(c)) /\ table \in Tables
  BY RoutingAssumption DEF Inductive, RingInv, DeviceInv, DeviceTypes
<1>2. b \in CableBlocks(c)
  <2>1. DOMAIN table.out = OutRows
    BY <1>1 DEF Tables
  <2>2. \A ch : {Out(o) : o \in {x \in OnCable(table.out, c) : table.out[x].ch = ch}}
                  \in SUBSET {Out(o) : o \in OutRows}
    BY <2>1 DEF OnCable
  <2>3. CableOut(c) \in [0 .. CableChannels[c] - 1 -> SUBSET {Out(o) : o \in OutRows}]
    BY <2>2 DEF CableOut
  <2>. QED BY <2>3 DEF CableBlocks
<1>3. saved \/ ring[c] = <<>>
  BY DEF Inductive, RingInv, RingOnTime
<1>. HIDE DEF b
<1>4. Written(c, t) \in {ring[c], Append(ring[c], b)}
  BY DEF Written, Pushed, b
<1>5. Written(c, t) \in Seq(CableBlocks(c))
  <2>. DEFINE B == CableBlocks(c)
              r == ring[c]
  <2>. HIDE DEF B
  <2>1. r \in Seq(B) /\ b \in B
    BY <1>1, <1>2 DEF B
  <2>. HIDE DEF r
  <2>2. Append(r, b) \in Seq(B)
    BY <2>1, AppendProperties
  <2>3. Written(c, t) \in {r, Append(r, b)}
    BY <1>4 DEF r
  <2>. HIDE DEF Written
  <2>4. Written(c, t) \in Seq(B)
    BY <2>1, <2>2, <2>3
  <2>. QED BY <2>4 DEF B
<1>6. Head(Written(c, t)) \in CableBlocks(c)
  <2>. DEFINE w == Written(c, t)
  <2>. HIDE DEF w
  <2>1. w \in Seq(CableBlocks(c)) /\ w # <<>>
    BY <1>5 DEF w
  <2>2. Head(w) \in CableBlocks(c)
    BY <2>1, HeadTailProperties
  <2>. QED BY <2>2 DEF w
<1>7. ring[c] = <<>> => Head(Written(c, t)) = b
  <2>1. SUFFICES ASSUME ring[c] = <<>> PROVE Head(Written(c, t)) = b
    OBVIOUS
  <2>2. Written(c, t) = Append(<<>>, b)
    BY <1>4, <2>1
  <2>. QED BY <2>2
<1>. QED BY <1>3, <1>6, <1>7 DEF b

(* A row of a cable gets what Windows played, or the rows its ring holds.       *)
LEMMA CableRowGets ==
  ASSUME Inductive, NEW i \in InRows, NEW t \in Nat, NEW before, NEW exchanged,
         table.in[i].type = "virtual", ~LeftAlone(i)
  PROVE  LET x == Cabled(i, before, exchanged, t)
         IN  x.from \subseteq OwnSources(i) /\ (x = Silence \/ x.at = t \/ saved)
<1>. DEFINE c == table.in[i].of
            ch == table.in[i].ch
            x == Cabled(i, before, exchanged, t)
<1>1. /\ c \in Cables /\ ch \in Nat /\ CableChannels[c] \in Nat /\ c \in Int /\ driver \in Int
      /\ DOMAIN table.in = InRows /\ DOMAIN table.out = OutRows
  BY RowsTyped, RoutingAssumption DEF Cables, Inductive, Bounds
<1>2. CASE ch >= CableChannels[c]
  BY <1>2 DEF Cabled, Silence
<1>3. CASE ~(ch >= CableChannels[c]) /\ c < driver
  <2>1. x = Silence \/ x = Block({Play(c, ch)}, t)
    BY <1>3 DEF Cabled
  <2>2. Play(c, ch) \in OwnSources(i)
    BY DEF OwnSources
  <2>3. x.from \subseteq {Play(c, ch)} /\ (x = Silence \/ x.at = t)
    BY <2>1, BlockIs DEF Silence
  <2>. QED BY <2>2, <2>3
<1>4. CASE ~(ch >= CableChannels[c]) /\ ~(c < driver)
  <2>. DEFINE w == Written(c, t)
              h == Head(w)
  <2>1. AnyIn(c)
    BY <1>1 DEF AnyIn, OnCable
  <2>2. w # <<>>
    <3>1. AnyOut(c) \/ ring[c] # <<>>
      BY <1>1, <1>4 DEF LeftAlone
    <3>2. RingBlocks \in Nat \ {0} /\ ring[c] \in Seq(CableBlocks(c))
      BY <1>1, RoutingAssumption DEF Inductive, RingInv
    <3>3. CASE ring[c] # <<>>
      <4>1. Append(ring[c], [of |-> CableOut(c), at |-> t]) # <<>>
        BY <3>2
      <4>. QED BY <3>3, <4>1 DEF Written, Pushed
    <3>4. CASE ring[c] = <<>> /\ AnyOut(c)
      <4>1. w = Append(<<>>, [of |-> CableOut(c), at |-> t])
        BY <3>2, <3>4 DEF Written, Pushed
      <4>. QED BY <4>1
    <3>. QED BY <3>1, <3>3, <3>4
  <2>3. h \in CableBlocks(c) /\ (saved \/ h = [of |-> CableOut(c), at |-> t])
    BY <1>1, <2>1, <2>2, OldestBlock
  <2>4. x = Block(h.of[ch], h.at)
    BY <1>4, <2>2 DEF Cabled
  <2>. HIDE DEF w, h
  <2>5. x.from = h.of[ch] /\ (x = Silence \/ x.at = h.at)
    BY <2>4, BlockIs
  <2>6. ch \in 0 .. CableChannels[c] - 1
    BY <1>1, <1>4
  <2>7. CASE saved
    <3>1. h.of[ch] \subseteq {Out(o) : o \in OutRows}
      BY <2>3, <2>6 DEF CableBlocks
    <3>2. {Out(o) : o \in OutRows} \subseteq OwnSources(i)
      BY <2>7 DEF OwnSources
    <3>. QED BY <2>5, <2>7, <3>1, <3>2
  <2>8. CASE ~saved
    <3>1. h.at = t /\ h.of = CableOut(c)
      BY <2>3, <2>8
    <3>2. h.of[ch] = {Out(o) : o \in {y \in OnCable(table.out, c) : table.out[y].ch = ch}}
      BY <2>6, <3>1 DEF CableOut
    <3>3. OnCable(table.out, c) \subseteq OutRows
      BY <1>1 DEF OnCable
    <3>4. h.of[ch] \subseteq OwnSources(i)
      BY <3>2, <3>3 DEF OwnSources
    <3>. QED BY <2>5, <3>1, <3>4
  <2>. QED BY <2>7, <2>8
<1>. QED BY <1>2, <1>3, <1>4

(* What a HW output gets is a row of that output, on its endpoint.              *)
LEMMA OutputsGet ==
  ASSUME Inductive, NEW settled
  PROVE  HeardWhereAsked(Sent(settled))
<1>1. table \in Tables /\ DeviceTypes /\ OpenedAsAsked /\ "render" \in Flow
  BY DEF Inductive, DeviceInv, DeviceTypes, Flow
<1>2. ASSUME NEW o \in OutRows, table.out[o].type = "hw",
             route["render"][table.out[o].of] # NoRoute
      PROVE  AskedOn("render", table.out[o].of, client["render"][route["render"][table.out[o].of]].on)
  <2>1. table.out[o] \in Sources
    BY <1>1 DEF Tables
  <2>2. table.out[o].of \in Devices
    BY <1>2, <2>1, RoutingAssumption
  <2>. QED BY <1>1, <1>2, <2>2 DEF OpenedAsAsked, AskedOn
<1>3. SUFFICES ASSUME NEW o \in OutRows, table.out[o].type = "hw",
                      route["render"][table.out[o].of] # NoRoute,
                      NEW x, x = <<o, client["render"][route["render"][table.out[o].of]].on, table.out[o].ch>>
               PROVE  LET s == table.out[x[1]]
                      IN  /\ s.type = "hw" /\ s.ch = x[3]
                          /\ AskedOn("render", s.of, x[2])
  BY DEF HeardWhereAsked, Sent
<1>4. x[1] = o /\ x[2] = client["render"][route["render"][table.out[o].of]].on /\ x[3] = table.out[o].ch
  BY <1>3
<1>. QED BY <1>2, <1>3, <1>4

------------------------------------------------------------------------------
(* In every behaviour a device plays through itself or an earlier open one on   *)
(* its endpoint, each has had its turn once, and a driverless cable's ring holds*)
(* blocks between ticks only where no row reads it (openHw, doTick).            *)
THEOREM Invariance == Spec => []IInv
<1>1. Inductive => IInv
  BY InductiveIs
<1>. QED BY <1>1, Initially, Kept, PTL DEF Spec

(* In every behaviour no endpoint is opened twice, and a listed device plays on *)
(* the endpoint of its ID and in its mode, while the Windows default stands.    *)
THEOREM DevicesOpenedAsAsked == Spec => []OpenedAsAsked
<1>1. Inductive => OpenedAsAsked
  BY InductiveIs
<1>. QED BY <1>1, Initially, Kept, PTL DEF Spec

(* In every behaviour a running Worker's row without a device is one whose      *)
(* device failed or has no entry, until a Save.                                 *)
THEOREM RowsAccountedFor == Spec => []Accounted
<1>1. Inductive => Accounted
  <2>1. SUFFICES ASSUME Inductive, phase = "running", ~saved, NEW f \in Flow,
                        NEW d \in HwDevicesOf(IF f = "render" THEN table.out ELSE table.in)
                 PROVE  route[f][d] # NoRoute \/ d \in failed[f] \/ ~Listed(f, d)
    BY DEF Accounted
  <2>2. DeviceTypes /\ TurnsTaken /\ used = Used /\ next = 2 * NDevices
    BY <2>1 DEF Inductive, DeviceInv, UsedKept, TurnsTaken
  <2>3. d \in used[f]
    BY <2>1, <2>2 DEF Used, Flow
  <2>4. d \in Devices
    BY <2>2, <2>3 DEF DeviceTypes
  <2>5. Turn(f, d) < next
    BY <2>2, <2>4, Turns, DevicesAssumption
  <2>. QED BY <2>2, <2>3, <2>4, <2>5 DEF TurnsTaken
<1>. QED BY <1>1, Initially, Kept, PTL DEF Spec

(* In every behaviour a tick gives each IN row its own source's audio of this   *)
(* tick, silence, or, to those that have nothing to write them, nothing; and    *)
(* each HW output its own rows, on the endpoint its ID names (doTick). Audio of *)
(* another tick or row comes from a driverless cable's ring alone, after a Save.*)
THEOREM RowsGetOwnAudio == Spec => OwnAudio
<1>. DEFINE Rows(t) ==
       \A i \in InRows :
         IF LeftAlone(i) THEN in'[i] = in[i]
         ELSE /\ in'[i].from \subseteq OwnSources(i)
              /\ in'[i] = Silence \/ in'[i].at = t \/ (saved /\ table.in[i].type = "virtual")
<1>1. ASSUME Inductive, Tick  PROVE HeardWhereAsked(heard') /\ Rows(tick')
  <2>1. tick' \in Nat
    BY <1>1, RoutingAssumption DEF Tick, Inductive, Bounds
  <2>2. PICK exchanged \in SUBSET (0 .. driver - 1), settled \in BOOLEAN :
          /\ in' = [i \in InRows |-> Recorded(i, Cabled(i, Looped(i, tick'), exchanged, tick'), settled, tick')]
          /\ heard' = Sent(settled)
    BY <1>1 DEF Tick
  <2>3. HeardWhereAsked(heard')
    BY <1>1, <2>2, OutputsGet
  <2>4. ASSUME NEW i \in InRows, LeftAlone(i)  PROVE in'[i] = in[i]
    BY <1>1, <2>2, <2>4, AloneKept
  <2>5. ASSUME NEW i \in InRows, ~LeftAlone(i)
        PROVE  /\ in'[i].from \subseteq OwnSources(i)
               /\ in'[i] = Silence \/ in'[i].at = tick' \/ (saved /\ table.in[i].type = "virtual")
    <3>. DEFINE before == Cabled(i, Looped(i, tick'), exchanged, tick')
    <3>1. in'[i] = Recorded(i, before, settled, tick')
      BY <2>2
    <3>2. table.in[i].type \in {"hw", "virtual"}
      BY <1>1, <2>5, RowsTyped DEF LeftAlone
    <3>3. CASE table.in[i].type = "hw"
      <4>1. AnyInput
        BY <2>5, <3>3 DEF LeftAlone
      <4>. HIDE DEF before
      <4>. QED BY <1>1, <3>1, <3>3, <4>1, HwRowGets
    <3>4. CASE table.in[i].type = "virtual"
      <4>1. before.from \subseteq OwnSources(i) /\ (before = Silence \/ before.at = tick' \/ saved)
        BY <1>1, <2>1, <2>5, <3>4, CableRowGets
      <4>. HIDE DEF before
      <4>2. in'[i] = before
        BY <3>1, <3>4 DEF Recorded
      <4>. QED BY <3>4, <4>1, <4>2
    <3>. QED BY <3>2, <3>3, <3>4
  <2>. QED BY <2>3, <2>4, <2>5
<1>2. ASSUME Inductive, [Next]_vars, tick' # tick  PROVE Tick
  BY <1>2 DEF Next, Save, Start, OpenNext, Stop, vars
<1>3. Inductive /\ [Next]_vars =>
        [tick' # tick => HeardWhereAsked(heard') /\ Rows(tick')]_vars
  BY <1>1, <1>2
<1>. QED BY <1>3, Initially, Kept, PTL DEF Spec, OwnAudio

==============================================================================
