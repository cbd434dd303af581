----------------------------- MODULE NetworkStream -----------------------------
(***************************************************************************)
(* One stream of the network engine (WHANetworkEngine), received or sent.  *)
(* Rx: the network thread takes datagrams from the socket, orders them by  *)
(* their sequence numbers and puts their frames in a ring; the Worker      *)
(* takes a tick's frames from it (processTick) once the jitter target is   *)
(* buffered.  Tx: the Worker puts each tick in the ring, and the network   *)
(* thread makes packets of it.  A Save makes the network thread open the   *)
(* stream anew.  The two threads share the ring, a flag and a gate         *)
(* (StreamGate); there is no lock.                                         *)
(*                                                                         *)
(* A frame is its number in the sender's audio, from 1; 0 is silence.  The *)
(* ring's cells are abstracted to the queue they hold: its ends are atomic *)
(* counters, each stored after the frames it counts.  Left out: the        *)
(* resampling and the drift correction of an Rx stream (a packet's frames  *)
(* go in the ring as they are), a CODEBOOK that changes while a stream is  *)
(* open, the counters, the socket's own life, which rows a stream's audio  *)
(* is of, and packets that cannot be decoded or, changing nothing else,    *)
(* are malformed or from another sender.                                   *)
(***************************************************************************)
EXTENDS Integers, Sequences

CONSTANTS
  Kinds,         \* of streams: Rx and Tx, of PCM and of Vorbis
  Modulus,       \* of the sequence numbers (2^32)
  FirstSeqs,     \* sequence numbers the sender may be at, to begin with
  Resync,        \* a jump this long is a sender's restart (kSeqResync)
  PacketFrames,  \* frames of a packet
  TickFrames,    \* frames of a Master Clock tick
  Capacity,      \* frames of the ring (RingFrames)
  Targets,       \* jitter targets a Save may choose, in frames
  FeedFrames,    \* frames the encoder is given at most (kVorbisFeedFrames)
  MaxPackets     \* packets of audio a sender has

ASSUME SequenceAssumption ==
  /\ Modulus \in Nat /\ Resync \in Nat \ {0} /\ 2 * Resync <= Modulus
  /\ FirstSeqs \subseteq 0..(Modulus - 1)
  /\ 2 * MaxPackets <= Modulus  \* the bound of a run: no packet is half the numbers behind
ASSUME FramesAssumption ==
  /\ Kinds \subseteq {"rxPcm", "rxVorbis", "txPcm", "txVorbis"} /\ FeedFrames \in Nat \ {0}
  /\ PacketFrames \in Nat \ {0} /\ TickFrames \in Nat \ {0} /\ Capacity \in Nat \ {0}
  /\ Targets \subseteq Nat /\ MaxPackets \in Nat

VARIABLES
  \* What the stream is; of an Rx stream the sender's first sequence number,
  \* and the packets before it is started again (0: it is not).
  kind, firstSeq, restartedAt,
  \* The Slot Table as this stream uses it, and TableChanged.
  table, tableChanged, reconfigure,
  \* StreamGate.
  active, busy,
  \* The network thread: where it is, what it is opening, the packet it puts
  \* in the ring and the room found there (a Tx stream's, by the Worker), and
  \* its view of the sequence.
  netPc, want, packet, room, haveSeq, nextSeq,
  \* Of a Tx stream, since it was opened: the next sequence number, whether
  \* its encoder opened, whether its CODEBOOK was sent (of an Rx stream,
  \* whether one came that opened the decoder), the frames of the ticks, and
  \* whether the ring had room for all of them (history).
  sequence, encoder, book, ticked, whole,
  \* Shared: the ring, whether the Worker plays, and the target to begin at.
  ring, primed, target,
  \* The Worker: where it is, what it found in the ring, and its scratch.
  workerPc, avail, scratch,
  \* History, for the properties only, since the stream was opened: the
  \* newest packet that came, those in a row that came new and were refused,
  \* the last frame played or sent, and whether all came from one run of the
  \* sender.  A CODEBOOK that opens the decoder begins them anew.
  seen, refused, last, oneRun

given   == <<kind, firstSeq, restartedAt>>
sending == <<sequence, encoder, book, ticked, whole>>
config  == <<table, tableChanged, reconfigure>>
gate    == <<active, busy>>
receive == <<want, packet, room, haveSeq, nextSeq>>
history == <<seen, refused, oneRun>>
net     == <<netPc, receive, history>>
worker  == <<workerPc, avail, scratch, last>>
vars    == <<given, sending, config, gate, net, ring, primed, target, worker>>

Tx     == kind \in {"txPcm", "txVorbis"}
Vorbis == kind \in {"rxVorbis", "txVorbis"}

Packets == 1..MaxPackets
Frames  == 0..(MaxPackets * PacketFrames)

\* The frames of packet k; once the sender was restarted, their numbers say
\* nothing any more and are left out.
FramesOf(k) == [f \in 1..PacketFrames |-> IF oneRun THEN (k - 1) * PacketFrames + f ELSE 0]

Tables == [on : BOOLEAN, target : Targets]

NetStates    == {"top", "apply", "closing", "alloc", "serve", "push"}
WorkerStates == {"idle", "enter", "recheck", "look", "take", "put", "leave"}

NoPacket == 0
Silent   == [f \in 1..TickFrames |-> 0]

-----------------------------------------------------------------------------
(***************************************************************************)
(* The sender, another engine's Tx stream.  Any of its packets may come at *)
(* any time, and again, or never: so when it sends them does not matter.   *)
(***************************************************************************)

\* The sequence number of packet k.  OpenTx begins a run at 0; this engine
\* may come to the first run at any number of it.
SeqOf(k) ==
  (IF restartedAt > 0 /\ k > restartedAt THEN k - restartedAt - 1 ELSE firstSeq + k - 1) % Modulus

\* A Save: the Slot Table, then TableChanged.
Save ==
  /\ table' \in Tables
  /\ tableChanged' = TRUE
  /\ UNCHANGED <<given, sending, reconfigure, gate, net, ring, primed, target, worker>>

-----------------------------------------------------------------------------
(***************************************************************************)
(* The network thread.                                                     *)
(***************************************************************************)

NetGoes(from, to) == netPc = from /\ netPc' = to

FaultyFlagAfter(step) ==  \* the flag is cleared once the table is applied
  IF step = "top" THEN reconfigure ELSE FALSE

\* reconfigure.exchange: the flag is cleared before the table is read.
FlagAfter(step) == IF step = "top" THEN FALSE ELSE reconfigure

\* Run: a wake, by the Worker, the socket or the timeout.
NetTop ==
  /\ NetGoes("top", IF reconfigure THEN "apply" ELSE "serve")
  /\ reconfigure' = FlagAfter("top")
  /\ UNCHANGED <<given, sending, table, tableChanged, gate, receive, history, ring, primed, target, worker>>

\* The stream already is as the table has it.
Same == active = table.on /\ (Tx \/ target = table.target)

\* ApplyConfig: a stream that changes is closed first.
NetApply ==
  /\ NetGoes("apply", IF Same THEN "serve" ELSE "closing")
  /\ IF Same THEN UNCHANGED <<want, active>>
     ELSE want' = table /\ active' = FALSE
  /\ reconfigure' = FlagAfter("apply")
  /\ UNCHANGED <<given, sending, table, tableChanged, busy, packet, room, haveSeq, nextSeq, history, ring, primed,
                 target, worker>>

\* StreamGate::close spins until the Worker has left the stream ...
NetClosed ==
  /\ NetGoes("closing", "alloc")
  /\ ~busy
  /\ haveSeq' = FALSE
  /\ nextSeq' = 0
  /\ primed' = FALSE
  /\ target' = IF Tx THEN target ELSE want.target
  /\ UNCHANGED <<given, sending, config, gate, want, packet, room, history, ring, worker>>

\* ... then the ring is made anew, and the stream opened; a Vorbis Tx stream
\* stays closed if its encoder does not open.
NetOpen ==
  /\ NetGoes("alloc", "serve")
  /\ encoder' \in IF kind = "txVorbis" /\ want.on THEN BOOLEAN ELSE {TRUE}
  /\ active' = (want.on /\ encoder')
  /\ IF want.on
     THEN /\ ring' = <<>> /\ scratch' = Silent
          /\ sequence' = 0 /\ ticked' = 0 /\ whole' = TRUE
     ELSE UNCHANGED <<ring, scratch, sequence, ticked, whole>>
  /\ book' = FALSE
  /\ seen' = 0 /\ refused' = 0 /\ last' = 0 /\ oneRun' = TRUE
  /\ reconfigure' = FlagAfter("open")
  /\ UNCHANGED <<given, table, tableChanged, busy, receive, primed, target, workerPc, avail>>

\* The signed 32-bit difference of a sequence number and the next one.
Ahead(seq) ==
  LET distance == (seq - nextSeq) % Modulus
  IN  IF distance < Modulus - distance THEN distance ELSE distance - Modulus

FaultyLate(seq) == haveSeq /\ Ahead(seq) < 0  \* any packet behind the next is late

FaultyNotLate(seq) == haveSeq /\ Ahead(seq) < -1 /\ Ahead(seq) > -Resync  \* the last one again is not

\* A packet behind the next one is late or came twice, unless it is so far
\* behind that the sender must have started again.
Late(seq) == haveSeq /\ Ahead(seq) < 0 /\ Ahead(seq) > -Resync

SameRun(j, k) == restartedAt = 0 \/ (j <= restartedAt <=> k <= restartedAt)

\* WHASpscRing::write: the frames that fit.
Room == Capacity - Len(ring)

\* OnAudio.  A packet that comes late is less than Resync (2.7 s) behind the
\* next.  Audio that comes before the CODEBOOK is dropped.
NetReceive(k) ==
  /\ ~Tx
  /\ netPc = "serve"
  /\ active
  /\ k + Resync > seen + 1
  /\ seen' = IF k > seen THEN k ELSE seen
  /\ oneRun' = (oneRun /\ (seen = 0 \/ SameRun(seen, k)))
  /\ IF Late(SeqOf(k))
     THEN /\ refused' = IF k > seen THEN refused + 1 ELSE refused
          /\ UNCHANGED <<netPc, packet, room, haveSeq, nextSeq>>
     ELSE /\ refused' = 0
          /\ haveSeq' = TRUE
          /\ nextSeq' = (SeqOf(k) + 1) % Modulus
          /\ IF Vorbis /\ ~book THEN UNCHANGED <<netPc, packet, room>>
             ELSE packet' = k /\ room' = Room /\ netPc' = "push"
  /\ UNCHANGED <<given, sending, config, gate, want, ring, primed, target, worker>>

\* OnCodebook, until one opens the decoder: what comes then begins the
\* sequence, whether or not a resampler opens, which the decoder may need.
\* One that does not open changes nothing, as a copy of the one in use.
NetCodebook ==
  /\ kind = "rxVorbis" /\ netPc = "serve" /\ active
  /\ ~book
  /\ book' \in BOOLEAN
  /\ haveSeq' = FALSE
  /\ seen' = 0 /\ refused' = 0 /\ oneRun' = TRUE
  /\ UNCHANGED <<given, sequence, encoder, ticked, whole, config, gate, netPc, want, packet, room, nextSeq,
                 ring, primed, target, worker>>

\* The frames that fit are put in the ring; the rest of the packet is lost.
NetPush ==
  /\ NetGoes("push", "serve")
  /\ ring' = ring \o SubSeq(FramesOf(packet), 1, IF room < PacketFrames THEN room ELSE PacketFrames)
  /\ packet' = NoPacket
  /\ room' = 0
  /\ UNCHANGED <<given, sending, config, gate, want, haveSeq, nextSeq, history, primed, target, worker>>

\* The packet ServiceTx makes next.
NextPacket == SubSeq(ring, 1, PacketFrames)

\* ServiceTx, PCM: whole packets, as long as the ring has one.  A datagram that
\* cannot be sent has its number, as one the network loses.
NetSend ==
  /\ kind = "txPcm" /\ netPc = "serve" /\ active
  /\ Len(ring) >= PacketFrames
  /\ ring' = SubSeq(ring, PacketFrames + 1, Len(ring))
  /\ sequence' = (sequence + 1) % Modulus
  /\ last' = ring[PacketFrames]
  /\ UNCHANGED <<given, encoder, book, ticked, whole, config, gate, net, primed, target, workerPc, avail, scratch>>

\* ServiceTx, Vorbis: the CODEBOOK before any audio; it is sent again every
\* two seconds, which changes nothing here.
NetBook ==
  /\ kind = "txVorbis" /\ netPc = "serve" /\ active
  /\ ~book
  /\ book' = TRUE
  /\ UNCHANGED <<given, sequence, encoder, ticked, whole, config, gate, net, ring, primed, target, worker>>

\* What the ring holds, a piece at a time, is given to the encoder, which has
\* packets ready or none, or fails.
NetEncode ==
  LET n == IF Len(ring) < FeedFrames THEN Len(ring) ELSE FeedFrames
  IN /\ kind = "txVorbis" /\ netPc = "serve" /\ active
     /\ book
     /\ n > 0
     /\ ring' = SubSeq(ring, n + 1, Len(ring))
     /\ sequence' \in {(sequence + p) % Modulus : p \in 0..n}
     /\ last' = ring[n]
     /\ UNCHANGED <<given, encoder, book, ticked, whole, config, gate, net, primed, target, workerPc, avail, scratch>>

\* Nothing is left to send, or the socket is drained.
NetDrained ==
  /\ NetGoes("serve", "top")
  /\ Tx /\ active => Len(ring) < IF kind = "txPcm" THEN PacketFrames ELSE 1
  /\ kind = "txVorbis" /\ active => book
  /\ UNCHANGED <<given, sending, config, gate, receive, history, ring, primed, target, worker>>

-----------------------------------------------------------------------------
(***************************************************************************)
(* The Worker.                                                             *)
(***************************************************************************)

WorkerGoes(from, to) == workerPc = from /\ workerPc' = to

\* Between ticks: TableChanged.
WorkerChange ==
  /\ workerPc = "idle"
  /\ tableChanged
  /\ tableChanged' = FALSE
  /\ reconfigure' = TRUE
  /\ UNCHANGED <<given, sending, table, gate, net, ring, primed, target, worker>>

\* processTick, StreamGate::enter: a closed stream is silent ...
WorkerTick ==
  /\ WorkerGoes("idle", "enter")
  /\ active
  /\ Tx => ticked + TickFrames <= MaxPackets * PacketFrames  \* the bound of a run
  /\ UNCHANGED <<given, sending, config, gate, net, ring, primed, target, avail, scratch, last>>

\* ... an open one is marked busy ...
WorkerBusy ==
  /\ WorkerGoes("enter", "recheck")
  /\ busy' = TRUE
  /\ UNCHANGED <<given, sending, config, active, net, ring, primed, target, avail, scratch, last>>

FaultyEntered == TRUE  \* enter does not look at the stream again

Entered == active

\* ... and looked at again.
WorkerEnter ==
  /\ WorkerGoes("recheck", IF Entered THEN "look" ELSE "idle")
  /\ busy' = Entered
  /\ UNCHANGED <<given, sending, config, active, net, ring, primed, target, avail, scratch, last>>

\* What is buffered: play once the target is, until a tick finds too little.
WorkerLook ==
  LET found == Len(ring)
      begun == primed \/ found >= target
  IN /\ ~Tx
     /\ WorkerGoes("look", IF begun /\ found >= TickFrames THEN "take" ELSE "leave")
     /\ primed' = (begun /\ found >= TickFrames)
     /\ avail' = IF begun /\ found >= TickFrames THEN found ELSE 0
     /\ UNCHANGED <<given, sending, config, gate, net, ring, target, scratch, last>>

\* What the ring holds for this tick: of a backlog far above the target, the
\* newest part (the drift trim).
Kept ==
  IF avail > 2 * target + 2 * TickFrames THEN SubSeq(ring, avail - target + 1, Len(ring)) ELSE ring

\* The tick's frames, and what the scratch had where the ring is short of them.
WorkerTake ==
  LET n == IF Len(Kept) < TickFrames THEN Len(Kept) ELSE TickFrames
  IN /\ WorkerGoes("take", "leave")
     /\ scratch' = SubSeq(Kept, 1, n) \o SubSeq(scratch, n + 1, TickFrames)
     /\ ring' = SubSeq(Kept, n + 1, Len(Kept))
     /\ last' = IF oneRun THEN scratch'[TickFrames] ELSE 0
     /\ avail' = 0
     /\ UNCHANGED <<given, sending, config, gate, net, primed, target>>

\* Tx: the rows of the tick are gathered, and the room of the ring looked at ...
WorkerGather ==
  /\ Tx
  /\ WorkerGoes("look", "put")
  /\ scratch' = [f \in 1..TickFrames |-> ticked + f]
  /\ ticked' = ticked + TickFrames
  /\ room' = Room
  /\ UNCHANGED <<given, sequence, encoder, book, whole, config, gate, netPc, want, packet, haveSeq, nextSeq, history,
                 ring, primed, target, avail, last>>

\* The frames of the tick that fit.
Fitting == IF room < TickFrames THEN room ELSE TickFrames

\* ... and what fits is put in it; the rest is lost.
WorkerPut ==
  /\ WorkerGoes("put", "leave")
  /\ ring' = ring \o SubSeq(scratch, 1, Fitting)
  /\ whole' = (whole /\ Fitting = TickFrames)
  /\ room' = 0
  /\ UNCHANGED <<given, sequence, encoder, book, ticked, config, gate, netPc, want, packet, haveSeq, nextSeq, history,
                 primed, target, avail, scratch, last>>

WorkerLeave ==
  /\ WorkerGoes("leave", "idle")
  /\ busy' = FALSE
  /\ UNCHANGED <<given, sending, config, active, net, ring, primed, target, avail, scratch, last>>

-----------------------------------------------------------------------------

Init ==
  /\ kind \in Kinds
  /\ firstSeq \in IF Tx THEN {0} ELSE FirstSeqs
  /\ restartedAt \in IF Tx THEN {0} ELSE 0..(MaxPackets - 1)
  /\ sequence = 0
  /\ encoder = TRUE
  /\ book = FALSE
  /\ ticked = 0
  /\ whole = TRUE
  /\ table \in Tables
  /\ tableChanged = FALSE
  /\ reconfigure = TRUE
  /\ active = FALSE
  /\ busy = FALSE
  /\ netPc = "top"
  /\ want = table
  /\ packet = NoPacket
  /\ room = 0
  /\ haveSeq = FALSE
  /\ nextSeq = 0
  /\ ring = <<>>
  /\ primed = FALSE
  /\ target = 0
  /\ workerPc = "idle"
  /\ avail = 0
  /\ scratch = Silent
  /\ seen = 0
  /\ refused = 0
  /\ last = 0
  /\ oneRun = TRUE

Network == NetCodebook \/ \E k \in Packets : NetReceive(k)

NetThread ==
  \/ NetTop \/ NetApply \/ NetClosed \/ NetOpen \/ NetPush
  \/ NetSend \/ NetBook \/ NetEncode

Worker ==
  \/ WorkerTick \/ WorkerBusy \/ WorkerEnter \/ WorkerLook \/ WorkerTake
  \/ WorkerGather \/ WorkerPut \/ WorkerLeave

Next == Save \/ Network \/ NetThread \/ NetDrained \/ WorkerChange \/ Worker

Spec == Init /\ [][Next]_vars

\* Both are running threads.  The Worker is between ticks again and again,
\* with TableChanged the only event set; the socket is drained again and again.
FairSpec ==
  /\ Spec
  /\ WF_vars(NetThread) /\ SF_vars(NetDrained)
  /\ WF_vars(Worker /\ workerPc # "idle") /\ SF_vars(WorkerChange)

-----------------------------------------------------------------------------
(***************************************************************************)
(* Properties.                                                             *)
(***************************************************************************)

TypeOK ==
  /\ kind \in Kinds
  /\ sequence \in 0..(Modulus - 1)
  /\ encoder \in BOOLEAN
  /\ book \in BOOLEAN
  /\ ticked \in Frames
  /\ whole \in BOOLEAN
  /\ firstSeq \in 0..(Modulus - 1)
  /\ restartedAt \in 0..MaxPackets
  /\ table \in Tables
  /\ tableChanged \in BOOLEAN
  /\ reconfigure \in BOOLEAN
  /\ active \in BOOLEAN
  /\ busy \in BOOLEAN
  /\ netPc \in NetStates
  /\ want \in Tables
  /\ packet \in 0..MaxPackets
  /\ room \in 0..Capacity
  /\ haveSeq \in BOOLEAN
  /\ nextSeq \in 0..(Modulus - 1)
  /\ ring \in Seq(Frames)
  /\ Len(ring) <= Capacity
  /\ primed \in BOOLEAN
  /\ target \in Targets \cup {0}
  /\ workerPc \in WorkerStates
  /\ avail \in 0..Capacity
  /\ scratch \in [1..TickFrames -> Frames]
  /\ seen \in 0..MaxPackets
  /\ refused \in 0..MaxPackets
  /\ last \in Frames
  /\ oneRun \in BOOLEAN

\* The network thread rebuilds a stream's ring and scratch only while the
\* Worker is not in them, whichever order their loads and stores come in
\* (StreamGate).
RebuiltAlone ==
  netPc = "alloc" => workerPc \notin {"look", "take", "put", "leave"}

Ascending(s) == \A i, j \in 1..Len(s) : i < j => s[i] < s[j]

\* A Tx stream's packet goes on after the one before it; and as long as the
\* ring had room for every tick, packet q carries the frames an Rx stream
\* takes the number q for: what SeqOf and FramesOf say of a sender is so.
SentInOrder ==
  [][NetSend => /\ Ascending(<<last>> \o NextPacket)
                /\ whole => NextPacket = FramesOf(sequence + 1)]_vars

\* The Worker plays a run of the sender in its order, no frame twice, through
\* packets that are lost, late or come twice, a ring that is full and a trim;
\* and each of a tick's frames is one it has not played.
PlayedInOrder ==
  [][WorkerTake /\ oneRun => Ascending(<<last>> \o scratch')]_vars

\* A sender's restart costs less than Resync packets of the new run, wherever
\* its numbers fall on those the stream waited for.
RestartIsShort == refused < Resync

\* A stream's audio keeps its order, whichever way it goes.
InOrder == PlayedInOrder /\ SentInOrder

\* A Save is applied, however it meets the network thread, unless another
\* comes: the stream is open or closed, and with the target, as the table has it; a
\* Vorbis Tx stream may lack its encoder.
TableApplied ==
  <>[][~Save]_vars => <>[](active = (table.on /\ encoder) /\ (active /\ ~Tx => target = table.target))

-----------------------------------------------------------------------------
(***************************************************************************)
(* The inductive invariant (NetworkStreamProofs).                          *)
(***************************************************************************)

\* The Worker is in the stream, past the gate.
Inside == workerPc \in {"look", "take", "put", "leave"}

\* The gate: the Worker is busy from the store until it leaves, and a stream
\* that is being changed is closed.
GateInv ==
  /\ Inside \/ workerPc = "recheck" => busy
  /\ Inside => active \/ netPc = "closing"
  /\ netPc \in {"closing", "alloc"} => ~active
  /\ netPc = "push" => active

\* What a thread found in the ring is still there, or the room is: the other
\* only adds to it, or only takes from it.
RingInv ==
  /\ netPc = "push" => ~Tx /\ packet \in Packets /\ room <= Capacity - Len(ring)
  /\ workerPc = "put" => Tx /\ room <= Capacity - Len(ring)
  /\ workerPc = "take" => ~Tx /\ avail >= TickFrames /\ avail <= Len(ring)
  /\ Tx /\ workerPc \in {"enter", "recheck", "look"} => ticked + TickFrames <= MaxPackets * PacketFrames

\* The number waited for follows one that came.  Packets that came new and
\* were refused all look late, each less so than the one before it.
SeqInv ==
  /\ refused <= seen /\ refused < Resync
  /\ IF netPc = "alloc" THEN ~haveSeq ELSE refused > 0 => haveSeq
  /\ haveSeq => \E j \in 1..seen : nextSeq = (SeqOf(j) + 1) % Modulus /\ (refused > 0 => j < seen)
  /\ haveSeq /\ refused > 0 => Late(SeqOf(seen)) /\ refused <= Ahead(SeqOf(seen)) + Resync

\* The frames of the ticks that are in the ring, sent, or lost.
Gathered == IF workerPc = "put" THEN ticked - TickFrames ELSE ticked

\* A Tx stream's ring holds what was gathered and not sent, in order.
SendInv ==
  Tx /\ active =>
    /\ workerPc = "put" => ticked >= TickFrames /\ scratch = [f \in 1..TickFrames |-> ticked - TickFrames + f]
    /\ oneRun
    /\ last <= Gathered
    /\ \A i \in 1..Len(ring) : last < ring[i] /\ ring[i] <= Gathered
    /\ Ascending(ring)
    /\ whole => /\ \A i \in 1..Len(ring) : ring[i] = last + i
                /\ Gathered = last + Len(ring)
                /\ kind = "txPcm" => last = sequence * PacketFrames

IInv == TypeOK /\ GateInv /\ RingInv /\ SeqInv /\ SendInv

\* No Save is lost on the network thread: unless TableChanged or the flag says
\* so, the stream is as the table has it, or is being made so.
SaveNoted ==
  ~tableChanged /\ ~reconfigure /\ netPc # "apply" =>
    IF netPc \in {"closing", "alloc"} THEN want = table
    ELSE active = (table.on /\ encoder) /\ (active /\ ~Tx => target = table.target)

\* Invariant with IInv.
ApplyInv ==
  /\ SaveNoted
  /\ active => encoder
  /\ netPc = "alloc" /\ ~Tx => target = want.target

\* Every jitter target has a tick's frames (see WholeTicks).
TargetsCoverTicks == \A t \in Targets : t >= TickFrames

\* The stream is open, or the Worker has not left it yet.
InUse == active \/ Inside

\* The frames that were put in an Rx stream's ring, or lost.
Came == IF netPc = "push" THEN (packet - 1) * PacketFrames ELSE seen * PacketFrames

\* An Rx stream's ring holds what came after the last frame played, in order,
\* and the number waited for follows the newest packet; until the decoder is
\* open there is nothing in it.  Invariant with IInv if TargetsCoverTicks.
PlayInv ==
  ~Tx =>
    /\ InUse \/ netPc = "alloc" => target \in Targets
    /\ InUse /\ Vorbis /\ ~book => ring = <<>> /\ last = 0 /\ netPc # "push"
    /\ InUse /\ oneRun =>
         /\ last <= Came
         /\ \A i \in 1..Len(ring) : last < ring[i] /\ ring[i] <= Came
         /\ Ascending(ring)
         /\ netPc = "push" => packet = seen
         /\ IF haveSeq THEN seen > 0 /\ nextSeq = (SeqOf(seen) + 1) % Modulus ELSE seen = 0

-----------------------------------------------------------------------------
(***************************************************************************)
(* What a comment of the code says, and the code does not do (README,      *)
(* Findings).                                                              *)
(***************************************************************************)

\* "Worker found less than one tick buffered (re-primes)": the underruns of
\* WHANetworkCounters.  A tick that plays has its frames in the ring.
WholeTicks == [][WorkerTake => Len(Kept) >= TickFrames]_vars

===============================================================================
