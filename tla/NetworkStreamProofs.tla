-------------------------- MODULE NetworkStreamProofs --------------------------
(***************************************************************************)
(* Proofs about NetworkStream, for every ring, packet, tick and target     *)
(* size and every range of sequence numbers: types; that the gate keeps    *)
(* the network thread out of a stream the Worker is in; that a sender's    *)
(* restart is short; and that an Rx stream is played, and a Tx stream      *)
(* sent, in order.  They follow from IInv, and the order of an Rx stream   *)
(* from PlayInv with it: Init satisfies both, and each action keeps each   *)
(* of their parts.                                                         *)
(***************************************************************************)
EXTENDS NetworkStream, SequenceTheorems, TLAPS

\* The two halves of TypeOK.
Flags ==
  /\ tableChanged \in BOOLEAN /\ reconfigure \in BOOLEAN
  /\ active \in BOOLEAN /\ busy \in BOOLEAN
  /\ encoder \in BOOLEAN /\ book \in BOOLEAN /\ whole \in BOOLEAN
  /\ haveSeq \in BOOLEAN /\ primed \in BOOLEAN /\ oneRun \in BOOLEAN

Values ==
  /\ kind \in Kinds /\ sequence \in 0..(Modulus - 1) /\ ticked \in Frames
  /\ firstSeq \in 0..(Modulus - 1) /\ restartedAt \in 0..MaxPackets
  /\ table \in Tables /\ want \in Tables
  /\ netPc \in NetStates /\ workerPc \in WorkerStates
  /\ packet \in 0..MaxPackets /\ room \in 0..Capacity
  /\ nextSeq \in 0..(Modulus - 1)
  /\ ring \in Seq(Frames) /\ Len(ring) <= Capacity
  /\ target \in Targets \cup {0} /\ avail \in 0..Capacity
  /\ scratch \in [1..TickFrames -> Frames] /\ last \in Frames
  /\ seen \in 0..MaxPackets /\ refused \in 0..MaxPackets

\* A sequence number is below the modulus, whatever is added to it.
LEMMA SequenceNumbers == \A n \in Int : n % Modulus \in 0..(Modulus - 1)
  BY SequenceAssumption, SMT

\* A packet's frames are of the sender's audio, or silence.
LEMMA FramesOfPacket ==
  ASSUME NEW k \in Packets
  PROVE  /\ FramesOf(k) \in Seq(Frames)
         /\ Len(FramesOf(k)) = PacketFrames
<1>1. \A f \in 1..PacketFrames : (k - 1) * PacketFrames + f \in Frames
  <2> SUFFICES ASSUME NEW f \in 1..PacketFrames PROVE (k - 1) * PacketFrames + f \in Frames
    OBVIOUS
  <2>1. k \in Nat /\ 1 <= k /\ k <= MaxPackets /\ MaxPackets \in Nat /\ PacketFrames \in Nat
    BY FramesAssumption DEF Packets
  <2>2. k * PacketFrames <= MaxPackets * PacketFrames
    BY <2>1, SMT
  <2>3. (k - 1) * PacketFrames = k * PacketFrames - PacketFrames /\ (k - 1) * PacketFrames \in Nat
    BY <2>1, SMT
  <2>4. MaxPackets * PacketFrames \in Nat
    BY <2>1, SMT
  <2> QED
    BY <2>1, <2>2, <2>3, <2>4, SMT DEF Frames
<1>2. 0 \in Frames
  BY FramesAssumption, SMT DEF Frames
<1>3. FramesOf(k) \in [1..PacketFrames -> Frames]
  BY <1>1, <1>2 DEF FramesOf
<1> QED
  BY <1>3, FramesAssumption, LenProperties, SeqDef, SMT

\* The silent scratch is one.
LEMMA SilentScratch == Silent \in [1..TickFrames -> Frames]
<1>1. 0 \in Frames
  BY FramesAssumption, SMT DEF Frames
<1> QED
  BY <1>1 DEF Silent

\* What follows the first frames of a run of frames.
LEMMA TailOfFrames ==
  ASSUME NEW s \in Seq(Frames), NEW n \in Nat, n <= Len(s)
  PROVE  /\ SubSeq(s, n + 1, Len(s)) \in Seq(Frames)
         /\ Len(SubSeq(s, n + 1, Len(s))) = Len(s) - n
<1>1. Len(s) \in Nat  BY LenProperties
<1>2. n + 1 \in 1..(Len(s) + 1)  BY <1>1, SMT
<1>3. \A i \in (n + 1)..Len(s) : s[i] \in Frames
  BY <1>1, ElementOfSeq, SMT
<1>4. /\ SubSeq(s, n + 1, Len(s)) \in Seq(Frames)
      /\ Len(SubSeq(s, n + 1, Len(s))) = IF n + 1 <= Len(s) THEN Len(s) - (n + 1) + 1 ELSE 0
  BY <1>1, <1>2, <1>3, SubSeqProperties, SMT
<1> QED  BY <1>1, <1>4, SMT

\* What the Worker keeps of the ring is the end of it.
LEMMA KeptFrames ==
  ASSUME IInv, workerPc = "take"
  PROVE  Kept \in Seq(Frames) /\ Len(Kept) <= Len(ring)
<1>1. ring \in Seq(Frames) /\ avail \in Nat /\ target \in Nat /\ Len(ring) \in Nat /\ avail <= Len(ring)
  BY FramesAssumption, LenProperties, SMT DEF IInv, TypeOK, RingInv
<1>2. CASE avail > 2 * target + 2 * TickFrames
  <2>1. avail - target + 1 \in 1..(Len(ring) + 1)
    BY <1>1, <1>2, FramesAssumption, SMT
  <2>2. \A i \in (avail - target + 1)..Len(ring) : ring[i] \in Frames
    BY <1>1, <2>1, ElementOfSeq, SMT
  <2>3. /\ SubSeq(ring, avail - target + 1, Len(ring)) \in Seq(Frames)
        /\ Len(SubSeq(ring, avail - target + 1, Len(ring))) <= Len(ring)
    BY <1>1, <2>1, <2>2, SubSeqProperties, SMT
  <2> QED
    BY <1>2, <2>3 DEF Kept
<1>3. CASE ~(avail > 2 * target + 2 * TickFrames)
  BY <1>1, <1>3 DEF Kept
<1> QED
  BY <1>2, <1>3

\* What no step of an action touches.
LEMMA SeqKept ==
  ASSUME SeqInv, UNCHANGED <<firstSeq, restartedAt, haveSeq, nextSeq, seen, refused>>,
         (netPc = "alloc") <=> (netPc' = "alloc")
  PROVE  SeqInv'
  BY DEF SeqInv, SeqOf, Late, Ahead

LEMMA SendKept ==
  ASSUME SendInv, UNCHANGED <<kind, active, sequence, ticked, whole, ring, scratch, last, oneRun>>,
         (workerPc = "put") <=> (workerPc' = "put")
  PROVE  SendInv'
  BY DEF SendInv, Gathered, Tx, Ascending

LEMMA TailElements ==
  ASSUME NEW s \in Seq(Frames), NEW n \in Nat, n <= Len(s)
  PROVE  \A i \in 1..(Len(s) - n) : SubSeq(s, n + 1, Len(s))[i] = s[i + n]
<1>1. Len(s) \in Nat  BY LenProperties
<1>2. n + 1 \in 1..(Len(s) + 1)  BY <1>1, SMT
<1>3. \A i \in (n + 1)..Len(s) : s[i] \in Frames
  BY <1>1, ElementOfSeq, SMT
<1>4. \A i \in 1..(Len(s) - n) : SubSeq(s, n + 1, Len(s))[i] = s[(n + 1) + i - 1]
  BY <1>1, <1>2, <1>3, SubSeqProperties, SMT
<1> QED  BY <1>1, <1>4, SMT

\* Frames taken from the front of a Tx stream's ring.
LEMMA SentKeeps ==
  ASSUME IInv, Tx, active, NEW n \in 1..Len(ring),
         ring' = SubSeq(ring, n + 1, Len(ring)), last' = ring[n],
         UNCHANGED <<kind, active, ticked, whole, scratch, workerPc, oneRun>>,
         whole /\ kind = "txPcm" => last' = sequence' * PacketFrames
  PROVE  SendInv'
<1>1. ring \in Seq(Frames) /\ Len(ring) \in Nat /\ n \in Nat /\ n <= Len(ring) /\ n >= 1
  BY LenProperties, SMT DEF IInv, TypeOK
<1>2. /\ ring' \in Seq(Frames) /\ Len(ring') = Len(ring) - n
      /\ \A i \in 1..(Len(ring) - n) : ring'[i] = ring[i + n]
  BY <1>1, TailOfFrames, TailElements
<1>3. \A i \in 1..Len(ring) : ring[i] \in Int
  BY <1>1, ElementOfSeq, FramesAssumption, SMT DEF Frames
<1>4. last \in Int /\ ticked \in Int /\ TickFrames \in Int /\ Gathered \in Int
  BY FramesAssumption, SMT DEF IInv, TypeOK, Frames, Gathered
<1>5. Gathered' = Gathered
  BY DEF Gathered
<1>6. /\ \A i \in 1..Len(ring) : last < ring[i] /\ ring[i] <= Gathered
      /\ \A i, j \in 1..Len(ring) : i < j => ring[i] < ring[j]
      /\ whole => (\A i \in 1..Len(ring) : ring[i] = last + i) /\ Gathered = last + Len(ring)
  BY DEF IInv, SendInv, Ascending
<1>7. last' <= Gathered'
  BY <1>5, <1>6
<1>8. \A i \in 1..Len(ring') : last' < ring'[i] /\ ring'[i] <= Gathered'
  BY <1>1, <1>2, <1>3, <1>5, <1>6, SMT
<1>9. Ascending(ring)'
  BY <1>1, <1>2, <1>3, <1>6, SMT DEF Ascending
<1>10. whole' => (\A i \in 1..Len(ring') : ring'[i] = last' + i) /\ Gathered' = last' + Len(ring')
  <2> SUFFICES ASSUME whole'
               PROVE  (\A i \in 1..Len(ring') : ring'[i] = last' + i) /\ Gathered' = last' + Len(ring')
    OBVIOUS
  <2>1. last' = last + n /\ Gathered = last + Len(ring)
    BY <1>6
  <2>2. ASSUME NEW i \in 1..Len(ring') PROVE ring'[i] = last' + i
    <3>1. i + n \in 1..Len(ring) /\ ring'[i] = ring[i + n]
      BY <1>1, <1>2, SMT
    <3>2. ring'[i] = last + (i + n)
      BY <1>6, <3>1
    <3> QED
      BY <1>1, <1>2, <1>4, <2>1, <3>2, SMT
  <2>3. Gathered' = last' + Len(ring')
    <3>1. Len(ring') = Len(ring) - n
      BY <1>2
    <3>2. last + Len(ring) = (last + n) + (Len(ring) - n)
      BY <1>1, <1>4, SMT
    <3> QED
      BY <1>5, <2>1, <3>1, <3>2
  <2> QED
    BY <2>2, <2>3
<1>11. oneRun' /\ (workerPc = "put" => ticked >= TickFrames /\ scratch = [f \in 1..TickFrames |-> ticked - TickFrames + f])'
  BY DEF IInv, SendInv
<1> QED
  BY <1>7, <1>8, <1>9, <1>10, <1>11, Zenon DEF SendInv

LEMMA InitInv == Init => IInv
<1> SUFFICES ASSUME Init PROVE IInv
  OBVIOUS
<1>1. TypeOK
  <2>1. Flags
    BY Zenon DEF Init, Flags
  <2>2. 0 \in Frames /\ 0 \in 0..(Modulus - 1) /\ 0 \in 0..MaxPackets /\ 0 \in 0..Capacity
    BY SequenceAssumption, FramesAssumption, SMT DEF Frames
  <2>3. firstSeq \in 0..(Modulus - 1) /\ restartedAt \in 0..MaxPackets
    BY SequenceAssumption, FramesAssumption, SMT DEF Init
  <2>4. ring \in Seq(Frames) /\ Len(ring) <= Capacity
    BY FramesAssumption, EmptySeq, SMT DEF Init
  <2> QED
    BY <2>1, <2>2, <2>3, <2>4, SilentScratch, Zenon
    DEF Init, TypeOK, Flags, NetStates, WorkerStates, NoPacket
<1>2. GateInv /\ RingInv
  <2>1. netPc = "top" /\ workerPc = "idle" /\ ~active
    BY Zenon DEF Init
  <2> QED
    BY <2>1 DEF GateInv, RingInv, Inside
<1>3. SeqInv
  BY SequenceAssumption, SMT DEF Init, SeqInv
<1>4. SendInv
  BY Zenon DEF Init, SendInv
<1> QED
  BY <1>1, <1>2, <1>3, <1>4 DEF IInv

LEMMA SaveStep == IInv /\ Save => IInv'
<1> SUFFICES ASSUME IInv, Save PROVE IInv'
  OBVIOUS
<1> USE DEF IInv, Save, NetGoes, WorkerGoes, given, sending, config, gate, receive, history, net, worker
<1>1. TypeOK'
  <2>1. Flags'
    BY Zenon DEF Flags, TypeOK
  <2>2. Values'
    BY FramesAssumption, SMT DEF Values, TypeOK, NetStates, WorkerStates
  <2> QED
    BY <2>1, <2>2 DEF TypeOK, Flags, Values
<1>2. GateInv'
  BY SMT DEF TypeOK, GateInv, Inside
<1>3. RingInv'
  BY SMT DEF TypeOK, RingInv, Tx
<1>4. SeqInv'
  BY SeqKept, Zenon
<1>5. SendInv'
  BY SendKept, Zenon
<1> QED
  BY <1>1, <1>2, <1>3, <1>4, <1>5

LEMMA NetTopStep == IInv /\ NetTop => IInv'
<1> SUFFICES ASSUME IInv, NetTop PROVE IInv'
  OBVIOUS
<1> USE DEF IInv, NetTop, NetGoes, WorkerGoes, given, sending, config, gate, receive, history, net, worker
<1>1. TypeOK'
  <2>1. Flags'
    BY Zenon DEF Flags, TypeOK, FlagAfter
  <2>2. Values'
    BY FramesAssumption, SMT DEF Values, TypeOK, NetStates, WorkerStates
  <2> QED
    BY <2>1, <2>2 DEF TypeOK, Flags, Values
<1>2. GateInv'
  BY SMT DEF TypeOK, GateInv, Inside
<1>3. RingInv'
  BY SMT DEF TypeOK, RingInv, Tx
<1>4. SeqInv'
  BY SeqKept, Zenon
<1>5. SendInv'
  BY SendKept, Zenon
<1> QED
  BY <1>1, <1>2, <1>3, <1>4, <1>5

LEMMA NetApplyStep == IInv /\ NetApply => IInv'
<1> SUFFICES ASSUME IInv, NetApply PROVE IInv'
  OBVIOUS
<1> USE DEF IInv, NetApply, NetGoes, WorkerGoes, given, sending, config, gate, receive, history, net, worker
<1>1. TypeOK'
  <2>1. Flags'
    BY Zenon DEF Flags, TypeOK, FlagAfter
  <2>2. Values'
    BY FramesAssumption, SMT DEF Values, TypeOK, NetStates, WorkerStates
  <2> QED
    BY <2>1, <2>2 DEF TypeOK, Flags, Values
<1>2. GateInv'
  BY SMT DEF TypeOK, GateInv, Inside
<1>3. RingInv'
  BY SMT DEF TypeOK, RingInv, Tx
<1>4. SeqInv'
  BY SeqKept, Zenon
<1>5. SendInv'
  <2>1. CASE Same
    BY <2>1, SendKept, Zenon
  <2>2. CASE ~Same
    BY <2>2, Zenon DEF SendInv
  <2> QED
    BY <2>1, <2>2
<1> QED
  BY <1>1, <1>2, <1>3, <1>4, <1>5

LEMMA NetClosedStep == IInv /\ NetClosed => IInv'
<1> SUFFICES ASSUME IInv, NetClosed PROVE IInv'
  OBVIOUS
<1> USE DEF IInv, NetClosed, NetGoes, WorkerGoes, given, sending, config, gate, receive, history, net, worker
<1>1. TypeOK'
  <2>1. Flags'
    BY Zenon DEF Flags, TypeOK
  <2>2. Values'
    BY SequenceAssumption, FramesAssumption, SMT DEF Values, TypeOK, NetStates, WorkerStates, Tables
  <2> QED
    BY <2>1, <2>2 DEF TypeOK, Flags, Values
<1>2. GateInv'
  BY SMT DEF TypeOK, GateInv, Inside
<1>3. RingInv'
  BY SMT DEF TypeOK, RingInv, Tx
<1>4. SeqInv'
  BY Zenon DEF SeqInv
<1>5. SendInv'
  BY SendKept, Zenon
<1> QED
  BY <1>1, <1>2, <1>3, <1>4, <1>5

LEMMA NetOpenStep == IInv /\ NetOpen => IInv'
<1> SUFFICES ASSUME IInv, NetOpen PROVE IInv'
  OBVIOUS
<1> USE DEF IInv, NetOpen, NetGoes, WorkerGoes, given, sending, config, gate, receive, history, net, worker
<1>1. TypeOK'
  <2>1. Flags'
    BY Zenon DEF Flags, TypeOK, FlagAfter, Tables, RebuiltAlone
  <2>2. Values'
    <3>1. ring' \in Seq(Frames) /\ Len(ring') <= Capacity
      <4>1. <<>> \in Seq(Frames) /\ Len(<<>>) <= Capacity
        BY FramesAssumption, EmptySeq, SMT
      <4> QED
        BY <4>1, Zenon DEF TypeOK
    <3>2. scratch' \in [1..TickFrames -> Frames]
      BY SilentScratch, Zenon DEF TypeOK
    <3>3. 0 \in Frames /\ 0 \in 0..MaxPackets
      BY FramesAssumption, SMT DEF Frames
    <3> QED
      <4>1. sequence' \in 0..(Modulus - 1) /\ ticked' \in Frames
        BY <3>3, SequenceAssumption, SMT DEF TypeOK
      <4> QED
        BY <3>1, <3>2, <3>3, <4>1, Zenon DEF Values, TypeOK, NetStates, WorkerStates
  <2> QED
    BY <2>1, <2>2 DEF TypeOK, Flags, Values
<1>2. GateInv'
  BY SMT DEF TypeOK, GateInv, Inside
<1>3. RingInv'
  <2>1. workerPc' \notin {"look", "take", "put", "leave"} /\ netPc' # "push"
    BY DEF GateInv, Inside
  <2>2. ticked' <= ticked /\ ticked \in Int /\ ticked' \in Int /\ MaxPackets * PacketFrames \in Int
    BY FramesAssumption, SMT DEF TypeOK, Frames
  <2>3. Tx /\ workerPc \in {"enter", "recheck", "look"} => ticked + TickFrames <= MaxPackets * PacketFrames
    BY DEF RingInv
  <2>4. Tx /\ workerPc \in {"enter", "recheck", "look"} => ticked' + TickFrames <= MaxPackets * PacketFrames
    <3> DEFINE m == MaxPackets * PacketFrames
    <3>1. m \in Int /\ TickFrames \in Int
      BY <2>2, FramesAssumption
    <3> HIDE DEF m
    <3>2. \A a, b, c \in Int : a <= b /\ b + c <= m => a + c <= m
      BY <3>1, SMT
    <3>3. ticked + TickFrames <= m => ticked' + TickFrames <= m
      BY <2>2, <3>1, <3>2, Zenon
    <3> QED
      BY <2>3, <3>3 DEF m
  <2> QED
    BY <2>1, <2>4, Zenon DEF RingInv, Tx
<1>4. SeqInv'
  BY SequenceAssumption, SMT DEF SeqInv
<1>5. SendInv'
  <2> SUFFICES ASSUME active' PROVE SendInv'
    BY Zenon DEF SendInv
  <2>1. ring' = <<>> /\ Len(ring') = 0 /\ last' = 0 /\ ticked' = 0 /\ sequence' = 0 /\ workerPc' # "put"
    BY DEF GateInv, Inside
  <2>2. Gathered' = 0
    BY <2>1 DEF Gathered
  <2>3. 0 = 0 * PacketFrames
    BY FramesAssumption, SMT
  <2> QED
    BY <2>1, <2>2, <2>3, SMT DEF SendInv, Ascending
<1> QED
  BY <1>1, <1>2, <1>3, <1>4, <1>5

-----------------------------------------------------------------------------
(* Sequence numbers. *)

LEMMA Division ==
  \A a \in Int : \E q \in Int : a = Modulus * q + (a % Modulus) /\ a % Modulus \in 0..(Modulus - 1)
<1> TAKE a \in Int
<1>0. Modulus \in Nat /\ Modulus > 0
  BY SequenceAssumption, SMT
<1>1. a \div Modulus \in Int
  BY <1>0, SMT
<1>2. a = Modulus * (a \div Modulus) + (a % Modulus) /\ a % Modulus \in 0..(Modulus - 1)
  BY <1>0, SMT
<1> QED
  BY <1>1, <1>2

LEMMA Remainder == \A q \in Int : \A r \in 0..(Modulus - 1) : (Modulus * q + r) % Modulus = r
<1> SUFFICES ASSUME NEW q \in Int, NEW r \in 0..(Modulus - 1) PROVE (Modulus * q + r) % Modulus = r
  OBVIOUS
<1> DEFINE a == Modulus * q + r
<1>0. Modulus \in Nat /\ Modulus > 0
  BY SequenceAssumption, SMT
<1>1. a \in Int
  BY <1>0, SMT
<1>2. PICK p \in Int : a = Modulus * p + (a % Modulus) /\ a % Modulus \in 0..(Modulus - 1)
  BY <1>1, Division
<1>3. Modulus * (q - p) = (a % Modulus) - r
  BY <1>2, <1>0, SMT
<1>4. (a % Modulus) - r < Modulus /\ (a % Modulus) - r > -Modulus
  BY <1>2, <1>0, SMT
<1>5. q - p = 0
  <2>1. CASE q - p >= 1
    <3>1. Modulus * (q - p) >= Modulus
      BY <2>1, <1>0, SMT
    <3> QED
      BY <3>1, <1>3, <1>4, <1>2, <1>0, SMT
  <2>2. CASE q - p <= -1
    <3>1. Modulus * (q - p) <= -Modulus
      BY <2>2, <1>0, SMT
    <3> QED
      BY <3>1, <1>3, <1>4, <1>2, <1>0, SMT
  <2> QED
    BY <2>1, <2>2, <1>2, SMT
<1>6. Modulus * (q - p) = 0
  BY <1>5, <1>0, SMT
<1> QED
  BY <1>3, <1>6, <1>2, SMT

\* Ahead is the one difference, modulo Modulus, of no more than half of it.
LEMMA AheadIs ==
  ASSUME NEW s \in Int, NEW y \in Int, NEW q \in Int, nextSeq \in Int,
         s - nextSeq = Modulus * q + y, -Modulus <= 2 * y, 2 * y < Modulus
  PROVE  Ahead(s) = y
<1>0. Modulus \in Nat /\ Modulus > 0
  BY SequenceAssumption, SMT
<1> DEFINE d == (s - nextSeq) % Modulus
<1>1. CASE y >= 0
  <2>1. y \in 0..(Modulus - 1)
    BY <1>0, <1>1, SMT
  <2>2. d = y
    BY <2>1, Remainder
  <2> HIDE DEF d
  <2> QED
    BY <1>0, <1>1, <2>2, SMT DEF Ahead, d
<1>2. CASE y < 0
  <2>1. y + Modulus \in 0..(Modulus - 1) /\ q - 1 \in Int
    BY <1>0, <1>2, SMT
  <2>2. s - nextSeq = Modulus * (q - 1) + (y + Modulus)
    BY <1>0, SMT
  <2>3. d = y + Modulus
    BY <2>1, <2>2, Remainder
  <2>4. Ahead(s) = IF d < Modulus - d THEN d ELSE d - Modulus
    BY DEF Ahead
  <2> HIDE DEF d
  <2> QED
    BY <1>0, <1>2, <2>3, <2>4, SMT
<1> QED
  BY <1>1, <1>2, SMT

LEMMA AheadDiffers ==
  ASSUME NEW s \in Int, nextSeq \in Int
  PROVE  Ahead(s) \in Int /\ \E q \in Int : s - nextSeq = Modulus * q + Ahead(s)
<1>0. Modulus \in Nat /\ Modulus > 0
  BY SequenceAssumption, SMT
<1> DEFINE d == (s - nextSeq) % Modulus
<1>1. PICK q \in Int : s - nextSeq = Modulus * q + d /\ d \in 0..(Modulus - 1)
  BY Division, SMT
<1>2. Ahead(s) = IF d < Modulus - d THEN d ELSE d - Modulus
  BY DEF Ahead
<1> HIDE DEF d
<1>3. CASE d < Modulus - d
  BY <1>1, <1>2, <1>3, SMT
<1>4. CASE ~(d < Modulus - d)
  <2>1. Ahead(s) = d - Modulus /\ Ahead(s) \in Int /\ q + 1 \in Int
    BY <1>0, <1>1, <1>2, <1>4, SMT
  <2>2. s - nextSeq = Modulus * (q + 1) + (d - Modulus)
    BY <1>0, <1>1, SMT
  <2> QED
    BY <2>1, <2>2
<1> QED
  BY <1>3, <1>4

\* Numbers of one run of the sender differ as its packets do.
LEMMA SeqDiffers ==
  ASSUME TypeOK, NEW j \in Packets, NEW k \in Packets, SameRun(j, k)
  PROVE  /\ SeqOf(j) \in Int /\ SeqOf(k) \in Int
         /\ \E q \in Int : SeqOf(k) - SeqOf(j) = Modulus * q + (k - j)
<1>0. /\ Modulus \in Nat /\ Modulus > 0 /\ j \in Int /\ k \in Int
      /\ restartedAt \in Nat /\ firstSeq \in Int
  BY SequenceAssumption, FramesAssumption, SMT DEF TypeOK, Packets
<1>1. PICK b \in Int : SeqOf(j) = (b + j) % Modulus /\ SeqOf(k) = (b + k) % Modulus
  <2>1. CASE restartedAt > 0 /\ j > restartedAt
    <3>1. restartedAt > 0 /\ k > restartedAt
      BY <1>0, <2>1, SMT DEF SameRun
    <3>2. /\ SeqOf(j) = (j - restartedAt - 1) % Modulus
          /\ SeqOf(k) = (k - restartedAt - 1) % Modulus
      BY <2>1, <3>1 DEF SeqOf
    <3>3. (j - restartedAt - 1) = (-restartedAt - 1) + j /\ (k - restartedAt - 1) = (-restartedAt - 1) + k
          /\ -restartedAt - 1 \in Int
      BY <1>0, SMT
    <3> QED
      BY <3>2, <3>3
  <2>2. CASE ~(restartedAt > 0 /\ j > restartedAt)
    <3>1. ~(restartedAt > 0 /\ k > restartedAt)
      BY <1>0, <2>2, SMT DEF SameRun
    <3>2. SeqOf(j) = (firstSeq + j - 1) % Modulus /\ SeqOf(k) = (firstSeq + k - 1) % Modulus
      BY <2>2, <3>1 DEF SeqOf
    <3>3. firstSeq + j - 1 = (firstSeq - 1) + j /\ firstSeq + k - 1 = (firstSeq - 1) + k /\ firstSeq - 1 \in Int
      BY <1>0, SMT
    <3> QED
      BY <3>2, <3>3
  <2> QED
    BY <2>1, <2>2
<1>2. PICK p \in Int : b + j = Modulus * p + SeqOf(j) /\ SeqOf(j) \in 0..(Modulus - 1)
  BY <1>0, <1>1, Division, SMT
<1>3. PICK q \in Int : b + k = Modulus * q + SeqOf(k) /\ SeqOf(k) \in 0..(Modulus - 1)
  BY <1>0, <1>1, Division, SMT
<1>4. SeqOf(k) - SeqOf(j) = Modulus * (p - q) + (k - j)
  BY <1>0, <1>2, <1>3, SMT
<1>5. p - q \in Int /\ SeqOf(j) \in Int /\ SeqOf(k) \in Int
  BY <1>0, <1>2, <1>3, SMT
<1> QED
  BY <1>4, <1>5

\* How far a packet is ahead of the one after packet j, of the same run.
LEMMA AheadOfPacket ==
  ASSUME TypeOK, NEW j \in Packets, NEW k \in Packets, SameRun(j, k),
         nextSeq = (SeqOf(j) + 1) % Modulus
  PROVE  Ahead(SeqOf(k)) = k - j - 1
<1>0. /\ Modulus \in Nat /\ Modulus > 0 /\ j \in 1..MaxPackets /\ k \in 1..MaxPackets
      /\ MaxPackets \in Nat /\ 2 * MaxPackets <= Modulus /\ nextSeq \in Int
  BY SequenceAssumption, FramesAssumption, SMT DEF TypeOK, Packets
<1>1. SeqOf(j) \in Int /\ SeqOf(k) \in Int
  BY SeqDiffers
<1>2. PICK q \in Int : SeqOf(k) - SeqOf(j) = Modulus * q + (k - j)
  BY SeqDiffers
<1>3. PICK p \in Int : SeqOf(j) + 1 = Modulus * p + nextSeq
  BY <1>1, Division, SMT
<1>4. SeqOf(k) - nextSeq = Modulus * (q + p) + (k - j - 1)
  BY <1>0, <1>1, <1>2, <1>3, SMT
<1>5. k - j - 1 \in Int /\ q + p \in Int /\ -Modulus <= 2 * (k - j - 1) /\ 2 * (k - j - 1) < Modulus
  BY <1>0, SMT
<1> QED
  BY <1>0, <1>1, <1>4, <1>5, AheadIs

\* A packet that comes new and looks late does so less than the one before.
LEMMA ReceiveSeq ==
  ASSUME IInv, NEW k \in Packets, NetReceive(k)
  PROVE  SeqInv'
<1> USE DEF IInv, NetReceive
<1>0. /\ Modulus \in Nat /\ Modulus > 0 /\ Resync \in Nat \ {0} /\ 2 * Resync <= Modulus
      /\ MaxPackets \in Nat /\ 2 * MaxPackets <= Modulus /\ k \in 1..MaxPackets
      /\ seen \in 0..MaxPackets /\ refused \in Nat /\ nextSeq \in Int /\ restartedAt \in Nat
  BY SequenceAssumption, FramesAssumption, SMT DEF TypeOK, Packets
<1>10. \A x : SeqOf(x)' = SeqOf(x)
  BY DEF SeqOf, given
<1>11. netPc # "alloc" /\ netPc' # "alloc"
  BY Zenon
<1>1. /\ seen' \in Nat /\ seen' >= k /\ seen' >= seen
      /\ \A x : SeqOf(x)' = SeqOf(x)
      /\ netPc # "alloc" /\ netPc' # "alloc"
  <2>1. seen' = IF k > seen THEN k ELSE seen
    OBVIOUS
  <2>2. seen' \in Nat /\ seen' >= k /\ seen' >= seen
    BY <1>0, <2>1, SMT
  <2> QED
    BY <1>10, <1>11, <2>2
<1>2. CASE ~Late(SeqOf(k))
  <2>1. refused' = 0 /\ haveSeq' /\ nextSeq' = (SeqOf(k) + 1) % Modulus
    BY <1>2
  <2>2. k \in 1..seen' /\ nextSeq' = (SeqOf(k)' + 1) % Modulus
    BY <1>0, <1>1, <2>1, SMT
  <2> QED
    BY <1>0, <1>1, <2>1, <2>2, SMT DEF SeqInv
<1>3. CASE Late(SeqOf(k))
  <2>1. UNCHANGED <<haveSeq, nextSeq>> /\ haveSeq
    BY <1>3 DEF Late
  <2>2. \A x : Ahead(x)' = Ahead(x)
    BY <2>1 DEF Ahead
  <2>3. PICK j \in 1..seen : nextSeq = (SeqOf(j) + 1) % Modulus /\ (refused > 0 => j < seen)
    BY <2>1 DEF SeqInv
  <2>4. j \in Packets /\ j \in 1..seen' /\ (k > seen => j < seen') /\ nextSeq' = (SeqOf(j)' + 1) % Modulus
    BY <1>0, <1>1, <2>1, <2>3, SMT DEF Packets
  <2>5. CASE k <= seen
    <3>1. seen' = seen /\ refused' = refused
      BY <1>0, <1>3, <2>5, SMT
    <3>2. Late(SeqOf(seen))' = Late(SeqOf(seen)) /\ Ahead(SeqOf(seen))' = Ahead(SeqOf(seen))
      BY <1>1, <2>1, <2>2, <3>1 DEF Late, SeqOf, Ahead
    <3> QED
      BY <1>1, <2>1, <2>4, <3>1, <3>2 DEF SeqInv
  <2>6. CASE k > seen
    <3>1. seen' = k /\ refused' = refused + 1
      BY <1>0, <1>3, <2>6, SMT
    <3>2. ~SameRun(j, k)
      <4> SUFFICES ASSUME SameRun(j, k) PROVE FALSE
        OBVIOUS
      <4>1. Ahead(SeqOf(k)) = k - j - 1
        BY <2>3, <2>4, AheadOfPacket
      <4> QED
        BY <1>0, <1>3, <2>3, <2>6, <4>1, SMT DEF Late
    <3>3. restartedAt > 0 /\ j <= restartedAt /\ k > restartedAt
      BY <1>0, <2>3, <2>6, <3>2, SMT DEF SameRun
    <3>4. SeqOf(k) \in Int
      BY SeqDiffers DEF SameRun
    <3>5. Ahead(SeqOf(k)) \in Int /\ Ahead(SeqOf(k)) < 0 /\ Ahead(SeqOf(k)) > -Resync
      BY <1>0, <1>3, <3>4, AheadDiffers DEF Late
    <3>6. refused + 1 <= Ahead(SeqOf(k)) + Resync
      <4>1. CASE refused = 0
        BY <1>0, <3>5, <4>1, SMT
      <4>2. CASE refused > 0
        <5>1. Late(SeqOf(seen)) /\ refused <= Ahead(SeqOf(seen)) + Resync /\ seen \in Packets
          BY <1>0, <2>1, <2>3, <4>2, SMT DEF SeqInv, Packets
        <5>2. SameRun(seen, k)
          <6>1. ~SameRun(j, seen)
            <7> SUFFICES ASSUME SameRun(j, seen) PROVE FALSE
              OBVIOUS
            <7>1. Ahead(SeqOf(seen)) = seen - j - 1
              BY <2>3, <2>4, <5>1, AheadOfPacket
            <7>2. seen - j - 1 < 0
              BY <5>1, <7>1 DEF Late
            <7> QED
              BY <1>0, <2>3, <4>2, <7>2, SMT
          <6> QED
            BY <1>0, <2>3, <2>6, <3>3, <6>1, SMT DEF SameRun
        <5>3. SeqOf(seen) \in Int
          BY <5>1, SeqDiffers DEF SameRun
        <5>4. PICK p \in Int : SeqOf(seen) - nextSeq = Modulus * p + Ahead(SeqOf(seen))
          BY <1>0, <5>3, AheadDiffers
        <5>5. PICK q \in Int : SeqOf(k) - SeqOf(seen) = Modulus * q + (k - seen)
          BY <5>1, <5>2, SeqDiffers
        <5>6. Ahead(SeqOf(seen)) \in Int /\ Ahead(SeqOf(seen)) < 0 /\ Ahead(SeqOf(seen)) > -Resync
          BY <1>0, <5>1, <5>3, AheadDiffers DEF Late
        <5> DEFINE y == Ahead(SeqOf(seen)) + (k - seen)
        <5>7. SeqOf(k) - nextSeq = Modulus * (p + q) + y
          BY <1>0, <3>4, <5>3, <5>4, <5>5, <5>6, SMT
        <5>8. y \in Int /\ p + q \in Int /\ -Modulus <= 2 * y /\ 2 * y < Modulus /\ y >= Ahead(SeqOf(seen)) + 1
          BY <1>0, <2>6, <5>1, <5>6, SMT DEF Packets
        <5> HIDE DEF y
        <5>9. Ahead(SeqOf(k)) = y
          BY <1>0, <3>4, <5>7, <5>8, AheadIs
        <5> QED
          BY <1>0, <5>1, <5>6, <5>8, <5>9, SMT
      <4> QED
        BY <1>0, <4>1, <4>2, SMT
    <3>7. Late(SeqOf(seen))' /\ Ahead(SeqOf(seen))' = Ahead(SeqOf(k))
      <4>1. SeqOf(seen)' = SeqOf(k)
        BY <3>1, <1>1
      <4>2. Ahead(SeqOf(seen))' = Ahead(SeqOf(k))
        BY <2>1, <4>1 DEF Ahead
      <4> QED
        BY <1>3, <2>1, <4>2 DEF Late
    <3>8. refused' <= seen' /\ refused' < Resync
      <4>1. refused <= seen
        BY DEF SeqInv
      <4> QED
        BY <1>0, <2>6, <3>1, <3>5, <3>6, <4>1, SMT
    <3>9. refused' <= Ahead(SeqOf(seen))' + Resync
      BY <3>1, <3>6, <3>7
    <3> QED
      BY <1>1, <2>1, <2>4, <3>7, <3>8, <3>9 DEF SeqInv
  <2> QED
    BY <1>0, <2>5, <2>6, SMT
<1> QED
  BY <1>2, <1>3

-----------------------------------------------------------------------------

LEMMA NetReceiveStep == \A k \in Packets : IInv /\ NetReceive(k) => IInv'
<1> SUFFICES ASSUME NEW k \in Packets, IInv, NetReceive(k) PROVE IInv'
  OBVIOUS
<1> USE DEF IInv, NetReceive, NetGoes, WorkerGoes, given, sending, config, gate, receive, history, net, worker
<1>1. TypeOK'
  <2>1. Flags'
    BY Zenon DEF Flags, TypeOK
  <2>2. Values'
    <3>1. SeqOf(k) \in Int /\ (SeqOf(k) + 1) % Modulus \in 0..(Modulus - 1)
      <4>1. k \in Int /\ restartedAt \in Int /\ firstSeq \in Int /\ Modulus \in Nat /\ Modulus > 0
        BY SequenceAssumption, FramesAssumption, SMT DEF TypeOK, Packets
      <4>2. PICK n \in Int : SeqOf(k) = n % Modulus
        BY <4>1, SMT DEF SeqOf
      <4>3. SeqOf(k) \in Int
        BY <4>1, <4>2, SequenceNumbers
      <4> QED
        BY <4>3, SequenceNumbers
    <3>2. nextSeq' \in 0..(Modulus - 1)
      BY <3>1, SMT DEF TypeOK
    <3>3. packet' \in 0..MaxPackets /\ seen' \in 0..MaxPackets /\ seen' >= seen /\ seen' >= k
      BY FramesAssumption, SMT DEF TypeOK, Packets
    <3>4. room' \in 0..Capacity
      BY FramesAssumption, LenProperties, SMT DEF TypeOK, Room
    <3>5. refused' \in 0..MaxPackets
      <4>1. refused <= seen
        BY DEF SeqInv
      <4> QED
        BY <3>3, <4>1, FramesAssumption, SMT DEF TypeOK, Packets
    <3>6. netPc' \in NetStates
      BY Zenon DEF TypeOK, NetStates
    <3> QED
      BY <3>2, <3>3, <3>4, <3>5, <3>6, Zenon DEF Values, TypeOK
  <2> QED
    BY <2>1, <2>2 DEF TypeOK, Flags, Values
<1>2. GateInv'
  BY SMT DEF TypeOK, GateInv, Inside
<1>3. RingInv'
  <2>1. ring' = ring /\ workerPc' = workerPc /\ avail' = avail
    OBVIOUS
  <2>2. netPc' = "push" => packet' \in Packets /\ room' = Capacity - Len(ring)
    BY Zenon DEF Room
  <2> QED
    BY <2>1, <2>2, FramesAssumption, LenProperties, SMT DEF TypeOK, RingInv, Tx
<1>4. SeqInv'
  BY ReceiveSeq, Zenon
<1>5. SendInv'
  BY Zenon DEF SendInv, Tx
<1> QED
  BY <1>1, <1>2, <1>3, <1>4, <1>5

LEMMA NetPushStep == IInv /\ NetPush => IInv'
<1> SUFFICES ASSUME IInv, NetPush PROVE IInv'
  OBVIOUS
<1> USE DEF IInv, NetPush, NetGoes, WorkerGoes, given, sending, config, gate, receive, history, net, worker
<1> DEFINE n == IF room < PacketFrames THEN room ELSE PacketFrames
<1>0. /\ ring' \in Seq(Frames) /\ Len(ring') <= Capacity
      /\ Len(ring) \in Nat /\ Len(ring) <= Len(ring')
  <2>1. packet \in Packets /\ room \in 0..(Capacity - Len(ring)) /\ ring \in Seq(Frames) /\ Len(ring) \in Nat
    BY FramesAssumption, LenProperties, SMT DEF TypeOK, RingInv, Tx
  <2>2. FramesOf(packet) \in Seq(Frames) /\ Len(FramesOf(packet)) = PacketFrames
    BY <2>1, FramesOfPacket, Zenon
  <2>3. n \in Nat /\ n <= PacketFrames /\ n <= room
    BY <2>1, FramesAssumption, SMT
  <2>4. \A i \in 1..n : FramesOf(packet)[i] \in Frames
    BY <2>2, <2>3, FramesAssumption, ElementOfSeq, SMT
  <2>5. SubSeq(FramesOf(packet), 1, n) \in Seq(Frames) /\ Len(SubSeq(FramesOf(packet), 1, n)) = n
    BY <2>3, <2>4, SubSeqProperties, SMT
  <2>6. ring' = ring \o SubSeq(FramesOf(packet), 1, n)
    BY Zenon
  <2> HIDE DEF n
  <2> QED
    BY <2>1, <2>3, <2>5, <2>6, ConcatProperties, FramesAssumption, SMT
<1>1. TypeOK'
  <2>1. Flags'
    BY Zenon DEF Flags, TypeOK
  <2>2. Values'
    <3>1. packet' \in 0..MaxPackets /\ room' \in 0..Capacity
      BY FramesAssumption, SMT DEF NoPacket
    <3> QED
      BY <1>0, <3>1, Zenon DEF Values, TypeOK, NetStates
  <2> QED
    BY <2>1, <2>2 DEF TypeOK, Flags, Values
<1>2. GateInv'
  BY SMT DEF TypeOK, GateInv, Inside
<1>3. RingInv'
  BY <1>0, FramesAssumption, LenProperties, SMT DEF TypeOK, RingInv, Tx
<1>4. SeqInv'
  BY SeqKept, Zenon
<1>5. SendInv'
  BY Zenon DEF SendInv, RingInv, Tx
<1> QED
  BY <1>1, <1>2, <1>3, <1>4, <1>5

\* The numbers of the packets of a ring that always had room.
LEMMA WholePacket ==
  ASSUME IInv, NetSend, whole
  PROVE  /\ sequence + 1 \in Packets
         /\ last = sequence * PacketFrames
         /\ sequence' = sequence + 1
         /\ last' = sequence' * PacketFrames
<1>0. ring \in Seq(Frames) /\ Len(ring) \in Nat /\ PacketFrames \in 1..Len(ring) /\ Tx
      /\ last' = ring[PacketFrames] /\ sequence' = (sequence + 1) % Modulus
  BY FramesAssumption, LenProperties, SMT DEF IInv, TypeOK, NetSend, Tx
<1>1. /\ sequence \in Nat /\ PacketFrames \in Nat \ {0} /\ MaxPackets \in Nat /\ Modulus \in Nat
      /\ 2 * MaxPackets <= Modulus /\ ticked \in Nat /\ ticked <= MaxPackets * PacketFrames /\ TickFrames \in Nat
  BY SequenceAssumption, FramesAssumption, SMT DEF IInv, TypeOK, Frames
<1>2. last = sequence * PacketFrames /\ last' = last + PacketFrames /\ last' <= Gathered
  BY <1>0, Zenon DEF IInv, SendInv, NetSend
<1>3. Gathered <= ticked
  BY <1>1, SMT DEF Gathered
<1>4. last' = (sequence + 1) * PacketFrames
  BY <1>1, <1>2, SMT
<1>5. (sequence + 1) * PacketFrames <= MaxPackets * PacketFrames
  <2>1. MaxPackets * PacketFrames \in Nat /\ (sequence + 1) * PacketFrames \in Nat /\ Gathered \in Int
    BY <1>1, SMT DEF Gathered
  <2> QED
    BY <1>1, <1>2, <1>3, <1>4, <2>1, SMT
<1>6. sequence + 1 <= MaxPackets
  <2> SUFFICES ASSUME sequence + 1 > MaxPackets PROVE FALSE
    BY <1>1, SMT
  <2>1. sequence + 1 - MaxPackets >= 1 /\ sequence + 1 - MaxPackets \in Nat
    BY <1>1, SMT
  <2>2. (sequence + 1 - MaxPackets) * PacketFrames >= 1
    BY <1>1, <2>1, SMT
  <2>3. (sequence + 1 - MaxPackets) * PacketFrames = (sequence + 1) * PacketFrames - MaxPackets * PacketFrames
    BY <1>1, SMT
  <2> QED
    BY <1>1, <1>5, <2>2, <2>3, SMT
<1>7. (sequence + 1) % Modulus = sequence + 1
  BY <1>1, <1>6, SMT
<1>8. sequence + 1 \in Packets
  BY <1>1, <1>6, SMT DEF Packets
<1> QED
  BY <1>0, <1>2, <1>4, <1>7, <1>8

LEMMA NetSendStep == IInv /\ NetSend => IInv'
<1> SUFFICES ASSUME IInv, NetSend PROVE IInv'
  OBVIOUS
<1> USE DEF IInv, NetSend, NetGoes, WorkerGoes, given, sending, config, gate, receive, history, net, worker
<1>0. /\ Tx /\ active /\ PacketFrames \in 1..Len(ring) /\ Len(ring) \in Nat
      /\ ring' \in Seq(Frames) /\ Len(ring') \in Nat /\ Len(ring') <= Len(ring) /\ ring[PacketFrames] \in Frames
  <2>1. ring \in Seq(Frames) /\ Len(ring) \in Nat /\ PacketFrames \in Nat /\ PacketFrames \in 1..Len(ring)
    BY FramesAssumption, LenProperties, SMT DEF TypeOK
  <2>2. ring' \in Seq(Frames) /\ Len(ring') = Len(ring) - PacketFrames
    BY <2>1, TailOfFrames, SMT
  <2>3. ring[PacketFrames] \in Frames
    BY <2>1, ElementOfSeq
  <2> QED
    BY <2>1, <2>2, <2>3, SMT DEF Tx
<1>1. TypeOK'
  <2>1. Flags'
    BY Zenon DEF Flags, TypeOK
  <2>2. Values'
    <3>1. sequence' \in 0..(Modulus - 1)
      BY SequenceNumbers, SMT DEF TypeOK
    <3>2. Len(ring') <= Capacity /\ last' \in Frames
      BY <1>0, LenProperties, FramesAssumption, SMT DEF TypeOK
    <3> QED
      BY <1>0, <3>1, <3>2, Zenon DEF Values, TypeOK
  <2> QED
    BY <2>1, <2>2 DEF TypeOK, Flags, Values
<1>2. GateInv'
  BY SMT DEF TypeOK, GateInv, Inside
<1>3. RingInv'
  BY <1>0, FramesAssumption, LenProperties, SMT DEF TypeOK, RingInv, Tx
<1>4. SeqInv'
  BY SeqKept, Zenon
<1>5. SendInv'
  <2>1. whole => last' = sequence' * PacketFrames
    BY <1>0, WholePacket, Zenon
  <2> QED
    BY <1>0, <2>1, SentKeeps, Zenon
<1> QED
  BY <1>1, <1>2, <1>3, <1>4, <1>5

LEMMA NetBookStep == IInv /\ NetBook => IInv'
<1> SUFFICES ASSUME IInv, NetBook PROVE IInv'
  OBVIOUS
<1> USE DEF IInv, NetBook, NetGoes, WorkerGoes, given, sending, config, gate, receive, history, net, worker
<1>1. TypeOK'
  <2>1. Flags'
    BY Zenon DEF Flags, TypeOK
  <2>2. Values'
    BY Zenon DEF Values, TypeOK
  <2> QED
    BY <2>1, <2>2 DEF TypeOK, Flags, Values
<1>2. GateInv'
  BY SMT DEF TypeOK, GateInv, Inside
<1>3. RingInv'
  BY SMT DEF TypeOK, RingInv, Tx
<1>4. SeqInv'
  BY SeqKept, Zenon
<1>5. SendInv'
  BY SendKept, Zenon
<1> QED
  BY <1>1, <1>2, <1>3, <1>4, <1>5

LEMMA NetCodebookStep == IInv /\ NetCodebook => IInv'
<1> SUFFICES ASSUME IInv, NetCodebook PROVE IInv'
  OBVIOUS
<1> USE DEF IInv, NetCodebook, NetGoes, WorkerGoes, given, sending, config, gate, receive, history, net, worker
<1>1. TypeOK'
  <2>1. Flags'
    BY Zenon DEF Flags, TypeOK
  <2>2. Values'
    BY FramesAssumption, SMT DEF Values, TypeOK
  <2> QED
    BY <2>1, <2>2 DEF TypeOK, Flags, Values
<1>2. GateInv'
  BY SMT DEF TypeOK, GateInv, Inside
<1>3. RingInv'
  BY SMT DEF TypeOK, RingInv, Tx
<1>4. SeqInv'
  BY SequenceAssumption, SMT DEF SeqInv
<1>5. SendInv'
  BY DEF SendInv, Tx
<1> QED
  BY <1>1, <1>2, <1>3, <1>4, <1>5

LEMMA NetEncodeStep == IInv /\ NetEncode => IInv'
<1> SUFFICES ASSUME IInv, NetEncode PROVE IInv'
  OBVIOUS
<1> USE DEF IInv, NetEncode, NetGoes, WorkerGoes, given, sending, config, gate, receive, history, net, worker
<1> DEFINE n == IF Len(ring) < FeedFrames THEN Len(ring) ELSE FeedFrames
<1>0. /\ Tx /\ active /\ n \in 1..Len(ring) /\ Len(ring) \in Nat
      /\ ring' \in Seq(Frames) /\ Len(ring') \in Nat /\ Len(ring') <= Len(ring) /\ ring[n] \in Frames
  <2>1. ring \in Seq(Frames) /\ Len(ring) \in Nat /\ n \in Nat /\ n <= Len(ring) /\ n \in 1..Len(ring)
    BY FramesAssumption, LenProperties, SMT DEF TypeOK
  <2>4. ring' = SubSeq(ring, n + 1, Len(ring))
    OBVIOUS
  <2> HIDE DEF n
  <2>2. ring' \in Seq(Frames) /\ Len(ring') = Len(ring) - n
    BY <2>1, <2>4, TailOfFrames, Zenon
  <2>3. ring[n] \in Frames
    BY <2>1, ElementOfSeq
  <2> QED
    BY <2>1, <2>2, <2>3, SMT DEF Tx
<1>1. TypeOK'
  <2>1. Flags'
    BY Zenon DEF Flags, TypeOK
  <2>2. Values'
    <3>1. sequence' \in 0..(Modulus - 1)
      <4>1. PICK p \in 0..n : sequence' = (sequence + p) % Modulus
        BY Zenon
      <4>2. n \in Nat /\ sequence \in Int
        BY <1>0, SequenceAssumption, SMT DEF TypeOK
      <4> HIDE DEF n
      <4>3. sequence + p \in Int
        BY <4>1, <4>2, SMT
      <4> QED
        BY <4>1, <4>3, SequenceNumbers
    <3>2. Len(ring') <= Capacity /\ last' \in Frames
      <4>1. last' = ring[n] /\ Len(ring) <= Capacity /\ Capacity \in Nat
        BY FramesAssumption, Zenon DEF TypeOK
      <4> HIDE DEF n
      <4> QED
        BY <1>0, <4>1, SMT
    <3> QED
      BY <1>0, <3>1, <3>2, Zenon DEF Values, TypeOK
  <2> QED
    BY <2>1, <2>2 DEF TypeOK, Flags, Values
<1>2. GateInv'
  BY SMT DEF TypeOK, GateInv, Inside
<1>3. RingInv'
  BY <1>0, FramesAssumption, LenProperties, SMT DEF TypeOK, RingInv, Tx
<1>4. SeqInv'
  BY SeqKept, Zenon
<1>5. SendInv'
  <2>1. ring' = SubSeq(ring, n + 1, Len(ring)) /\ last' = ring[n] /\ kind # "txPcm"
    BY Zenon
  <2> HIDE DEF n
  <2> QED
    BY <1>0, <2>1, SentKeeps, Zenon
<1> QED
  BY <1>1, <1>2, <1>3, <1>4, <1>5

LEMMA NetDrainedStep == IInv /\ NetDrained => IInv'
<1> SUFFICES ASSUME IInv, NetDrained PROVE IInv'
  OBVIOUS
<1> USE DEF IInv, NetDrained, NetGoes, WorkerGoes, given, sending, config, gate, receive, history, net, worker
<1>1. TypeOK'
  <2>1. Flags'
    BY Zenon DEF Flags, TypeOK
  <2>2. Values'
    BY FramesAssumption, SMT DEF Values, TypeOK, NetStates, WorkerStates
  <2> QED
    BY <2>1, <2>2 DEF TypeOK, Flags, Values
<1>2. GateInv'
  BY SMT DEF TypeOK, GateInv, Inside
<1>3. RingInv'
  BY SMT DEF TypeOK, RingInv, Tx
<1>4. SeqInv'
  BY SeqKept, Zenon
<1>5. SendInv'
  BY SendKept, Zenon
<1> QED
  BY <1>1, <1>2, <1>3, <1>4, <1>5

LEMMA WorkerChangeStep == IInv /\ WorkerChange => IInv'
<1> SUFFICES ASSUME IInv, WorkerChange PROVE IInv'
  OBVIOUS
<1> USE DEF IInv, WorkerChange, NetGoes, WorkerGoes, given, sending, config, gate, receive, history, net, worker
<1>1. TypeOK'
  <2>1. Flags'
    BY Zenon DEF Flags, TypeOK
  <2>2. Values'
    BY FramesAssumption, SMT DEF Values, TypeOK, NetStates, WorkerStates
  <2> QED
    BY <2>1, <2>2 DEF TypeOK, Flags, Values
<1>2. GateInv'
  BY SMT DEF TypeOK, GateInv, Inside
<1>3. RingInv'
  BY SMT DEF TypeOK, RingInv, Tx
<1>4. SeqInv'
  BY SeqKept, Zenon
<1>5. SendInv'
  BY SendKept, Zenon
<1> QED
  BY <1>1, <1>2, <1>3, <1>4, <1>5

LEMMA WorkerTickStep == IInv /\ WorkerTick => IInv'
<1> SUFFICES ASSUME IInv, WorkerTick PROVE IInv'
  OBVIOUS
<1> USE DEF IInv, WorkerTick, NetGoes, WorkerGoes, given, sending, config, gate, receive, history, net, worker
<1>1. TypeOK'
  <2>1. Flags'
    BY Zenon DEF Flags, TypeOK
  <2>2. Values'
    BY FramesAssumption, SMT DEF Values, TypeOK, NetStates, WorkerStates
  <2> QED
    BY <2>1, <2>2 DEF TypeOK, Flags, Values
<1>2. GateInv'
  BY SMT DEF TypeOK, GateInv, Inside
<1>3. RingInv'
  BY SMT DEF TypeOK, RingInv, Tx
<1>4. SeqInv'
  BY SeqKept, Zenon
<1>5. SendInv'
  BY SendKept, Zenon
<1> QED
  BY <1>1, <1>2, <1>3, <1>4, <1>5

LEMMA WorkerBusyStep == IInv /\ WorkerBusy => IInv'
<1> SUFFICES ASSUME IInv, WorkerBusy PROVE IInv'
  OBVIOUS
<1> USE DEF IInv, WorkerBusy, NetGoes, WorkerGoes, given, sending, config, gate, receive, history, net, worker
<1>1. TypeOK'
  <2>1. Flags'
    BY Zenon DEF Flags, TypeOK
  <2>2. Values'
    BY FramesAssumption, SMT DEF Values, TypeOK, NetStates, WorkerStates
  <2> QED
    BY <2>1, <2>2 DEF TypeOK, Flags, Values
<1>2. GateInv'
  BY SMT DEF TypeOK, GateInv, Inside
<1>3. RingInv'
  BY SMT DEF TypeOK, RingInv, Tx
<1>4. SeqInv'
  BY SeqKept, Zenon
<1>5. SendInv'
  BY SendKept, Zenon
<1> QED
  BY <1>1, <1>2, <1>3, <1>4, <1>5

LEMMA WorkerEnterStep == IInv /\ WorkerEnter => IInv'
<1> SUFFICES ASSUME IInv, WorkerEnter PROVE IInv'
  OBVIOUS
<1> USE DEF IInv, WorkerEnter, NetGoes, WorkerGoes, given, sending, config, gate, receive, history, net, worker
<1>1. TypeOK'
  <2>1. Flags'
    BY Zenon DEF Flags, TypeOK, Entered
  <2>2. Values'
    BY FramesAssumption, SMT DEF Values, TypeOK, NetStates, WorkerStates
  <2> QED
    BY <2>1, <2>2 DEF TypeOK, Flags, Values
<1>2. GateInv'
  BY SMT DEF TypeOK, GateInv, Inside, Entered
<1>3. RingInv'
  BY SMT DEF TypeOK, RingInv, Tx
<1>4. SeqInv'
  BY SeqKept, Zenon
<1>5. SendInv'
  BY SendKept, Zenon
<1> QED
  BY <1>1, <1>2, <1>3, <1>4, <1>5

LEMMA WorkerLookStep == IInv /\ WorkerLook => IInv'
<1> SUFFICES ASSUME IInv, WorkerLook PROVE IInv'
  OBVIOUS
<1> USE DEF IInv, WorkerLook, NetGoes, WorkerGoes, given, sending, config, gate, receive, history, net, worker
<1>1. TypeOK'
  <2>1. Flags'
    BY Zenon DEF Flags, TypeOK
  <2>2. Values'
    BY FramesAssumption, SMT DEF Values, TypeOK, NetStates, WorkerStates
  <2> QED
    BY <2>1, <2>2 DEF TypeOK, Flags, Values
<1>2. GateInv'
  BY SMT DEF TypeOK, GateInv, Inside
<1>3. RingInv'
  BY SMT DEF TypeOK, RingInv, Tx
<1>4. SeqInv'
  BY SeqKept, Zenon
<1>5. SendInv'
  BY SendKept, Zenon
<1> QED
  BY <1>1, <1>2, <1>3, <1>4, <1>5

LEMMA WorkerTakeStep == IInv /\ WorkerTake => IInv'
<1> SUFFICES ASSUME IInv, WorkerTake PROVE IInv'
  OBVIOUS
<1> USE DEF IInv, WorkerTake, NetGoes, WorkerGoes, given, sending, config, gate, receive, history, net, worker
<1> DEFINE n == IF Len(Kept) < TickFrames THEN Len(Kept) ELSE TickFrames
<1>0. /\ ring' \in Seq(Frames) /\ Len(ring') \in Nat /\ Len(ring') <= Len(ring)
      /\ scratch' \in [1..TickFrames -> Frames]
      /\ last' \in Frames
  <2>1. Kept \in Seq(Frames) /\ Len(Kept) <= Len(ring) /\ Len(Kept) \in Nat
    BY KeptFrames, LenProperties
  <2>2. n \in Nat /\ n <= Len(Kept) /\ n <= TickFrames /\ TickFrames \in Nat \ {0}
    BY <2>1, FramesAssumption, SMT
  <2>3. scratch \in Seq(Frames) /\ Len(scratch) = TickFrames
    BY FramesAssumption, LenProperties, SeqDef, SMT DEF TypeOK
  <2>4. /\ scratch' = SubSeq(Kept, 1, n) \o SubSeq(scratch, n + 1, TickFrames)
        /\ ring' = SubSeq(Kept, n + 1, Len(Kept))
        /\ last' = IF oneRun THEN scratch'[TickFrames] ELSE 0
    BY Zenon
  <2> HIDE DEF n
  <2>5. SubSeq(Kept, 1, n) \in Seq(Frames) /\ Len(SubSeq(Kept, 1, n)) = n
    <3>1. \A i \in 1..n : Kept[i] \in Frames
      BY <2>1, <2>2, ElementOfSeq, SMT
    <3> QED
      BY <2>2, <3>1, SubSeqProperties, SMT
  <2>6. /\ SubSeq(Kept, n + 1, Len(Kept)) \in Seq(Frames)
        /\ Len(SubSeq(Kept, n + 1, Len(Kept))) = Len(Kept) - n
    BY <2>1, <2>2, TailOfFrames
  <2>7. /\ SubSeq(scratch, n + 1, TickFrames) \in Seq(Frames)
        /\ Len(SubSeq(scratch, n + 1, TickFrames)) = TickFrames - n
    <3>1. \A i \in (n + 1)..TickFrames : scratch[i] \in Frames
      BY <2>2, <2>3, ElementOfSeq, SMT
    <3> QED
      BY <2>2, <3>1, SubSeqProperties, SMT
  <2>8. scratch' \in Seq(Frames) /\ Len(scratch') = TickFrames
    <3> DEFINE a == SubSeq(Kept, 1, n)
               b == SubSeq(scratch, n + 1, TickFrames)
    <3>1. a \in Seq(Frames) /\ b \in Seq(Frames) /\ Len(a) = n /\ Len(b) = TickFrames - n /\ scratch' = a \o b
      BY <2>4, <2>5, <2>7
    <3> HIDE DEF a, b
    <3>2. a \o b \in Seq(Frames) /\ Len(a \o b) = Len(a) + Len(b)
      BY <3>1, ConcatProperties
    <3>3. n + (TickFrames - n) = TickFrames
      BY <2>2, SMT
    <3> QED
      BY <3>1, <3>2, <3>3, Zenon
  <2>9. scratch' \in [1..TickFrames -> Frames]
    BY <2>8, LenProperties, Zenon
  <2>10. last' \in Frames
    <3>1. TickFrames \in 1..TickFrames /\ 0 \in Frames
      BY <2>2, FramesAssumption, SMT DEF Frames
    <3>2. scratch'[TickFrames] \in Frames
      BY <2>9, <3>1, Zenon
    <3> QED
      BY <2>4, <3>1, <3>2, Zenon
  <2> QED
    <3>1. Len(ring) \in Nat
      BY LenProperties DEF TypeOK
    <3>2. ring' \in Seq(Frames) /\ Len(ring') = Len(Kept) - n
      BY <2>4, <2>6, Zenon
    <3>3. Len(Kept) - n \in Nat /\ Len(Kept) - n <= Len(ring)
      BY <2>1, <2>2, <3>1, SMT
    <3> QED
      BY <2>9, <2>10, <3>2, <3>3, Zenon
<1>1. TypeOK'
  <2>1. Flags'
    BY Zenon DEF Flags, TypeOK
  <2>2. Values'
    <3>1. Len(ring') <= Capacity /\ 0 \in 0..Capacity
      BY <1>0, FramesAssumption, LenProperties, SMT DEF TypeOK
    <3> QED
      BY <1>0, <3>1, Zenon DEF Values, TypeOK, WorkerStates
  <2> QED
    BY <2>1, <2>2 DEF TypeOK, Flags, Values
<1>2. GateInv'
  BY SMT DEF TypeOK, GateInv, Inside
<1>3. RingInv'
  BY <1>0, FramesAssumption, LenProperties, SMT DEF TypeOK, RingInv, Tx
<1>4. SeqInv'
  BY SeqKept, Zenon
<1>5. SendInv'
  BY Zenon DEF SendInv, RingInv, Tx
<1> QED
  BY <1>1, <1>2, <1>3, <1>4, <1>5

LEMMA WorkerGatherStep == IInv /\ WorkerGather => IInv'
<1> SUFFICES ASSUME IInv, WorkerGather PROVE IInv'
  OBVIOUS
<1> USE DEF IInv, WorkerGather, NetGoes, WorkerGoes, given, sending, config, gate, receive, history, net, worker
<1>0. /\ TickFrames \in Nat \ {0} /\ ticked \in Nat /\ ticked + TickFrames \in Frames
      /\ scratch' \in [1..TickFrames -> Frames]
  <2>1. TickFrames \in Nat \ {0} /\ ticked \in Nat /\ ticked + TickFrames \in Frames
    BY FramesAssumption, SMT DEF TypeOK, RingInv, Frames
  <2>2. \A f \in 1..TickFrames : ticked + f \in Frames
    BY <2>1, FramesAssumption, SMT DEF Frames
  <2> QED
    BY <2>1, <2>2
<1>1. TypeOK'
  <2>1. Flags'
    BY Zenon DEF Flags, TypeOK
  <2>2. Values'
    <3>1. room' \in 0..Capacity
      BY FramesAssumption, LenProperties, SMT DEF TypeOK, Room
    <3> QED
      BY <1>0, <3>1, Zenon DEF Values, TypeOK, WorkerStates
  <2> QED
    BY <2>1, <2>2 DEF TypeOK, Flags, Values
<1>2. GateInv'
  BY SMT DEF TypeOK, GateInv, Inside
<1>3. RingInv'
  <2>1. room' = Capacity - Len(ring) /\ netPc # "push"
    BY DEF Room, RingInv
  <2> QED
    BY <2>1, FramesAssumption, LenProperties, SMT DEF TypeOK, RingInv, Tx
<1>4. SeqInv'
  BY SeqKept, Zenon
<1>5. SendInv'
  <2> SUFFICES ASSUME Tx, active PROVE SendInv'
    BY DEF SendInv, Tx
  <2>1. Gathered = ticked /\ Gathered' = ticked
    BY <1>0, SMT DEF Gathered
  <2>2. ticked' >= TickFrames /\ scratch' = [f \in 1..TickFrames |-> ticked' - TickFrames + f]
    BY <1>0, SMT
  <2> QED
    BY <2>1, <2>2, Zenon DEF SendInv, Ascending
<1> QED
  BY <1>1, <1>2, <1>3, <1>4, <1>5

LEMMA WorkerPutStep == IInv /\ WorkerPut => IInv'
<1> SUFFICES ASSUME IInv, WorkerPut PROVE IInv'
  OBVIOUS
<1> USE DEF IInv, WorkerPut, NetGoes, WorkerGoes, given, sending, config, gate, receive, history, net, worker
<1>0. /\ Fitting \in Nat /\ Fitting <= TickFrames /\ Fitting <= Capacity - Len(ring)
      /\ ring \in Seq(Frames) /\ Len(ring) \in Nat /\ ring' \in Seq(Frames) /\ Len(ring') = Len(ring) + Fitting
      /\ \A i \in 1..Len(ring) : ring'[i] = ring[i]
      /\ \A i \in 1..Fitting : ring'[Len(ring) + i] = scratch[i]
  <2>1. ring \in Seq(Frames) /\ Len(ring) \in Nat /\ room \in 0..(Capacity - Len(ring)) /\ TickFrames \in Nat
    BY FramesAssumption, LenProperties, SMT DEF TypeOK, RingInv
  <2>2. Fitting \in Nat /\ Fitting <= TickFrames /\ Fitting <= room
    BY <2>1, SMT DEF Fitting
  <2>3. scratch \in Seq(Frames) /\ Len(scratch) = TickFrames
    BY FramesAssumption, LenProperties, SeqDef, SMT DEF TypeOK
  <2>4. \A i \in 1..Fitting : scratch[i] \in Frames
    BY <2>1, <2>2, <2>3, ElementOfSeq, SMT
  <2>5. /\ SubSeq(scratch, 1, Fitting) \in Seq(Frames) /\ Len(SubSeq(scratch, 1, Fitting)) = Fitting
        /\ \A i \in 1..Fitting : SubSeq(scratch, 1, Fitting)[i] = scratch[i]
    BY <2>2, <2>4, SubSeqProperties, SMT
  <2> DEFINE t == SubSeq(scratch, 1, Fitting)
  <2>6. ring' = ring \o t /\ t \in Seq(Frames) /\ Len(t) = Fitting /\ \A i \in 1..Fitting : t[i] = scratch[i]
    BY <2>5
  <2> HIDE DEF t
  <2>7. /\ ring' \in Seq(Frames) /\ Len(ring') = Len(ring) + Len(t)
        /\ \A i \in 1..(Len(ring) + Len(t)) : ring'[i] = IF i <= Len(ring) THEN ring[i] ELSE t[i - Len(ring)]
    BY <2>1, <2>6, ConcatProperties
  <2> QED
    BY <2>1, <2>2, <2>6, <2>7, FramesAssumption, SMT
<1>1. TypeOK'
  <2>1. Flags'
    BY Zenon DEF Flags, TypeOK
  <2>2. Values'
    <3>1. Len(ring') <= Capacity /\ 0 \in 0..Capacity
      BY <1>0, FramesAssumption, SMT
    <3> QED
      BY <1>0, <3>1, Zenon DEF Values, TypeOK, WorkerStates
  <2> QED
    BY <2>1, <2>2 DEF TypeOK, Flags, Values
<1>2. GateInv'
  BY SMT DEF TypeOK, GateInv, Inside
<1>3. RingInv'
  BY <1>0, FramesAssumption, SMT DEF TypeOK, RingInv, Tx
<1>4. SeqInv'
  BY SeqKept, Zenon
<1>5. SendInv'
  <2> SUFFICES ASSUME Tx, active PROVE SendInv'
    BY DEF SendInv, Tx
  <2> DEFINE g == ticked - TickFrames
  <2>1. TickFrames \in Nat /\ ticked \in Nat /\ last \in Nat /\ g \in Int
    BY FramesAssumption, SMT DEF TypeOK, Frames
  <2>2. Gathered = g /\ Gathered' = ticked /\ workerPc' # "put"
    BY Zenon DEF Gathered
  <2>3. \A i \in 1..Len(ring) : ring[i] \in Nat
    BY <1>0, ElementOfSeq, FramesAssumption, SMT DEF Frames
  <2>4. \A i \in 1..Fitting : ring'[Len(ring) + i] = g + i
    <3>1. scratch = [f \in 1..TickFrames |-> ticked - TickFrames + f]
      BY DEF SendInv
    <3>2. \A i \in 1..Fitting : scratch[i] = g + i
      BY <1>0, <2>1, <3>1, SMT
    <3> QED
      BY <1>0, <3>2
  <2>5. /\ last <= g
        /\ oneRun
        /\ \A i \in 1..Len(ring) : last < ring[i] /\ ring[i] <= g
        /\ \A i, j \in 1..Len(ring) : i < j => ring[i] < ring[j]
        /\ whole => /\ \A i \in 1..Len(ring) : ring[i] = last + i
                    /\ g = last + Len(ring)
                    /\ kind = "txPcm" => last = sequence * PacketFrames
    BY <2>2, Zenon DEF SendInv, Ascending
  <2> HIDE DEF g
  <2>6. g + TickFrames = ticked
    BY <2>1, SMT DEF g
  <2>7. \A i \in 1..Len(ring') :
           \/ i \in 1..Len(ring) /\ ring'[i] = ring[i]
           \/ i - Len(ring) \in 1..Fitting /\ ring'[i] = g + (i - Len(ring))
    <3> SUFFICES ASSUME NEW i \in 1..Len(ring')
                 PROVE  \/ i \in 1..Len(ring) /\ ring'[i] = ring[i]
                        \/ i - Len(ring) \in 1..Fitting /\ ring'[i] = g + (i - Len(ring))
      OBVIOUS
    <3>1. CASE i <= Len(ring)
      BY <1>0, <3>1, SMT
    <3>2. CASE i > Len(ring)
      <4>1. i - Len(ring) \in 1..Fitting /\ Len(ring) + (i - Len(ring)) = i
        BY <1>0, <3>2, SMT
      <4>2. ring'[Len(ring) + (i - Len(ring))] = g + (i - Len(ring))
        BY <2>4, <4>1, Zenon
      <4> QED
        BY <4>1, <4>2, Zenon
    <3> QED
      BY <1>0, <3>1, <3>2, SMT
  <2>8. \A i \in 1..Len(ring') : last < ring'[i] /\ ring'[i] <= ticked
    BY <1>0, <2>1, <2>3, <2>5, <2>6, <2>7, SMT
  <2>9. \A i, j \in 1..Len(ring') : i < j => ring'[i] < ring'[j]
    BY <1>0, <2>1, <2>3, <2>5, <2>6, <2>7, SMT
  <2>10. whole' => /\ \A i \in 1..Len(ring') : ring'[i] = last + i
                   /\ ticked = last + Len(ring')
                   /\ kind = "txPcm" => last = sequence * PacketFrames
    <3>1. whole' => whole /\ Fitting = TickFrames
      OBVIOUS
    <3> SUFFICES ASSUME whole, Fitting = TickFrames
                 PROVE  /\ \A i \in 1..Len(ring') : ring'[i] = last + i
                        /\ ticked = last + Len(ring')
                        /\ kind = "txPcm" => last = sequence * PacketFrames
      BY <3>1, Zenon
    <3>2. \A i \in 1..Len(ring') : ring'[i] = last + i
      BY <1>0, <2>1, <2>5, <2>7, SMT
    <3>3. ticked = last + Len(ring')
      BY <1>0, <2>1, <2>5, <2>6, SMT
    <3> QED
      BY <2>5, <3>2, <3>3, Zenon
  <2>11. last' <= ticked /\ UNCHANGED <<last, kind, sequence>>
    BY <2>1, <2>5, <2>6, SMT
  <2> QED
    BY <2>2, <2>5, <2>8, <2>9, <2>10, <2>11, Zenon DEF SendInv, Ascending
<1> QED
  BY <1>1, <1>2, <1>3, <1>4, <1>5

LEMMA WorkerLeaveStep == IInv /\ WorkerLeave => IInv'
<1> SUFFICES ASSUME IInv, WorkerLeave PROVE IInv'
  OBVIOUS
<1> USE DEF IInv, WorkerLeave, NetGoes, WorkerGoes, given, sending, config, gate, receive, history, net, worker
<1>1. TypeOK'
  <2>1. Flags'
    BY Zenon DEF Flags, TypeOK
  <2>2. Values'
    BY FramesAssumption, SMT DEF Values, TypeOK, NetStates, WorkerStates
  <2> QED
    BY <2>1, <2>2 DEF TypeOK, Flags, Values
<1>2. GateInv'
  BY SMT DEF TypeOK, GateInv, Inside
<1>3. RingInv'
  BY SMT DEF TypeOK, RingInv, Tx
<1>4. SeqInv'
  BY SeqKept, Zenon
<1>5. SendInv'
  BY SendKept, Zenon
<1> QED
  BY <1>1, <1>2, <1>3, <1>4, <1>5

LEMMA StepInv == IInv /\ [Next]_vars => IInv'
<1> SUFFICES ASSUME IInv, [Next]_vars PROVE IInv'
  OBVIOUS
<1>1. CASE Next
  BY <1>1, SaveStep, NetTopStep, NetApplyStep, NetClosedStep, NetOpenStep, NetReceiveStep, NetCodebookStep,
     NetPushStep, NetDrainedStep, WorkerChangeStep, WorkerTickStep, WorkerBusyStep, WorkerEnterStep,
     WorkerLookStep, WorkerTakeStep, NetSendStep, NetBookStep, NetEncodeStep, WorkerGatherStep, WorkerPutStep, WorkerLeaveStep, Zenon
  DEF Next, Network, NetThread, Worker
<1>2. CASE UNCHANGED vars
  BY <1>2 DEF vars, given, sending, config, gate, net, receive, history, worker, IInv, TypeOK, GateInv, RingInv, Inside, SendInv, Gathered, Tx,
     Ascending, SeqOf, Late, Ahead,
     SeqInv, RebuiltAlone, Tables, Packets, Frames
<1> QED
  BY <1>1, <1>2

\* The inductive invariant holds of every state.
THEOREM Invariance == Spec => []IInv
  BY InitInv, StepInv, PTL DEF Spec

\* Every variable stays within its type; the ring never holds more than fits.
THEOREM TypeCorrect == Spec => []TypeOK
<1>1. IInv => TypeOK
  BY DEF IInv
<1> QED
  BY <1>1, Invariance, PTL

\* The network thread rebuilds a stream alone (StreamGate).
THEOREM Gated == Spec => []RebuiltAlone
<1>1. IInv => RebuiltAlone
  BY DEF IInv, GateInv, Inside, RebuiltAlone
<1> QED
  BY <1>1, Invariance, PTL

\* A sender's restart costs less than Resync packets of the new run (SeqInv).
THEOREM ShortRestart == Spec => []RestartIsShort
<1>1. IInv => RestartIsShort
  BY DEF IInv, SeqInv, RestartIsShort
<1> QED
  BY <1>1, Invariance, PTL

-----------------------------------------------------------------------------
(* An Rx stream is played in order, if every target has a tick's frames. *)

LEMMA PlayKept ==
  ASSUME PlayInv, UNCHANGED <<given, book, target, oneRun, last, ring, packet, seen, haveSeq, nextSeq>>,
         InUse' => InUse, netPc' = "alloc" => netPc = "alloc", (netPc = "push") <=> (netPc' = "push")
  PROVE  PlayInv'
  BY DEF PlayInv, Came, Tx, Vorbis, given, SeqOf, Ascending

LEMMA PlayInit == Init => PlayInv
  BY Zenon DEF Init, PlayInv, InUse, Inside

LEMMA PlayClosed == IInv /\ NetClosed => PlayInv'
<1> SUFFICES ASSUME IInv, NetClosed PROVE PlayInv'
  OBVIOUS
<1>1. ~active' /\ ~Inside'
  BY DEF NetClosed, IInv, GateInv, Inside, config, gate, worker, NetGoes
<1>2. ~Tx' => target' \in Targets
  BY DEF NetClosed, IInv, TypeOK, Tables, Tx, given
<1> QED
  BY <1>1, <1>2 DEF PlayInv, InUse

LEMMA PlayOpen == IInv /\ PlayInv /\ NetOpen => PlayInv'
<1> SUFFICES ASSUME IInv, PlayInv, NetOpen, ~Tx, InUse' PROVE PlayInv'
  BY DEF PlayInv, NetOpen, Tx, given, NetGoes
<1>1. /\ netPc = "alloc" /\ netPc' = "serve" /\ kind' = kind /\ target' = target
      /\ ~Inside /\ Inside' = Inside /\ ~haveSeq' /\ seen' = 0 /\ last' = 0
  BY DEF NetOpen, IInv, GateInv, SeqInv, Inside, given, receive, NetGoes
<1>2. ring' = <<>> /\ Len(ring') = 0
  BY <1>1 DEF NetOpen, InUse
<1>3. target' \in Targets
  BY <1>1 DEF PlayInv
<1>4. Came' = 0
  BY <1>1, FramesAssumption, SMT DEF Came
<1> QED
  BY <1>1, <1>2, <1>3, <1>4, SMT DEF PlayInv, Ascending

LEMMA PlayCodebook == IInv /\ PlayInv /\ NetCodebook => PlayInv'
<1> SUFFICES ASSUME IInv, PlayInv, NetCodebook PROVE PlayInv'
  OBVIOUS
<1>1. /\ ~Tx /\ Vorbis /\ ~book /\ InUse /\ netPc' = netPc /\ netPc = "serve"
      /\ target' = target /\ ring' = ring /\ last' = last /\ ~haveSeq' /\ seen' = 0
  BY DEF NetCodebook, Tx, Vorbis, InUse, worker
<1>2. target' \in Targets /\ ring' = <<>> /\ last' = 0 /\ netPc' # "push"
  BY <1>1 DEF PlayInv
<1>3. Came' = 0 /\ Len(ring') = 0
  BY <1>1, <1>2, FramesAssumption, SMT DEF Came
<1> QED
  BY <1>1, <1>2, <1>3, SMT DEF PlayInv, Ascending

LEMMA PlayReceive == \A k \in Packets : IInv /\ PlayInv /\ NetReceive(k) => PlayInv'
<1> SUFFICES ASSUME NEW k \in Packets, IInv, PlayInv, NetReceive(k) PROVE PlayInv'
  OBVIOUS
<1> USE DEF NetReceive
<1>0. /\ PacketFrames \in Nat \ {0} /\ k \in 1..MaxPackets /\ MaxPackets \in Nat /\ seen \in 0..MaxPackets
      /\ Resync \in Nat \ {0} /\ last \in Nat
      /\ ring \in Seq(Frames) /\ Len(ring) \in Nat /\ \A i \in 1..Len(ring) : ring[i] \in Nat
  <2>1. /\ PacketFrames \in Nat \ {0} /\ k \in 1..MaxPackets /\ MaxPackets \in Nat /\ seen \in 0..MaxPackets
        /\ Resync \in Nat \ {0}
    BY SequenceAssumption, FramesAssumption, SMT DEF IInv, TypeOK, Packets
  <2>2. ring \in Seq(Frames) /\ last \in Frames
    BY DEF IInv, TypeOK
  <2>3. \A x \in Frames : x \in Nat
    BY FramesAssumption, SMT DEF Frames
  <2> QED
    BY <2>1, <2>2, <2>3, LenProperties, ElementOfSeq, Zenon
<1>1. /\ ~Tx /\ ~Tx' /\ netPc = "serve" /\ active /\ InUse /\ netPc' \in {"serve", "push"}
      /\ UNCHANGED <<given, target, ring, last, book>>
  BY DEF Tx, InUse, gate, worker, given, sending
<1>2. target' \in Targets /\ (Vorbis' /\ ~book' => ring' = <<>> /\ last' = 0 /\ netPc' # "push")
  <2>1. Vorbis' = Vorbis
    BY <1>1 DEF Vorbis, given
  <2>2. Vorbis /\ ~book => netPc' # "push"
    BY <1>1
  <2> QED
    BY <1>1, <2>1, <2>2 DEF PlayInv
<1> SUFFICES ASSUME oneRun' PROVE
         /\ last <= Came'
         /\ \A i \in 1..Len(ring) : last < ring[i] /\ ring[i] <= Came'
         /\ Ascending(ring)
         /\ netPc' = "push" => packet' = seen'
         /\ IF haveSeq' THEN seen' > 0 /\ nextSeq' = (SeqOf(seen)' + 1) % Modulus ELSE seen' = 0
  BY <1>1, <1>2, Zenon DEF PlayInv, Ascending
<1>3. /\ oneRun /\ (seen = 0 \/ SameRun(seen, k)) /\ Came = seen * PacketFrames
      /\ last <= Came
      /\ \A i \in 1..Len(ring) : last < ring[i] /\ ring[i] <= Came
      /\ Ascending(ring)
      /\ IF haveSeq THEN seen > 0 /\ nextSeq = (SeqOf(seen) + 1) % Modulus ELSE seen = 0
  BY <1>1 DEF PlayInv, Came
<1>4. \A x : SeqOf(x)' = SeqOf(x)
  BY <1>1 DEF SeqOf, given
<1>5. haveSeq => Ahead(SeqOf(k)) = k - seen - 1
  <2> SUFFICES ASSUME haveSeq PROVE Ahead(SeqOf(k)) = k - seen - 1
    OBVIOUS
  <2>1. seen \in Packets /\ SameRun(seen, k) /\ nextSeq = (SeqOf(seen) + 1) % Modulus
    BY <1>0, <1>3, SMT DEF Packets
  <2> QED
    BY <2>1, AheadOfPacket DEF IInv
<1>6. CASE Late(SeqOf(k))
  <2>1. k <= seen
    BY <1>0, <1>5, <1>6, SMT DEF Late
  <2>2. UNCHANGED <<netPc, packet, haveSeq, nextSeq>> /\ seen' = IF k > seen THEN k ELSE seen
    BY <1>6
  <2>3. seen' = seen
    BY <1>0, <2>1, <2>2, SMT
  <2>4. Came' = Came
    BY <2>2, <2>3 DEF Came
  <2> QED
    BY <1>1, <1>3, <1>4, <2>2, <2>3, <2>4, Zenon
<1>7. CASE ~Late(SeqOf(k))
  <2>1. k > seen
    <3>1. CASE ~haveSeq
      BY <1>0, <1>3, <3>1, SMT
    <3>2. CASE haveSeq
      <4>1. k + Resync > seen + 1
        OBVIOUS
      <4> QED
        BY <1>0, <1>5, <1>7, <3>2, <4>1, SMT DEF Late
    <3> QED
      BY <3>1, <3>2
  <2>2. /\ netPc' = "push" => packet' = k
        /\ haveSeq' /\ nextSeq' = (SeqOf(k) + 1) % Modulus
        /\ seen' = IF k > seen THEN k ELSE seen
    BY <1>1, <1>7
  <2>3. seen' = k /\ seen' > 0
    BY <1>0, <2>1, <2>2, SMT
  <2>4. Came' = IF netPc' = "push" THEN (k - 1) * PacketFrames ELSE k * PacketFrames
    BY <2>2, <2>3 DEF Came
  <2>5. Came \in Int /\ Came' \in Int /\ Came <= Came'
    <3>1. k - 1 \in Nat /\ seen \in Nat /\ k - 1 >= seen
      BY <1>0, <2>1, SMT
    <3>2. /\ seen * PacketFrames <= (k - 1) * PacketFrames /\ seen * PacketFrames \in Int
          /\ (k - 1) * PacketFrames \in Int /\ k * PacketFrames = (k - 1) * PacketFrames + PacketFrames
      BY <1>0, <3>1, SMT
    <3>3. (k - 1) * PacketFrames <= k * PacketFrames /\ k * PacketFrames \in Int
      BY <1>0, <3>2, SMT
    <3>4. CASE netPc' = "push"
      BY <1>3, <2>4, <3>2, <3>4
    <3>5. CASE netPc' # "push"
      <4>1. Came' = k * PacketFrames
        BY <2>4, <3>5
      <4> QED
        BY <1>3, <3>2, <3>3, <4>1, SMT
    <3> QED
      BY <3>4, <3>5
  <2>6. last <= Came' /\ \A i \in 1..Len(ring) : last < ring[i] /\ ring[i] <= Came'
    BY <1>0, <1>3, <2>5, SMT
  <2>7. nextSeq' = (SeqOf(seen)' + 1) % Modulus
    BY <1>4, <2>2, <2>3
  <2> QED
    BY <1>3, <2>2, <2>3, <2>6, <2>7, Zenon
<1> QED
  BY <1>6, <1>7

LEMMA PlayPush == IInv /\ PlayInv /\ NetPush => PlayInv'
<1> SUFFICES ASSUME IInv, PlayInv, NetPush PROVE PlayInv'
  OBVIOUS
<1> DEFINE n == IF room < PacketFrames THEN room ELSE PacketFrames
<1>0. /\ ~Tx /\ active /\ InUse /\ netPc = "push" /\ netPc' = "serve" /\ packet \in Packets
      /\ UNCHANGED <<given, book, target, oneRun, last, seen, haveSeq, nextSeq, active, workerPc>>
      /\ ring' = ring \o SubSeq(FramesOf(packet), 1, n)
  BY Zenon DEF NetPush, IInv, GateInv, RingInv, InUse, NetGoes, gate, worker, receive, history, sending
<1> DEFINE waiting == Vorbis /\ ~book
<1>20. ~waiting'
  <2>1. ~waiting
    BY <1>0 DEF PlayInv
  <2> QED
    BY <1>0, <2>1 DEF Vorbis, given
<1> HIDE DEF waiting
<1>21. target' \in Targets
  BY <1>0, Zenon DEF PlayInv
<1>1. /\ PacketFrames \in Nat \ {0} /\ packet \in Nat /\ packet >= 1 /\ n \in Nat /\ n <= PacketFrames
      /\ seen \in Nat
  BY <1>0, FramesAssumption, SMT DEF IInv, TypeOK, Packets
<1>2. ring \in Seq(Frames) /\ Len(ring) \in Nat /\ last \in Frames
  BY LenProperties DEF IInv, TypeOK
<1>3. \A x \in Frames : x \in Nat
  BY FramesAssumption, SMT DEF Frames
<1> HIDE DEF n
<1> SUFFICES ASSUME oneRun PROVE PlayInv'
  BY <1>0, <1>20, <1>21, Zenon DEF PlayInv, Tx, given, waiting
<1>4. /\ target \in Targets /\ packet = seen /\ Came = (packet - 1) * PacketFrames
      /\ last <= Came
      /\ \A i \in 1..Len(ring) : last < ring[i] /\ ring[i] <= Came
      /\ \A i, j \in 1..Len(ring) : i < j => ring[i] < ring[j]
      /\ IF haveSeq THEN seen > 0 /\ nextSeq = (SeqOf(seen) + 1) % Modulus ELSE seen = 0
  BY <1>0, Zenon DEF PlayInv, Came, Ascending
<1> DEFINE t == SubSeq(FramesOf(packet), 1, n)
<1>5. /\ t \in Seq(Frames) /\ Len(t) = n
      /\ \A i \in 1..n : t[i] = Came + i
  <2>1. FramesOf(packet) \in Seq(Frames) /\ Len(FramesOf(packet)) = PacketFrames
    BY <1>0, FramesOfPacket
  <2>2. \A i \in 1..n : FramesOf(packet)[i] \in Frames
    BY <1>1, <2>1, ElementOfSeq, SMT
  <2>3. t \in Seq(Frames) /\ Len(t) = n /\ \A i \in 1..n : t[i] = FramesOf(packet)[i]
    BY <1>1, <2>2, SubSeqProperties, SMT
  <2>4. \A i \in 1..PacketFrames : FramesOf(packet)[i] = IF oneRun THEN (packet - 1) * PacketFrames + i ELSE 0
    BY DEF FramesOf
  <2>5. \A i \in 1..n : i \in 1..PacketFrames
    BY <1>1, SMT
  <2> QED
    BY <1>4, <2>3, <2>4, <2>5, Zenon
<1>6. ring' = ring \o t
  BY <1>0
<1> HIDE DEF t
<1>7. /\ Len(ring') = Len(ring) + n
      /\ \A i \in 1..(Len(ring) + n) : ring'[i] = IF i <= Len(ring) THEN ring[i] ELSE t[i - Len(ring)]
  BY <1>2, <1>5, <1>6, ConcatProperties
<1>8. Came \in Nat /\ Came' = Came + PacketFrames /\ Came' \in Nat
  <2>1. Came' = packet * PacketFrames
    BY <1>0, <1>4 DEF Came
  <2>2. packet - 1 \in Nat /\ packet * PacketFrames = (packet - 1) * PacketFrames + PacketFrames
    BY <1>1, SMT
  <2>3. (packet - 1) * PacketFrames \in Nat
    BY <1>1, <2>2, SMT
  <2> QED
    BY <1>1, <1>4, <2>1, <2>2, <2>3, SMT
<1>9. \A i \in 1..Len(ring') :
         \/ i \in 1..Len(ring) /\ ring'[i] = ring[i]
         \/ i - Len(ring) \in 1..n /\ i > Len(ring) /\ ring'[i] = Came + (i - Len(ring))
  <2> SUFFICES ASSUME NEW i \in 1..Len(ring')
               PROVE  \/ i \in 1..Len(ring) /\ ring'[i] = ring[i]
                      \/ i - Len(ring) \in 1..n /\ i > Len(ring) /\ ring'[i] = Came + (i - Len(ring))
    OBVIOUS
  <2>1. CASE i <= Len(ring)
    BY <1>1, <1>2, <1>7, <2>1, SMT
  <2>2. CASE i > Len(ring)
    <3>1. i - Len(ring) \in 1..n /\ ring'[i] = t[i - Len(ring)]
      BY <1>1, <1>2, <1>7, <2>2, SMT
    <3> QED
      BY <1>5, <2>2, <3>1, Zenon
  <2> QED
    BY <1>1, <1>2, <1>7, <2>1, <2>2, SMT
<1>10. \A i \in 1..Len(ring) : ring[i] \in Nat
  BY <1>2, <1>3, ElementOfSeq
<1>11. \A i \in 1..Len(ring') : last < ring'[i] /\ ring'[i] <= Came'
  <2> SUFFICES ASSUME NEW i \in 1..Len(ring') PROVE last < ring'[i] /\ ring'[i] <= Came'
    OBVIOUS
  <2>0. last \in Nat /\ last <= Came
    BY <1>2, <1>3, <1>4
  <2>1. CASE i \in 1..Len(ring) /\ ring'[i] = ring[i]
    <3>1. ring[i] \in Nat /\ last < ring[i] /\ ring[i] <= Came
      BY <1>4, <1>10, <2>1
    <3> QED
      BY <1>1, <1>8, <2>0, <2>1, <3>1, SMT
  <2>2. CASE i - Len(ring) \in 1..n /\ i > Len(ring) /\ ring'[i] = Came + (i - Len(ring))
    BY <1>1, <1>2, <1>8, <2>0, <2>2, SMT
  <2> QED
    BY <1>9, <2>1, <2>2
<1>12. \A i, j \in 1..Len(ring') : i < j => ring'[i] < ring'[j]
  <2> SUFFICES ASSUME NEW i \in 1..Len(ring'), NEW j \in 1..Len(ring'), i < j PROVE ring'[i] < ring'[j]
    OBVIOUS
  <2>1. CASE j \in 1..Len(ring) /\ ring'[j] = ring[j]
    <3>1. i \in 1..Len(ring) /\ ring'[i] = ring[i]
      BY <1>1, <1>2, <1>7, <2>1, SMT
    <3> QED
      BY <1>4, <2>1, <3>1
  <2>2. CASE j - Len(ring) \in 1..n /\ j > Len(ring) /\ ring'[j] = Came + (j - Len(ring))
    <3>1. CASE i \in 1..Len(ring) /\ ring'[i] = ring[i]
      <4>1. ring[i] <= Came /\ ring[i] \in Nat
        BY <1>4, <1>10, <3>1
      <4> QED
        BY <1>1, <1>2, <1>8, <2>2, <3>1, <4>1, SMT
    <3>2. CASE ring'[i] = Came + (i - Len(ring))
      BY <1>1, <1>2, <1>8, <2>2, <3>2, <1>7, SMT
    <3> QED
      BY <1>9, <3>1, <3>2
  <2> QED
    BY <1>9, <2>1, <2>2
<1>13. last' <= Came'
  BY <1>0, <1>1, <1>2, <1>3, <1>4, <1>8, SMT
<1>14. SeqOf(seen)' = SeqOf(seen)
  BY <1>0 DEF SeqOf, given
<1> QED
  BY <1>0, <1>4, <1>20, <1>21, <1>11, <1>12, <1>13, <1>14, Zenon DEF PlayInv, Ascending, waiting

\* What a tick takes: all of its frames, from the front of what is kept.
LEMMA PlayTake ==
  ASSUME TargetsCoverTicks, IInv, PlayInv, WorkerTake
  PROVE  PlayInv' /\ (oneRun => Ascending(<<last>> \o scratch'))
<1>0. /\ ~Tx /\ InUse /\ workerPc = "take"
      /\ avail >= TickFrames /\ avail <= Len(ring) /\ avail \in Nat
      /\ UNCHANGED <<given, book, target, oneRun, seen, haveSeq, nextSeq, packet, netPc>>
  BY FramesAssumption, SMT
  DEF WorkerTake, IInv, TypeOK, RingInv, InUse, Inside, WorkerGoes, net, receive, history, sending
<1>1. /\ TickFrames \in Nat \ {0} /\ target \in Nat /\ target >= TickFrames /\ target \in Targets
  <2>1. target \in Targets
    BY <1>0, Zenon DEF PlayInv
  <2>2. TickFrames \in Nat \ {0} /\ Targets \subseteq Nat
    BY FramesAssumption
  <2> QED
    BY <2>1, <2>2 DEF TargetsCoverTicks
<1>2. ring \in Seq(Frames) /\ Len(ring) \in Nat /\ last \in Frames
  BY LenProperties DEF IInv, TypeOK
<1>3. \A x \in Frames : x \in Nat
  BY FramesAssumption, SMT DEF Frames
<1> DEFINE waiting == Vorbis /\ ~book
<1>20. ~waiting'
  <2>1. ring # <<>>
    BY <1>0, <1>1, SMT
  <2>2. ~waiting
    BY <1>0, <2>1 DEF PlayInv
  <2> QED
    BY <1>0, <2>2 DEF Vorbis, given
<1> HIDE DEF waiting
<1>4. PICK m \in Nat : /\ Kept \in Seq(Frames) /\ m + Len(Kept) = Len(ring) /\ Len(Kept) \in Nat
                       /\ Len(Kept) >= TickFrames
                       /\ \A i \in 1..Len(Kept) : Kept[i] = ring[i + m]
  <2>1. CASE avail > 2 * target + 2 * TickFrames
    <3> DEFINE m == avail - target
    <3>1. m \in Nat /\ m <= Len(ring) /\ Len(ring) - m \in Nat /\ Len(ring) - m >= TickFrames
      BY <1>0, <1>1, <1>2, <2>1, SMT
    <3>2. Kept = SubSeq(ring, m + 1, Len(ring))
      BY <2>1 DEF Kept
    <3> HIDE DEF m
    <3>3. /\ Kept \in Seq(Frames) /\ Len(Kept) = Len(ring) - m
          /\ \A i \in 1..(Len(ring) - m) : Kept[i] = ring[i + m]
      BY <1>2, <3>1, <3>2, TailOfFrames, TailElements
    <3>4. m + Len(Kept) = Len(ring)
      BY <1>2, <3>1, <3>3, SMT
    <3> QED
      BY <3>1, <3>3, <3>4
  <2>2. CASE ~(avail > 2 * target + 2 * TickFrames)
    <3>1. Kept = ring
      BY <2>2 DEF Kept
    <3>2. 0 + Len(ring) = Len(ring) /\ Len(ring) >= TickFrames /\ \A i \in 1..Len(ring) : i + 0 = i
      BY <1>0, <1>1, <1>2, SMT
    <3> QED
      BY <1>2, <3>1, <3>2
  <2> QED
    BY <2>1, <2>2
<1>5. /\ scratch' = SubSeq(Kept, 1, TickFrames) \o SubSeq(scratch, TickFrames + 1, TickFrames)
      /\ ring' = SubSeq(Kept, TickFrames + 1, Len(Kept))
      /\ last' = IF oneRun THEN scratch'[TickFrames] ELSE 0
  <2> DEFINE n == IF Len(Kept) < TickFrames THEN Len(Kept) ELSE TickFrames
  <2>1. n = TickFrames
    BY <1>1, <1>4, SMT
  <2>2. /\ scratch' = SubSeq(Kept, 1, n) \o SubSeq(scratch, n + 1, TickFrames)
        /\ ring' = SubSeq(Kept, n + 1, Len(Kept))
        /\ last' = IF oneRun THEN scratch'[TickFrames] ELSE 0
    BY Zenon DEF WorkerTake
  <2> HIDE DEF n
  <2> QED
    BY <2>1, <2>2
<1>6. Len(scratch') = TickFrames /\ \A i \in 1..TickFrames : scratch'[i] = ring[i + m]
  <2> DEFINE a == SubSeq(Kept, 1, TickFrames)
             b == SubSeq(scratch, TickFrames + 1, TickFrames)
  <2>1. \A i \in 1..TickFrames : Kept[i] \in Frames
    BY <1>1, <1>4, ElementOfSeq, SMT
  <2>2. a \in Seq(Frames) /\ Len(a) = TickFrames /\ \A i \in 1..TickFrames : a[i] = Kept[i]
    BY <1>1, <2>1, SubSeqProperties, SMT
  <2>3. scratch \in Seq(Frames) /\ Len(scratch) = TickFrames
    BY <1>1, LenProperties, SeqDef, SMT DEF IInv, TypeOK
  <2>4. b \in Seq(Frames) /\ Len(b) = 0
    <3>1. \A i \in (TickFrames + 1)..TickFrames : scratch[i] \in Frames
      BY <1>1, SMT
    <3> QED
      BY <1>1, <3>1, SubSeqProperties, SMT
  <2>5. scratch' = a \o b
    BY <1>5
  <2> HIDE DEF a, b
  <2>6. /\ Len(scratch') = Len(a) + Len(b)
        /\ \A i \in 1..(Len(a) + Len(b)) : scratch'[i] = IF i <= Len(a) THEN a[i] ELSE b[i - Len(a)]
    BY <2>2, <2>4, <2>5, ConcatProperties
  <2>7. Len(scratch') = TickFrames /\ \A i \in 1..TickFrames : scratch'[i] = a[i]
    BY <1>1, <2>2, <2>4, <2>6, SMT
  <2>8. \A i \in 1..TickFrames : i \in 1..Len(Kept)
    BY <1>1, <1>4, SMT
  <2> QED
    BY <1>4, <2>2, <2>7, <2>8, Zenon
<1>7. /\ Len(ring') = Len(Kept) - TickFrames /\ Len(ring') \in Nat
      /\ \A i \in 1..Len(ring') : ring'[i] = ring[i + (TickFrames + m)] /\ i + (TickFrames + m) \in 1..Len(ring)
  <2>1. /\ Len(ring') = Len(Kept) - TickFrames
        /\ \A i \in 1..(Len(Kept) - TickFrames) : ring'[i] = Kept[i + TickFrames]
    BY <1>1, <1>4, <1>5, TailOfFrames, TailElements
  <2>2. Len(ring') \in Nat
    BY <1>1, <1>4, <2>1, SMT
  <2>3. \A i \in 1..Len(ring') : /\ i + TickFrames \in 1..Len(Kept) /\ i + TickFrames + m = i + (TickFrames + m)
                                 /\ i + (TickFrames + m) \in 1..Len(ring)
    BY <1>1, <1>2, <1>4, <2>1, <2>2, SMT
  <2> QED
    BY <1>4, <2>1, <2>2, <2>3
<1>8. CASE ~oneRun
  <2>1. ~oneRun' /\ ~Tx' /\ target' \in Targets
    BY <1>0, <1>1, <1>8 DEF Tx, given
  <2> QED
    BY <1>8, <1>20, <2>1 DEF PlayInv, waiting
<1>9. CASE oneRun
  <2>1. /\ last <= Came
        /\ \A i \in 1..Len(ring) : last < ring[i] /\ ring[i] <= Came
        /\ \A i, j \in 1..Len(ring) : i < j => ring[i] < ring[j]
        /\ netPc = "push" => packet = seen
        /\ IF haveSeq THEN seen > 0 /\ nextSeq = (SeqOf(seen) + 1) % Modulus ELSE seen = 0
    BY <1>0, <1>9, Zenon DEF PlayInv, Ascending
  <2>2. \A i \in 1..TickFrames : i + m \in 1..Len(ring)
    BY <1>1, <1>2, <1>4, SMT
  <2>3. last' = ring[TickFrames + m] /\ TickFrames + m \in 1..Len(ring)
    BY <1>1, <1>5, <1>6, <1>9, <2>2, SMT
  <2>4. Came' = Came /\ SeqOf(seen)' = SeqOf(seen)
    BY <1>0 DEF Came, SeqOf, given
  <2>5. last' <= Came
    BY <2>1, <2>3
  <2>6. \A i \in 1..Len(ring') : last' < ring'[i] /\ ring'[i] <= Came
    <3> SUFFICES ASSUME NEW i \in 1..Len(ring') PROVE last' < ring'[i] /\ ring'[i] <= Came
      OBVIOUS
    <3>1. ring'[i] = ring[i + (TickFrames + m)] /\ i + (TickFrames + m) \in 1..Len(ring)
      BY <1>7
    <3>2. TickFrames + m < i + (TickFrames + m)
      BY <1>1, <1>4, <1>7, SMT
    <3> QED
      BY <2>1, <2>3, <3>1, <3>2
  <2>7. \A i, j \in 1..Len(ring') : i < j => ring'[i] < ring'[j]
    <3> SUFFICES ASSUME NEW i \in 1..Len(ring'), NEW j \in 1..Len(ring'), i < j PROVE ring'[i] < ring'[j]
      OBVIOUS
    <3>1. i + (TickFrames + m) < j + (TickFrames + m)
      BY <1>1, <1>4, <1>7, SMT
    <3> QED
      BY <1>7, <2>1, <3>1
  <2>8. PlayInv'
    <3>1. oneRun' /\ ~Tx' /\ target' \in Targets
      BY <1>0, <1>1, <1>9 DEF Tx, given
    <3> QED
      BY <1>0, <1>20, <2>1, <2>4, <2>5, <2>6, <2>7, <3>1, Zenon DEF PlayInv, Ascending, waiting
  <2>9. Ascending(<<last>> \o scratch')
    <3> DEFINE t == <<last>> \o scratch'
    <3>1. scratch' \in Seq(Frames)
      <4>1. IInv'
        BY WorkerTakeStep
      <4>2. scratch' \in [1..TickFrames -> Frames]
        BY <4>1, Zenon DEF IInv, TypeOK
      <4> QED
        BY <1>1, <4>2, SeqDef
    <3>2. <<last>> \in Seq(Frames) /\ Len(<<last>>) = 1 /\ <<last>>[1] = last
      BY <1>2
    <3>3. /\ Len(t) = 1 + TickFrames
          /\ \A i \in 1..(1 + TickFrames) : t[i] = IF i <= 1 THEN <<last>>[i] ELSE scratch'[i - 1]
      BY <1>6, <3>1, <3>2, ConcatProperties
    <3> HIDE DEF t
    <3> SUFFICES ASSUME NEW i \in 1..Len(t), NEW j \in 1..Len(t), i < j PROVE t[i] < t[j]
      BY DEF Ascending, t
    <3>4. j - 1 \in 1..TickFrames /\ t[j] = scratch'[j - 1]
      BY <1>1, <3>3, SMT
    <3>5. t[j] = ring[j - 1 + m] /\ j - 1 + m \in 1..Len(ring)
      BY <1>6, <2>2, <3>4
    <3>6. CASE i = 1
      <4>1. t[i] = last
        BY <1>1, <3>2, <3>3, <3>6, SMT
      <4> QED
        BY <2>1, <3>5, <4>1
    <3>7. CASE i # 1
      <4>1. i - 1 \in 1..TickFrames
        BY <1>1, <3>3, <3>7, SMT
      <4>2. t[i] = scratch'[i - 1]
        <5>1. i \in 1..(1 + TickFrames) /\ ~(i <= 1)
          BY <1>1, <3>3, <3>7, SMT
        <5> QED
          BY <3>3, <5>1
      <4>3. t[i] = ring[i - 1 + m] /\ i - 1 + m \in 1..Len(ring)
        BY <1>6, <2>2, <4>1, <4>2
      <4>4. i - 1 + m < j - 1 + m
        <5>1. i \in Nat /\ j \in Nat /\ m \in Nat
          BY <1>1, <1>4, <3>3, SMT
        <5> QED
          BY <5>1, SMT
      <4> QED
        BY <2>1, <3>5, <4>3, <4>4
    <3> QED
      BY <3>6, <3>7
  <2> QED
    BY <2>8, <2>9
<1> QED
  BY <1>8, <1>9

LEMMA PlayStep ==
  ASSUME TargetsCoverTicks, IInv, PlayInv, [Next]_vars
  PROVE  PlayInv'
<1> USE DEF given, sending, config, gate, receive, history, net, worker, NetGoes, WorkerGoes
<1>1. CASE Save
  BY <1>1, PlayKept, Zenon DEF Save, InUse, Inside
<1>2. CASE NetTop
  BY <1>2, PlayKept, Zenon DEF NetTop, InUse, Inside
<1>3. CASE NetApply
  BY <1>3, PlayKept DEF NetApply, InUse, Inside
<1>4. CASE NetClosed
  BY <1>4, PlayClosed
<1>5. CASE NetOpen
  BY <1>5, PlayOpen
<1>6. CASE Network
  BY <1>6, PlayReceive, PlayCodebook DEF Network
<1>7. CASE NetPush
  BY <1>7, PlayPush
<1>8. CASE NetSend \/ NetBook \/ NetEncode \/ WorkerGather \/ WorkerPut
  <2>1. Tx'
    BY <1>8, Zenon DEF NetSend, NetBook, NetEncode, WorkerGather, WorkerPut, IInv, RingInv, Tx
  <2> QED
    BY <2>1 DEF PlayInv
<1>9. CASE NetDrained
  BY <1>9, PlayKept, Zenon DEF NetDrained, InUse, Inside
<1>10. CASE WorkerChange
  BY <1>10, PlayKept, Zenon DEF WorkerChange, InUse, Inside
<1>11. CASE WorkerTick \/ WorkerBusy
  <2>1. InUse' => InUse
    BY <1>11 DEF WorkerTick, WorkerBusy, InUse, Inside
  <2>2. CASE WorkerTick
    BY <2>1, <2>2, PlayKept, Zenon DEF WorkerTick
  <2>3. CASE WorkerBusy
    BY <2>1, <2>3, PlayKept, Zenon DEF WorkerBusy
  <2> QED
    BY <1>11, <2>2, <2>3
<1>12. CASE WorkerEnter
  <2>1. InUse' => InUse
    BY <1>12 DEF WorkerEnter, InUse, Inside, Entered
  <2> QED
    BY <1>12, <2>1, PlayKept, Zenon DEF WorkerEnter
<1>13. CASE WorkerLook
  <2>1. InUse' => InUse
    BY <1>13 DEF WorkerLook, InUse, Inside
  <2> QED
    BY <1>13, <2>1, PlayKept, Zenon DEF WorkerLook
<1>14. CASE WorkerTake
  BY <1>14, PlayTake
<1>15. CASE WorkerLeave
  BY <1>15, PlayKept, Zenon DEF WorkerLeave, InUse, Inside
<1>16. CASE UNCHANGED vars
  BY <1>16, PlayKept, Zenon DEF vars, InUse, Inside
<1> QED
  BY <1>1, <1>2, <1>3, <1>4, <1>5, <1>6, <1>7, <1>8, <1>9, <1>10, <1>11, <1>12, <1>13, <1>14, <1>15, <1>16, Zenon
  DEF Next, NetThread, Worker

\* The packet a Tx stream sends goes on after the last one.
LEMMA SendsInOrder ==
  ASSUME IInv, NetSend
  PROVE  /\ Ascending(<<last>> \o NextPacket)
         /\ whole => NextPacket = FramesOf(sequence + 1)
<1>0. /\ Tx /\ active /\ ring \in Seq(Frames) /\ Len(ring) \in Nat /\ PacketFrames \in Nat \ {0}
      /\ PacketFrames <= Len(ring) /\ last \in Frames
  BY FramesAssumption, LenProperties, SMT DEF IInv, TypeOK, NetSend, Tx
<1>1. \A i \in 1..PacketFrames : ring[i] \in Frames
  BY <1>0, ElementOfSeq, SMT
<1>2. /\ NextPacket \in Seq(Frames) /\ Len(NextPacket) = PacketFrames
      /\ \A i \in 1..PacketFrames : NextPacket[i] = ring[i]
  BY <1>0, <1>1, SubSeqProperties, SMT DEF NextPacket
<1>3. /\ oneRun
      /\ \A i \in 1..Len(ring) : last < ring[i]
      /\ \A i, j \in 1..Len(ring) : i < j => ring[i] < ring[j]
      /\ whole => \A i \in 1..Len(ring) : ring[i] = last + i
  BY <1>0, Zenon DEF IInv, SendInv, Ascending
<1>4. Ascending(<<last>> \o NextPacket)
  <2> DEFINE t == <<last>> \o NextPacket
  <2>1. <<last>> \in Seq(Frames) /\ Len(<<last>>) = 1 /\ <<last>>[1] = last
    BY <1>0
  <2>2. /\ Len(t) = 1 + PacketFrames
        /\ \A i \in 1..(1 + PacketFrames) : t[i] = IF i <= 1 THEN <<last>>[i] ELSE NextPacket[i - 1]
    BY <1>2, <2>1, ConcatProperties
  <2> HIDE DEF t
  <2>3. t[1] = last /\ \A i \in 2..(1 + PacketFrames) : t[i] = ring[i - 1]
    BY <1>0, <1>2, <2>1, <2>2, SMT
  <2>4. \A i, j \in 1..Len(t) : i < j => t[i] < t[j]
    <3> SUFFICES ASSUME NEW i \in 1..Len(t), NEW j \in 1..Len(t), i < j PROVE t[i] < t[j]
      OBVIOUS
    <3>1. j - 1 \in 1..Len(ring) /\ t[j] = ring[j - 1]
      BY <1>0, <2>2, <2>3, SMT
    <3>2. CASE i = 1
      BY <1>3, <2>3, <3>1, <3>2
    <3>3. CASE i # 1
      <4>1. i - 1 \in 1..Len(ring) /\ i - 1 < j - 1 /\ t[i] = ring[i - 1]
        BY <1>0, <2>2, <2>3, <3>3, SMT
      <4> QED
        BY <1>3, <3>1, <4>1
    <3> QED
      BY <3>2, <3>3
  <2> QED
    BY <2>4 DEF Ascending, t
<1>5. ASSUME whole, NEW k, k = sequence + 1 PROVE NextPacket = FramesOf(k)
  <2>1. last = sequence * PacketFrames /\ k \in Packets
    BY <1>5, WholePacket
  <2>2. \A i \in 1..PacketFrames : FramesOf(k)[i] = (k - 1) * PacketFrames + i
    BY <1>3 DEF FramesOf
  <2>3. k - 1 = sequence
    BY <1>5, SequenceAssumption, SMT DEF IInv, TypeOK
  <2>4. \A i \in 1..PacketFrames : FramesOf(k)[i] = NextPacket[i]
    <3> SUFFICES ASSUME NEW i \in 1..PacketFrames PROVE FramesOf(k)[i] = NextPacket[i]
      OBVIOUS
    <3>1. FramesOf(k)[i] = last + i
      BY <2>1, <2>2, <2>3
    <3>2. i \in 1..Len(ring)
      BY <1>0, SMT
    <3> QED
      BY <1>2, <1>3, <1>5, <3>1, <3>2
  <2>5. FramesOf(k) \in Seq(Frames) /\ Len(FramesOf(k)) = PacketFrames
    BY <2>1, FramesOfPacket
  <2> QED
    BY <1>2, <2>4, <2>5, SeqEqual
<1> QED
  BY <1>4, <1>5

\* A Tx stream is sent in order, and each packet carries the frames an Rx
\* stream takes its number for, as long as the ring had room (SendInv).
THEOREM Sending == Spec => SentInOrder
<1>1. IInv /\ [Next]_vars =>
        [NetSend => /\ Ascending(<<last>> \o NextPacket)
                    /\ whole => NextPacket = FramesOf(sequence + 1)]_vars
  BY SendsInOrder
<1> QED
  BY <1>1, Invariance, PTL DEF Spec, SentInOrder

\* An Rx stream is played in order, and a Tx stream sent in order, if every
\* jitter target has a tick's frames; with a smaller one a tick may end with
\* frames of the tick before it (WholeTicks).
THEOREM Ordered == ASSUME TargetsCoverTicks PROVE Spec => InOrder
<1>1. Init => IInv /\ PlayInv
  BY InitInv, PlayInit
<1>2. IInv /\ PlayInv /\ [Next]_vars => (IInv /\ PlayInv)'
  BY StepInv, PlayStep
<1>3. IInv /\ PlayInv /\ [Next]_vars => [WorkerTake /\ oneRun => Ascending(<<last>> \o scratch')]_vars
  BY PlayTake
<1>4. Spec => PlayedInOrder
  BY <1>1, <1>2, <1>3, PTL DEF Spec, PlayedInOrder
<1> QED
  BY <1>4, Sending DEF InOrder

-----------------------------------------------------------------------------
(* A Save comes to the stream: no thread loses that there was one. *)

\* A step that leaves the table, the flags and the stream's state alone keeps
\* ApplyInv, wherever the network thread goes outside of a change.
LEMMA ApplyKept ==
  ASSUME ApplyInv,
         UNCHANGED <<kind, table, tableChanged, reconfigure, active, encoder, want, target>>,
         netPc' = netPc \/ {netPc, netPc'} \subseteq {"top", "serve", "push"}
  PROVE  ApplyInv'
BY SMT DEF ApplyInv, SaveNoted, Tx

\* NetTop clears the flag on its way to read the table.
LEMMA ApplyTop == IInv /\ ApplyInv /\ NetTop => ApplyInv'
BY SMT DEF NetTop, NetGoes, FlagAfter, ApplyInv, SaveNoted, Tx, IInv, TypeOK,
   given, sending, gate, receive, history

\* NetApply takes the table as it is then, or finds the stream to be so.
LEMMA ApplyApply == IInv /\ ApplyInv /\ NetApply => ApplyInv'
<1> SUFFICES ASSUME IInv, ApplyInv, NetApply PROVE ApplyInv'
  OBVIOUS
<1> USE DEF NetApply, NetGoes, given, sending
<1>1. active \in BOOLEAN /\ encoder \in BOOLEAN /\ table.on \in BOOLEAN
  BY DEF IInv, TypeOK, Tables
<1>2. CASE Same
  <2>1. UNCHANGED <<kind, table, active, encoder, target>> /\ netPc' = "serve"
    BY <1>2, Zenon
  <2>2. active = (table.on /\ encoder) /\ (active /\ ~Tx => target = table.target)
    BY <1>1, <1>2, Zenon DEF Same, ApplyInv
  <2> QED
    BY <2>1, <2>2, SMT DEF ApplyInv, SaveNoted, Tx
<1>3. CASE ~Same
  BY <1>3, SMT DEF ApplyInv, SaveNoted
<1> QED
  BY <1>2, <1>3

LEMMA ApplyClosed == IInv /\ ApplyInv /\ NetClosed => ApplyInv'
BY SMT DEF NetClosed, NetGoes, ApplyInv, SaveNoted, Tx, IInv, GateInv,
   given, sending, config, gate, history, worker

\* NetOpen opens what the change that began asked for.
LEMMA ApplyOpen == IInv /\ ApplyInv /\ NetOpen => ApplyInv'
<1> SUFFICES ASSUME IInv, ApplyInv, NetOpen PROVE ApplyInv'
  OBVIOUS
<1>1. UNCHANGED <<kind, table, tableChanged, reconfigure, want, target>>
  BY Zenon DEF NetOpen, given, receive, FlagAfter
<1>2. netPc = "alloc" /\ netPc' = "serve"
  BY Zenon DEF NetOpen, NetGoes
<1>3. active' = (want.on /\ encoder')
  BY Zenon DEF NetOpen
<1>4. ~tableChanged /\ ~reconfigure => want = table
  BY <1>2, SMT DEF ApplyInv, SaveNoted
<1>5. ~Tx => target = want.target
  BY <1>2, Zenon DEF ApplyInv
<1>6. SaveNoted'
  BY <1>1, <1>2, <1>3, <1>4, <1>5, SMT DEF SaveNoted, Tx
<1>7. active' => encoder'
  BY <1>3, Zenon
<1> QED
  BY <1>2, <1>6, <1>7 DEF ApplyInv

LEMMA ApplyStep ==
  ASSUME IInv, ApplyInv, [Next]_vars
  PROVE  ApplyInv'
<1> USE DEF given, sending, config, gate, receive, history, net, worker, NetGoes, WorkerGoes
<1>1. CASE Save
  BY <1>1, SMT DEF Save, ApplyInv, SaveNoted, Tx
<1>2. CASE NetTop
  BY <1>2, ApplyTop
<1>3. CASE NetApply
  BY <1>3, ApplyApply
<1>4. CASE NetClosed
  BY <1>4, ApplyClosed
<1>5. CASE NetOpen
  BY <1>5, ApplyOpen
<1>6. CASE Network
  <2>1. ASSUME NEW k \in Packets, NetReceive(k) PROVE ApplyInv'
    BY <2>1, ApplyKept, SMT DEF NetReceive
  <2>2. CASE NetCodebook
    BY <2>2, ApplyKept, Zenon DEF NetCodebook
  <2> QED
    BY <1>6, <2>1, <2>2 DEF Network
<1>7. CASE NetPush
  BY <1>7, ApplyKept, SMT DEF NetPush
<1>8. CASE NetSend \/ NetBook \/ NetEncode
  BY <1>8, ApplyKept, Zenon DEF NetSend, NetBook, NetEncode
<1>9. CASE NetDrained
  BY <1>9, ApplyKept, SMT DEF NetDrained
<1>10. CASE WorkerChange
  BY <1>10, SMT DEF WorkerChange, ApplyInv, SaveNoted, Tx
<1>11. CASE Worker
  BY <1>11, ApplyKept, Zenon
  DEF Worker, WorkerTick, WorkerBusy, WorkerEnter, WorkerLook, WorkerTake, WorkerGather, WorkerPut,
      WorkerLeave
<1>12. CASE UNCHANGED vars
  BY <1>12, ApplyKept, Zenon DEF vars
<1> QED
  BY <1>1, <1>2, <1>3, <1>4, <1>5, <1>6, <1>7, <1>8, <1>9, <1>10, <1>11, <1>12, Zenon
  DEF Next, NetThread

\* A Save that meets the network thread anywhere in a change is seen by it or
\* still flagged (reconfigure.exchange before ApplyConfig reads the table).
THEOREM SavesAreNoted == Spec => []SaveNoted
<1>1. Init => IInv /\ ApplyInv
  BY InitInv, SMT DEF Init, ApplyInv, SaveNoted
<1>2. IInv /\ ApplyInv /\ [Next]_vars => (IInv /\ ApplyInv)'
  BY StepInv, ApplyStep
<1>3. ApplyInv => SaveNoted
  BY DEF ApplyInv
<1> QED
  BY <1>1, <1>2, <1>3, PTL DEF Spec

===============================================================================
