----------------------------- MODULE CableProofs -----------------------------
(***************************************************************************)
(* Proofs about the Virtual Cable: the cells of a ring of any size give    *)
(* their frames as a queue would (CableRing); a latency grows only within  *)
(* what the cable allows (VirtualCable); and, for every set of formats and *)
(* settings, the driver's events outlive their use, the follower its Worker*)
(* never, and no stream goes on in a format the cable no longer has        *)
(* without Windows being told (CableEndpoints).                            *)
(***************************************************************************)
EXTENDS VirtualCable, CableEndpoints, SequenceTheorems, TLAPS

-----------------------------------------------------------------------------
(***************************************************************************)
(* The cells of a ring.                                                    *)
(***************************************************************************)

LEMMA CountsAre ==
  ASSUME NEW c \in Counts
  PROVE  /\ c.fill \in 0..Frames /\ c.primed \in BOOLEAN /\ c.extra \in Nat /\ c.over \in Nat
         /\ Frames \in Nat \ {0} /\ TrimAfter \in Nat \ {0}
  BY RingAssumption DEF Counts

\* Going round the ring in two parts comes to the same cell as in one.
LEMMA CellRound ==
  ASSUME NEW at \in 0..(Frames - 1), NEW m \in 0..Frames
  PROVE  /\ Cell(at, m) \in 0..(Frames - 1)
         /\ \A n \in 0..Frames : m + n <= Frames => Cell(Cell(at, m), n) = Cell(at, m + n)
  BY RingAssumption DEF Cell

\* The frames queued are a sequence.
LEMMA ContentIs ==
  ASSUME NEW Data, NEW r \in Rings(Data)
  PROVE  /\ Content(r) \in Seq(Data) /\ Len(Content(r)) = r.counts.fill
         /\ \A i \in 1..r.counts.fill : Content(r)[i] = r.data[Cell(r.read, i - 1)]
<1>1. r.counts \in Counts /\ r.read \in 0..(Frames - 1) /\ r.data \in [0..(Frames - 1) -> Data]
  BY DEF Rings
<1>2. r.counts.fill \in 0..Frames /\ r.counts.fill \in Nat /\ Frames \in Nat
  BY <1>1, CountsAre
<1>3. \A i \in 1..r.counts.fill : r.data[Cell(r.read, i - 1)] \in Data
  <2>1. SUFFICES ASSUME NEW i \in 1..r.counts.fill PROVE r.data[Cell(r.read, i - 1)] \in Data
    OBVIOUS
  <2>2. i - 1 \in 0..Frames
    BY <1>2
  <2>3. Cell(r.read, i - 1) \in 0..(Frames - 1)
    BY <1>1, <2>2, CellRound
  <2>. QED BY <1>1, <2>3
<1>. QED BY <1>2, <1>3, IsASeq DEF Content

\* Dropping frames leaves the newest of those queued (readPos_, queued_).
LEMMA DroppedContent ==
  ASSUME NEW Data, NEW r \in Rings(Data), NEW c \in Counts, c.fill <= r.counts.fill
  PROVE  /\ Dropped(r, c) \in Rings(Data) /\ Dropped(r, c).counts = c
         /\ Dropped(r, c).data = r.data
         /\ \A i \in 1..c.fill : Content(Dropped(r, c))[i] = Content(r)[r.counts.fill - c.fill + i]
<1>. DEFINE d == Dropped(r, c)
            k == r.counts.fill - c.fill
<1>1. r.counts \in Counts /\ r.read \in 0..(Frames - 1) /\ r.data \in [0..(Frames - 1) -> Data]
  BY DEF Rings
<1>2. r.counts.fill \in 0..Frames /\ c.fill \in 0..Frames /\ Frames \in Nat
  BY <1>1, CountsAre
<1>3. k \in 0..Frames
  BY <1>2
<1>4. Cell(r.read, k) \in 0..(Frames - 1)
  BY <1>1, <1>3, CellRound
<1>5. d.data = r.data /\ d.read = Cell(r.read, k) /\ d.counts = c
  BY DEF Dropped, Rings
<1>6. d \in Rings(Data)
  BY <1>1, <1>4 DEF Dropped, Rings
<1>7. ASSUME NEW i \in 1..c.fill PROVE Content(d)[i] = Content(r)[k + i]
  <2>1. i - 1 \in 0..Frames /\ k + (i - 1) <= Frames /\ k + i \in 1..r.counts.fill /\ (k + i) - 1 = k + (i - 1)
    BY <1>2, <1>3
  <2>2. Cell(Cell(r.read, k), i - 1) = Cell(r.read, k + (i - 1))
    BY <1>1, <1>3, <2>1, CellRound
  <2>3. Content(d)[i] = r.data[Cell(Cell(r.read, k), i - 1)]
    <3>. HIDE DEF d
    <3>. QED BY <1>5, <1>6, ContentIs
  <2>4. Content(r)[k + i] = r.data[Cell(r.read, (k + i) - 1)]
    <3>. DEFINE j == k + i
    <3>. HIDE DEF j
    <3>1. Content(r)[j] = r.data[Cell(r.read, j - 1)]
      BY <2>1, ContentIs DEF j
    <3>. QED BY <2>1, <3>1 DEF j
  <2>. QED BY <2>1, <2>2, <2>3, <2>4
<1>. HIDE DEF d
<1>. QED BY <1>5, <1>6, <1>7 DEF d

\* How far a cell is from the first free one, round the ring (end is that of fill frames).
Nth(cell, end) == IF cell >= end THEN cell - end + 1 ELSE cell - end + 1 + Frames

LEMMA NthCell ==
  ASSUME NEW at \in 0..(Frames - 1), NEW fill \in 0..Frames, NEW i \in 1..Frames
  PROVE  Nth(Cell(at, i - 1), Cell(at, fill)) = IF i <= fill THEN Frames - fill + i ELSE i - fill
<1>1. Frames \in Nat \ {0}
  BY RingAssumption
<1>2. CASE at + fill < Frames
  <2>1. Cell(at, fill) = at + fill
    BY <1>2 DEF Cell
  <2>2. CASE at + (i - 1) < Frames
    BY <1>1, <1>2, <2>1, <2>2 DEF Cell, Nth
  <2>3. CASE ~(at + (i - 1) < Frames)
    BY <1>1, <1>2, <2>1, <2>3 DEF Cell, Nth
  <2>. QED BY <2>2, <2>3
<1>3. CASE ~(at + fill < Frames)
  <2>1. Cell(at, fill) = at + fill - Frames
    BY <1>3 DEF Cell
  <2>2. CASE at + (i - 1) < Frames
    BY <1>1, <1>3, <2>1, <2>2 DEF Cell, Nth
  <2>3. CASE ~(at + (i - 1) < Frames)
    BY <1>1, <1>3, <2>1, <2>3 DEF Cell, Nth
  <2>. QED BY <2>2, <2>3
<1>. QED BY <1>2, <1>3

\* Put leaves what is queued and has src behind it.
LEMMA PutContent ==
  ASSUME NEW Data, NEW r \in Rings(Data), NEW src \in Seq(Data),
         r.counts.fill + Len(src) <= Frames
  PROVE  /\ Put(r, src) \in Rings(Data)
         /\ Put(r, src).counts = [r.counts EXCEPT !.fill = @ + Len(src)]
         /\ Content(Put(r, src)) = Content(r) \o src
<1>. DEFINE fill == r.counts.fill
            end == Cell(r.read, fill)
            data == [cell \in 0..(Frames - 1) |->
                       IF Nth(cell, end) <= Len(src) THEN src[Nth(cell, end)] ELSE r.data[cell]]
            p == Put(r, src)
<1>1. r.counts \in Counts /\ r.read \in 0..(Frames - 1) /\ r.data \in [0..(Frames - 1) -> Data]
  BY DEF Rings
<1>2. fill \in 0..Frames /\ fill \in Nat /\ Frames \in Nat /\ Len(src) \in Nat
  BY <1>1, CountsAre
<1>3. end \in 0..(Frames - 1)
  BY <1>1, <1>2, CellRound
<1>4. ASSUME NEW cell \in 0..(Frames - 1)  PROVE Nth(cell, end) \in 1..Frames
  BY <1>2, <1>3 DEF Nth
<1>5. data \in [0..(Frames - 1) -> Data]
  <2>1. SUFFICES ASSUME NEW cell \in 0..(Frames - 1)
                 PROVE  (IF Nth(cell, end) <= Len(src) THEN src[Nth(cell, end)] ELSE r.data[cell]) \in Data
    OBVIOUS
  <2>2. Nth(cell, end) \in 1..Frames
    BY <1>4
  <2>3. Nth(cell, end) <= Len(src) => Nth(cell, end) \in 1..Len(src)
    BY <1>2, <2>2
  <2>. HIDE DEF end
  <2>. QED BY <1>1, <2>3, ElementOfSeq
<1>6. /\ p.data = data /\ p.read = r.read /\ p.counts = [r.counts EXCEPT !.fill = @ + Len(src)]
      /\ p \in [data : {data}, read : {r.read}, counts : {[r.counts EXCEPT !.fill = @ + Len(src)]}]
  BY <1>1 DEF Put, Rings, Nth
<1>. HIDE DEF p
<1>7. p.counts \in Counts /\ p.counts.fill = fill + Len(src)
  <2>1. fill + Len(src) \in 0..Frames
    BY <1>2
  <2>2. r.counts \in [fill: 0..Frames, primed: BOOLEAN, extra: Nat, over: Nat]
    BY <1>1 DEF Counts
  <2>3. /\ [r.counts EXCEPT !.fill = fill + Len(src)] \in [fill: 0..Frames, primed: BOOLEAN, extra: Nat, over: Nat]
        /\ [r.counts EXCEPT !.fill = fill + Len(src)].fill = fill + Len(src)
    BY <2>1, <2>2
  <2>. QED BY <1>6, <2>3 DEF Counts
<1>. HIDE DEF data
<1>8. p \in Rings(Data)
  BY <1>1, <1>5, <1>6, <1>7 DEF Rings
<1>9. ASSUME NEW i \in 1..(fill + Len(src))
      PROVE  Content(p)[i] = (Content(r) \o src)[i]
  <2>1. i - 1 \in 0..Frames /\ i \in 1..Frames
    BY <1>2
  <2>2. Content(p)[i] = data[Cell(r.read, i - 1)]
    <3>1. i \in 1..p.counts.fill
      BY <1>7
    <3>2. Content(p)[i] = p.data[Cell(p.read, i - 1)]
      BY <1>8, <3>1, ContentIs
    <3>. QED BY <1>6, <3>2
  <2>3. Cell(r.read, i - 1) \in 0..(Frames - 1)
    BY <1>1, <2>1, CellRound
  <2>4. CASE i <= fill
    <3>1. Nth(Cell(r.read, i - 1), end) = Frames - fill + i
      BY <1>1, <1>2, <2>1, <2>4, NthCell
    <3>2. ~(Nth(Cell(r.read, i - 1), end) <= Len(src))
      BY <1>2, <3>1
    <3>3. data[Cell(r.read, i - 1)] = r.data[Cell(r.read, i - 1)]
      BY <2>3, <3>2 DEF data
    <3>4. Content(r)[i] = r.data[Cell(r.read, i - 1)] /\ Content(r) \in Seq(Data) /\ Len(Content(r)) = fill
      BY <1>2, <2>4, ContentIs
    <3>5. (Content(r) \o src)[i] = Content(r)[i]
      BY <1>2, <2>4, <3>4, ConcatProperties
    <3>. QED BY <2>2, <3>3, <3>4, <3>5
  <2>5. CASE i > fill
    <3>1. Nth(Cell(r.read, i - 1), end) = i - fill
      BY <1>1, <1>2, <2>1, <2>5, NthCell
    <3>2. Nth(Cell(r.read, i - 1), end) <= Len(src)
      BY <1>2, <3>1
    <3>3. data[Cell(r.read, i - 1)] = src[i - fill]
      BY <2>3, <3>1, <3>2 DEF data
    <3>4. Content(r) \in Seq(Data) /\ Len(Content(r)) = fill
      BY ContentIs
    <3>5. (Content(r) \o src)[i] = src[i - fill]
      BY <1>2, <2>5, <3>4, ConcatProperties
    <3>. QED BY <2>2, <3>3, <3>5
  <2>6. i <= fill \/ i > fill
    BY <1>2, <2>1
  <2>. QED BY <2>4, <2>5, <2>6
<1>10. Content(p) \in Seq(Data) /\ Len(Content(p)) = fill + Len(src)
  BY <1>7, <1>8, ContentIs
<1>11. Content(r) \o src \in Seq(Data) /\ Len(Content(r) \o src) = fill + Len(src)
  <2>1. Content(r) \in Seq(Data) /\ Len(Content(r)) = fill
    BY ContentIs
  <2>. QED BY <2>1, ConcatProperties
<1>12. Content(p) = Content(r) \o src
  BY <1>9, <1>10, <1>11, SeqEqual
<1>. QED BY <1>6, <1>8, <1>12 DEF p

\* A write adds the frames at the end; when there are too many, the oldest are lost.
THEOREM WriteKeepsNewest ==
  ASSUME NEW Data, NEW r \in Rings(Data), NEW src \in Seq(Data)
  PROVE  /\ Write(r, src) \in Rings(Data)
         /\ Write(r, src).counts = Added(r.counts, Len(src))
         /\ Content(Write(r, src)) = Newest(Content(r) \o src)
<1>. DEFINE room == Room(r.counts, Len(src))
            d == Dropped(r, room)
            new == Newest(src)
            kept == Smaller(Len(src), Frames)
            both == Content(r) \o src
            fill == r.counts.fill
            left == room.fill
            len == Len(src)
<1>1. r.counts \in Counts /\ r.counts.fill \in 0..Frames /\ Frames \in Nat \ {0} /\ Len(src) \in Nat
  BY CountsAre DEF Rings
<1>2. kept \in 0..Frames /\ kept <= Len(src) /\ (kept = Len(src) \/ kept = Frames)
  BY <1>1 DEF Smaller
<1>3. /\ room \in Counts /\ room.fill \in 0..Frames /\ room.fill <= r.counts.fill /\ room.fill + kept <= Frames
      /\ room.fill = r.counts.fill \/ room.fill = Frames - kept
      /\ room = [r.counts EXCEPT !.fill = room.fill]
  <2>. DEFINE f == Smaller(r.counts.fill, Frames - kept)
  <2>1. f \in 0..Frames /\ f <= r.counts.fill /\ f + kept <= Frames /\ (f = r.counts.fill \/ f = Frames - kept)
    BY <1>1, <1>2 DEF Smaller
  <2>2. room = [r.counts EXCEPT !.fill = f]
    BY DEF Room
  <2>. HIDE DEF f, room
  <2>. QED BY <1>1, <2>1, <2>2 DEF Counts
<1>4. new \in Seq(Data) /\ Len(new) = kept /\ \A i \in 1..kept : new[i] = src[Len(src) - kept + i]
  <2>1. kept \in Nat
    BY <1>2
  <2>2. \A i \in 1..kept : src[Len(src) - kept + i] \in Data
    <3>1. SUFFICES ASSUME NEW i \in 1..kept PROVE src[Len(src) - kept + i] \in Data
      OBVIOUS
    <3>2. Len(src) - kept + i \in 1..Len(src)
      BY <1>1, <1>2
    <3>. QED BY <3>2, ElementOfSeq
  <2>3. new = [i \in 1..kept |-> src[Len(src) - kept + i]]
    BY DEF Newest
  <2>. HIDE DEF kept, new
  <2>4. /\ [i \in 1..kept |-> src[Len(src) - kept + i]] \in Seq(Data)
        /\ Len([i \in 1..kept |-> src[Len(src) - kept + i]]) = kept
    BY <2>1, <2>2, IsASeq
  <2>. QED BY <2>3, <2>4
<1>. HIDE DEF room, kept, new
<1>5. Frames \in Nat /\ fill \in 0..Frames /\ len \in Nat /\ kept \in 0..Frames /\ left \in 0..Frames
  BY <1>1, <1>2, <1>3
<1>6. /\ kept <= len /\ (kept = len \/ kept = Frames)
       /\ left <= fill /\ left + kept <= Frames /\ (left = fill \/ left = Frames - kept)
  BY <1>1, <1>2, <1>3
<1>7. /\ d \in Rings(Data) /\ d.counts = room
      /\ \A i \in 1..room.fill : Content(d)[i] = Content(r)[r.counts.fill - room.fill + i]
  BY <1>3, DroppedContent
<1>. HIDE DEF d
<1>8. /\ Put(d, new) \in Rings(Data)
      /\ Put(d, new).counts = [d.counts EXCEPT !.fill = @ + kept]
      /\ Content(Put(d, new)) = Content(d) \o new
  BY <1>3, <1>4, <1>7, PutContent
<1>9. Write(r, src) = Put(d, new)
  BY DEF Write, d, new, room
<1>10. Write(r, src).counts = Added(r.counts, Len(src))
  BY <1>7, <1>8, <1>9 DEF Added, room, kept
<1>11. /\ Content(d) \in Seq(Data) /\ Len(Content(d)) = left
      /\ Content(r) \in Seq(Data) /\ Len(Content(r)) = fill /\ Len(src) = len
      /\ \A i \in 1..left : Content(d)[i] = Content(r)[fill - left + i]
  BY <1>4, <1>7, ContentIs
<1>12. \A i \in 1..kept : new[i] = src[len - kept + i]
  BY <1>4
<1>. HIDE DEF fill, left, len
<1>13. Content(d) \in Seq(Data) /\ new \in Seq(Data)
  BY <1>4, <1>11
<1>14. both \in Seq(Data) /\ Len(both) = fill + len
  BY <1>11, <1>5, ConcatProperties
<1>15. Content(d) \o new \in Seq(Data) /\ Len(Content(d) \o new) = left + kept
  BY <1>4, <1>11, <1>5, ConcatProperties
<1>16. Smaller(fill + len, Frames) = left + kept
  BY <1>5, <1>6 DEF Smaller
<1>17. ASSUME NEW i \in 1..(left + kept)
       PROVE  (Content(d) \o new)[i] = both[(fill + len) - (left + kept) + i]
  <2>. DEFINE j == (fill + len) - (left + kept) + i
  <2>1. /\ j \in 1..(fill + len) /\ j \in Int /\ i \in Int
        /\ i <= left => j <= fill /\ j = fill - left + i
        /\ i > left => j > fill /\ i - left \in 1..kept /\ j - fill = (len - kept) + (i - left)
    BY <1>5, <1>6
  <2>. HIDE DEF j
  <2>2. (Content(d) \o new)[i] = IF i <= left THEN Content(d)[i] ELSE new[i - left]
    <3>1. i \in 1..(Len(Content(d)) + Len(new))
      BY <1>4, <1>11
    <3>2. (Content(d) \o new)[i] = IF i <= Len(Content(d)) THEN Content(d)[i] ELSE new[i - Len(Content(d))]
      BY <1>13, <3>1, ConcatProperties
    <3>. QED BY <1>11, <3>2
  <2>3. both[j] = IF j <= fill THEN Content(r)[j] ELSE src[j - fill]
    <3>1. j \in 1..(Len(Content(r)) + Len(src))
      BY <1>11, <2>1
    <3>2. (Content(r) \o src)[j] = IF j <= Len(Content(r)) THEN Content(r)[j] ELSE src[j - Len(Content(r))]
      BY <1>11, <3>1, ConcatProperties
    <3>. QED BY <1>11, <3>2
  <2>4. CASE i <= left
    <3>1. Content(d)[i] = Content(r)[fill - left + i]
      BY <1>11, <1>5, <2>1, <2>4
    <3>. QED BY <2>1, <2>2, <2>3, <2>4, <3>1 DEF j
  <2>5. CASE i > left
    <3>1. new[i - left] = src[len - kept + (i - left)]
      <4>1. i - left \in 1..kept
        BY <2>1, <2>5
      <4>. QED BY <1>12, <4>1
    <3>2. len - kept + (i - left) = j - fill
      BY <1>5, <2>1, <2>5
    <3>3. ~(i <= left) /\ ~(j <= fill)
      BY <1>5, <2>1, <2>5
    <3>. QED BY <2>2, <2>3, <3>1, <3>2, <3>3 DEF j
  <2>6. i <= left \/ i > left
    BY <1>5, <2>1
  <2>. QED BY <2>4, <2>5, <2>6
<1>18. Content(d) \o new = Newest(both)
  <2>. DEFINE m == left + kept
              f == Content(d) \o new
  <2>1. Newest(both) = [i \in 1..m |-> both[(fill + len) - m + i]]
    BY <1>14, <1>16 DEF Newest
  <2>2. f \in [1..m -> Data]
    BY <1>15, LenProperties
  <2>3. \A i \in 1..m : f[i] = both[(fill + len) - m + i]
    BY <1>17
  <2>. HIDE DEF f, m
  <2>4. f = [i \in 1..m |-> both[(fill + len) - m + i]]
    BY <2>2, <2>3
  <2>. QED BY <2>1, <2>4 DEF f
<1>. QED BY <1>8, <1>9, <1>10, <1>18 DEF both

-----------------------------------------------------------------------------
(***************************************************************************)
(* What a read does to the counts, for any latency and any limits.         *)
(***************************************************************************)
LEMMA ReadyCounts ==
  ASSUME NEW c \in Counts, NEW n \in Nat, NEW base \in Nat, NEW slack \in Nat
  PROVE  /\ Ready(c, n, base, slack) \in Counts
         /\ Ready(c, n, base, slack).fill <= c.fill
         /\ Ready(c, n, base, slack).extra = c.extra
<1>. DEFINE p == Prime(c, base)
            b == Begun(c, base, slack)
            t == Trimmed(b, n, base, slack)
<1>1. /\ c.fill \in 0..Frames /\ c.primed \in BOOLEAN /\ c.extra \in Nat /\ c.over \in Nat
      /\ Frames \in Nat \ {0} /\ TrimAfter \in Nat \ {0}
  BY CountsAre
<1>2. p \in 0..Frames
  BY <1>1 DEF Prime, Smaller
<1>3. /\ b \in Counts /\ b.fill <= c.fill /\ b.extra = c.extra
  <2>. DEFINE f == IF ~c.primed /\ c.fill > p + slack THEN p ELSE c.fill
  <2>1. b = [c EXCEPT !.primed = TRUE, !.fill = f]
    BY DEF Begun
  <2>. HIDE DEF p
  <2>2. f \in 0..Frames /\ f <= c.fill
    BY <1>1, <1>2
  <2>. HIDE DEF b, f
  <2>. QED BY <1>1, <2>1, <2>2 DEF Counts
<1>4. Prime(b, base) = p
  BY <1>3 DEF Prime
<1>. HIDE DEF b, p
<1>5. b.fill \in 0..Frames /\ b.over \in Nat
  BY <1>3, CountsAre
<1>6. t \in Counts /\ t.fill <= b.fill /\ t.extra = b.extra
  <2>1. CASE b.fill <= p + slack
    <3>1. t = [b EXCEPT !.over = 0]
      BY <1>4, <2>1 DEF Trimmed
    <3>. HIDE DEF t
    <3>. QED BY <1>3, <1>5, <3>1 DEF Counts
  <2>2. CASE ~(b.fill <= p + slack) /\ b.over + n < TrimAfter
    <3>1. t = [b EXCEPT !.over = b.over + n]
      BY <1>4, <2>2 DEF Trimmed
    <3>. HIDE DEF t
    <3>2. b.over + n \in Nat
      BY <1>5
    <3>. QED BY <1>3, <1>5, <3>1, <3>2 DEF Counts
  <2>3. CASE ~(b.fill <= p + slack) /\ ~(b.over + n < TrimAfter)
    <3>1. t = [b EXCEPT !.fill = p, !.over = 0]
      BY <1>4, <2>3 DEF Trimmed
    <3>. HIDE DEF t
    <3>2. p <= b.fill
      BY <1>2, <1>5, <2>3
    <3>. QED BY <1>2, <1>3, <1>5, <3>1, <3>2 DEF Counts
  <2>. QED BY <2>1, <2>2, <2>3
<1>7. Ready(c, n, base, slack) = t
  BY DEF Ready, t, b
<1>. HIDE DEF t
<1>8. t.fill \in 0..Frames
  BY <1>6, CountsAre
<1>9. t.fill <= c.fill /\ t.extra = c.extra
  BY <1>1, <1>3, <1>5, <1>6, <1>8
<1>. QED BY <1>6, <1>7, <1>9

\* A read takes its frames or all there are; its latency grows within `most` only.
LEMMA TakenCounts ==
  ASSUME NEW c \in Counts, NEW n \in Nat, NEW base \in Nat, NEW grow \in Nat, NEW most \in Int
  PROVE  LET t == Taken(c, n, base, grow, most)
         IN  /\ t \in Counts
             /\ t.fill = (IF n <= c.fill THEN c.fill - n ELSE 0) /\ t.fill <= c.fill
             /\ t.extra = c.extra \/ base + t.extra <= most
<1>. DEFINE t == Taken(c, n, base, grow, most)
            e == IF grow > 0 /\ base + c.extra + grow <= most THEN c.extra + grow ELSE c.extra
<1>1. c.fill \in 0..Frames /\ c.extra \in Nat /\ Frames \in Nat
  BY CountsAre
<1>2. CASE n <= c.fill
  <2>1. t = [c EXCEPT !.fill = c.fill - n]
    BY <1>2 DEF Taken
  <2>2. c.fill - n \in 0..Frames /\ c.fill - n <= c.fill
    BY <1>1, <1>2
  <2>. HIDE DEF t
  <2>3. t \in Counts /\ t.fill = c.fill - n /\ t.extra = c.extra
    BY <2>1, <2>2 DEF Counts
  <2>. QED BY <1>2, <2>2, <2>3 DEF t
<1>3. CASE ~(n <= c.fill)
  <2>1. t = [c EXCEPT !.fill = 0, !.primed = FALSE, !.extra = e]
    BY <1>3 DEF Taken
  <2>2. e \in Nat /\ (e = c.extra \/ base + e <= most)
    BY <1>1
  <2>. HIDE DEF t, e
  <2>3. t \in Counts /\ t.fill = 0 /\ t.extra = e
    <3>1. 0 \in 0..Frames /\ c \in [fill: 0..Frames, primed: BOOLEAN, extra: Nat, over: Nat]
      BY <1>1 DEF Counts
    <3>2. t \in [fill: 0..Frames, primed: BOOLEAN, extra: Nat, over: Nat] /\ t.fill = 0 /\ t.extra = e
      BY <2>1, <2>2, <3>1
    <3>. QED BY <3>2 DEF Counts
  <2>. QED BY <1>1, <1>3, <2>2, <2>3 DEF t
<1>. QED BY <1>2, <1>3

LEMMA ReadCounts ==
  ASSUME NEW c \in Counts, NEW n \in Nat, NEW base \in Nat, NEW slack \in Nat,
         NEW grow \in Nat, NEW most \in Int
  PROVE  LET d == AfterRead(c, n, base, slack, grow, most)
         IN  d \in Counts /\ (d.extra = c.extra \/ base + d.extra <= most)
<1>. DEFINE q == Ready(c, n, base, slack)
            t == Taken(q, n, base, grow, most)
<1>1. q \in Counts /\ q.extra = c.extra
  BY ReadyCounts
<1>. HIDE DEF q
<1>2. t \in Counts /\ (t.extra = q.extra \/ base + t.extra <= most)
  BY <1>1, TakenCounts
<1>. HIDE DEF t
<1>3. AfterRead(c, n, base, slack, grow, most) \in {c, t}
  BY DEF AfterRead, t, q
<1>. QED BY <1>1, <1>2, <1>3

-----------------------------------------------------------------------------
\* The frames a read skips, because too many are queued.
Skipped(r, n, base, slack) == r.counts.fill - Ready(r.counts, n, base, slack).fill

\* A read that may begin gives the oldest frames after those it skips, in order, and
\* silence where they end; what stays is what comes after them.  One that may not
\* begin gives silence and leaves the ring as it is.
THEOREM ReadTakesOldest ==
  ASSUME NEW Data, NEW r \in Rings(Data), NEW silence, NEW n \in Nat, NEW base \in Nat,
         NEW slack \in Nat, NEW grow \in Nat, NEW most \in Int
  PROVE  LET k == Skipped(r, n, base, slack)
             q == Content(r)
             given == Given(r, n, base, slack, silence)
             after == Read(r, n, base, slack, grow, most)
         IN  /\ after \in Rings(Data)
             /\ after.counts = AfterRead(r.counts, n, base, slack, grow, most)
             /\ Reads(r.counts, base) =>
                  /\ k \in 0..Len(q)
                  /\ given = [i \in 1..n |-> IF k + i <= Len(q) THEN q[k + i] ELSE silence]
                  /\ Content(after) = SubSeq(q, k + n + 1, Len(q))
             /\ ~Reads(r.counts, base) => given = [i \in 1..n |-> silence] /\ after = r
<1>. DEFINE q == Content(r)
            fill == r.counts.fill
            c == Ready(r.counts, n, base, slack)
            t == Taken(c, n, base, grow, most)
            left == c.fill
            rest == t.fill
            d == Dropped(r, c)
            a == Dropped(d, t)
            k == Skipped(r, n, base, slack)
            given == Given(r, n, base, slack, silence)
            after == Read(r, n, base, slack, grow, most)
<1>1. r.counts \in Counts /\ fill \in 0..Frames /\ Frames \in Nat
  BY CountsAre DEF Rings
<1>2. c \in Counts /\ left <= fill
  BY <1>1, ReadyCounts
<1>3. k = fill - left
  BY DEF Skipped
<1>4. q \in Seq(Data) /\ Len(q) = fill
  BY ContentIs
<1>. HIDE DEF c, k
<1>5. t \in Counts /\ rest = (IF n <= left THEN left - n ELSE 0) /\ rest <= left
  BY <1>2, TakenCounts
<1>. HIDE DEF t
<1>6. left \in 0..Frames /\ rest \in 0..Frames
  BY <1>2, <1>5, CountsAre
<1>7. d \in Rings(Data) /\ d.counts = c /\ \A i \in 1..left : Content(d)[i] = q[fill - left + i]
  BY <1>2, DroppedContent
<1>. HIDE DEF d
<1>8. a \in Rings(Data) /\ a.counts = t /\ \A i \in 1..rest : Content(a)[i] = Content(d)[left - rest + i]
  BY <1>5, <1>7, DroppedContent
<1>. HIDE DEF a
<1>9. Content(d) \in Seq(Data) /\ Len(Content(d)) = left /\ Content(a) \in Seq(Data) /\ Len(Content(a)) = rest
  BY <1>7, <1>8, ContentIs
<1>. HIDE DEF q, fill, left, rest
<1>10. CASE Reads(r.counts, base)
  <2>1. after = a
    BY <1>10 DEF Read, a, d, t, c
  <2>2. a.counts = AfterRead(r.counts, n, base, slack, grow, most)
    BY <1>8, <1>10 DEF AfterRead, t, c
  <2>3. k \in 0..fill
    BY <1>1, <1>2, <1>3, <1>6 DEF left, fill
  <2>4. given = [i \in 1..n |-> IF k + i <= fill THEN q[k + i] ELSE silence]
    <3>1. given = [i \in 1..n |-> IF i <= left THEN Content(d)[i] ELSE silence]
      BY <1>9, <1>10 DEF Given, d, c
    <3>2. ASSUME NEW i \in 1..n
          PROVE  (IF i <= left THEN Content(d)[i] ELSE silence) = (IF k + i <= fill THEN q[k + i] ELSE silence)
      <4>1. CASE i <= left
        <5>1. i \in 1..left /\ fill - left + i = k + i /\ k + i <= fill
          BY <1>1, <1>3, <1>6, <4>1 DEF left, fill
        <5>. QED BY <1>7, <4>1, <5>1
      <4>2. CASE ~(i <= left)
        <5>1. ~(k + i <= fill)
          BY <1>1, <1>3, <1>6, <4>2 DEF left, fill
        <5>. QED BY <4>2, <5>1
      <4>. QED BY <4>1, <4>2
    <3>. HIDE DEF given
    <3>. QED BY <3>1, <3>2
  <2>5. Content(a) = SubSeq(q, k + n + 1, fill)
    <3>. DEFINE m == k + n + 1
                s == SubSeq(q, m, fill)
    <3>1. m \in Int /\ fill \in Int /\ m \in Nat \ {0}
      BY <1>1, <1>2, <1>3, <1>6 DEF left, fill
    <3>2. rest = IF m <= fill THEN fill - m + 1 ELSE 0
      BY <1>1, <1>3, <1>5, <1>6 DEF left, fill, rest
    <3>3. \A i \in m..fill : q[i] \in Data
      <4>1. SUFFICES ASSUME NEW i \in m..fill PROVE q[i] \in Data
        OBVIOUS
      <4>2. i \in 1..Len(q)
        BY <1>4, <3>1 DEF fill
      <4>. QED BY <1>4, <4>2, ElementOfSeq
    <3>. HIDE DEF m
    <3>4. s \in Seq(Data) /\ Len(s) = rest /\ \A i \in 1..(fill - m + 1) : s[i] = q[m + i - 1]
      BY <3>1, <3>2, <3>3, SubSeqProperties
    <3>5. ASSUME NEW i \in 1..rest PROVE Content(a)[i] = s[i]
      <4>1. /\ i \in 1..(fill - m + 1) /\ n <= left
            /\ left - rest + i \in 1..left /\ fill - left + (left - rest + i) = m + i - 1
        BY <1>1, <1>3, <1>5, <1>6, <3>1, <3>2 DEF left, fill, rest, m
      <4>. QED BY <1>7, <1>8, <3>4, <4>1
    <3>. HIDE DEF s
    <3>6. Content(a) = s
      BY <1>9, <3>4, <3>5, SeqEqual
    <3>. QED BY <3>6 DEF s, m
  <2>. QED BY <1>4, <1>8, <1>10, <2>1, <2>2, <2>3, <2>4, <2>5 DEF q, k, fill
<1>11. CASE ~Reads(r.counts, base)
  BY <1>11 DEF Read, Given, AfterRead
<1>. QED BY <1>10, <1>11

-----------------------------------------------------------------------------
(***************************************************************************)
(* VirtualCable: a ring between the Worker's ticks and a stream's timer.   *)
(***************************************************************************)
Within(c, w) == c.extra > 0 => CablePrime(w) + c.extra <= CableMaxPrime(w)

LEMMA LatencyTypes ==
  ASSUME NEW w \in Blocks \cup {0}
  PROVE  /\ w \in Nat /\ CableGrow(w) \in Nat /\ CablePrime(w) \in Nat /\ CableSlack(w) \in Nat
         /\ CableMaxPrime(w) \in Int
<1>1. /\ Blocks \subseteq 1..Frames /\ DefaultBlock \in 1..Frames /\ Most \in Nat
      /\ Frames \in Nat \ {0}
  BY RingAssumption, CableAssumption
<1>2. w \in Nat
  BY <1>1
<1>3. CableGrow(w) \in Nat
  BY <1>1, <1>2 DEF CableGrow
<1>4. CablePrime(w) \in Nat /\ CableSlack(w) \in Nat
  BY <1>3 DEF CablePrime, CableSlack
<1>5. Frames \div 2 \in Int
  BY <1>1
<1>6. CableMaxPrime(w) \in Int
  <2>1. Larger(Most, 4 * CableGrow(w)) \in Int
    BY <1>1, <1>3 DEF Larger
  <2>. QED BY <1>5, <2>1 DEF CableMaxPrime, Smaller
<1>. QED BY <1>2, <1>3, <1>4, <1>6

\* A reader of the cable leaves its latency within the limits of the block it knows.
LEMMA ReadOnWithin ==
  ASSUME NEW c \in Counts, NEW n \in Nat, NEW w \in Blocks \cup {0}, Within(c, w)
  PROVE  ReadOn(c, n, w) \in Counts /\ Within(ReadOn(c, n, w), w)
<1>. DEFINE d == AfterRead(c, n, CablePrime(w), CableSlack(w), CableGrow(w), CableMaxPrime(w))
<1>1. /\ CableGrow(w) \in Nat /\ CablePrime(w) \in Nat /\ CableSlack(w) \in Nat
      /\ CableMaxPrime(w) \in Int
  BY LatencyTypes
<1>2. d \in Counts /\ (d.extra = c.extra \/ CablePrime(w) + d.extra <= CableMaxPrime(w))
  <2>. DEFINE p == CablePrime(w)
              s == CableSlack(w)
              g == CableGrow(w)
              m == CableMaxPrime(w)
              e == AfterRead(c, n, p, s, g, m)
  <2>1. p \in Nat /\ s \in Nat /\ g \in Nat /\ m \in Int
    BY <1>1
  <2>. HIDE DEF p, s, g, m
  <2>2. e \in Counts /\ (e.extra = c.extra \/ p + e.extra <= m)
    BY <2>1, ReadCounts
  <2>. QED BY <2>2 DEF p, s, g, m
<1>3. ReadOn(c, n, w) = d
  BY DEF ReadOn
<1>. HIDE DEF d
<1>. QED BY <1>2, <1>3 DEF Within

LEMMA AddedWithin ==
  ASSUME NEW c \in Counts, NEW n \in Nat, NEW w \in Blocks \cup {0}, Within(c, w)
  PROVE  Added(c, n) \in Counts /\ Within(Added(c, n), w)
<1>. DEFINE k == Smaller(n, Frames)
            f == Smaller(c.fill, Frames - k) + k
            d == Added(c, n)
<1>1. c.fill \in 0..Frames /\ Frames \in Nat
  BY CountsAre
<1>2. k \in 0..Frames
  BY <1>1 DEF Smaller
<1>. HIDE DEF k
<1>3. f \in 0..Frames
  BY <1>1, <1>2 DEF Smaller
<1>4. d = [c EXCEPT !.fill = f]
  BY DEF Added, Room, Counts, k
<1>. HIDE DEF f, d
<1>5. d \in Counts /\ d.extra = c.extra
  BY <1>3, <1>4 DEF Counts
<1>. QED BY <1>5 DEF Within, d

\* Initially and with a new Worker there is no latency but the base.
LEMMA ClearedWithin ==
  ASSUME NEW w
  PROVE  Cleared \in Counts /\ Within(Cleared, w)
  BY RingAssumption DEF Cleared, Counts, Within

\* A block of another size finds the base latency of its own.
LEMMA RebasedWithin ==
  ASSUME CableTypeOK, GrownWithin
  PROVE  Rebased \in Counts /\ Within(Rebased, block)
<1>1. ring \in Counts /\ ring.extra \in Nat
  BY CountsAre DEF CableTypeOK
<1>2. CASE workerFrames = block
  BY <1>1, <1>2 DEF Rebased, GrownWithin, Within
<1>3. CASE workerFrames # block
  <2>. DEFINE d == [ring EXCEPT !.extra = 0]
  <2>1. Rebased = d
    BY <1>3 DEF Rebased, ResetExtra
  <2>2. d \in Counts /\ d.extra = 0
    BY <1>1 DEF Counts
  <2>. HIDE DEF d
  <2>. QED BY <2>1, <2>2 DEF Within
<1>. QED BY <1>2, <1>3

\* What the stream moves leaves a played ring's latency alone, and a recorded one's
\* within the limits, in one part or in two.
LEMMA UpdateWithin ==
  ASSUME CableTypeOK, GrownWithin, Update
  PROVE  ring' \in Counts /\ Within(ring', workerFrames)
<1>. DEFINE pending == Smaller(due, Buffer)
<1>1. ring \in Counts /\ workerFrames \in Blocks \cup {0} /\ Within(ring, workerFrames)
  BY DEF CableTypeOK, GrownWithin, Within
<1>2. pending \in Nat
  BY CableAssumption DEF CableTypeOK, Smaller
<1>3. CASE ring' = Added(ring, pending)
  <2>. HIDE DEF pending
  <2>. QED BY <1>1, <1>2, <1>3, AddedWithin
<1>4. CASE ring' = ReadOn(ring, pending, workerFrames)
  <2>. HIDE DEF pending
  <2>. QED BY <1>1, <1>2, <1>4, ReadOnWithin
<1>5. ASSUME NEW first \in 1..(pending - 1),
             ring' = ReadOn(ReadOn(ring, first, workerFrames), pending - first, workerFrames)
      PROVE  ring' \in Counts /\ Within(ring', workerFrames)
  <2>1. first \in Nat /\ pending - first \in Nat
    BY <1>2
  <2>. HIDE DEF pending
  <2>. DEFINE mid == ReadOn(ring, first, workerFrames)
  <2>2. mid \in Counts /\ Within(mid, workerFrames)
    BY <1>1, <2>1, ReadOnWithin
  <2>. HIDE DEF mid
  <2>3. ring' = ReadOn(mid, pending - first, workerFrames)
    BY <1>5 DEF mid
  <2>. QED BY <1>1, <2>1, <2>2, <2>3, ReadOnWithin
<1>. QED BY <1>3, <1>4, <1>5 DEF Update

LEMMA CableInvKept == CableInv /\ [CableNext]_cableVars => CableInv'
<1>1. SUFFICES ASSUME CableInv, [CableNext]_cableVars PROVE CableInv'
  OBVIOUS
<1>2. /\ CableTypeOK /\ GrownWithin
      /\ workerFrames \in Blocks \cup {0} /\ block \in Blocks /\ block \in Nat
      /\ workerDue \in Nat /\ due \in Nat
  BY <1>1, CableAssumption, RingAssumption DEF CableInv, CableTypeOK
<1>3. CASE WorkerOpen
  <2>1. ring' \in Counts /\ Within(ring', workerFrames)
    BY <1>3, ClearedWithin DEF WorkerOpen
  <2>. QED BY <1>2, <1>3, <2>1 DEF WorkerOpen, CableInv, CableTypeOK, GrownWithin, Within
<1>4. CASE WorkerClose
  BY <1>2, <1>4 DEF WorkerClose, CableInv, CableTypeOK, GrownWithin
<1>5. CASE SaveBlock
  BY <1>2, <1>5 DEF SaveBlock, CableInv, CableTypeOK, GrownWithin
<1>6. CASE ExchangeBlocks
  <2>1. Rebased \in Counts /\ Within(Rebased, block)
    BY <1>2, RebasedWithin
  <2>2. /\ ReadOn(Rebased, block, block) \in Counts /\ Within(ReadOn(Rebased, block, block), block)
        /\ Added(Rebased, block) \in Counts /\ Within(Added(Rebased, block), block)
    BY <1>2, <2>1, ReadOnWithin, AddedWithin
  <2>3. ring' \in Counts /\ Within(ring', block)
    BY <1>6, <2>2 DEF ExchangeBlocks
  <2>4. workerFrames' = block /\ workerDue' \in Nat /\ UNCHANGED <<side, open, block, waveState, due>>
    BY <1>2, <1>6 DEF ExchangeBlocks
  <2>. QED BY <1>2, <2>3, <2>4 DEF CableInv, CableTypeOK, GrownWithin, Within
<1>7. CASE MissTick
  BY <1>2, <1>7 DEF MissTick, CableInv, CableTypeOK, GrownWithin
<1>8. CASE StreamTimer
  <2>1. ring' \in Counts /\ Within(ring', workerFrames)
    BY <1>2, <1>8, UpdateWithin DEF StreamTimer
  <2>. QED BY <1>2, <1>8, <2>1 DEF StreamTimer, CableInv, CableTypeOK, GrownWithin, Within
<1>9. CASE StreamNew
  BY <1>2, <1>9 DEF StreamNew, CableInv, CableTypeOK, GrownWithin
<1>10. CASE StreamRun
  BY <1>2, <1>10 DEF StreamRun, CableInv, CableTypeOK, GrownWithin
<1>11. CASE StreamHalt
  <2>1. ring' \in Counts /\ Within(ring', workerFrames)
    BY <1>2, <1>11, UpdateWithin DEF StreamHalt
  <2>. QED BY <1>2, <1>11, <2>1 DEF StreamHalt, CableInv, CableTypeOK, GrownWithin, Within
<1>12. CASE StreamClose
  BY <1>2, <1>12 DEF StreamClose, CableInv, CableTypeOK, GrownWithin
<1>13. CASE Elapse
  <2>1. workerDue' \in Nat /\ due' \in Nat /\ UNCHANGED <<side, ring, workerFrames, open, block, waveState>>
    BY <1>2, <1>13 DEF Elapse
  <2>. QED BY <1>2, <2>1 DEF CableInv, CableTypeOK, GrownWithin
<1>14. CASE UNCHANGED cableVars
  BY <1>2, <1>14 DEF cableVars, CableInv, CableTypeOK, GrownWithin
<1>. QED BY <1>1, <1>3, <1>4, <1>5, <1>6, <1>7, <1>8, <1>9, <1>10, <1>11, <1>12, <1>13, <1>14 DEF CableNext

\* In every behaviour a cable's latency grows only within what the cable allows, 50 ms
\* or four blocks, however the block changes and however late its readers are
\* (CableExchange, UpdateLocked); for any ring, blocks, lateness and stream buffer.
THEOREM LatencyWithin == CableSpec => []CableInv
<1>1. CableInit => CableInv
  <2>1. SUFFICES ASSUME CableInit PROVE CableInv
    OBVIOUS
  <2>2. ring \in Counts /\ Within(ring, workerFrames)
    BY <2>1, ClearedWithin DEF CableInit
  <2>. QED BY <2>1, <2>2 DEF CableInit, CableInv, CableTypeOK, GrownWithin, Within
<1>. QED BY <1>1, CableInvKept, PTL DEF CableSpec

-----------------------------------------------------------------------------
(***************************************************************************)
(* CableEndpoints: how a cable's format comes to Windows.                  *)
(***************************************************************************)

(* The worker and the follower of the table's setting always have a valid format. *)
LEMMA SendableFormat == TypeOK => Sendable(setting) \in Formats
<1>1. SUFFICES ASSUME TypeOK PROVE Sendable(setting) \in Formats
  OBVIOUS
<1>2. setting \in [rate: Rates, channels: Channels \cup {Bad}] /\ Default \in Formats
  BY <1>1, FormatAssumption DEF TypeOK
<1>3. CASE setting.channels = Bad
  BY <1>2, <1>3 DEF Sendable, Formats
<1>4. CASE setting.channels # Bad
  BY <1>2, <1>4 DEF Sendable, Formats
<1>. QED BY <1>3, <1>4

(* What the invariant of CableEndpoints adds to NoStaleStream makes it inductive. *)
Inductive == IInv /\ NoStaleStream

LEMMA Initially == Init => Inductive
<1>1. SUFFICES ASSUME Init PROVE Inductive
  OBVIOUS
<1>2. Default \in Formats /\ None \notin Formats /\ 0 \notin Rates
  BY FormatAssumption
<1>3. NoFormat \in [rate: Rates \cup {0}, channels: Channels]
  BY <1>2 DEF NoFormat, Formats
<1>4. TypeOK
  <2>1. changed \in BOOLEAN /\ events \in BOOLEAN /\ told \in BOOLEAN /\ stop \in BOOLEAN /\ wake \in BOOLEAN
    BY <1>1 DEF Init
  <2>2. setting \in Settings /\ busy \in BOOLEAN /\ refs \in 0..2
    BY <1>1 DEF Init
  <2>3. /\ sent \in Formats \cup {None} /\ tried \in Formats \cup {None} /\ driver \in Formats /\ endpoint \in Formats
        /\ stream \in Formats \cup {None} /\ opening \in Formats \cup {None}
    BY <1>1, <1>2 DEF Init
  <2>4. st = NoFormat /\ want = NoFormat /\ worker = "off" /\ sync = "off"
    BY <1>1 DEF Init
  <2>. QED BY <1>3, <2>1, <2>2, <2>3, <2>4 DEF TypeOK
<1>5. NoStaleStream /\ RefsCounted /\ EventsHeld /\ StreamsHavePort /\ FollowerInHolder
  BY <1>1 DEF Init, NoStaleStream, RefsCounted, EventsHeld, StreamsHavePort, FollowerInHolder
<1>. QED BY <1>4, <1>5 DEF Inductive, IInv

(* Every step keeps the types.                                                    *)
LEMMA TypesKept == TypeOK /\ RefsCounted /\ [Next]_vars => TypeOK'
<1>1. SUFFICES ASSUME TypeOK, RefsCounted, [Next]_vars PROVE TypeOK'
  OBVIOUS
<1>2. Sendable(setting) \in Formats /\ NoFormat \in [rate: Rates \cup {0}, channels: Channels]
      /\ None \notin Formats
  BY <1>1, SendableFormat, FormatAssumption DEF NoFormat, Formats
<1>. USE <1>1, <1>2 DEF TypeOK
<1>3. CASE Save
  BY <1>3 DEF Save, table, follower, windows, port
<1>4. CASE OpenCables
  BY <1>4 DEF OpenCables, table, follower, windows, port
<1>5. CASE Exchange
  BY <1>5 DEF Exchange, table, follower, windows, port, Differs, Due
<1>6. CASE NotifyHold
  <2>1. changed' \in BOOLEAN
    BY <1>6 DEF NotifyHold
  <2>. QED BY <1>6, <2>1 DEF NotifyHold, table, follower, windows, port, Hold, RefsCounted
<1>7. CASE NotifyTell
  BY <1>7 DEF NotifyTell, table, follower, windows, port, RefsCounted
<1>8. CASE StoreRate
  BY <1>8 DEF StoreRate, table, follower, windows, port, Formats
<1>9. CASE StoreChannels
  BY <1>9 DEF StoreChannels, table, follower, windows, port, Formats
<1>10. CASE Wake
  BY <1>10 DEF Wake, table, follower, windows, port
<1>11. CASE CloseCables
  BY <1>11 DEF CloseCables, table, follower, windows, port
<1>12. CASE Joined
  BY <1>12 DEF Joined, table, follower, windows, port, Ended
<1>13. CASE SyncWake
  <2>1. wake' \in BOOLEAN
    BY <1>13 DEF SyncWake
  <2>. QED BY <1>13, <2>1 DEF SyncWake, table, follower, windows, port, OrEnd
<1>14. CASE SyncRate
  BY <1>14 DEF SyncRate, table, follower, windows, port, Formats
<1>15. CASE SyncChannels
  BY <1>15 DEF SyncChannels, table, follower, windows, port, Formats
<1>16. CASE Ages
  BY <1>16 DEF Ages, table, follower, windows, port, Expired
<1>17. CASE PortInit
  BY <1>17 DEF PortInit, table, follower, windows, port
<1>18. CASE PortRemoved
  <2>1. told' \in BOOLEAN /\ events' \in BOOLEAN
    BY <1>18 DEF PortRemoved
  <2>2. events /\ refs' = refs - 1
    BY <1>18 DEF PortRemoved
  <2>3. refs' \in 0..2
    BY <2>2 DEF RefsCounted
  <2>. QED BY <1>18, <2>1, <2>3 DEF PortRemoved, table, follower, windows, port
<1>19. CASE NewStream
  BY <1>19 DEF NewStream, table, follower, windows, port, Offers
<1>20. CASE StreamMade
  BY <1>20 DEF StreamMade, table, follower, windows, port
<1>21. CASE CloseStream
  BY <1>21 DEF CloseStream, table, follower, windows, port
<1>22. CASE HandleChange
  <2>1. told' \in BOOLEAN
    BY <1>22 DEF HandleChange
  <2>. QED BY <1>22, <2>1 DEF HandleChange, table, follower, windows, port
<1>23. ASSUME NEW taken \in BOOLEAN, SyncSet(taken) PROVE TypeOK'
  <2>1. want.rate # 0 => want \in Formats
    BY DEF Formats
  <2>. QED BY <1>23, <2>1 DEF SyncSet, MaySet, OrEnd, table, port
<1>24. CASE UNCHANGED vars
  BY <1>24 DEF vars
<1>. QED
  BY <1>3, <1>4, <1>5, <1>6, <1>7, <1>8, <1>9, <1>10, <1>11, <1>12, <1>13, <1>14, <1>15, <1>16, <1>17, <1>18, <1>19, <1>20, <1>21, <1>22, <1>23, <1>24 DEF Next, WorkerSteps, Follower

(* Every step keeps the count of references, the streams and the follower.        *)
LEMMA PartsKept ==
  Inductive /\ [Next]_vars => (RefsCounted /\ EventsHeld /\ StreamsHavePort /\ FollowerInHolder)'
<1>1. SUFFICES ASSUME Inductive, [Next]_vars
               PROVE (RefsCounted /\ EventsHeld /\ StreamsHavePort /\ FollowerInHolder)'
  OBVIOUS
<1>. USE <1>1, FormatAssumption DEF Inductive, IInv, TypeOK, RefsCounted, EventsHeld, StreamsHavePort, FollowerInHolder
<1>2. CASE Save
  BY <1>2 DEF Save, table, follower, windows, port
<1>3. CASE OpenCables
  BY <1>3 DEF OpenCables, table, follower, windows, port
<1>4. CASE Exchange
  BY <1>4 DEF Exchange, table, follower, windows, port, Differs, Due
<1>5. CASE NotifyHold
  BY <1>5 DEF NotifyHold, table, follower, windows, port, Hold
<1>6. CASE NotifyTell
  BY <1>6 DEF NotifyTell, table, follower, windows, port
<1>7. CASE StoreRate
  BY <1>7 DEF StoreRate, table, follower, windows, port
<1>8. CASE StoreChannels
  BY <1>8 DEF StoreChannels, table, follower, windows, port
<1>9. CASE Wake
  BY <1>9 DEF Wake, table, follower, windows, port
<1>10. CASE CloseCables
  BY <1>10 DEF CloseCables, table, follower, windows, port
<1>11. CASE Joined
  BY <1>11 DEF Joined, table, follower, windows, port, Ended
<1>12. CASE SyncWake
  BY <1>12 DEF SyncWake, table, follower, windows, port, OrEnd
<1>13. CASE SyncRate
  BY <1>13 DEF SyncRate, table, follower, windows, port
<1>14. CASE SyncChannels
  BY <1>14 DEF SyncChannels, table, follower, windows, port
<1>15. CASE Ages
  BY <1>15 DEF Ages, table, follower, windows, port, Expired
<1>16. CASE PortInit
  BY <1>16 DEF PortInit, table, follower, windows, port
<1>17. CASE PortRemoved
  BY <1>17 DEF PortRemoved, table, follower, windows, port
<1>18. CASE NewStream
  BY <1>18 DEF NewStream, table, follower, windows, port, Offers
<1>19. CASE StreamMade
  BY <1>19 DEF StreamMade, table, follower, windows, port
<1>20. CASE CloseStream
  BY <1>20 DEF CloseStream, table, follower, windows, port
<1>21. CASE HandleChange
  BY <1>21 DEF HandleChange, table, follower, windows, port
<1>22. ASSUME NEW taken \in BOOLEAN, SyncSet(taken)
       PROVE (RefsCounted /\ EventsHeld /\ StreamsHavePort /\ FollowerInHolder)'
  BY <1>22 DEF SyncSet, OrEnd, table, port
<1>23. CASE UNCHANGED vars
  BY <1>23 DEF vars
<1>. QED
  BY <1>2, <1>3, <1>4, <1>5, <1>6, <1>7, <1>8, <1>9, <1>10, <1>11, <1>12, <1>13, <1>14, <1>15, <1>16, <1>17, <1>18, <1>19, <1>20, <1>21, <1>22, <1>23 DEF Next, WorkerSteps, Follower

(* No step leaves a stream in an old format without Windows told, or about to be. *)
LEMMA StaleTold == Inductive /\ [Next]_vars => NoStaleStream'
<1>1. SUFFICES ASSUME Inductive, [Next]_vars PROVE NoStaleStream'
  OBVIOUS
<1>. USE <1>1 DEF Inductive, IInv, StreamsHavePort, NoStaleStream
<1>2. CASE Save
  BY <1>2 DEF Save, table, follower, windows, port
<1>3. CASE OpenCables
  BY <1>3 DEF OpenCables, table, follower, windows, port
<1>4. CASE Exchange
  <2>1. driver \in Formats /\ Sendable(setting) \in Formats
    BY SendableFormat DEF TypeOK
  <2>2. driver # Sendable(setting) => Differs(driver, Sendable(setting))
    BY <2>1 DEF Differs, Formats
  <2>3. driver # driver' => changed'
    BY <1>4, <2>2 DEF Exchange
  <2>. QED BY <1>4, <2>3 DEF Exchange, windows
<1>5. CASE NotifyHold
  BY <1>5 DEF NotifyHold, table, follower, windows, port, Hold
<1>6. CASE NotifyTell
  BY <1>6 DEF NotifyTell, table, follower, windows, port
<1>7. CASE StoreRate
  BY <1>7 DEF StoreRate, table, follower, windows, port
<1>8. CASE StoreChannels
  BY <1>8 DEF StoreChannels, table, follower, windows, port
<1>9. CASE Wake
  BY <1>9 DEF Wake, table, follower, windows, port
<1>10. CASE CloseCables
  BY <1>10 DEF CloseCables, table, follower, windows, port
<1>11. CASE Joined
  BY <1>11 DEF Joined, table, follower, windows, port, Ended
<1>12. CASE SyncWake
  BY <1>12 DEF SyncWake, table, follower, windows, port, OrEnd
<1>13. CASE SyncRate
  BY <1>13 DEF SyncRate, table, follower, windows, port
<1>14. CASE SyncChannels
  BY <1>14 DEF SyncChannels, table, follower, windows, port
<1>15. CASE Ages
  BY <1>15 DEF Ages, table, follower, windows, port, Expired
<1>16. CASE PortInit
  BY <1>16 DEF PortInit, table, follower, windows, port
<1>17. CASE PortRemoved
  BY <1>17 DEF PortRemoved, table, follower, windows, port
<1>18. CASE NewStream
  BY <1>18 DEF NewStream, table, follower, windows, port, Offers
<1>19. CASE StreamMade
  BY <1>19 DEF StreamMade, table, follower, windows, port
<1>20. CASE CloseStream
  BY <1>20 DEF CloseStream, table, follower, windows, port
<1>21. CASE HandleChange
  BY <1>21 DEF HandleChange, table, follower, windows, port
<1>22. ASSUME NEW taken \in BOOLEAN, SyncSet(taken) PROVE NoStaleStream'
  BY <1>22 DEF SyncSet, table, port
<1>23. CASE UNCHANGED vars
  BY <1>23 DEF vars
<1>. QED
  BY <1>2, <1>3, <1>4, <1>5, <1>6, <1>7, <1>8, <1>9, <1>10, <1>11, <1>12, <1>13, <1>14, <1>15, <1>16, <1>17, <1>18, <1>19, <1>20, <1>21, <1>22, <1>23 DEF Next, WorkerSteps, Follower

(* Together: the invariant is inductive.                                          *)
LEMMA Kept == Inductive /\ [Next]_vars => Inductive'
BY TypesKept, PartsKept, StaleTold DEF Inductive, IInv

(* In every behaviour the driver's events are there while the Worker uses them    *)
(* without the lock, streams belong to a port, and the follower runs only in an   *)
(* open MasterHolder (NotifyCableFormatChange, openCables, closeCables).          *)
THEOREM EndpointInvariance == Spec => []IInv
<1>1. Inductive => IInv
  BY DEF Inductive
<1>. QED BY <1>1, Initially, Kept, PTL DEF Spec

(* In every behaviour a stream whose format the cable no longer has is one that   *)
(* Windows has been told of, or is about to be (SetCableFormatLocked, NewStream). *)
THEOREM StreamsToldOf == Spec => []NoStaleStream
<1>1. Inductive => NoStaleStream
  BY DEF Inductive
<1>. QED BY <1>1, Initially, Kept, PTL DEF Spec

===============================================================================
