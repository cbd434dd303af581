------------------------------ MODULE CableRing ------------------------------
(***************************************************************************)
(* One direction of a Virtual Cable (WHACableRing): a ring of Frames       *)
(* frames with an adaptive latency.  Its counts are a record of the frames *)
(* queued (fill), whether the reader has begun (primed), the frames its    *)
(* latency grew by (extra) and the frames read in a row with too many      *)
(* queued (over); they decide every branch, so they are kept apart from    *)
(* the cells.  A ring is its cells, the cell of the oldest frame (read)    *)
(* and its counts.  The callers hold the cable's spin lock, so each        *)
(* operation is one step.  The statistics are left out, and a frame is one *)
(* value: the channels of a frame are copied together.                     *)
(***************************************************************************)
EXTENDS Integers, Sequences

CONSTANTS
  Frames,     \* frames of the ring (kFrames)
  TrimAfter   \* frames read with too many queued before a trim (kTrimAfterFrames)

ASSUME RingAssumption == Frames \in Nat \ {0} /\ TrimAfter \in Nat \ {0}

Smaller(a, b) == IF a < b THEN a ELSE b
Larger(a, b)  == IF a > b THEN a ELSE b

-----------------------------------------------------------------------------
(***************************************************************************)
(* The counts.                                                             *)
(***************************************************************************)
Counts == [fill: 0..Frames, primed: BOOLEAN, extra: Nat, over: Nat]

Cleared == [fill |-> 0, primed |-> FALSE, extra |-> 0, over |-> 0]

ResetExtra(c) == [c EXCEPT !.extra = 0]

FaultyTaken(c, n, base, grow, most) ==
  IF n <= c.fill THEN [c EXCEPT !.fill = @ - n] ELSE [c EXCEPT !.fill = 0, !.primed = FALSE]

\* write of n frames: first the oldest frames leave, so that they fit.
Room(c, n) == [c EXCEPT !.fill = Smaller(@, Frames - Smaller(n, Frames))]
Added(c, n) == [Room(c, n) EXCEPT !.fill = @ + Smaller(n, Frames)]

\* read of n frames by a reader whose latency is `base`, with `slack` more
\* before a trim, and grows by `grow` up to `most`.
Prime(c, base) == Smaller(base + c.extra, Frames)

Begins(c, base) == c.fill >= Prime(c, base) /\ c.fill # 0

Reads(c, base) == c.primed \/ Begins(c, base)

\* A reader that begins with far more than its latency skips the backlog.
Begun(c, base, slack) ==
  [c EXCEPT !.primed = TRUE,
            !.fill = IF ~c.primed /\ @ > Prime(c, base) + slack THEN Prime(c, base) ELSE @]

FaultyTrimmed(c, n, base, slack) == [c EXCEPT !.over = 0]

\* Too many frames queued are dropped once they stay.
Trimmed(c, n, base, slack) ==
  IF c.fill <= Prime(c, base) + slack THEN [c EXCEPT !.over = 0]
  ELSE IF c.over + n < TrimAfter THEN [c EXCEPT !.over = @ + n]
  ELSE [c EXCEPT !.fill = Prime(c, base), !.over = 0]

\* What the reader finds when it takes its frames.
Ready(c, n, base, slack) == Trimmed(Begun(c, base, slack), n, base, slack)

\* A read that comes short is an underrun: the reader begins anew, with more
\* latency if it may grow.
Taken(c, n, base, grow, most) ==
  IF n <= c.fill THEN [c EXCEPT !.fill = @ - n]
  ELSE [c EXCEPT !.fill = 0, !.primed = FALSE,
                 !.extra = IF grow > 0 /\ base + @ + grow <= most THEN @ + grow ELSE @]

AfterRead(c, n, base, slack, grow, most) ==
  IF Reads(c, base) THEN Taken(Ready(c, n, base, slack), n, base, grow, most) ELSE c

-----------------------------------------------------------------------------
(***************************************************************************)
(* The ring.                                                               *)
(***************************************************************************)
Rings(Data) == [data: [0..(Frames - 1) -> Data], read: 0..(Frames - 1), counts: Counts]

\* The cell n frames after `at`, both within the ring.
Cell(at, n) == IF at + n < Frames THEN at + n ELSE at + n - Frames

\* The frames queued, oldest first.
Content(r) == [i \in 1..r.counts.fill |-> r.data[Cell(r.read, i - 1)]]

\* The newest frames of src that the ring can hold.
Newest(src) ==
  LET kept == Smaller(Len(src), Frames)
  IN [i \in 1..kept |-> src[Len(src) - kept + i]]

\* Puts src at the end of a ring that has room for it.
Put(r, src) ==
  LET end == Cell(r.read, r.counts.fill)
      nth(cell) == IF cell >= end THEN cell - end + 1 ELSE cell - end + 1 + Frames
  IN [r EXCEPT !.data = [cell \in 0..(Frames - 1) |->
                           IF nth(cell) <= Len(src) THEN src[nth(cell)] ELSE r.data[cell]],
               !.counts.fill = @ + Len(src)]

\* The ring with its oldest frames gone: c has fewer frames than it had.
Dropped(r, c) == [r EXCEPT !.read = Cell(@, r.counts.fill - c.fill), !.counts = c]

Write(r, src) == Put(Dropped(r, Room(r.counts, Len(src))), Newest(src))

Read(r, n, base, slack, grow, most) ==
  IF Reads(r.counts, base)
  THEN Dropped(Dropped(r, Ready(r.counts, n, base, slack)),
               Taken(Ready(r.counts, n, base, slack), n, base, grow, most))
  ELSE r

\* The frames a read gives: what there is, then silence.
Given(r, n, base, slack, silence) ==
  LET found == Content(Dropped(r, Ready(r.counts, n, base, slack)))
  IN [i \in 1..n |-> IF Reads(r.counts, base) /\ i <= Len(found) THEN found[i] ELSE silence]

===============================================================================
