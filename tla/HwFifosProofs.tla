---------------------------- MODULE HwFifosProofs ----------------------------
(* Proofs about HwFifos, for every block, period and buffer: the counts of an  *)
(* input's and an output's FIFO stay in their room, and an input being read    *)
(* keeps its target.                                                           *)
EXTENDS HwFifos, TLAPS

-----------------------------------------------------------------------------
(* Arithmetic.                                                                 *)

LEMMA Quotient ==
  ASSUME NEW a \in Nat, NEW p \in Nat \ {0}
  PROVE  a \div p \in Nat /\ p * (a \div p) <= a /\ a < p * (a \div p) + p
OBVIOUS

LEMMA TimesMonotone ==
  ASSUME NEW p \in Nat, NEW m \in Nat, NEW n \in Nat, m <= n
  PROVE  p * m <= p * n /\ m * p = p * m /\ p * m \in Nat
OBVIOUS

LEMMA Regroup ==
  ASSUME NEW a \in Int, NEW b \in Int, NEW c \in Int
  PROVE  a + b - c = (a + b) - c
OBVIOUS

LEMMA AddNothing ==
  ASSUME NEW n \in Int, NEW o \in Int, o = 0
  PROVE  n + o = n
OBVIOUS

(* Whole periods, at least k of them, and as many as x frames need.            *)
LEMMA WholePeriods ==
  ASSUME NEW p \in Nat \ {0}, NEW k \in Nat \ {0}, NEW x \in Nat
  PROVE  /\ p * Most(k, (x + p - 1) \div p) \in Nat
         /\ x <= p * Most(k, (x + p - 1) \div p)
         /\ p <= p * Most(k, (x + p - 1) \div p)
<1>. DEFINE q == (x + p - 1) \div p
            n == Most(k, q)
<1>1. q \in Nat /\ x + p - 1 < p * q + p
  <2>1. x + p - 1 \in Nat
    OBVIOUS
  <2>. QED BY <2>1, Quotient
<1>. HIDE DEF q
<1>2. n \in Nat \ {0} /\ q <= n
  BY <1>1 DEF Most
<1>. HIDE DEF n
<1>3. p * q <= p * n /\ p * q \in Nat /\ p * n \in Nat
  BY <1>1, <1>2, TimesMonotone
<1>4. p * 1 <= p * n
  BY <1>2, TimesMonotone
<1>5. x <= p * n /\ p <= p * n
  BY <1>1, <1>3, <1>4
<1>. QED BY <1>3, <1>5 DEF n, q

(* What the sizes are of, whatever the device is opened with.                  *)
LEMMA Sizes ==
  ASSUME shared \in BOOLEAN
  PROVE  /\ Block \in Nat \ {0} /\ Period \in Nat \ {0} /\ Period <= MaxLate
         /\ Buffer \in Nat /\ 4 * Block <= Buffer /\ Period <= Buffer
         /\ FifoPeriod \in Nat \ {0}
         /\ FirstPrime = 2 * Block + FifoPeriod
         /\ MostPrime \in Nat /\ FirstPrime <= MostPrime
         /\ InputRoom = MostPrime + FifoPeriod + 16 * Block
         /\ OutputRoom = Buffer + 16 * Block
         /\ DeviceFill \in 0 .. Buffer
<1>1. /\ Block \in Nat \ {0} /\ Rate \in Nat \ {0} /\ MinPeriod \in Nat \ {0} /\ MixPeriod \in Nat \ {0}
      /\ HwBuffer \in Nat /\ MaxLate \in Nat
      /\ HwBuffer <= MaxLate /\ MinPeriod <= MaxLate /\ MixPeriod <= MaxLate
  BY FifoAssumption
<1>2. Period = IF shared THEN MixPeriod ELSE Most(HwBuffer, MinPeriod)
  BY DEF Period, Periods
<1>3. Period \in Nat \ {0} /\ Period <= MaxLate
  BY <1>1, <1>2 DEF Most
<1>4. Buffer = Period * Most(IF shared THEN 6 ELSE 4, (4 * Block + Period - 1) \div Period)
  BY DEF Buffer, Buffers, Period
<1>. DEFINE k == IF shared THEN 6 ELSE 4
            x == 4 * Block
            P == Period
<1>5. k \in Nat \ {0} /\ x \in Nat
  BY <1>1
<1>6. Buffer \in Nat /\ 4 * Block <= Buffer /\ Period <= Buffer
  <2>1. P \in Nat \ {0} /\ Buffer = P * Most(k, (x + P - 1) \div P)
    BY <1>3, <1>4
  <2>. HIDE DEF k, x, P
  <2>2. /\ P * Most(k, (x + P - 1) \div P) \in Nat
        /\ x <= P * Most(k, (x + P - 1) \div P)
        /\ P <= P * Most(k, (x + P - 1) \div P)
    BY <1>5, <2>1, WholePeriods
  <2>. QED BY <2>1, <2>2 DEF x, P
<1>7. FifoPeriod \in Nat \ {0}
  BY <1>3 DEF FifoPeriod
<1>8. MostPrime \in Nat /\ FirstPrime <= MostPrime
  <2>1. Rate \div 10 \in Nat
    BY <1>1
  <2>2. FirstPrime = 2 * Block + FifoPeriod /\ MostPrime = Most(FirstPrime + 16 * FifoPeriod, Rate \div 10)
    BY DEF FirstPrime, MostPrime
  <2>. QED BY <1>1, <1>7, <2>1, <2>2 DEF Most
<1>9. DeviceFill \in 0 .. Buffer
  BY <1>1, <1>3, <1>6 DEF DeviceFill
<1>. QED BY <1>1, <1>3, <1>6, <1>7, <1>8, <1>9 DEF FirstPrime, InputRoom, OutputRoom

LEMMA Initially == Init => IInv
<1>1. SUFFICES ASSUME Init PROVE IInv
  OBVIOUS
<1>2. shared \in BOOLEAN /\ held \in BOOLEAN /\ primed \in BOOLEAN /\ clipped \in BOOLEAN
  BY <1>1 DEF Init, ResetInput
<1>3. /\ side \in {"input", "output"} /\ queued = 0 /\ prime = FirstPrime /\ primed = FALSE
      /\ undelivered = 0 /\ owed = 0 /\ padding = DeviceFill /\ low = 0
  BY <1>1 DEF Init, ResetInput, ResetOutput
<1>4. /\ Block \in Nat \ {0} /\ Buffer \in Nat /\ FifoPeriod \in Nat \ {0}
      /\ FirstPrime = 2 * Block + FifoPeriod /\ MostPrime \in Nat /\ FirstPrime <= MostPrime
      /\ InputRoom = MostPrime + FifoPeriod + 16 * Block /\ OutputRoom = Buffer + 16 * Block
      /\ DeviceFill \in 0 .. Buffer
  BY <1>2, Sizes
<1>5. MaxLate \in Nat /\ LowTicks \in Nat /\ MaxChunk \in Nat
  BY FifoAssumption
<1>6. queued \in 0 .. Most(InputRoom, OutputRoom) /\ prime \in FirstPrime .. MostPrime
  BY <1>3, <1>4 DEF Most
<1>7. TypeOK
  <2>1. undelivered \in 0 .. MaxLate /\ owed \in Nat /\ padding \in 0 .. Buffer /\ low \in 0 .. LowTicks
    BY <1>3, <1>4, <1>5
  <2>. QED BY <1>2, <1>3, <1>6, <2>1 DEF TypeOK
<1>8. OnTarget
  BY <1>3 DEF OnTarget
<1>9. InputQueue /\ WaitBounded
  BY <1>3, <1>4, <1>5 DEF InputQueue, WaitBounded, Most
<1>. QED BY <1>7, <1>8, <1>9 DEF IInv

-----------------------------------------------------------------------------
(* An input's tick.                                                            *)

(* Of x frames, n packets of p are delivered and at most m are not.            *)
LEMMA WholePackets ==
  ASSUME NEW x \in Nat, NEW p \in Nat \ {0}, NEW m \in Nat, NEW n,
         n \in 0 .. x \div p, x - n * p <= m
  PROVE  n * p \in Nat /\ x - n * p \in 0 .. m
<1>1. x \div p \in Nat /\ p * (x \div p) <= x
  BY Quotient
<1>2. n \in Nat /\ p * n <= p * (x \div p) /\ n * p = p * n /\ p * n \in Nat
  BY <1>1, TimesMonotone
<1>3. p * (x \div p) \in Nat
  BY <1>1, TimesMonotone
<1>. QED BY <1>1, <1>2, <1>3

(* What has been delivered is whole packets of what the device produced.       *)
LEMMA Delivered ==
  ASSUME TypeOK, NEW missed \in 0 .. MaxMissed, NEW n \in Deliveries(missed)
  PROVE  /\ n * Period \in Nat /\ missed * Block \in Nat
         /\ (missed + 1) * Block = missed * Block + Block
         /\ undelivered + (missed + 1) * Block - n * Period \in 0 .. MaxLate
<1>1. Block \in Nat \ {0} /\ Period \in Nat \ {0} /\ MaxLate \in Nat /\ MaxMissed \in Nat /\ undelivered \in Nat
  BY Sizes, FifoAssumption DEF TypeOK
<1>2. missed \in Nat /\ missed * Block \in Nat /\ (missed + 1) * Block = missed * Block + Block
  BY <1>1
<1>3. undelivered + (missed + 1) * Block \in Nat
  BY <1>1, <1>2
<1>4. /\ n \in 0 .. (undelivered + (missed + 1) * Block) \div Period
      /\ undelivered + (missed + 1) * Block - n * Period <= MaxLate
  BY DEF Deliveries
<1>5. n * Period \in Nat /\ undelivered + (missed + 1) * Block - n * Period \in 0 .. MaxLate
  <2>1. \A x \in Nat : n \in 0 .. x \div Period /\ x - n * Period <= MaxLate
          => n * Period \in Nat /\ x - n * Period \in 0 .. MaxLate
    BY <1>1, WholePackets
  <2>2. PICK x \in Nat : undelivered + (missed + 1) * Block = x
    BY <1>3
  <2>3. n \in 0 .. x \div Period
    BY <1>4, <2>2
  <2>4. undelivered + (missed + 1) * Block - n * Period = x - n * Period
    <3>1. x \div Period \in Nat
      BY <1>1, Quotient
    <3>2. n \in Int
      BY <2>3, <3>1
    <3>3. n * Period \in Int /\ undelivered \in Int /\ (missed + 1) * Block \in Int
      BY <1>1, <1>2, <3>2
    <3>4. undelivered + (missed + 1) * Block - n * Period = (undelivered + (missed + 1) * Block) - n * Period
      BY <3>3, Regroup
    <3>. QED BY Zenon, <2>2, <3>4
  <2>5. n * Period \in Nat /\ x - n * Period \in 0 .. MaxLate
    <3>1. x - n * Period <= MaxLate
      BY Zenon, <1>4, <2>4
    <3>. QED BY <2>1, <2>3, <3>1
  <2>. QED BY Zenon, <2>4, <2>5
<1>. QED BY Zenon, <1>2, <1>5

LEMMA HoldInputKeeps == IInv /\ HoldInput => IInv'
<1>1. SUFFICES ASSUME IInv, HoldInput PROVE IInv'
  OBVIOUS
<1>2. TypeOK /\ InputQueue /\ OnTarget /\ WaitBounded
  BY <1>1 DEF IInv
<1>3. /\ side = "input" /\ held /\ UNCHANGED <<side, shared, held, queued, prime, primed, clipped, owed, padding, low>>
  BY <1>1 DEF HoldInput, outputs
<1>4. undelivered' \in 0 .. MaxLate
  <2>1. PICK missed \in 0 .. MaxMissed : \E n \in Deliveries(missed) :
            undelivered' = undelivered + (missed + 1) * Block - n * Period
    BY <1>1 DEF HoldInput
  <2>2. PICK n \in Deliveries(missed) : undelivered' = undelivered + (missed + 1) * Block - n * Period
    BY <2>1
  <2>. QED BY <1>2, <2>2, Delivered
<1>5. TypeOK'
  BY <1>2, <1>3, <1>4
     DEF TypeOK, InputRoom, OutputRoom, MostPrime, FirstPrime, FifoPeriod, Buffer, Period
<1>6. InputQueue' /\ WaitBounded'
  BY <1>2, <1>3 DEF InputQueue, WaitBounded, InputRoom, MostPrime, FirstPrime, FifoPeriod, Buffer, Period
<1>7. OnTarget'
  BY <1>2, <1>3 DEF OnTarget, InputQueue
<1>. QED BY <1>5, <1>6, <1>7 DEF IInv

(* What StarvesLate says of a step.                                            *)
Starving ==
  primed /\ ~primed' /\ ~clipped' =>
    undelivered' > prime /\ (prime' > prime \/ undelivered' > MostPrime)

LEMMA ReadInputKeeps ==
  ASSUME IInv, ReadInput
  PROVE  IInv' /\ Starving
<1>1. IInv /\ ReadInput
  OBVIOUS
<1>2. TypeOK /\ InputQueue /\ OnTarget /\ WaitBounded
  BY <1>1 DEF IInv
<1>3. /\ side = "input" /\ held' = FALSE /\ UNCHANGED <<side, shared, owed, padding, low>>
  BY <1>1 DEF ReadInput, outputs
<1>4. /\ queued \in Nat /\ queued <= InputRoom /\ owed = 0 /\ prime \in FirstPrime .. MostPrime
      /\ primed \in BOOLEAN /\ clipped \in BOOLEAN /\ undelivered \in 0 .. MaxLate
  BY <1>2, <1>3 DEF TypeOK, InputQueue
<1>5. /\ Block \in Nat \ {0} /\ Buffer \in Nat /\ FifoPeriod \in Nat \ {0}
      /\ FirstPrime = 2 * Block + FifoPeriod /\ MostPrime \in Nat /\ FirstPrime <= MostPrime
      /\ InputRoom = MostPrime + FifoPeriod + 16 * Block /\ OutputRoom = Buffer + 16 * Block
  BY <1>2, Sizes DEF TypeOK
<1>6. /\ InputRoom' = InputRoom /\ OutputRoom' = OutputRoom /\ Buffer' = Buffer
      /\ FirstPrime' = FirstPrime /\ MostPrime' = MostPrime
  BY <1>3 DEF InputRoom, OutputRoom, MostPrime, FirstPrime, FifoPeriod, Buffer, Period
<1>7. PICK missed \in 0 .. MaxMissed : \E n \in Deliveries(missed) :
       LET late == undelivered + (missed + 1) * Block - n * Period
           skipped == Skipped(Pushed(n), missed)
           started == Started(skipped, late)
           reading == primed \/ Starts(skipped, late)
           ready == IF reading THEN Trimmed(started) ELSE started
       IN  /\ undelivered' = late
           /\ clipped' = IF Starts(skipped, late) THEN Excess(skipped, late) > skipped - Block
                         ELSE \/ clipped \/ Pushed(n) < queued + n * Period
                              \/ primed /\ (missed * Block > Pushed(n) \/ FarAbove(started))
           /\ \/ ~reading /\ queued' = ready /\ UNCHANGED <<prime, primed>>
              \/ reading /\ ready < Block /\ queued' = ready /\ primed' = FALSE /\ prime' = Grown
              \/ reading /\ ready >= Block /\ queued' = ready - Block /\ primed' = TRUE /\ UNCHANGED prime
  BY <1>1 DEF ReadInput
<1>8. PICK n \in Deliveries(missed) :
       LET late == undelivered + (missed + 1) * Block - n * Period
           skipped == Skipped(Pushed(n), missed)
           started == Started(skipped, late)
           reading == primed \/ Starts(skipped, late)
           ready == IF reading THEN Trimmed(started) ELSE started
       IN  /\ undelivered' = late
           /\ clipped' = IF Starts(skipped, late) THEN Excess(skipped, late) > skipped - Block
                         ELSE \/ clipped \/ Pushed(n) < queued + n * Period
                              \/ primed /\ (missed * Block > Pushed(n) \/ FarAbove(started))
           /\ \/ ~reading /\ queued' = ready /\ UNCHANGED <<prime, primed>>
              \/ reading /\ ready < Block /\ queued' = ready /\ primed' = FALSE /\ prime' = Grown
              \/ reading /\ ready >= Block /\ queued' = ready - Block /\ primed' = TRUE /\ UNCHANGED prime
  BY <1>7
<1>. DEFINE late == undelivered + (missed + 1) * Block - n * Period
            packets == n * Period
            gap == missed * Block
            pushed == Pushed(n)
            skipped == Skipped(pushed, missed)
            started == Started(skipped, late)
            reading == primed \/ Starts(skipped, late)
            ready == IF reading THEN Trimmed(started) ELSE started
<1>9. /\ packets \in Nat /\ gap \in Nat /\ late \in 0 .. MaxLate
      /\ late = undelivered + gap + Block - packets
  BY <1>2, <1>4, <1>5, Delivered
<1>10. /\ undelivered' = late
       /\ clipped' = IF Starts(skipped, late) THEN Excess(skipped, late) > skipped - Block
                     ELSE \/ clipped \/ pushed < queued + packets
                          \/ primed /\ (gap > pushed \/ FarAbove(started))
       /\ \/ ~reading /\ queued' = ready /\ UNCHANGED <<prime, primed>>
          \/ reading /\ ready < Block /\ queued' = ready /\ primed' = FALSE /\ prime' = Grown
          \/ reading /\ ready >= Block /\ queued' = ready - Block /\ primed' = TRUE /\ UNCHANGED prime
  BY <1>8
<1>11. pushed = IF queued + packets <= InputRoom THEN queued + packets ELSE InputRoom
  BY DEF Pushed, Least
<1>12. skipped = IF primed THEN IF gap <= pushed THEN pushed - gap ELSE 0 ELSE pushed
  <2>1. pushed \in Nat
    BY <1>4, <1>5, <1>9, <1>11
  <2>. HIDE DEF pushed
  <2>. QED BY <1>9, <2>1 DEF Skipped, Least
<1>. HIDE DEF late, packets, gap, pushed, skipped, started
<1>13. pushed \in 0 .. InputRoom /\ skipped \in 0 .. InputRoom /\ skipped <= pushed
  BY <1>4, <1>5, <1>9, <1>11, <1>12
<1>14. Starts(skipped, late) <=> ~primed /\ skipped + late >= prime + Block /\ skipped >= Block
  BY DEF Starts
<1>15. started = IF Starts(skipped, late)
                 THEN IF Excess(skipped, late) <= skipped - Block THEN skipped - Excess(skipped, late) ELSE Block
                 ELSE skipped
  <2>1. Excess(skipped, late) = skipped + late - (prime + Block)
    BY DEF Excess
  <2>. QED BY <1>4, <1>5, <1>9, <1>13, <2>1 DEF started, Started, Least
<1>16. Excess(skipped, late) = skipped + late - (prime + Block)
  BY DEF Excess
<1>17. started \in 0 .. InputRoom
  BY <1>4, <1>5, <1>9, <1>13, <1>14, <1>15, <1>16
<1>18. /\ FarAbove(started) <=> started > prime + FifoPeriod + 8 * Block
       /\ Trimmed(started) = IF FarAbove(started) THEN prime + Block ELSE started
  BY DEF FarAbove, Trimmed
<1>19. ready \in 0 .. InputRoom
  BY <1>4, <1>5, <1>17, <1>18
<1>20. queued' \in 0 .. InputRoom
  BY <1>5, <1>10, <1>19
<1>21. prime' \in FirstPrime .. MostPrime
  <2>1. Grown \in FirstPrime .. MostPrime
    <3>1. prime \div 4 \in Nat
      BY <1>4, <1>5, Quotient
    <3>. QED BY <1>4, <1>5, <3>1 DEF Grown, Least, Most
  <2>. QED BY <1>4, <1>10, <2>1
<1>22. primed' \in BOOLEAN /\ clipped' \in BOOLEAN
  <2>1. primed' \in BOOLEAN
    BY <1>4, <1>10
  <2>2. clipped' \in BOOLEAN
    <3>1. CASE Starts(skipped, late)
      <4>1. clipped' = (Excess(skipped, late) > skipped - Block)
        BY <1>10, <3>1
      <4>. QED BY <4>1
    <3>2. CASE ~Starts(skipped, late)
      <4>1. clipped' = \/ clipped \/ pushed < queued + packets
                       \/ primed /\ (gap > pushed \/ FarAbove(started))
        BY <1>10, <3>2
      <4>. QED BY <4>1
    <3>. QED BY <3>1, <3>2
  <2>. QED BY <2>1, <2>2
<1>23. TypeOK'
  <2>1. queued' \in 0 .. Most(InputRoom, OutputRoom)'
    BY <1>5, <1>6, <1>20 DEF Most
  <2>2. held' \in BOOLEAN
    BY <1>3
  <2>. QED BY <1>2, <1>3, <1>6, <1>9, <1>10, <1>21, <1>22, <2>1, <2>2 DEF TypeOK
<1>24. InputQueue'
  BY <1>3, <1>4, <1>6, <1>20 DEF InputQueue
<1>25. WaitBounded'
  <2>1. MaxChunk \in Nat
    BY FifoAssumption
  <2>2. queued' + owed' = queued'
    <3>1. owed' = 0 /\ owed' \in Int /\ queued' \in Int
      BY <1>3, <1>4, <1>5, <1>20
    <3>. QED BY <3>1, AddNothing
  <2>3. InputRoom <= Most(InputRoom, Buffer + MaxChunk + 4 * Block) /\ Most(InputRoom, Buffer + MaxChunk + 4 * Block) \in Nat
    BY <1>5, <2>1 DEF Most
  <2>4. Most(InputRoom, Buffer + MaxChunk + 4 * Block)' = Most(InputRoom, Buffer + MaxChunk + 4 * Block)
    BY <1>6 DEF Most
  <2>5. queued' <= Most(InputRoom, Buffer + MaxChunk + 4 * Block)
    BY <1>5, <1>20, <2>3
  <2>6. queued' + owed' <= Most(InputRoom, Buffer + MaxChunk + 4 * Block)
    BY Zenon, <2>2, <2>5
  <2>. QED BY <2>4, <2>6 DEF WaitBounded
(* Read again: what the tick took is what the device produced.                 *)
<1>26. OnTarget'
  <2>1. SUFFICES ASSUME primed', ~clipped' PROVE queued' + undelivered' = prime'
    BY DEF OnTarget
  <2>2. reading /\ ready >= Block /\ queued' = ready - Block /\ prime' = prime
    BY <1>10, <2>1
  <2>3. CASE Starts(skipped, late)
    <3>1. Excess(skipped, late) <= skipped - Block
      <4>1. clipped' = (Excess(skipped, late) > skipped - Block)
        BY <1>10, <2>3
      <4>2. ~(Excess(skipped, late) > skipped - Block)
        BY <2>1, <4>1
      <4>. QED BY <1>4, <1>5, <1>9, <1>13, <1>16, <4>2
    <3>2. started = prime + Block - late
      BY <1>4, <1>5, <1>9, <1>13, <1>15, <1>16, <2>3, <3>1
    <3>3. ~FarAbove(started)
      BY <1>4, <1>5, <1>9, <1>18, <3>2
    <3>. QED BY <1>4, <1>5, <1>9, <1>10, <1>18, <2>2, <3>2, <3>3
  <2>4. CASE ~Starts(skipped, late)
    <3>1. primed /\ ~clipped /\ ~(pushed < queued + packets) /\ ~(gap > pushed) /\ ~FarAbove(started)
      BY <1>10, <2>1, <2>2, <2>4
    <3>2. queued + undelivered = prime
      BY <1>2, <1>3, <3>1 DEF OnTarget
    <3>3. started = queued + packets - gap
      BY <1>4, <1>5, <1>9, <1>11, <1>12, <1>13, <1>15, <2>4, <3>1
    <3>. QED BY <1>4, <1>5, <1>9, <1>10, <1>18, <2>2, <3>1, <3>2, <3>3
  <2>. QED BY <2>3, <2>4
(* Starved: what is left of a backlog that was on its target is under way.     *)
<1>27. Starving
  <2>1. SUFFICES ASSUME primed, ~primed', ~clipped'
                 PROVE  undelivered' > prime /\ (prime' > prime \/ undelivered' > MostPrime)
    BY DEF Starving
  <2>2. reading /\ ready < Block /\ prime' = Grown
    BY <1>10, <2>1
  <2>3. ~Starts(skipped, late)
    BY <1>14, <2>1
  <2>4. ~clipped /\ ~(pushed < queued + packets) /\ ~(gap > pushed) /\ ~FarAbove(started)
    BY <1>10, <2>1, <2>3
  <2>5. queued + undelivered = prime
    BY <1>2, <1>3, <2>1, <2>4 DEF OnTarget
  <2>6. started = queued + packets - gap
    BY <1>4, <1>5, <1>9, <1>11, <1>12, <1>13, <1>15, <2>1, <2>3, <2>4
  <2>7. undelivered' > prime
    BY <1>4, <1>5, <1>9, <1>10, <1>18, <2>2, <2>4, <2>5, <2>6
  <2>8. prime' > prime \/ prime = MostPrime
    <3>1. prime \div 4 \in Nat
      BY <1>4, <1>5, Quotient
    <3>. QED BY <1>4, <1>5, <2>2, <3>1 DEF Grown, Least, Most
  <2>. QED BY <2>7, <2>8
<1>. QED BY <1>23, <1>24, <1>25, <1>26, <1>27 DEF IInv

-----------------------------------------------------------------------------
(* An output's tick.                                                           *)

LEMMA HoldOutputKeeps == IInv /\ HoldOutput => IInv'
<1>1. SUFFICES ASSUME IInv, HoldOutput PROVE IInv'
  OBVIOUS
<1>2. TypeOK /\ InputQueue /\ OnTarget /\ WaitBounded
  BY <1>1 DEF IInv
<1>3. /\ side = "output" /\ held
      /\ UNCHANGED <<side, shared, held, queued, prime, primed, undelivered, clipped, owed, low>>
  BY <1>1 DEF HoldOutput, inputs
<1>4. padding' \in 0 .. Buffer
  <2>1. PICK left \in 0 .. padding : padding' = Most(left, DeviceFill)
    BY <1>1 DEF HoldOutput
  <2>2. padding \in 0 .. Buffer /\ Buffer \in Nat /\ DeviceFill \in 0 .. Buffer
    BY <1>2, Sizes DEF TypeOK
  <2>. QED BY <2>1, <2>2 DEF Most
<1>5. TypeOK'
  BY <1>2, <1>3, <1>4
     DEF TypeOK, InputRoom, OutputRoom, MostPrime, FirstPrime, FifoPeriod, Buffer, Period
<1>6. WaitBounded'
  BY <1>2, <1>3 DEF WaitBounded, InputRoom, MostPrime, FirstPrime, FifoPeriod, Buffer, Period
<1>7. InputQueue' /\ OnTarget'
  BY <1>3 DEF InputQueue, OnTarget
<1>. QED BY <1>5, <1>6, <1>7 DEF IInv

LEMMA WriteOutputKeeps == IInv /\ WriteOutput => IInv'
<1>1. SUFFICES ASSUME IInv, WriteOutput PROVE IInv'
  OBVIOUS
<1>2. TypeOK /\ InputQueue /\ OnTarget /\ WaitBounded
  BY <1>1 DEF IInv
<1>3. side = "output" /\ held' = FALSE /\ UNCHANGED <<side, shared, prime, primed, undelivered, clipped>>
  BY <1>1 DEF WriteOutput, inputs
<1>4. /\ Block \in Nat \ {0} /\ Buffer \in Nat /\ 4 * Block <= Buffer /\ FifoPeriod \in Nat \ {0}
      /\ MostPrime \in Nat /\ InputRoom = MostPrime + FifoPeriod + 16 * Block /\ OutputRoom = Buffer + 16 * Block
  BY <1>2, Sizes DEF TypeOK
<1>5. /\ InputRoom' = InputRoom /\ OutputRoom' = OutputRoom /\ Buffer' = Buffer
      /\ FirstPrime' = FirstPrime /\ MostPrime' = MostPrime
  BY <1>3 DEF InputRoom, OutputRoom, MostPrime, FirstPrime, FifoPeriod, Buffer, Period
<1>6. queued \in Nat /\ owed \in Nat /\ padding \in 0 .. Buffer /\ low \in 0 .. LowTicks /\ held \in BOOLEAN
  BY <1>2 DEF TypeOK
<1>7. MaxChunk \in Nat /\ Chunks \subseteq 0 .. MaxChunk /\ LowTicks \in Nat /\ MaxMissed \in Nat
  BY FifoAssumption
<1>8. PICK left \in 0 .. padding, missed \in 0 .. MaxMissed, chunk \in Chunks : \E fill \in 0 .. left :
       LET target == TargetFor(chunk)
           pushed == PushedOutput
           seen == pushed + Owed(left, missed) + fill
           refill == Refill(seen, target, low)
           silence == Owed(left, missed) + refill
           surplus == Surplus(seen + refill, target, chunk)
           fromSilence == Least(surplus, silence)
           ahead == silence - fromSilence
           behind == pushed - Least(surplus - fromSilence, pushed)
           written == Least(ahead + behind, Buffer - left)
       IN  /\ low' = IF IsLow(seen, target) /\ refill = 0 THEN Least(low + 1, LowTicks) ELSE 0
           /\ owed' = ahead - Least(written, ahead)
           /\ queued' = Popped(behind, ahead, written)
           /\ padding' \in Written(left, written)
  BY <1>1 DEF WriteOutput
<1>9. PICK fill \in 0 .. left :
       LET target == TargetFor(chunk)
           pushed == PushedOutput
           seen == pushed + Owed(left, missed) + fill
           refill == Refill(seen, target, low)
           silence == Owed(left, missed) + refill
           surplus == Surplus(seen + refill, target, chunk)
           fromSilence == Least(surplus, silence)
           ahead == silence - fromSilence
           behind == pushed - Least(surplus - fromSilence, pushed)
           written == Least(ahead + behind, Buffer - left)
       IN  /\ low' = IF IsLow(seen, target) /\ refill = 0 THEN Least(low + 1, LowTicks) ELSE 0
           /\ owed' = ahead - Least(written, ahead)
           /\ queued' = Popped(behind, ahead, written)
           /\ padding' \in Written(left, written)
  BY <1>8
<1>. DEFINE target == TargetFor(chunk)
            pushed == PushedOutput
            due == Owed(left, missed)
            seen == pushed + due + fill
            refill == Refill(seen, target, low)
            silence == due + refill
            margin == chunk + 4 * Block
            surplus == Surplus(seen + refill, target, chunk)
            fromSilence == Least(surplus, silence)
            ahead == silence - fromSilence
            behind == pushed - Least(surplus - fromSilence, pushed)
            room == Buffer - left
            written == Least(ahead + behind, room)
<1>10. /\ low' = IF IsLow(seen, target) /\ refill = 0 THEN Least(low + 1, LowTicks) ELSE 0
       /\ owed' = ahead - Least(written, ahead)
       /\ queued' = Popped(behind, ahead, written)
       /\ padding' \in Written(left, written)
  BY <1>9
<1>11. chunk \in 0 .. MaxChunk /\ left \in 0 .. Buffer /\ fill \in Nat /\ room \in Nat /\ margin \in Nat
  BY <1>4, <1>6, <1>7
<1>12. \A c \in Nat : TargetFor(c) \in 0 .. Buffer
  BY <1>4 DEF TargetFor, Most
<1>13. target \in 0 .. Buffer
  BY <1>11, <1>12, <1>7
<1>14. pushed \in 0 .. OutputRoom
  BY <1>4, <1>6 DEF PushedOutput, Least
<1>15. due \in Nat
  <2>1. missed * Block \in Nat
    BY <1>4, <1>7
  <2>2. TargetFor(0) \in 0 .. Buffer
    BY <1>12
  <2>3. PrimeSilence(left) \in Nat
    BY <1>4, <1>11, <2>2 DEF PrimeSilence, Most
  <2>. QED BY <1>6, <2>1, <2>3 DEF Owed
<1>. HIDE DEF target, pushed, due, room, margin
<1>16. seen \in Nat
  BY <1>11, <1>14, <1>15, <1>4
<1>. HIDE DEF seen
<1>17. refill \in Nat
  BY <1>4, <1>13, <1>16 DEF Refill, IsLow
<1>. HIDE DEF refill
<1>18. silence \in Nat /\ seen + refill = pushed + silence + fill
  BY <1>4, <1>11, <1>14, <1>15, <1>16, <1>17 DEF seen
<1>. HIDE DEF silence
<1>19. surplus = IF pushed + silence + fill > target + margin THEN pushed + silence + fill - target ELSE 0
  <2>1. target + margin = target + chunk + 4 * Block
    BY <1>4, <1>7, <1>11, <1>13 DEF margin
  <2>2. surplus = IF seen + refill > target + margin THEN seen + refill - target ELSE 0
    <3>1. surplus = IF seen + refill > target + chunk + 4 * Block THEN (seen + refill) - target ELSE 0
      BY DEF Surplus
    <3>2. (seen + refill) - target = seen + refill - target
      BY <1>4, <1>13, <1>16, <1>17
    <3>. HIDE DEF surplus
    <3>. QED BY <2>1, <3>1, <3>2
  <2>3. seen + refill - target = pushed + silence + fill - target
    BY <1>4, <1>11, <1>13, <1>14, <1>16, <1>17, <1>18
  <2>. HIDE DEF surplus
  <2>. QED BY <1>18, <2>2, <2>3
<1>. HIDE DEF surplus
<1>20. /\ written \in 0 .. room
       /\ ahead - Least(written, ahead) \in Nat
       /\ Popped(behind, ahead, written) \in 0 .. pushed
       /\ Popped(behind, ahead, written) + (ahead - Least(written, ahead)) <= target + margin
  <2>1. pushed \in Nat /\ target \in Nat
    BY <1>4, <1>13, <1>14
  <2>2. /\ fromSilence = Least(surplus, silence) /\ ahead = silence - fromSilence
        /\ behind = pushed - Least(surplus - fromSilence, pushed) /\ written = Least(ahead + behind, room)
    OBVIOUS
  <2>. HIDE DEF fromSilence, ahead, behind, written
  <2>3. surplus \in Nat
    BY <1>11, <1>18, <1>19, <2>1
  <2>4. fromSilence \in 0 .. silence /\ fromSilence <= surplus /\ (fromSilence = surplus \/ fromSilence = silence)
    BY <1>11, <1>18, <1>19, <2>1, <2>2, <2>3 DEF Least
  <2>5. ahead \in Nat /\ ahead = silence - fromSilence
    BY <1>11, <1>18, <1>19, <2>1, <2>2, <2>4
  <2>6. /\ behind \in 0 .. pushed
        /\ behind = IF surplus - fromSilence <= pushed THEN pushed - (surplus - fromSilence) ELSE 0
    BY <1>11, <1>18, <1>19, <2>1, <2>2, <2>3, <2>4 DEF Least
  <2>7. ahead + behind <= target + margin
    BY <1>11, <1>18, <1>19, <2>1, <2>2, <2>3, <2>4, <2>5, <2>6
  <2>8. written \in 0 .. room /\ written <= ahead + behind
    BY <1>11, <1>18, <1>19, <2>1, <2>2, <2>5, <2>6 DEF Least
  <2>9. /\ Popped(behind, ahead, written) = IF written <= ahead THEN behind ELSE behind - (written - ahead)
        /\ ahead - Least(written, ahead) = IF written <= ahead THEN ahead - written ELSE 0
    BY <1>11, <1>18, <1>19, <2>1, <2>2, <2>5, <2>6, <2>8 DEF Popped, Least
  <2>10. Popped(behind, ahead, written) \in 0 .. pushed /\ ahead - Least(written, ahead) \in Nat
    BY <1>11, <1>18, <1>19, <2>1, <2>2, <2>5, <2>6, <2>8, <2>9
  <2>11. Popped(behind, ahead, written) + (ahead - Least(written, ahead)) <= ahead + behind
    BY <1>11, <1>18, <1>19, <2>1, <2>2, <2>5, <2>6, <2>8, <2>9
  <2>. QED BY <1>11, <1>18, <1>19, <2>1, <2>2, <2>5, <2>6, <2>7, <2>8, <2>10, <2>11
<1>. HIDE DEF fromSilence, ahead, behind, written
<1>21. owed' \in Nat /\ queued' \in 0 .. OutputRoom
  BY <1>4, <1>10, <1>14, <1>20
<1>22. queued' + owed' <= target + margin
  BY Zenon, <1>10, <1>20
<1>23. padding' \in 0 .. Buffer
  BY <1>4, <1>10, <1>11, <1>20 DEF Written, room
<1>24. low' \in 0 .. LowTicks
  BY <1>6, <1>7, <1>10 DEF Least
<1>25. TypeOK'
  <2>1. queued' \in 0 .. Most(InputRoom, OutputRoom)'
    BY <1>4, <1>5, <1>21 DEF Most
  <2>2. held' \in BOOLEAN
    BY <1>3
  <2>. QED BY <1>2, <1>3, <1>5, <1>21, <1>23, <1>24, <2>1, <2>2 DEF TypeOK
<1>26. WaitBounded'
  <2>1. target + margin <= Most(InputRoom, Buffer + MaxChunk + 4 * Block)
    BY <1>4, <1>7, <1>11, <1>13 DEF Most, margin
  <2>2. Most(InputRoom, Buffer + MaxChunk + 4 * Block)' = Most(InputRoom, Buffer + MaxChunk + 4 * Block)
    BY <1>5 DEF Most
  <2>3. queued' + owed' \in Int /\ target + margin \in Int
    BY <1>4, <1>11, <1>13, <1>21, <1>22
  <2>4. queued' + owed' <= Most(InputRoom, Buffer + MaxChunk + 4 * Block)
    BY <1>4, <1>7, <1>22, <2>1, <2>3 DEF Most
  <2>. QED BY <2>2, <2>4 DEF WaitBounded
<1>27. InputQueue' /\ OnTarget'
  BY <1>3 DEF InputQueue, OnTarget
<1>. QED BY <1>25, <1>26, <1>27 DEF IInv

LEMMA Kept == IInv /\ [Next]_vars => IInv'
<1>1. SUFFICES ASSUME IInv, [Next]_vars PROVE IInv'
  OBVIOUS
<1>2. CASE UNCHANGED vars
  BY <1>1, <1>2
     DEF IInv, TypeOK, InputQueue, OnTarget, WaitBounded, vars, inputs, outputs,
         InputRoom, OutputRoom, MostPrime, FirstPrime, FifoPeriod, Buffer, Period
<1>. QED BY <1>1, <1>2, HoldInputKeeps, ReadInputKeeps, HoldOutputKeeps, WriteOutputKeeps DEF Next

(* In every behaviour the counts of a FIFO stay in its room; an input being    *)
(* read has its target's frames queued or under way, or was started short or   *)
(* cut; and what waits behind an output stays within its target and margins,   *)
(* however packets come and ticks are missed (HwInputFifo, HwOutputFifo).      *)
THEOREM Invariance == Spec => []IInv
BY Initially, Kept, PTL DEF Spec

(* An input being read has its target's frames queued or under way.            *)
THEOREM InputsOnTarget == Spec => []OnTarget
<1>1. IInv => OnTarget
  BY DEF IInv
<1>. QED BY <1>1, Invariance, PTL

(* What waits behind an output stays within its target and margins.            *)
THEOREM OutputsBounded == Spec => []WaitBounded
<1>1. IInv => WaitBounded
  BY DEF IInv
<1>. QED BY <1>1, Invariance, PTL

(* An input starves only by packets later than its target, which then grows    *)
(* (HwInputFifo::read).                                                        *)
THEOREM StarvesGrow == Spec => StarvesLate
<1>1. IInv /\ [Next]_vars => [Starving]_vars
  <2>1. SUFFICES ASSUME IInv, Next PROVE Starving
    OBVIOUS
  <2>2. CASE ReadInput
    BY <2>1, <2>2, ReadInputKeeps
  <2>3. CASE HoldInput \/ HoldOutput \/ WriteOutput
    BY <2>3 DEF HoldInput, HoldOutput, WriteOutput, inputs, Starving
  <2>. QED BY <2>1, <2>2, <2>3 DEF Next
<1>2. Starving => (primed /\ ~primed' /\ ~clipped' =>
                    undelivered' > prime /\ (prime' > prime \/ undelivered' > MostPrime))
  BY DEF Starving
<1>. QED BY <1>1, <1>2, Invariance, PTL DEF Spec, StarvesLate

==============================================================================
