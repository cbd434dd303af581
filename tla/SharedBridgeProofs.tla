-------------------------- MODULE SharedBridgeProofs --------------------------
(***************************************************************************)
(* Proofs about SharedBridge for every set of places and channels, every   *)
(* ring of at least three blocks, every buffer size and every bound.       *)
(***************************************************************************)
EXTENDS SharedBridge, TLAPS

(***************************************************************************)
(* Arithmetic of the delay and of the ring slots.                          *)
(***************************************************************************)

\* A delay is at least two blocks and leaves one block of the ring.
LEMMA DelayRange == \A d \in Delays : d \in Int /\ 2 <= d /\ d <= Ring - 1
<1> SUFFICES ASSUME NEW bridge \in BridgeBuffers, NEW asio \in AsioBuffers
             PROVE  LET d == BridgeDelayBlocks(bridge, asio)
                    IN  d \in Int /\ 2 <= d /\ d <= Ring - 1
  BY DEF Delays
<1>1. bridge \in Nat /\ asio \in Nat
  BY BufferAssumption
<1>2. CASE asio = 0
  BY <1>2, RingAssumption DEF BridgeDelayBlocks
<1>3. CASE asio # 0
  <2>1. (bridge + asio - 1) \div asio \in Int
    BY <1>1, <1>3
  <2>2. QED
    BY <1>3, <2>1, RingAssumption DEF BridgeDelayBlocks
<1>4. QED
  BY <1>2, <1>3

LEMMA SlotType == \A n \in Int : Slot(n) \in Slots
  BY RingAssumption DEF Slot, Slots

\* Two blocks less than a ring apart have different slots.
LEMMA SlotDistinct ==
  ASSUME NEW m \in Int, NEW n \in Int, m < n, n < m + Ring
  PROVE  Slot(m) # Slot(n)
<1> SUFFICES ASSUME m % Ring = n % Ring PROVE FALSE
  BY DEF Slot
<1> DEFINE q == m \div Ring
           r == n \div Ring
<1>1. q \in Int /\ r \in Int
  BY RingAssumption
<1>2. m = Ring * q + (m % Ring) /\ n = Ring * r + (n % Ring)
  BY RingAssumption
<1> HIDE DEF q, r
<1>3. n - m = Ring * r - Ring * q
  <2>1. m % Ring \in Int /\ Ring * q \in Int /\ Ring * r \in Int
    BY <1>1, RingAssumption
  <2>2. QED
    BY <1>2, <2>1
<1>4. Ring * r - Ring * q = Ring * (r - q)
  BY <1>1, RingAssumption
<1>5. CASE r <= q
  <2>1. Ring * (r - q) <= 0
    BY <1>1, <1>5, RingAssumption
  <2>2. QED
    BY <1>3, <1>4, <2>1
<1>6. CASE r >= q + 1
  <2>1. Ring * (r - q) >= Ring
    BY <1>1, <1>6, RingAssumption
  <2>2. QED
    BY <1>3, <1>4, <2>1, RingAssumption
<1>7. QED
  BY <1>1, <1>5, <1>6


USE DEF Silence, Blocks, Audio, counts, rings, region, holder, worker, threads, clients,
  RegionHeld, Ready, Ticked, ClearedRing, UnlessStopped, Behind

LEMMA NextCases ==
  ASSUME [Next]_vars
  PROVE  \/ MasterOpen \/ MasterStart \/ MasterStop \/ MasterClose \/ MasterCrash \/ SaveTable
         \/ WorkerTick \/ WorkerOut \/ WorkerLook \/ WorkerMix \/ WorkerPublish \/ WorkerSignal
         \/ \E p \in Places :
              \/ ClientClaim(p) \/ ClientReset(p) \/ ClientClear(p) \/ ClientJoin(p)
              \/ ClientRun(p) \/ ClientStop(p) \/ ClientStopped(p) \/ ClientRelease(p)
              \/ ClientCrash(p) \/ ClientWake(p) \/ ClientCatchUp(p) \/ ClientIdle(p)
              \/ ClientRead(p) \/ ClientWrite(p) \/ ClientAdvance(p)
         \/ UNCHANGED vars
  BY DEF Next, Master, Worker, App, Thread

LEMMA TypeStep ==
  ASSUME TypeOK, CursorInv, [Next]_vars
  PROVE  TypeOK'
<1> USE DEF TypeOK
<1>1. CASE MasterOpen
  <2>1. CASE \E p \in Places : Mapped(p)
    BY <1>1, <2>1 DEF MasterOpen, WorkerStates
  <2>2. CASE ~(\E p \in Places : Mapped(p))
    <3>1. /\ owner' = NoOwner /\ masterBlocks' = 0 /\ clientBlocks' = NoBlocks
          /\ toClients' = NoOutput /\ fromClient' = NoInput
          /\ since' = 0 /\ joined' = NoBlocks /\ gaps' = [p \in Places |-> {}]
      BY <1>1, <2>2 DEF MasterOpen
    <3>2. toClients' \in [Slots -> [Channels -> Audio]]
      BY <3>1 DEF NoOutput, NoAudio
    <3>3. fromClient' \in [Places -> [Slots -> Audio]]
      BY <3>1 DEF NoInput
    <3>4. /\ owner' \in [Places -> BOOLEAN] /\ masterBlocks' \in Blocks
          /\ clientBlocks' \in [Places -> Blocks \cup {-1}]
          /\ since' \in Blocks /\ joined' \in [Places -> Blocks]
          /\ gaps' \in [Places -> SUBSET Blocks]
      BY <3>1, BoundAssumption DEF NoOwner, NoBlocks
    <3>5. QED
      BY <1>1, <3>2, <3>3, <3>4 DEF MasterOpen, WorkerStates
  <2>3. QED
    BY <2>1, <2>2
<1>2. CASE MasterStart
  BY <1>2 DEF MasterStart, WorkerStates
<1>3. CASE MasterStop
  BY <1>3, BoundAssumption DEF MasterStop, HolderGone, WorkerStates
<1>4. CASE MasterClose
  BY <1>4 DEF MasterClose, WorkerStates
<1>5. CASE MasterCrash
  BY <1>5, SlotType, BoundAssumption DEF MasterCrash, HolderGone, SlotAudio, WorkerStates
<1>6. CASE SaveTable
  BY <1>6 DEF SaveTable
<1>7. CASE WorkerTick
  BY <1>7 DEF WorkerTick, WorkerStates
<1>8. CASE WorkerOut
  BY <1>8, SlotType, BoundAssumption DEF WorkerOut, SlotAudio, WorkerStates
<1>9. CASE WorkerLook
  BY <1>9, DelayRange, BoundAssumption DEF WorkerLook, WorkerStates
<1>10. CASE WorkerMix
  BY <1>10, SlotType DEF WorkerMix, WorkerStates
<1>11. CASE WorkerPublish
  BY <1>11, BoundAssumption DEF WorkerPublish, CursorInv, WorkerStates
<1>12. CASE WorkerSignal
  BY <1>12 DEF WorkerSignal, WorkerStates
<1>13. ASSUME NEW p \in Places, ClientClaim(p) PROVE TypeOK'
  BY <1>13 DEF ClientClaim, ClientStates
<1>14. ASSUME NEW p \in Places, ClientReset(p) PROVE TypeOK'
  BY <1>14 DEF ClientReset, ClientStates
<1>15. ASSUME NEW p \in Places, ClientClear(p) PROVE TypeOK'
  BY <1>15 DEF ClientClear, ClientStates
<1>16. ASSUME NEW p \in Places, ClientJoin(p) PROVE TypeOK'
  BY <1>16 DEF ClientJoin, ClientStates
<1>17. ASSUME NEW p \in Places, ClientRun(p) PROVE TypeOK'
  BY <1>17 DEF ClientRun, ClientStates, ThreadStates
<1>18. ASSUME NEW p \in Places, ClientStop(p) PROVE TypeOK'
  BY <1>18 DEF ClientStop
<1>19. ASSUME NEW p \in Places, ClientStopped(p) PROVE TypeOK'
  BY <1>19, BoundAssumption DEF ClientStopped, Forget, NoAudio, ClientStates
<1>20. ASSUME NEW p \in Places, ClientRelease(p) PROVE TypeOK'
  BY <1>20 DEF ClientRelease, ClientStates
<1>21. ASSUME NEW p \in Places, ClientCrash(p) PROVE TypeOK'
  <2>1. /\ clientPc' = [clientPc EXCEPT ![p] = "closed"]
        /\ clockStop' = [clockStop EXCEPT ![p] = FALSE]
        /\ published' = [published EXCEPT ![p] = 0]
        /\ nextBlock' = [nextBlock EXCEPT ![p] = 0]
        /\ input' = [input EXCEPT ![p] = NoAudio]
        /\ UNCHANGED <<counts, toClients, bridgeTick, table, worker, joined, gaps>>
    BY <1>21 DEF ClientCrash, Forget
  <2>2. fromClient' \in [Places -> [Slots -> Audio]]
    <3>1. CASE UNCHANGED fromClient
      BY <3>1
    <3>2. CASE fromClient' = [fromClient EXCEPT ![p][Slot(nextBlock[p])] = nextBlock[p]]
      BY <3>2
    <3>3. QED
      BY <1>21, <3>1, <3>2 DEF ClientCrash
  <2>3. /\ clientPc' \in [Places -> ClientStates] /\ clockStop' \in [Places -> BOOLEAN]
        /\ published' \in [Places -> Blocks] /\ nextBlock' \in [Places -> Blocks]
    BY <2>1, BoundAssumption DEF ClientStates
  <2>4. input' \in [Places -> [Channels -> Audio]]
    BY <2>1 DEF NoAudio
  <2>5. QED
    BY <2>1, <2>2, <2>3, <2>4
<1>22. ASSUME NEW p \in Places, ClientWake(p) PROVE TypeOK'
  BY <1>22 DEF ClientWake, ClientStates, ThreadStates
<1>23. ASSUME NEW p \in Places, ClientCatchUp(p) PROVE TypeOK'
  <2> DEFINE first == IF RingBehind(p) THEN masterBlocks - 1 ELSE nextBlock[p]
  <2>1. first \in Blocks /\ nextBlock[p] \in Blocks /\ Slot(first) \in Slots
    <3>1. first \in Blocks
      BY <1>23, RingAssumption, BoundAssumption DEF ClientCatchUp, RingBehind
    <3>2. QED
      BY <3>1, SlotType, BoundAssumption
  <2>2. /\ nextBlock' = [nextBlock EXCEPT ![p] = first]
        /\ gaps' = [gaps EXCEPT ![p] = @ \cup (nextBlock[p]..(first - 1))]
        /\ UNCHANGED <<region, bridgeTick, table, worker, clockStop, joined>>
    BY <1>23 DEF ClientCatchUp
  <2> HIDE DEF first
  <2>3. nextBlock' \in [Places -> Blocks] /\ gaps' \in [Places -> SUBSET Blocks]
    <3>1. nextBlock[p]..(first - 1) \subseteq Blocks
      BY <2>1, BoundAssumption
    <3>2. QED
      BY <2>1, <2>2, <3>1
  <2>4. CASE clockStop[p]
    <3>1. clientPc' = [clientPc EXCEPT ![p] = "exited"] /\ UNCHANGED <<published, input>>
      BY <1>23, <2>4 DEF ClientCatchUp
    <3>2. QED
      BY <2>2, <2>3, <3>1 DEF ClientStates, ThreadStates
  <2>5. CASE ~clockStop[p]
    <3>1. /\ clientPc' = [clientPc EXCEPT ![p] = "read"]
          /\ published' = [published EXCEPT ![p] = masterBlocks]
          /\ input' = [input EXCEPT ![p] = toClients[Slot(first)]]
      BY <1>23, <2>5 DEF ClientCatchUp, first
    <3>2. input' \in [Places -> [Channels -> Audio]]
      BY <2>1, <3>1
    <3>3. QED
      BY <2>2, <2>3, <3>1, <3>2 DEF ClientStates, ThreadStates
  <2>6. QED
    BY <2>4, <2>5
<1>24. ASSUME NEW p \in Places, ClientIdle(p) PROVE TypeOK'
  BY <1>24 DEF ClientIdle, LoopEnd, ClientStates, ThreadStates
<1>25. ASSUME NEW p \in Places, ClientRead(p) PROVE TypeOK'
  BY <1>25 DEF ClientRead, ClientStates, ThreadStates
<1>26. ASSUME NEW p \in Places, ClientWrite(p) PROVE TypeOK'
  BY <1>26, SlotType, BoundAssumption DEF ClientWrite, NoAudio, ClientStates, ThreadStates
<1>27. ASSUME NEW p \in Places, ClientAdvance(p) PROVE TypeOK'
  <2> DEFINE next == nextBlock[p] + 1
  <2>1. next \in Blocks /\ Slot(next) \in Slots
    <3>1. next \in Blocks
      BY <1>27, BoundAssumption DEF ClientAdvance, CursorInv
    <3>2. QED
      BY <3>1, SlotType, BoundAssumption
  <2>2. /\ nextBlock' = [nextBlock EXCEPT ![p] = next]
        /\ clientBlocks' = [clientBlocks EXCEPT ![p] = next]
        /\ UNCHANGED <<owner, masterBlocks, rings, bridgeTick, table, worker, clockStop, joined, gaps>>
    BY <1>27 DEF ClientAdvance
  <2> HIDE DEF next
  <2>3. CASE next < published[p] /\ ~clockStop[p]
    <3>1. /\ clientPc' = [clientPc EXCEPT ![p] = "read"]
          /\ input' = [input EXCEPT ![p] = toClients[Slot(next)]]
          /\ UNCHANGED published
      BY <1>27, <2>3 DEF ClientAdvance, next
    <3>2. input' \in [Places -> [Channels -> Audio]]
      BY <2>1, <3>1
    <3>3. QED
      BY <2>1, <2>2, <3>1, <3>2 DEF ClientStates, ThreadStates
  <2>4. CASE ~(next < published[p] /\ ~clockStop[p])
    <3>1. /\ clientPc' = [clientPc EXCEPT ![p] = LoopEnd(p)]
          /\ published' = [published EXCEPT ![p] = 0]
          /\ UNCHANGED input
      BY <1>27, <2>4 DEF ClientAdvance, next
    <3>2. LoopEnd(p) \in ClientStates
      BY DEF LoopEnd, ClientStates, ThreadStates
    <3>3. QED
      BY <2>1, <2>2, <3>1, <3>2, BoundAssumption
  <2>5. QED
    BY <2>3, <2>4
<1>28. CASE UNCHANGED vars
  BY <1>28 DEF vars
<1>29. QED
  BY NextCases, <1>1, <1>2, <1>3, <1>4, <1>5, <1>6, <1>7, <1>8, <1>9, <1>10, <1>11, <1>12,
     <1>13, <1>14, <1>15, <1>16, <1>17, <1>18, <1>19, <1>20, <1>21, <1>22, <1>23, <1>24,
     <1>25, <1>26, <1>27, <1>28

\* A place keeps what its phase promises.
LEMMA PhaseStep ==
  ASSUME TypeOK, CursorInv, PhaseInv, [Next]_vars
  PROVE  PhaseInv'
<1> USE DEF TypeOK, PhaseInv, CursorInv, Mapped, Running, ThreadStates, ClientStates
<1>1. CASE MasterOpen
  BY <1>1 DEF MasterOpen
<1>2. CASE MasterStart
  BY <1>2 DEF MasterStart
<1>3. CASE MasterStop
  BY <1>3 DEF MasterStop
<1>4. CASE MasterClose
  BY <1>4 DEF MasterClose
<1>5. CASE MasterCrash
  BY <1>5 DEF MasterCrash
<1>6. CASE SaveTable
  BY <1>6 DEF SaveTable
<1>7. CASE WorkerTick
  BY <1>7 DEF WorkerTick
<1>8. CASE WorkerOut
  BY <1>8 DEF WorkerOut
<1>9. CASE WorkerLook
  BY <1>9 DEF WorkerLook
<1>10. CASE WorkerMix
  BY <1>10 DEF WorkerMix
<1>11. CASE WorkerPublish
  BY <1>11 DEF WorkerPublish
<1>12. CASE WorkerSignal
  BY <1>12 DEF WorkerSignal
<1>13. ASSUME NEW p \in Places, ClientClaim(p) PROVE PhaseInv'
  BY <1>13 DEF ClientClaim
<1>14. ASSUME NEW p \in Places, ClientReset(p) PROVE PhaseInv'
  BY <1>14 DEF ClientReset
<1>15. ASSUME NEW p \in Places, ClientClear(p) PROVE PhaseInv'
  BY <1>15 DEF ClientClear
<1>16. ASSUME NEW p \in Places, ClientJoin(p) PROVE PhaseInv'
  BY <1>16 DEF ClientJoin
<1>17. ASSUME NEW p \in Places, ClientRun(p) PROVE PhaseInv'
  BY <1>17 DEF ClientRun
<1>18. ASSUME NEW p \in Places, ClientStop(p) PROVE PhaseInv'
  BY <1>18 DEF ClientStop
<1>19. ASSUME NEW p \in Places, ClientStopped(p) PROVE PhaseInv'
  BY <1>19 DEF ClientStopped, Forget
<1>20. ASSUME NEW p \in Places, ClientRelease(p) PROVE PhaseInv'
  BY <1>20 DEF ClientRelease
<1>21. ASSUME NEW p \in Places, ClientCrash(p) PROVE PhaseInv'
  BY <1>21 DEF ClientCrash, Forget
<1>22. ASSUME NEW p \in Places, ClientWake(p) PROVE PhaseInv'
  BY <1>22 DEF ClientWake
<1>23. ASSUME NEW p \in Places, ClientCatchUp(p) PROVE PhaseInv'
  BY <1>23 DEF ClientCatchUp
<1>24. ASSUME NEW p \in Places, ClientIdle(p) PROVE PhaseInv'
  BY <1>24, BoundAssumption DEF ClientIdle, LoopEnd
<1>25. ASSUME NEW p \in Places, ClientRead(p) PROVE PhaseInv'
  BY <1>25 DEF ClientRead
<1>26. ASSUME NEW p \in Places, ClientWrite(p) PROVE PhaseInv'
  BY <1>26, SlotType, BoundAssumption DEF ClientWrite
<1>27. ASSUME NEW p \in Places, ClientAdvance(p) PROVE PhaseInv'
  BY <1>27 DEF ClientAdvance, LoopEnd
<1>28. CASE UNCHANGED vars
  BY <1>28 DEF vars
<1>29. QED
  BY NextCases, <1>1, <1>2, <1>3, <1>4, <1>5, <1>6, <1>7, <1>8, <1>9, <1>10, <1>11, <1>12,
     <1>13, <1>14, <1>15, <1>16, <1>17, <1>18, <1>19, <1>20, <1>21, <1>22, <1>23, <1>24,
     <1>25, <1>26, <1>27, <1>28

\* The counts of a client that runs.
LEMMA CursorFacts ==
  ASSUME TypeOK, CursorInv, NEW p \in Places, Running(p)
  PROVE  /\ clientBlocks[p] \in Int /\ nextBlock[p] \in Int /\ joined[p] \in Int
         /\ masterBlocks \in Int /\ published[p] \in Int
         /\ 0 <= clientBlocks[p] /\ joined[p] <= clientBlocks[p]
         /\ clientBlocks[p] <= nextBlock[p] /\ nextBlock[p] <= masterBlocks
         /\ clientPc[p] \in {"read", "write", "advance"} =>
              nextBlock[p] < published[p] /\ published[p] <= masterBlocks
BY BoundAssumption DEF TypeOK, CursorInv

\* The counts stay in order.
LEMMA CursorStep ==
  ASSUME TypeOK, PhaseInv, CursorInv, [Next]_vars
  PROVE  CursorInv'
<1> USE DEF TypeOK, PhaseInv, CursorInv, Counted, Running, ThreadStates, ClientStates
<1>1. CASE MasterOpen
  BY <1>1 DEF MasterOpen, Mapped, NoBlocks
<1>2. CASE MasterStart
  BY <1>2, BoundAssumption DEF MasterStart
<1>3. CASE MasterStop
  BY <1>3, BoundAssumption DEF MasterStop
<1>4. CASE MasterClose
  BY <1>4, BoundAssumption DEF MasterClose
<1>5. CASE MasterCrash
  BY <1>5, BoundAssumption DEF MasterCrash
<1>6. CASE SaveTable
  BY <1>6, BoundAssumption DEF SaveTable
<1>7. CASE WorkerTick
  BY <1>7, BoundAssumption DEF WorkerTick
<1>8. CASE WorkerOut
  BY <1>8, BoundAssumption DEF WorkerOut
<1>9. CASE WorkerLook
  BY <1>9, BoundAssumption DEF WorkerLook
<1>10. CASE WorkerMix
  BY <1>10, BoundAssumption DEF WorkerMix
<1>11. CASE WorkerPublish
  BY <1>11, BoundAssumption DEF WorkerPublish
<1>12. CASE WorkerSignal
  BY <1>12, BoundAssumption DEF WorkerSignal
<1>13. ASSUME NEW p \in Places, ClientClaim(p) PROVE CursorInv'
  BY <1>13, BoundAssumption DEF ClientClaim
<1>14. ASSUME NEW p \in Places, ClientReset(p) PROVE CursorInv'
  BY <1>14, BoundAssumption DEF ClientReset
<1>15. ASSUME NEW p \in Places, ClientClear(p) PROVE CursorInv'
  BY <1>15, BoundAssumption DEF ClientClear
<1>16. ASSUME NEW p \in Places, ClientJoin(p) PROVE CursorInv'
  BY <1>16, BoundAssumption DEF ClientJoin
<1>17. ASSUME NEW p \in Places, ClientRun(p) PROVE CursorInv'
  BY <1>17, BoundAssumption DEF ClientRun
<1>18. ASSUME NEW p \in Places, ClientStop(p) PROVE CursorInv'
  BY <1>18, BoundAssumption DEF ClientStop
<1>19. ASSUME NEW p \in Places, ClientStopped(p) PROVE CursorInv'
  BY <1>19 DEF ClientStopped, Forget
<1>20. ASSUME NEW p \in Places, ClientRelease(p) PROVE CursorInv'
  BY <1>20, BoundAssumption DEF ClientRelease
<1>21. ASSUME NEW p \in Places, ClientCrash(p) PROVE CursorInv'
  BY <1>21 DEF ClientCrash, Forget
<1>22. ASSUME NEW p \in Places, ClientWake(p) PROVE CursorInv'
  BY <1>22, BoundAssumption DEF ClientWake
<1>23. ASSUME NEW p \in Places, ClientCatchUp(p) PROVE CursorInv'
  <2>1. CASE clockStop[p]
    BY <1>23, <2>1, BoundAssumption DEF ClientCatchUp
  <2>2. CASE ~clockStop[p]
    <3> DEFINE first == IF RingBehind(p) THEN masterBlocks - 1 ELSE nextBlock[p]
    <3>1. /\ clientPc[p] = "woken" /\ masterBlocks > nextBlock[p]
          /\ clientPc' = [clientPc EXCEPT ![p] = "read"]
          /\ nextBlock' = [nextBlock EXCEPT ![p] = first]
          /\ published' = [published EXCEPT ![p] = masterBlocks]
          /\ gaps' = [gaps EXCEPT ![p] = @ \cup (nextBlock[p]..(first - 1))]
          /\ UNCHANGED <<masterBlocks, clientBlocks, joined, workerPc>>
      BY <1>23, <2>2 DEF ClientCatchUp, Behind
    <3>2. nextBlock[p] <= first /\ first < masterBlocks /\ first \in Int
      BY <3>1, BoundAssumption
    <3> HIDE DEF first, PhaseInv
    <3>3. clientBlocks[p]..(first - 1) \subseteq gaps'[p]
      BY <3>1, <3>2, BoundAssumption
    <3>4. ASSUME NEW q \in Places, q # p
          PROVE  /\ clientPc'[q] = clientPc[q] /\ nextBlock'[q] = nextBlock[q]
                 /\ gaps'[q] = gaps[q] /\ published'[q] = published[q]
      BY <3>1, <3>4
    <3>5. /\ clientPc'[p] = "read" /\ nextBlock'[p] = first
          /\ published'[p] = masterBlocks
      BY <3>1
    <3>6. clientBlocks[p] <= first /\ joined[p] <= clientBlocks[p] /\ 0 <= clientBlocks[p]
      BY <3>1, <3>2, CursorFacts
    <3>7. QED
      BY <3>1, <3>2, <3>3, <3>4, <3>5, <3>6, BoundAssumption
  <2>3. QED
    BY <2>1, <2>2
<1>24. ASSUME NEW p \in Places, ClientIdle(p) PROVE CursorInv'
  BY <1>24 DEF ClientIdle, LoopEnd
<1>25. ASSUME NEW p \in Places, ClientRead(p) PROVE CursorInv'
  BY <1>25, BoundAssumption DEF ClientRead
<1>26. ASSUME NEW p \in Places, ClientWrite(p) PROVE CursorInv'
  BY <1>26, BoundAssumption DEF ClientWrite
<1>27. ASSUME NEW p \in Places, ClientAdvance(p) PROVE CursorInv'
  <2> DEFINE next == nextBlock[p] + 1
  <2>1. CASE next < published[p] /\ ~clockStop[p]
    BY <1>27, <2>1, BoundAssumption DEF ClientAdvance
  <2>2. CASE ~(next < published[p] /\ ~clockStop[p])
    <3>1. /\ clientPc[p] = "advance"
          /\ \E pc \in {"wait", "exited"} : clientPc' = [clientPc EXCEPT ![p] = pc]
          /\ nextBlock' = [nextBlock EXCEPT ![p] = next]
          /\ clientBlocks' = [clientBlocks EXCEPT ![p] = next]
          /\ published' = [published EXCEPT ![p] = 0]
          /\ UNCHANGED <<masterBlocks, gaps, joined, workerPc>>
      BY <1>27, <2>2 DEF ClientAdvance, LoopEnd, UnlessStopped
    <3> HIDE DEF PhaseInv, next
    <3>2. joined[p] <= next /\ next <= masterBlocks /\ next \in Int /\ 0 <= next
      BY <3>1, CursorFacts DEF next
    <3>3. next..(next - 1) \subseteq gaps[p]
      BY <3>2
    <3>4. ASSUME NEW q \in Places, q # p
          PROVE  /\ clientPc'[q] = clientPc[q] /\ nextBlock'[q] = nextBlock[q]
                 /\ clientBlocks'[q] = clientBlocks[q] /\ published'[q] = published[q]
      BY <3>1, <3>4
    <3>5. \E pc \in {"wait", "exited"} :
            /\ clientPc'[p] = pc /\ nextBlock'[p] = next /\ clientBlocks'[p] = next
            /\ published'[p] = 0
      BY <3>1
    <3>6. QED
      BY <3>1, <3>2, <3>3, <3>4, <3>5, BoundAssumption
  <2>3. QED
    BY <2>1, <2>2
<1>28. CASE UNCHANGED vars
  BY <1>28 DEF vars
<1>29. QED
  BY NextCases, <1>1, <1>2, <1>3, <1>4, <1>5, <1>6, <1>7, <1>8, <1>9, <1>10, <1>11, <1>12,
     <1>13, <1>14, <1>15, <1>16, <1>17, <1>18, <1>19, <1>20, <1>21, <1>22, <1>23, <1>24,
     <1>25, <1>26, <1>27, <1>28

\* No block is published that a waiting client is not told of.
LEMMA WakeStep ==
  ASSUME TypeOK, CursorInv, WakeInv, [Next]_vars
  PROVE  WakeInv'
<1>1. CASE MasterOpen
  BY <1>1, BoundAssumption DEF MasterOpen, Mapped, NoBlocks, TypeOK, WakeInv, ClientStates, ThreadStates
<1>2. CASE MasterStart
  BY <1>2 DEF MasterStart, TypeOK, WakeInv, ClientStates, ThreadStates
<1>3. CASE MasterStop
  BY <1>3 DEF MasterStop, TypeOK, WakeInv, ClientStates, ThreadStates
<1>4. CASE MasterClose
  BY <1>4 DEF MasterClose, TypeOK, WakeInv, ClientStates, ThreadStates
<1>5. CASE MasterCrash
  BY <1>5 DEF MasterCrash, TypeOK, WakeInv, ClientStates, ThreadStates
<1>6. CASE SaveTable
  BY <1>6 DEF SaveTable, TypeOK, WakeInv, ClientStates, ThreadStates
<1>7. CASE WorkerTick
  BY <1>7 DEF WorkerTick, TypeOK, WakeInv, ClientStates, ThreadStates
<1>8. CASE WorkerOut
  BY <1>8 DEF WorkerOut, TypeOK, WakeInv, ClientStates, ThreadStates
<1>9. CASE WorkerLook
  BY <1>9 DEF WorkerLook, TypeOK, WakeInv, ClientStates, ThreadStates
<1>10. CASE WorkerMix
  BY <1>10 DEF WorkerMix, TypeOK, WakeInv, ClientStates, ThreadStates
<1>11. CASE WorkerPublish
  BY <1>11 DEF WorkerPublish, TypeOK, WakeInv, ClientStates, ThreadStates
<1>12. CASE WorkerSignal
  BY <1>12 DEF WorkerSignal, TypeOK, WakeInv, ClientStates, ThreadStates
<1>13. ASSUME NEW p \in Places, ClientClaim(p) PROVE WakeInv'
  BY <1>13 DEF ClientClaim, TypeOK, WakeInv, ClientStates, ThreadStates
<1>14. ASSUME NEW p \in Places, ClientReset(p) PROVE WakeInv'
  BY <1>14 DEF ClientReset, TypeOK, WakeInv, ClientStates, ThreadStates
<1>15. ASSUME NEW p \in Places, ClientClear(p) PROVE WakeInv'
  BY <1>15 DEF ClientClear, TypeOK, WakeInv, ClientStates, ThreadStates
<1>16. ASSUME NEW p \in Places, ClientJoin(p) PROVE WakeInv'
  BY <1>16 DEF ClientJoin, TypeOK, WakeInv, ClientStates, ThreadStates
<1>17. ASSUME NEW p \in Places, ClientRun(p) PROVE WakeInv'
  BY <1>17 DEF ClientRun, TypeOK, WakeInv, ClientStates, ThreadStates
<1>18. ASSUME NEW p \in Places, ClientStop(p) PROVE WakeInv'
  BY <1>18 DEF ClientStop, TypeOK, WakeInv, ClientStates, ThreadStates
<1>19. ASSUME NEW p \in Places, ClientStopped(p) PROVE WakeInv'
  BY <1>19 DEF ClientStopped, Forget, TypeOK, WakeInv, ClientStates, ThreadStates
<1>20. ASSUME NEW p \in Places, ClientRelease(p) PROVE WakeInv'
  BY <1>20 DEF ClientRelease, TypeOK, WakeInv, ClientStates, ThreadStates
<1>21. ASSUME NEW p \in Places, ClientCrash(p) PROVE WakeInv'
  BY <1>21 DEF ClientCrash, Forget, TypeOK, WakeInv, ClientStates, ThreadStates
<1>22. ASSUME NEW p \in Places, ClientWake(p) PROVE WakeInv'
  BY <1>22 DEF ClientWake, TypeOK, WakeInv, ClientStates, ThreadStates
<1>23. ASSUME NEW p \in Places, ClientCatchUp(p) PROVE WakeInv'
  BY <1>23 DEF ClientCatchUp, TypeOK, WakeInv, ClientStates, ThreadStates
<1>24. ASSUME NEW p \in Places, ClientIdle(p) PROVE WakeInv'
  <2>1. nextBlock[p] = masterBlocks /\ masterBlocks \in Int
    <3>1. nextBlock[p] \in Blocks /\ masterBlocks \in Blocks
      BY DEF TypeOK
    <3>2. clientPc[p] = "woken" /\ ~(masterBlocks > nextBlock[p])
      BY <1>24 DEF ClientIdle
    <3>3. nextBlock[p] <= masterBlocks
      BY <3>2 DEF CursorInv, Running, ThreadStates
    <3>4. QED
      BY <3>1, <3>2, <3>3, BoundAssumption
  <2>2. /\ UNCHANGED <<masterBlocks, nextBlock, published, bridgeTick, workerPc>>
        /\ clientPc' = [clientPc EXCEPT ![p] = LoopEnd(p)]
    BY <1>24, <2>1 DEF ClientIdle
  <2>3. LoopEnd(p) \in {"wait", "exited"}
    BY DEF LoopEnd
  <2>4. clientPc \in [Places -> ClientStates]
    BY DEF TypeOK
  <2>5. QED
    BY <2>1, <2>2, <2>3, <2>4 DEF WakeInv
<1>25. ASSUME NEW p \in Places, ClientRead(p) PROVE WakeInv'
  BY <1>25 DEF ClientRead, TypeOK, WakeInv, ClientStates, ThreadStates
<1>26. ASSUME NEW p \in Places, ClientWrite(p) PROVE WakeInv'
  BY <1>26 DEF ClientWrite, TypeOK, WakeInv, ClientStates, ThreadStates
<1>27. ASSUME NEW p \in Places, ClientAdvance(p) PROVE WakeInv'
  <2>1. /\ clientPc[p] = "advance"
        /\ nextBlock' = [nextBlock EXCEPT ![p] = nextBlock[p] + 1]
        /\ UNCHANGED <<masterBlocks, bridgeTick, workerPc>>
    BY <1>27 DEF ClientAdvance
  <2>2. /\ nextBlock[p] \in Int /\ published[p] \in Int /\ masterBlocks \in Int
        /\ nextBlock[p] < published[p] /\ published[p] <= masterBlocks
    BY <2>1, BoundAssumption DEF TypeOK, CursorInv
  <2>3. clientPc \in [Places -> ClientStates] /\ published \in [Places -> Blocks]
        /\ nextBlock \in [Places -> Blocks]
    BY DEF TypeOK
  <2>4. CASE nextBlock[p] + 1 < published[p] /\ ~clockStop[p]
    <3>1. clientPc' = [clientPc EXCEPT ![p] = "read"] /\ UNCHANGED published
      BY <1>27, <2>4 DEF ClientAdvance
    <3>2. QED
      BY <2>1, <2>3, <3>1 DEF WakeInv
  <2>5. CASE clockStop[p]
    <3>1. /\ clientPc' = [clientPc EXCEPT ![p] = "exited"]
          /\ published' = [published EXCEPT ![p] = 0]
      BY <1>27, <2>5 DEF ClientAdvance, LoopEnd
    <3>2. QED
      BY <2>1, <2>3, <3>1 DEF WakeInv
  <2>6. CASE ~(nextBlock[p] + 1 < published[p]) /\ ~clockStop[p]
    <3>1. /\ clientPc' = [clientPc EXCEPT ![p] = "wait"]
          /\ published' = [published EXCEPT ![p] = 0]
      BY <1>27, <2>6 DEF ClientAdvance, LoopEnd
    <3>2. nextBlock[p] + 1 = published[p]
      BY <2>2, <2>6
    <3>3. QED
      BY <2>1, <2>2, <2>3, <3>1, <3>2 DEF WakeInv
  <2>7. QED
    BY <2>4, <2>5, <2>6
<1>28. CASE UNCHANGED vars
  BY <1>28 DEF vars, WakeInv
<1>29. QED
  BY NextCases, <1>1, <1>2, <1>3, <1>4, <1>5, <1>6, <1>7, <1>8, <1>9, <1>10, <1>11, <1>12,
     <1>13, <1>14, <1>15, <1>16, <1>17, <1>18, <1>19, <1>20, <1>21, <1>22, <1>23, <1>24,
     <1>25, <1>26, <1>27, <1>28

\* What an action may not touch of a place's ring.
RingSame(q) ==
  /\ fromClient'[q] = fromClient[q]
  /\ clientBlocks'[q] = clientBlocks[q]
  /\ joined'[q] = joined[q]
  /\ gaps'[q] = gaps[q]

LEMMA RingFrame ==
  ASSUME RingInv, UNCHANGED <<masterBlocks, clientBlocks, fromClient, joined, gaps>>
  PROVE  RingInv'
BY DEF RingInv, PlaceRing, Counted

\* An action on one place's ring.
LEMMA RingUpdate ==
  ASSUME RingInv, NEW p \in Places, masterBlocks' = masterBlocks,
         \A q \in Places \ {p} : RingSame(q),
         (Counted(p) => PlaceRing(p))'
  PROVE  RingInv'
<1>1. SUFFICES ASSUME NEW q \in Places, q # p PROVE (Counted(q) => PlaceRing(q))'
  BY DEF RingInv
<1>2. RingSame(q) /\ (Counted(q) => PlaceRing(q))
  BY <1>1 DEF RingInv
<1>3. QED
  BY <1>2 DEF RingSame, PlaceRing, Counted

\* The Master counts a block.
LEMMA RingPublish ==
  ASSUME TypeOK, RingInv, masterBlocks' = masterBlocks + 1,
         UNCHANGED <<clientBlocks, fromClient, joined, gaps>>
  PROVE  RingInv'
<1> SUFFICES ASSUME NEW p \in Places, Counted(p)' PROVE PlaceRing(p)'
  BY DEF RingInv
<1>1. PlaceRing(p) /\ masterBlocks \in Int /\ Ring \in Int
  BY RingAssumption, BoundAssumption DEF RingInv, TypeOK, Counted
<1>2. \A s \in Slots : fromClient[p][s] \in Int
  BY BoundAssumption DEF TypeOK
<1>3. ASSUME NEW s \in Slots, fromClient'[p][s] # Silence
      PROVE  /\ joined'[p] <= fromClient'[p][s] /\ fromClient'[p][s] < masterBlocks'
             /\ Slot(fromClient'[p][s]) = s
  BY <1>1, <1>2, <1>3 DEF PlaceRing
<1>4. ASSUME NEW m \in Blocks, joined'[p] <= m, m < clientBlocks'[p],
             masterBlocks' - Ring < m, m \notin gaps'[p]
      PROVE  fromClient'[p][Slot(m)] = m
  BY <1>1, <1>4, BoundAssumption DEF PlaceRing
<1>5. QED
  BY <1>3, <1>4 DEF PlaceRing

\* A client leaves its block in its ring: in no other block's slot.
LEMMA RingWrite ==
  ASSUME TypeOK, CursorInv, RingInv, NEW p \in Places, clientPc[p] = "write",
         fromClient' = [fromClient EXCEPT ![p][Slot(nextBlock[p])] = nextBlock[p]],
         UNCHANGED <<counts, joined, gaps>>
  PROVE  RingInv'
<1> DEFINE next == nextBlock[p]
<1>1. next \in Int /\ masterBlocks \in Int /\ clientBlocks[p] \in Int /\ joined[p] \in Int
  BY BoundAssumption DEF TypeOK
<1>2. Running(p) /\ next < published[p] /\ published[p] <= masterBlocks
  BY DEF CursorInv, Running, ThreadStates
<1>3. /\ Counted(p) /\ clientBlocks[p] <= next
      /\ next < masterBlocks
  BY <1>1, <1>2, BoundAssumption DEF CursorInv, Counted, TypeOK
<1>4. joined[p] <= next
  BY <1>1, <1>2, <1>3 DEF CursorInv
<1>5. /\ Slot(next) \in Slots
      /\ \A s \in Slots : fromClient'[p][s] = IF s = Slot(next) THEN next ELSE fromClient[p][s]
  BY <1>1, SlotType DEF TypeOK
<1> HIDE DEF next
<1>6. ASSUME NEW s \in Slots, fromClient'[p][s] # Silence
      PROVE  /\ joined[p] <= fromClient'[p][s] /\ fromClient'[p][s] < masterBlocks
             /\ Slot(fromClient'[p][s]) = s
  BY <1>3, <1>4, <1>5, <1>6 DEF RingInv, PlaceRing
<1>7. ASSUME NEW m \in Blocks, joined[p] <= m, m < clientBlocks[p],
             masterBlocks - Ring < m, m \notin gaps[p]
      PROVE  fromClient'[p][Slot(m)] = m
  <2>1. m \in Int /\ m < next /\ next < m + Ring
    BY <1>1, <1>3, <1>7, RingAssumption, BoundAssumption
  <2>2. Slot(m) # Slot(next) /\ Slot(m) \in Slots
    BY <1>1, <2>1, SlotDistinct, SlotType
  <2>3. fromClient[p][Slot(m)] = m
    BY <1>3, <1>7 DEF RingInv, PlaceRing
  <2>4. QED
    BY <1>5, <2>2, <2>3
<1>8. PlaceRing(p)'
  BY <1>6, <1>7 DEF PlaceRing
<1>9. \A q \in Places \ {p} : RingSame(q)
  BY DEF RingSame, TypeOK
<1>10. QED
  BY <1>8, <1>9, RingUpdate

\* A place's ring keeps the blocks of its run.
LEMMA RingStep ==
  ASSUME TypeOK, PhaseInv, CursorInv, RingInv, [Next]_vars
  PROVE  RingInv'
<1>1. CASE MasterOpen
  <2>1. CASE \E p \in Places : Mapped(p)
    BY <1>1, <2>1, RingFrame DEF MasterOpen
  <2>2. CASE ~(\E p \in Places : Mapped(p))
    <3>1. masterBlocks' = 0 /\ clientBlocks' = NoBlocks /\ fromClient' = NoInput /\ joined' = NoBlocks
      BY <1>1, <2>2 DEF MasterOpen
    <3>2. \A p \in Places : PlaceRing(p)'
      BY <3>1, SlotType, BoundAssumption DEF NoBlocks, NoInput, PlaceRing
    <3>3. QED
      BY <3>2 DEF RingInv
  <2>3. QED
    BY <2>1, <2>2
<1>2. CASE MasterStart
  BY <1>2, RingFrame DEF MasterStart
<1>3. CASE MasterStop
  BY <1>3, RingFrame DEF MasterStop
<1>4. CASE MasterClose
  BY <1>4, RingFrame DEF MasterClose
<1>5. CASE MasterCrash
  BY <1>5, RingFrame DEF MasterCrash
<1>6. CASE SaveTable
  BY <1>6, RingFrame DEF SaveTable
<1>7. CASE WorkerTick
  BY <1>7, RingFrame DEF WorkerTick
<1>8. CASE WorkerOut
  BY <1>8, RingFrame DEF WorkerOut
<1>9. CASE WorkerLook
  BY <1>9, RingFrame DEF WorkerLook
<1>10. CASE WorkerMix
  BY <1>10, RingFrame DEF WorkerMix
<1>11. CASE WorkerPublish
  BY <1>11, RingPublish DEF WorkerPublish
<1>12. CASE WorkerSignal
  BY <1>12, RingFrame DEF WorkerSignal
<1>13. ASSUME NEW p \in Places, ClientClaim(p) PROVE RingInv'
  BY <1>13, RingFrame DEF ClientClaim
<1>14. ASSUME NEW p \in Places, ClientReset(p) PROVE RingInv'
  <2>1. clientBlocks'[p] = -1
    BY <1>14 DEF ClientReset, TypeOK, PhaseInv
  <2>2. \A q \in Places \ {p} : RingSame(q)
    BY <1>14 DEF ClientReset, RingSame, TypeOK
  <2>3. masterBlocks' = masterBlocks
    BY <1>14 DEF ClientReset
  <2>4. QED
    BY <2>1, <2>2, <2>3, RingUpdate DEF Counted
<1>15. ASSUME NEW p \in Places, ClientClear(p) PROVE RingInv'
  <2>1. fromClient'[p] = [s \in Slots |-> Silence] /\ clientBlocks'[p] <= joined'[p]
    <3>1. clientPc'[p] = "cleared"
      BY <1>15 DEF ClientClear, TypeOK
    <3>2. PhaseInv'
      BY PhaseStep
    <3>3. QED
      BY <3>1, <3>2 DEF PhaseInv
  <2>2. \A q \in Places \ {p} : RingSame(q)
    BY <1>15 DEF ClientClear, RingSame, TypeOK
  <2>3. masterBlocks' = masterBlocks
    BY <1>15 DEF ClientClear
  <2>4. PlaceRing(p)'
    <3>1. clientBlocks'[p] \in Int /\ joined'[p] \in Int
      BY TypeStep, BoundAssumption DEF TypeOK
    <3>2. QED
      BY <2>1, <3>1, SlotType, BoundAssumption DEF PlaceRing
  <2>5. QED
    BY <2>2, <2>3, <2>4, RingUpdate
<1>16. ASSUME NEW p \in Places, ClientJoin(p) PROVE RingInv'
  <2>1. fromClient'[p] = [s \in Slots |-> Silence] /\ clientBlocks'[p] <= joined'[p]
    <3>1. clientPc'[p] = "joining"
      BY <1>16 DEF ClientJoin, TypeOK
    <3>2. PhaseInv'
      BY PhaseStep
    <3>3. QED
      BY <3>1, <3>2 DEF PhaseInv
  <2>2. \A q \in Places \ {p} : RingSame(q)
    BY <1>16 DEF ClientJoin, RingSame, TypeOK
  <2>3. masterBlocks' = masterBlocks
    BY <1>16 DEF ClientJoin
  <2>4. PlaceRing(p)'
    <3>1. clientBlocks'[p] \in Int /\ joined'[p] \in Int
      BY TypeStep, BoundAssumption DEF TypeOK
    <3>2. QED
      BY <2>1, <3>1, SlotType, BoundAssumption DEF PlaceRing
  <2>5. QED
    BY <2>2, <2>3, <2>4, RingUpdate
<1>17. ASSUME NEW p \in Places, ClientRun(p) PROVE RingInv'
  <2>1. /\ clientBlocks'[p] = joined[p]
        /\ fromClient'[p] = [s \in Slots |-> Silence]
        /\ UNCHANGED <<masterBlocks, joined, gaps>>
    BY <1>17 DEF ClientRun, PhaseInv, TypeOK
  <2>2. PlaceRing(p)'
    BY <2>1, SlotType, BoundAssumption DEF PlaceRing, TypeOK
  <2>3. \A q \in Places \ {p} : RingSame(q)
    BY <1>17 DEF ClientRun, RingSame, TypeOK
  <2>4. QED
    BY <2>1, <2>2, <2>3, RingUpdate
<1>18. ASSUME NEW p \in Places, ClientStop(p) PROVE RingInv'
  BY <1>18, RingFrame DEF ClientStop
<1>19. ASSUME NEW p \in Places, ClientStopped(p) PROVE RingInv'
  <2>1. clientBlocks'[p] = -1
    BY <1>19 DEF ClientStopped, TypeOK, PhaseInv
  <2>2. \A q \in Places \ {p} : RingSame(q)
    BY <1>19 DEF ClientStopped, RingSame, TypeOK
  <2>3. masterBlocks' = masterBlocks
    BY <1>19 DEF ClientStopped
  <2>4. QED
    BY <2>1, <2>2, <2>3, RingUpdate DEF Counted
<1>20. ASSUME NEW p \in Places, ClientRelease(p) PROVE RingInv'
  <2>1. clientBlocks'[p] = -1
    BY <1>20 DEF ClientRelease, TypeOK, PhaseInv
  <2>2. \A q \in Places \ {p} : RingSame(q)
    BY <1>20 DEF ClientRelease, RingSame, TypeOK
  <2>3. masterBlocks' = masterBlocks
    BY <1>20 DEF ClientRelease
  <2>4. QED
    BY <2>1, <2>2, <2>3, RingUpdate DEF Counted
<1>21. ASSUME NEW p \in Places, ClientCrash(p) PROVE RingInv'
  <2>1. CASE UNCHANGED fromClient
    BY <1>21, <2>1, RingFrame DEF ClientCrash
  <2>2. CASE clientPc[p] = "write" /\ fromClient' = [fromClient EXCEPT ![p][Slot(nextBlock[p])] = nextBlock[p]]
    BY <1>21, <2>2, RingWrite DEF ClientCrash
  <2>3. QED
    BY <1>21, <2>1, <2>2 DEF ClientCrash
<1>22. ASSUME NEW p \in Places, ClientWake(p) PROVE RingInv'
  BY <1>22, RingFrame DEF ClientWake
<1>23. ASSUME NEW p \in Places, ClientCatchUp(p) PROVE RingInv'
  <2>1. /\ \A q \in Places : gaps[q] \subseteq gaps'[q]
        /\ UNCHANGED <<masterBlocks, clientBlocks, fromClient, joined>>
    BY <1>23 DEF ClientCatchUp, TypeOK
  <2>2. QED
    BY <2>1 DEF RingInv, PlaceRing, Counted
<1>24. ASSUME NEW p \in Places, ClientIdle(p) PROVE RingInv'
  <2>1. clientPc[p] = "woken" /\ masterBlocks \in Blocks /\ nextBlock[p] \in Blocks
    BY <1>24 DEF ClientIdle, TypeOK
  <2>2. nextBlock[p] <= masterBlocks
    BY <2>1 DEF CursorInv, Running, ThreadStates
  <2>3. UNCHANGED <<masterBlocks, clientBlocks, fromClient, joined, gaps>>
    BY <1>24, <2>1, <2>2, BoundAssumption DEF ClientIdle
  <2>4. QED
    BY <2>3, RingFrame
<1>25. ASSUME NEW p \in Places, ClientRead(p) PROVE RingInv'
  BY <1>25, RingFrame DEF ClientRead
<1>26. ASSUME NEW p \in Places, ClientWrite(p) PROVE RingInv'
  BY <1>26, RingWrite DEF ClientWrite
<1>27. ASSUME NEW p \in Places, ClientAdvance(p) PROVE RingInv'
  <2> DEFINE next == nextBlock[p]
  <2>1. /\ clientPc[p] = "advance"
        /\ clientBlocks' = [clientBlocks EXCEPT ![p] = next + 1]
        /\ UNCHANGED <<masterBlocks, fromClient, joined, gaps>>
    BY <1>27 DEF ClientAdvance
  <2>2. Running(p) /\ next \in Int /\ clientBlocks[p] \in Int /\ clientBlocks'[p] = next + 1
    BY <2>1, BoundAssumption DEF TypeOK, Running, ThreadStates
  <2>3. /\ Counted(p) /\ clientBlocks[p] <= next
        /\ clientBlocks[p]..(next - 1) \subseteq gaps[p]
        /\ fromClient[p][Slot(next)] = next
    BY <2>1, <2>2 DEF CursorInv, PhaseInv, Counted
  <2> HIDE DEF next
  <2>4. PlaceRing(p)
    BY <2>3 DEF RingInv
  <2>5. ASSUME NEW m \in Blocks, joined[p] <= m, m < next + 1, masterBlocks - Ring < m,
               m \notin gaps[p]
        PROVE  fromClient[p][Slot(m)] = m
    <3>1. m \in Int /\ m \notin clientBlocks[p]..(next - 1)
      BY <2>3, <2>5, BoundAssumption
    <3>2. m < clientBlocks[p] \/ m = next
      BY <2>2, <2>5, <3>1
    <3>3. QED
      BY <2>3, <2>4, <2>5, <3>2 DEF PlaceRing
  <2>6. PlaceRing(p)'
    BY <2>1, <2>2, <2>4, <2>5 DEF PlaceRing
  <2>7. \A q \in Places \ {p} : RingSame(q)
    BY <2>1 DEF RingSame, TypeOK
  <2>8. QED
    BY <2>1, <2>6, <2>7, RingUpdate
<1>28. CASE UNCHANGED vars
  BY <1>28, RingFrame DEF vars
<1>29. QED
  BY NextCases, <1>1, <1>2, <1>3, <1>4, <1>5, <1>6, <1>7, <1>8, <1>9, <1>10, <1>11, <1>12,
     <1>13, <1>14, <1>15, <1>16, <1>17, <1>18, <1>19, <1>20, <1>21, <1>22, <1>23, <1>24,
     <1>25, <1>26, <1>27, <1>28

\* What an action may not touch of a place the Worker is about to sum.
MixSame(q) ==
  /\ fromClient'[q] = fromClient[q]
  /\ clientPc'[q] = clientPc[q]
  /\ nextBlock'[q] = nextBlock[q]
  /\ joined'[q] = joined[q]
  /\ gaps'[q] = gaps[q]

\* An action of one place while the Worker holds its look.
LEMMA MixUpdate ==
  ASSUME TypeOK, MixInv, NEW p \in Places,
         UNCHANGED <<masterBlocks, workerPc, mixBlock, have>>,
         \A q \in Places \ {p} : MixSame(q),
         workerPc = "mix" /\ p \in have => MixSound(p)'
  PROVE  MixInv'
<1>1. ASSUME NEW q \in have, workerPc = "mix" PROVE MixSound(q)'
  <2>1. CASE q = p
    BY <1>1, <2>1
  <2>2. CASE q # p
    <3>1. MixSame(q) /\ MixSound(q)
      BY <1>1, <2>2 DEF TypeOK, MixInv
    <3>2. QED
      BY <3>1 DEF MixSame, MixSound, Going, Running
  <2>3. QED
    BY <2>1, <2>2
<1>2. QED
  BY <1>1 DEF MixInv

\* A place of which the Worker's look stays good.
LEMMA MixKeep ==
  ASSUME TypeOK, MixInv, CursorInv, NEW p \in Places, workerPc = "mix", p \in have,
         mixBlock' = mixBlock, fromClient'[p] = fromClient[p], gaps[p] \subseteq gaps'[p],
         \/ ~Going(p)'
         \/ /\ Going(p) /\ joined'[p] = joined[p]
            /\ nextBlock'[p] \in Int /\ nextBlock[p] <= nextBlock'[p]
  PROVE  MixSound(p)'
<1>1. MixSound(p) /\ mixBlock \in Int /\ nextBlock[p] \in Int
  BY BoundAssumption DEF MixInv, TypeOK
<1>2. QED
  BY <1>1 DEF MixSound

\* A client writes a block younger than the one the Worker mixes.
LEMMA MixWrite ==
  ASSUME TypeOK, CursorInv, MixInv, NEW p \in Places, clientPc[p] = "write",
         workerPc = "mix", p \in have,
         fromClient' = [fromClient EXCEPT ![p][Slot(nextBlock[p])] = nextBlock[p]]
  PROVE  fromClient'[p][Slot(mixBlock)] = fromClient[p][Slot(mixBlock)]
<1>1. mixBlock \in Int /\ nextBlock[p] \in Int /\ masterBlocks \in Int /\ published[p] \in Int
  BY BoundAssumption DEF TypeOK
<1>2. Going(p)
  BY DEF Going, Running, ThreadStates
<1>3. mixBlock < nextBlock[p] /\ masterBlocks - Ring < mixBlock
  BY <1>2 DEF MixInv, MixSound
<1>4. nextBlock[p] < published[p] /\ published[p] <= masterBlocks
  BY DEF CursorInv
<1>5. nextBlock[p] < mixBlock + Ring
  BY <1>1, <1>3, <1>4, RingAssumption
<1>6. Slot(mixBlock) # Slot(nextBlock[p]) /\ Slot(mixBlock) \in Slots
  BY <1>1, <1>3, <1>5, SlotDistinct, SlotType
<1>7. QED
  BY <1>6 DEF TypeOK

\* The counts the Worker looked at say what the rings hold.
LEMMA MixLook ==
  ASSUME TypeOK, PhaseInv, CursorInv, RingInv, WorkerLook
  PROVE  MixInv'
<1>1. /\ mixBlock' = masterBlocks - table.delay /\ workerPc' = "mix"
      /\ have' = {p \in Places : owner[p] /\ mixBlock' >= 0 /\ clientBlocks[p] > mixBlock'}
      /\ UNCHANGED <<masterBlocks, fromClient, clientPc, nextBlock, joined, gaps>>
  BY DEF WorkerLook
<1>2. /\ masterBlocks \in Int /\ Ring \in Int
      /\ table.delay \in Int /\ 2 <= table.delay /\ table.delay <= Ring - 1
  BY DelayRange, RingAssumption, BoundAssumption DEF TypeOK
<1>3. /\ mixBlock' \in Int /\ masterBlocks - Ring < mixBlock' /\ mixBlock' <= masterBlocks - 2
  BY <1>1, <1>2
<1>4. ASSUME NEW p \in have' PROVE MixSound(p)'
  <2> DEFINE audio == fromClient[p][Slot(mixBlock')]
             m == mixBlock'
  <2>1. p \in Places /\ m >= 0 /\ clientBlocks[p] > m
    BY <1>1, <1>4
  <2>2. /\ clientBlocks[p] \in Int /\ joined[p] \in Int /\ nextBlock[p] \in Int
        /\ Slot(m) \in Slots /\ audio \in Int
    BY <1>3, <2>1, SlotType, BoundAssumption DEF TypeOK
  <2>3. Counted(p) /\ PlaceRing(p)
    BY <1>3, <2>1, <2>2 DEF RingInv, Counted
  <2>4. Going(p) => m < nextBlock[p]
    <3>1. clientPc[p] = "joining" => clientBlocks[p] <= nextBlock[p]
      BY <2>1 DEF PhaseInv
    <3>2. Running(p) => clientBlocks[p] <= nextBlock[p]
      BY <2>1 DEF CursorInv
    <3>3. QED
      BY <1>3, <2>1, <2>2, <3>1, <3>2 DEF Going
  <2>5. \/ audio = m
        \/ m \in gaps[p]
        \/ audio = Silence /\ m < joined[p]
    <3>1. CASE m < joined[p]
      <4>1. SUFFICES ASSUME audio # Silence PROVE FALSE
        BY <3>1
      <4>2. joined[p] <= audio /\ audio < masterBlocks /\ Slot(audio) = Slot(m)
        BY <2>2, <2>3, <4>1 DEF PlaceRing
      <4>3. m < audio /\ audio < m + Ring
        BY <1>2, <1>3, <2>2, <3>1, <4>2
      <4>4. QED
        BY <1>3, <2>2, <4>2, <4>3, SlotDistinct
    <3>2. CASE joined[p] <= m
      <4>1. m \in Blocks
        BY <1>2, <1>3, <2>1, BoundAssumption DEF TypeOK
      <4>2. QED
        BY <1>3, <2>1, <2>2, <2>3, <3>2, <4>1 DEF PlaceRing
    <3>3. QED
      BY <1>3, <2>2, <3>1, <3>2
  <2>6. QED
    BY <1>1, <2>1, <2>4, <2>5 DEF MixSound, Going, Running
<1>5. QED
  BY <1>1, <1>3, <1>4 DEF MixInv

\* What the Worker looked at stays good until it sums.
LEMMA MixStep ==
  ASSUME TypeOK, PhaseInv, CursorInv, RingInv, MixInv, [Next]_vars
  PROVE  MixInv'
<1>1. CASE MasterOpen
  BY <1>1 DEF MasterOpen, MixInv
<1>2. CASE MasterStart
  BY <1>2 DEF MasterStart, MixInv
<1>3. CASE MasterStop
  BY <1>3 DEF MasterStop, MixInv, HolderGone
<1>4. CASE MasterClose
  BY <1>4 DEF MasterClose, MixInv
<1>5. CASE MasterCrash
  BY <1>5 DEF MasterCrash, HolderGone, MixInv
<1>6. CASE SaveTable
  BY <1>6 DEF SaveTable, MixInv, MixSound, Going, Running
<1>7. CASE WorkerTick
  BY <1>7 DEF WorkerTick, MixInv
<1>8. CASE WorkerOut
  BY <1>8 DEF WorkerOut, MixInv
<1>9. CASE WorkerLook
  BY <1>9, MixLook DEF WorkerLook
<1>10. CASE WorkerMix
  BY <1>10 DEF WorkerMix, MixInv
<1>11. CASE WorkerPublish
  BY <1>11 DEF WorkerPublish, MixInv
<1>12. CASE WorkerSignal
  BY <1>12 DEF WorkerSignal, MixInv
<1>13. ASSUME NEW p \in Places, ClientClaim(p) PROVE MixInv'
  <2>1. UNCHANGED <<masterBlocks, workerPc, mixBlock, have>>
    BY <1>13 DEF ClientClaim
  <2>2. \A q \in Places \ {p} : MixSame(q)
    BY <1>13 DEF ClientClaim, MixSame, TypeOK
  <2>3. /\ fromClient'[p] = fromClient[p] /\ gaps[p] \subseteq gaps'[p]
        /\ ~Going(p)'
    BY <1>13 DEF ClientClaim, TypeOK, Going, Running, ThreadStates, ClientStates
  <2>4. QED
    BY <2>1, <2>2, <2>3, MixUpdate, MixKeep
<1>14. ASSUME NEW p \in Places, ClientReset(p) PROVE MixInv'
  <2>1. UNCHANGED <<masterBlocks, workerPc, mixBlock, have>>
    BY <1>14 DEF ClientReset
  <2>2. \A q \in Places \ {p} : MixSame(q)
    BY <1>14 DEF ClientReset, MixSame, TypeOK
  <2>3. /\ fromClient'[p] = fromClient[p] /\ gaps[p] \subseteq gaps'[p]
        /\ ~Going(p)'
    BY <1>14 DEF ClientReset, TypeOK, Going, Running, ThreadStates, ClientStates
  <2>4. QED
    BY <2>1, <2>2, <2>3, MixUpdate, MixKeep
<1>15. ASSUME NEW p \in Places, ClientClear(p) PROVE MixInv'
  <2>1. /\ UNCHANGED <<masterBlocks, workerPc, mixBlock, have, gaps, joined, nextBlock>>
        /\ clientPc' = [clientPc EXCEPT ![p] = "cleared"]
        /\ fromClient' = [fromClient EXCEPT ![p] = [s \in Slots |-> Silence]]
    BY <1>15 DEF ClientClear
  <2>2. \A q \in Places \ {p} : MixSame(q)
    BY <2>1 DEF MixSame, TypeOK
  <2>3. ~Going(p)'
    BY <2>1 DEF Going, Running, ThreadStates, TypeOK
  <2>4. fromClient'[p][Slot(mixBlock)] = Silence
    BY <2>1, SlotType DEF TypeOK
  <2>5. workerPc = "mix" /\ p \in have => mixBlock >= 0
    BY DEF MixInv, MixSound
  <2>6. workerPc = "mix" /\ p \in have => MixSound(p)'
    BY <2>1, <2>3, <2>4, <2>5 DEF MixSound
  <2>7. QED
    BY <2>1, <2>2, <2>6, MixUpdate
<1>16. ASSUME NEW p \in Places, ClientJoin(p) PROVE MixInv'
  <2>1. /\ UNCHANGED <<masterBlocks, workerPc, mixBlock, have, gaps, fromClient>>
        /\ clientPc[p] = "cleared" /\ clientPc' = [clientPc EXCEPT ![p] = "joining"]
        /\ nextBlock' = [nextBlock EXCEPT ![p] = masterBlocks]
        /\ joined' = [joined EXCEPT ![p] = masterBlocks]
    BY <1>16 DEF ClientJoin
  <2>2. \A q \in Places \ {p} : MixSame(q)
    BY <2>1 DEF MixSame, TypeOK
  <2>3. /\ fromClient[p][Slot(mixBlock)] = Silence
        /\ nextBlock'[p] = masterBlocks /\ joined'[p] = masterBlocks
    BY <2>1, SlotType DEF PhaseInv, TypeOK
  <2>4. workerPc = "mix" /\ p \in have => mixBlock >= 0 /\ mixBlock < masterBlocks
    BY BoundAssumption DEF MixInv, MixSound, TypeOK
  <2>5. workerPc = "mix" /\ p \in have => MixSound(p)'
    BY <2>1, <2>3, <2>4 DEF MixSound
  <2>6. QED
    BY <2>1, <2>2, <2>5, MixUpdate
<1>17. ASSUME NEW p \in Places, ClientRun(p) PROVE MixInv'
  <2>1. UNCHANGED <<masterBlocks, workerPc, mixBlock, have>>
    BY <1>17 DEF ClientRun
  <2>2. \A q \in Places \ {p} : MixSame(q)
    BY <1>17 DEF ClientRun, MixSame, TypeOK
  <2>3. /\ fromClient'[p] = fromClient[p] /\ gaps[p] \subseteq gaps'[p]
        /\ Going(p)' => /\ Going(p) /\ joined'[p] = joined[p]
                        /\ nextBlock'[p] \in Int /\ nextBlock[p] <= nextBlock'[p]
    BY <1>17, BoundAssumption DEF ClientRun, TypeOK, Going, Running, ThreadStates, ClientStates
  <2>4. QED
    BY <2>1, <2>2, <2>3, MixUpdate, MixKeep
<1>18. ASSUME NEW p \in Places, ClientStop(p) PROVE MixInv'
  <2>1. UNCHANGED <<masterBlocks, workerPc, mixBlock, have>>
    BY <1>18 DEF ClientStop
  <2>2. \A q \in Places \ {p} : MixSame(q)
    BY <1>18 DEF ClientStop, MixSame, TypeOK
  <2>3. /\ fromClient'[p] = fromClient[p] /\ gaps[p] \subseteq gaps'[p]
        /\ Going(p)' => /\ Going(p) /\ joined'[p] = joined[p]
                        /\ nextBlock'[p] \in Int /\ nextBlock[p] <= nextBlock'[p]
    BY <1>18, BoundAssumption DEF ClientStop, TypeOK, Going, Running, ThreadStates, ClientStates
  <2>4. QED
    BY <2>1, <2>2, <2>3, MixUpdate, MixKeep
<1>19. ASSUME NEW p \in Places, ClientStopped(p) PROVE MixInv'
  <2>1. UNCHANGED <<masterBlocks, workerPc, mixBlock, have>>
    BY <1>19 DEF ClientStopped
  <2>2. \A q \in Places \ {p} : MixSame(q)
    BY <1>19 DEF ClientStopped, MixSame, TypeOK, Forget
  <2>3. /\ fromClient'[p] = fromClient[p] /\ gaps[p] \subseteq gaps'[p]
        /\ ~Going(p)'
    BY <1>19 DEF ClientStopped, TypeOK, Going, Running, ThreadStates, ClientStates, Forget
  <2>4. QED
    BY <2>1, <2>2, <2>3, MixUpdate, MixKeep
<1>20. ASSUME NEW p \in Places, ClientRelease(p) PROVE MixInv'
  <2>1. UNCHANGED <<masterBlocks, workerPc, mixBlock, have>>
    BY <1>20 DEF ClientRelease
  <2>2. \A q \in Places \ {p} : MixSame(q)
    BY <1>20 DEF ClientRelease, MixSame, TypeOK
  <2>3. /\ fromClient'[p] = fromClient[p] /\ gaps[p] \subseteq gaps'[p]
        /\ ~Going(p)'
    BY <1>20 DEF ClientRelease, TypeOK, Going, Running, ThreadStates, ClientStates
  <2>4. QED
    BY <2>1, <2>2, <2>3, MixUpdate, MixKeep
<1>21. ASSUME NEW p \in Places, ClientCrash(p) PROVE MixInv'
  <2>1. UNCHANGED <<masterBlocks, workerPc, mixBlock, have, gaps, joined>>
    BY <1>21 DEF ClientCrash
  <2>2. /\ clientPc' = [clientPc EXCEPT ![p] = "closed"]
        /\ nextBlock' = [nextBlock EXCEPT ![p] = 0]
    BY <1>21 DEF ClientCrash, Forget
  <2>3. \A q \in Places \ {p} : MixSame(q)
    <3>1. \A q \in Places \ {p} : fromClient'[q] = fromClient[q]
      BY <1>21 DEF ClientCrash, TypeOK
    <3>2. QED
      BY <2>1, <2>2, <3>1 DEF MixSame, TypeOK
  <2>4. ~Going(p)'
    BY <2>2 DEF Going, Running, ThreadStates, TypeOK
  <2>5. ASSUME workerPc = "mix", p \in have PROVE MixSound(p)'
    <3>1. fromClient'[p][Slot(mixBlock)] = fromClient[p][Slot(mixBlock)]
      <4>1. CASE UNCHANGED fromClient
        BY <4>1
      <4>2. CASE clientPc[p] = "write"
                 /\ fromClient' = [fromClient EXCEPT ![p][Slot(nextBlock[p])] = nextBlock[p]]
        BY <2>5, <4>2, MixWrite
      <4>3. QED
        BY <1>21, <4>1, <4>2 DEF ClientCrash
    <3>2. MixSound(p)
      BY <2>5 DEF MixInv
    <3>3. QED
      BY <2>1, <2>4, <3>1, <3>2 DEF MixSound
  <2>6. QED
    BY <2>1, <2>3, <2>5, MixUpdate
<1>22. ASSUME NEW p \in Places, ClientWake(p) PROVE MixInv'
  <2>1. UNCHANGED <<masterBlocks, workerPc, mixBlock, have>>
    BY <1>22 DEF ClientWake
  <2>2. \A q \in Places \ {p} : MixSame(q)
    BY <1>22 DEF ClientWake, MixSame, TypeOK
  <2>3. /\ fromClient'[p] = fromClient[p] /\ gaps[p] \subseteq gaps'[p]
        /\ Going(p)' => /\ Going(p) /\ joined'[p] = joined[p]
                        /\ nextBlock'[p] \in Int /\ nextBlock[p] <= nextBlock'[p]
    BY <1>22, BoundAssumption DEF ClientWake, TypeOK, Going, Running, ThreadStates, ClientStates
  <2>4. QED
    BY <2>1, <2>2, <2>3, MixUpdate, MixKeep
<1>23. ASSUME NEW p \in Places, ClientCatchUp(p) PROVE MixInv'
  <2>1. UNCHANGED <<masterBlocks, workerPc, mixBlock, have, fromClient, joined>>
    BY <1>23 DEF ClientCatchUp
  <2> DEFINE first == IF RingBehind(p) THEN masterBlocks - 1 ELSE nextBlock[p]
  <2>2. /\ \A q \in Places \ {p} : clientPc'[q] = clientPc[q]
        /\ nextBlock' = [nextBlock EXCEPT ![p] = first]
        /\ gaps' = [gaps EXCEPT ![p] = @ \cup (nextBlock[p]..(first - 1))]
    BY <1>23 DEF ClientCatchUp, TypeOK
  <2>3. first \in Int /\ nextBlock[p] <= first
    BY <1>23, RingAssumption, BoundAssumption DEF ClientCatchUp, RingBehind, TypeOK
  <2> HIDE DEF first
  <2>4. \A q \in Places \ {p} : MixSame(q)
    BY <2>1, <2>2 DEF MixSame, TypeOK
  <2>5. Going(p) /\ gaps[p] \subseteq gaps'[p]
    BY <1>23, <2>2 DEF ClientCatchUp, Going, Running, ThreadStates, TypeOK
  <2>6. nextBlock'[p] = first
    BY <2>2 DEF TypeOK
  <2>7. QED
    BY <2>1, <2>3, <2>4, <2>5, <2>6, MixUpdate, MixKeep
<1>24. ASSUME NEW p \in Places, ClientIdle(p) PROVE MixInv'
  <2>1. clientPc[p] = "woken" /\ masterBlocks \in Blocks /\ nextBlock[p] \in Blocks
    BY <1>24 DEF ClientIdle, TypeOK
  <2>2. nextBlock[p] <= masterBlocks
    BY <2>1 DEF CursorInv, Running, ThreadStates
  <2>3. UNCHANGED <<masterBlocks, workerPc, mixBlock, have, nextBlock, fromClient, joined, gaps>>
    BY <1>24, <2>1, <2>2, BoundAssumption DEF ClientIdle
  <2>4. \A q \in Places \ {p} : MixSame(q)
    BY <1>24, <2>3 DEF ClientIdle, MixSame, TypeOK
  <2>5. Going(p) /\ nextBlock[p] \in Int
    BY <2>1, BoundAssumption DEF Going, Running, ThreadStates
  <2>6. QED
    BY <2>3, <2>4, <2>5, MixUpdate, MixKeep
<1>25. ASSUME NEW p \in Places, ClientRead(p) PROVE MixInv'
  <2>1. UNCHANGED <<masterBlocks, workerPc, mixBlock, have>>
    BY <1>25 DEF ClientRead
  <2>2. \A q \in Places \ {p} : MixSame(q)
    BY <1>25 DEF ClientRead, MixSame, TypeOK
  <2>3. /\ fromClient'[p] = fromClient[p] /\ gaps[p] \subseteq gaps'[p]
        /\ Going(p)' => /\ Going(p) /\ joined'[p] = joined[p]
                        /\ nextBlock'[p] \in Int /\ nextBlock[p] <= nextBlock'[p]
    BY <1>25, BoundAssumption DEF ClientRead, TypeOK, Going, Running, ThreadStates, ClientStates
  <2>4. QED
    BY <2>1, <2>2, <2>3, MixUpdate, MixKeep
<1>26. ASSUME NEW p \in Places, ClientWrite(p) PROVE MixInv'
  <2>1. UNCHANGED <<masterBlocks, workerPc, mixBlock, have, gaps, joined>>
    BY <1>26 DEF ClientWrite
  <2>2. /\ clientPc[p] = "write" /\ clientPc' = [clientPc EXCEPT ![p] = "advance"]
        /\ fromClient' = [fromClient EXCEPT ![p][Slot(nextBlock[p])] = nextBlock[p]]
        /\ UNCHANGED nextBlock
    BY <1>26 DEF ClientWrite
  <2>3. \A q \in Places \ {p} : MixSame(q)
    BY <2>1, <2>2 DEF MixSame, TypeOK
  <2>4. Going(p)
    BY <2>2 DEF Going, Running, ThreadStates
  <2>5. ASSUME workerPc = "mix", p \in have PROVE MixSound(p)'
    <3>1. MixSound(p) /\ fromClient'[p][Slot(mixBlock)] = fromClient[p][Slot(mixBlock)]
      BY <2>2, <2>5, MixWrite DEF MixInv
    <3>2. QED
      BY <2>1, <2>2, <2>4, <3>1 DEF MixSound
  <2>6. QED
    BY <2>1, <2>3, <2>5, MixUpdate
<1>27. ASSUME NEW p \in Places, ClientAdvance(p) PROVE MixInv'
  <2>1. UNCHANGED <<masterBlocks, workerPc, mixBlock, have, fromClient, joined, gaps>>
    BY <1>27 DEF ClientAdvance
  <2>2. /\ \A q \in Places \ {p} : clientPc'[q] = clientPc[q]
        /\ nextBlock' = [nextBlock EXCEPT ![p] = nextBlock[p] + 1]
    BY <1>27 DEF ClientAdvance, TypeOK
  <2>3. \A q \in Places \ {p} : MixSame(q)
    BY <2>1, <2>2 DEF MixSame, TypeOK
  <2>4. Going(p) /\ nextBlock[p] \in Int /\ nextBlock'[p] = nextBlock[p] + 1
    BY <1>27, <2>2, BoundAssumption DEF ClientAdvance, Going, Running, ThreadStates, TypeOK
  <2>5. nextBlock'[p] \in Int /\ nextBlock[p] <= nextBlock'[p]
    BY <2>4
  <2>6. QED
    BY <2>1, <2>3, <2>4, <2>5, MixUpdate, MixKeep
<1>28. CASE UNCHANGED vars
  BY <1>28 DEF vars, MixInv, MixSound, Going, Running
<1>29. QED
  BY NextCases, <1>1, <1>2, <1>3, <1>4, <1>5, <1>6, <1>7, <1>8, <1>9, <1>10, <1>11, <1>12,
     <1>13, <1>14, <1>15, <1>16, <1>17, <1>18, <1>19, <1>20, <1>21, <1>22, <1>23, <1>24,
     <1>25, <1>26, <1>27, <1>28

\* An action that neither writes a block nor counts one.
LEMMA OutputKeep ==
  ASSUME OutputInv, UNCHANGED <<masterBlocks, since, toClients, bridgeFed>>,
         workerPc' \in {"look", "mix", "publish"} <=> workerPc \in {"look", "mix", "publish"}
  PROVE  OutputInv'
<1>1. Written' = Written
  BY DEF Written
<1>2. QED
  BY <1>1 DEF OutputInv, IsBlock, Old

\* The holder is gone: all that is in the ring is old.
LEMMA OutputGone ==
  ASSUME TypeOK, HolderGone, UNCHANGED masterBlocks, workerPc' \in {"open", "closed"},
         \A s \in Slots, ch \in Channels :
           /\ toClients'[s][ch] \in Int /\ toClients'[s][ch] <= masterBlocks
           /\ ~MasterMayCrash => toClients'[s][ch] # masterBlocks
  PROVE  OutputInv'
<1>1. masterBlocks \in Int /\ since' = masterBlocks /\ Written' = masterBlocks - 1
  BY BoundAssumption DEF TypeOK, HolderGone, Written
<1>2. \A s \in Slots, ch \in Channels : Old(toClients[s][ch])'
  BY <1>1, BoundAssumption DEF Old
<1>3. \A n \in Blocks : ~(since' <= n /\ n <= Written')
  BY <1>1, BoundAssumption
<1>4. QED
  BY <1>1, <1>2, <1>3 DEF OutputInv

\* The Worker writes a block.
LEMMA OutputWrite ==
  ASSUME TypeOK, CursorInv, OutputInv, WorkerOut
  PROVE  OutputInv'
<1> DEFINE slot == Slot(masterBlocks)
<1>1. /\ workerPc = "out" /\ workerPc' = "look" /\ UNCHANGED <<masterBlocks, since>>
      /\ bridgeFed' = [bridgeFed EXCEPT ![slot] = table.routed]
      /\ toClients' = [toClients EXCEPT ![slot] = [ch \in Channels |-> SlotAudio(slot, ch)]]
  BY DEF WorkerOut
<1>2. /\ masterBlocks \in Int /\ since \in Int /\ -1 < since /\ slot \in Slots
      /\ Written = masterBlocks - 1 /\ Written' = masterBlocks
  BY <1>1, SlotType, BoundAssumption DEF TypeOK, Written
<1> HIDE DEF slot
<1>3. /\ bridgeFed'[slot] = table.routed
      /\ \A ch \in Channels : toClients'[slot][ch] = SlotAudio(slot, ch)
      /\ \A s \in Slots \ {slot} : bridgeFed'[s] = bridgeFed[s] /\ toClients'[s] = toClients[s]
  BY <1>1, <1>2 DEF TypeOK
<1>4. \A s \in Slots, ch \in Channels : toClients[s][ch] \in Int
  BY BoundAssumption DEF TypeOK
<1>6. ASSUME NEW ch \in Channels, ch \notin table.routed PROVE Old(SlotAudio(slot, ch))
  <2>1. CASE ch \in bridgeFed[slot]
    BY <1>2, <1>6, <2>1 DEF SlotAudio, Old
  <2>2. CASE ch \notin bridgeFed[slot]
    BY <1>2, <1>6, <2>2 DEF SlotAudio, OutputInv
  <2>3. QED
    BY <2>1, <2>2
<1>7. \A s \in Slots, ch \in Channels : ch \notin bridgeFed'[s] => Old(toClients[s][ch])'
  <2> SUFFICES ASSUME NEW s \in Slots, NEW ch \in Channels, ch \notin bridgeFed'[s]
               PROVE  Old(toClients'[s][ch])
    BY <1>1 DEF Old
  <2>1. CASE s = slot
    BY <1>3, <1>6, <2>1
  <2>2. CASE s # slot
    BY <1>3, <2>2 DEF OutputInv
  <2>3. QED
    BY <2>1, <2>2
<1>8. \A s \in Slots, ch \in Channels : toClients'[s][ch] <= masterBlocks
  <2> SUFFICES ASSUME NEW s \in Slots, NEW ch \in Channels PROVE toClients'[s][ch] <= masterBlocks
    OBVIOUS
  <2>1. CASE s = slot
    BY <1>2, <1>3, <1>4, <2>1 DEF SlotAudio, OutputInv
  <2>2. CASE s # slot
    BY <1>3, <2>2 DEF OutputInv
  <2>3. QED
    BY <2>1, <2>2
<1>9. ASSUME NEW n \in Blocks, since <= n, masterBlocks - Ring < n, n <= masterBlocks
      PROVE  IsBlock(toClients[Slot(n)], n)'
  <2>1. n \in Int
    BY BoundAssumption
  <2>2. CASE n = masterBlocks
    BY <1>1, <1>3, <1>6, <2>2 DEF IsBlock, Old, SlotAudio, slot
  <2>3. CASE n < masterBlocks
    <3>1. Slot(n) # slot /\ Slot(n) \in Slots
      BY <1>2, <1>9, <2>1, <2>3, SlotDistinct, SlotType, RingAssumption DEF slot
    <3>2. IsBlock(toClients[Slot(n)], n)
      BY <1>2, <1>9, <2>1, <2>3, RingAssumption DEF OutputInv
    <3>3. QED
      BY <1>1, <1>3, <3>1, <3>2 DEF IsBlock, Old
  <2>4. QED
    BY <1>2, <1>9, <2>1, <2>2, <2>3
<1>10. since' <= masterBlocks'
  BY <1>1 DEF OutputInv
<1>11. QED
  BY <1>1, <1>2, <1>7, <1>8, <1>9, <1>10 DEF OutputInv

\* The Worker counts the block it wrote.
LEMMA OutputPublish ==
  ASSUME TypeOK, OutputInv, WorkerPublish
  PROVE  OutputInv'
<1>1. /\ workerPc = "publish" /\ workerPc' = "signal" /\ masterBlocks' = masterBlocks + 1
      /\ UNCHANGED <<since, toClients, bridgeFed>>
  BY DEF WorkerPublish
<1>2. masterBlocks \in Int /\ since \in Int /\ Written' = Written
  BY <1>1, BoundAssumption DEF TypeOK, Written
<1>3. \A s \in Slots, ch \in Channels :
        toClients[s][ch] \in Int /\ toClients[s][ch] <= masterBlocks
  BY BoundAssumption DEF TypeOK, OutputInv
<1>4. /\ since' <= masterBlocks'
      /\ \A s \in Slots, ch \in Channels :
           toClients'[s][ch] <= masterBlocks' /\ toClients'[s][ch] # masterBlocks'
  BY <1>1, <1>2, <1>3 DEF OutputInv
<1>5. QED
  BY <1>1, <1>2, <1>4 DEF OutputInv, IsBlock, Old

\* The ring to the clients keeps the last blocks of the MasterHolder.
LEMMA OutputStep ==
  ASSUME TypeOK, CursorInv, OutputInv, [Next]_vars
  PROVE  OutputInv'
<1>1. CASE MasterOpen
  <2>1. CASE \E p \in Places : Mapped(p)
    BY <1>1, <2>1, OutputKeep DEF MasterOpen
  <2>2. CASE ~(\E p \in Places : Mapped(p))
    <3>1. masterBlocks' = 0 /\ since' = 0 /\ workerPc' = "open" /\ toClients' = NoOutput
      BY <1>1, <2>2 DEF MasterOpen
    <3>2. \A s \in Slots, ch \in Channels : toClients'[s][ch] = -1
      BY <3>1 DEF NoOutput, NoAudio
    <3>3. Written' = -1 /\ \A n \in Blocks : ~(n <= -1)
      BY <3>1, BoundAssumption DEF Written
    <3>4. QED
      BY <3>1, <3>2, <3>3 DEF OutputInv, Old
  <2>3. QED
    BY <2>1, <2>2
<1>2. CASE MasterStart
  <2>1. /\ workerPc = "open" /\ workerPc' = "idle" /\ since' = masterBlocks
        /\ UNCHANGED <<masterBlocks, toClients, bridgeFed>>
    BY <1>2 DEF MasterStart
  <2>2. masterBlocks \in Int /\ since \in Int /\ since <= masterBlocks
    BY BoundAssumption DEF TypeOK, OutputInv
  <2>3. \A s \in Slots, ch \in Channels : toClients[s][ch] \in Int
    BY BoundAssumption DEF TypeOK
  <2>4. \A s \in Slots, ch \in Channels : ch \notin bridgeFed'[s] => Old(toClients[s][ch])'
    BY <2>1, <2>2, <2>3, BoundAssumption DEF OutputInv, Old
  <2>5. \A n \in Blocks : ~(since' <= n /\ n <= Written')
    BY <2>1, <2>2, BoundAssumption DEF Written
  <2>6. QED
    BY <2>1, <2>2, <2>4, <2>5 DEF OutputInv
<1>3. CASE MasterStop
  <2>1. /\ workerPc = "idle" /\ workerPc' = "open" /\ HolderGone
        /\ UNCHANGED <<masterBlocks, toClients>>
    BY <1>3 DEF MasterStop
  <2>2. \A s \in Slots, ch \in Channels :
          /\ toClients'[s][ch] \in Int /\ toClients'[s][ch] <= masterBlocks
          /\ ~MasterMayCrash => toClients'[s][ch] # masterBlocks
    BY <2>1, BoundAssumption DEF OutputInv, TypeOK
  <2>3. QED
    BY <2>1, <2>2, OutputGone
<1>4. CASE MasterClose
  BY <1>4, OutputKeep DEF MasterClose
<1>5. CASE MasterCrash
  <2>1. MasterMayCrash /\ workerPc' = "closed" /\ HolderGone /\ UNCHANGED masterBlocks
    BY <1>5 DEF MasterCrash
  <2> DEFINE slot == Slot(masterBlocks)
  <2>2. /\ slot \in Slots /\ masterBlocks \in Int /\ -1 <= masterBlocks
        /\ \A s \in Slots, ch \in Channels : toClients[s][ch] \in Int /\ toClients[s][ch] <= masterBlocks
    BY SlotType, BoundAssumption DEF TypeOK, OutputInv
  <2>3. PICK written \in SUBSET Channels :
          toClients' = [toClients EXCEPT ![slot] =
            [ch \in Channels |-> IF workerPc = "out" /\ ch \in written
                                 THEN SlotAudio(slot, ch) ELSE @[ch]]]
    BY <1>5 DEF MasterCrash
  <2> HIDE DEF slot
  <2>4. ASSUME NEW s \in Slots, NEW ch \in Channels
        PROVE  toClients'[s][ch] \in {toClients[s][ch], SlotAudio(slot, ch)}
    <3>1. CASE s = slot
      BY <2>2, <2>3, <3>1 DEF TypeOK
    <3>2. CASE s # slot
      BY <2>2, <2>3, <3>2 DEF TypeOK
    <3>3. QED
      BY <3>1, <3>2
  <2>5. \A ch \in Channels : SlotAudio(slot, ch) \in Int /\ SlotAudio(slot, ch) <= masterBlocks
    BY <2>2 DEF SlotAudio
  <2>6. \A s \in Slots, ch \in Channels :
          /\ toClients'[s][ch] \in Int /\ toClients'[s][ch] <= masterBlocks
          /\ ~MasterMayCrash => toClients'[s][ch] # masterBlocks
    BY <2>1, <2>2, <2>4, <2>5
  <2>7. QED
    BY <2>1, <2>6, OutputGone
<1>6. CASE SaveTable
  BY <1>6, OutputKeep DEF SaveTable
<1>7. CASE WorkerTick
  BY <1>7, OutputKeep DEF WorkerTick
<1>8. CASE WorkerOut
  BY <1>8, OutputWrite DEF WorkerOut
<1>9. CASE WorkerLook
  BY <1>9, OutputKeep DEF WorkerLook
<1>10. CASE WorkerMix
  BY <1>10, OutputKeep DEF WorkerMix
<1>11. CASE WorkerPublish
  BY <1>11, OutputPublish DEF WorkerPublish
<1>12. CASE WorkerSignal
  BY <1>12, OutputKeep DEF WorkerSignal
<1>13. ASSUME NEW p \in Places, ClientClaim(p) PROVE OutputInv'
  BY <1>13, OutputKeep DEF ClientClaim
<1>14. ASSUME NEW p \in Places, ClientReset(p) PROVE OutputInv'
  BY <1>14, OutputKeep DEF ClientReset
<1>15. ASSUME NEW p \in Places, ClientClear(p) PROVE OutputInv'
  BY <1>15, OutputKeep DEF ClientClear
<1>16. ASSUME NEW p \in Places, ClientJoin(p) PROVE OutputInv'
  BY <1>16, OutputKeep DEF ClientJoin
<1>17. ASSUME NEW p \in Places, ClientRun(p) PROVE OutputInv'
  BY <1>17, OutputKeep DEF ClientRun
<1>18. ASSUME NEW p \in Places, ClientStop(p) PROVE OutputInv'
  BY <1>18, OutputKeep DEF ClientStop
<1>19. ASSUME NEW p \in Places, ClientStopped(p) PROVE OutputInv'
  BY <1>19, OutputKeep DEF ClientStopped
<1>20. ASSUME NEW p \in Places, ClientRelease(p) PROVE OutputInv'
  BY <1>20, OutputKeep DEF ClientRelease
<1>21. ASSUME NEW p \in Places, ClientCrash(p) PROVE OutputInv'
  BY <1>21, OutputKeep DEF ClientCrash
<1>22. ASSUME NEW p \in Places, ClientWake(p) PROVE OutputInv'
  BY <1>22, OutputKeep DEF ClientWake
<1>23. ASSUME NEW p \in Places, ClientCatchUp(p) PROVE OutputInv'
  BY <1>23, OutputKeep DEF ClientCatchUp
<1>24. ASSUME NEW p \in Places, ClientIdle(p) PROVE OutputInv'
  BY <1>24, OutputKeep DEF ClientIdle
<1>25. ASSUME NEW p \in Places, ClientRead(p) PROVE OutputInv'
  BY <1>25, OutputKeep DEF ClientRead
<1>26. ASSUME NEW p \in Places, ClientWrite(p) PROVE OutputInv'
  BY <1>26, OutputKeep DEF ClientWrite
<1>27. ASSUME NEW p \in Places, ClientAdvance(p) PROVE OutputInv'
  BY <1>27, OutputKeep DEF ClientAdvance
<1>28. CASE UNCHANGED vars
  BY <1>28, OutputKeep DEF vars
<1>29. QED
  BY NextCases, <1>1, <1>2, <1>3, <1>4, <1>5, <1>6, <1>7, <1>8, <1>9, <1>10, <1>11, <1>12,
     <1>13, <1>14, <1>15, <1>16, <1>17, <1>18, <1>19, <1>20, <1>21, <1>22, <1>23, <1>24,
     <1>25, <1>26, <1>27, <1>28

\* An action that leaves the blocks the clients read alone.
LEMMA InputFrame ==
  ASSUME InputInv, UNCHANGED <<masterBlocks, since, bridgeFed, clientPc, nextBlock, input>>
  PROVE  InputInv'
BY DEF InputInv, PlaceInput, IsBlock, Old

\* What an action may not touch of a client.
InputSame(q) == clientPc'[q] = clientPc[q] /\ nextBlock'[q] = nextBlock[q] /\ input'[q] = input[q]

\* An action of one client.
LEMMA InputUpdate ==
  ASSUME InputInv, NEW p \in Places, UNCHANGED <<masterBlocks, since, bridgeFed>>,
         \A q \in Places \ {p} : InputSame(q), PlaceInput(p)'
  PROVE  InputInv'
<1>1. ASSUME NEW q \in Places, q # p PROVE PlaceInput(q)'
  <2>1. InputSame(q) /\ PlaceInput(q)
    BY <1>1 DEF InputInv
  <2>2. QED
    BY <2>1 DEF InputSame, PlaceInput, IsBlock, Old
<1>2. QED
  BY <1>1 DEF InputInv

\* A client outside a block.
LEMMA InputLeave ==
  ASSUME InputInv, NEW p \in Places, UNCHANGED <<masterBlocks, since, bridgeFed>>,
         \A q \in Places \ {p} : InputSame(q), clientPc'[p] \notin {"read", "write"}
  PROVE  InputInv'
<1>1. PlaceInput(p)'
  BY DEF PlaceInput
<1>2. QED
  BY <1>1, InputUpdate

\* No client is in the middle of a block of the MasterHolder that comes.
LEMMA InputGone ==
  ASSUME TypeOK, CursorInv, UNCHANGED <<clientPc, nextBlock, masterBlocks>>, since' = masterBlocks
  PROVE  InputInv'
<1> SUFFICES ASSUME NEW p \in Places, clientPc[p] \in {"read", "write"} PROVE nextBlock[p] < since'
  BY BoundAssumption DEF InputInv, PlaceInput, TypeOK
<1>1. nextBlock[p] < published[p] /\ published[p] <= masterBlocks
  BY DEF CursorInv
<1>2. nextBlock[p] \in Int /\ published[p] \in Int /\ masterBlocks \in Int
  BY BoundAssumption DEF TypeOK
<1>3. QED
  BY <1>1, <1>2

\* A published block the Worker has not come round to is in the ring.
LEMMA InputBegin ==
  ASSUME TypeOK, OutputInv, NEW n \in Blocks, n < masterBlocks, since <= n, masterBlocks < n + Ring
  PROVE  IsBlock(toClients[Slot(n)], n)
<1>1. n \in Int /\ masterBlocks \in Int /\ Ring \in Int
  BY RingAssumption, BoundAssumption DEF TypeOK
<1>2. Written - Ring < n /\ n <= Written
  BY <1>1 DEF Written
<1>3. QED
  BY <1>2 DEF OutputInv

\* A client in a block that was not overtaken has it.
LEMMA InputStep ==
  ASSUME TypeOK, CursorInv, OutputInv, InputInv, [Next]_vars
  PROVE  InputInv'
<1>1. CASE MasterOpen
  <2>1. CASE \E p \in Places : Mapped(p)
    BY <1>1, <2>1, InputFrame DEF MasterOpen
  <2>2. CASE ~(\E p \in Places : Mapped(p))
    BY <1>1, <2>2 DEF MasterOpen, Mapped, InputInv, PlaceInput
  <2>3. QED
    BY <2>1, <2>2
<1>2. CASE MasterStart
  BY <1>2, InputGone DEF MasterStart
<1>3. CASE MasterStop
  BY <1>3, InputGone DEF MasterStop, HolderGone
<1>4. CASE MasterClose
  BY <1>4, InputFrame DEF MasterClose
<1>5. CASE MasterCrash
  BY <1>5, InputGone DEF MasterCrash, HolderGone
<1>6. CASE SaveTable
  BY <1>6, InputFrame DEF SaveTable
<1>7. CASE WorkerTick
  BY <1>7, InputFrame DEF WorkerTick
<1>8. CASE WorkerOut
  <2>1. /\ UNCHANGED <<masterBlocks, since, clientPc, nextBlock, input>>
        /\ bridgeFed' = [bridgeFed EXCEPT ![Slot(masterBlocks)] = table.routed]
    BY <1>8 DEF WorkerOut
  <2>2. SUFFICES ASSUME NEW p \in Places, clientPc[p] \in {"read", "write"},
                        nextBlock[p] >= since, masterBlocks < nextBlock[p] + Ring
                 PROVE  IsBlock(input[p], nextBlock[p])'
    BY <2>1 DEF InputInv, PlaceInput
  <2>3. IsBlock(input[p], nextBlock[p])
    BY <2>2 DEF InputInv, PlaceInput
  <2>4. /\ nextBlock[p] \in Int /\ masterBlocks \in Int /\ published[p] \in Int
        /\ nextBlock[p] < published[p] /\ published[p] <= masterBlocks
    BY <2>2, BoundAssumption DEF TypeOK, CursorInv
  <2>5. Slot(nextBlock[p]) # Slot(masterBlocks) /\ Slot(nextBlock[p]) \in Slots
    BY <2>2, <2>4, SlotDistinct, SlotType
  <2>6. bridgeFed'[Slot(nextBlock[p])] = bridgeFed[Slot(nextBlock[p])]
    BY <2>1, <2>5 DEF TypeOK
  <2>7. QED
    BY <2>1, <2>3, <2>6 DEF IsBlock, Old
<1>9. CASE WorkerLook
  BY <1>9, InputFrame DEF WorkerLook
<1>10. CASE WorkerMix
  BY <1>10, InputFrame DEF WorkerMix
<1>11. CASE WorkerPublish
  <2>1. /\ UNCHANGED <<since, bridgeFed, clientPc, nextBlock, input>>
        /\ masterBlocks' = masterBlocks + 1
    BY <1>11 DEF WorkerPublish
  <2>2. ASSUME NEW p \in Places, masterBlocks + 1 < nextBlock[p] + Ring
        PROVE  masterBlocks < nextBlock[p] + Ring
    BY <2>2, RingAssumption, BoundAssumption DEF TypeOK
  <2>3. QED
    BY <2>1, <2>2 DEF InputInv, PlaceInput, IsBlock, Old
<1>12. CASE WorkerSignal
  BY <1>12, InputFrame DEF WorkerSignal
<1>13. ASSUME NEW p \in Places, ClientClaim(p) PROVE InputInv'
  <2>1. /\ UNCHANGED <<masterBlocks, since, bridgeFed>>
        /\ clientPc'[p] \notin {"read", "write"}
    BY <1>13 DEF ClientClaim, TypeOK
  <2>2. \A q \in Places \ {p} : InputSame(q)
    BY <1>13 DEF ClientClaim, InputSame, TypeOK
  <2>3. QED
    BY <2>1, <2>2, InputLeave
<1>14. ASSUME NEW p \in Places, ClientReset(p) PROVE InputInv'
  <2>1. /\ UNCHANGED <<masterBlocks, since, bridgeFed>>
        /\ clientPc'[p] \notin {"read", "write"}
    BY <1>14 DEF ClientReset, TypeOK
  <2>2. \A q \in Places \ {p} : InputSame(q)
    BY <1>14 DEF ClientReset, InputSame, TypeOK
  <2>3. QED
    BY <2>1, <2>2, InputLeave
<1>15. ASSUME NEW p \in Places, ClientClear(p) PROVE InputInv'
  <2>1. /\ UNCHANGED <<masterBlocks, since, bridgeFed>>
        /\ clientPc'[p] \notin {"read", "write"}
    BY <1>15 DEF ClientClear, TypeOK
  <2>2. \A q \in Places \ {p} : InputSame(q)
    BY <1>15 DEF ClientClear, InputSame, TypeOK
  <2>3. QED
    BY <2>1, <2>2, InputLeave
<1>16. ASSUME NEW p \in Places, ClientJoin(p) PROVE InputInv'
  <2>1. /\ UNCHANGED <<masterBlocks, since, bridgeFed>>
        /\ clientPc'[p] \notin {"read", "write"}
    BY <1>16 DEF ClientJoin, TypeOK
  <2>2. \A q \in Places \ {p} : InputSame(q)
    BY <1>16 DEF ClientJoin, InputSame, TypeOK
  <2>3. QED
    BY <2>1, <2>2, InputLeave
<1>17. ASSUME NEW p \in Places, ClientRun(p) PROVE InputInv'
  <2>1. /\ UNCHANGED <<masterBlocks, since, bridgeFed>>
        /\ clientPc'[p] \notin {"read", "write"}
    BY <1>17 DEF ClientRun, TypeOK
  <2>2. \A q \in Places \ {p} : InputSame(q)
    BY <1>17 DEF ClientRun, InputSame, TypeOK
  <2>3. QED
    BY <2>1, <2>2, InputLeave
<1>18. ASSUME NEW p \in Places, ClientStop(p) PROVE InputInv'
  BY <1>18, InputFrame DEF ClientStop
<1>19. ASSUME NEW p \in Places, ClientStopped(p) PROVE InputInv'
  <2>1. /\ UNCHANGED <<masterBlocks, since, bridgeFed>>
        /\ clientPc'[p] \notin {"read", "write"}
    BY <1>19 DEF ClientStopped, TypeOK
  <2>2. \A q \in Places \ {p} : InputSame(q)
    BY <1>19 DEF ClientStopped, InputSame, TypeOK, Forget
  <2>3. QED
    BY <2>1, <2>2, InputLeave
<1>20. ASSUME NEW p \in Places, ClientRelease(p) PROVE InputInv'
  <2>1. /\ UNCHANGED <<masterBlocks, since, bridgeFed>>
        /\ clientPc'[p] \notin {"read", "write"}
    BY <1>20 DEF ClientRelease, TypeOK
  <2>2. \A q \in Places \ {p} : InputSame(q)
    BY <1>20 DEF ClientRelease, InputSame, TypeOK
  <2>3. QED
    BY <2>1, <2>2, InputLeave
<1>21. ASSUME NEW p \in Places, ClientCrash(p) PROVE InputInv'
  <2>1. /\ UNCHANGED <<masterBlocks, since, bridgeFed>>
        /\ clientPc'[p] \notin {"read", "write"}
    BY <1>21 DEF ClientCrash, TypeOK
  <2>2. \A q \in Places \ {p} : InputSame(q)
    BY <1>21 DEF ClientCrash, InputSame, TypeOK, Forget
  <2>3. QED
    BY <2>1, <2>2, InputLeave
<1>22. ASSUME NEW p \in Places, ClientWake(p) PROVE InputInv'
  <2>1. /\ UNCHANGED <<masterBlocks, since, bridgeFed>>
        /\ clientPc'[p] \notin {"read", "write"}
    BY <1>22 DEF ClientWake, TypeOK
  <2>2. \A q \in Places \ {p} : InputSame(q)
    BY <1>22 DEF ClientWake, InputSame, TypeOK
  <2>3. QED
    BY <2>1, <2>2, InputLeave
<1>23. ASSUME NEW p \in Places, ClientCatchUp(p) PROVE InputInv'
  <2> DEFINE first == IF RingBehind(p) THEN masterBlocks - 1 ELSE nextBlock[p]
  <2>1. /\ UNCHANGED <<masterBlocks, since, bridgeFed, toClients>>
        /\ nextBlock' = [nextBlock EXCEPT ![p] = first]
    BY <1>23 DEF ClientCatchUp
  <2>2. first \in Blocks /\ first < masterBlocks
    BY <1>23, RingAssumption, BoundAssumption DEF ClientCatchUp, RingBehind, TypeOK
  <2>3. CASE clockStop[p]
    <3>1. clientPc' = [clientPc EXCEPT ![p] = "exited"] /\ UNCHANGED input
      BY <1>23, <2>3 DEF ClientCatchUp
    <3>2. clientPc'[p] \notin {"read", "write"} /\ \A q \in Places \ {p} : InputSame(q)
      BY <2>1, <3>1 DEF InputSame, TypeOK
    <3>3. QED
      BY <2>1, <3>2, InputLeave
  <2>4. CASE ~clockStop[p]
    <3>1. /\ clientPc' = [clientPc EXCEPT ![p] = "read"]
          /\ input' = [input EXCEPT ![p] = toClients[Slot(first)]]
      BY <1>23, <2>4 DEF ClientCatchUp
    <3> HIDE DEF first
    <3>2. \A q \in Places \ {p} : InputSame(q)
      BY <2>1, <3>1 DEF InputSame, TypeOK
    <3>3. nextBlock'[p] = first /\ input'[p] = toClients[Slot(first)]
      BY <2>1, <3>1 DEF TypeOK
    <3>4. since <= first /\ masterBlocks < first + Ring => IsBlock(toClients[Slot(first)], first)
      BY <2>2, InputBegin
    <3>5. PlaceInput(p)'
      BY <2>1, <3>3, <3>4 DEF PlaceInput, IsBlock, Old
    <3>6. QED
      BY <2>1, <3>2, <3>5, InputUpdate
  <2>5. QED
    BY <2>3, <2>4
<1>24. ASSUME NEW p \in Places, ClientIdle(p) PROVE InputInv'
  <2>1. /\ UNCHANGED <<masterBlocks, since, bridgeFed>>
        /\ clientPc'[p] \notin {"read", "write"}
    BY <1>24 DEF ClientIdle, TypeOK, LoopEnd
  <2>2. \A q \in Places \ {p} : InputSame(q)
    BY <1>24 DEF ClientIdle, InputSame, TypeOK
  <2>3. QED
    BY <2>1, <2>2, InputLeave
<1>25. ASSUME NEW p \in Places, ClientRead(p) PROVE InputInv'
  <2> DEFINE n == nextBlock[p]
  <2>1. /\ clientPc[p] = "read" /\ clientPc' = [clientPc EXCEPT ![p] = "write"]
        /\ UNCHANGED <<masterBlocks, since, bridgeFed, nextBlock>>
    BY <1>25 DEF ClientRead
  <2>2. PICK audio \in [Channels -> Audio] :
          /\ \A ch \in Channels : audio[ch] \in Caught(p, ch)
          /\ input' = [input EXCEPT ![p] = audio]
    BY <1>25 DEF ClientRead
  <2>3. \A q \in Places \ {p} : InputSame(q)
    BY <2>1, <2>2 DEF InputSame, TypeOK
  <2>4. n \in Blocks /\ n \in Int /\ masterBlocks \in Int /\ published[p] \in Int
    BY BoundAssumption DEF TypeOK
  <2>5. n < masterBlocks
    BY <2>1, <2>4 DEF CursorInv
  <2>6. ASSUME n >= since, masterBlocks < n + Ring PROVE IsBlock(audio, n)
    <3>1. IsBlock(input[p], n)
      BY <2>1, <2>6 DEF InputInv, PlaceInput
    <3>2. IsBlock(toClients[Slot(n)], n)
      BY <2>4, <2>5, <2>6, InputBegin DEF TypeOK
    <3>3. Slot(masterBlocks) # Slot(n)
      BY <2>4, <2>5, <2>6, SlotDistinct
    <3>4. \A ch \in Channels : audio[ch] \in {input[p][ch], toClients[Slot(n)][ch]}
      BY <2>2, <3>3 DEF Caught
    <3>5. QED
      BY <3>1, <3>2, <3>4 DEF IsBlock
  <2>7. input'[p] = audio
    BY <2>2 DEF TypeOK
  <2>8. PlaceInput(p)'
    BY <2>1, <2>6, <2>7 DEF PlaceInput, IsBlock, Old
  <2>9. QED
    BY <2>1, <2>3, <2>8, InputUpdate
<1>26. ASSUME NEW p \in Places, ClientWrite(p) PROVE InputInv'
  <2>1. /\ UNCHANGED <<masterBlocks, since, bridgeFed>>
        /\ clientPc'[p] \notin {"read", "write"}
    BY <1>26 DEF ClientWrite, TypeOK
  <2>2. \A q \in Places \ {p} : InputSame(q)
    BY <1>26 DEF ClientWrite, InputSame, TypeOK
  <2>3. QED
    BY <2>1, <2>2, InputLeave
<1>27. ASSUME NEW p \in Places, ClientAdvance(p) PROVE InputInv'
  <2> DEFINE next == nextBlock[p] + 1
  <2>1. /\ clientPc[p] = "advance" /\ nextBlock' = [nextBlock EXCEPT ![p] = next]
        /\ UNCHANGED <<masterBlocks, since, bridgeFed, toClients>>
    BY <1>27 DEF ClientAdvance
  <2>2. /\ nextBlock[p] \in Int /\ published[p] \in Int /\ masterBlocks \in Blocks
        /\ nextBlock[p] \in Blocks /\ nextBlock[p] < published[p] /\ published[p] <= masterBlocks
    BY <2>1, BoundAssumption DEF TypeOK, CursorInv
  <2>3. CASE next < published[p] /\ ~clockStop[p]
    <3>1. /\ clientPc' = [clientPc EXCEPT ![p] = "read"]
          /\ input' = [input EXCEPT ![p] = toClients[Slot(next)]]
      BY <1>27, <2>3 DEF ClientAdvance
    <3>2. next \in Blocks /\ next < masterBlocks
      BY <2>2, <2>3, BoundAssumption
    <3> HIDE DEF next
    <3>3. \A q \in Places \ {p} : InputSame(q)
      BY <2>1, <3>1 DEF InputSame, TypeOK
    <3>4. nextBlock'[p] = next /\ input'[p] = toClients[Slot(next)]
      BY <2>1, <3>1 DEF TypeOK
    <3>5. since <= next /\ masterBlocks < next + Ring => IsBlock(toClients[Slot(next)], next)
      BY <3>2, InputBegin
    <3>6. PlaceInput(p)'
      BY <2>1, <3>4, <3>5 DEF PlaceInput, IsBlock, Old
    <3>7. QED
      BY <2>1, <3>3, <3>6, InputUpdate
  <2>4. CASE ~(next < published[p] /\ ~clockStop[p])
    <3>1. clientPc' = [clientPc EXCEPT ![p] = LoopEnd(p)] /\ UNCHANGED input
      BY <1>27, <2>4 DEF ClientAdvance
    <3>2. /\ \A q \in Places \ {p} : InputSame(q)
          /\ clientPc'[p] \notin {"read", "write"}
      BY <2>1, <3>1 DEF InputSame, LoopEnd, TypeOK
    <3>3. QED
      BY <2>1, <3>2, InputLeave
  <2>5. QED
    BY <2>3, <2>4
<1>28. CASE UNCHANGED vars
  BY <1>28, InputFrame DEF vars
<1>29. QED
  BY NextCases, <1>1, <1>2, <1>3, <1>4, <1>5, <1>6, <1>7, <1>8, <1>9, <1>10, <1>11, <1>12,
     <1>13, <1>14, <1>15, <1>16, <1>17, <1>18, <1>19, <1>20, <1>21, <1>22, <1>23, <1>24,
     <1>25, <1>26, <1>27, <1>28

(***************************************************************************)
(* The theorems.                                                           *)
(***************************************************************************)

LEMMA InitIInv == Init => IInv
<1> SUFFICES ASSUME Init PROVE IInv
  OBVIOUS
<1>1. TypeOK
  BY BoundAssumption
  DEF Init, TypeOK, NoOwner, NoBlocks, NoOutput, NoInput, NoAudio, WorkerStates, ClientStates
<1>2. PhaseInv /\ CursorInv
  BY BoundAssumption DEF Init, PhaseInv, CursorInv, Mapped, Running, ThreadStates, Counted,
    NoBlocks, NoOwner
<1>3. RingInv
  BY SlotType, BoundAssumption DEF Init, RingInv, PlaceRing, NoBlocks, NoInput
<1>4. MixInv /\ InputInv /\ WakeInv
  BY DEF Init, MixInv, InputInv, PlaceInput, WakeInv
<1>5. OutputInv
  <2>1. \A s \in Slots, ch \in Channels : toClients[s][ch] = -1
    BY DEF Init, NoOutput, NoAudio
  <2>2. masterBlocks = 0 /\ since = 0 /\ Written = -1
    BY DEF Init, Written
  <2>3. \A n \in Blocks : ~(n <= -1)
    BY BoundAssumption
  <2>4. QED
    BY <2>1, <2>2, <2>3 DEF OutputInv, Old
<1>6. QED
  BY <1>1, <1>2, <1>3, <1>4, <1>5 DEF IInv

LEMMA StepIInv == IInv /\ [Next]_vars => IInv'
BY TypeStep, PhaseStep, CursorStep, RingStep, MixStep, OutputStep, InputStep, WakeStep DEF IInv

\* The inductive invariant holds in every state.
THEOREM Invariance == Spec => []IInv
<1>1. Init => IInv
  BY InitIInv
<1>2. IInv /\ [Next]_vars => IInv'
  BY StepIInv
<1>3. QED
  BY <1>1, <1>2, PTL DEF Spec

\* Every variable keeps its type: no count leaves its range.
THEOREM TypeCorrect == Spec => []TypeOK
<1>1. IInv => TypeOK
  BY DEF IInv
<1>2. QED
  BY <1>1, Invariance, PTL

\* The Worker never sums a slot a client is writing: neither a torn block
\* nor a data race on the ring, for any delay a Save can choose.
THEOREM MixNeverTorn == Spec => []NoTornMix
<1>1. IInv => NoTornMix
  <2> SUFFICES ASSUME IInv, NEW p \in have, workerPc = "mix", clientPc[p] = "write"
               PROVE  Slot(mixBlock) # Slot(nextBlock[p])
    BY DEF NoTornMix
  <2>1. /\ p \in Places /\ mixBlock \in Int /\ nextBlock[p] \in Int /\ published[p] \in Int
        /\ masterBlocks \in Int
    BY BoundAssumption DEF IInv, TypeOK
  <2>2. Going(p)
    BY DEF Going, Running, ThreadStates
  <2>3. mixBlock < nextBlock[p] /\ masterBlocks - Ring < mixBlock
    BY <2>2 DEF IInv, MixInv, MixSound
  <2>4. nextBlock[p] < published[p] /\ published[p] <= masterBlocks
    BY <2>1 DEF IInv, CursorInv
  <2>5. nextBlock[p] < mixBlock + Ring
    BY <2>1, <2>3, <2>4, RingAssumption
  <2>6. QED
    BY <2>1, <2>3, <2>5, SlotDistinct
<1>2. QED
  BY <1>1, Invariance, PTL

\* What the Worker sums of a client it found ahead is that client's block.
THEOREM MixCorrect == Spec => MixExact
<1>1. ASSUME IInv, [Next]_vars PROVE MixIsExact
  <2> SUFFICES ASSUME NEW p \in have, workerPc = "mix", workerPc' = "publish"
               PROVE  \/ masterIn'[p] = mixBlock
                      \/ masterIn'[p] = Silence /\ (mixBlock < joined[p] \/ ~Running(p))
                      \/ mixBlock \in gaps[p]
    BY DEF MixIsExact
  <2>1. WorkerMix
    BY <1>1, NextCases
    DEF MasterOpen, MasterStart, MasterStop, MasterClose, MasterCrash, SaveTable,
      WorkerTick, WorkerOut, WorkerLook, WorkerPublish, WorkerSignal,
      ClientClaim, ClientReset, ClientClear, ClientJoin, ClientRun, ClientStop, ClientStopped,
      ClientRelease, ClientCrash, ClientWake, ClientCatchUp, ClientIdle, ClientRead,
      ClientWrite, ClientAdvance, vars
  <2>2. masterIn'[p] = fromClient[p][Slot(mixBlock)]
    <3>1. p \in Places
      BY <1>1 DEF IInv, TypeOK
    <3>2. QED
      BY <2>1, <3>1 DEF WorkerMix
  <2>3. MixSound(p)
    BY <1>1 DEF IInv, MixInv
  <2>4. QED
    BY <2>2, <2>3 DEF MixSound, Going
<1>2. QED
  BY <1>1, Invariance, PTL DEF Spec, MixExact

\* A client that is not overtaken while it copies a block has that block.
THEOREM InputCorrect == Spec => []InputExact
<1>1. IInv => InputExact
  BY DEF IInv, InputInv, PlaceInput, InputExact, IsBlock
<1>2. QED
  BY <1>1, Invariance, PTL

\* A client's count never passes the Master's.
THEOREM CountsOrdered == Spec => []NeverAhead
<1>1. IInv => NeverAhead
  BY DEF IInv, CursorInv, NeverAhead
<1>2. QED
  BY <1>1, Invariance, PTL

\* No client waits for its timeout with a block to run.
THEOREM WakeupsKept == Spec => []NoLostWakeup
<1>1. IInv => NoLostWakeup
  <2> SUFFICES ASSUME IInv, NEW p \in Places, clientPc[p] = "wait",
                      nextBlock[p] < masterBlocks, ~MasterMayCrash
               PROVE  bridgeTick[p] \/ workerPc = "signal"
    BY DEF NoLostWakeup
  <2>1. nextBlock[p] \in Int /\ masterBlocks \in Int
    BY BoundAssumption DEF IInv, TypeOK
  <2>2. QED
    BY <2>1 DEF IInv, WakeInv
<1>2. QED
  BY <1>1, Invariance, PTL

===============================================================================
