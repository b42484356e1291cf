------------------------- MODULE RgbdPipelineProofs -------------------------
(***************************************************************************)
(* Safety of the lock-free pipeline for every FIFO size, ring size, number *)
(* of USB buffers and number of pictures, under the timing hypothesis      *)
(* Timely.                                                                 *)
(***************************************************************************)
EXTENDS RgbdPipeline, TLAPS, SequenceTheorems

\* The hypothesis on scheduling: a thread makes at most one FIFO test while
\* the other one is between the two stores of its index, and the RGB thread
\* does not come round the ring during one copy.
Timely == MaxChecks = 1 /\ MaxLap <= R - 2

-----------------------------------------------------------------------------
(* The inductive invariant.                                                *)

HeadPos == Mask(head)
TailPos == Mask(tail)

\* Where an index may be unmasked.
Indices ==
  /\ pcD # "mask" => head < N
  /\ pcD = "mask" => head > 0
  /\ pcU # "mask" => tail < N
  /\ pcU = "mask" => tail > 0

\* A slot that holds a published frame.
Occupied(i) == IF TailPos <= HeadPos THEN TailPos <= i /\ i < HeadPos
                                     ELSE TailPos <= i \/ i < HeadPos

Filling == IF DepthCopying THEN 1 ELSE 0
Taking  == IF UvcCopying THEN 1 ELSE 0

\* There is room for the frame being copied in, and a frame under the one
\* being copied out; just after an unmasked store there is one more of each,
\* which pays for the one test the other thread may get wrong.
Room ==
  /\ Pending + Filling <= N - 1
  /\ TailWindow /\ checksD = 0 => Pending + Filling <= N - 2
Stock ==
  /\ Taking <= Pending
  /\ HeadWindow /\ checksU = 0 => Taking + 1 <= Pending

Whole(f) == f.lo = f.hi /\ f.stamp = f.lo

\* The ring: the slot before rgb_index is complete, and runner's slot is lap
\* slots further back.
Ring ==
  /\ pcR \in {"start", "exited"} => rgb_index = 0
  /\ Whole(rgb[RingPrev(rgb_index)])
  /\ pcR \in {"copyHi", "stamp", "advance"} => rgb[rgb_index].lo = captured
  /\ pcR \in {"stamp", "advance"} => rgb[rgb_index].hi = captured
  /\ pcR = "advance" => rgb[rgb_index].stamp = captured
Reading ==
  RingReading => /\ rgb_index = idx + 1 + lap \/ rgb_index = idx + 1 + lap - R
                 /\ Whole(rgb[idx])

\* The FIFO: what is published and the copy in progress.
Published == \A i \in Slot : Occupied(i) => Whole(fifo[i])
CopyIn ==
  /\ pcD \in {"copyLo", "copyHi"} => fifo[head].stamp = rgb[idx].stamp
  /\ pcD = "copyHi" => fifo[head].lo = rgb[idx].lo
  /\ pcD = "inc" => Whole(fifo[head])
CopyOut ==
  /\ pcU \in {"copyHi", "inc"} => bufs[turn].lo = fifo[tail].lo
  /\ pcU = "inc" => bufs[turn].hi = fifo[tail].hi

Flow == TypeOK /\ Indices /\ Room /\ Stock
Data == Ring /\ Reading /\ Published /\ CopyIn /\ CopyOut /\ DeliveredWhole
IInv == Flow /\ Data
-----------------------------------------------------------------------------
(* Type correctness.  It rests on Indices: each thread increments only an  *)
(* index it has masked before.                                             *)

(* What the assumptions say of the sizes of the FIFO, of the ring and of   *)
(* the set of USB buffers.                                                 *)
LEMMA ConstantFacts == N \in Nat /\ N >= 2 /\ R \in Nat /\ R >= 2 /\ NBufs \in Nat /\ NBufs >= 1
BY FifoAssumption, RingAssumption, BoundAssumption

TypeInv == TypeOK /\ Indices

(* memcpy into one half of a picture, and a store to its stamp, keep the    *)
(* types of the memory they write.                                         *)
LEMMA MemoryWrite ==
  ASSUME NEW S, NEW f \in [S -> Memory], NEW i \in S, NEW v \in Capture
  PROVE  /\ [f EXCEPT ![i].lo = v] \in [S -> Memory]
         /\ [f EXCEPT ![i].hi = v] \in [S -> Memory]
         /\ [f EXCEPT ![i].stamp = v] \in [S -> Memory]
BY DEF Memory

(* The same for memcpy into a USB buffer.                                  *)
LEMMA ImageWrite ==
  ASSUME NEW S, NEW f \in [S -> Image], NEW i \in S, NEW v \in Capture
  PROVE  /\ [f EXCEPT ![i].lo = v] \in [S -> Image]
         /\ [f EXCEPT ![i].hi = v] \in [S -> Image]
BY DEF Image

(* What memcpy and the stamp assignment read is a capture number.          *)
LEMMA MemoryRead ==
  ASSUME NEW S, NEW f \in [S -> Memory], NEW i \in S
  PROVE  f[i].lo \in Capture /\ f[i].hi \in Capture /\ f[i].stamp \in Capture
BY DEF Memory

(* The initial state is well typed and both indices are masked.            *)
LEMMA TypeInit == Init => TypeInv
<1> SUFFICES ASSUME Init PROVE TypeInv
  OBVIOUS
<1>1. MemoryTypes
  BY BoundAssumption DEF Init, MemoryTypes, NoPicture, Memory, Image, Capture
<1>2. IndexTypes /\ PcTypes /\ Indices
  BY ConstantFacts, BoundAssumption
     DEF Init, IndexTypes, PcTypes, Indices, RgbSlot, Buf, Capture
<1> QED
  BY <1>1, <1>2 DEF TypeInv, TypeOK

(* Every step of the three threads keeps the types and masks an index      *)
(* before it is used again (QUE_FIFO_HEAD, QUE_FIFO_TAIL).                 *)
LEMMA TypeStep == ASSUME TypeInv, [Next]_vars PROVE TypeInv'
<1> USE DEF TypeInv, TypeOK
<1>1. PcTypes' /\ Indices' /\ IndexTypes'
  <2> USE ConstantFacts, BoundAssumption
          DEF IndexTypes, PcTypes, Indices, RgbSlot, Buf, Capture,
              ringVars, fifoVars, usbVars
  <2>1. CASE RgbStart
    BY <2>1 DEF RgbStart
  <2>2. CASE RgbCopyLo
    BY <2>2 DEF RgbCopyLo
  <2>3. CASE RgbCopyHi
    BY <2>3 DEF RgbCopyHi
  <2>4. CASE RgbStamp
    BY <2>4 DEF RgbStamp
  <2>5. CASE RgbAdvance
    BY <2>5 DEF RgbAdvance, RingNext, RingReading
  <2>6. CASE DepthDequeue
    BY <2>6 DEF DepthDequeue, RingPrev
  <2>7. CASE DepthCheckFull
    BY <2>7 DEF DepthCheckFull, TailWindow
  <2>8. CASE DepthCopyStamp
    BY <2>8 DEF DepthCopyStamp
  <2>9. CASE DepthCopyLo
    BY <2>9 DEF DepthCopyLo
  <2>10. CASE DepthCopyHi
    BY <2>10 DEF DepthCopyHi
  <2>11. CASE HeadInc
    BY <2>11 DEF HeadInc
  <2>12. CASE HeadMask
    BY <2>12 DEF HeadMask, Mask
  <2>13. CASE FillEmpty
    BY <2>13 DEF FillEmpty, NextTurn, HeadWindow
  <2>14. CASE FillBegin
    BY <2>14 DEF FillBegin, HeadWindow
  <2>15. CASE FillCopyLo
    BY <2>15 DEF FillCopyLo
  <2>16. CASE FillCopyHi
    BY <2>16 DEF FillCopyHi
  <2>17. CASE TailInc
    BY <2>17 DEF TailInc
  <2>18. CASE TailMask
    BY <2>18 DEF TailMask, Mask, NextTurn
  <2>19. CASE UNCHANGED vars
    BY <2>19 DEF vars
  <2> QED
    BY <2>1, <2>2, <2>3, <2>4, <2>5, <2>6, <2>7, <2>8, <2>9, <2>10, <2>11, <2>12, <2>13, <2>14, <2>15, <2>16, <2>17, <2>18, <2>19
       DEF Next, RgbNext, DepthNext, UvcNext
<1>2. MemoryTypes'
  <2> USE DEF MemoryTypes, ringVars, fifoVars, usbVars
  <2>1. CASE RgbCopyLo
    <3>1. rgb_index \in RgbSlot /\ captured + 1 \in Capture
      BY <2>1, BoundAssumption DEF RgbCopyLo, IndexTypes, Capture
    <3> QED
      BY <2>1, <3>1, MemoryWrite DEF RgbCopyLo
  <2>2. CASE RgbCopyHi
    <3>1. rgb_index \in RgbSlot /\ captured \in Capture
      BY <2>2, BoundAssumption DEF RgbCopyHi, IndexTypes, Capture
    <3> QED
      BY <2>2, <3>1, MemoryWrite DEF RgbCopyHi
  <2>3. CASE RgbStamp
    <3>1. rgb_index \in RgbSlot /\ captured \in Capture
      BY <2>3, BoundAssumption DEF RgbStamp, IndexTypes, Capture
    <3> QED
      BY <2>3, <3>1, MemoryWrite DEF RgbStamp
  <2>4. CASE DepthCopyStamp
    <3>1. head \in Slot /\ idx \in RgbSlot
      BY <2>4, ConstantFacts DEF DepthCopyStamp, IndexTypes, Indices, Slot
    <3> QED
      BY <2>4, <3>1, MemoryRead, MemoryWrite DEF DepthCopyStamp
  <2>5. CASE DepthCopyLo
    <3>1. head \in Slot /\ idx \in RgbSlot
      BY <2>5, ConstantFacts DEF DepthCopyLo, IndexTypes, Indices, Slot
    <3> QED
      BY <2>5, <3>1, MemoryRead, MemoryWrite DEF DepthCopyLo
  <2>6. CASE DepthCopyHi
    <3>1. head \in Slot /\ idx \in RgbSlot
      BY <2>6, ConstantFacts DEF DepthCopyHi, IndexTypes, Indices, Slot
    <3> QED
      BY <2>6, <3>1, MemoryRead, MemoryWrite DEF DepthCopyHi
  <2>7. CASE FillCopyLo
    <3>1. tail \in Slot /\ turn \in Buf
      BY <2>7, ConstantFacts DEF FillCopyLo, IndexTypes, Indices, Slot
    <3> QED
      BY <2>7, <3>1, MemoryRead, ImageWrite DEF FillCopyLo
  <2>8. CASE FillCopyHi
    <3>1. tail \in Slot /\ turn \in Buf
      BY <2>8, ConstantFacts DEF FillCopyHi, IndexTypes, Indices, Slot
    <3> QED
      BY <2>8, <3>1, MemoryRead, ImageWrite DEF FillCopyHi
  <2>9. CASE TailInc
    BY <2>9 DEF TailInc, IndexTypes
  <2>10. CASE \/ RgbStart \/ RgbAdvance \/ DepthDequeue \/ DepthCheckFull \/ HeadInc
             \/ HeadMask \/ FillEmpty \/ FillBegin \/ TailMask
             \/ UNCHANGED vars
    BY <2>10 DEF vars, RgbStart, RgbAdvance, DepthDequeue, DepthCheckFull, HeadInc, HeadMask, FillEmpty, FillBegin, TailMask
  <2> QED
    BY <2>1, <2>2, <2>3, <2>4, <2>5, <2>6, <2>7, <2>8, <2>9, <2>10
       DEF Next, RgbNext, DepthNext, UvcNext
<1> QED
  BY <1>1, <1>2

(* All variables keep their types for ever; in particular head and tail    *)
(* never exceed the FIFO size, however the two threads interleave.         *)
THEOREM TypeCorrect == Spec => []TypeOK
<1>1. TypeInv => TypeOK
  BY DEF TypeInv
<1> QED
  BY <1>1, TypeInit, TypeStep, PTL DEF Spec
-----------------------------------------------------------------------------
(* Flow control: the FIFO never overflows and is never read when empty.    *)

(* Both accounts hold in the empty FIFO.                                   *)
LEMMA FlowInit == Init => Flow
BY TypeInit, ConstantFacts
   DEF Init, Flow, TypeInv, Room, Stock, Pending, Mask, Filling, Taking,
       DepthCopying, UvcCopying, TailWindow, HeadWindow

(* No step of a thread overdraws either account: a test made while the     *)
(* other index is unmasked may give the wrong answer, and the frame or     *)
(* the slot freed by the unmasked store covers it (FIFO_FULL and           *)
(* FIFO_EMPTY against QUE_FIFO_TAIL and QUE_FIFO_HEAD).                    *)
LEMMA FlowStep == ASSUME Timely, Flow, [Next]_vars PROVE Flow'
<1>1. TypeInv /\ TypeInv'
  BY TypeStep DEF Flow, TypeInv
<1> USE <1>1, ConstantFacts
        DEF Timely, TypeInv, TypeOK, IndexTypes, PcTypes, Indices, Flow, Room, Stock,
            Pending, Mask, Filling, Taking, DepthCopying, UvcCopying, TailWindow,
            HeadWindow, ringVars, fifoVars, usbVars
<1>2. CASE RgbNext
  BY <1>2 DEF RgbNext, RgbStart, RgbCopyLo, RgbCopyHi, RgbStamp, RgbAdvance
<1>3. CASE DepthDequeue
  BY <1>3 DEF DepthDequeue
<1>4. CASE DepthCheckFull
  BY <1>4 DEF DepthCheckFull, FIFO_FULL
<1>5. CASE DepthCopyStamp
  BY <1>5 DEF DepthCopyStamp
<1>6. CASE DepthCopyLo
  BY <1>6 DEF DepthCopyLo
<1>7. CASE DepthCopyHi
  BY <1>7 DEF DepthCopyHi
<1>8. CASE HeadInc
  BY <1>8 DEF HeadInc
<1>9. CASE HeadMask
  BY <1>9 DEF HeadMask
<1>10. CASE FillEmpty
  BY <1>10 DEF FillEmpty, NextTurn, FIFO_EMPTY
<1>11. CASE FillBegin
  BY <1>11 DEF FillBegin, FIFO_EMPTY
<1>12. CASE FillCopyLo
  BY <1>12 DEF FillCopyLo
<1>13. CASE FillCopyHi
  BY <1>13 DEF FillCopyHi
<1>14. CASE TailInc
  BY <1>14 DEF TailInc
<1>15. CASE TailMask
  BY <1>15 DEF TailMask, NextTurn
<1>16. CASE UNCHANGED vars
  BY <1>16 DEF vars
<1> QED
  BY <1>2, <1>3, <1>4, <1>5, <1>6, <1>7, <1>8, <1>9, <1>10, <1>11, <1>12, <1>13, <1>14, <1>15, <1>16 DEF Next, DepthNext, UvcNext
-----------------------------------------------------------------------------
(* Data: what is copied is one picture.                                    *)

(* The slot being filled is free, and the slot being taken is occupied.    *)
LEMMA SlotFacts ==
  ASSUME Flow
  PROVE  /\ DepthCopying => head \in Slot /\ ~Occupied(head)
         /\ UvcCopying => tail \in Slot /\ Occupied(tail)
BY ConstantFacts
   DEF Flow, TypeOK, IndexTypes, PcTypes, Indices, Room, Stock, Pending, Mask,
       Filling, Taking, DepthCopying, UvcCopying, Occupied, HeadPos, TailPos, Slot

(* The RGB thread is never on the slot that runner reads.                  *)
LEMMA RingApart ==
  ASSUME Timely, TypeOK, Reading
  PROVE  RingReading => rgb_index # idx
BY ConstantFacts, BoundAssumption DEF Timely, TypeOK, IndexTypes, Reading, RgbSlot

(* In the initial memory every picture is the zero picture.                *)
LEMMA DataInit == Init => Data
<1> SUFFICES ASSUME Init PROVE Data
  OBVIOUS
<1>1. Ring
  <2>1. RingPrev(rgb_index) \in RgbSlot
    BY ConstantFacts DEF Init, RingPrev, RgbSlot
  <2> QED
    BY <2>1 DEF Init, Ring, Whole, NoPicture
<1>2. Published
  BY DEF Init, Published, Whole, NoPicture
<1>3. Reading /\ CopyIn /\ CopyOut /\ DeliveredWhole
  BY DEF Init, Reading, RingReading, CopyIn, CopyOut, DeliveredWhole
<1> QED
  BY <1>1, <1>2, <1>3 DEF Data

(* The RGB thread completes a picture before it moves rgb_index past it.   *)
LEMMA RingStep == ASSUME TypeOK, Ring, [Next]_vars PROVE Ring'
<1> USE ConstantFacts
        DEF TypeOK, IndexTypes, PcTypes, MemoryTypes, Ring, Whole, RingPrev, RgbSlot,
            ringVars, Memory, Capture
<1>1. CASE RgbStart
  BY <1>1 DEF RgbStart
<1>2. CASE RgbCopyLo
  <2>1. RingPrev(rgb_index) # rgb_index
    OBVIOUS
  <2>2. /\ rgb'[RingPrev(rgb_index)] = rgb[RingPrev(rgb_index)]
        /\ rgb'[rgb_index].lo = captured'
        /\ rgb_index' = rgb_index /\ pcR' = "copyHi"
    BY <1>2, <2>1 DEF RgbCopyLo
  <2> QED
    BY <2>2
<1>3. CASE RgbCopyHi
  <2>1. RingPrev(rgb_index) # rgb_index
    OBVIOUS
  <2>2. /\ rgb'[RingPrev(rgb_index)] = rgb[RingPrev(rgb_index)]
        /\ rgb'[rgb_index].lo = captured' /\ rgb'[rgb_index].hi = captured'
        /\ rgb_index' = rgb_index /\ pcR' = "stamp"
    BY <1>3, <2>1 DEF RgbCopyHi
  <2> QED
    BY <2>2
<1>4. CASE RgbStamp
  <2>1. RingPrev(rgb_index) # rgb_index
    OBVIOUS
  <2>2. /\ rgb'[RingPrev(rgb_index)] = rgb[RingPrev(rgb_index)]
        /\ rgb'[rgb_index].lo = captured' /\ rgb'[rgb_index].hi = captured'
        /\ rgb'[rgb_index].stamp = captured'
        /\ rgb_index' = rgb_index /\ pcR' = "advance"
    BY <1>4, <2>1 DEF RgbStamp
  <2> QED
    BY <2>2
<1>5. CASE RgbAdvance
  <2>1. RingPrev(RingNext(rgb_index)) = rgb_index
    BY DEF RingNext
  <2>2. rgb' = rgb /\ captured' = captured /\ rgb_index' = RingNext(rgb_index) /\ pcR' = "wait"
    BY <1>5 DEF RgbAdvance
  <2>3. Whole(rgb[rgb_index])
    BY <1>5 DEF RgbAdvance
  <2> QED
    BY <2>1, <2>2, <2>3
<1>6. CASE DepthNext \/ UvcNext \/ UNCHANGED vars
  <2>1. UNCHANGED <<ringVars, pcR>>
    BY <1>6 DEF vars, DepthNext, UvcNext, DepthDequeue, DepthCheckFull, DepthCopyStamp,
                DepthCopyLo, DepthCopyHi, HeadInc, HeadMask, FillEmpty, FillBegin,
                FillCopyLo, FillCopyHi, TailInc, TailMask
  <2> QED
    BY <2>1
<1> QED
  BY <1>1, <1>2, <1>3, <1>4, <1>5, <1>6 DEF Next, RgbNext

(* The picture that runner reads stays whole until its copy is complete:   *)
(* the RGB thread writes another slot.                                     *)
LEMMA ReadingStep ==
  ASSUME Timely, TypeOK, TypeOK', Ring, Reading, [Next]_vars
  PROVE  Reading'
<1> USE ConstantFacts, BoundAssumption, RingApart
        DEF Timely, TypeOK, IndexTypes, PcTypes, MemoryTypes, Reading, Whole, RgbSlot,
            RingReading, ringVars, Memory, Capture
<1>1. CASE RgbStart
  BY <1>1 DEF RgbStart, Ring
<1>2. CASE RgbCopyLo
  BY <1>2 DEF RgbCopyLo
<1>3. CASE RgbCopyHi
  BY <1>3 DEF RgbCopyHi
<1>4. CASE RgbStamp
  BY <1>4 DEF RgbStamp
<1>5. CASE RgbAdvance
  BY <1>5 DEF RgbAdvance, RingNext
<1>6. CASE DepthDequeue
  BY <1>6 DEF DepthDequeue, RingPrev, Ring
<1>7. CASE \/ DepthCheckFull \/ DepthCopyStamp \/ DepthCopyLo \/ DepthCopyHi \/ HeadInc
           \/ HeadMask \/ UvcNext \/ UNCHANGED vars
  <2>1. /\ UNCHANGED <<ringVars, idx, lap>>
        /\ RingReading' => RingReading
    BY <1>7 DEF vars, UvcNext, DepthCheckFull, DepthCopyStamp,
                DepthCopyLo, DepthCopyHi, HeadInc, HeadMask, FillEmpty, FillBegin,
                FillCopyLo, FillCopyHi, TailInc, TailMask
  <2> QED
    BY <2>1
<1> QED
  BY <1>1, <1>2, <1>3, <1>4, <1>5, <1>6, <1>7 DEF Next, RgbNext, DepthNext

(* The rest of Data moves with the FIFO.  A write goes to a free slot, and *)
(* t->head++ publishes a slot only after its copy is complete.             *)
LEMMA FifoStep ==
  ASSUME Timely, Flow, Flow', Data, [Next]_vars
  PROVE  Published' /\ CopyIn' /\ CopyOut' /\ DeliveredWhole'
<1>1. /\ DepthCopying => head \in Slot /\ ~Occupied(head)
      /\ UvcCopying => tail \in Slot /\ Occupied(tail)
  BY SlotFacts
<1>2. RingReading => rgb_index # idx
  BY RingApart DEF Flow, Data
<1> USE <1>1 DEF Data, Flow, TypeOK, MemoryTypes, PcTypes, DepthCopying, UvcCopying
<1>3. CASE RgbNext
  <2>1. UNCHANGED <<fifo, head, tail, bufs, turn, delivered, pcD, pcU, idx>>
    BY <1>3 DEF RgbNext, RgbStart, RgbCopyLo, RgbCopyHi, RgbStamp, RgbAdvance,
                fifoVars, usbVars
  <2>2. RingReading => rgb'[idx] = rgb[idx]
    BY <1>2, <1>3 DEF RgbNext, RgbStart, RgbCopyLo, RgbCopyHi, RgbStamp, RgbAdvance,
                      IndexTypes
  <2> QED
    BY <2>1, <2>2 DEF Published, CopyIn, CopyOut, DeliveredWhole, Occupied, HeadPos,
                      TailPos, RingReading
<1>4. CASE DepthCopyStamp \/ DepthCopyLo \/ DepthCopyHi
  <2>1. /\ \A i \in Slot : Occupied(i) => fifo'[i] = fifo[i]
        /\ UNCHANGED <<rgb, head, tail, bufs, turn, delivered, pcU, idx>>
        /\ DepthCopying
    BY <1>4 DEF DepthCopyStamp, DepthCopyLo, DepthCopyHi, ringVars, usbVars
  <2>2. Published'
    BY <2>1 DEF Published, Occupied, HeadPos, TailPos
  <2>3. CopyIn'
    BY <1>4, <2>1 DEF DepthCopyStamp, DepthCopyLo, DepthCopyHi, CopyIn, Reading,
                      RingReading, Whole, Memory
  <2>4. CopyOut' /\ DeliveredWhole'
    BY <2>1 DEF CopyOut, DeliveredWhole
  <2> QED
    BY <2>2, <2>3, <2>4
<1>5. CASE HeadInc
  <2>1. \A i \in Slot : Occupied(i)' => Occupied(i) \/ i = head
    BY <1>5, ConstantFacts
       DEF HeadInc, usbVars, Occupied, HeadPos, TailPos, Mask, IndexTypes, Indices, Slot,
           Room, Filling, Pending
  <2> QED
    BY <1>5, <2>1 DEF HeadInc, ringVars, usbVars, Published, CopyIn, CopyOut, DeliveredWhole
<1>6. CASE TailInc
  <2>1. \A i \in Slot : Occupied(i)' => Occupied(i)
    BY <1>6, ConstantFacts
       DEF TailInc, fifoVars, Occupied, HeadPos, TailPos, Mask, IndexTypes, Indices, Slot,
           Stock, Taking, Pending
  <2>2. fifo[tail].lo = fifo[tail].hi
    BY <1>6 DEF TailInc, Published, Whole
  <2> QED
    BY <1>6, <2>1, <2>2 DEF TailInc, ringVars, fifoVars, Published, CopyIn, CopyOut,
                            DeliveredWhole
<1>7. CASE HeadMask \/ TailMask
  <2>1. HeadPos' = HeadPos /\ TailPos' = TailPos
    BY <1>7, ConstantFacts DEF HeadMask, TailMask, HeadPos, TailPos, Mask, fifoVars, usbVars
  <2> QED
    BY <1>7, <2>1 DEF HeadMask, TailMask, ringVars, fifoVars, usbVars, Published, Occupied,
                      CopyIn, CopyOut, DeliveredWhole
<1>8. CASE FillCopyLo \/ FillCopyHi
  BY <1>8 DEF FillCopyLo, FillCopyHi, ringVars, fifoVars, IndexTypes, Image, Published,
              Occupied, HeadPos, TailPos, CopyIn, CopyOut, DeliveredWhole
<1>9. CASE \/ DepthDequeue \/ DepthCheckFull \/ FillEmpty \/ FillBegin \/ UNCHANGED vars
  BY <1>9 DEF vars, DepthDequeue, DepthCheckFull, FillEmpty, FillBegin, ringVars, fifoVars,
              usbVars, Published, Occupied, HeadPos, TailPos, CopyIn, CopyOut, DeliveredWhole
<1> QED
  BY <1>3, <1>4, <1>5, <1>6, <1>7, <1>8, <1>9 DEF Next, DepthNext, UvcNext

(* The inductive invariant of the whole pipeline.                          *)
THEOREM Inductive == ASSUME Timely PROVE Spec => []IInv
<1>1. Init => IInv
  BY FlowInit, DataInit DEF IInv
<1>2. ASSUME IInv, [Next]_vars PROVE IInv'
  <2>1. Flow'
    BY <1>2, FlowStep DEF IInv
  <2>2. Ring'
    BY <1>2, RingStep DEF IInv, Flow, Data
  <2>3. Reading'
    BY <1>2, <2>1, ReadingStep DEF IInv, Flow, Data
  <2>4. Published' /\ CopyIn' /\ CopyOut' /\ DeliveredWhole'
    BY <1>2, <2>1, FifoStep DEF IInv
  <2> QED
    BY <2>1, <2>2, <2>3, <2>4 DEF IInv, Data
<1> QED
  BY <1>1, <1>2, PTL DEF Spec

(* runner and fill_buf_func never work on the same FIFO slot.              *)
THEOREM SlotExclusion == ASSUME Timely PROVE Spec => []NoSlotShared
<1>1. IInv => NoSlotShared
  BY SlotFacts DEF IInv, NoSlotShared, DepthCopying, UvcCopying
<1> QED
  BY <1>1, Inductive, PTL

(* fill_buf_func copies only a frame that runner has published.            *)
THEOREM NoCopyWhenEmpty == ASSUME Timely PROVE Spec => []CopiesOnlyPublished
<1>1. IInv => CopiesOnlyPublished
  BY ConstantFacts DEF IInv, Flow, Stock, Taking, CopiesOnlyPublished, TypeOK, IndexTypes,
                       Pending, Mask
<1> QED
  BY <1>1, Inductive, PTL

(* Every frame in the FIFO is one picture of the RGB camera with its own   *)
(* time stamp.                                                             *)
THEOREM FramesWhole == ASSUME Timely PROVE Spec => []PublishedWhole
<1>1. IInv => PublishedWhole
  <2> SUFFICES ASSUME IInv, NEW k \in 1 .. N-1, k <= Pending
               PROVE  Whole(Nth(k))
    BY DEF PublishedWhole, Whole
  <2>1. NthSlot(k) \in Slot /\ Occupied(NthSlot(k))
    BY ConstantFacts DEF IInv, Flow, TypeOK, IndexTypes, Pending, Mask, Occupied, HeadPos,
                         TailPos, Slot, NthSlot
  <2> QED
    BY <2>1 DEF IInv, Data, Published, Nth
<1> QED
  BY <1>1, Inductive, PTL

(* The picture handed to the host last is one picture.                     *)
THEOREM HostGetsWhole == ASSUME Timely PROVE Spec => []DeliveredWhole
<1>1. IInv => DeliveredWhole
  BY DEF IInv, Data
<1> QED
  BY <1>1, Inductive, PTL
-----------------------------------------------------------------------------
(* The pipeline implements the frame queue.                                *)

\* The picture that the ring offers now, and the last one published.
Offered  == rgb[RingPrev(rgb_index)].lo
LastSlot == IF HeadPos = 0 THEN N-1 ELSE HeadPos - 1
Youngest == IF Pending = 0 THEN delivered.lo ELSE fifo[LastSlot].lo

\* Pictures get younger on their way back to the camera: published, in copy,
\* offered, captured.
Ages ==
  /\ Youngest <= Offered /\ Offered <= captured
  /\ RingReading => Youngest <= rgb[idx].lo /\ rgb[idx].lo <= Offered
  /\ pcD = "inc" => Youngest <= fifo[head].lo /\ fifo[head].lo <= Offered

(* The slots of the waiting frames, from tail to the last one published.   *)
LEMMA Positions ==
  ASSUME Flow
  PROVE  /\ HeadPos \in Slot /\ TailPos \in Slot /\ Pending \in 0 .. N-1
         /\ \A k \in 1 .. Pending : NthSlot(k) \in Slot /\ Occupied(NthSlot(k))
         /\ Pending # 0 => /\ NthSlot(1) = TailPos /\ NthSlot(Pending) = LastSlot
                           /\ LastSlot \in Slot /\ Occupied(LastSlot)
BY ConstantFacts DEF Flow, TypeOK, IndexTypes, Pending, Mask, Occupied, HeadPos, TailPos, Slot,
                     NthSlot, LastSlot

(* t->head++ appends the slot that was filled.                             *)
LEMMA HeadMoves ==
  ASSUME Flow, HeadInc
  PROVE  /\ Pending' = Pending + 1 /\ Pending' <= N - 1
         /\ LastSlot' = head /\ head \in Slot /\ NthSlot(Pending)' = head
         /\ \A k \in 1 .. Pending : NthSlot(k)' = NthSlot(k)
BY ConstantFacts DEF Flow, TypeOK, IndexTypes, Indices, Room, Filling, DepthCopying, Pending, Mask,
                     HeadPos, TailPos, Slot, NthSlot, LastSlot, HeadInc, usbVars

(* t->tail++ takes the oldest slot away.                                   *)
LEMMA TailMoves ==
  ASSUME Flow, TailInc
  PROVE  /\ Pending # 0 /\ Pending' = Pending - 1
         /\ LastSlot' = LastSlot /\ NthSlot(1) = tail /\ tail \in Slot
         /\ \A k \in 1 .. Pending - 1 : NthSlot(k)' = NthSlot(k+1)
BY ConstantFacts DEF Flow, TypeOK, IndexTypes, Indices, Stock, Taking, UvcCopying, Pending, Mask,
                     HeadPos, TailPos, Slot, NthSlot, LastSlot, TailInc, fifoVars

(* Every other step leaves the waiting frames where and what they are.     *)
LEMMA QueueKept ==
  ASSUME Flow, [Next]_vars, ~HeadInc, ~TailInc
  PROVE  /\ Pending' = Pending /\ LastSlot' = LastSlot /\ delivered' = delivered
         /\ \A k \in 1 .. Pending : NthSlot(k)' = NthSlot(k)
         /\ \A i \in Slot : Occupied(i) => fifo'[i] = fifo[i]
<1>1. HeadPos' = HeadPos /\ TailPos' = TailPos /\ delivered' = delivered
  <2>1. Mask(Mask(head)) = Mask(head) /\ Mask(Mask(tail)) = Mask(tail)
    BY ConstantFacts DEF Mask
  <2> QED
    BY <2>1 DEF Next, RgbNext, DepthNext, UvcNext, RgbStart, RgbCopyLo, RgbCopyHi, RgbStamp, RgbAdvance,
       DepthDequeue, DepthCheckFull, DepthCopyStamp, DepthCopyLo, DepthCopyHi, HeadMask, FillEmpty,
       FillBegin, FillCopyLo, FillCopyHi, TailMask, vars, fifoVars, usbVars, HeadPos, TailPos
<1>2. \A i \in Slot : Occupied(i) => fifo'[i] = fifo[i]
  <2>1. CASE DepthCopyStamp \/ DepthCopyLo \/ DepthCopyHi
    <3>1. head \in Slot /\ ~Occupied(head)
      BY <2>1, SlotFacts DEF DepthCopyStamp, DepthCopyLo, DepthCopyHi, DepthCopying
    <3> QED
      BY <2>1, <3>1 DEF DepthCopyStamp, DepthCopyLo, DepthCopyHi, Flow, TypeOK, MemoryTypes
  <2>2. CASE ~(DepthCopyStamp \/ DepthCopyLo \/ DepthCopyHi)
    <3>1. fifo' = fifo
      BY <2>2 DEF Next, RgbNext, DepthNext, UvcNext, RgbStart, RgbCopyLo, RgbCopyHi, RgbStamp,
         RgbAdvance, DepthDequeue, DepthCheckFull, HeadMask, FillEmpty, FillBegin, FillCopyLo,
         FillCopyHi, TailMask, vars, fifoVars
    <3> QED
      BY <3>1
  <2> QED
    BY <2>1, <2>2
<1>3. Pending' = Pending /\ LastSlot' = LastSlot
  BY <1>1 DEF Pending, LastSlot, HeadPos, TailPos
<1>4. \A k \in 1 .. Pending : NthSlot(k)' = NthSlot(k)
  BY <1>1 DEF NthSlot, TailPos
<1> QED
  BY <1>1, <1>2, <1>3, <1>4

(* The RGB thread offers ever younger pictures.                            *)
LEMMA OffersYounger ==
  ASSUME TypeOK, Ring, Offered <= captured, [Next]_vars
  PROVE  /\ Offered \in Nat /\ Offered' \in Nat /\ captured \in Nat /\ captured' \in Nat
         /\ Offered <= Offered' /\ Offered' <= captured'
<1> USE ConstantFacts, BoundAssumption
        DEF TypeOK, IndexTypes, PcTypes, MemoryTypes, RingPrev, RgbSlot, Offered, Memory, Capture
<1>1. Offered \in Nat /\ captured \in Nat
  OBVIOUS
<1>2. CASE RgbAdvance
  <2>1. RingPrev(RingNext(rgb_index)) = rgb_index
    BY DEF RingNext
  <2>2. rgb' = rgb /\ captured' = captured /\ rgb_index' = RingNext(rgb_index)
    BY <1>2 DEF RgbAdvance
  <2>3. Offered' = captured
    BY <1>2, <2>1, <2>2 DEF Ring, RgbAdvance
  <2> HIDE DEF Offered, MemoryTypes, IndexTypes, TypeOK, PcTypes
  <2> QED
    BY <1>1, <2>2, <2>3
<1>3. CASE RgbStart
  BY <1>1, <1>3 DEF RgbStart, Ring
<1>4. CASE RgbCopyLo \/ RgbCopyHi \/ RgbStamp
  <2>1. RingPrev(rgb_index) # rgb_index /\ RingPrev(rgb_index) \in RgbSlot
    OBVIOUS
  <2>2. rgb'[RingPrev(rgb_index)] = rgb[RingPrev(rgb_index)] /\ rgb_index' = rgb_index
    BY <1>4, <2>1 DEF RgbCopyLo, RgbCopyHi, RgbStamp
  <2>3. captured' \in {captured, captured + 1}
    BY <1>4 DEF RgbCopyLo, RgbCopyHi, RgbStamp
  <2>4. Offered' = Offered
    BY <2>2
  <2> HIDE DEF Offered, MemoryTypes, IndexTypes, TypeOK, PcTypes
  <2> QED
    BY <1>1, <2>3, <2>4
<1>5. CASE DepthNext \/ UvcNext \/ UNCHANGED vars
  <2>1. UNCHANGED <<rgb, rgb_index, captured>>
    BY <1>5 DEF vars, ringVars, DepthNext, UvcNext, DepthDequeue, DepthCheckFull, DepthCopyStamp,
                DepthCopyLo, DepthCopyHi, HeadInc, HeadMask, FillEmpty, FillBegin,
                FillCopyLo, FillCopyHi, TailInc, TailMask
  <2> QED
    BY <1>1, <2>1
<1> QED
  BY <1>2, <1>3, <1>4, <1>5 DEF Next, RgbNext

(* The initial picture is as old as any.                                   *)
LEMMA AgesInit == Init => Ages
<1> SUFFICES ASSUME Init PROVE Ages
  OBVIOUS
<1>1. RingPrev(rgb_index) \in RgbSlot
  BY ConstantFacts DEF Init, RingPrev, RgbSlot
<1>2. Offered = 0 /\ captured = 0
  BY <1>1 DEF Init, Offered, NoPicture
<1>3. Youngest = 0
  BY ConstantFacts DEF Init, Youngest, Pending, Mask
<1> QED
  BY <1>2, <1>3 DEF Ages, Init, RingReading

(* No step publishes or delivers a picture out of turn.                    *)
LEMMA AgesStep == ASSUME Timely, IInv, Ages, [Next]_vars PROVE Ages'
<1>0. /\ Flow /\ TypeOK /\ Ring /\ Reading /\ CopyIn /\ CopyOut
  BY DEF IInv, Flow, Data
<1>1. /\ Offered \in Nat /\ Offered' \in Nat /\ captured' \in Nat
      /\ Offered <= Offered' /\ Offered' <= captured'
  BY <1>0, OffersYounger DEF Ages
<1>2. /\ Youngest \in Nat
      /\ RingReading => rgb[idx].lo \in Nat
      /\ DepthCopying => fifo[head].lo \in Nat
  <2>1. Youngest \in Nat
    BY <1>0, Positions, BoundAssumption DEF Youngest, TypeOK, MemoryTypes, Memory, Image, Capture
  <2>2. DepthCopying => head \in Slot
    BY <1>0, SlotFacts
  <2> QED
    BY <1>0, <2>1, <2>2, BoundAssumption DEF TypeOK, MemoryTypes, IndexTypes, Memory, Capture
<1>3. CASE RgbNext
  <2>1. UNCHANGED <<fifo, head, tail, delivered, pcD, idx>>
    BY <1>3 DEF RgbNext, RgbStart, RgbCopyLo, RgbCopyHi, RgbStamp, RgbAdvance, fifoVars, usbVars
  <2>2. RingReading => rgb_index # idx
    BY <1>0, RingApart
  <2>3. RingReading => rgb'[idx] = rgb[idx]
    BY <1>0, <1>3, <2>2 DEF RgbNext, RgbStart, RgbCopyLo, RgbCopyHi, RgbStamp, RgbAdvance,
                            TypeOK, IndexTypes, MemoryTypes
  <2>4. Youngest' = Youngest
    BY <2>1 DEF Youngest, Pending, LastSlot, HeadPos
  <2>5. RingReading' <=> RingReading
    BY <2>1 DEF RingReading
  <2> QED
    BY <1>1, <1>2, <2>1, <2>3, <2>4, <2>5 DEF Ages, DepthCopying
<1>4. CASE HeadInc
  <2>1. Youngest' = fifo[head].lo
    <3>1. Pending \in Nat /\ Pending' = Pending + 1 /\ LastSlot' = head
      BY <1>0, <1>4, HeadMoves, Positions, ConstantFacts
    <3>2. Pending' # 0 /\ fifo' = fifo
      BY <1>4, <3>1 DEF HeadInc
    <3> QED
      BY <3>1, <3>2 DEF Youngest
  <2>2. pcD = "inc" /\ pcD' = "mask" /\ DepthCopying
    BY <1>4 DEF HeadInc, DepthCopying
  <2> QED
    BY <1>1, <1>2, <2>1, <2>2 DEF Ages, RingReading
<1>5. CASE TailInc
  <2>1. Youngest' = Youngest
    <3>1. Pending \in Nat \ {0} /\ Pending' = Pending - 1 /\ LastSlot' = LastSlot /\ NthSlot(1) = tail
      BY <1>0, <1>5, TailMoves, Positions, ConstantFacts
    <3>2. fifo' = fifo /\ delivered'.lo = fifo[tail].lo
      BY <1>0, <1>5 DEF TailInc, CopyOut, fifoVars
    <3>3. CASE Pending = 1
      <4>1. LastSlot = tail
        BY <1>0, <3>1, <3>3, Positions
      <4> QED
        BY <3>1, <3>2, <3>3, <4>1 DEF Youngest
    <3>4. CASE Pending # 1
      BY <3>1, <3>2, <3>4 DEF Youngest
    <3> QED
      BY <3>3, <3>4
  <2>2. UNCHANGED <<rgb, idx, fifo, head, pcD>>
    BY <1>5 DEF TailInc, ringVars, fifoVars
  <2> QED
    BY <1>1, <1>2, <2>1, <2>2 DEF Ages, RingReading, DepthCopying
<1>6. CASE ~RgbNext /\ ~HeadInc /\ ~TailInc
  <2>1. Youngest' = Youngest
    BY <1>0, <1>6, QueueKept, Positions DEF Youngest
  <2>2. CASE DepthDequeue
    <3>1. rgb'[idx'].lo = Offered /\ RingReading' /\ pcD' # "inc"
      BY <2>2 DEF DepthDequeue, Offered, RingReading, ringVars
    <3> QED
      BY <1>1, <1>2, <2>1, <3>1 DEF Ages
  <2>3. CASE DepthCopyHi
    <3>1. head \in Slot /\ DepthCopying /\ RingReading
      BY <1>0, <2>3, SlotFacts DEF DepthCopyHi, DepthCopying, RingReading
    <3>2. fifo'[head'].lo = fifo[head].lo /\ fifo[head].lo = rgb[idx].lo
      BY <1>0, <2>3, <3>1 DEF DepthCopyHi, CopyIn, TypeOK, MemoryTypes, Memory
    <3>3. pcD' = "inc" /\ ~RingReading'
      BY <2>3 DEF DepthCopyHi, RingReading
    <3> QED
      BY <1>1, <1>2, <2>1, <3>1, <3>2, <3>3 DEF Ages
  <2>4. CASE ~DepthDequeue /\ ~DepthCopyHi
    <3>1. /\ UNCHANGED <<rgb, idx>> /\ (RingReading' => RingReading)
          /\ pcD' = "inc" => pcD = "inc" /\ UNCHANGED <<fifo, head>>
      BY <1>6, <2>4 DEF Next, DepthNext, UvcNext, DepthCheckFull, DepthCopyStamp,
         DepthCopyLo, HeadMask, FillEmpty, FillBegin, FillCopyLo, FillCopyHi, TailMask, vars,
         ringVars, fifoVars, RingReading
    <3> QED
      BY <1>1, <1>2, <2>1, <3>1 DEF Ages, DepthCopying
  <2> QED
    BY <2>2, <2>3, <2>4
<1> QED
  BY <1>3, <1>4, <1>5, <1>6

\* What the refinement mapping makes of the state.
Queue == [k \in 1 .. Pending |-> Picture(Nth(k))]
Out   == Picture(delivered)

\* The queue holds the numbers of whole pictures, the youngest last.
QueueOK ==
  /\ Pending \in 0 .. N-1 /\ Queue \in Seq(Capture) /\ Len(Queue) = Pending
  /\ \A k \in 1 .. Pending : Queue[k] = fifo[NthSlot(k)].lo
  /\ Out = delivered.lo /\ Out \in Capture
  /\ Youngest = IF Queue = << >> THEN Out ELSE Queue[Len(Queue)]

(* It follows from the invariant.                                          *)
LEMMA QueueFacts == IInv => QueueOK
<1> SUFFICES ASSUME IInv PROVE QueueOK
  OBVIOUS
<1>0. Flow /\ TypeOK /\ Published /\ DeliveredWhole
  BY DEF IInv, Flow, Data
<1>1. Pending \in 0 .. N-1 /\ Pending \in Nat
  BY <1>0, Positions, ConstantFacts
<1>2. \A k \in 1 .. Pending : /\ NthSlot(k) \in Slot
                             /\ Picture(Nth(k)) = fifo[NthSlot(k)].lo
                             /\ Picture(Nth(k)) \in Capture
  BY <1>0, Positions, MemoryRead DEF Published, Whole, Picture, Nth, TypeOK, MemoryTypes
<1>3. Queue \in Seq(Capture) /\ Len(Queue) = Pending
  BY <1>1, <1>2, IsASeq DEF Queue
<1>4. \A k \in 1 .. Pending : Queue[k] = fifo[NthSlot(k)].lo
  BY <1>2 DEF Queue
<1>5. Out = delivered.lo /\ Out \in Capture
  BY <1>0 DEF Out, Picture, DeliveredWhole, TypeOK, MemoryTypes, Image
<1>6. Queue = << >> <=> Pending = 0
  BY <1>3, EmptySeq
<1>7. Pending # 0 => Queue[Pending] = fifo[LastSlot].lo
  BY <1>0, <1>1, <1>4, Positions
<1>8. Youngest = IF Queue = << >> THEN Out ELSE Queue[Len(Queue)]
  BY <1>3, <1>5, <1>6, <1>7 DEF Youngest
<1> QED
  BY <1>1, <1>3, <1>4, <1>5, <1>8 DEF QueueOK

(* t->head++ is Push.                                                      *)
LEMMA IncPushes == ASSUME IInv, IInv', Ages, HeadInc PROVE \E f \in Capture :
  /\ Len(Queue) < N - 1
  /\ f >= (IF Queue = << >> THEN Out ELSE Queue[Len(Queue)])
  /\ Queue' = Append(Queue, f)
  /\ Out' = Out
<1>0. Flow
  BY DEF IInv
<1>a. QueueOK /\ QueueOK'
  BY QueueFacts, PTL
<1>1. PICK n \in Nat :
        /\ n = Pending /\ Len(Queue) = n /\ Len(Queue') = n + 1 /\ n < N - 1
        /\ Queue \in Seq(Capture) /\ Queue' \in Seq(Capture)
        /\ \A k \in 1 .. n : Queue[k] = fifo[NthSlot(k)].lo
        /\ \A k \in 1 .. n+1 : Queue'[k] = fifo'[NthSlot(k)'].lo
  <2>1. Pending \in Nat /\ Pending' = Pending + 1 /\ Pending' <= N - 1
    BY <1>0, HeadMoves, Positions, ConstantFacts
  <2>2. Pending < N - 1
    BY <2>1, ConstantFacts
  <2> QED
    BY <1>a, <2>1, <2>2 DEF QueueOK
<1>2. fifo' = fifo /\ delivered' = delivered /\ pcD = "inc"
  BY DEF HeadInc, usbVars
<1>3. NthSlot(n+1)' = head
  BY <1>0, <1>1, HeadMoves
<1>4. \A k \in 1 .. n : Queue'[k] = Queue[k]
  BY <1>0, <1>1, <1>2, HeadMoves
<1>5. PICK f : f = fifo[head].lo
  OBVIOUS
<1>6. f \in Capture /\ Queue'[n+1] = f
  <2>1. Queue'[n+1] = f /\ n+1 \in 1 .. Len(Queue')
    BY <1>1, <1>2, <1>3, <1>5
  <2> QED
    BY <1>1, <2>1, ElementOfSeq
<1>7. Queue' = Append(Queue, f)
  BY <1>1, <1>4, <1>6, AppendProperties, SeqEqual
<1>8. f >= Youngest
  <2>1. Youngest \in Nat /\ f \in Nat /\ Youngest <= f
    BY <1>0, <1>2, <1>5, <1>6, BoundAssumption, Positions
       DEF Ages, Capture, Youngest, IInv, Flow, TypeOK, MemoryTypes, Memory, Image
  <2> QED
    BY <2>1
<1> QED
  BY <1>a, <1>1, <1>2, <1>6, <1>7, <1>8 DEF Out, QueueOK

(* t->tail++ is Pop.                                                       *)
LEMMA IncPops == ASSUME IInv, IInv', TailInc PROVE
  Queue # << >> /\ Out' = Head(Queue) /\ Queue' = Tail(Queue)
<1>0. Flow /\ CopyOut
  BY DEF IInv, Data
<1>a. QueueOK /\ QueueOK'
  BY QueueFacts, PTL
<1>1. PICK n \in Nat :
        /\ Pending = n + 1 /\ Len(Queue) = n + 1 /\ Len(Queue') = n
        /\ Queue \in Seq(Capture) /\ Queue' \in Seq(Capture)
        /\ \A k \in 1 .. n+1 : Queue[k] = fifo[NthSlot(k)].lo
        /\ \A k \in 1 .. n : Queue'[k] = fifo'[NthSlot(k)'].lo
  <2>1. Pending \in Nat /\ Pending # 0 /\ Pending' = Pending - 1
    BY <1>0, TailMoves, Positions, ConstantFacts
  <2>2. PICK p \in Nat : p = Pending
    BY <2>1
  <2>3. PICK n \in Nat : n = p - 1 /\ p = n + 1
    <3>1. p - 1 \in Nat /\ p = (p - 1) + 1
      BY <2>1, <2>2
    <3> QED
      BY <3>1
  <2> QED
    BY <1>a, <2>1, <2>2, <2>3 DEF QueueOK
<1>2. fifo' = fifo /\ delivered' = bufs[turn] /\ bufs[turn].lo = fifo[tail].lo
  BY <1>0 DEF TailInc, CopyOut, fifoVars
<1>3. NthSlot(1) = tail /\ \A k \in 1 .. n : NthSlot(k)' = NthSlot(k+1)
  BY <1>0, <1>1, TailMoves
<1>4. Queue # << >> /\ Head(Queue) = Queue[1]
      /\ Tail(Queue) \in Seq(Capture) /\ Len(Tail(Queue)) = n
      /\ \A k \in 1 .. n : Tail(Queue)[k] = Queue[k+1]
  BY <1>1, HeadTailProperties, EmptySeq
<1>5. Out' = Head(Queue)
  <2>1. Out' = delivered'.lo
    BY <1>a DEF QueueOK
  <2>2. 1 \in 1 .. n+1
    OBVIOUS
  <2> QED
    BY <1>1, <1>2, <1>3, <1>4, <2>1, <2>2
<1>6. \A k \in 1 .. n : Queue'[k] = Tail(Queue)[k]
  BY <1>1, <1>2, <1>3, <1>4
<1>7. Queue' = Tail(Queue)
  BY <1>1, <1>4, <1>6, SeqEqual
<1> QED
  BY <1>4, <1>5, <1>7

(* Every other step is a stutter.                                          *)
LEMMA OthersStutter ==
  ASSUME IInv, IInv', [Next]_vars, ~HeadInc, ~TailInc PROVE Queue' = Queue /\ Out' = Out
<1>0. Flow
  BY DEF IInv
<1>a. QueueOK /\ QueueOK'
  BY QueueFacts, PTL
<1>1. PICK n : n = Pending /\ n = Pending'
  BY <1>0, QueueKept
<1>2. \A k \in 1 .. n : NthSlot(k)' = NthSlot(k) /\ fifo'[NthSlot(k)] = fifo[NthSlot(k)]
  BY <1>0, <1>1, QueueKept, Positions
<1>3. \A k \in 1 .. n : Queue'[k] = Queue[k]
  BY <1>a, <1>1, <1>2 DEF QueueOK
<1>4. Queue' = Queue
  BY <1>a, <1>1, <1>3, SeqEqual DEF QueueOK
<1>5. Out' = Out
  BY <1>0, QueueKept DEF Out
<1> QED
  BY <1>4, <1>5

(* The safety part of RefinesFrameQueue: whatever the three threads do, in *)
(* whatever order, head and tail hand on whole pictures in capture order,  *)
(* none lost, repeated or invented, and at most N - 1 wait.                *)
THEOREM ImplementsFrameQueue ==
  ASSUME Timely PROVE Spec => FQ!Init /\ [][FQ!Next]_(FQ!fqVars)
<1>1. Init => FQ!Init
  <2> SUFFICES ASSUME Init PROVE Queue = << >> /\ Out = 0
    BY DEF FQ!Init, Queue, Out
  <2>1. Pending = 0
    BY ConstantFacts DEF Init, Pending, Mask
  <2>2. IInv
    BY FlowInit, DataInit DEF IInv
  <2>3. Queue = << >>
    BY <2>1, <2>2, QueueFacts, EmptySeq DEF QueueOK
  <2>4. Out = 0
    BY DEF Out, Picture, Init
  <2> QED
    BY <2>3, <2>4
<1>2. ASSUME IInv, IInv', Ages, [Next]_vars PROVE [FQ!Next]_(FQ!fqVars)
  <2>1. CASE HeadInc
    BY <1>2, <2>1, IncPushes DEF FQ!Next, FQ!Push, FQ!Newest, FQ!Frame, Queue, Out, Capture
  <2>2. CASE TailInc
    BY <1>2, <2>2, IncPops DEF FQ!Next, FQ!Pop, Queue, Out
  <2>3. CASE ~HeadInc /\ ~TailInc
    BY <1>2, <2>3, OthersStutter DEF FQ!fqVars, Queue, Out
  <2> QED
    BY <2>1, <2>2, <2>3
<1>3. ASSUME IInv, Ages, [Next]_vars PROVE Ages'
  BY <1>3, AgesStep
<1> QED
  BY <1>1, <1>2, <1>3, AgesInit, Inductive, PTL DEF Spec
=============================================================================
