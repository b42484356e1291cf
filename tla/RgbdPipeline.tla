---------------------------- MODULE RgbdPipeline ----------------------------
(***************************************************************************)
(* The frame pipeline of TRGBDClass (src/src/RGBDClass.cpp): three threads *)
(* and no lock.                                                            *)
(*                                                                         *)
(*   RGB thread    rgb_capture_func: camera frame -> rgb[rgb_index]        *)
(*   main thread   runner: latest rgb[] slot -> FIFO slot head             *)
(*   UVC thread    fill_buf_func: FIFO slot tail -> USB buffer             *)
(*                                                                         *)
(* A picture is its capture number.  memcpy takes two steps, so a picture  *)
(* in memory is [lo, hi]: the capture number of its first and second half. *)
(* QUE_FIFO_HEAD and QUE_FIFO_TAIL are two stores in every build           *)
(* (t->head++ and then t->head &= t->mask), so the other thread can see    *)
(* an index before it is masked.                                           *)
(***************************************************************************)
EXTENDS Integers

CONSTANTS N,          \* FIFO slots (num_buf of the constructor)
          R,          \* slots of the RGB ring (32 in thread_data_t)
          NBufs,      \* USB buffers that take turns (2 in init_uvc_gadget_device)
          MaxRgb,     \* bound: pictures the RGB camera takes
          MaxLap,     \* timing: pictures taken during one copy out of the ring
          MaxChecks   \* timing: FIFO tests of one thread while the other one's
                      \*   index is not masked yet

\* The mask size-1 needs a power of two, and head, tail and size are uint8_t.
ASSUME FifoAssumption == N \in {2, 4, 8, 16, 32, 64, 128}

ASSUME RingAssumption == R \in Nat /\ R >= 2

ASSUME BoundAssumption == /\ NBufs \in Nat \ {0}
                          /\ MaxRgb \in Nat
                          /\ MaxLap \in Nat
                          /\ MaxChecks \in Nat \ {0}

VARIABLES
  head, tail,     \* struct fifo_t; N is an index not masked yet
  fifo,           \* fifo_mem[]: [stamp, lo, hi]
  rgb_index,      \* slot the RGB thread writes next
  rgb,            \* rgb[] and rgb_stamps[]: [stamp, lo, hi]
  bufs,           \* dev->mem[]: [lo, hi]
  turn,           \* the USB buffer that VIDIOC_DQBUF returns next
  pcR, pcD, pcU,  \* where each thread is
  idx,            \* runner's local idx
  captured,       \* history: pictures the RGB thread has begun to take
  delivered,      \* history: the picture taken from the FIFO last
  lap,            \* history: ring advances since runner read rgb_index
  checksD,        \* history: FIFO_FULL tests in the present tail window
  checksU         \* history: FIFO_EMPTY tests in the present head window

ringVars  == <<rgb_index, rgb, captured>>
fifoVars  == <<head, fifo>>
usbVars   == <<tail, bufs, turn, delivered>>
vars == <<ringVars, fifoVars, usbVars, pcR, pcD, pcU, idx, lap, checksD, checksU>>

Slot    == 0 .. N-1
RgbSlot == 0 .. R-1
Buf     == 0 .. NBufs-1

NoPicture == [stamp |-> 0, lo |-> 0, hi |-> 0]

\* x & mask for the values the code masks (0..N).
Mask(x) == IF x = N THEN 0 ELSE x

\* (x + 1) & 31 and (x - 1) & 31 on the RGB ring.
\* Mutant: the index stays at the last slot.
RingNext_Clamped(x) == IF x = R-1 THEN x ELSE x+1
RingNext(x) == IF x = R-1 THEN 0 ELSE x+1
\* Mutant: the slot being written instead of the one before it.
RingPrev_Same(x) == x
RingPrev(x) == IF x = 0 THEN R-1 ELSE x-1

\* Mutants: no test for empty; the full test without the mask.
Empty_Untested == FALSE
Full_Unmasked  == head+1 = tail

FIFO_EMPTY == head = tail
FIFO_FULL  == Mask(head+1) = tail

\* DATA_IN_FIFO on the masked indices: frames published and not yet taken.
Pending == IF Mask(head) >= Mask(tail) THEN Mask(head) - Mask(tail)
                                       ELSE Mask(head) + N - Mask(tail)

\* The k-th oldest frame in the FIFO, k = 1, 2, ...
NthSlot(k) == IF Mask(tail) + (k-1) >= N THEN Mask(tail) + (k-1) - N
                                         ELSE Mask(tail) + (k-1)
Nth(k) == fifo[NthSlot(k)]

\* runner is between its read of rgb_index and the end of its memcpy.
RingReading == pcD \in {"check", "copyStamp", "copyLo", "copyHi"}

\* An index that the other thread sees before it is masked.
HeadWindow == pcD = "mask" /\ head = N
TailWindow == pcU = "mask" /\ tail = N

-----------------------------------------------------------------------------
(* Constructor and Init: the object lives in zeroed memory, INIT_FIFO, and  *)
(* the two threads are created.                                            *)
Init ==
  /\ head = 0 /\ tail = 0
  /\ fifo = [i \in Slot |-> NoPicture]
  /\ rgb_index = 0
  /\ rgb = [i \in RgbSlot |-> NoPicture]
  /\ bufs = [b \in Buf |-> [lo |-> 0, hi |-> 0]]
  /\ turn = 0
  /\ pcR = "start" /\ pcD = "wait" /\ pcU = "fill"
  /\ idx = 0 /\ captured = 0 /\ lap = 0
  /\ delivered = [lo |-> 0, hi |-> 0]
  /\ checksD = 0 /\ checksU = 0

-----------------------------------------------------------------------------
(* RGB thread.                                                             *)

\* init_video_device fails and the thread returns, or capture starts.
RgbStart ==
  /\ pcR = "start"
  /\ \/ pcR' = "exited" /\ UNCHANGED rgb_index
     \/ pcR' = "wait" /\ rgb_index' = 0
  /\ UNCHANGED <<rgb, captured, fifoVars, usbVars, pcD, pcU, idx, lap, checksD, checksU>>

\* dequeue_and_capture gets a camera frame and starts to copy it.
RgbCopyLo ==
  /\ pcR = "wait"
  /\ captured < MaxRgb
  /\ captured' = captured + 1
  /\ rgb' = [rgb EXCEPT ![rgb_index].lo = captured + 1]
  /\ pcR' = "copyHi"
  /\ UNCHANGED <<rgb_index, fifoVars, usbVars, pcD, pcU, idx, lap, checksD, checksU>>

RgbCopyHi ==
  /\ pcR = "copyHi"
  /\ rgb' = [rgb EXCEPT ![rgb_index].hi = captured]
  /\ pcR' = "stamp"
  /\ UNCHANGED <<rgb_index, captured, fifoVars, usbVars, pcD, pcU, idx, lap, checksD, checksU>>

RgbStamp ==
  /\ pcR = "stamp"
  /\ rgb' = [rgb EXCEPT ![rgb_index].stamp = captured]
  /\ pcR' = "advance"
  /\ UNCHANGED <<rgb_index, captured, fifoVars, usbVars, pcD, pcU, idx, lap, checksD, checksU>>

\* rgb_index = idx after the stamp, then queue_capture.  While runner is
\* between its read of rgb_index and the end of its copy, the camera takes
\* at most MaxLap pictures.
RgbAdvance ==
  /\ pcR = "advance"
  /\ RingReading => lap < MaxLap
  /\ rgb_index' = RingNext(rgb_index)
  /\ lap' = IF RingReading THEN lap + 1 ELSE lap
  /\ pcR' = "wait"
  /\ UNCHANGED <<rgb, captured, fifoVars, usbVars, pcD, pcU, idx, checksD, checksU>>

-----------------------------------------------------------------------------
(* Main thread: runner, once per depth frame.                              *)

\* dequeue_and_capture(MODULE_DEPTH) returns; idx = (rgb_index - 1) & 31.
DepthDequeue ==
  /\ pcD = "wait"
  /\ idx' = RingPrev(rgb_index)
  /\ lap' = 0
  /\ pcD' = "check"
  /\ UNCHANGED <<ringVars, fifoVars, usbVars, pcR, pcU, checksD, checksU>>

\* With a full FIFO the depth frame is dropped and its buffer queued again.
DepthCheckFull ==
  /\ pcD = "check"
  /\ TailWindow => checksD < MaxChecks
  /\ checksD' = IF TailWindow THEN checksD + 1 ELSE checksD
  /\ pcD' = IF FIFO_FULL THEN "wait" ELSE "copyStamp"
  /\ UNCHANGED <<ringVars, fifoVars, usbVars, pcR, pcU, idx, lap, checksU>>

DepthCopyStamp ==
  /\ pcD = "copyStamp"
  /\ fifo' = [fifo EXCEPT ![head].stamp = rgb[idx].stamp]
  /\ pcD' = "copyLo"
  /\ UNCHANGED <<ringVars, head, usbVars, pcR, pcU, idx, lap, checksD, checksU>>

DepthCopyLo ==
  /\ pcD = "copyLo"
  /\ fifo' = [fifo EXCEPT ![head].lo = rgb[idx].lo]
  /\ pcD' = "copyHi"
  /\ UNCHANGED <<ringVars, head, usbVars, pcR, pcU, idx, lap, checksD, checksU>>

\* The end of the copy; the depth data and CB_Func, which only reads, follow.
DepthCopyHi ==
  /\ pcD = "copyHi"
  /\ fifo' = [fifo EXCEPT ![head].hi = rgb[idx].hi]
  /\ pcD' = "inc"
  /\ UNCHANGED <<ringVars, head, usbVars, pcR, pcU, idx, lap, checksD, checksU>>

\* t->head++
HeadInc ==
  /\ pcD = "inc"
  /\ head' = head + 1
  /\ pcD' = "mask"
  /\ checksU' = 0
  /\ UNCHANGED <<ringVars, fifo, usbVars, pcR, pcU, idx, lap, checksD>>

\* Mutant: the mask is forgotten.
HeadMask_Forgotten ==
  /\ pcD = "mask"
  /\ pcD' = "wait"
  /\ UNCHANGED <<ringVars, fifoVars, usbVars, pcR, pcU, idx, lap, checksD, checksU>>

\* t->head &= t->mask, then queue_capture(MODULE_DEPTH).
HeadMask ==
  /\ pcD = "mask"
  /\ head' = Mask(head)
  /\ pcD' = "wait"
  /\ UNCHANGED <<ringVars, fifo, usbVars, pcR, pcU, idx, lap, checksD, checksU>>

-----------------------------------------------------------------------------
(* UVC thread: uvc_video_process calls fill_buf_func for the USB buffer the *)
(* host has emptied and queues it again; the buffers take turns.           *)

NextTurn == turn' = IF turn = NBufs-1 THEN 0 ELSE turn+1

\* With an empty FIFO nothing is copied and the buffer goes back as it is.
FillEmpty ==
  /\ pcU = "fill"
  /\ FIFO_EMPTY
  /\ HeadWindow => checksU < MaxChecks
  /\ checksU' = IF HeadWindow THEN checksU + 1 ELSE checksU
  /\ NextTurn
  /\ UNCHANGED <<ringVars, fifoVars, tail, bufs, delivered, pcR, pcD, pcU, idx, lap, checksD>>

FillBegin ==
  /\ pcU = "fill"
  /\ ~FIFO_EMPTY
  /\ HeadWindow => checksU < MaxChecks
  /\ checksU' = IF HeadWindow THEN checksU + 1 ELSE checksU
  /\ pcU' = "copyLo"
  /\ UNCHANGED <<ringVars, fifoVars, usbVars, pcR, pcD, idx, lap, checksD>>

FillCopyLo ==
  /\ pcU = "copyLo"
  /\ bufs' = [bufs EXCEPT ![turn].lo = fifo[tail].lo]
  /\ pcU' = "copyHi"
  /\ UNCHANGED <<ringVars, fifoVars, tail, turn, delivered, pcR, pcD, idx, lap, checksD, checksU>>

FillCopyHi ==
  /\ pcU = "copyHi"
  /\ bufs' = [bufs EXCEPT ![turn].hi = fifo[tail].hi]
  /\ pcU' = "inc"
  /\ UNCHANGED <<ringVars, fifoVars, tail, turn, delivered, pcR, pcD, idx, lap, checksD, checksU>>

\* Mutant: the slot is not given back.
TailInc_Forgotten ==
  /\ pcU = "inc"
  /\ delivered' = bufs[turn]
  /\ pcU' = "mask"
  /\ checksD' = 0
  /\ UNCHANGED <<ringVars, fifoVars, tail, bufs, turn, pcR, pcD, idx, lap, checksU>>

\* t->tail++
TailInc ==
  /\ pcU = "inc"
  /\ tail' = tail + 1
  /\ delivered' = bufs[turn]
  /\ pcU' = "mask"
  /\ checksD' = 0
  /\ UNCHANGED <<ringVars, fifoVars, bufs, turn, pcR, pcD, idx, lap, checksU>>

\* t->tail &= t->mask, then VIDIOC_QBUF.
TailMask ==
  /\ pcU = "mask"
  /\ tail' = Mask(tail)
  /\ NextTurn
  /\ pcU' = "fill"
  /\ UNCHANGED <<ringVars, fifoVars, bufs, delivered, pcR, pcD, idx, lap, checksD, checksU>>

-----------------------------------------------------------------------------
RgbNext == RgbStart \/ RgbCopyLo \/ RgbCopyHi \/ RgbStamp \/ RgbAdvance

DepthNext == \/ DepthDequeue \/ DepthCheckFull \/ DepthCopyStamp
             \/ DepthCopyLo \/ DepthCopyHi \/ HeadInc \/ HeadMask

UvcNext == \/ FillEmpty \/ FillBegin \/ FillCopyLo \/ FillCopyHi
           \/ TailInc \/ TailMask

Next == RgbNext \/ DepthNext \/ UvcNext

\* The depth sensor keeps delivering frames and the host keeps taking
\* buffers, and the operating system runs both threads.  The RGB camera may
\* stop at any time.
Fairness == WF_vars(DepthNext) /\ WF_vars(UvcNext)

Spec == Init /\ [][Next]_vars /\ Fairness

-----------------------------------------------------------------------------
(* Properties.                                                             *)

Capture == 0 .. MaxRgb
Memory  == [stamp : Capture, lo : Capture, hi : Capture]
Image   == [lo : Capture, hi : Capture]

MemoryTypes ==
  /\ fifo \in [Slot -> Memory]
  /\ rgb \in [RgbSlot -> Memory]
  /\ bufs \in [Buf -> Image]
  /\ delivered \in Image

IndexTypes ==
  /\ head \in 0 .. N /\ tail \in 0 .. N
  /\ rgb_index \in RgbSlot /\ idx \in RgbSlot
  /\ turn \in Buf
  /\ captured \in Capture
  /\ lap \in 0 .. MaxLap
  /\ checksD \in 0 .. MaxChecks /\ checksU \in 0 .. MaxChecks

PcTypes ==
  /\ pcR \in {"start", "wait", "copyHi", "stamp", "advance", "exited"}
  /\ pcD \in {"wait", "check", "copyStamp", "copyLo", "copyHi", "inc", "mask"}
  /\ pcU \in {"fill", "copyLo", "copyHi", "inc", "mask"}

(* Every variable has its type; the indices never exceed N, the value they *)
(* have between t->head++ and t->head &= t->mask.                          *)
TypeOK == MemoryTypes /\ IndexTypes /\ PcTypes

DepthCopying == pcD \in {"copyStamp", "copyLo", "copyHi", "inc"}
UvcCopying   == pcU \in {"copyLo", "copyHi", "inc"}

(* The producer and the consumer of the FIFO never work on the same slot,  *)
(* although neither takes a lock (runner lines 126-139, fill_buf_func      *)
(* lines 225-228).                                                         *)
NoSlotShared == DepthCopying /\ UvcCopying => head # tail

(* Every frame that is in the FIFO carries one picture, with the stamp of  *)
(* that picture, although runner copies it out of a ring that the RGB      *)
(* thread keeps writing (runner lines 125-133).                            *)
PublishedWhole ==
  \A k \in 1 .. N-1 : k <= Pending =>
     /\ Nth(k).lo = Nth(k).hi
     /\ Nth(k).stamp = Nth(k).lo

(* The picture taken from the FIFO last is one picture: fill_buf_func      *)
(* never copies from a slot that runner is writing.                        *)
DeliveredWhole == delivered.lo = delivered.hi

(* "IF FIFO is empty then we don't copy at all" (RGBDClass.cpp, comment at *)
(* the end of fill_buf_func): the UVC thread copies only while the FIFO    *)
(* holds a frame.                                                          *)
CopiesOnlyPublished == UvcCopying => Pending > 0

(* "then data would be last data" (same comment): a USB buffer that goes   *)
(* back to the host without a copy holds the frame delivered last.         *)
EmptyRepeatsLast == [][FillEmpty => bufs[turn] = delivered]_vars

\* A picture in memory as the host sees it; -1 is a torn one.
Picture(p) == IF p.lo = p.hi THEN p.lo ELSE -1

FQ == INSTANCE FrameQueue WITH
        Capacity <- N - 1,
        MaxFrame <- MaxRgb,
        queue    <- [k \in 1 .. Pending |-> Picture(Nth(k))],
        out      <- Picture(delivered)

(* The pipeline implements the frame queue: whole pictures, in capture     *)
(* order, none lost, repeated or invented between head and tail, at most   *)
(* N - 1 waiting, and every accepted one is delivered in the end.          *)
RefinesFrameQueue == FQ!Spec

(* Whatever is dropped on the way while the FIFO is full, the host does    *)
(* get every picture or a newer one: a stalled consumer cannot leave it    *)
(* with an old picture for ever.                                           *)
PictureReachesHost ==
  \A s \in 1 .. MaxRgb :
     (pcR = "wait" /\ captured >= s) ~> (delivered.lo >= s)
=============================================================================
