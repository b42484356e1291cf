-------------------------- MODULE UvcStreamProofs --------------------------
(***************************************************************************)
(* Memory safety of the video stream for every number of buffers, every    *)
(* set of failing calls and every number of allocations.                   *)
(***************************************************************************)
EXTENDS UvcStream, TLAPS, FiniteSetTheorems, SequenceTheorems

-----------------------------------------------------------------------------
(* The inductive invariant.                                                *)

\* Allocations are numbered in turn; those to come are not live.
Untouched == \A g \in 1 .. MaxAllocs : g > allocs => ~heap[g].live

\* While kernel and device both stream, everybody means the same complete
\* allocation: dev->mem, dev->dummy_buf and the kernel.
Streaming ==
  kstreaming /\ is_streaming =>
    /\ mem # 0 /\ mem = dummy_buf
    /\ heap[mem].live /\ heap[mem].starts = BufIndex /\ heap[mem].length = CommitSize
    /\ imgsize = CommitSize
    /\ \A b \in BufIndex : kptr[b] = mem

\* The kernel streams for a device that does not only when STREAMOFF failed.
Stopped == kstreaming => is_streaming \/ "STREAMOFF" \in Fallible

\* A stopped stream leaves room for one allocation more than a running one.
Leaks == Cardinality(Live) <= waste + (IF is_streaming THEN 2 ELSE 1)

MemInv == TypeOK /\ Untouched /\ Streaming /\ Stopped /\ FreesOnce
IInv   == MemInv /\ Leaks

-----------------------------------------------------------------------------
(* Type correctness.                                                       *)

\* The parts of TypeOK that COMMIT and STREAMOFF change: the kernel's queue,
\* and the rest.
KernelTypes ==
  kqueue \in Seq(BufIndex) /\ kdone \in Seq(BufIndex) /\ kptr \in [BufIndex -> 0 .. allocs]
DeviceTypes ==
  /\ is_streaming \in BOOLEAN /\ kstreaming \in BOOLEAN /\ snd \in BOOLEAN
  /\ imgsize \in {InitSize, CommitSize}
  /\ allocs \in 0 .. MaxAllocs /\ waste \in Nat
  /\ dummy_buf \in 0 .. allocs /\ mem \in 0 .. allocs
  /\ heap \in [1 .. MaxAllocs -> Allocation]
  /\ loop \in {"select", "event", "video", "closed", "crashed"}

(* TypeOK is both of them.                                                 *)
LEMMA TypeParts == TypeOK <=> KernelTypes /\ DeviceTypes
BY DEF TypeOK, KernelTypes, DeviceTypes

(* The queue that COMMIT builds up is a sequence of buffer indexes, also   *)
(* when QBUF fails half-way; STREAMOFF leaves the empty one.               *)
LEMMA QueueTypes ==
  ASSUME NEW n \in 0 .. NBufs, Queue(n), allocs \in Nat, allocs' \in Nat,
         n = 0 \/ allocs' = Fresh
  PROVE  KernelTypes'
<1>1. \A i \in 1 .. n : i-1 \in BufIndex
  BY StreamAssumption DEF BufIndex
<1>2. [i \in 1 .. n |-> i-1] \in Seq(BufIndex)
  BY <1>1, IsASeq
<1>3. [b \in BufIndex |-> IF b < n THEN Fresh ELSE 0] \in [BufIndex -> 0 .. allocs']
  BY StreamAssumption DEF BufIndex, Fresh
<1> QED
  BY <1>2, <1>3 DEF Queue, KernelTypes, BufIndex

(* STREAMOFF, done or failed.                                              *)
LEMMA StopTypes ==
  ASSUME KernelTypes, kstreaming \in BOOLEAN, allocs \in Nat, UNCHANGED allocs, KernelStops
  PROVE  KernelTypes' /\ kstreaming' \in BOOLEAN
<1>1. CASE kstreaming' = FALSE /\ Queue(0)
  <2>1. 0 \in 0 .. NBufs
    BY StreamAssumption
  <2> QED
    BY <1>1, <2>1, QueueTypes
<1>2. CASE NotStopped
  BY <1>2 DEF NotStopped, kernelVars, KernelTypes
<1> QED
  BY <1>1, <1>2 DEF KernelStops

(* A COMMIT that got memory has one allocation more, of the new size, and  *)
(* points to it.                                                           *)
LEMMA AllocateTypes ==
  ASSUME DeviceTypes, NEW n \in 0 .. NBufs, Allocate(n)
  PROVE  /\ heap' \in [1 .. MaxAllocs -> Allocation]
         /\ allocs' = allocs + 1 /\ allocs' \in 0 .. MaxAllocs
         /\ Fresh \in 1 .. MaxAllocs /\ Fresh = allocs'
         /\ dummy_buf' = Fresh
         /\ heap'[Fresh] = [live |-> TRUE, starts |-> 0 .. n-1, length |-> CommitSize]
         /\ heap'[Fresh].live
         /\ \A g \in 1 .. MaxAllocs : g # Fresh => heap'[g] = heap[g]
<1>1. 0 .. n-1 \subseteq BufIndex
  BY StreamAssumption DEF BufIndex
<1>2. [live |-> TRUE, starts |-> 0 .. n-1, length |-> CommitSize] \in Allocation
  BY <1>1 DEF Allocation
<1> QED
  BY <1>2, StreamAssumption DEF Allocate, Fresh, DeviceTypes

(* free of dummy_buf keeps the types of the heap.                          *)
LEMMA FreeTypes ==
  ASSUME DeviceTypes, dummy_buf # 0, StopStream
  PROVE  /\ heap' \in [1 .. MaxAllocs -> Allocation]
         /\ dummy_buf \in 1 .. MaxAllocs
         /\ ~heap'[dummy_buf].live
         /\ \A g \in 1 .. MaxAllocs : g # dummy_buf => heap'[g] = heap[g]
<1>1. dummy_buf \in 1 .. MaxAllocs
  BY StreamAssumption DEF DeviceTypes
<1>2. [heap[dummy_buf] EXCEPT !.live = FALSE, !.starts = {}] \in Allocation
  BY <1>1 DEF DeviceTypes, Allocation
<1>3. ~[heap[dummy_buf] EXCEPT !.live = FALSE, !.starts = {}].live
  BY <1>1 DEF DeviceTypes, Allocation
<1> QED
  BY <1>1, <1>2, <1>3 DEF StopStream, FreeDummyBuf, DeviceTypes

(* init_uvc_gadget_device leaves a well-typed device, whichever of its     *)
(* calls fail.                                                             *)
LEMMA TypeInit == Init => TypeOK
<1> SUFFICES ASSUME Init PROVE KernelTypes /\ DeviceTypes
  BY TypeParts
<1> USE StreamAssumption
<1>1. \A n \in 0 .. NBufs : 0 .. n-1 \subseteq BufIndex
  BY DEF BufIndex
<1>2. heap \in [1 .. MaxAllocs -> Allocation]
  <2>1. NoAlloc \in Allocation
    BY DEF NoAlloc, Allocation
  <2>2. ASSUME NEW n \in 0 .. NBufs PROVE FirstAlloc(n) \in [1 .. MaxAllocs -> Allocation]
    <3>1. [live |-> TRUE, starts |-> 0 .. n-1, length |-> InitSize] \in Allocation
      BY <1>1 DEF Allocation
    <3> QED
      BY <2>1, <3>1 DEF FirstAlloc
  <2>3. NBufs \in 0 .. NBufs /\ BufIndex \subseteq 0 .. NBufs
    BY DEF BufIndex
  <2>4. \/ \E n \in 0 .. NBufs : heap = FirstAlloc(n)
        \/ heap = [g \in 1 .. MaxAllocs |-> NoAlloc]
    BY <2>3 DEF Init
  <2> QED
    BY <2>1, <2>2, <2>4
<1>3. allocs \in {0, 1} /\ dummy_buf \in 0 .. allocs /\ mem \in 0 .. allocs
  BY DEF Init
<1>4. KernelTypes
  BY <1>3, EmptySeq DEF Init, KernelTypes
<1>5. /\ is_streaming \in BOOLEAN /\ kstreaming \in BOOLEAN /\ snd \in BOOLEAN
      /\ imgsize = InitSize /\ waste = 0 /\ loop = "select"
  BY DEF Init
<1> QED
  BY <1>2, <1>3, <1>4, <1>5 DEF DeviceTypes

(* Every way a COMMIT can end keeps the types.                             *)
LEMMA CommitTypes == ASSUME TypeOK, CommitStream, AfterEvent PROVE TypeOK'
<1> SUFFICES KernelTypes' /\ DeviceTypes'
  BY TypeParts, PTL
<1>0. KernelTypes /\ DeviceTypes /\ allocs \in Nat
  BY TypeParts DEF DeviceTypes
<1>a. imgsize' = CommitSize /\ kstreaming' \in BOOLEAN
  BY <1>0 DEF CommitStream, CommitNotStopped, NotStopped, kernelVars, DeviceTypes
<1>b. snd' \in BOOLEAN /\ loop' \in {"select", "video"}
  BY <1>0 DEF AfterEvent, DeviceTypes
<1>c. 0 \in 0 .. NBufs /\ NBufs \in 0 .. NBufs /\ BufIndex \subseteq 0 .. NBufs
  BY StreamAssumption DEF BufIndex
<1>d. ASSUME NEW n \in 0 .. NBufs, Allocate(n), is_streaming' \in BOOLEAN, waste' \in Nat,
             mem' \in 0 .. allocs'
      PROVE  DeviceTypes'
  <2>1. heap' \in [1 .. MaxAllocs -> Allocation] /\ allocs' \in 0 .. MaxAllocs
        /\ dummy_buf' = allocs'
    BY <1>0, <1>d, AllocateTypes
  <2>2. dummy_buf' \in 0 .. allocs'
    BY <2>1
  <2> QED
    BY <1>a, <1>b, <1>d, <2>1, <2>2 DEF DeviceTypes
<1>e. ASSUME NEW n \in 0 .. NBufs, Allocate(n)
      PROVE  allocs' \in Nat /\ allocs' = Fresh /\ mem \in 0 .. allocs' /\ Fresh \in 0 .. allocs'
  <2>1. allocs' = allocs + 1 /\ allocs' \in 0 .. MaxAllocs /\ Fresh = allocs'
    BY <1>0, <1>e, AllocateTypes
  <2>2. mem \in 0 .. allocs
    BY <1>0 DEF DeviceTypes
  <2> QED
    BY <1>0, <2>1, <2>2
<1>f. is_streaming \in BOOLEAN /\ waste \in Nat
  BY <1>0 DEF DeviceTypes
<1>1. CASE CommitReqbufsFails
  <2>1. Queue(0) /\ UNCHANGED <<is_streaming, dummy_buf, mem, heap, allocs, waste>>
    BY <1>1 DEF CommitReqbufsFails, memVars
  <2>2. KernelTypes'
    BY <1>0, <1>c, <2>1, QueueTypes
  <2> QED
    BY <1>0, <1>a, <1>b, <2>1, <2>2 DEF DeviceTypes
<1>2. CASE CommitCallocFails
  <2>1. Queue(0) /\ dummy_buf' = 0 /\ waste' = waste + 1
        /\ UNCHANGED <<is_streaming, mem, heap, allocs>>
    BY <1>2 DEF CommitCallocFails, Wasted
  <2>2. KernelTypes'
    BY <1>0, <1>c, <2>1, QueueTypes
  <2> QED
    BY <1>0, <1>a, <1>b, <2>1, <2>2 DEF DeviceTypes
<1>3. CASE CommitMallocFails
  <2>1. PICK n \in 0 .. NBufs : Allocate(n)
    BY <1>3, <1>c DEF CommitMallocFails
  <2>2. Queue(0) /\ waste' = waste + 1 /\ UNCHANGED <<is_streaming, mem>>
    BY <1>3 DEF CommitMallocFails, Wasted
  <2>3. KernelTypes'
    BY <1>0, <1>c, <1>e, <2>1, <2>2, QueueTypes
  <2>4. waste' \in Nat /\ is_streaming' \in BOOLEAN /\ mem' \in 0 .. allocs'
    BY <1>e, <1>f, <2>1, <2>2
  <2> QED
    BY <1>d, <2>1, <2>3, <2>4
<1>4. CASE CommitQbufFails
  <2>1. PICK n \in 0 .. NBufs : Queue(n)
    BY <1>4, <1>c DEF CommitQbufFails
  <2>2. Allocate(NBufs) /\ waste' = waste + 1 /\ mem' = Fresh /\ UNCHANGED is_streaming
    BY <1>4 DEF CommitQbufFails, Wasted
  <2>3. KernelTypes'
    BY <1>0, <1>c, <1>e, <2>1, <2>2, QueueTypes
  <2>4. waste' \in Nat /\ is_streaming' \in BOOLEAN /\ mem' \in 0 .. allocs'
    BY <1>c, <1>e, <1>f, <2>2
  <2> QED
    BY <1>c, <1>d, <2>2, <2>3, <2>4
<1>5. CASE CommitStarts
  <2>1. Allocate(NBufs) /\ Queue(NBufs) /\ mem' = Fresh /\ is_streaming' = TRUE
        /\ waste' = IF is_streaming THEN waste + 1 ELSE waste
    BY <1>5 DEF CommitStarts
  <2>2. KernelTypes'
    BY <1>0, <1>c, <1>e, <2>1, QueueTypes
  <2>3. waste' \in Nat /\ is_streaming' \in BOOLEAN /\ mem' \in 0 .. allocs'
    BY <1>c, <1>e, <1>f, <2>1
  <2> QED
    BY <1>c, <1>d, <2>1, <2>2, <2>3
<1>6. CASE CommitNotStopped
  BY <1>0, <1>6, <1>a, <1>b
  DEF CommitNotStopped, NotStopped, memVars, kernelVars, KernelTypes, DeviceTypes
<1> QED
  BY <1>1, <1>2, <1>3, <1>4, <1>5, <1>6 DEF CommitStream

(* The same for STREAMOFF, with and without a NULL dummy_buf.              *)
LEMMA StreamOffTypes ==
  ASSUME TypeOK, \/ StreamOff /\ loop' \in {"video", "select", "closed"} /\ UNCHANGED snd
                 \/ StreamOffCrash
  PROVE  TypeOK'
<1> SUFFICES KernelTypes' /\ DeviceTypes'
  BY TypeParts, PTL
<1>0. KernelTypes /\ DeviceTypes /\ allocs \in Nat
  BY TypeParts DEF DeviceTypes
<1> USE StreamAssumption
<1>1. CASE ~is_streaming /\ ~StreamOffCrash
  BY <1>0, <1>1 DEF StreamOff, KernelTypes, DeviceTypes, memVars, kernelVars
<1>2. CASE dummy_buf # 0 /\ StopStream /\ ~StreamOffCrash
  <2>1. KernelTypes' /\ kstreaming' \in BOOLEAN
    BY <1>0, <1>2, StopTypes DEF StopStream, DeviceTypes
  <2> QED
    BY <1>0, <1>2, <2>1, FreeTypes DEF StopStream, DeviceTypes
<1>3. CASE StreamOffCrash
  <2>1. KernelTypes' /\ kstreaming' \in BOOLEAN
    BY <1>0, <1>3, StopTypes DEF StreamOffCrash, DeviceTypes, memVars
  <2> QED
    BY <1>0, <1>3, <2>1 DEF StreamOffCrash, DeviceTypes, memVars
<1> QED
  BY <1>1, <1>2, <1>3 DEF StreamOff

(* DQBUF and QBUF move an index between the kernel's two sequences.        *)
LEMMA MoveTypes ==
  ASSUME NEW from \in Seq(BufIndex), NEW to \in Seq(BufIndex), from # << >>
  PROVE  Tail(from) \in Seq(BufIndex) /\ Append(to, Head(from)) \in Seq(BufIndex)
BY HeadTailProperties, AppendProperties

(* Every step keeps the types.                                             *)
LEMMA TypeStep == ASSUME TypeOK, [Next]_strVars PROVE TypeOK'
<1>1. CASE EventCommit
  BY <1>1, CommitTypes DEF EventCommit
<1>2. CASE EventStreamoff \/ Close
  BY <1>2, StreamOffTypes DEF EventStreamoff, Close, AfterEvent
<1>3. CASE VideoRefill
  BY <1>3, MoveTypes DEF VideoRefill, TypeOK, memVars
<1>4. CASE HostTakes
  BY <1>4, MoveTypes DEF HostTakes, TypeOK, memVars
<1>5. CASE Select
  BY <1>5 DEF Select, Ready, TypeOK, memVars, kernelVars
<1>6. CASE EventOther \/ VideoIdle
  BY <1>6 DEF EventOther, AfterEvent, VideoIdle, TypeOK, memVars, kernelVars
<1>7. CASE UNCHANGED strVars
  BY <1>7 DEF strVars, TypeOK, memVars, kernelVars
<1> QED
  BY <1>1, <1>2, <1>3, <1>4, <1>5, <1>6, <1>7 DEF Next, Loop, Ended

-----------------------------------------------------------------------------
(* Memory safety: Untouched, Streaming, Stopped and FreesOnce are preserved. *)

(* What COMMIT relies on whenever it got memory: the allocations to come   *)
(* are still untouched, and the new dummy_buf is live.                     *)
LEMMA AllocateSafe ==
  ASSUME TypeOK, Untouched, NEW n \in 0 .. NBufs, Allocate(n)
  PROVE  Untouched' /\ FreesOnce'
<1>1. DeviceTypes /\ allocs \in Nat
  BY TypeParts DEF DeviceTypes
<1>2. /\ allocs' = allocs + 1 /\ Fresh \in 1 .. MaxAllocs /\ Fresh = allocs'
      /\ dummy_buf' = Fresh
      /\ heap'[Fresh].live
      /\ \A g \in 1 .. MaxAllocs : g # Fresh => heap'[g] = heap[g]
  BY <1>1, AllocateTypes
<1>3. Untouched'
  BY <1>1, <1>2, StreamAssumption DEF Untouched
<1> QED
  BY <1>2, <1>3 DEF FreesOnce

(* After a COMMIT that ran to its end, the device, dummy_buf and every     *)
(* userptr mean the new allocation.                                        *)
LEMMA StartsStreaming == ASSUME TypeOK, CommitStarts, imgsize' = CommitSize PROVE Streaming'
<1>1. Allocate(NBufs) /\ Queue(NBufs) /\ mem' = Fresh /\ is_streaming'
  BY DEF CommitStarts
<1>2. DeviceTypes /\ allocs \in Nat /\ NBufs \in 0 .. NBufs
  BY TypeParts, StreamAssumption DEF DeviceTypes
<1>3. /\ Fresh \in 1 .. MaxAllocs /\ dummy_buf' = Fresh
      /\ heap'[Fresh] = [live |-> TRUE, starts |-> 0 .. NBufs-1, length |-> CommitSize]
  BY <1>1, <1>2, AllocateTypes
<1>4. \A b \in BufIndex : kptr'[b] = mem'
  BY <1>1, StreamAssumption DEF Queue, BufIndex
<1>5. mem' # 0 /\ mem' = dummy_buf'
  BY <1>1, <1>3, StreamAssumption
<1>6. heap'[mem'].live /\ heap'[mem'].starts = BufIndex /\ heap'[mem'].length = CommitSize
  BY <1>1, <1>3 DEF BufIndex
<1> QED
  BY <1>1, <1>4, <1>5, <1>6 DEF Streaming

(* Every way a COMMIT can end keeps memory safe.                           *)
LEMMA CommitSafe ==
  ASSUME MemInv, CommitStream PROVE Untouched' /\ Streaming' /\ Stopped' /\ FreesOnce'
<1>0. TypeOK /\ Untouched /\ Streaming /\ Stopped /\ FreesOnce /\ imgsize' = CommitSize
  BY DEF MemInv, CommitStream
<1>c. NBufs \in 0 .. NBufs /\ BufIndex \subseteq 0 .. NBufs
  BY StreamAssumption DEF BufIndex
<1>1. CASE CommitReqbufsFails /\ ~kstreaming'
  BY <1>0, <1>1 DEF CommitReqbufsFails, memVars, Untouched, FreesOnce, Streaming, Stopped
<1>2. CASE CommitCallocFails /\ ~kstreaming'
  BY <1>0, <1>2 DEF CommitCallocFails, Untouched, FreesOnce, Streaming, Stopped
<1>3. CASE CommitMallocFails /\ ~kstreaming'
  <2>1. PICK n \in 0 .. NBufs : Allocate(n)
    BY <1>3, <1>c DEF CommitMallocFails
  <2> QED
    BY <1>0, <1>3, <2>1, AllocateSafe DEF Streaming, Stopped
<1>4. CASE CommitQbufFails /\ ~kstreaming'
  <2>1. Allocate(NBufs)
    BY <1>4 DEF CommitQbufFails
  <2> QED
    BY <1>0, <1>4, <1>c, <2>1, AllocateSafe DEF Streaming, Stopped
<1>5. CASE CommitStarts
  <2>1. Allocate(NBufs) /\ is_streaming'
    BY <1>5 DEF CommitStarts
  <2> QED
    BY <1>0, <1>5, <1>c, <2>1, AllocateSafe, StartsStreaming DEF Stopped
<1>6. CASE CommitNotStopped
  BY <1>0, <1>6 DEF CommitNotStopped, NotStopped, memVars, kernelVars, Untouched, FreesOnce,
                    Streaming, Stopped
<1> QED
  BY <1>1, <1>2, <1>3, <1>4, <1>5, <1>6 DEF CommitStream

(* STREAMOFF clears is_streaming, so what it freed is not freed again.     *)
LEMMA StreamOffSafe ==
  ASSUME MemInv, StreamOff \/ StreamOffCrash
  PROVE  Untouched' /\ Streaming' /\ Stopped' /\ FreesOnce'
<1>0. TypeOK /\ Untouched /\ Streaming /\ Stopped /\ FreesOnce /\ DeviceTypes
  BY TypeParts DEF MemInv
<1>1. CASE ~is_streaming /\ UNCHANGED <<is_streaming, imgsize, memVars, kernelVars>>
  BY <1>0, <1>1 DEF memVars, kernelVars, Untouched, Streaming, Stopped, FreesOnce
<1>2. CASE dummy_buf # 0 /\ StopStream
  <2>1. /\ ~heap'[dummy_buf].live
        /\ \A g \in 1 .. MaxAllocs : g # dummy_buf => heap'[g] = heap[g]
    BY <1>0, <1>2, FreeTypes
  <2>2. ~is_streaming' /\ (kstreaming' => "STREAMOFF" \in Fallible) /\ allocs' = allocs
    BY <1>2 DEF StopStream, KernelStops, NotStopped
  <2> QED
    BY <1>0, <2>1, <2>2 DEF Untouched, Streaming, Stopped, FreesOnce
<1>3. CASE StreamOffCrash
  BY <1>0, <1>3 DEF StreamOffCrash, KernelStops, NotStopped, memVars, kernelVars, Untouched,
                    Streaming, Stopped, FreesOnce
<1> QED
  BY <1>1, <1>2, <1>3 DEF StreamOff

(* Memory safety is inductive.                                             *)
LEMMA MemInit == Init => MemInv
<1> SUFFICES ASSUME Init PROVE TypeOK /\ Untouched /\ Streaming /\ Stopped /\ FreesOnce
  BY DEF MemInv
<1>1. Untouched
  BY StreamAssumption DEF Init, Untouched, FirstAlloc, NoAlloc
<1>2. ~is_streaming /\ ~kstreaming
  BY DEF Init
<1> QED
  BY <1>1, <1>2, TypeInit DEF Streaming, Stopped, FreesOnce

(* Every step keeps the memory safe.                                       *)
LEMMA MemStep == ASSUME MemInv, [Next]_strVars PROVE MemInv'
<1> SUFFICES Untouched' /\ Streaming' /\ Stopped' /\ FreesOnce'
  BY TypeStep DEF MemInv
<1>1. CASE EventCommit
  BY <1>1, CommitSafe DEF EventCommit
<1>2. CASE EventStreamoff \/ Close
  BY <1>2, StreamOffSafe DEF EventStreamoff, Close
<1>3. CASE UNCHANGED <<is_streaming, imgsize, memVars, kstreaming, kptr>>
  BY <1>3 DEF MemInv, memVars, Untouched, Streaming, Stopped, FreesOnce
<1> QED
  BY <1>1, <1>2, <1>3
  DEF Next, Loop, Select, EventOther, VideoIdle, VideoRefill, HostTakes, Ended, strVars, kernelVars

-----------------------------------------------------------------------------
(* Leaks.                                                                  *)

(* The live allocations are finitely many.                                 *)
LEMMA LiveFinite == IsFiniteSet(Live) /\ Cardinality(Live) \in Nat
<1>1. IsFiniteSet(1 .. MaxAllocs)
  BY FS_Interval, StreamAssumption
<1> QED
  BY <1>1, FS_Subset, FS_CardinalityType DEF Live

(* A COMMIT that got memory adds one allocation that was not there.        *)
LEMMA AllocateLive ==
  ASSUME MemInv, NEW n \in 0 .. NBufs, Allocate(n)
  PROVE  Cardinality(Live') = Cardinality(Live) + 1
<1>1. DeviceTypes /\ Untouched /\ allocs \in Nat
  BY TypeParts DEF MemInv, DeviceTypes
<1>2. /\ Fresh = allocs + 1 /\ Fresh \in 1 .. MaxAllocs
      /\ heap'[Fresh].live
      /\ \A g \in 1 .. MaxAllocs : g # Fresh => heap'[g] = heap[g]
  BY <1>1, AllocateTypes
<1>3. Fresh \notin Live
  BY <1>1, <1>2 DEF Untouched, Live
<1>4. Live' = Live \cup {Fresh}
  BY <1>2 DEF Live
<1> QED
  BY <1>3, <1>4, LiveFinite, FS_AddElement

(* STREAMOFF of a running stream takes one away.                           *)
LEMMA StopLive ==
  ASSUME MemInv, is_streaming, dummy_buf # 0, StopStream
  PROVE  Cardinality(Live') = Cardinality(Live) - 1
<1>1. DeviceTypes /\ heap[dummy_buf].live
  BY TypeParts DEF MemInv, FreesOnce
<1>2. /\ dummy_buf \in 1 .. MaxAllocs /\ ~heap'[dummy_buf].live
      /\ \A g \in 1 .. MaxAllocs : g # dummy_buf => heap'[g] = heap[g]
  BY <1>1, FreeTypes
<1>3. Live' = Live \ {dummy_buf} /\ dummy_buf \in Live
  BY <1>1, <1>2 DEF Live
<1> QED
  BY <1>3, LiveFinite, FS_RemoveElement

(* A COMMIT leaves at most what waste counts.                              *)
LEMMA CommitLeaks == ASSUME IInv, CommitStream PROVE Leaks'
<1>0. MemInv /\ is_streaming \in BOOLEAN /\ waste \in Nat /\ Cardinality(Live) \in Nat
      /\ Cardinality(Live) <= waste + (IF is_streaming THEN 2 ELSE 1)
  BY LiveFinite DEF IInv, MemInv, TypeOK, Leaks
<1>c. NBufs \in 0 .. NBufs /\ BufIndex \subseteq 0 .. NBufs
  BY StreamAssumption DEF BufIndex
<1>1. CASE CommitReqbufsFails \/ CommitNotStopped
  <2>1. Live' = Live /\ waste' = waste /\ is_streaming' = is_streaming
    BY <1>1 DEF CommitReqbufsFails, CommitNotStopped, memVars, Live
  <2> QED
    BY <1>0, <2>1 DEF Leaks
<1>2. CASE CommitCallocFails
  <2>1. Live' = Live /\ waste' = waste + 1 /\ is_streaming' = is_streaming
    BY <1>2 DEF CommitCallocFails, Wasted, Live
  <2> QED
    BY <1>0, <2>1 DEF Leaks
<1>3. CASE CommitMallocFails \/ CommitQbufFails
  <2>1. PICK n \in 0 .. NBufs : Allocate(n)
    BY <1>3, <1>c DEF CommitMallocFails, CommitQbufFails
  <2>2. Cardinality(Live') = Cardinality(Live) + 1
    BY <1>0, <2>1, AllocateLive
  <2>3. waste' = waste + 1 /\ is_streaming' = is_streaming
    BY <1>3 DEF CommitMallocFails, CommitQbufFails, Wasted
  <2> QED
    BY <1>0, <2>2, <2>3 DEF Leaks
<1>4. CASE CommitStarts
  <2>1. Allocate(NBufs) /\ is_streaming' = TRUE
        /\ waste' = IF is_streaming THEN waste + 1 ELSE waste
    BY <1>4 DEF CommitStarts
  <2>2. Cardinality(Live') = Cardinality(Live) + 1
    BY <1>0, <1>c, <2>1, AllocateLive
  <2> QED
    BY <1>0, <2>1, <2>2 DEF Leaks
<1> QED
  BY <1>1, <1>2, <1>3, <1>4 DEF CommitStream

(* At most one allocation is live at the start.                            *)
LEMMA LeakInit == Init => Leaks
<1> SUFFICES ASSUME Init PROVE Leaks
  OBVIOUS
<1>1. Live \subseteq {1}
  BY StreamAssumption DEF Init, Live, FirstAlloc, NoAlloc
<1>2. IsFiniteSet({1}) /\ Cardinality({1}) = 1
  BY FS_Singleton
<1>3. waste = 0 /\ is_streaming = FALSE
  BY DEF Init
<1>4. Cardinality(Live) <= 1
  BY <1>1, <1>2, FS_Subset
<1> QED
  BY <1>3, <1>4, LiveFinite DEF Leaks

(* Every step keeps the account of live allocations.                       *)
LEMMA LeakStep == ASSUME IInv, [Next]_strVars PROVE IInv'
<1> SUFFICES Leaks'
  BY MemStep DEF IInv
<1>1. CASE EventCommit
  BY <1>1, CommitLeaks DEF EventCommit
<1>2. CASE is_streaming /\ dummy_buf # 0 /\ StopStream
  <2>1. Cardinality(Live') = Cardinality(Live) - 1 /\ Cardinality(Live) \in Nat /\ waste \in Nat
    BY <1>2, StopLive, LiveFinite DEF IInv, MemInv, TypeOK
  <2>2. is_streaming' = FALSE /\ waste' = waste
    BY <1>2 DEF StopStream
  <2> QED
    BY <1>2, <2>1, <2>2 DEF IInv, Leaks
<1>3. CASE UNCHANGED <<is_streaming, heap, waste>>
  BY <1>3 DEF IInv, Leaks, Live
<1> QED
  BY <1>1, <1>2, <1>3
  DEF Next, Loop, Select, EventOther, VideoIdle, VideoRefill, HostTakes, Ended, EventStreamoff,
      Close, StreamOff, StreamOffCrash, strVars, memVars, kernelVars

-----------------------------------------------------------------------------
(* The theorems.                                                           *)

(* The invariant holds in every reachable state.                           *)
LEMMA Inductive == Spec => []IInv
<1>1. Init => IInv
  BY MemInit, LeakInit DEF IInv
<1>2. IInv /\ [Next]_strVars => IInv'
  BY LeakStep
<1> QED
  BY <1>1, <1>2, PTL DEF Spec

(* What the invariant says of the memory that is filled and sent.          *)
LEMMA Safety == IInv => FillsSentMemory /\ KernelReadsLive /\ FreesOnce /\ LeakBounded
<1> SUFFICES ASSUME IInv PROVE FillsSentMemory /\ KernelReadsLive /\ FreesOnce /\ LeakBounded
  OBVIOUS
<1>1. CommitSize >= CommitSize
  BY StreamAssumption
<1>2. FillsSentMemory
  <2> SUFFICES ASSUME is_streaming, kstreaming, NEW i \in 1 .. Len(kdone)
               PROVE  Usable(mem, kdone[i]) /\ kptr[kdone[i]] = mem
    BY DEF FillsSentMemory
  <2>1. kdone[i] \in BufIndex
    BY DEF IInv, MemInv, TypeOK
  <2> QED
    BY <1>1, <2>1 DEF IInv, MemInv, Streaming, Usable
<1>3. KernelReadsLive
  <2> SUFFICES ASSUME kstreaming, is_streaming, NEW i \in 1 .. Len(kqueue)
               PROVE  Usable(kptr[kqueue[i]], kqueue[i])
    BY DEF KernelReadsLive, IInv, MemInv, Stopped
  <2>1. kqueue[i] \in BufIndex
    BY DEF IInv, MemInv, TypeOK
  <2> QED
    BY <1>1, <2>1 DEF IInv, MemInv, Streaming, Usable
<1>4. FreesOnce
  BY DEF IInv, MemInv
<1>5. LeakBounded
  BY LiveFinite DEF IInv, MemInv, TypeOK, Leaks, LeakBounded
<1> QED
  BY <1>2, <1>3, <1>4, <1>5

(* Types of the device and of the kernel's queue, for any number of        *)
(* buffers and any set of calls that fail.                                 *)
THEOREM TypeCorrect == Spec => []TypeOK
<1>1. IInv => TypeOK
  BY DEF IInv, MemInv
<1> QED
  BY <1>1, Inductive, PTL

(* uvc_video_process writes a frame only to live memory of sufficient size *)
(* that is the memory the kernel sends.                                    *)
THEOREM FillsTheRightMemory == Spec => []FillsSentMemory
BY Safety, Inductive, PTL

(* While the device streams the kernel holds no pointer to freed or short  *)
(* memory, whichever calls fail; and it holds none at any time, provided   *)
(* that STREAMOFF is not among the calls that fail.                        *)
THEOREM KernelSendsLive == Spec => []KernelReadsLive
BY Safety, Inductive, PTL

(* STREAMOFF never frees an allocation twice.                              *)
THEOREM NeverFreesTwice == Spec => []FreesOnce
BY Safety, Inductive, PTL

(* Only COMMITs that came while streaming, or failed half-way, leak.       *)
THEOREM LeaksOnlyWaste == Spec => []LeakBounded
BY Safety, Inductive, PTL
=============================================================================
