------------------------------ MODULE UvcStream ------------------------------
(***************************************************************************)
(* The video stream of the UVC gadget (src/src/uvc_api.c): the buffers that *)
(* COMMIT allocates, queues and starts, that uvc_video_process refills and *)
(* UVC_EVENT_STREAMOFF frees, and the loop of process_uvc_gadget_device    *)
(* around them.  The gadget is as init_uvc_gadget_device sets it up: BULK, *)
(* IO_METHOD_USERPTR, run_standalone.                                      *)
(*                                                                         *)
(* An allocation of dev->dummy_buf, the array and the memory its entries   *)
(* point to, is known by its number; 0 is the NULL pointer.  The kernel's  *)
(* videobuf2 queue is external.                                            *)
(***************************************************************************)
EXTENDS Integers, Sequences, FiniteSets

CONSTANTS NBufs,       \* dev->nbufs, 2 in init_uvc_gadget_device
          InitSize,    \* imgsize of init_uvc_gadget_device: 640 * 550 * 2
          CommitSize,  \* imgsize that COMMIT sets: 640 * 480 * 2
          Fallible,    \* calls that may fail
          MaxAllocs    \* bound: allocations of dummy_buf

ASSUME StreamAssumption ==
  /\ NBufs \in Nat \ {0}
  /\ InitSize \in Nat /\ CommitSize \in Nat /\ CommitSize <= InitSize
  /\ Fallible \subseteq {"REQBUFS", "calloc", "malloc", "QBUF", "STREAMON", "STREAMOFF"}
  /\ MaxAllocs \in Nat \ {0}

VARIABLES
  is_streaming,   \* dev->is_streaming
  imgsize,        \* dev->imgsize
  dummy_buf,      \* dev->dummy_buf: number of an allocation
  mem,            \* dev->mem: number of an allocation
  heap,           \* allocations: [live, starts, length]; starts is the set of
                  \*   entries whose memory is allocated
  allocs,         \* history: allocations made
  waste,          \* history: COMMITs that could not free what they replaced
  kstreaming,     \* kernel: between STREAMON and STREAMOFF
  kqueue, kdone,  \* kernel: indexes of the buffers waiting to be sent, and sent
  kptr,           \* kernel: allocation the userptr of each buffer belongs to
  loop,           \* process_uvc_gadget_device: what it does next
  snd             \* fds_snd as select left it

kernelVars == <<kstreaming, kqueue, kdone, kptr>>
memVars    == <<dummy_buf, mem, heap, allocs, waste>>
strVars    == <<is_streaming, imgsize, memVars, kernelVars, loop, snd>>

BufIndex == 0 .. NBufs-1
NoAlloc  == [live |-> FALSE, starts |-> {}, length |-> 0]

-----------------------------------------------------------------------------
(* init_uvc_gadget_device and its uvc_video_reqbufs, whose result it       *)
(* ignores.                                                                *)

\* The first allocation, with n entries filled in.
FirstAlloc(n) ==
  [g \in 1 .. MaxAllocs |->
     IF g = 1 THEN [live |-> TRUE, starts |-> 0 .. n-1, length |-> InitSize] ELSE NoAlloc]

Init ==
  /\ is_streaming = FALSE
  /\ imgsize = InitSize
  /\ waste = 0
  /\ kstreaming = FALSE /\ kqueue = << >> /\ kdone = << >>
  /\ kptr = [b \in BufIndex |-> 0]
  /\ loop = "select" /\ snd = FALSE
  /\ \/ /\ dummy_buf = 1 /\ mem = 1 /\ allocs = 1
        /\ heap = FirstAlloc(NBufs)
     \/ /\ "malloc" \in Fallible
        /\ dummy_buf = 1 /\ mem = 0 /\ allocs = 1
        /\ \E n \in BufIndex : heap = FirstAlloc(n)
     \/ /\ {"REQBUFS", "calloc"} \cap Fallible # {}
        /\ dummy_buf = 0 /\ mem = 0 /\ allocs = 0
        /\ heap = [g \in 1 .. MaxAllocs |-> NoAlloc]

-----------------------------------------------------------------------------
(* COMMIT: imgsize, S_FMT, STREAMOFF, then uvc_handle_streamon_event:      *)
(* REQBUFS, the new dummy_buf, QBUF of every entry, STREAMON.  Each way it *)
(* can end is one action; in all but the first STREAMOFF or REQBUFS has    *)
(* given all buffers back.  The results of S_FMT, STREAMOFF and STREAMON   *)
(* are not looked at: a failed S_FMT leaves the kernel with its old format *)
(* and the device as it is, and shows, if at all, as a QBUF that fails.    *)

Fresh == allocs + 1
Wasted == waste' = waste + 1

\* The allocation of this COMMIT with the first n entries filled in.
Allocate(n) ==
  /\ allocs < MaxAllocs
  /\ allocs' = Fresh
  /\ heap' = [heap EXCEPT ![Fresh] = [live |-> TRUE, starts |-> 0 .. n-1, length |-> CommitSize]]
  /\ dummy_buf' = Fresh

\* Mutant: indexes counted from one.
Queue_FromOne(n) ==
  /\ kqueue' = [i \in 1 .. n |-> i]
  /\ kdone' = << >>
  /\ kptr' = [b \in BufIndex |-> IF b < n THEN Fresh ELSE 0]

\* The kernel gives all buffers back; the first n of the new allocation are
\* queued after that.
Queue(n) ==
  /\ kqueue' = [i \in 1 .. n |-> i-1]
  /\ kdone' = << >>
  /\ kptr' = [b \in BufIndex |-> IF b < n THEN Fresh ELSE 0]

\* STREAMOFF fails, and so does the REQBUFS after it: a queue that streams
\* refuses it as busy.
NotStopped ==
  /\ "STREAMOFF" \in Fallible
  /\ kstreaming \/ "REQBUFS" \in Fallible
  /\ UNCHANGED kernelVars

\* Mutant: the error path frees what the kernel still sends.
CommitNotStopped_Frees ==
  /\ NotStopped
  /\ dummy_buf # 0
  /\ heap' = [heap EXCEPT ![dummy_buf] = [@ EXCEPT !.live = FALSE, !.starts = {}]]
  /\ UNCHANGED <<is_streaming, dummy_buf, mem, allocs, waste>>

CommitNotStopped == NotStopped /\ UNCHANGED <<is_streaming, memVars>>

CommitReqbufsFails ==
  /\ "REQBUFS" \in Fallible
  /\ Queue(0)
  /\ UNCHANGED <<is_streaming, memVars>>

CommitCallocFails ==
  /\ "calloc" \in Fallible
  /\ waste < MaxAllocs /\ Wasted
  /\ dummy_buf' = 0
  /\ Queue(0)
  /\ UNCHANGED <<is_streaming, mem, heap, allocs>>

CommitMallocFails ==
  /\ "malloc" \in Fallible
  /\ \E n \in BufIndex : Allocate(n)
  /\ Wasted
  /\ Queue(0)
  /\ UNCHANGED <<is_streaming, mem>>

CommitQbufFails ==
  /\ "QBUF" \in Fallible
  /\ Allocate(NBufs)
  /\ Wasted
  /\ mem' = Fresh
  /\ \E n \in BufIndex : Queue(n)
  /\ UNCHANGED is_streaming

\* Mutant: dev->mem is not set to the new allocation.
CommitStarts_OldMem ==
  /\ Allocate(NBufs)
  /\ waste' = IF is_streaming THEN waste + 1 ELSE waste
  /\ Queue(NBufs)
  /\ is_streaming' = TRUE
  /\ UNCHANGED mem

\* The result of STREAMON is not looked at.
CommitStarts ==
  /\ Allocate(NBufs)
  /\ waste' = IF is_streaming THEN waste + 1 ELSE waste
  /\ mem' = Fresh
  /\ Queue(NBufs)
  /\ is_streaming' = TRUE

\* Mutant: the size of the image is not set to the new format.
CommitStream_OldSize ==
  /\ CommitStarts /\ kstreaming' = TRUE
  /\ UNCHANGED imgsize

CommitStream ==
  /\ imgsize' = CommitSize
  /\ \/ CommitNotStopped
     \/ /\ kstreaming' = FALSE
        /\ CommitReqbufsFails \/ CommitCallocFails \/ CommitMallocFails \/ CommitQbufFails
     \/ CommitStarts /\ kstreaming' = TRUE
     \/ CommitStarts /\ "STREAMON" \in Fallible /\ kstreaming' = FALSE

-----------------------------------------------------------------------------
(* UVC_EVENT_STREAMOFF: STREAMOFF, uvc_uninit_device, REQBUFS(0).  Both    *)
(* ioctls may fail, and what follows happens all the same.  The pointers   *)
(* keep their values.                                                      *)

KernelStops == (kstreaming' = FALSE /\ Queue(0)) \/ NotStopped

FreeDummyBuf == heap' = [heap EXCEPT ![dummy_buf] = [@ EXCEPT !.live = FALSE, !.starts = {}]]

\* Mutants: is_streaming left set; not freed.
StopStream_FlagKept ==
  /\ KernelStops
  /\ FreeDummyBuf
  /\ UNCHANGED <<is_streaming, imgsize, dummy_buf, mem, allocs, waste>>
StopStream_Leaks ==
  /\ is_streaming' = FALSE
  /\ KernelStops
  /\ UNCHANGED <<imgsize, memVars>>

StopStream ==
  /\ is_streaming' = FALSE
  /\ KernelStops
  /\ FreeDummyBuf
  /\ UNCHANGED <<imgsize, dummy_buf, mem, allocs, waste>>

StreamOff ==
  \/ is_streaming /\ dummy_buf # 0 /\ StopStream
  \/ ~is_streaming /\ UNCHANGED <<is_streaming, imgsize, memVars, kernelVars>>

\* After a failed calloc, uvc_uninit_device goes through a NULL pointer.
StreamOffCrash ==
  /\ is_streaming /\ dummy_buf = 0
  /\ KernelStops
  /\ loop' = "crashed"
  /\ UNCHANGED <<is_streaming, imgsize, memVars, snd>>

-----------------------------------------------------------------------------
(* process_uvc_gadget_device: select, the event, then the video side with  *)
(* what select said before the event.  A queue that is not streaming polls *)
(* as an error, which select reports as writable.                          *)

Ready == ~kstreaming \/ kdone # << >>

Select ==
  /\ loop = "select"
  /\ snd' = Ready
  /\ \/ loop' = "event"
     \/ Ready /\ loop' = "video"
  /\ UNCHANGED <<is_streaming, imgsize, memVars, kernelVars>>

\* Mutant: a round serves the event or the video side.
AfterEvent_SkipsVideo == loop' = "select" /\ UNCHANGED snd
AfterEvent == loop' = (IF snd THEN "video" ELSE "select") /\ UNCHANGED snd

EventCommit == loop = "event" /\ CommitStream /\ AfterEvent
EventStreamoff == loop = "event" /\ ((StreamOff /\ AfterEvent) \/ StreamOffCrash)

\* Any other event; STREAMON is for isochronous endpoints only.
EventOther ==
  /\ loop = "event"
  /\ AfterEvent
  /\ UNCHANGED <<is_streaming, imgsize, memVars, kernelVars>>

\* uvc_video_process: not streaming, or DQBUF has nothing to give.
VideoIdle ==
  /\ loop = "video"
  /\ ~is_streaming \/ ~kstreaming \/ kdone = << >>
  /\ loop' = "select"
  /\ UNCHANGED <<is_streaming, imgsize, memVars, kernelVars, snd>>

\* DQBUF, uvc_video_fill_buffer into dev->mem[index], QBUF.
VideoRefill ==
  /\ loop = "video"
  /\ is_streaming /\ kstreaming /\ kdone # << >>
  /\ kdone' = Tail(kdone)
  /\ \/ kqueue' = Append(kqueue, Head(kdone))
     \/ "QBUF" \in Fallible /\ UNCHANGED kqueue
  /\ loop' = "select"
  /\ UNCHANGED <<is_streaming, imgsize, memVars, kstreaming, kptr, snd>>

\* close_uvc_gadget_device, after the loop has ended.
Close ==
  /\ loop = "select"
  /\ \/ StreamOff /\ loop' = "closed" /\ UNCHANGED snd
     \/ StreamOffCrash

Ended == loop \in {"closed", "crashed"} /\ UNCHANGED strVars

\* The USB host has received the oldest buffer.
HostTakes ==
  /\ kstreaming /\ kqueue # << >>
  /\ kdone' = Append(kdone, Head(kqueue))
  /\ kqueue' = Tail(kqueue)
  /\ UNCHANGED <<is_streaming, imgsize, memVars, kstreaming, kptr, loop, snd>>

Loop == Select \/ EventCommit \/ EventStreamoff \/ EventOther \/ VideoIdle \/ VideoRefill

Next == Loop \/ Close \/ Ended \/ HostTakes

\* The UVC thread keeps running its loop.
Spec == Init /\ [][Next]_strVars /\ WF_strVars(Loop)

-----------------------------------------------------------------------------
(* Properties.                                                             *)

Allocation == [live : BOOLEAN, starts : SUBSET BufIndex, length : {0, InitSize, CommitSize}]

(* Types of the device and of the kernel's queue.                          *)
TypeOK ==
  /\ is_streaming \in BOOLEAN /\ kstreaming \in BOOLEAN /\ snd \in BOOLEAN
  /\ imgsize \in {InitSize, CommitSize}
  /\ allocs \in 0 .. MaxAllocs /\ waste \in Nat
  /\ dummy_buf \in 0 .. allocs /\ mem \in 0 .. allocs
  /\ heap \in [1 .. MaxAllocs -> Allocation]
  /\ kqueue \in Seq(BufIndex) /\ kdone \in Seq(BufIndex)
  /\ kptr \in [BufIndex -> 0 .. allocs]
  /\ loop \in {"select", "event", "video", "closed", "crashed"}

(* The memory of entry b of allocation g is allocated and holds a frame.   *)
Usable(g, b) == g # 0 /\ heap[g].live /\ b \in heap[g].starts /\ heap[g].length >= imgsize

(* Whatever call fails on the way, uvc_video_process writes a frame only   *)
(* to allocated memory of sufficient size, and it is the memory that the   *)
(* kernel sends: uvc_video_fill_buffer goes by dev->mem and the index, the *)
(* kernel by the userptr that was queued.                                  *)
FillsSentMemory ==
  is_streaming /\ kstreaming =>
    \A i \in 1 .. Len(kdone) : Usable(mem, kdone[i]) /\ kptr[kdone[i]] = mem

(* The kernel streams from live memory only: whatever fails while          *)
(* dev->is_streaming is set, and at every time when STREAMOFF cannot fail, *)
(* because the stream is off before uvc_uninit_device frees.  (After a     *)
(* STREAMOFF event whose ioctl failed, the kernel goes on sending what was *)
(* freed until the STREAMOFF of a later COMMIT succeeds: the result of the *)
(* ioctl is ignored.)                                                      *)
KernelReadsLive ==
  kstreaming /\ (is_streaming \/ "STREAMOFF" \notin Fallible) =>
    \A i \in 1 .. Len(kqueue) : Usable(kptr[kqueue[i]], kqueue[i])

(* STREAMOFF frees an allocation that is still there: never twice, although *)
(* the pointers keep their values after the free.                          *)
FreesOnce == is_streaming /\ dummy_buf # 0 => heap[dummy_buf].live

Live == {g \in 1 .. MaxAllocs : heap[g].live}

(* Starting and stopping the stream does not leak: beside the allocation   *)
(* of init_uvc_gadget_device and the present one, only COMMITs that came   *)
(* while streaming, or failed half-way, leave memory behind.               *)
LeakBounded == Cardinality(Live) <= 2 + waste

In(b, queue) == \E i \in 1 .. Len(queue) : queue[i] = b

(* A buffer the host has emptied is queued to it again, or the stream      *)
(* stops: no order of COMMITs, STREAMOFFs and other events makes the loop  *)
(* forget a buffer of a stream that the kernel has started.  It needs a    *)
(* QBUF and a STREAMOFF that succeed: uvc_video_process returns without    *)
(* the buffer it has dequeued when QBUF fails, and a stream that could not *)
(* be stopped is not served any more.  Checked in UvcGadget.               *)
Refilled == \A b \in BufIndex : In(b, kdone) ~> In(b, kqueue) \/ ~kstreaming

(* "Return immediately if UVC video output device has not started          *)
(* streaming yet" (uvc_video_process): is_streaming says what the device   *)
(* does.                                                                   *)
StreamingFlagTrue == is_streaming => kstreaming
=============================================================================
