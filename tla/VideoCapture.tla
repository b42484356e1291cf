---------------------------- MODULE VideoCapture ----------------------------
(***************************************************************************)
(* The capture API (src/src/video_api.c) for the RGB camera and the depth  *)
(* sensor: descriptors, mapped buffers and the kernel's buffer queue.      *)
(*                                                                         *)
(* Most failures end the process: xioctl calls exit(EXIT_FAILURE), and     *)
(* status says so.  The kernel's queue is a videobuf2 queue (external):    *)
(* STREAMOFF empties it and wakes whoever waits, and a queue that does not *)
(* stream polls as ready and refuses DQBUF.                                *)
(***************************************************************************)
EXTENDS Integers, Sequences

CONSTANT NBufs    \* buffers of each device (4 in the callers)

ASSUME CaptureAssumption == NBufs \in Nat \ {0, 1}

VARIABLES
  fd,           \* fd_rgb, fd_3d: "unset" (0), "open" or "closed"
  mapped,       \* buffers of each device that are mapped
  n_buffers,    \* n_buffers_rgb, n_buffers_3d
  qi,           \* i of start_video_capture: the next buffer to queue
  kstreaming,   \* kernel: between STREAMON and STREAMOFF
  kqueue,       \* kernel: buffers to be filled
  kdone,        \* kernel: buffers with a frame
  status        \* of the process: "running", or how it ended

deviceVars == <<fd, mapped, n_buffers, qi, kstreaming, kqueue, kdone>>

Module == {"RGB", "DEPTH"}
BufIndex == 0 .. NBufs-1

\* exit(EXIT_FAILURE), and the signal that ends a process.
Exit  == status' = "failure" /\ UNCHANGED deviceVars
Crash == status' = "crashed" /\ UNCHANGED deviceVars

CaptureInit ==
  /\ fd = [m \in Module |-> "unset"]
  /\ mapped = [m \in Module |-> {}]
  /\ n_buffers = [m \in Module |-> 0] /\ qi = [m \in Module |-> 0]
  /\ kstreaming = [m \in Module |-> FALSE]
  /\ kqueue = [m \in Module |-> << >>] /\ kdone = [m \in Module |-> << >>]
  /\ status = "running"

-----------------------------------------------------------------------------
\* Opened; a failure ends the process.
open_video_device(m) ==
  /\ fd' = [fd EXCEPT ![m] = "open"]
  /\ UNCHANGED <<mapped, n_buffers, qi, kstreaming, kqueue, kdone, status>>

\* The queries and settings passed, and init_mmap has mapped every buffer.
init_video_device(m) ==
  /\ fd[m] = "open"
  /\ mapped' = [mapped EXCEPT ![m] = BufIndex]
  /\ n_buffers' = [n_buffers EXCEPT ![m] = NBufs]
  /\ UNCHANGED <<fd, qi, kstreaming, kqueue, kdone, status>>

\* The failures of init_video_device that end the process: xioctl, a missing
\* capability, too few buffers; and mmap, whose result memset uses unseen.
init_ends(m) == Exit \/ (fd[m] = "open" /\ Crash)

\* Mutant: one index too many.
More_OffByOne(m) == qi[m] <= n_buffers[m]
\* The loop test of start_video_capture.
More(m) == qi[m] < n_buffers[m]

\* start_video_capture: QBUF of every buffer, then STREAMON.
start_qbuf(m) ==
  /\ More(m)
  /\ IF fd[m] = "open"
     THEN /\ kqueue' = [kqueue EXCEPT ![m] = Append(@, qi[m])]
          /\ qi' = [qi EXCEPT ![m] = @ + 1]
          /\ UNCHANGED <<fd, mapped, n_buffers, kstreaming, kdone, status>>
     ELSE Exit
start_streamon(m) ==
  /\ ~More(m)
  /\ IF fd[m] = "open"
     THEN /\ kstreaming' = [kstreaming EXCEPT ![m] = TRUE]
          /\ UNCHANGED <<fd, mapped, n_buffers, qi, kqueue, kdone, status>>
     ELSE Exit

\* Descriptor 0 is no video device.
stop_video_capture(m) ==
  IF fd[m] = "open"
  THEN /\ kstreaming' = [kstreaming EXCEPT ![m] = FALSE]
       /\ kqueue' = [kqueue EXCEPT ![m] = << >>]
       /\ kdone' = [kdone EXCEPT ![m] = << >>]
       /\ UNCHANGED <<fd, mapped, n_buffers, qi, status>>
  ELSE Exit

\* munmap(buffers->start, ...) once per buffer, always of the first one.
Unmapped(m) == IF n_buffers[m] = 0 THEN {} ELSE {0}

uninit_video_device(m) == mapped' = [mapped EXCEPT ![m] = @ \ Unmapped(m)]

\* The kernel releases the device when no mapping is left to hold it.
close_video_device(m) ==
  LET held == mapped'[m] # {}
  IN  /\ fd' = [fd EXCEPT ![m] = "closed"]
      /\ kstreaming' = [kstreaming EXCEPT ![m] = @ /\ held]
      /\ kqueue' = [kqueue EXCEPT ![m] = IF held THEN @ ELSE << >>]
      /\ kdone' = [kdone EXCEPT ![m] = IF held THEN @ ELSE << >>]

\* The callers pair the two.
uninit_and_close(m) ==
  /\ uninit_video_device(m)
  /\ close_video_device(m)
  /\ UNCHANGED <<n_buffers, qi, status>>

-----------------------------------------------------------------------------
(* dequeue_and_capture: select, DQBUF, memcpy.                             *)

\* Mutant: the descriptor of the other device.
Readable_Rgb(m) == fd["RGB"] = "open" /\ (kdone["RGB"] # << >> \/ ~kstreaming["RGB"])
\* select says readable.  It times out or fails otherwise, and the loop
\* repeats it, whatever errno was: errno = EINTR is an assignment.
Readable(m) == fd[m] = "open" /\ (kdone[m] # << >> \/ ~kstreaming[m])

\* DQBUF gets a frame; a queue that does not stream or a closed descriptor
\* ends the process.  Otherwise it blocks.
DqbufFails(m) == fd[m] # "open" \/ ~kstreaming[m]
Dqbuf(m) ==
  /\ ~DqbufFails(m) /\ kdone[m] # << >>
  /\ kdone' = [kdone EXCEPT ![m] = Tail(@)]
  /\ UNCHANGED <<fd, mapped, n_buffers, qi, kstreaming, kqueue, status>>

\* Mutant: the buffer is not given back.
queue_capture_Forgotten(m, b) == UNCHANGED <<deviceVars, status>>

queue_capture(m, b) ==
  IF fd[m] = "open"
  THEN /\ kqueue' = [kqueue EXCEPT ![m] = Append(@, b)]
       /\ UNCHANGED <<fd, mapped, n_buffers, qi, kstreaming, kdone, status>>
  ELSE Exit

\* The device fills the oldest buffer.
DeviceFills(m) ==
  /\ kstreaming[m] /\ kqueue[m] # << >>
  /\ kdone' = [kdone EXCEPT ![m] = Append(@, Head(kqueue[m]))]
  /\ kqueue' = [kqueue EXCEPT ![m] = Tail(@)]
  /\ UNCHANGED <<fd, mapped, n_buffers, qi, kstreaming, status>>

-----------------------------------------------------------------------------
\* Types of the devices.
CaptureTypes ==
  /\ fd \in [Module -> {"unset", "open", "closed"}]
  /\ mapped \in [Module -> SUBSET BufIndex]
  /\ n_buffers \in [Module -> {0, NBufs}] /\ qi \in [Module -> 0 .. NBufs]
  /\ kstreaming \in [Module -> BOOLEAN]
  /\ \A m \in Module : kqueue[m] \in Seq(BufIndex) /\ kdone[m] \in Seq(BufIndex)
  /\ status \in {"running", "success", "failure", "crashed"}
=============================================================================
