---------------------------- MODULE CaptureLoop ----------------------------
(***************************************************************************)
(* The body of a capture loop: dequeue_and_capture (select, DQBUF, memcpy) *)
(* and queue_capture, as the threads of all the programs call them.        *)
(***************************************************************************)
EXTENDS VideoCapture

VARIABLE buf     \* index in the v4l2_buffer of the thread that reads device m

(* A thread that reads device m goes from pc to next.                      *)

Select(m, pc, next) ==
  /\ pc = "select" /\ Readable(m)
  /\ next = "dqbuf"
  /\ UNCHANGED <<deviceVars, status, buf>>

\* A timeout or an error, and once more.
SelectAgain(m, pc, next) ==
  /\ pc = "select" /\ ~Readable(m)
  /\ next = "select"
  /\ UNCHANGED <<deviceVars, status, buf>>

Dequeue(m, pc, next) ==
  /\ pc = "dqbuf"
  /\ \/ /\ DqbufFails(m) /\ Exit
        /\ next = pc /\ UNCHANGED buf
     \/ /\ Dqbuf(m)
        /\ buf' = [buf EXCEPT ![m] = Head(kdone[m])]
        /\ next = "copy"

\* memcpy out of the mapped buffer into the thread data, which exist or not.
Copy(m, pc, next, exists, after) ==
  /\ pc = "copy"
  /\ next = after
  /\ UNCHANGED buf
  /\ IF exists /\ buf[m] \in mapped[m] THEN UNCHANGED <<deviceVars, status>> ELSE Crash

Requeue(m, pc, next) ==
  /\ pc = "qbuf"
  /\ queue_capture(m, buf[m])
  /\ next = "test"
  /\ UNCHANGED buf

Capture(m, pc, next, exists, after) ==
  \/ Select(m, pc, next) \/ SelectAgain(m, pc, next) \/ Dequeue(m, pc, next)
  \/ Copy(m, pc, next, exists, after) \/ Requeue(m, pc, next)
=============================================================================
