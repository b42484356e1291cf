----------------------------- MODULE FrameQueue -----------------------------
(***************************************************************************)
(* What the RGB-D pipeline promises to the USB host: a bounded first-in    *)
(* first-out queue of whole camera frames.  A frame is its capture number; *)
(* number 0 is the all-zero picture that memory holds before the first     *)
(* capture.  Frames enter in capture order (the depth sensor may pair the  *)
(* same picture twice), leave in the order they entered, and none is       *)
(* invented, torn, lost or shown twice once it is in the queue.            *)
(***************************************************************************)
EXTENDS Naturals, Sequences

CONSTANTS Capacity,   \* frames the queue can hold
          MaxFrame    \* bound: highest capture number

VARIABLES queue,      \* frames accepted and not yet delivered
          out         \* the last frame delivered

fqVars == <<queue, out>>

Frame == 0 .. MaxFrame

\* The youngest frame the queue has accepted so far.
Newest == IF queue = << >> THEN out ELSE queue[Len(queue)]

Init == queue = << >> /\ out = 0

\* A captured frame is accepted; it is never older than an earlier one.
Push(f) == /\ Len(queue) < Capacity
           /\ f >= Newest
           /\ queue' = Append(queue, f)
           /\ UNCHANGED out

\* The oldest frame is delivered.
Pop == /\ queue # << >>
       /\ out' = Head(queue)
       /\ queue' = Tail(queue)

Next == Pop \/ \E f \in Frame : Push(f)

Spec == Init /\ [][Next]_fqVars /\ WF_fqVars(Pop)
=============================================================================
