---------------------------- MODULE MCUvcControl ----------------------------
(* Instances of the control requests for TLC: hosts that use every kind of *)
(* answer of every unit, over the frame table of the source.               *)
EXTENDS UvcControl, UvcFrames

Make(intf, entity, cs, req, len) ==
  [intf |-> intf, entity |-> entity, cs |-> cs, req |-> req, len |-> len]

\* Camera terminal and processing unit: all that the descriptors declare, a
\* control (gain) and requests they do not, and a value of eight bytes.
UnitRequests ==
  {Make("control", 0, 2, "GET_CUR", 1), Make("control", 2, 4, "SET_CUR", 2),
   Make("control", 1, 2, "SET_CUR", 1), Make("control", 2, 3, "SET_CUR", 1),
   Make("other", 0, 0, "GET_CUR", 2)}
  \cup {Make("control", 2, 2, "SET_CUR", n) : n \in {2, 8}}

StreamRequests ==
  {Make("streaming", 0, c, "SET_CUR", 34) : c \in {1, 2}}
  \cup {Make("streaming", 0, 1, "GET_CUR", 34), Make("streaming", 0, 3, "SET_CUR", 1)}

MCRequests == UnitRequests \cup StreamRequests

MCValues == {0, 255, 256}

\* Indexes below, in and above the tables; intervals below, at, between and
\* beyond the entries.
MCProposals ==
  {[format |-> 0, frame |-> 0, interval |-> 0],
   [format |-> 1, frame |-> 3, interval |-> 10000000],
   [format |-> 255, frame |-> 3, interval |-> 700000],
   [format |-> 1, frame |-> 5, interval |-> 60000000]}
=============================================================================
