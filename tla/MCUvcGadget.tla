----------------------------- MODULE MCUvcGadget -----------------------------
(* Instance of the whole gadget for TLC: a host that probes, commits,      *)
(* stops, and sets the brightness in between.                              *)
EXTENDS UvcGadget, UvcFrames

MCRequests ==
  {[intf |-> "streaming", entity |-> 0, cs |-> c, req |-> "SET_CUR", len |-> 34] : c \in {1, 2}}
  \cup {[intf |-> "control", entity |-> 2, cs |-> 2, req |-> "SET_CUR", len |-> 2],
        [intf |-> "other", entity |-> 0, cs |-> 0, req |-> "GET_CUR", len |-> 2]}

MCProposals == {[format |-> 1, frame |-> 2, interval |-> 333333],
                [format |-> 1, frame |-> 3, interval |-> 0]}
=============================================================================
