---------------------------- MODULE ListenerList ----------------------------
(***************************************************************************)
(* What addListener and removeListener of TApplication promise: a list in  *)
(* the order of registration, in which a listener may be more than once    *)
(* and of which a removal takes the oldest registration, if there is one.  *)
(***************************************************************************)
EXTENDS Naturals, Sequences

CONSTANT Listener

VARIABLE list

Init == list = << >>

Add(l) == list' = Append(list, l)

Remove(l) ==
  \E k \in 1 .. Len(list) :
    /\ list[k] = l /\ \A j \in 1 .. k-1 : list[j] # l
    /\ list' = SubSeq(list, 1, k-1) \o SubSeq(list, k+1, Len(list))

Next == \E l \in Listener : Add(l) \/ Remove(l)

Spec == Init /\ [][Next]_list
=============================================================================
