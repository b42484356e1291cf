------------------------------ MODULE TVector ------------------------------
(***************************************************************************)
(* The growing array of src/src/private_vector.cpp, with the operations    *)
(* that TApplication calls.  An Object is a reference, null at first.      *)
(***************************************************************************)
EXTENDS Integers, Sequences

CONSTANTS Listener,            \* the objects that are put in
          Null,                \* the null reference
          InitialCapacity,     \* 10 where the caller does not say
          CapacityIncrement    \* 0: double the array

ASSUME VectorAssumption ==
  /\ Null \notin Listener
  /\ InitialCapacity \in Nat /\ CapacityIncrement \in Nat

VARIABLES elementData, elementCount, length

vectorVars == <<elementData, elementCount, length>>

VectorInit ==
  /\ elementData = [i \in 0 .. InitialCapacity-1 |-> Null]
  /\ elementCount = 0 /\ length = InitialCapacity

NewCapacity(minCapacity) ==
  LET more == IF CapacityIncrement > 0 THEN length + CapacityIncrement ELSE length * 2
  IN  IF more < minCapacity THEN minCapacity ELSE more

ensureCapacityHelper(minCapacity) ==
  [i \in 0 .. NewCapacity(minCapacity)-1 |-> IF i < elementCount THEN elementData[i] ELSE Null]

\* Mutant: grow one element too late.
Grows_Late(newcount) == newcount > length + 1
Grows(newcount) == newcount > length

addElement(obj) ==
  LET newcount == elementCount + 1
      data == IF Grows(newcount) THEN ensureCapacityHelper(newcount) ELSE elementData
  IN  /\ elementData' = [data EXCEPT ![elementCount] = obj]
      /\ elementCount' = newcount
      /\ length' = IF Grows(newcount) THEN NewCapacity(newcount) ELSE length

indexOf(elem) ==
  LET found == {i \in 0 .. elementCount-1 : elementData[i] = elem}
  IN  IF found = {} THEN -1 ELSE CHOOSE i \in found : \A j \in found : i <= j

\* Mutant: the shift starts one element late.
Shifted_Late(index) ==
  [i \in 0 .. length-1 |-> CASE i = elementCount-1                 -> Null
                             [] i > index /\ i < elementCount-1    -> elementData[i+1]
                             [] OTHER                              -> elementData[i]]
\* The elements behind index move up, the last place becomes null.
Shifted(index) ==
  [i \in 0 .. length-1 |-> CASE i = elementCount-1                 -> Null
                             [] i >= index /\ i < elementCount-1   -> elementData[i+1]
                             [] OTHER                              -> elementData[i]]

removeElementAt(index) ==
  /\ elementData' = Shifted(index)
  /\ elementCount' = elementCount - 1
  /\ UNCHANGED length

removeElement(obj) ==
  IF indexOf(obj) >= 0 THEN removeElementAt(indexOf(obj)) ELSE UNCHANGED vectorVars

elementAt(index) == elementData[index]

-----------------------------------------------------------------------------
\* The vector as a sequence.
Contents == [k \in 1 .. elementCount |-> elementData[k-1]]

\* Types, and no reference is kept behind the last element.
VectorTypes ==
  /\ length \in Nat /\ elementCount \in 0 .. length
  /\ elementData \in [0 .. length-1 -> Listener \cup {Null}]
  /\ \A i \in 0 .. length-1 : elementData[i] = Null <=> i >= elementCount
=============================================================================
