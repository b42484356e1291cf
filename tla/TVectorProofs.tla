--------------------------- MODULE TVectorProofs ---------------------------
(***************************************************************************)
(* The operations of the growing array for every capacity and increment:   *)
(* what addElement, indexOf and removeElement do to its contents.          *)
(***************************************************************************)
EXTENDS TVector, TLAPS, SequenceTheorems, WellFoundedInduction

(* Every set of natural numbers that is not empty has a least element.     *)
LEMMA LeastNatural ==
  ASSUME NEW S \in SUBSET Nat, S # {}
  PROVE  \E i \in S : \A j \in S : i <= j
<1> DEFINE R == OpToRel(<, Nat)
<1>1. IsWellFoundedOn(R, Nat)
  BY NatLessThanWellFounded
<1>2. \A i, j \in Nat : j < i => <<j, i>> \in R
  BY DEF OpToRel
<1> HIDE DEF R
<1>3. \E i \in S : \A j \in S : ~ (<<j, i>> \in R)
  BY <1>1, WFMin
<1>4. \A i, j \in S : i \in Nat /\ j \in Nat /\ (~ (j < i) => i <= j)
  OBVIOUS
<1> QED
  BY <1>2, <1>3, <1>4, Zenon

(* The empty vector of the constructor.                                    *)
LEMMA InitTypes == ASSUME VectorInit PROVE VectorTypes
BY VectorAssumption DEF VectorInit, VectorTypes

(* ensureCapacityHelper makes room and keeps the length a number.          *)
LEMMA Capacity ==
  ASSUME length \in Nat, NEW n \in Nat
  PROVE  NewCapacity(n) \in Nat /\ NewCapacity(n) >= n
BY VectorAssumption DEF NewCapacity

(* addElement puts the object behind the others, which stay in place, and  *)
(* keeps everything behind it null, whether or not the array had to grow.  *)
LEMMA AddElement ==
  ASSUME VectorTypes, NEW obj \in Listener, addElement(obj)
  PROVE  /\ VectorTypes'
         /\ elementCount' = elementCount + 1
         /\ \A i \in 0 .. elementCount-1 : elementData'[i] = elementData[i]
         /\ elementData'[elementCount] = obj
<1>0. length \in Nat /\ elementCount \in Nat /\ elementCount <= length
  BY DEF VectorTypes
<1> DEFINE n == elementCount + 1
<1>1. CASE Grows(n)
  <2>1. /\ elementData' = [ensureCapacityHelper(n) EXCEPT ![elementCount] = obj]
        /\ elementCount' = n /\ length' = NewCapacity(n)
    BY <1>1 DEF addElement
  <2>2. length' \in Nat /\ length' >= n
    BY <1>0, <2>1, Capacity
  <2>3. /\ elementData' = [i \in 0 .. length'-1 |-> elementData'[i]]
        /\ \A i \in 0 .. length'-1 :
             elementData'[i] = IF i = elementCount THEN obj
                               ELSE IF i < elementCount THEN elementData[i] ELSE Null
    BY <1>0, <2>1, <2>2 DEF ensureCapacityHelper
  <2>4. \A i \in 0 .. elementCount-1 : i \in 0 .. length-1 /\ elementData[i] \in Listener
    BY <1>0 DEF VectorTypes
  <2>5. elementData' \in [0 .. length'-1 -> Listener \cup {Null}]
    BY <1>0, <2>2, <2>3, <2>4
  <2>6. \A i \in 0 .. length'-1 : elementData'[i] = Null <=> i >= n
    BY <1>0, <2>2, <2>3, <2>4, VectorAssumption
  <2>7. /\ \A i \in 0 .. elementCount-1 : elementData'[i] = elementData[i]
        /\ elementData'[elementCount] = obj
    BY <1>0, <2>2, <2>3
  <2> QED
    BY <1>0, <2>1, <2>2, <2>5, <2>6, <2>7 DEF VectorTypes
<1>2. CASE ~Grows(n)
  <2>1. /\ elementData' = [elementData EXCEPT ![elementCount] = obj]
        /\ elementCount' = n /\ length' = length /\ n <= length
    BY <1>0, <1>2 DEF addElement, Grows
  <2> QED
    BY <1>0, <2>1, VectorAssumption DEF VectorTypes
<1> QED
  BY <1>1, <1>2

(* indexOf finds the first occurrence, and -1 only if there is none.       *)
LEMMA IndexOf ==
  ASSUME VectorTypes, NEW elem
  PROVE  \/ /\ indexOf(elem) = -1
            /\ \A i \in 0 .. elementCount-1 : elementData[i] # elem
         \/ /\ indexOf(elem) \in 0 .. elementCount-1
            /\ elementData[indexOf(elem)] = elem
            /\ \A i \in 0 .. elementCount-1 : i < indexOf(elem) => elementData[i] # elem
<1> DEFINE found == {i \in 0 .. elementCount-1 : elementData[i] = elem}
           least == CHOOSE i \in found : \A j \in found : i <= j
<1>0. elementCount \in Nat
  BY DEF VectorTypes
<1>1. CASE found = {}
  BY <1>1 DEF indexOf
<1>2. CASE found # {}
  <2>1. found \in SUBSET Nat
    BY <1>0
  <2>2. least \in found /\ \A j \in found : least <= j
    <3>1. \E i \in found : \A j \in found : i <= j
      BY <1>2, <2>1, LeastNatural
    <3> QED
      BY <3>1
  <2>3. indexOf(elem) = least
    BY <1>2 DEF indexOf
  <2> QED
    BY <1>0, <2>1, <2>2, <2>3
<1> QED
  BY <1>1, <1>2

(* removeElementAt takes out one element; those behind it move up by one.  *)
LEMMA RemoveElementAt ==
  ASSUME VectorTypes, NEW index \in 0 .. elementCount-1, removeElementAt(index)
  PROVE  /\ VectorTypes'
         /\ elementCount' = elementCount - 1
         /\ \A i \in 0 .. elementCount-2 :
              elementData'[i] = IF i < index THEN elementData[i] ELSE elementData[i+1]
<1>0. length \in Nat /\ elementCount \in Nat /\ elementCount <= length /\ elementCount > 0
  BY DEF VectorTypes
<1>1. elementCount' = elementCount - 1 /\ length' = length
  BY DEF removeElementAt
<1>2. \A i \in 0 .. length-1 :
        elementData'[i] = IF i = elementCount-1 THEN Null
                          ELSE IF i >= index /\ i < elementCount-1 THEN elementData[i+1]
                          ELSE elementData[i]
  BY <1>0 DEF removeElementAt, Shifted
<1>3. DOMAIN elementData' = 0 .. length-1
      /\ elementData' = [i \in 0 .. length-1 |-> elementData'[i]]
  BY DEF removeElementAt, Shifted
<1>4. \A i \in 0 .. elementCount-2 :
        elementData'[i] = IF i < index THEN elementData[i] ELSE elementData[i+1]
  BY <1>0, <1>2
<1>5. \A i \in 0 .. length-1 : /\ elementData'[i] \in Listener \cup {Null}
                               /\ elementData'[i] = Null <=> i >= elementCount-1
  BY <1>0, <1>2, VectorAssumption DEF VectorTypes
<1> QED
  BY <1>0, <1>1, <1>3, <1>4, <1>5 DEF VectorTypes

(* removeElement takes out the first occurrence, or does nothing.          *)
LEMMA RemoveElement ==
  ASSUME VectorTypes, NEW obj, removeElement(obj)
  PROVE  \/ UNCHANGED vectorVars
         \/ \E j \in 0 .. elementCount-1 :
              /\ elementData[j] = obj
              /\ \A i \in 0 .. elementCount-1 : i < j => elementData[i] # obj
              /\ removeElementAt(j)
<1>1. CASE indexOf(obj) = -1
  BY <1>1 DEF removeElement
<1>2. CASE /\ indexOf(obj) \in 0 .. elementCount-1
           /\ elementData[indexOf(obj)] = obj
           /\ \A i \in 0 .. elementCount-1 : i < indexOf(obj) => elementData[i] # obj
  <2>1. indexOf(obj) >= 0
    BY <1>2 DEF VectorTypes
  <2>2. removeElementAt(indexOf(obj))
    BY <2>1 DEF removeElement
  <2> QED
    BY <1>2, <2>2
<1> QED
  BY <1>1, <1>2, IndexOf

-----------------------------------------------------------------------------
(* The same as changes of the contents, a sequence.                        *)

\* The vector as the list of what is below elementCount.
IsList ==
  /\ Contents \in Seq(Listener) /\ Len(Contents) = elementCount
  /\ \A k \in 1 .. elementCount : Contents[k] = elementData[k-1]

(* The elements below elementCount are listeners, so the vector is a list. *)
LEMMA ContentsIsList == ASSUME VectorTypes PROVE IsList
<1>1. elementCount \in Nat /\ \A k \in 1 .. elementCount : elementData[k-1] \in Listener
  BY DEF VectorTypes
<1> QED
  BY <1>1 DEF Contents, IsList

(* addElement appends.                                                     *)
LEMMA AddAppends ==
  ASSUME VectorTypes, NEW obj \in Listener, addElement(obj)
  PROVE  Contents' = Append(Contents, obj)
<1>0. elementCount \in Nat
  BY DEF VectorTypes
<1>1. /\ VectorTypes' /\ elementCount' = elementCount + 1
      /\ \A i \in 0 .. elementCount-1 : elementData'[i] = elementData[i]
      /\ elementData'[elementCount] = obj
  BY AddElement
<1>a. IsList'
  BY <1>1, ContentsIsList, PTL
<1>2. /\ Contents' \in Seq(Listener) /\ Len(Contents') = elementCount + 1
      /\ \A k \in 1 .. elementCount+1 : Contents'[k] = elementData'[k-1]
  BY <1>1, <1>a DEF IsList
<1>3. /\ Append(Contents, obj) \in Seq(Listener)
      /\ Len(Append(Contents, obj)) = elementCount + 1
      /\ \A k \in 1 .. elementCount : Append(Contents, obj)[k] = elementData[k-1]
      /\ Append(Contents, obj)[elementCount+1] = obj
  BY ContentsIsList, AppendProperties DEF IsList
<1>4. \A k \in 1 .. elementCount+1 : Contents'[k] = Append(Contents, obj)[k]
  BY <1>0, <1>1, <1>2, <1>3
<1> QED
  BY <1>2, <1>3, <1>4, SeqEqual

(* removeElementAt cuts one element out.                                   *)
LEMMA RemoveCuts ==
  ASSUME VectorTypes, NEW index \in 0 .. elementCount-1, removeElementAt(index)
  PROVE  Contents' = SubSeq(Contents, 1, index) \o SubSeq(Contents, index+2, Len(Contents))
<1> DEFINE front == SubSeq(Contents, 1, index)
           back  == SubSeq(Contents, index+2, Len(Contents))
<1>0. elementCount \in Nat /\ index \in Nat /\ index < elementCount
  BY DEF VectorTypes
<1>1. /\ VectorTypes' /\ elementCount' = elementCount - 1
      /\ \A i \in 0 .. elementCount-2 :
           elementData'[i] = IF i < index THEN elementData[i] ELSE elementData[i+1]
  BY RemoveElementAt
<1>2. /\ Contents \in Seq(Listener) /\ Len(Contents) = elementCount
      /\ \A k \in 1 .. elementCount : Contents[k] \in Listener /\ Contents[k] = elementData[k-1]
  BY ContentsIsList, ElementOfSeq DEF IsList
<1>a. IsList'
  BY <1>1, ContentsIsList, PTL
<1>3. /\ Contents' \in Seq(Listener) /\ Len(Contents') = elementCount - 1
      /\ \A k \in 1 .. elementCount-1 : Contents'[k] = elementData'[k-1]
  BY <1>1, <1>a DEF IsList
<1>4. /\ front \in Seq(Listener) /\ Len(front) = index
      /\ \A k \in 1 .. index : front[k] = elementData[k-1]
  <2>1. \A k \in 1 .. index : Contents[k] \in Listener
    BY <1>0, <1>2
  <2>2. /\ front \in Seq(Listener) /\ Len(front) = (IF 1 <= index THEN index-1+1 ELSE 0)
        /\ \A k \in 1 .. index-1+1 : front[k] = Contents[1+k-1]
    BY <1>0, <2>1, SubSeqProperties
  <2> QED
    BY <1>0, <1>2, <2>2
<1>5. /\ back \in Seq(Listener) /\ Len(back) = elementCount - index - 1
      /\ \A k \in 1 .. elementCount-index-1 : back[k] = elementData[index+k]
  <2>1. \A k \in index+2 .. elementCount : Contents[k] \in Listener
    BY <1>0, <1>2
  <2>2. /\ back \in Seq(Listener)
        /\ Len(back) = (IF index+2 <= elementCount THEN elementCount-(index+2)+1 ELSE 0)
        /\ \A k \in 1 .. elementCount-(index+2)+1 : back[k] = Contents[index+2+k-1]
    BY <1>0, <1>2, <2>1, SubSeqProperties
  <2> QED
    BY <1>0, <1>2, <2>2
<1> HIDE DEF front, back
<1>6. /\ front \o back \in Seq(Listener) /\ Len(front \o back) = elementCount - 1
      /\ \A k \in 1 .. elementCount-1 :
           (front \o back)[k] = IF k <= index THEN front[k] ELSE back[k-index]
  <2>1. /\ front \o back \in Seq(Listener) /\ Len(front \o back) = Len(front) + Len(back)
        /\ \A k \in 1 .. Len(front) + Len(back) :
             (front \o back)[k] = IF k <= Len(front) THEN front[k] ELSE back[k-Len(front)]
    BY <1>4, <1>5, ConcatProperties
  <2>2. Len(front) = index /\ Len(front) + Len(back) = elementCount - 1
    BY <1>0, <1>4, <1>5
  <2> QED
    BY <2>1, <2>2
<1>7. ASSUME NEW k \in 1 .. elementCount-1 PROVE Contents'[k] = (front \o back)[k]
  <2>1. k-1 \in 0 .. elementCount-2 /\ Contents'[k] = elementData'[k-1]
        /\ (k-1)+1 = k /\ (k-1 < index <=> k <= index)
    BY <1>0, <1>3
  <2>2. elementData'[k-1] = IF k <= index THEN elementData[k-1] ELSE elementData[k]
    BY <1>1, <2>1
  <2>3. CASE k <= index
    BY <1>0, <1>4, <1>6, <2>1, <2>2, <2>3
  <2>4. CASE ~(k <= index)
    <3>1. k-index \in 1 .. elementCount-index-1 /\ index + (k-index) = k
      BY <1>0, <2>4
    <3> QED
      BY <1>5, <1>6, <2>1, <2>2, <2>4, <3>1
  <2> QED
    BY <2>3, <2>4
<1>8. Contents' = front \o back
  BY <1>3, <1>6, <1>7, SeqEqual
<1> QED
  BY <1>8 DEF front, back
=============================================================================
