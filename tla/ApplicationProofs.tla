------------------------- MODULE ApplicationProofs -------------------------
(***************************************************************************)
(* TApplication for every set of listeners, every capacity of the vector   *)
(* and every number of registrations.                                      *)
(***************************************************************************)
EXTENDS Application, TVectorProofs, FiniteSetTheorems, FunctionTheorems

-----------------------------------------------------------------------------
(* Type correctness.                                                       *)

\* Where the loop is in the list.  It is at the listener that it calls, until
\* this listener makes the list shorter; one element less leaves the next index
\* within the list, more may not.  The array itself never becomes shorter.
Within ==
  /\ pcA \in {"fire", "event"} => index < length
  /\ pcA = "fire" => several \/ index < elementCount
  /\ pcA = "event" =>
       /\ index >= 0 /\ listener \in Listener
       /\ several \/ IF cut THEN index <= elementCount
                     ELSE index < elementCount /\ elementData[index] = listener

\* With the bound on registrations and the types of the histories.
Types ==
  /\ TypeOK
  /\ elementCount <= MaxListeners
  /\ fired \in [Listener -> Nat] /\ atStart \in [Listener -> Nat]
  /\ Within

(* How often a listener is registered is a number.                         *)
LEMMA RegisteredType == ASSUME VectorTypes PROVE Registered \in [Listener -> Nat]
<1> SUFFICES ASSUME NEW l \in Listener
             PROVE  Cardinality({i \in 0 .. elementCount-1 : elementData[i] = l}) \in Nat
  BY DEF Registered
<1>1. IsFiniteSet(0 .. elementCount-1)
  BY FS_Interval DEF VectorTypes
<1> QED
  BY <1>1, FS_Subset, FS_CardinalityType

(* Adding and removing keep the types of the vector and its bound, and the *)
(* array does not become shorter.                                          *)
LEMMA ListTypes ==
  ASSUME VectorTypes, elementCount <= MaxListeners,
         \/ UNCHANGED vectorVars
         \/ \E k \in Listener : elementCount < MaxListeners /\ addElement(k)
         \/ \E k \in Listener : removeElement(k)
  PROVE  VectorTypes' /\ elementCount' <= MaxListeners /\ length' >= length
<1>0. elementCount \in Nat /\ length \in Nat /\ elementCount <= length
  BY DEF VectorTypes
<1>1. CASE UNCHANGED vectorVars
  BY <1>0, <1>1 DEF vectorVars, VectorTypes
<1>2. ASSUME NEW k \in Listener, elementCount < MaxListeners, addElement(k)
      PROVE  VectorTypes' /\ elementCount' <= MaxListeners /\ length' >= length
  <2>1. VectorTypes' /\ elementCount' = elementCount + 1
    BY <1>2, AddElement
  <2>2. CASE Grows(elementCount + 1)
    <3>1. length' = NewCapacity(elementCount + 1) /\ elementCount + 1 > length
      BY <1>2, <2>2 DEF addElement, Grows
    <3>2. NewCapacity(elementCount + 1) \in Nat /\ NewCapacity(elementCount + 1) >= elementCount + 1
      BY <1>0, Capacity
    <3> QED
      BY <1>0, <1>2, <2>1, <3>1, <3>2, ApplicationAssumption
  <2>3. CASE ~Grows(elementCount + 1)
    BY <1>0, <1>2, <2>1, <2>3, ApplicationAssumption DEF addElement
  <2> QED
    BY <2>2, <2>3
<1>3. ASSUME NEW j \in 0 .. elementCount-1, removeElementAt(j)
      PROVE  VectorTypes' /\ elementCount' <= MaxListeners /\ length' >= length
  <2>1. VectorTypes' /\ elementCount' = elementCount - 1
    BY <1>3, RemoveElementAt
  <2>2. length' = length
    BY <1>3 DEF removeElementAt
  <2> QED
    BY <1>0, <2>1, <2>2, ApplicationAssumption
<1> QED
  BY <1>1, <1>2, <1>3, RemoveElement

(* The registered listeners are well typed from the start.                 *)
LEMMA TypeInit == Init => Types
<1> SUFFICES ASSUME Init PROVE Types
  OBVIOUS
<1>1. VectorTypes /\ elementCount = 0
  BY InitTypes DEF Init, VectorInit
<1>2. fired \in [Listener -> Nat] /\ atStart \in [Listener -> Nat]
  BY DEF Init, Never
<1>3. /\ {Terminated, Done, crashed, foreign, cut, several} \subseteq BOOLEAN
      /\ pcA = "none" /\ pcO = "using" /\ index = -1 /\ listener = Null
  BY DEF Init
<1>4. TypeOK
  BY <1>1, <1>3, ApplicationAssumption DEF TypeOK
<1> QED
  BY <1>1, <1>2, <1>3, <1>4, ApplicationAssumption DEF Types, Within

(* What a listener does to the list while it is called.                    *)
LEMMA EventList ==
  ASSUME EventFired
  PROVE  \/ UNCHANGED vectorVars
         \/ \E k \in Listener : elementCount < MaxListeners /\ addElement(k)
         \/ \E k \in Listener : removeElement(k)
BY DEF EventFired

(* What a listener does keeps the loop where it should be.                 *)
LEMMA EventWithin ==
  ASSUME Types, pcA = "event", EventFired, UNCHANGED <<pcA, index, listener>>
  PROVE  Within'
<1>0. /\ VectorTypes /\ elementCount \in Nat /\ length \in Nat /\ elementCount <= length
      /\ index \in Nat /\ index < length /\ listener \in Listener
      /\ cut \in BOOLEAN /\ several \in BOOLEAN
      /\ several \/ IF cut THEN index <= elementCount
                    ELSE index < elementCount /\ elementData[index] = listener
  BY DEF Types, TypeOK, VectorTypes, Within
<1>1. /\ VectorTypes' /\ length' >= length /\ elementCount' \in Nat /\ length' \in Nat
  BY EventList, ListTypes DEF Types, TypeOK, VectorTypes
<1>2. index' < length'
  BY <1>0, <1>1
<1> SUFFICES several' \/ IF cut' THEN index <= elementCount'
                         ELSE index < elementCount' /\ elementData'[index] = listener
  BY <1>0, <1>2 DEF Within
<1>3. CASE UNCHANGED <<vectorVars, cut, several>>
  BY <1>0, <1>3 DEF vectorVars
<1>4. ASSUME NEW k \in Listener, addElement(k), UNCHANGED <<cut, several>>
      PROVE  several' \/ IF cut' THEN index <= elementCount'
                         ELSE index < elementCount' /\ elementData'[index] = listener
  <2>1. /\ elementCount' = elementCount + 1
        /\ \A i \in 0 .. elementCount-1 : elementData'[i] = elementData[i]
    BY <1>0, <1>4, AddElement
  <2> QED
    BY <1>0, <1>4, <2>1
<1>5. ASSUME NEW k \in Listener, removeElement(k),
             cut' = (cut \/ elementCount' < elementCount),
             several' = (several \/ (cut /\ elementCount' < elementCount))
      PROVE  several' \/ IF cut' THEN index <= elementCount'
                         ELSE index < elementCount' /\ elementData'[index] = listener
  <2>1. CASE UNCHANGED vectorVars
    BY <1>0, <1>5, <2>1 DEF vectorVars
  <2>2. ASSUME NEW j \in 0 .. elementCount-1, removeElementAt(j)
        PROVE  elementCount' = elementCount - 1
    BY <1>0, <2>2, RemoveElementAt
  <2>3. CASE elementCount' = elementCount - 1
    <3>2. elementCount' < elementCount
      BY <1>0, <2>3
    <3>3. cut' /\ (several' \/ (~several /\ ~cut))
      BY <1>0, <1>5, <3>2, Zenon
    <3>4. ~several /\ ~cut => index <= elementCount'
      BY <1>0, <2>3
    <3> QED
      BY <3>3, <3>4
  <2> QED
    BY <1>0, <1>5, <2>1, <2>2, <2>3, RemoveElement
<1> QED
  BY <1>3, <1>4, <1>5 DEF EventFired

(* Run ends with a signal: nothing else changes.                           *)
LEMMA CrashTypes ==
  ASSUME Types, NEW possible, RunCrash(possible)
  PROVE  Types'
<1>1. /\ crashed' = TRUE
      /\ UNCHANGED <<elementData, elementCount, length, Terminated, Done, pcA, index, listener, pcO,
                     atStart, fired, removed, foreign, cut, several>>
  BY DEF RunCrash, vectorVars, historyVars
<1> QED
  BY <1>1 DEF Types, TypeOK, VectorTypes, Within

(* Every step of Run, of a listener and of the owner keeps the types.      *)
LEMMA TypeStep == ASSUME Types, [Next]_vars PROVE Types'
<1>0. TypeOK /\ VectorTypes /\ elementCount \in Nat /\ elementCount <= MaxListeners
      /\ length \in Nat /\ elementCount <= length
  BY DEF Types, TypeOK, VectorTypes
<1> USE ApplicationAssumption
<1>1. CASE RunFire
  <2>1. ASSUME ~RunCrash(Member /\ elementAt(index) # Null) PROVE Types'
    <3>1. /\ pcA = "fire" /\ index >= 0 /\ elementData[index] # Null
          /\ listener' = elementData[index]
          /\ fired' = [fired EXCEPT ![listener'] = @ + 1]
          /\ cut' = FALSE /\ pcA' = "event"
          /\ UNCHANGED <<elementData, elementCount, length, Terminated, Done, index, pcO, crashed,
                         atStart, removed, foreign, several>>
      BY <1>1, <2>1 DEF RunFire, vectorVars, elementAt
    <3>2. index \in Nat /\ index < length /\ index < elementCount /\ elementData[index] \in Listener
      BY <1>0, <3>1 DEF Types, TypeOK, VectorTypes, Within
    <3>3. fired' \in [Listener -> Nat] /\ atStart' \in [Listener -> Nat]
      BY <3>1, <3>2 DEF Types
    <3>4. Within'
      BY <3>1, <3>2 DEF Within
    <3>5. TypeOK'
      BY <1>0, <3>1, <3>2 DEF TypeOK, VectorTypes
    <3> QED
      BY <1>0, <3>1, <3>3, <3>4, <3>5 DEF Types
  <2> QED
    BY <2>1, CrashTypes
<1>2. CASE RunRunner
  <2>1. ASSUME ~RunCrash(Virtual) PROVE Types'
    <3>1. /\ pcA' = "fire" /\ index' = elementCount - 1
          /\ atStart' = Registered /\ fired' = Never /\ foreign' = FALSE /\ several' = FALSE
          /\ UNCHANGED <<elementData, elementCount, length, Terminated, Done, listener, pcO, crashed,
                         cut>>
      BY <1>2, <2>1 DEF RunRunner, LastIndex, vectorVars
    <3>2. fired' \in [Listener -> Nat] /\ atStart' \in [Listener -> Nat]
      BY <1>0, <3>1, RegisteredType DEF Never
    <3>3. TypeOK'
      <4>1. {Terminated', Done', crashed', foreign', cut', several'} \subseteq BOOLEAN
        BY <1>0, <3>1, Zenon DEF TypeOK
      <4> QED
        BY <1>0, <3>1, <4>1 DEF TypeOK, VectorTypes
    <3>4. Within'
      BY <1>0, <3>1 DEF Within
    <3> QED
      BY <1>0, <3>1, <3>2, <3>3, <3>4 DEF Types
  <2> QED
    BY <2>1, CrashTypes
<1>3. CASE RunEvent
  <2>1. ASSUME EventFired, UNCHANGED <<Done, pcA, index, listener, pcO, crashed, atStart, fired>>
        PROVE  Types'
    <3>1. Within'
      BY <1>3, <2>1, EventWithin DEF RunEvent
    <3>2. VectorTypes' /\ elementCount' <= MaxListeners
      BY <1>0, <2>1, EventList, ListTypes
    <3>3. /\ Terminated' \in BOOLEAN /\ foreign' \in BOOLEAN
          /\ cut' \in BOOLEAN /\ several' \in BOOLEAN
      BY <1>0, <2>1 DEF EventFired, TypeOK
    <3> QED
      BY <1>0, <2>1, <3>1, <3>2, <3>3 DEF Types, TypeOK
  <2> QED
    BY <1>3, <2>1, CrashTypes DEF RunEvent
<1>4. CASE RunReturn
  <2>1. /\ pcA = "event" /\ pcA' = "fire" /\ index' = index - 1
        /\ UNCHANGED <<elementData, elementCount, length, Terminated, Done, listener, pcO, crashed,
                       atStart, fired, removed, foreign, cut, several>>
    BY <1>4 DEF RunReturn, vectorVars, historyVars
  <2>2. /\ index \in Nat /\ index < length /\ index < MaxListeners
        /\ several \/ index <= elementCount
    BY <1>0, <2>1 DEF Types, Within, TypeOK
  <2>3. Within' /\ index' \in -1 .. MaxListeners-1
    BY <1>0, <2>1, <2>2 DEF Within
  <2> QED
    BY <1>0, <2>1, <2>3 DEF Types, TypeOK, VectorTypes
<1>5. CASE RunInit \/ RunTest \/ RunWaitFor \/ RunPost \/ RunDelay \/ RunUninit \/ RunDone
  <2>1. CASE /\ pcA' \in {"while", "failed", "uninit", "waitFor", "runner", "delay", "done", "ended"}
             /\ Done' \in BOOLEAN
             /\ UNCHANGED <<vectorVars, Terminated, index, listener, pcO, crashed, historyVars>>
    BY <1>0, <2>1 DEF Types, TypeOK, VectorTypes, Within, vectorVars, historyVars
  <2> QED
    BY <1>0, <1>5, <2>1, CrashTypes
    DEF RunInit, RunTest, RunWaitFor, RunPost, RunDelay, RunUninit, RunDone, TypeOK
<1>6. CASE \E l \in Listener : addListener(l) \/ removeListener(l)
  <2>1. \/ \E k \in Listener : elementCount < MaxListeners /\ addElement(k)
        \/ \E k \in Listener : removeElement(k)
    BY <1>6 DEF addListener, removeListener
  <2>2. VectorTypes' /\ elementCount' <= MaxListeners
    BY <1>0, <2>1, ListTypes
  <2>3. pcA = "none" /\ UNCHANGED <<Terminated, Done, pcA, index, listener, pcO, crashed, historyVars>>
    BY <1>6 DEF addListener, removeListener
  <2> QED
    BY <2>2, <2>3 DEF Types, TypeOK, Within, historyVars
<1>7. CASE CallRun \/ Terminate \/ Destructor \/ DestructorWaits
  <2>1. /\ UNCHANGED <<elementData, elementCount, length, Done, index, listener, crashed,
                       atStart, fired, removed, foreign, cut, several>>
        /\ pcA' = pcA \/ pcA' = "init"
        /\ Terminated' \in BOOLEAN /\ pcO' \in {"using", "terminates", "waits", "gone"}
    BY <1>0, <1>7
    DEF CallRun, Terminate, Destructor, DestructorWaits, OwnerUses, vectorVars, historyVars, TypeOK
  <2> QED
    BY <2>1 DEF Types, TypeOK, VectorTypes, Within
<1>8. CASE UNCHANGED vars
  BY <1>8 DEF vars, Types, TypeOK, VectorTypes, Within, vectorVars, historyVars
<1> QED
  BY <1>1, <1>2, <1>3, <1>4, <1>5, <1>6, <1>7, <1>8 DEF Next, Run, Owner, Ended

-----------------------------------------------------------------------------
(* Counting the calls of a round.                                          *)

\* The places up to n that hold m.
Places(d, n, m) == {i \in 0 .. n : d[i] = m}

\* The highest place that Run has still to come to in this round, and how
\* often it will come to l.
Top == IF pcA = "event" THEN index - 1 ELSE index
Ahead(l) == Cardinality(Places(elementData, Top, l))

\* What was called and what is still ahead make up what was registered at the
\* start.  A listener that removes another one, or more than one element, brings
\* those behind it into the part that is still ahead, so that they are called
\* again, and those it removes are missing.
Round ==
  pcA \in {"fire", "event"} =>
    /\ \A l \in Listener \ removed : fired[l] + Ahead(l) >= atStart[l]
    /\ foreign \/ several \/ \A l \in Listener : fired[l] + Ahead(l) = atStart[l]

(* The places are finitely many.                                           *)
LEMMA PlacesFinite ==
  ASSUME NEW d, NEW n \in Int, NEW m
  PROVE  IsFiniteSet(Places(d, n, m)) /\ Cardinality(Places(d, n, m)) \in Nat
<1>1. IsFiniteSet(0 .. n)
  BY FS_Interval
<1> QED
  BY <1>1, FS_Subset, FS_CardinalityType DEF Places

(* Going down by one passes one place.                                     *)
LEMMA PlacesDown ==
  ASSUME NEW d, NEW n \in Nat, NEW m
  PROVE  Cardinality(Places(d, n-1, m))
           = Cardinality(Places(d, n, m)) - (IF d[n] = m THEN 1 ELSE 0)
<1>1. Places(d, n-1, m) = Places(d, n, m) \ {n}
  BY DEF Places
<1>2. n \in Places(d, n, m) <=> d[n] = m
  BY DEF Places
<1> QED
  BY <1>1, <1>2, PlacesFinite, FS_RemoveElement

\* e is d up to n without the element at j; it has one place less of that one.
CutOut(d, e, n, j) == \A i \in 0 .. n-1 : e[i] = IF i < j THEN d[i] ELSE d[i+1]
FewerPlaces(d, e, n, m, j) ==
  Cardinality(Places(e, n-1, m)) = Cardinality(Places(d, n, m)) - (IF d[j] = m THEN 1 ELSE 0)

(* When place j is taken out of d, the places below n that are left are as *)
(* many as those up to n without j.                                        *)
LEMMA PlacesShift ==
  \A d, e, m : \A n \in Nat : \A j \in 0 .. n :
    CutOut(d, e, n, j) => FewerPlaces(d, e, n, m, j)
<1> SUFFICES ASSUME NEW d, NEW e, NEW m, NEW n \in Nat, NEW j \in 0 .. n,
                    \A i \in 0 .. n-1 : e[i] = IF i < j THEN d[i] ELSE d[i+1]
             PROVE  Cardinality(Places(e, n-1, m))
                      = Cardinality(Places(d, n, m)) - (IF d[j] = m THEN 1 ELSE 0)
  BY Zenon DEF CutOut, FewerPlaces
<1> DEFINE S == Places(e, n-1, m)
           T == Places(d, n, m) \ {j}
           f == [i \in S |-> IF i < j THEN i ELSE i+1]
<1>1. \A i \in S : i \in Nat /\ i \in 0 .. n-1 /\ e[i] = m
  BY DEF Places
<1>2. \A i \in T : i \in Nat /\ i \in 0 .. n /\ i # j /\ d[i] = m
  BY DEF Places
<1>3. f \in [S -> T]
  <2> SUFFICES ASSUME NEW i \in S PROVE (IF i < j THEN i ELSE i+1) \in T
    OBVIOUS
  <2>1. i \in Nat /\ i \in 0 .. n-1 /\ e[i] = m
    BY <1>1
  <2> QED
    BY <2>1 DEF Places
<1>4. \A a, b \in S : f[a] = f[b] => a = b
  BY <1>1
<1>5. \A t \in T : \E i \in S : f[i] = t
  <2> SUFFICES ASSUME NEW t \in T PROVE \E i \in S : f[i] = t
    OBVIOUS
  <2>1. t \in Nat /\ t \in 0 .. n /\ t # j /\ d[t] = m
    BY <1>2
  <2>2. CASE t < j
    <3>1. t \in S
      BY <2>1, <2>2 DEF Places
    <3> QED
      BY <2>2, <3>1
  <2>3. CASE ~(t < j)
    <3>1. t-1 \in 0 .. n-1 /\ ~(t-1 < j) /\ (t-1)+1 = t
      BY <2>1, <2>3
    <3>2. t-1 \in S
      BY <2>1, <3>1 DEF Places
    <3> QED
      BY <3>1, <3>2
  <2> QED
    BY <2>2, <2>3
<1>6. f \in Bijection(S, T)
  BY <1>3, <1>4, <1>5, Fun_IsBij
<1>7. Cardinality(S) = Cardinality(T)
  <2>1. IsFiniteSet(S)
    BY PlacesFinite
  <2>2. ExistsBijection(S, T)
    BY <1>6 DEF ExistsBijection
  <2> HIDE DEF S, T
  <2> QED
    BY <2>1, <2>2, FS_Bijection
<1>8. j \in Places(d, n, m) <=> d[j] = m
  BY DEF Places
<1>9. Cardinality(T) = Cardinality(Places(d, n, m)) - (IF d[j] = m THEN 1 ELSE 0)
  <2>1. IsFiniteSet(Places(d, n, m)) /\ Cardinality(Places(d, n, m)) \in Nat
    BY PlacesFinite
  <2>2. Cardinality(T) = IF j \in Places(d, n, m) THEN Cardinality(Places(d, n, m)) - 1
                         ELSE Cardinality(Places(d, n, m))
    BY <2>1, FS_RemoveElement
  <2> QED
    BY <1>8, <2>1, <2>2
<1> QED
  BY <1>7, <1>9

(* The numbers that the account of a round adds up.                        *)
LEMMA Counts ==
  ASSUME Types
  PROVE  \A l \in Listener : Ahead(l) \in Nat /\ fired[l] \in Nat /\ atStart[l] \in Nat
<1>1. Top \in Int
  BY DEF Types, TypeOK, Top
<1> QED
  BY <1>1, PlacesFinite DEF Types, Ahead

(* The call itself: one place less ahead, one call more.                   *)
LEMMA FireRound ==
  ASSUME Types, Round, RunFire, ~crashed'
  PROVE  Round'
<1>1. /\ pcA = "fire" /\ pcA' = "event" /\ index \in Nat /\ elementData[index] \in Listener
      /\ fired' = [fired EXCEPT ![elementData[index]] = @ + 1]
      /\ UNCHANGED <<elementData, index, atStart, removed, foreign, several>>
  <2>1. /\ pcA = "fire" /\ pcA' = "event" /\ index >= 0 /\ elementData[index] # Null
        /\ fired' = [fired EXCEPT ![elementData[index]] = @ + 1]
        /\ UNCHANGED <<elementData, index, atStart, removed, foreign, several>>
    BY DEF RunFire, RunCrash, elementAt, vectorVars
  <2> QED
    BY <2>1 DEF Types, TypeOK, VectorTypes, Within
<1>2. \A l \in Listener : fired'[l] + Ahead(l)' = fired[l] + Ahead(l)
  <2> SUFFICES ASSUME NEW l \in Listener PROVE fired'[l] + Ahead(l)' = fired[l] + Ahead(l)
    OBVIOUS
  <2>1. Ahead(l) = Cardinality(Places(elementData, index, l))
    BY <1>1 DEF Ahead, Top
  <2>2. Ahead(l)' = Cardinality(Places(elementData, index-1, l))
    BY <1>1 DEF Ahead, Top
  <2>3. Ahead(l)' = Ahead(l) - (IF elementData[index] = l THEN 1 ELSE 0)
    <3>1. Cardinality(Places(elementData, index-1, l))
            = Cardinality(Places(elementData, index, l)) - (IF elementData[index] = l THEN 1 ELSE 0)
      BY <1>1, PlacesDown
    <3> QED
      BY <2>1, <2>2, <3>1
  <2>4. fired'[l] = fired[l] + (IF elementData[index] = l THEN 1 ELSE 0)
    BY <1>1 DEF Types
  <2> QED
    BY <2>3, <2>4, Counts
<1> QED
  BY <1>1, <1>2 DEF Round

(* The listener returns: what is ahead stays the same.                     *)
LEMMA ReturnRound ==
  ASSUME Types, Round, RunReturn
  PROVE  Round'
<1>1. /\ pcA = "event" /\ pcA' = "fire" /\ index' = index - 1
      /\ UNCHANGED <<elementData, atStart, fired, removed, foreign, several>>
  BY DEF RunReturn, vectorVars, historyVars
<1>2. \A l \in Listener : Ahead(l)' = Ahead(l)
  BY <1>1 DEF Ahead, Top
<1> QED
  BY <1>1, <1>2 DEF Round

(* An operation of a listener keeps the account when no listener that is   *)
(* still asked for has fewer places ahead, and when none has more where    *)
(* the account is exact.                                                   *)
LEMMA EventCounts ==
  ASSUME Types, Round, pcA = "event", UNCHANGED <<pcA, fired, atStart>>,
         removed \subseteq removed', foreign => foreign', several => several',
         \A l \in Listener : Ahead(l)' \in Nat,
         \A l \in Listener \ removed' : Ahead(l)' >= Ahead(l),
         foreign' \/ several' \/ \A l \in Listener : Ahead(l)' = Ahead(l)
  PROVE  Round'
<1>1. \A l \in Listener : Ahead(l) \in Nat /\ fired[l] \in Nat /\ atStart[l] \in Nat
  BY Counts
<1>2. \A l \in Listener \ removed : fired[l] + Ahead(l) >= atStart[l]
  BY DEF Round
<1>3. \A l \in Listener \ removed' : fired'[l] + Ahead(l)' >= atStart'[l]
  BY <1>1, <1>2
<1>4. foreign' \/ several' \/ \A l \in Listener : fired'[l] + Ahead(l)' = atStart'[l]
  BY DEF Round
<1> QED
  BY <1>3, <1>4 DEF Round

(* More places are counted as more.                                        *)
LEMMA MorePlaces ==
  ASSUME NEW d, NEW e, NEW n \in Int, NEW o \in Int, NEW m,
         Places(d, n, m) \subseteq Places(e, o, m)
  PROVE  Cardinality(Places(e, o, m)) >= Cardinality(Places(d, n, m))
BY PlacesFinite, FS_Subset

(* What adding changes: a place that was null, behind all that is ahead    *)
(* unless the loop was thrown beyond the end of the list.                  *)
LEMMA AddRound ==
  ASSUME Types, Round, pcA = "event", NEW k \in Listener, addElement(k),
         UNCHANGED <<pcA, index, fired, atStart, removed, foreign, several>>
  PROVE  Round'
<1>1. /\ VectorTypes /\ elementCount \in Nat /\ length \in Nat
      /\ index \in Nat /\ index < length /\ (several \/ index <= elementCount)
  BY DEF Types, TypeOK, VectorTypes, Within
<1>2. \A i \in 0 .. elementCount-1 : elementData'[i] = elementData[i]
  BY <1>1, AddElement
<1>3. \A l \in Listener : /\ Ahead(l)  = Cardinality(Places(elementData, index-1, l))
                          /\ Ahead(l)' = Cardinality(Places(elementData', index-1, l))
  BY DEF Ahead, Top
<1>4. \A l \in Listener : Ahead(l)' \in Nat
  BY <1>1, <1>3, PlacesFinite
<1>5. ASSUME NEW l \in Listener PROVE Ahead(l)' >= Ahead(l)
  <2>1. \A i \in 0 .. index-1 : elementData[i] = l => elementData'[i] = l
    BY <1>1, <1>2, VectorAssumption DEF VectorTypes
  <2>2. Places(elementData, index-1, l) \subseteq Places(elementData', index-1, l)
    BY <2>1 DEF Places
  <2> QED
    BY <1>1, <1>3, <2>2, MorePlaces
<1>6. ASSUME ~several, NEW l \in Listener PROVE Ahead(l)' = Ahead(l)
  <2>1. \A i \in 0 .. index-1 : elementData'[i] = elementData[i]
    BY <1>1, <1>2, <1>6
  <2>2. Places(elementData, index-1, l) = Places(elementData', index-1, l)
    BY <2>1 DEF Places
  <2> QED
    BY <1>3, <2>2
<1> QED
  BY <1>4, <1>5, <1>6, EventCounts

(* What removing changes: the element at j, which is the first of its      *)
(* kind, is cut out of what is ahead, and one from behind moves in.        *)
LEMMA RemoveRound ==
  ASSUME Types, Round, pcA = "event", NEW k \in Listener,
         NEW j \in 0 .. elementCount-1, elementData[j] = k,
         \A i \in 0 .. elementCount-1 : i < j => elementData[i] # k,
         removeElementAt(j),
         removed' = removed \cup {k}, foreign' = (foreign \/ k # listener),
         several' = (several \/ (cut /\ elementCount' < elementCount)),
         UNCHANGED <<pcA, index, fired, atStart>>
  PROVE  Round'
<1>1. /\ VectorTypes /\ elementCount \in Nat /\ length \in Nat /\ elementCount <= length
      /\ index \in Nat /\ index < length /\ j \in Nat
      /\ several \/ IF cut THEN index <= elementCount
                    ELSE index < elementCount /\ elementData[index] = listener
  BY DEF Types, TypeOK, VectorTypes, Within
<1>2. /\ VectorTypes' /\ length' = length /\ elementCount' = elementCount - 1
      /\ \A i \in 0 .. elementCount-2 :
           elementData'[i] = IF i < j THEN elementData[i] ELSE elementData[i+1]
  BY <1>1, RemoveElementAt DEF removeElementAt
<1>3. \A l \in Listener : /\ Ahead(l)  = Cardinality(Places(elementData, index-1, l))
                          /\ Ahead(l)' = Cardinality(Places(elementData', index-1, l))
  BY DEF Ahead, Top
<1>4. \A l \in Listener : Ahead(l)' \in Nat
  BY <1>1, <1>3, PlacesFinite
<1>5. \A i \in 0 .. length-2 :
        elementData'[i] = IF i < j THEN elementData[i] ELSE elementData[i+1]
  <2> SUFFICES ASSUME NEW i \in 0 .. length-2
               PROVE  elementData'[i] = IF i < j THEN elementData[i] ELSE elementData[i+1]
    OBVIOUS
  <2>1. CASE i <= elementCount-2
    BY <1>1, <1>2, <2>1
  <2>2. CASE ~(i <= elementCount-2)
    <3>1. elementData'[i] = Null /\ elementData[i+1] = Null /\ ~(i < j)
      BY <1>1, <1>2, <2>2 DEF VectorTypes
    <3> QED
      BY <3>1
  <2> QED
    BY <2>1, <2>2
<1>6. ASSUME NEW l \in Listener, l # k PROVE Ahead(l)' >= Ahead(l)
  <2>1. CASE j <= index-1
    <3>1. index-1 \in Nat /\ j \in 0 .. index-1
      BY <1>1, <2>1
    <3>2. CutOut(elementData, elementData', index-1, j)
      BY <1>1, <1>5, <3>1 DEF CutOut
    <3>3. FewerPlaces(elementData, elementData', index-1, l, j)
      BY <3>1, <3>2, PlacesShift, Zenon
    <3>4. Cardinality(Places(elementData', (index-1)-1, l))
            = Cardinality(Places(elementData, index-1, l)) - 0
      BY <1>6, <3>3 DEF FewerPlaces
    <3>5. Places(elementData', (index-1)-1, l) \subseteq Places(elementData', index-1, l)
      BY <3>1 DEF Places
    <3>6. Cardinality(Places(elementData', index-1, l))
            >= Cardinality(Places(elementData', (index-1)-1, l))
      BY <3>1, <3>5, MorePlaces
    <3>7. Cardinality(Places(elementData, index-1, l)) \in Nat
      BY <1>1, PlacesFinite
    <3> QED
      BY <1>3, <3>4, <3>6, <3>7
  <2>2. CASE ~(j <= index-1)
    <3>1. \A i \in 0 .. index-1 : elementData'[i] = elementData[i]
      BY <1>1, <1>5, <2>2
    <3>2. Places(elementData, index-1, l) \subseteq Places(elementData', index-1, l)
      BY <3>1 DEF Places
    <3> QED
      BY <1>1, <1>3, <3>2, MorePlaces
  <2> QED
    BY <2>1, <2>2
<1>7. ASSUME ~foreign', ~several', NEW l \in Listener PROVE Ahead(l)' = Ahead(l)
  <2>1. ~several /\ ~cut /\ k = listener
    <3>1. elementCount' < elementCount
      BY <1>1, <1>2
    <3> QED
      BY <1>7, <3>1, Zenon
  <2>2. index < elementCount /\ elementData[index] = k
    BY <1>1, <2>1
  <2>3. j \in 0 .. index
    BY <1>1, <2>2
  <2>4. CutOut(elementData, elementData', index, j)
    BY <1>1, <1>2, <2>2 DEF CutOut
  <2>5. FewerPlaces(elementData, elementData', index, l, j)
    BY <1>1, <2>3, <2>4, PlacesShift, Zenon
  <2>6. Cardinality(Places(elementData', index-1, l))
          = Cardinality(Places(elementData, index, l)) - (IF k = l THEN 1 ELSE 0)
    BY <2>5, Zenon DEF FewerPlaces
  <2>7. Cardinality(Places(elementData, index-1, l))
          = Cardinality(Places(elementData, index, l)) - (IF k = l THEN 1 ELSE 0)
    BY <1>1, <2>2, PlacesDown
  <2> QED
    BY <1>3, <2>6, <2>7
<1>8. \A l \in Listener \ removed' : Ahead(l)' >= Ahead(l)
  BY <1>6
<1>9. removed \subseteq removed' /\ (foreign => foreign') /\ (several => several')
  OBVIOUS
<1> QED
  BY <1>4, <1>7, <1>8, <1>9, EventCounts

(* Whatever a listener does to the list, the account is kept.              *)
LEMMA EventRound ==
  ASSUME Types, Round, RunEvent, ~crashed'
  PROVE  Round'
<1>1. /\ pcA = "event" /\ EventFired
      /\ UNCHANGED <<pcA, index, listener, atStart, fired>>
  BY DEF RunEvent, RunCrash
<1>2. CASE UNCHANGED vectorVars /\ removed \subseteq removed' /\ (foreign => foreign')
           /\ (several => several')
  <2>1. \A l \in Listener : Ahead(l)' = Ahead(l)
    BY <1>1, <1>2 DEF Ahead, Top, vectorVars
  <2>2. \A l \in Listener : Ahead(l) \in Nat
    BY Counts
  <2>3. \A l \in Listener : Ahead(l)' \in Nat /\ Ahead(l)' >= Ahead(l)
    BY <2>1, <2>2
  <2> QED
    BY <1>1, <1>2, <2>1, <2>3, EventCounts
<1>3. ASSUME NEW k \in Listener, addElement(k), UNCHANGED <<removed, foreign, several>>
      PROVE  Round'
  BY <1>1, <1>3, AddRound
<1>4. ASSUME NEW k \in Listener, removeElement(k), removed' = removed \cup {k},
             foreign' = (foreign \/ k # listener),
             several' = (several \/ (cut /\ elementCount' < elementCount))
      PROVE  Round'
  <2>1. ASSUME NEW j \in 0 .. elementCount-1, elementData[j] = k,
               \A i \in 0 .. elementCount-1 : i < j => elementData[i] # k,
               removeElementAt(j)
        PROVE  Round'
    BY <1>1, <1>4, <2>1, RemoveRound
  <2>2. VectorTypes
    BY DEF Types, TypeOK
  <2> QED
    BY <1>2, <1>4, <2>1, <2>2, RemoveElement
<1> QED
  BY <1>1, <1>2, <1>3, <1>4 DEF EventFired

(* At the start of a round everything that is registered is ahead.         *)
LEMMA StartRound ==
  ASSUME Types, RunRunner, ~crashed'
  PROVE  Round'
<1>1. /\ pcA' = "fire" /\ index' = elementCount - 1 /\ elementData' = elementData
      /\ atStart' = Registered /\ fired' = Never
  BY DEF RunRunner, RunCrash, LastIndex, vectorVars
<1>2. elementCount \in Nat
  BY DEF Types, TypeOK, VectorTypes
<1>3. \A l \in Listener : /\ fired'[l] = 0 /\ Ahead(l)' \in Nat
                          /\ atStart'[l] = Ahead(l)'
  <2> SUFFICES ASSUME NEW l \in Listener
               PROVE  fired'[l] = 0 /\ Ahead(l)' \in Nat /\ atStart'[l] = Ahead(l)'
    OBVIOUS
  <2>1. Ahead(l)' = Cardinality(Places(elementData, elementCount-1, l))
    BY <1>1 DEF Ahead, Top
  <2>2. Registered[l] = Cardinality(Places(elementData, elementCount-1, l))
    BY DEF Registered, Places
  <2>3. Cardinality(Places(elementData, elementCount-1, l)) \in Nat
    BY <1>2, PlacesFinite
  <2> QED
    BY <1>1, <2>1, <2>2, <2>3 DEF Never
<1>4. \A l \in Listener : fired'[l] + Ahead(l)' = atStart'[l] /\ atStart'[l] \in Nat
  BY <1>3
<1> QED
  BY <1>4 DEF Round

(* Every step keeps the account of the present round.                      *)
LEMMA RoundStep == ASSUME Types, Round, [Next]_vars PROVE Round'
<1>1. CASE pcA' \notin {"fire", "event"}
  BY <1>1 DEF Round
<1>2. CASE UNCHANGED <<elementData, pcA, index, atStart, fired, removed, foreign, several>>
  <2>1. \A l \in Listener : Ahead(l)' = Ahead(l)
    BY <1>2 DEF Ahead, Top
  <2> QED
    BY <1>2, <2>1 DEF Round
<1>3. ASSUME NEW possible, RunCrash(possible) PROVE Round'
  BY <1>2, <1>3 DEF RunCrash, vectorVars, historyVars
<1>4. CASE RunFire
  <2>1. RunCrash(Member /\ elementAt(index) # Null) \/ crashed' = crashed
    BY <1>4 DEF RunFire
  <2>2. CASE RunCrash(Member /\ elementAt(index) # Null)
    BY <1>3, <2>2
  <2>3. CASE crashed' = crashed
    <3>1. ~crashed'
      BY <1>4, <2>3 DEF RunFire, Alive
    <3> QED
      BY <1>4, <3>1, FireRound
  <2> QED
    BY <2>1, <2>2, <2>3
<1>5. CASE RunEvent
  BY <1>3, <1>5, EventRound DEF RunEvent, Alive
<1>6. CASE RunReturn
  BY <1>6, ReturnRound
<1>7. CASE RunRunner
  <2>1. RunCrash(Virtual) \/ crashed' = crashed
    BY <1>7 DEF RunRunner
  <2>2. CASE RunCrash(Virtual)
    BY <1>3, <2>2
  <2>3. CASE crashed' = crashed
    <3>1. ~crashed'
      BY <1>7, <2>3 DEF RunRunner, Alive
    <3> QED
      BY <1>7, <3>1, StartRound
  <2> QED
    BY <2>1, <2>2, <2>3
<1>8. CASE RunInit \/ RunTest \/ RunWaitFor \/ RunPost \/ RunDelay \/ RunUninit \/ RunDone
  BY <1>1, <1>3, <1>8
  DEF RunInit, RunTest, RunWaitFor, RunPost, RunDelay, RunUninit, RunDone
<1>9. CASE Owner
  BY <1>1, <1>2, <1>9
  DEF Owner, addListener, removeListener, CallRun, Terminate, Destructor, DestructorWaits,
      vectorVars, historyVars
<1>10. CASE UNCHANGED vars
  BY <1>2, <1>10 DEF vars, vectorVars, historyVars
<1> QED
  BY <1>4, <1>5, <1>6, <1>7, <1>8, <1>9, <1>10 DEF Next, Run, Ended

-----------------------------------------------------------------------------
(* The vector implements the list.                                         *)

(* removeElementAt of the first occurrence is a removal from the list.     *)
LEMMA RemoveRefines ==
  ASSUME VectorTypes, NEW l \in Listener, NEW j \in 0 .. elementCount-1, elementData[j] = l,
         \A i \in 0 .. elementCount-1 : i < j => elementData[i] # l,
         removeElementAt(j)
  PROVE  Listeners!Remove(l)
<1>1. elementCount \in Nat /\ j \in Nat /\ j < elementCount /\ Len(Contents) = elementCount
  BY ContentsIsList DEF VectorTypes, IsList
<1>2. \A k \in 1 .. elementCount : Contents[k] = elementData[k-1]
  BY ContentsIsList DEF IsList
<1>3. j+1 \in 1 .. Len(Contents) /\ (j+1)-1 = j /\ (j+1)+1 = j+2
  BY <1>1
<1>4. Contents[j+1] = l
  BY <1>1, <1>2, <1>3
<1>5. \A i \in 1 .. j : Contents[i] # l
  BY <1>1, <1>2
<1>6. Contents' = SubSeq(Contents, 1, j) \o SubSeq(Contents, j+2, Len(Contents))
  BY RemoveCuts
<1> QED
  BY <1>3, <1>4, <1>5, <1>6 DEF Listeners!Remove

(* Every step of the array is a step of the list or a stutter.             *)
LEMMA ListStep ==
  ASSUME VectorTypes,
         \/ UNCHANGED vectorVars
         \/ \E k \in Listener : addElement(k)
         \/ \E k \in Listener : removeElement(k)
  PROVE  [Listeners!Next]_Contents
<1>1. CASE UNCHANGED vectorVars
  BY <1>1 DEF vectorVars, Contents
<1>2. ASSUME NEW k \in Listener, addElement(k) PROVE Listeners!Next
  <2>1. Listeners!Add(k)
    BY <1>2, AddAppends DEF Listeners!Add
  <2> QED
    BY <2>1 DEF Listeners!Next
<1>3. ASSUME NEW k \in Listener, removeElement(k) PROVE [Listeners!Next]_Contents
  <2>1. ASSUME NEW j \in 0 .. elementCount-1, elementData[j] = k,
               \A i \in 0 .. elementCount-1 : i < j => elementData[i] # k,
               removeElementAt(j)
        PROVE  Listeners!Next
    <3>1. Listeners!Remove(k)
      BY <2>1, RemoveRefines
    <3> QED
      BY <3>1 DEF Listeners!Next
  <2> QED
    BY <1>1, <1>3, <2>1, RemoveElement
<1> QED
  BY <1>1, <1>2, <1>3

(* Every step of Run and of the owner is a step of the list or none.       *)
LEMMA RefinesStep == ASSUME Types, [Next]_vars PROVE [Listeners!Next]_Contents
<1> SUFFICES \/ UNCHANGED vectorVars
             \/ \E k \in Listener : addElement(k)
             \/ \E k \in Listener : removeElement(k)
  BY ListStep DEF Types, TypeOK
<1>1. CASE RunEvent
  BY <1>1, EventList DEF RunEvent, RunCrash
<1>2. CASE Run
  BY <1>2
  DEF Run, RunInit, RunTest, RunWaitFor, RunRunner, RunFire, RunReturn, RunPost, RunDelay, RunUninit, RunDone, RunCrash
<1>3. CASE Owner
  BY <1>3 DEF Owner, addListener, removeListener, CallRun, Terminate, Destructor, DestructorWaits
<1>4. CASE UNCHANGED vars
  BY <1>4 DEF vars
<1> QED
  BY <1>1, <1>2, <1>3, <1>4 DEF Next, Ended

(* The array starts as the empty list.                                     *)
LEMMA RefinesInit == Init => Listeners!Init
<1> SUFFICES ASSUME Init PROVE Contents = << >>
  BY DEF Listeners!Init
<1>1. VectorTypes /\ elementCount = 0
  BY InitTypes DEF Init, VectorInit
<1> QED
  BY <1>1, ContentsIsList, EmptySeq DEF IsList

-----------------------------------------------------------------------------
(* The theorems.                                                           *)

IInv == Types /\ Round

(* The invariant holds in every reachable state.                           *)
LEMMA Inductive == Spec => []IInv
<1>1. Init => IInv
  BY TypeInit DEF Init, IInv, Round
<1>2. IInv /\ [Next]_vars => IInv'
  BY TypeStep, RoundStep DEF IInv
<1> QED
  BY <1>1, <1>2, PTL DEF Spec

(* Types of the application, and of the vector: as many elements as        *)
(* elementCount says, whatever the capacity and the increment.             *)
THEOREM TypeCorrect == Spec => []TypeOK
<1>1. IInv => TypeOK
  BY DEF IInv, Types
<1> QED
  BY <1>1, Inductive, PTL

(* The backward loop of Run calls everyone who was there at the start and  *)
(* was not removed, whatever the listeners do to the list, and stays       *)
(* within the list unless one of them removes more than one element in a   *)
(* single call.                                                            *)
THEOREM EveryListenerCalled == Spec => []RoundComplete
<1>1. IInv => RoundComplete
  <2> SUFFICES ASSUME IInv, pcA = "fire"
               PROVE  /\ index < elementCount \/ several
                      /\ index = -1 =>
                           /\ \A l \in Listener \ removed : fired[l] >= atStart[l]
                           /\ foreign \/ several \/ fired = atStart
    BY DEF RoundComplete
  <2>1. (index < elementCount \/ several) /\ fired \in [Listener -> Nat] /\ atStart \in [Listener -> Nat]
    BY DEF IInv, Types, Within
  <2>2. ASSUME index = -1
        PROVE  \A l \in Listener : fired[l] + Ahead(l) = fired[l]
    <3> SUFFICES ASSUME NEW l \in Listener PROVE fired[l] + Ahead(l) = fired[l]
      OBVIOUS
    <3>1. Places(elementData, Top, l) = {}
      BY <2>2 DEF Places, Top
    <3>2. Ahead(l) = 0
      BY <3>1, FS_EmptySet DEF Ahead
    <3>3. fired[l] \in Nat
      BY <2>1
    <3> QED
      BY <3>2, <3>3
  <2>3. ASSUME index = -1, ~foreign, ~several PROVE fired = atStart
    <3>1. \A l \in Listener : fired[l] = atStart[l]
      BY <2>2, <2>3 DEF IInv, Round
    <3> QED
      BY <2>1, <3>1
  <2> QED
    BY <2>1, <2>2, <2>3 DEF IInv, Round
<1> QED
  BY <1>1, Inductive, PTL

(* The array with its growth and its shifts implements the list of         *)
(* listeners that addListener and removeListener promise.                  *)
THEOREM VectorImplementsList == Spec => RefinesList
<1>1. Init => Listeners!Init
  BY RefinesInit
<1>2. IInv /\ [Next]_vars => [Listeners!Next]_Contents
  BY RefinesStep DEF IInv
<1> QED
  BY <1>1, <1>2, Inductive, PTL DEF Spec, RefinesList, Listeners!Spec
=============================================================================
