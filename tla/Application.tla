---------------------------- MODULE Application ----------------------------
(***************************************************************************)
(* TApplication (src/src/application.cpp): the loop of Run with its        *)
(* listeners, on a thread of its own, beside the owner, who registers      *)
(* listeners, calls Run, Terminate and the destructor.                     *)
(*                                                                         *)
(* The owner leaves the listeners alone once Run was called; a listener    *)
(* that is called may change the list by any number of operations before   *)
(* it returns.  waitFor, preRun, runner, postRun, Init, Uninit and         *)
(* do_delay are pure virtual: while ~TApplication runs, such a call ends   *)
(* the process, and so does any access to the object afterwards.           *)
(***************************************************************************)
EXTENDS TVector, FiniteSets

CONSTANT MaxListeners     \* bound: registrations at one time

ASSUME ApplicationAssumption == MaxListeners \in Nat

VARIABLES
  Terminated, Done,
  pcA,          \* where Run is; "none" before it is called
  index,        \* i of the listener loop
  listener,     \* the listener that was called last
  pcO,          \* owner: "using", "waits" (in the destructor) or "gone"
  crashed,      \* the process has ended with a signal
  atStart,      \* history: the listeners at the start of the round
  fired,        \* history: how often each was called in this round
  removed,      \* history: listeners that were removed in this round
  foreign,      \* history: one of them by another listener
  cut,          \* history: this call of a listener has made the list shorter
  several       \* history: one call in this round did so more than once

historyVars == <<atStart, fired, removed, foreign, cut, several>>
vars == <<vectorVars, Terminated, Done, pcA, index, listener, pcO, crashed, historyVars>>

Never == [l \in Listener |-> 0]

\* TApplication::TApplication
Init ==
  /\ VectorInit
  /\ Terminated = FALSE /\ Done = FALSE
  /\ pcA = "none" /\ index = -1 /\ listener = Null /\ pcO = "using" /\ crashed = FALSE
  /\ atStart = Never /\ fired = Never /\ removed = {} /\ foreign = FALSE
  /\ cut = FALSE /\ several = FALSE

\* How often each listener is registered.
Registered == [l \in Listener |-> Cardinality({i \in 0 .. elementCount-1 : elementData[i] = l})]

-----------------------------------------------------------------------------
(* TApplication::Run.                                                      *)

Alive == ~crashed

\* A member is used, or one of the pure virtual functions is called.
Member  == pcO # "gone"
Virtual == pcO = "using"

RunCrash(possible) ==
  /\ ~possible /\ crashed' = TRUE
  /\ UNCHANGED <<vectorVars, Terminated, Done, pcA, index, listener, pcO, historyVars>>

RunInit ==
  /\ Alive /\ pcA = "init"
  /\ \/ RunCrash(Virtual)
     \/ /\ Virtual /\ pcA' \in {"while", "failed"}
        /\ UNCHANGED <<vectorVars, Terminated, Done, index, listener, pcO, crashed, historyVars>>

RunTest ==
  /\ Alive /\ pcA = "while"
  /\ \/ RunCrash(Member)
     \/ /\ Member /\ pcA' = IF Terminated THEN "uninit" ELSE "waitFor"
        /\ UNCHANGED <<vectorVars, Terminated, Done, index, listener, pcO, crashed, historyVars>>

RunWaitFor ==
  /\ Alive /\ pcA = "waitFor"
  /\ \/ RunCrash(Virtual)
     \/ /\ Virtual /\ pcA' \in {"runner", "delay"}
        /\ UNCHANGED <<vectorVars, Terminated, Done, index, listener, pcO, crashed, historyVars>>

\* Mutant: the listener registered last is left out.
LastIndex_Less == elementCount - 2
LastIndex == elementCount - 1

\* preRun and runner, and the start of the loop over the listeners.
RunRunner ==
  /\ Alive /\ pcA = "runner"
  /\ \/ RunCrash(Virtual)
     \/ /\ Virtual /\ pcA' = "fire" /\ index' = LastIndex
        /\ atStart' = Registered /\ fired' = Never /\ removed' = {} /\ foreign' = FALSE
        /\ several' = FALSE
        /\ UNCHANGED <<vectorVars, Terminated, Done, listener, pcO, crashed, cut>>

\* elementAt and the call of eventFired.
RunFire ==
  /\ Alive /\ pcA = "fire" /\ index >= 0
  /\ \/ RunCrash(Member /\ elementAt(index) # Null)
     \/ /\ Member /\ elementAt(index) # Null
        /\ listener' = elementAt(index)
        /\ fired' = [fired EXCEPT ![listener'] = @ + 1]
        /\ cut' = FALSE
        /\ pcA' = "event"
        /\ UNCHANGED <<vectorVars, Terminated, Done, index, pcO, crashed, atStart, removed, foreign,
                       several>>

\* An operation of the application that the listener calls.
EventFired ==
  \/ Terminated' = TRUE /\ UNCHANGED <<vectorVars, removed, foreign, cut, several>>
  \/ \E k \in Listener :
       /\ elementCount < MaxListeners
       /\ addElement(k)
       /\ UNCHANGED <<Terminated, removed, foreign, cut, several>>
  \/ \E k \in Listener :
       /\ removeElement(k)
       /\ removed' = removed \cup {k} /\ foreign' = (foreign \/ k # listener)
       /\ cut' = (cut \/ elementCount' < elementCount)
       /\ several' = (several \/ (cut /\ elementCount' < elementCount))
       /\ UNCHANGED Terminated

RunEvent ==
  /\ Alive /\ pcA = "event"
  /\ \/ RunCrash(Member)
     \/ /\ Member /\ EventFired
        /\ UNCHANGED <<Done, pcA, index, listener, pcO, crashed, atStart, fired>>

\* eventFired returns; i--.
RunReturn ==
  /\ Alive /\ pcA = "event"
  /\ pcA' = "fire" /\ index' = index - 1
  /\ UNCHANGED <<vectorVars, Terminated, Done, listener, pcO, crashed, historyVars>>

RunPost ==
  /\ Alive /\ pcA = "fire" /\ index < 0
  /\ \/ RunCrash(Virtual)
     \/ /\ Virtual /\ pcA' = "delay"
        /\ UNCHANGED <<vectorVars, Terminated, Done, index, listener, pcO, crashed, historyVars>>

RunDelay ==
  /\ Alive /\ pcA = "delay"
  /\ \/ RunCrash(Virtual)
     \/ /\ Virtual /\ pcA' = "while"
        /\ UNCHANGED <<vectorVars, Terminated, Done, index, listener, pcO, crashed, historyVars>>

RunUninit ==
  /\ Alive /\ pcA = "uninit"
  /\ \/ RunCrash(Virtual)
     \/ /\ Virtual /\ pcA' = "done"
        /\ UNCHANGED <<vectorVars, Terminated, Done, index, listener, pcO, crashed, historyVars>>

RunDone ==
  /\ Alive /\ pcA = "done"
  /\ \/ RunCrash(Member)
     \/ /\ Member /\ Done' = TRUE /\ pcA' = "ended"
        /\ UNCHANGED <<vectorVars, Terminated, index, listener, pcO, crashed, historyVars>>

\* What the loop does by itself.
Run == \/ RunInit \/ RunTest \/ RunWaitFor \/ RunRunner \/ RunFire \/ RunReturn \/ RunPost
       \/ RunDelay \/ RunUninit \/ RunDone

-----------------------------------------------------------------------------
(* The owner.                                                              *)

OwnerUses == Alive /\ pcO = "using"

addListener(l) ==
  /\ OwnerUses /\ pcA = "none" /\ elementCount < MaxListeners
  /\ addElement(l)
  /\ UNCHANGED <<Terminated, Done, pcA, index, listener, pcO, crashed, historyVars>>

removeListener(l) ==
  /\ OwnerUses /\ pcA = "none"
  /\ removeElement(l)
  /\ UNCHANGED <<Terminated, Done, pcA, index, listener, pcO, crashed, historyVars>>

\* Run is called, on its own thread.
CallRun ==
  /\ OwnerUses /\ pcA = "none"
  /\ pcA' = "init"
  /\ UNCHANGED <<vectorVars, Terminated, Done, index, listener, pcO, crashed, historyVars>>

Terminate ==
  /\ OwnerUses
  /\ Terminated' = TRUE
  /\ UNCHANGED <<vectorVars, Done, pcA, index, listener, pcO, crashed, historyVars>>

\* ~TApplication: if (!Terminated), Terminate(), and while (!Done).
Destructor ==
  /\ OwnerUses
  /\ pcO' = (IF Terminated THEN "gone" ELSE "terminates")
  /\ UNCHANGED <<vectorVars, Terminated, Done, pcA, index, listener, crashed, historyVars>>

DestructorWaits ==
  /\ Alive
  /\ \/ pcO = "terminates" /\ pcO' = "waits" /\ Terminated' = TRUE
     \/ pcO = "waits" /\ Done /\ pcO' = "gone" /\ UNCHANGED Terminated
  /\ UNCHANGED <<vectorVars, Done, pcA, index, listener, crashed, historyVars>>

Owner == \/ \E l \in Listener : addListener(l) \/ removeListener(l)
         \/ CallRun \/ Terminate \/ Destructor \/ DestructorWaits

\* Nothing is left to do, or the destructor repeats its test.
Ended == (crashed \/ pcO = "gone" \/ pcO = "waits") /\ UNCHANGED vars

Next == Run \/ RunEvent \/ Owner \/ Ended

\* Run has a thread of its own, and the functions of the subclass and the
\* listeners return.  The owner need not do anything.
Spec == Init /\ [][Next]_vars /\ WF_vars(Run)

-----------------------------------------------------------------------------
(* Properties.                                                             *)

(* Types, and the array: as many elements as elementCount says, none       *)
(* beyond it, and never more than there is room for.                       *)
TypeOK ==
  /\ VectorTypes
  /\ {Terminated, Done, crashed, foreign, cut, several} \subseteq BOOLEAN
  /\ pcA \in {"none", "init", "failed", "while", "waitFor", "runner", "fire", "event", "delay",
              "uninit", "done", "ended"}
  /\ index \in -1 .. MaxListeners-1
  /\ listener \in Listener \cup {Null}
  /\ pcO \in {"using", "terminates", "waits", "gone"}

(* The array with its growth and its shifts is the list of listeners that  *)
(* addListener and removeListener promise, also when a listener changes it *)
(* while Run goes through it.                                              *)
Listeners == INSTANCE ListenerList WITH list <- Contents
RefinesList == Listeners!Spec

(* The backward loop of Run copes with changes.  It stays within the list  *)
(* unless one call of a listener removes more than one element: then it    *)
(* may find no listener at its index.  When it comes to its end, every     *)
(* listener registered at the start and not removed since was called; and  *)
(* when each call removed at most one element, and listeners none but      *)
(* themselves, each was called exactly as often as it was registered.      *)
RoundComplete ==
  pcA = "fire" =>
    /\ index < elementCount \/ several
    /\ index = -1 =>
         /\ \A l \in Listener \ removed : fired[l] >= atStart[l]
         /\ foreign \/ several \/ fired = atStart

=============================================================================
