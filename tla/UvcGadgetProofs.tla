--------------------------- MODULE UvcGadgetProofs ---------------------------
(***************************************************************************)
(* The whole gadget for every host: the invariants of the two parts carry  *)
(* over to the loop that runs them together, and the stream follows what   *)
(* the host asked for.                                                     *)
(***************************************************************************)
EXTENDS UvcGadget, TLAPS, SequenceTheorems

CP == INSTANCE UvcControlProofs WITH overrun <- FALSE
SP == INSTANCE UvcStreamProofs

-----------------------------------------------------------------------------
(* The inductive invariant.                                                *)

Counts == commits \in 0 .. MaxCommits /\ wish \in {"on", "off"}

\* A stream runs with the image size of COMMIT, also when a later COMMIT fails.
Sized == is_streaming => imgsize = CommitSize

\* Events that start or stop the stream.
Decisive(e) == e.type = "STREAMOFF" \/ (e.type = "DATA" /\ IsCommit(e.r))

\* The last of them that waits is what the host asked for last; when none
\* waits, the stream is as the host wants it.
Follows ==
  /\ \A j \in 1 .. Len(events) :
       Decisive(events[j]) /\ (\A k \in j+1 .. Len(events) : ~Decisive(events[k]))
         => (wish = "on" <=> events[j].type = "DATA")
  /\ (\A k \in 1 .. Len(events) : ~Decisive(events[k])) => (wish = "on" <=> is_streaming)

\* Without failures the kernel does what dev->is_streaming says, and a stream
\* has buffers.
Reliable == (is_streaming <=> kstreaming) /\ (is_streaming => dummy_buf # 0)

Parts == CP!IInv /\ SP!IInv /\ Counts /\ Sized
IInv  == Parts /\ (Fallible = {} => Follows /\ Reliable)

-----------------------------------------------------------------------------
(* The actions of the parts are those that their proofs are about.         *)

(* They start in the same states.                                          *)
LEMMA SameInit == (C!Init <=> CP!Init) /\ (S!Init <=> SP!Init)
BY DEF C!Init, CP!Init, C!FillStreamingControl, CP!FillStreamingControl, C!FrameSize, CP!FrameSize,
       C!NoTransfer, CP!NoTransfer, S!Init, SP!Init, S!FirstAlloc, SP!FirstAlloc, S!NoAlloc,
       SP!NoAlloc, S!BufIndex, SP!BufIndex

(* The host.                                                               *)
LEMMA SameHost ==
  ASSUME NEW r PROVE (C!HostSetup(r) <=> CP!HostSetup(r)) /\ (C!HostData <=> CP!HostData)
<1>1. C!HostSetup(r) <=> CP!HostSetup(r)
  BY DEF C!HostSetup, CP!HostSetup
<1>2. C!HostData <=> CP!HostData
  BY DEF C!HostData, CP!HostData, C!Negotiates, CP!Negotiates, C!UVC_VS_PROBE_CONTROL,
         CP!UVC_VS_PROBE_CONTROL, C!UVC_VS_COMMIT_CONTROL, CP!UVC_VS_COMMIT_CONTROL, C!Received,
         CP!Received, C!Pow256, CP!Pow256, C!Fits, CP!Fits, C!NoTransfer, CP!NoTransfer
<1> QED
  BY <1>1, <1>2

(* The handling of SETUP events.                                           *)
LEMMA SameSetup ==
  /\ C!SetupOther <=> CP!SetupOther
  /\ C!SetupControl <=> CP!SetupControl
  /\ C!SetupStreaming <=> CP!SetupStreaming
<1>1. \A r : C!ControlAfter(r) = CP!ControlAfter(r)
  BY DEF C!ControlAfter, CP!ControlAfter, C!Negotiates, CP!Negotiates, C!UVC_VS_PROBE_CONTROL,
         CP!UVC_VS_PROBE_CONTROL, C!UVC_VS_COMMIT_CONTROL, CP!UVC_VS_COMMIT_CONTROL
<1>2. \A resp : C!SendResponse(resp) <=> CP!SendResponse(resp)
  BY DEF C!SendResponse, CP!SendResponse, C!NoTransfer, CP!NoTransfer
<1>3. C!Event = CP!Event /\ \A type : C!Dequeue(type) <=> CP!Dequeue(type)
  BY DEF C!Event, CP!Event, C!Dequeue, CP!Dequeue
<1>4. \A r : C!StreamingAnswer(r) = CP!StreamingAnswer(r)
  BY DEF C!StreamingAnswer, CP!StreamingAnswer, C!STALL, CP!STALL, C!Reply, CP!Reply,
         C!FillStreamingControl, CP!FillStreamingControl, C!FrameSize, CP!FrameSize,
         C!UVC_VS_PROBE_CONTROL, CP!UVC_VS_PROBE_CONTROL, C!UVC_VS_COMMIT_CONTROL,
         CP!UVC_VS_COMMIT_CONTROL
<1>5. \A r : C!ControlAnswer(r) = CP!ControlAnswer(r) /\ C!ErrorCodeAfter(r) = CP!ErrorCodeAfter(r)
  BY DEF C!ControlAnswer, CP!ControlAnswer, C!ErrorCodeAfter, CP!ErrorCodeAfter,
         C!STALL, CP!STALL, C!Reply, CP!Reply,
         C!AeMode, CP!AeMode, C!ProcessingUnit, CP!ProcessingUnit, C!IsErrorCode, CP!IsErrorCode,
         C!IsAeMode, CP!IsAeMode, C!IsPu, CP!IsPu, C!UVC_VC_REQUEST_ERROR_CODE_CONTROL,
         CP!UVC_VC_REQUEST_ERROR_CODE_CONTROL, C!UVC_CT_AE_MODE_CONTROL, CP!UVC_CT_AE_MODE_CONTROL,
         C!UVC_PU_BRIGHTNESS_CONTROL, CP!UVC_PU_BRIGHTNESS_CONTROL, C!UVC_PU_CONTRAST_CONTROL,
         CP!UVC_PU_CONTRAST_CONTROL, C!PU_BRIGHTNESS_MIN_VAL, CP!PU_BRIGHTNESS_MIN_VAL,
         C!PU_BRIGHTNESS_MAX_VAL, CP!PU_BRIGHTNESS_MAX_VAL, C!PU_BRIGHTNESS_DEFAULT_VAL,
         CP!PU_BRIGHTNESS_DEFAULT_VAL, C!PU_BRIGHTNESS_STEP_SIZE, CP!PU_BRIGHTNESS_STEP_SIZE
<1>6. C!STALL = CP!STALL
  BY DEF C!STALL, CP!STALL
<1>7. C!SetupOther <=> CP!SetupOther
  BY <1>1, <1>2, <1>3, <1>6 DEF C!SetupOther, CP!SetupOther
<1>8. C!SetupControl <=> CP!SetupControl
  BY <1>1, <1>2, <1>3, <1>5 DEF C!SetupControl, CP!SetupControl
<1>9. C!SetupStreaming <=> CP!SetupStreaming
  BY <1>1, <1>2, <1>3, <1>4 DEF C!SetupStreaming, CP!SetupStreaming
<1> QED
  BY <1>7, <1>8, <1>9

(* The handling of DATA events.                                            *)
LEMMA SameData ==
  /\ C!DataProbe <=> CP!DataProbe
  /\ C!DataCommit <=> CP!DataCommit
  /\ C!DataTooLarge <=> CP!DataTooLarge
  /\ C!DataControl <=> CP!DataControl
<1>1. \A p : C!Negotiate(p) = CP!Negotiate(p)
  BY DEF C!Negotiate, CP!Negotiate, C!Clamp, CP!Clamp, C!PickInterval, CP!PickInterval, C!Stops,
         CP!Stops, C!FrameSize, CP!FrameSize
<1>2. C!SendResponse(C!STALL) <=> CP!SendResponse(CP!STALL)
  BY DEF C!SendResponse, CP!SendResponse, C!NoTransfer, CP!NoTransfer, C!STALL, CP!STALL
<1>3. C!Event = CP!Event /\ \A type : C!Dequeue(type) <=> CP!Dequeue(type)
  BY DEF C!Event, CP!Event, C!Dequeue, CP!Dequeue
<1>4. \A v : C!Supported(v) <=> CP!Supported(v)
  BY DEF C!Supported, CP!Supported, C!PU_BRIGHTNESS_MAX_VAL, CP!PU_BRIGHTNESS_MAX_VAL
<1>5. C!DataProbe <=> CP!DataProbe
  BY <1>1, <1>3 DEF C!DataProbe, CP!DataProbe, C!UVC_VS_PROBE_CONTROL, CP!UVC_VS_PROBE_CONTROL
<1>6. C!DataCommit <=> CP!DataCommit
  BY <1>1, <1>3 DEF C!DataCommit, CP!DataCommit, C!UVC_VS_COMMIT_CONTROL, CP!UVC_VS_COMMIT_CONTROL
<1>7. C!DataTooLarge <=> CP!DataTooLarge
  BY <1>2, <1>3, <1>4 DEF C!DataTooLarge, CP!DataTooLarge
<1>8. C!DataControl <=> CP!DataControl
  BY DEF C!DataControl, CP!DataControl, C!Dequeue, CP!Dequeue, C!Event, CP!Event, C!Supported,
         CP!Supported, C!PU_BRIGHTNESS_MAX_VAL, CP!PU_BRIGHTNESS_MAX_VAL, C!Overwrite, CP!Overwrite,
         C!Pow256, CP!Pow256, C!UVC_PU_BRIGHTNESS_CONTROL, CP!UVC_PU_BRIGHTNESS_CONTROL,
         C!UVC_PU_CONTRAST_CONTROL, CP!UVC_PU_CONTRAST_CONTROL
<1> QED
  BY <1>5, <1>6, <1>7, <1>8

(* The stream.                                                             *)
LEMMA SameStream ==
  /\ S!Select <=> SP!Select
  /\ S!EventOther <=> SP!EventOther
  /\ S!EventCommit <=> SP!EventCommit
  /\ S!EventStreamoff <=> SP!EventStreamoff
  /\ S!VideoIdle <=> SP!VideoIdle
  /\ S!VideoRefill <=> SP!VideoRefill
  /\ S!HostTakes <=> SP!HostTakes
<1> USE DEF S!memVars, SP!memVars, S!kernelVars, SP!kernelVars, S!AfterEvent, SP!AfterEvent,
            S!Queue, SP!Queue, S!Fresh, SP!Fresh, S!BufIndex, SP!BufIndex
<1>1. S!Select <=> SP!Select
  BY DEF S!Select, SP!Select, S!Ready, SP!Ready
<1>2. S!EventOther <=> SP!EventOther
  BY DEF S!EventOther, SP!EventOther
<1>3. S!EventCommit <=> SP!EventCommit
  BY DEF S!EventCommit, SP!EventCommit, S!CommitStream, SP!CommitStream, S!CommitStarts,
         SP!CommitStarts, S!CommitReqbufsFails, SP!CommitReqbufsFails, S!CommitCallocFails,
         SP!CommitCallocFails, S!CommitMallocFails, SP!CommitMallocFails, S!CommitQbufFails,
         SP!CommitQbufFails, S!Allocate, SP!Allocate, S!Wasted, SP!Wasted, S!CommitNotStopped,
         SP!CommitNotStopped, S!NotStopped, SP!NotStopped
<1>4. S!EventStreamoff <=> SP!EventStreamoff
  BY DEF S!EventStreamoff, SP!EventStreamoff, S!StreamOff, SP!StreamOff, S!StopStream, SP!StopStream,
         S!StreamOffCrash, SP!StreamOffCrash, S!KernelStops, SP!KernelStops, S!NotStopped,
         SP!NotStopped, S!FreeDummyBuf, SP!FreeDummyBuf
<1>5. (S!VideoIdle <=> SP!VideoIdle) /\ (S!VideoRefill <=> SP!VideoRefill)
  BY DEF S!VideoIdle, SP!VideoIdle, S!VideoRefill, SP!VideoRefill
<1>6. S!HostTakes <=> SP!HostTakes
  BY DEF S!HostTakes, SP!HostTakes
<1> QED
  BY <1>1, <1>2, <1>3, <1>4, <1>5, <1>6

-----------------------------------------------------------------------------
(* The invariants of the parts carry over.                                 *)

(* The constants are as the proofs of the parts need them.                 *)
LEMMA PartsAssumed ==
  CP!HostAssumption /\ CP!TableAssumption /\ CP!AscendingAssumption /\ SP!StreamAssumption
BY PartsAssumption
DEF C!Request, CP!Request, C!Code, CP!Code, C!Proposal, CP!Proposal, C!UVC_VS_PROBE_CONTROL,
    CP!UVC_VS_PROBE_CONTROL, C!UVC_VS_COMMIT_CONTROL, CP!UVC_VS_COMMIT_CONTROL

(* A step of the gadget is a step of the control part, or it puts a        *)
(* STREAMOFF event into the queue or takes it out, or leaves it alone.     *)
LEMMA ControlStep == ASSUME CP!IInv, [Next]_vars PROVE CP!IInv'
<1> USE PartsAssumed
<1>1. CASE \E r \in Requests : HostSetup(r)
  <2>1. CP!Next
    BY <1>1, SameHost DEF HostSetup, CP!Next, CP!Host, CP!Works
  <2> QED
    BY <2>1, CP!InvStep
<1>2. CASE HostData
  <2>1. CP!Next
    BY <1>2, SameHost DEF HostData, CP!Next, CP!Host, CP!Works
  <2> QED
    BY <2>1, CP!InvStep
<1>3. CASE EventControl \/ EventCommit
  <2>1. CP!Next
    BY <1>3, SameSetup, SameData 
    DEF EventControl, EventCommit, CP!Next, CP!Handle, CP!Gadget, CP!Works
  <2> QED
    BY <2>1, CP!InvStep
<1>4. CASE HostStreamoff
  <2> DEFINE e == [type |-> "STREAMOFF"]
  <2>1. e \in CP!AnyEvent /\ e.type # "SETUP" /\ e.type # "DATA"
    BY DEF CP!AnyEvent, CP!OtherEvent
  <2>2. Len(events) < MaxEvents /\ events' = Append(events, e) /\ xfer' = xfer
        /\ UNCHANGED <<control, pu_bmcontrol_val, request_error_code, brightness_val, probe, commit,
                       sensor>>
    BY <1>4 DEF HostStreamoff
  <2> HIDE DEF e
  <2> QED
    BY <2>1, <2>2, CP!AppendInv
<1>5. CASE EventStreamoff
  <2>1. events # << >> /\ events' = Tail(events) /\ CP!Event.type # "SETUP" /\ UNCHANGED xfer
        /\ UNCHANGED <<control, pu_bmcontrol_val, request_error_code, brightness_val, probe, commit,
                       sensor>>
    BY <1>5 DEF EventStreamoff, C!Dequeue, C!Event, CP!Event
  <2>2. CP!Queues' /\ CP!Order'
    BY <2>1, CP!TakeInv
  <2>3. CP!DeviceTypes' /\ CP!Brightness' /\ CP!NegotiatedExists'
    BY <2>1, CP!DeviceKept DEF CP!IInv
  <2> QED
    BY <2>2, <2>3 DEF CP!IInv
<1>6. CASE Select \/ Video \/ HostTakes \/ UNCHANGED vars
  <2>1. UNCHANGED CP!ctlVars
    BY <1>6 DEF Select, Video, HostTakes, vars, ctlVars, CP!ctlVars
  <2> QED
    BY <2>1, CP!StutterInv
<1> QED
  BY <1>1, <1>2, <1>3, <1>4, <1>5, <1>6 DEF Next, Loop

(* A step of the gadget is a step of the stream, or leaves it alone.       *)
LEMMA StreamStep == ASSUME [Next]_vars PROVE [SP!Next]_SP!strVars
<1>1. CASE Loop \/ HostTakes
  BY <1>1, SameStream
  DEF Loop, HostTakes, Select, EventControl, EventCommit, EventStreamoff, Video, SP!Next, SP!Loop
<1>2. CASE HostData \/ HostStreamoff \/ (\E r \in Requests : HostSetup(r)) \/ UNCHANGED vars
  BY <1>2 DEF HostData, HostStreamoff, HostSetup, vars, strVars, SP!strVars, SP!memVars,
              SP!kernelVars
<1> QED
  BY <1>1, <1>2 DEF Next

(* The host's history keeps its types.                                     *)
LEMMA CountsStep == ASSUME Counts, [Next]_vars PROVE Counts'
BY SizesAssumption
DEF Counts, Next, Loop, HostTakes, Select, EventControl, EventCommit, EventStreamoff, Video, HostData,
    HostStreamoff, HostSetup, vars

(* Only COMMIT sets the image size, and it sets the same one each time.    *)
LEMMA SizedStep == ASSUME Sized, SP!IInv, [SP!Next]_SP!strVars PROVE Sized'
<1>1. CASE SP!EventCommit
  BY <1>1 DEF SP!EventCommit, SP!CommitStream, Sized
<1>2. CASE SP!EventStreamoff \/ SP!Close
  BY <1>2 DEF SP!EventStreamoff, SP!Close, SP!StreamOff, SP!StopStream, SP!StreamOffCrash, Sized
<1>3. CASE SP!Select \/ SP!EventOther \/ SP!VideoIdle \/ SP!VideoRefill \/ SP!HostTakes \/ SP!Ended
           \/ UNCHANGED SP!strVars
  BY <1>3 DEF SP!Select, SP!EventOther, SP!VideoIdle, SP!VideoRefill, SP!HostTakes, SP!Ended,
              SP!strVars, Sized
<1> QED
  BY <1>1, <1>2, <1>3 DEF SP!Next, SP!Loop

(* The invariants of both parts hold at the start.                         *)
LEMMA PartsInit == Init => Parts
<1> SUFFICES ASSUME Init PROVE Parts
  OBVIOUS
<1> USE PartsAssumed
<1>1. CP!IInv
  BY SameInit, CP!InitInv DEF Init
<1>2. SP!IInv
  BY SameInit, SP!MemInit, SP!LeakInit DEF Init, SP!IInv
<1>3. Counts /\ Sized
  BY SizesAssumption DEF Init, S!Init, Counts, Sized
<1> QED
  BY <1>1, <1>2, <1>3 DEF Parts

(* Every step of the gadget keeps the invariants of both parts.            *)
LEMMA PartsStep == ASSUME Parts, [Next]_vars PROVE Parts'
<1>1. CP!IInv'
  BY ControlStep DEF Parts
<1>2. SP!IInv'
  BY StreamStep, PartsAssumed, SP!LeakStep DEF Parts
<1>3. Counts' /\ Sized'
  BY CountsStep, StreamStep, SizedStep DEF Parts
<1> QED
  BY <1>1, <1>2, <1>3 DEF Parts

-----------------------------------------------------------------------------
(* The stream follows the host.                                            *)

(* A new event; one that starts or stops the stream says what the host     *)
(* wants now.                                                              *)
LEMMA FollowsAppend ==
  ASSUME Follows, NEW T, events \in Seq(T), NEW e \in T, events' = Append(events, e),
         is_streaming' <=> is_streaming,
         IF Decisive(e) THEN wish' = "on" <=> e.type = "DATA" ELSE wish' = wish
  PROVE  Follows'
<1>1. PICK n \in Nat :
        /\ n = Len(events) /\ Len(events') = n + 1
        /\ \A i \in 1 .. n : events'[i] = events[i]
        /\ events'[n+1] = e
  BY AppendProperties, LenProperties
<1>2. ASSUME NEW j \in 1 .. n+1, Decisive(events'[j]),
             \A k \in j+1 .. n+1 : ~Decisive(events'[k])
      PROVE  wish' = "on" <=> events'[j].type = "DATA"
  <2>1. CASE j = n+1
    BY <1>1, <1>2, <2>1
  <2>2. CASE j # n+1
    <3>1. j \in 1 .. n /\ n+1 \in j+1 .. n+1
      BY <2>2
    <3>2. ~Decisive(e) /\ events'[j] = events[j]
      BY <1>1, <1>2, <3>1
    <3>3. \A k \in j+1 .. n : k \in 1 .. n /\ k \in j+1 .. n+1
      BY <3>1
    <3>4. \A k \in j+1 .. n : ~Decisive(events[k])
      BY <1>1, <1>2, <3>3
    <3> QED
      BY <1>1, <1>2, <3>1, <3>2, <3>4 DEF Follows
  <2> QED
    BY <2>1, <2>2
<1>3. ASSUME \A k \in 1 .. n+1 : ~Decisive(events'[k])
      PROVE  wish' = "on" <=> is_streaming'
  <2>1. n+1 \in 1 .. n+1 /\ \A k \in 1 .. n : k \in 1 .. n+1
    OBVIOUS
  <2>2. ~Decisive(e) /\ \A k \in 1 .. n : ~Decisive(events[k])
    BY <1>1, <1>3, <2>1
  <2> QED
    BY <1>1, <2>2 DEF Follows
<1> QED
  BY <1>1, <1>2, <1>3 DEF Follows

(* The event at the head of the queue is handled.                          *)
LEMMA FollowsTail ==
  ASSUME Follows, NEW T, events \in Seq(T), events # << >>, events' = Tail(events), wish' = wish,
         IF Decisive(Head(events)) THEN is_streaming' <=> Head(events).type = "DATA"
                                   ELSE is_streaming' <=> is_streaming
  PROVE  Follows'
<1>1. PICK n \in Nat :
        /\ Len(events) = n + 1 /\ Len(events') = n
        /\ \A i \in 1 .. n : events'[i] = events[i+1]
        /\ events[1] = Head(events)
  <2>1. Len(events) \in Nat \ {0} /\ Len(events') = Len(events) - 1
        /\ \A i \in 1 .. Len(events') : events'[i] = events[i+1]
        /\ events[1] = Head(events)
    BY HeadTailProperties, LenProperties, EmptySeq
  <2>2. PICK l \in Nat \ {0} : l = Len(events) /\ Len(events') = l - 1
    BY <2>1
  <2>3. PICK m \in Nat : m = l - 1 /\ l = m + 1
    <3>1. l - 1 \in Nat /\ l = (l - 1) + 1
      OBVIOUS
    <3> QED
      BY <3>1
  <2>4. Len(events) = m + 1 /\ Len(events') = m
    BY <2>2, <2>3
  <2> QED
    BY <2>1, <2>4
<1>2. ASSUME NEW j \in 1 .. n, Decisive(events'[j]), \A k \in j+1 .. n : ~Decisive(events'[k])
      PROVE  wish' = "on" <=> events'[j].type = "DATA"
  <2>1. j+1 \in 1 .. n+1 /\ events'[j] = events[j+1]
    BY <1>1
  <2>2. \A k \in (j+1)+1 .. n+1 : k-1 \in j+1 .. n /\ k-1 \in 1 .. n /\ (k-1)+1 = k
    OBVIOUS
  <2>3. \A k \in (j+1)+1 .. n+1 : ~Decisive(events[k])
    BY <1>1, <1>2, <2>2
  <2> QED
    BY <1>1, <1>2, <2>1, <2>3 DEF Follows
<1>3. ASSUME \A k \in 1 .. n : ~Decisive(events'[k])
      PROVE  wish' = "on" <=> is_streaming'
  <2>1. \A k \in 1+1 .. n+1 : k-1 \in 1 .. n /\ (k-1)+1 = k
    OBVIOUS
  <2>2. \A k \in 1+1 .. n+1 : ~Decisive(events[k])
    BY <1>1, <1>3, <2>1
  <2>3. 1 \in 1 .. n+1 /\ \A k \in 1 .. n+1 : k = 1 \/ k \in 1+1 .. n+1
    OBVIOUS
  <2>4. CASE Decisive(Head(events))
    BY <1>1, <2>2, <2>3, <2>4 DEF Follows
  <2>5. CASE ~Decisive(Head(events))
    BY <1>1, <2>2, <2>3, <2>5 DEF Follows
  <2> QED
    BY <2>4, <2>5
<1> QED
  BY <1>1, <1>2, <1>3 DEF Follows

(* A wider set of elements.                                                *)
LEMMA SeqWider == ASSUME NEW A, NEW B, A \subseteq B, NEW s \in Seq(A) PROVE s \in Seq(B)
OBVIOUS

(* dev->control is COMMIT just when the data stage at the head of the      *)
(* queue is that of a COMMIT.                                              *)
LEMMA HeadDecisive ==
  ASSUME CP!IInv, events # << >>, Head(events).type = "DATA"
  PROVE  Decisive(Head(events)) <=> control = C!UVC_VS_COMMIT_CONTROL
<1>1. PICK r : r = Head(events).r
  OBVIOUS
<1>2. CP!Match(r)
  BY <1>1, CP!HeadMatches, PartsAssumed DEF CP!IInv, CP!Event
<1>3. control = IF CP!Negotiates(r) THEN r.cs ELSE 0
  BY <1>2 DEF CP!Match, CP!ControlAfter
<1>4. IsCommit(r) <=> control = C!UVC_VS_COMMIT_CONTROL
  BY <1>3 DEF CP!Negotiates, IsCommit, C!UVC_VS_COMMIT_CONTROL, CP!UVC_VS_COMMIT_CONTROL,
              CP!UVC_VS_PROBE_CONTROL
<1> QED
  BY <1>1, <1>4 DEF Decisive

(* When no call fails, COMMIT starts the stream and STREAMOFF stops it.    *)
LEMMA NoFailure ==
  ASSUME Fallible = {}, SP!TypeOK, Reliable
  PROVE  /\ SP!EventCommit => is_streaming' /\ kstreaming' /\ dummy_buf' # 0
         /\ SP!EventStreamoff => ~is_streaming' /\ ~kstreaming'
<1>1. ASSUME SP!EventCommit PROVE is_streaming' /\ kstreaming' /\ dummy_buf' # 0
  <2>1. SP!CommitStarts /\ kstreaming'
    BY <1>1 DEF SP!EventCommit, SP!CommitStream, SP!CommitReqbufsFails, SP!CommitCallocFails,
                SP!CommitMallocFails, SP!CommitQbufFails, SP!CommitNotStopped, SP!NotStopped
  <2>2. is_streaming' /\ dummy_buf' = allocs + 1
    BY <2>1 DEF SP!CommitStarts, SP!Allocate, SP!Fresh
  <2>3. allocs \in Nat
    BY PartsAssumed DEF SP!TypeOK
  <2> QED
    BY <2>1, <2>2, <2>3
<1>2. ASSUME SP!EventStreamoff PROVE ~is_streaming' /\ ~kstreaming'
  <2>1. SP!StreamOff
    BY <1>2 DEF SP!EventStreamoff, SP!StreamOffCrash, Reliable
  <2> QED
    BY <2>1 DEF SP!StreamOff, SP!StopStream, SP!KernelStops, SP!NotStopped, Reliable, SP!kernelVars
<1> QED
  BY <1>1, <1>2

(* Without failures, kernel and device agree.                              *)
LEMMA ReliableStep ==
  ASSUME Fallible = {}, SP!TypeOK, Reliable, [Next]_vars PROVE Reliable'
<1>1. CASE EventCommit \/ EventStreamoff
  BY <1>1, NoFailure, SameStream DEF EventCommit, EventStreamoff, Reliable
<1>2. CASE Select \/ EventControl \/ Video \/ HostTakes
  BY <1>2 DEF Select, EventControl, Video, HostTakes, S!Select, S!EventOther, S!VideoIdle,
              S!VideoRefill, S!HostTakes, S!memVars, S!kernelVars, Reliable
<1>3. CASE HostData \/ HostStreamoff \/ (\E r \in Requests : HostSetup(r)) \/ UNCHANGED vars
  BY <1>3 DEF HostData, HostStreamoff, HostSetup, vars, strVars, Reliable
<1> QED
  BY <1>1, <1>2, <1>3 DEF Next, Loop

(* Every step keeps the order of the host's wishes.                        *)
LEMMA FollowsStep ==
  ASSUME Fallible = {}, Parts, Reliable, Follows, [Next]_vars PROVE Follows'
<1>0. /\ events \in Seq(CP!AnyEvent) /\ CP!IInv /\ SP!TypeOK
  BY DEF Parts, CP!IInv, CP!Queues, SP!IInv, SP!MemInv
<1>a. ASSUME NEW e, events' = Append(events, e), UNCHANGED is_streaming,
             IF Decisive(e) THEN wish' = "on" <=> e.type = "DATA" ELSE wish' = wish
      PROVE  Follows'
  <2>1. PICK B : B = CP!AnyEvent \cup {e}
    OBVIOUS
  <2>2. events \in Seq(B) /\ e \in B
    BY <1>0, <2>1, SeqWider
  <2> QED
    BY <1>a, <2>2, FollowsAppend
<1>1. CASE \E r \in Requests : HostSetup(r)
  <2>1. PICK r \in Requests : HostSetup(r)
    BY <1>1
  <2>2. PICK e : e = [type |-> "SETUP", r |-> r]
    OBVIOUS
  <2>3. events' = Append(events, e) /\ UNCHANGED <<is_streaming, wish>>
    BY <2>1, <2>2 DEF HostSetup, C!HostSetup, strVars
  <2>4. ~Decisive(e)
    BY <2>2 DEF Decisive
  <2> QED
    BY <1>a, <2>3, <2>4
<1>2. CASE HostData
  <2>1. PICK e : events' = Append(events, e) /\ e.type = "DATA" /\ e.r = xfer.r
    <3>1. CP!HostData
      BY <1>2, SameHost DEF HostData
    <3> QED
      BY <1>0, <3>1, CP!DataStage, PartsAssumed DEF CP!DataEvent
  <2>2. UNCHANGED is_streaming /\ wish' = IF IsCommit(xfer.r) THEN "on" ELSE wish
    BY <1>2 DEF HostData, strVars
  <2>3. Decisive(e) <=> IsCommit(xfer.r)
    BY <2>1 DEF Decisive
  <2> QED
    BY <1>a, <2>1, <2>2, <2>3
<1>3. CASE HostStreamoff
  <2>1. PICK e : e = [type |-> "STREAMOFF"]
    OBVIOUS
  <2>2. events' = Append(events, e) /\ UNCHANGED is_streaming /\ wish' = "off"
    BY <1>3, <2>1 DEF HostStreamoff, strVars
  <2>3. Decisive(e) /\ e.type # "DATA"
    BY <2>1 DEF Decisive
  <2> QED
    BY <1>a, <2>2, <2>3
<1>4. CASE EventControl
  <2>1. /\ events # << >> /\ events' = Tail(events)
        /\ \/ Head(events).type = "SETUP"
           \/ Head(events).type = "DATA" /\ control # C!UVC_VS_COMMIT_CONTROL
    BY <1>4 DEF EventControl, C!SetupOther, C!SetupControl, C!SetupStreaming, C!DataProbe,
                C!DataTooLarge, C!DataControl, C!Dequeue, C!Event, C!UVC_VS_COMMIT_CONTROL,
                C!UVC_VS_PROBE_CONTROL
  <2>2. ~Decisive(Head(events))
    <3>1. CASE Head(events).type = "SETUP"
      BY <3>1 DEF Decisive
    <3>2. CASE Head(events).type = "DATA" /\ control # C!UVC_VS_COMMIT_CONTROL
      BY <1>0, <2>1, <3>2, HeadDecisive
    <3> QED
      BY <2>1, <3>1, <3>2
  <2>3. UNCHANGED <<is_streaming, wish>>
    BY <1>4 DEF EventControl, S!EventOther
  <2> QED
    BY <1>0, <2>1, <2>2, <2>3, FollowsTail
<1>5. CASE EventCommit
  <2>1. /\ events # << >> /\ events' = Tail(events) /\ UNCHANGED wish
        /\ Head(events).type = "DATA" /\ control = C!UVC_VS_COMMIT_CONTROL
    BY <1>5 DEF EventCommit, C!DataCommit, C!Dequeue, C!Event
  <2>2. Decisive(Head(events))
    BY <1>0, <2>1, HeadDecisive
  <2>3. is_streaming'
    BY <1>0, <1>5, NoFailure, SameStream DEF EventCommit
  <2> QED
    BY <1>0, <2>1, <2>2, <2>3, FollowsTail
<1>6. CASE EventStreamoff
  <2>1. /\ events # << >> /\ events' = Tail(events) /\ UNCHANGED wish
        /\ Head(events).type = "STREAMOFF"
    BY <1>6 DEF EventStreamoff, C!Dequeue, C!Event
  <2>2. Decisive(Head(events)) /\ Head(events).type # "DATA"
    BY <2>1 DEF Decisive
  <2>3. ~is_streaming'
    BY <1>0, <1>6, NoFailure, SameStream DEF EventStreamoff
  <2> QED
    BY <1>0, <2>1, <2>2, <2>3, FollowsTail
<1>7. CASE Select \/ Video \/ HostTakes \/ UNCHANGED vars
  <2>1. UNCHANGED <<events, wish, is_streaming>>
    BY <1>7 DEF Select, Video, HostTakes, S!Select, S!VideoIdle, S!VideoRefill, S!HostTakes, vars,
                ctlVars, strVars
  <2> QED
    BY <2>1 DEF Follows
<1> QED
  BY <1>1, <1>2, <1>3, <1>4, <1>5, <1>6, <1>7 DEF Next, Loop

(* The invariant is inductive.                                             *)
LEMMA Inductive == Spec => []IInv
<1>1. Init => IInv
  <2> SUFFICES ASSUME Init PROVE IInv
    OBVIOUS
  <2>1. ASSUME Fallible = {} PROVE Reliable
    BY <2>1 DEF Init, S!Init, Reliable
  <2>2. events = << >> /\ Len(events) = 0 /\ ~is_streaming /\ wish = "off"
    BY EmptySeq DEF Init, C!Init, S!Init
  <2>3. Follows
    BY <2>2 DEF Follows
  <2> QED
    BY <2>1, <2>3, PartsInit DEF IInv
<1>2. IInv /\ [Next]_vars => IInv'
  <2> SUFFICES ASSUME IInv, [Next]_vars PROVE IInv'
    OBVIOUS
  <2>1. Parts' /\ SP!TypeOK
    BY PartsStep DEF IInv, Parts, SP!IInv, SP!MemInv
  <2>2. ASSUME Fallible = {} PROVE Follows' /\ Reliable'
    BY <2>1, <2>2, FollowsStep, ReliableStep DEF IInv
  <2> QED
    BY <2>1, <2>2 DEF IInv
<1> QED
  BY <1>1, <1>2, PTL DEF Spec

-----------------------------------------------------------------------------
(* The theorems.                                                           *)

(* What is proved of the control requests alone and of the stream alone    *)
(* holds in the common loop, whichever calls fail: requests meet their     *)
(* data, and the memory that is filled, sent and freed is the right one.   *)
(* Values of units have at most four bytes, and of STREAMOFF the same is   *)
(* said as for the stream alone.                                           *)
THEOREM PartsStaySafe ==
  Spec => [](/\ C!BrightnessFaithful /\ C!DataMatchesSetup /\ C!NegotiatedExists
             /\ S!FillsSentMemory /\ S!KernelReadsLive /\ S!FreesOnce /\ S!LeakBounded)
<1>1. ASSUME IInv PROVE C!BrightnessFaithful /\ C!DataMatchesSetup /\ C!NegotiatedExists
  <2>1. CP!BrightnessFaithful /\ CP!DataMatchesSetup /\ CP!NegotiatedExists
    BY <1>1, PartsAssumed, CP!OrderMatches
    DEF IInv, Parts, CP!IInv, CP!Brightness, CP!BrightnessFaithful
  <2> QED
    BY <2>1 DEF CP!BrightnessFaithful, C!BrightnessFaithful, CP!DataMatchesSetup, C!DataMatchesSetup,
                CP!NegotiatedExists, C!NegotiatedExists, CP!Event, C!Event, CP!Negotiates,
                C!Negotiates, CP!FrameSize, C!FrameSize, CP!PU_BRIGHTNESS_MIN_VAL,
                C!PU_BRIGHTNESS_MIN_VAL, CP!PU_BRIGHTNESS_MAX_VAL, C!PU_BRIGHTNESS_MAX_VAL,
                CP!UVC_VS_PROBE_CONTROL, C!UVC_VS_PROBE_CONTROL, CP!UVC_VS_COMMIT_CONTROL,
                C!UVC_VS_COMMIT_CONTROL
<1>2. ASSUME IInv PROVE S!FillsSentMemory /\ S!KernelReadsLive /\ S!FreesOnce /\ S!LeakBounded
  <2>1. SP!FillsSentMemory /\ SP!KernelReadsLive /\ SP!FreesOnce /\ SP!LeakBounded
    BY <1>2, PartsAssumed, SP!Safety DEF IInv, Parts
  <2>2. S!FillsSentMemory
    BY <2>1 DEF SP!FillsSentMemory, S!FillsSentMemory, SP!Usable, S!Usable
  <2>3. S!KernelReadsLive
    BY <2>1 DEF SP!KernelReadsLive, S!KernelReadsLive, SP!Usable, S!Usable
  <2>4. S!FreesOnce /\ S!LeakBounded
    BY <2>1 DEF SP!FreesOnce, S!FreesOnce, SP!LeakBounded, S!LeakBounded, SP!Live, S!Live,
                SP!Cardinality, S!Cardinality, SP!IsFiniteSet, S!IsFiniteSet
  <2> QED
    BY <2>2, <2>3, <2>4
<1> QED
  BY <1>1, <1>2, Inductive, PTL

(* However COMMITs, STREAMOFFs and other requests, finished or given up,   *)
(* follow each other: once the gadget has handled all events the stream is *)
(* as the host asked for last, provided that no call fails.                *)
THEOREM FollowsTheHost == ASSUME Fallible = {} PROVE Spec => []StreamFollowsHost
<1>1. ASSUME IInv PROVE StreamFollowsHost
  <2>1. Follows /\ Reliable
    BY <1>1 DEF IInv
  <2>2. ASSUME events = << >> PROVE wish = "on" <=> is_streaming
    <3>1. Len(events) = 0
      BY <2>2, EmptySeq
    <3> QED
      BY <2>1, <3>1 DEF Follows
  <2> QED
    BY <2>1, <2>2 DEF Reliable, StreamFollowsHost
<1> QED
  BY <1>1, Inductive, PTL

(* Whichever calls fail: what is streamed exceeds the size that COMMIT     *)
(* stored only for the third entry of the frame table.                     *)
THEOREM FramesFit == Spec => []FrameFits
<1>1. ASSUME IInv PROVE FrameFits
  <2>1. CP!IInv /\ Sized
    BY <1>1 DEF IInv, Parts
  <2>2. commit.frame \in 1 .. Len(Frames) /\ commit.size = CP!FrameSize(commit.frame)
    BY <2>1 DEF CP!IInv, CP!DeviceTypes, CP!Negotiated, CP!NegotiatedExists
  <2>3. \A f : CP!FrameSize(f) = C!FrameSize(f)
    BY DEF CP!FrameSize, C!FrameSize
  <2>4. commit.frame # 3 => CommitSize <= commit.size
    BY <2>2, <2>3, SizesAssumption
  <2> QED
    BY <2>1, <2>4 DEF Sized, FrameFits
<1> QED
  BY <1>1, Inductive, PTL
=============================================================================
