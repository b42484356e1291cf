----------------------------- MODULE UvcControl -----------------------------
(***************************************************************************)
(* The USB control requests of the UVC gadget: uvc_events_process and what *)
(* it calls for UVC_EVENT_SETUP and UVC_EVENT_DATA (src/src/uvc_api.c).    *)
(*                                                                         *)
(* The host sends a SETUP packet; the gadget answers with data or a STALL; *)
(* an OUT request that is not stalled has a data stage, which the gadget   *)
(* sees as a second event.  Between the two events the gadget remembers    *)
(* only dev->control and dev->pu_bmcontrol_val.  The kernel (f_uvc) queues *)
(* the events and applies an answer to whatever transfer is under way, so  *)
(* the answer to a request the host has given up reaches the next one.     *)
(***************************************************************************)
EXTENDS Integers, Sequences, FiniteSets

CONSTANTS Requests,       \* requests the host may make
          Values,         \* values it may send for a control of a unit
          Proposals,      \* [format, frame, interval] it may send for PROBE, COMMIT
          Frames,         \* the frame table: [width, height, intervals]
          MaxEvents       \* bound: events waiting in the kernel's queue

\* Control selectors.  Those of different units share their numbers.
UVC_VC_REQUEST_ERROR_CODE_CONTROL == 2
UVC_CT_AE_MODE_CONTROL            == 2
UVC_PU_BRIGHTNESS_CONTROL         == 2
UVC_PU_CONTRAST_CONTROL           == 3
UVC_VS_PROBE_CONTROL              == 1
UVC_VS_COMMIT_CONTROL             == 2

PU_BRIGHTNESS_MIN_VAL     == 0
PU_BRIGHTNESS_MAX_VAL     == 255
PU_BRIGHTNESS_STEP_SIZE   == 1
PU_BRIGHTNESS_DEFAULT_VAL == 127

Code == {"SET_CUR", "GET_CUR", "GET_MIN", "GET_MAX", "GET_RES",
         "GET_LEN", "GET_INFO", "GET_DEF"}

\* intf "other" is every request that uvc_events_process_setup and
\* uvc_events_process_class pass over: standard and vendor requests, another
\* recipient, another interface.
Request == [intf : {"control", "streaming", "other"}, entity : 0 .. 255,
            cs : 0 .. 255, req : Code, len : 0 .. 64]
Proposal == [format : 0 .. 255, frame : 0 .. 255, interval : Nat]

ASSUME HostAssumption ==
  /\ Requests \subseteq Request
  /\ Values \subseteq Nat
  /\ Proposals \subseteq Proposal
  /\ MaxEvents \in Nat \ {0}

\* Every entry of the table has a size and at least one interval.
ASSUME TableAssumption ==
  /\ Len(Frames) \in Nat \ {0}
  /\ \A f \in 1 .. Len(Frames) :
       /\ Frames[f].width \in Nat /\ Frames[f].height \in Nat
       /\ Len(Frames[f].intervals) \in Nat \ {0}
       /\ \A i \in 1 .. Len(Frames[f].intervals) : Frames[f].intervals[i] \in Nat

\* Its intervals ascend.
ASSUME AscendingAssumption ==
  \A f \in 1 .. Len(Frames) : \A i, j \in 1 .. Len(Frames[f].intervals) :
    i <= j => Frames[f].intervals[i] <= Frames[f].intervals[j]

VARIABLES
  control,             \* dev->control: 0, PROBE or COMMIT
  pu_bmcontrol_val,    \* dev->pu_bmcontrol_val: selector of the last request
  request_error_code,  \* dev->request_error_code; -1 is length 0 (nothing yet)
  brightness_val,      \* dev->brightness_val
  probe, commit,       \* dev->probe, dev->commit: [format, frame, interval, size]
  sensor,              \* brightness and contrast that vidioc_set_ctrl gave the
                       \*   RGB sensor, -1 for none, and whether it refused the
                       \*   last brightness
  overrun,             \* memcpy wrote past a variable: nothing is known of the
                       \*   gadget from there on
  events,              \* kernel: events not yet dequeued
  xfer                 \* kernel: the transfer under way: [r, phase, len]

ctlVars == <<control, pu_bmcontrol_val, request_error_code, brightness_val,
             probe, commit, sensor, overrun, events, xfer>>

-----------------------------------------------------------------------------
(* Answers.  length -1 is -EL2HLT: the endpoint is stalled.                *)

STALL == [length |-> -1, data |-> 0]
Reply(n, d) == [length |-> n, data |-> d]

\* uvc_events_process_control, camera terminal: only auto exposure.
AeMode(r) ==
  CASE r.req = "SET_CUR"                          -> Reply(1, 1)
    [] r.req = "GET_INFO"                         -> Reply(1, 3)
    [] r.req \in {"GET_CUR", "GET_DEF", "GET_RES"} -> Reply(1, 2)
    [] OTHER                                      -> STALL

\* Processing unit: brightness, and contrast with the same answers.
ProcessingUnit(r) ==
  CASE r.req = "SET_CUR"  -> Reply(r.len, 0)
    [] r.req = "GET_MIN"  -> Reply(2, PU_BRIGHTNESS_MIN_VAL)
    [] r.req = "GET_MAX"  -> Reply(2, PU_BRIGHTNESS_MAX_VAL)
    [] r.req = "GET_CUR"  -> Reply(2, brightness_val)
    [] r.req = "GET_INFO" -> Reply(1, 3)
    [] r.req = "GET_DEF"  -> Reply(2, PU_BRIGHTNESS_DEFAULT_VAL)
    [] r.req = "GET_RES"  -> Reply(2, PU_BRIGHTNESS_STEP_SIZE)
    [] OTHER              -> STALL

IsErrorCode(r) == r.entity = 0 /\ r.cs = UVC_VC_REQUEST_ERROR_CODE_CONTROL
IsAeMode(r)    == r.entity = 1 /\ r.cs = UVC_CT_AE_MODE_CONTROL
IsPu(r)        == r.entity = 2 /\ r.cs \in {UVC_PU_BRIGHTNESS_CONTROL, UVC_PU_CONTRAST_CONTROL}

ControlAnswer(r) ==
  CASE IsErrorCode(r) -> IF request_error_code = -1 THEN Reply(0, 0)
                                                    ELSE Reply(1, request_error_code)
    [] IsAeMode(r)    -> AeMode(r)
    [] IsPu(r)        -> ProcessingUnit(r)
    [] OTHER          -> STALL

\* Mutant: the length of the answer is stored in place of the code.
ErrorCodeAfter_Length(r) == ControlAnswer(r).length

\* The error code the request leaves behind: 6 for an unknown control, 7 for
\* an unknown request of a known one.
ErrorCodeAfter(r) ==
  CASE IsErrorCode(r)           -> request_error_code
    [] IsAeMode(r) \/ IsPu(r)   -> IF ControlAnswer(r) = STALL THEN 7 ELSE 0
    [] OTHER                    -> 6

-----------------------------------------------------------------------------
(* Negotiation.                                                            *)

Clamp(x, lo, hi) == IF x < lo THEN lo ELSE IF x > hi THEN hi ELSE x

FrameSize(f) == Frames[f].width * Frames[f].height * 2

\* Mutant: an exact match is passed over.
Stops_Strict(f, want, i) == \/ Frames[f].intervals[i] > want
                            \/ i = Len(Frames[f].intervals)

\* The loop leaves interval at the first entry that is not below the wanted
\* one, or at the last entry.
Stops(f, want, i) == \/ Frames[f].intervals[i] >= want
                     \/ i = Len(Frames[f].intervals)
PickInterval(f, want) ==
  Frames[f].intervals[CHOOSE i \in 1 .. Len(Frames[f].intervals) :
                         /\ Stops(f, want, i)
                         /\ \A j \in 1 .. i-1 : ~Stops(f, want, j)]

\* Mutant: the wanted interval is stored, not the one found.
Negotiate_Echo(p) ==
  LET f == Clamp(p.frame, 1, Len(Frames))
  IN  [format |-> 1, frame |-> f, interval |-> p.interval, size |-> FrameSize(f)]

\* uvc_events_process_data for PROBE and COMMIT; there is one format.
Negotiate(p) ==
  LET f == Clamp(p.frame, 1, Len(Frames))
  IN  [format |-> Clamp(p.format, 1, 1), frame |-> f,
       interval |-> PickInterval(f, p.interval), size |-> FrameSize(f)]

\* uvc_fill_streaming_control for the first (GET_MIN, GET_DEF) and the last
\* entry (GET_MAX).
FillStreamingControl(f) ==
  [format |-> 1, frame |-> f, interval |-> Frames[f].intervals[1], size |-> FrameSize(f)]

StreamingAnswer(r) ==
  CASE r.cs \notin {UVC_VS_PROBE_CONTROL, UVC_VS_COMMIT_CONTROL} -> STALL
    [] r.req = "SET_CUR"              -> Reply(34, 0)
    [] r.req = "GET_CUR"              -> Reply(34, IF r.cs = UVC_VS_PROBE_CONTROL THEN probe
                                                                                ELSE commit)
    [] r.req \in {"GET_MIN", "GET_DEF"} -> Reply(34, FillStreamingControl(1))
    [] r.req = "GET_MAX"              -> Reply(34, FillStreamingControl(Len(Frames)))
    [] r.req = "GET_RES"              -> Reply(34, 0)
    [] r.req = "GET_LEN"              -> Reply(2, 8704)   \* bytes 00 22, low one first
    [] r.req = "GET_INFO"             -> Reply(1, 3)

-----------------------------------------------------------------------------
(* The kernel and the host (not part of the repository).                   *)

NoTransfer == [r |-> [intf |-> "other", entity |-> 0, cs |-> 0, req |-> "GET_CUR", len |-> 0],
               phase |-> "idle", len |-> 0]

\* SET_CUR of PROBE or COMMIT sends a struct uvc_streaming_control.
Negotiates(r) == /\ r.intf = "streaming" /\ r.req = "SET_CUR"
                 /\ r.cs \in {UVC_VS_PROBE_CONTROL, UVC_VS_COMMIT_CONTROL}

\* 256 to the power n, for the 0 to 3 bytes that leave a part of a variable.
Pow256(n) == CASE n = 0 -> 1 [] n = 1 -> 256 [] n = 2 -> 65536 [] OTHER -> 16777216

\* The values that len bytes can hold.
Fits(v, len) == len >= 4 \/ v < Pow256(len)

\* What len bytes of the structure hold (bFormatIndex is at byte 2,
\* bFrameIndex at 3, dwFrameInterval at 4 to 7); the kernel clears the event
\* before it copies them.
Received(p, len) ==
  [format   |-> IF len > 2 THEN p.format ELSE 0,
   frame    |-> IF len > 3 THEN p.frame ELSE 0,
   interval |-> IF len >= 8 THEN p.interval
                ELSE IF len > 4 THEN p.interval % Pow256(len - 4) ELSE 0]

\* A new SETUP packet; the host gives up a transfer that is still under way.
HostSetup(r) ==
  /\ Len(events) < MaxEvents
  /\ events' = Append(events, [type |-> "SETUP", r |-> r])
  /\ xfer' = [r |-> r, phase |-> "setup", len |-> 0]
  /\ UNCHANGED <<control, pu_bmcontrol_val, request_error_code, brightness_val,
                 probe, commit, sensor>>

\* The data stage of an OUT transfer: the structure, or a value.  val is the
\* first four bytes.
HostData ==
  /\ xfer.phase = "data"
  /\ Len(events) < MaxEvents
  /\ IF Negotiates(xfer.r)
     THEN \E p \in Proposals :
            LET c == Received(p, xfer.len)
            IN  events' = Append(events, [type |-> "DATA", r |-> xfer.r, len |-> xfer.len,
                                          val |-> c.format * 65536 + c.frame * 16777216,
                                          ctrl |-> c])
     ELSE \E v \in {w \in Values : Fits(w, xfer.len)} :
            events' = Append(events, [type |-> "DATA", r |-> xfer.r, len |-> xfer.len, val |-> v,
                                      ctrl |-> [format |-> 0, frame |-> 0, interval |-> 0]])
  /\ xfer' = NoTransfer
  /\ UNCHANGED <<control, pu_bmcontrol_val, request_error_code, brightness_val,
                 probe, commit, sensor>>

\* UVCIOC_SEND_RESPONSE acts on the transfer under way, whichever it is.
SendResponse(resp) ==
  xfer' = CASE resp.length < 0 -> NoTransfer
            [] resp.length >= 0 /\ xfer.phase # "setup" -> xfer
            [] resp.length >= 0 /\ xfer.phase = "setup" ->
                 IF xfer.r.req = "SET_CUR"
                 THEN [xfer EXCEPT !.phase = "data",
                                   !.len = IF resp.length < xfer.r.len THEN resp.length
                                                                       ELSE xfer.r.len]
                 ELSE NoTransfer

-----------------------------------------------------------------------------
(* The gadget: uvc_events_process for the event at the head of the queue.  *)

Event == Head(events)
Dequeue(type) == /\ events # << >>
                 /\ Event.type = type
                 /\ events' = Tail(events)

\* Mutants: control is not reset by the next SETUP; COMMIT is not remembered.
ControlAfter_Kept(r) ==
  IF r.intf = "streaming" /\ r.req = "SET_CUR" THEN r.cs ELSE control
ControlAfter_ProbeOnly(r) ==
  IF r.intf = "streaming" /\ r.req = "SET_CUR" /\ r.cs = UVC_VS_PROBE_CONTROL THEN r.cs ELSE 0

\* dev->control after a SETUP: reset, then set by SET_CUR of PROBE or COMMIT.
ControlAfter(r) == IF Negotiates(r) THEN r.cs ELSE 0

\* Mutant: such a request is left without an answer.
SetupOther_Unanswered ==
  /\ Dequeue("SETUP") /\ Event.r.intf = "other"
  /\ control' = 0
  /\ UNCHANGED <<pu_bmcontrol_val, request_error_code, brightness_val, probe, commit, sensor,
                 xfer>>

\* UVC_EVENT_SETUP
SetupOther ==
  /\ Dequeue("SETUP") /\ Event.r.intf = "other"
  /\ control' = ControlAfter(Event.r)
  /\ SendResponse(STALL)
  /\ UNCHANGED <<pu_bmcontrol_val, request_error_code, brightness_val, probe, commit, sensor>>

SetupControl ==
  /\ Dequeue("SETUP") /\ Event.r.intf = "control"
  /\ control' = ControlAfter(Event.r)
  /\ pu_bmcontrol_val' = Event.r.cs
  /\ request_error_code' = ErrorCodeAfter(Event.r)
  /\ SendResponse(ControlAnswer(Event.r))
  /\ UNCHANGED <<brightness_val, probe, commit, sensor>>

SetupStreaming ==
  /\ Dequeue("SETUP") /\ Event.r.intf = "streaming"
  /\ control' = ControlAfter(Event.r)
  /\ SendResponse(StreamingAnswer(Event.r))
  /\ UNCHANGED <<pu_bmcontrol_val, request_error_code, brightness_val, probe, commit, sensor>>

\* UVC_EVENT_DATA for PROBE, and the negotiation part of COMMIT (what COMMIT
\* does to the stream is in UvcStream).
DataProbe ==
  /\ Dequeue("DATA") /\ control = UVC_VS_PROBE_CONTROL
  /\ probe' = Negotiate(Event.ctrl)
  /\ UNCHANGED <<control, pu_bmcontrol_val, request_error_code, brightness_val, commit,
                 sensor, xfer>>

DataCommit ==
  /\ Dequeue("DATA") /\ control = UVC_VS_COMMIT_CONTROL
  /\ commit' = Negotiate(Event.ctrl)
  /\ UNCHANGED <<control, pu_bmcontrol_val, request_error_code, brightness_val, probe,
                 sensor, xfer>>

\* Mutant: one value too many.
Supported_OffByOne(v) == v <= PU_BRIGHTNESS_MAX_VAL + 1

\* The range test of uvc_events_process_data.
Supported(v) == v <= PU_BRIGHTNESS_MAX_VAL

\* Any other data stage is taken for a value of the processing unit.
DataTooLarge ==
  /\ Dequeue("DATA") /\ control = 0
  /\ ~Supported(Event.val)
  /\ SendResponse(STALL)
  /\ UNCHANGED <<control, pu_bmcontrol_val, request_error_code, brightness_val, probe,
                 commit, sensor>>

\* memcpy of len bytes over the low bytes of a variable of four.
Overwrite(old, v, len) ==
  IF len >= 4 THEN v ELSE (old \div Pow256(len)) * Pow256(len) + v

\* uvc_events_process_control_data, always called for entity 2, with a value
\* that its variables can hold.  The local val that contrast uses is not
\* initialized, so its other bytes are arbitrary.  S_CTRL may fail, or be left
\* out because no camera is open; its result is ignored.
DataControl ==
  /\ Dequeue("DATA") /\ control = 0
  /\ Supported(Event.val)
  /\ Event.len <= 4
  /\ \/ /\ pu_bmcontrol_val = UVC_PU_BRIGHTNESS_CONTROL
        /\ brightness_val' = Overwrite(brightness_val, Event.val, Event.len)
        /\ \/ sensor' = [sensor EXCEPT !.brightness = brightness_val', !.refused = FALSE]
           \/ sensor' = [sensor EXCEPT !.refused = TRUE]
     \/ /\ pu_bmcontrol_val = UVC_PU_CONTRAST_CONTROL
        /\ \/ \E garbage \in {0, Pow256(3)} :
                sensor' = [sensor EXCEPT !.contrast = Overwrite(garbage, Event.val, Event.len)]
           \/ UNCHANGED sensor
        /\ UNCHANGED brightness_val
     \/ /\ pu_bmcontrol_val \notin {UVC_PU_BRIGHTNESS_CONTROL, UVC_PU_CONTRAST_CONTROL}
        /\ UNCHANGED <<brightness_val, sensor>>
  /\ UNCHANGED <<control, pu_bmcontrol_val, request_error_code, probe, commit, xfer>>

\* The same with a longer one: memcpy to the local val has no bound.
DataOverrun ==
  /\ Dequeue("DATA") /\ control = 0
  /\ Supported(Event.val)
  /\ Event.len > 4
  /\ ~overrun /\ overrun' = TRUE
  /\ UNCHANGED <<control, pu_bmcontrol_val, request_error_code, brightness_val, probe, commit,
                 sensor, xfer>>

Gadget == \/ SetupOther \/ SetupControl \/ SetupStreaming
          \/ DataProbe \/ DataCommit \/ DataTooLarge \/ DataControl

\* calloc in uvc_open, then uvc_events_init.
Init ==
  /\ control = 0 /\ pu_bmcontrol_val = 0
  /\ request_error_code = -1
  /\ brightness_val = 0
  /\ probe = FillStreamingControl(1)
  /\ commit = FillStreamingControl(1)
  /\ sensor = [brightness |-> -1, contrast |-> -1, refused |-> FALSE]
  /\ overrun = FALSE
  /\ events = << >>
  /\ xfer = NoTransfer

\* Everything but an overrun; the model ends there.
Works == ~overrun /\ UNCHANGED overrun
Handle == (Gadget /\ Works) \/ DataOverrun
Host == (HostData \/ \E r \in Requests : HostSetup(r)) /\ Works
Ended == overrun /\ UNCHANGED ctlVars

Next == Handle \/ Host \/ Ended

\* The UVC thread keeps calling process_uvc_gadget_device.
Spec == Init /\ [][Next]_ctlVars /\ WF_ctlVars(Handle)

-----------------------------------------------------------------------------
(* Properties.                                                             *)

Negotiated == [format : {1}, frame : 1 .. Len(Frames), interval : Nat, size : Nat]

(* Types of the device state; no more events wait than the kernel keeps.   *)
TypeOK ==
  /\ overrun \in BOOLEAN
  /\ control \in {0, UVC_VS_PROBE_CONTROL, UVC_VS_COMMIT_CONTROL}
  /\ pu_bmcontrol_val \in 0 .. 255
  /\ request_error_code \in {-1, 0, 6, 7}
  /\ brightness_val \in Nat
  /\ probe \in Negotiated /\ commit \in Negotiated
  /\ Len(events) <= MaxEvents
  /\ xfer.phase \in {"idle", "setup", "data"}

(* Until a data stage is longer than the variable it is copied to:         *)
(* whatever the host sends, in whatever order it starts and abandons       *)
(* transfers, the brightness that GET_CUR reports is within the range that *)
(* GET_MIN and GET_MAX report, and it is the sensor's unless the sensor    *)
(* refused it.  The range test of uvc_events_process_data reads four bytes, *)
(* the memcpy after it replaces data->length of them.  (The comment before *)
(* the test calls levels above 0x10 invalid; the code, like GET_MAX, goes  *)
(* up to 255.)                                                             *)
BrightnessFaithful ==
  ~overrun =>
    /\ brightness_val \in PU_BRIGHTNESS_MIN_VAL .. PU_BRIGHTNESS_MAX_VAL
    /\ sensor.refused \/ sensor.brightness \in {-1, brightness_val}

(* A data stage is handled as what its SETUP packet announced: dev->control *)
(* and dev->pu_bmcontrol_val still belong to that packet, also when the    *)
(* host has started other transfers in between.                            *)
DataMatchesSetup ==
  events # << >> /\ Event.type = "DATA" =>
    /\ control = IF Negotiates(Event.r) THEN Event.r.cs ELSE 0
    /\ Event.r.intf = "control" => pu_bmcontrol_val = Event.r.cs

(* probe and commit always name an entry of the frame table, one of its    *)
(* intervals and its size, for any bytes the host sends.                   *)
NegotiatedExists ==
  \A c \in {probe, commit} :
    /\ \E i \in 1 .. Len(Frames[c.frame].intervals) :
          c.interval = Frames[c.frame].intervals[i]
    /\ c.size = FrameSize(c.frame)

\* The interval the host should get: the shortest supported one that is not
\* shorter than what it wants, or else the longest.
BestInterval(f, want) ==
  LET all == {Frames[f].intervals[i] : i \in 1 .. Len(Frames[f].intervals)}
      ok  == {v \in all : v >= want}
  IN  IF ok # {} THEN CHOOSE v \in ok : \A w \in ok : v <= w
                 ELSE CHOOSE v \in all : \A w \in all : v >= w

(* The loop over the interval table finds the best supported interval.     *)
NegotiatesBest ==
  [][/\ DataProbe => probe'.interval = BestInterval(probe'.frame, Event.ctrl.interval)
     /\ DataCommit => commit'.interval = BestInterval(commit'.frame, Event.ctrl.interval)
    ]_ctlVars

(* What PROBE returned can be committed as it is.                          *)
ProbedCommits ==
  [][DataCommit /\ Event.ctrl = [format |-> probe.format, frame |-> probe.frame,
                                 interval |-> probe.interval]
       => commit' = probe]_ctlVars

(* Every transfer gets an answer, unless the gadget has overrun a variable, *)
(* also one whose SETUP packet arrived while the gadget was busy with an   *)
(* abandoned one.                                                          *)
SetupAnswered == (xfer.phase = "setup") ~> (xfer.phase # "setup" \/ overrun)

(* "Incase of auto exposure, attempts to programmatically set the          *)
(* auto-adjusted controls are ignored" (uvc_events_process_control,        *)
(* SET_CUR of UVC_CT_AE_MODE_CONTROL).                                     *)
AeModeIgnored ==
  [][DataControl /\ IsAeMode(Event.r) => UNCHANGED <<brightness_val, sensor>>]_ctlVars
=============================================================================
