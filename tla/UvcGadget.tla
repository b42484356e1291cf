------------------------------ MODULE UvcGadget ------------------------------
(***************************************************************************)
(* The UVC gadget as a whole: the control requests (UvcControl) and the    *)
(* video stream (UvcStream) in the loop of process_uvc_gadget_device.  The *)
(* loop takes one event per round, and the data stage of a COMMIT does two *)
(* things at once: it stores the negotiated values and restarts the stream. *)
(***************************************************************************)
EXTENDS Integers, Sequences, FiniteSets

CONSTANTS Requests, Values, Proposals, Frames, MaxEvents,     \* UvcControl
          NBufs, InitSize, CommitSize, Fallible, MaxAllocs,   \* UvcStream
          MaxCommits   \* bound: COMMIT requests the host makes

VARIABLES control, pu_bmcontrol_val, request_error_code, brightness_val, probe, commit,
          sensor, events, xfer,
          is_streaming, imgsize, dummy_buf, mem, heap, allocs, waste,
          kstreaming, kqueue, kdone, kptr, loop, snd,
          commits,     \* history: COMMIT requests made
          wish         \* history: what the host asked for last, "on" or "off"

\* No data stage is too long here (UnitValuesAssumption).
C == INSTANCE UvcControl WITH overrun <- FALSE
S == INSTANCE UvcStream

\* What the two parts assume of their constants.
ASSUME PartsAssumption ==
  C!HostAssumption /\ C!TableAssumption /\ C!AscendingAssumption /\ S!StreamAssumption

\* Only the third entry of the table, 640 x 360, is smaller than what COMMIT
\* streams.
ASSUME SizesAssumption ==
  /\ \A f \in 1 .. Len(Frames) : f # 3 => CommitSize <= C!FrameSize(f)
  /\ MaxCommits \in Nat

\* The value of a unit's control has at most the four bytes of the variables it
\* is copied to; what longer ones do is in UvcControl.
ASSUME UnitValuesAssumption ==
  \A r \in Requests : r.req = "SET_CUR" => C!Negotiates(r) \/ r.len <= 4

ctlVars == <<control, pu_bmcontrol_val, request_error_code, brightness_val, probe, commit,
             sensor, events, xfer>>
strVars == <<is_streaming, imgsize, dummy_buf, mem, heap, allocs, waste,
             kstreaming, kqueue, kdone, kptr, loop, snd>>
vars == <<ctlVars, strVars, commits, wish>>

Init == C!Init /\ S!Init /\ commits = 0 /\ wish = "off"

-----------------------------------------------------------------------------
(* The host.                                                               *)

IsCommit(r) == r.intf = "streaming" /\ r.cs = C!UVC_VS_COMMIT_CONTROL /\ r.req = "SET_CUR"

HostSetup(r) ==
  /\ C!HostSetup(r)
  /\ IsCommit(r) => commits < MaxCommits
  /\ commits' = IF IsCommit(r) THEN commits + 1 ELSE commits
  /\ UNCHANGED <<strVars, wish>>

HostData ==
  /\ C!HostData
  /\ wish' = IF IsCommit(xfer.r) THEN "on" ELSE wish
  /\ UNCHANGED <<strVars, commits>>

\* Alternate setting 0 of the streaming interface.
HostStreamoff ==
  /\ Len(events) < MaxEvents
  /\ wish = "on"
  /\ events' = Append(events, [type |-> "STREAMOFF"])
  /\ wish' = "off"
  /\ UNCHANGED <<control, pu_bmcontrol_val, request_error_code, brightness_val, probe,
                 commit, sensor, xfer, strVars, commits>>

HostTakes == S!HostTakes /\ UNCHANGED <<ctlVars, commits, wish>>

-----------------------------------------------------------------------------
(* process_uvc_gadget_device.                                              *)

Select ==
  /\ S!Select
  /\ loop' = "event" <=> events # << >>
  /\ UNCHANGED <<ctlVars, commits, wish>>

\* SETUP, and the data stage of everything but COMMIT.
EventControl ==
  /\ \/ C!SetupOther \/ C!SetupControl \/ C!SetupStreaming
     \/ C!DataProbe \/ C!DataTooLarge \/ C!DataControl
  /\ S!EventOther
  /\ UNCHANGED <<commits, wish>>

EventCommit == C!DataCommit /\ S!EventCommit /\ UNCHANGED <<commits, wish>>

EventStreamoff ==
  /\ C!Dequeue("STREAMOFF")
  /\ S!EventStreamoff
  /\ UNCHANGED <<control, pu_bmcontrol_val, request_error_code, brightness_val, probe,
                 commit, sensor, xfer, commits, wish>>

Video == (S!VideoIdle \/ S!VideoRefill) /\ UNCHANGED <<ctlVars, commits, wish>>

Loop == Select \/ EventControl \/ EventCommit \/ EventStreamoff \/ Video

Next == \/ Loop \/ HostData \/ HostStreamoff \/ HostTakes
        \/ \E r \in Requests : HostSetup(r)

\* The UVC thread keeps running its loop.
Spec == Init /\ [][Next]_vars /\ WF_vars(Loop)

-----------------------------------------------------------------------------
(* Properties.                                                             *)

(* When the gadget has handled all that the host sent and no call failed,  *)
(* the stream is in the state the host asked for last, however COMMITs,    *)
(* STREAMOFFs and other requests followed each other.                      *)
StreamFollowsHost ==
  events = << >> => /\ kstreaming <=> wish = "on"
                    /\ is_streaming <=> wish = "on"

(* COMMIT stores the size of the chosen frame but streams 640 x 480        *)
(* whatever was chosen: a frame the host gets is larger than the           *)
(* dwMaxVideoFrameSize it was promised for the 640 x 360 entry and for no  *)
(* other.                                                                  *)
FrameFits == is_streaming => imgsize <= commit.size \/ commit.frame = 3

(* A host that keeps the control endpoint busy does not starve the video:  *)
(* every emptied buffer is refilled, because the loop serves the video     *)
(* side after each event.                                                  *)
Refilled == S!Refilled

(* A COMMIT the host has sent ends with a running stream or with the       *)
(* STREAMOFF that followed it.                                             *)
CommitTakesEffect == (wish = "on") ~> (kstreaming \/ wish = "off")
=============================================================================
