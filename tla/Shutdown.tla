------------------------------ MODULE Shutdown ------------------------------
(***************************************************************************)
(* Start, run and Ctrl+C of the four programs whose signal handler joins   *)
(* the threads: rgbd_uvc_main (with TRGBDClass::Init and Uninit), rgbd_uvc *)
(* (src/src/test_rgbd_uvc.cpp), rgbd (test_rgbd.cpp) and uvc               *)
(* (test_uvc.cpp).  They differ in their devices, in the order of their    *)
(* steps and in how the handler ends.                                      *)
(*                                                                         *)
(* The handler runs on the main thread, between any two of its steps, and  *)
(* when it returns the main thread goes on where it was.  The object of    *)
(* rgbd_uvc_main is larger than any malloc arena chunk, so delete unmaps   *)
(* it and a later access is a segmentation fault.                          *)
(***************************************************************************)
EXTENDS CaptureLoop

CONSTANT Programs     \* the programs to look at

AllPrograms == {"rgbd_uvc_main", "rgbd_uvc", "rgbd", "uvc"}
ASSUME ProgramsAssumption == Programs \subseteq AllPrograms

VARIABLES
  program,         \* which one this is
  pcM, pcR, pcU,   \* main thread, RGB thread, UVC thread
  pcH,             \* signal_handler: "off" until the signal
  done,            \* which of g_video_done, g_depth_done, g_uvc_done are set
  uvcOpen,         \* the gadget's device structure exists
  object,          \* the thread data exist
  peer             \* who reads rgbd's pictures: "up", "stuck" or "closed"

threadVars == <<program, pcM, pcR, pcU, pcH, buf, done, uvcOpen, object, peer>>
vars == <<deviceVars, status, threadVars>>

Running == status = "running"
WithCameras == program # "uvc"
WithUvc     == program # "rgbd"
WithClass   == program = "rgbd_uvc_main"

-----------------------------------------------------------------------------
(* The steps of main up to its loop, and those of the signal handler.      *)

StartRgbdUvcMain ==
  <<"openRgb", "openDepth", "openUvc", "createRgb", "createUvc", "initDepth", "start", "test">>
StartRgbdUvc ==
  <<"openRgb", "openDepth", "openUvc", "createRgb", "createUvc", "initDepth", "start", "test">>
StartRgbd == <<"openRgb", "openDepth", "createRgb", "initDepth", "start", "test">>
StartUvc  == <<"openUvc", "createUvc", "sleep">>

StartSteps == CASE program = "rgbd_uvc_main" -> StartRgbdUvcMain
                [] program = "rgbd_uvc"      -> StartRgbdUvc
                [] program = "rgbd"          -> StartRgbd
                [] program = "uvc"           -> StartUvc

Uninit == <<"stopRgb", "stopDepth", "flags", "joinRgb", "joinUvc", "closeRgb", "closeDepth",
            "closeUvc", "delete">>
HandleRgbdUvc == <<"stopRgb", "stopDepth", "flags", "joinRgb", "joinUvc", "closeRgb",
                   "closeDepth", "closeUvc", "exit">>
HandleRgbd == <<"stopRgb", "stopDepth", "flags", "joinRgb", "closeRgb", "closeDepth", "exit">>
HandleUvc  == <<"flags", "joinUvc", "closeUvc", "exit">>

HandlerSteps == CASE program = "rgbd_uvc_main" -> Uninit
                  [] program = "rgbd_uvc"      -> HandleRgbdUvc
                  [] program = "rgbd"          -> HandleRgbd
                  [] program = "uvc"           -> HandleUvc

\* The step after pc.
Follow(steps, pc) == LET i == CHOOSE j \in DOMAIN steps : steps[j] = pc IN steps[i+1]

Init ==
  /\ CaptureInit
  /\ program \in Programs
  /\ pcM = Head(StartSteps) /\ pcR = "none" /\ pcU = "none" /\ pcH = "off"
  /\ buf = [m \in Module |-> 0]
  /\ done = {} /\ uvcOpen = FALSE /\ object = TRUE /\ peer = "up"

-----------------------------------------------------------------------------
(* Main thread, while the handler does not run on it.                      *)

MainRuns == Running /\ pcH \in {"off", "returned"}

\* An error code: main of rgbd_uvc_main prints it and goes to its loop all
\* the same, the others return it.
MainFails ==
  IF WithClass THEN pcM' = "test" /\ UNCHANGED <<deviceVars, status>>
               ELSE Exit /\ UNCHANGED pcM

MainOpen ==
  /\ MainRuns /\ pcM \in {"openRgb", "openDepth"}
  /\ LET m == IF pcM = "openRgb" THEN "RGB" ELSE "DEPTH"
     IN  open_video_device(m) \/ Exit
  /\ pcM' = Follow(StartSteps, pcM)
  /\ UNCHANGED <<program, pcR, pcU, pcH, buf, done, uvcOpen, object, peer>>

MainOpenUvc ==
  /\ MainRuns /\ pcM = "openUvc"
  /\ \/ /\ uvcOpen' = TRUE
        /\ pcM' = Follow(StartSteps, pcM) /\ UNCHANGED <<deviceVars, status>>
     \/ UNCHANGED uvcOpen /\ MainFails
  /\ UNCHANGED <<program, pcR, pcU, pcH, buf, done, object, peer>>

MainCreateRgb ==
  /\ MainRuns /\ pcM = "createRgb"
  /\ \/ /\ pcR' = IF program = "rgbd" THEN "connect" ELSE "init"
        /\ pcM' = Follow(StartSteps, pcM) /\ UNCHANGED <<deviceVars, status>>
     \/ UNCHANGED pcR /\ MainFails
  /\ UNCHANGED <<program, pcU, pcH, buf, done, uvcOpen, object, peer>>

MainCreateUvc ==
  /\ MainRuns /\ pcM = "createUvc"
  /\ \/ /\ pcU' = "init"
        /\ pcM' = Follow(StartSteps, pcM) /\ UNCHANGED <<deviceVars, status>>
     \/ UNCHANGED pcU /\ MainFails
  /\ UNCHANGED <<program, pcR, pcH, buf, done, uvcOpen, object, peer>>

MainInitDepth ==
  /\ MainRuns /\ pcM = "initDepth"
  /\ \/ init_video_device("DEPTH") /\ pcM' = Follow(StartSteps, pcM)
     \/ init_ends("DEPTH") /\ UNCHANGED pcM
     \/ fd["DEPTH"] = "open" /\ MainFails
  /\ UNCHANGED <<program, pcR, pcU, pcH, buf, done, uvcOpen, object, peer>>

MainStart ==
  /\ MainRuns /\ pcM = "start"
  /\ \/ start_qbuf("DEPTH") /\ UNCHANGED pcM
     \/ start_streamon("DEPTH") /\ pcM' = Follow(StartSteps, pcM)
  /\ UNCHANGED <<program, pcR, pcU, pcH, buf, done, uvcOpen, object, peer>>

\* while (!c->thr_data.g_depth_done).  The flag is set by the handler only,
\* which exits, or deletes the object before the main thread can look again.
MainTest ==
  /\ MainRuns /\ pcM = "test"
  /\ IF object THEN pcM' = "select" /\ UNCHANGED <<deviceVars, status>>
               ELSE Crash /\ UNCHANGED pcM
  /\ UNCHANGED <<program, pcR, pcU, pcH, buf, done, uvcOpen, object, peer>>

MainCapture ==
  /\ MainRuns
  /\ Capture("DEPTH", pcM, pcM', object, "qbuf")
  /\ UNCHANGED <<program, pcR, pcU, pcH, done, uvcOpen, object, peer>>

Main == \/ MainOpen \/ MainOpenUvc \/ MainCreateRgb \/ MainCreateUvc \/ MainInitDepth
        \/ MainStart \/ MainTest \/ MainCapture

-----------------------------------------------------------------------------
(* RGB thread: rgb_capture_func.                                           *)

\* rgbd connects to its peer first.
RgbConnect ==
  /\ Running /\ pcR = "connect"
  /\ pcR' = "init"
  /\ Exit \/ UNCHANGED <<deviceVars, status>>
  /\ UNCHANGED <<program, pcM, pcU, pcH, buf, done, uvcOpen, object, peer>>

RgbInit ==
  /\ Running /\ pcR = "init"
  /\ \/ init_video_device("RGB") /\ pcR' = "start"
     \/ init_ends("RGB") /\ UNCHANGED pcR
     \/ fd["RGB"] = "open" /\ pcR' = "ended" /\ UNCHANGED <<deviceVars, status>>
  /\ UNCHANGED <<program, pcM, pcU, pcH, buf, done, uvcOpen, object, peer>>

RgbStart ==
  /\ Running /\ pcR = "start"
  /\ \/ start_qbuf("RGB") /\ UNCHANGED pcR
     \/ start_streamon("RGB") /\ pcR' = "test"
  /\ UNCHANGED <<program, pcM, pcU, pcH, buf, done, uvcOpen, object, peer>>

RgbTest ==
  /\ Running /\ pcR = "test"
  /\ pcR' = IF "video" \in done THEN "ended" ELSE "select"
  /\ UNCHANGED <<deviceVars, status, program, pcM, pcU, pcH, buf, done, uvcOpen, object, peer>>

RgbCapture ==
  /\ Running
  /\ Capture("RGB", pcR, pcR', object, IF program = "rgbd" THEN "send" ELSE "qbuf")
  /\ UNCHANGED <<program, pcM, pcU, pcH, done, uvcOpen, object, peer>>

\* rgbd sends the picture, and waits while the peer does not read.  To a
\* closed peer the first send fails unnoticed, a later one raises SIGPIPE.
RgbSend ==
  /\ Running /\ pcR = "send" /\ peer # "stuck"
  /\ pcR' = "qbuf"
  /\ \/ UNCHANGED <<deviceVars, status>>
     \/ peer = "closed" /\ Crash
  /\ UNCHANGED <<program, pcM, pcU, pcH, buf, done, uvcOpen, object, peer>>

Rgb == RgbConnect \/ RgbInit \/ RgbStart \/ RgbTest \/ RgbCapture \/ RgbSend

-----------------------------------------------------------------------------
(* UVC thread: usb_device_func.  process_uvc_gadget_device returns after   *)
(* at most two seconds; what it does is in UvcGadget.                      *)

UvcInit ==
  /\ Running /\ pcU = "init"
  /\ pcU' = "test"
  /\ UNCHANGED <<deviceVars, status, program, pcM, pcR, pcH, buf, done, uvcOpen, object, peer>>

UvcTest ==
  /\ Running /\ pcU = "test"
  /\ pcU' = IF "uvc" \in done THEN "ended" ELSE "process"
  /\ UNCHANGED <<deviceVars, status, program, pcM, pcR, pcH, buf, done, uvcOpen, object, peer>>

UvcProcess ==
  /\ Running /\ pcU = "process"
  /\ pcU' = "test"
  /\ UNCHANGED <<deviceVars, status, program, pcM, pcR, pcH, buf, done, uvcOpen, object, peer>>

Uvc == UvcInit \/ UvcTest \/ UvcProcess

-----------------------------------------------------------------------------
(* signal_handler.                                                         *)

\* Ctrl+C, on the main thread wherever it is.  The signal is blocked while
\* its handler runs.
Signal ==
  /\ Running /\ pcH = "off"
  /\ pcH' = Head(HandlerSteps)
  /\ UNCHANGED <<deviceVars, status, program, pcM, pcR, pcU, buf, done, uvcOpen, object, peer>>

\* Ctrl+C once more: c->Uninit() of a deleted object is a virtual call.
SignalAgain ==
  /\ Running /\ pcH = "returned"
  /\ Crash
  /\ UNCHANGED threadVars

HandlerStop ==
  /\ Running /\ pcH \in {"stopRgb", "stopDepth"}
  /\ stop_video_capture(IF pcH = "stopRgb" THEN "RGB" ELSE "DEPTH")
  /\ pcH' = Follow(HandlerSteps, pcH)
  /\ UNCHANGED <<program, pcM, pcR, pcU, buf, done, uvcOpen, object, peer>>

\* Mutant: one flag is forgotten.
Flags_NoUvc == IF WithCameras THEN {"video", "depth"} ELSE {}
\* The flags the program has.
Flags == (IF WithCameras THEN {"video", "depth"} ELSE {}) \cup (IF WithUvc THEN {"uvc"} ELSE {})

HandlerFlags ==
  /\ Running /\ pcH = "flags"
  /\ done' = Flags
  /\ pcH' = Follow(HandlerSteps, pcH)
  /\ UNCHANGED <<deviceVars, status, program, pcM, pcR, pcU, buf, uvcOpen, object, peer>>

\* Mutant: nothing is waited for.
Joined_Detached(pc) == TRUE
Joined(pc) == pc = "ended"

\* pthread_join; of a thread that was never created it is a crash.
HandlerJoin ==
  /\ Running /\ pcH \in {"joinRgb", "joinUvc"}
  /\ LET pc == IF pcH = "joinRgb" THEN pcR ELSE pcU
     IN  \/ pc = "none" /\ Crash /\ UNCHANGED pcH
         \/ Joined(pc) /\ pcH' = Follow(HandlerSteps, pcH) /\ UNCHANGED <<deviceVars, status>>
  /\ UNCHANGED <<program, pcM, pcR, pcU, buf, done, uvcOpen, object, peer>>

HandlerClose ==
  /\ Running /\ pcH \in {"closeRgb", "closeDepth"}
  /\ uninit_and_close(IF pcH = "closeRgb" THEN "RGB" ELSE "DEPTH")
  /\ pcH' = Follow(HandlerSteps, pcH)
  /\ UNCHANGED <<program, pcM, pcR, pcU, buf, done, uvcOpen, object, peer>>

HandlerCloseUvc ==
  /\ Running /\ pcH = "closeUvc"
  /\ uvcOpen' = FALSE
  /\ pcH' = Follow(HandlerSteps, pcH)
  /\ UNCHANGED <<deviceVars, status, program, pcM, pcR, pcU, buf, done, object, peer>>

\* delete c, and back to the main thread.
HandlerReturns ==
  /\ Running /\ pcH = "delete"
  /\ object' = FALSE
  /\ pcH' = "returned"
  /\ UNCHANGED <<deviceVars, status, program, pcM, pcR, pcU, buf, done, uvcOpen, peer>>

\* exit(0)
HandlerExits ==
  /\ Running /\ pcH = "exit"
  /\ status' = "success"
  /\ UNCHANGED <<deviceVars, threadVars>>

Handler == \/ HandlerStop \/ HandlerFlags \/ HandlerJoin \/ HandlerClose \/ HandlerCloseUvc
           \/ HandlerReturns \/ HandlerExits

-----------------------------------------------------------------------------
Device(m) == Running /\ DeviceFills(m) /\ UNCHANGED threadVars

\* The peer of rgbd stops reading for good, or closes.
Peer ==
  /\ Running /\ program = "rgbd" /\ peer = "up"
  /\ peer' \in {"stuck", "closed"}
  /\ UNCHANGED <<deviceVars, status, program, pcM, pcR, pcU, pcH, buf, done, uvcOpen, object>>

\* rgbd waits in send for a peer that does not read.
Stalled == pcR = "send" /\ peer = "stuck"

\* The end of the process, or of all progress.
Ended == (~Running \/ Stalled) /\ UNCHANGED vars

Next == \/ Main \/ Rgb \/ Uvc \/ Signal \/ SignalAgain \/ Handler
        \/ Peer \/ Ended \/ \E m \in Module : Device(m)

\* The operating system runs every thread, the handler is part of the main
\* thread, and a camera that streams fills its buffers.  No fairness for the
\* signal or the peer.
Spec == /\ Init /\ [][Next]_vars
        /\ WF_vars(Main) /\ WF_vars(Rgb) /\ WF_vars(Uvc) /\ WF_vars(Handler)
        /\ \A m \in Module : WF_vars(Device(m))

-----------------------------------------------------------------------------
(* Properties.                                                             *)

(* Types of the devices, the threads and the flags.                        *)
TypeOK ==
  /\ CaptureTypes
  /\ program \in Programs
  /\ pcM \in {"openRgb", "openDepth", "openUvc", "createRgb", "createUvc", "initDepth",
              "start", "test", "select", "dqbuf", "copy", "qbuf", "sleep"}
  /\ pcR \in {"none", "connect", "init", "start", "test", "select", "dqbuf", "copy", "send",
              "qbuf", "ended"}
  /\ pcU \in {"none", "init", "test", "process", "ended"}
  /\ buf \in [Module -> BufIndex]
  /\ done \subseteq {"video", "depth", "uvc"}

\* The buffer a thread has dequeued and not queued again.
Held(m) == LET pc == IF m = "RGB" THEN pcR ELSE pcM
           IN  IF pc \in {"copy", "send", "qbuf"} THEN <<buf[m]>> ELSE << >>

(* While a device streams, until the handler stops it, every buffer is in  *)
(* one place: to be filled, holding a frame, or with the thread.  None is  *)
(* lost (the camera would stop in the end), and the device never writes    *)
(* the buffer that dequeue_and_capture copies.                             *)
BuffersConserved ==
  \A m \in Module : Running /\ pcH = "off" /\ kstreaming[m] =>
    LET all == kqueue[m] \o kdone[m] \o Held(m)
    IN  Len(all) = NBufs /\ {all[i] : i \in 1 .. NBufs} = BufIndex

(* The handler takes nothing away from a running thread: until             *)
(* rgb_capture_func and usb_device_func have returned, their devices are   *)
(* open, the buffers they copy from are mapped and their data exist.       *)
TeardownAfterJoin ==
  /\ pcR \notin {"none", "ended"} => fd["RGB"] = "open" /\ object
  /\ pcR = "copy" => buf["RGB"] \in mapped["RGB"]
  /\ pcU \notin {"none", "ended"} => uvcOpen /\ object

\* STREAMOFF came between the last QBUF and the STREAMON of rgb_capture_func:
\* the camera streams without a buffer.
Starved == pcR = "select" /\ kstreaming["RGB"] /\ kqueue["RGB"] = << >> /\ kdone["RGB"] = << >>

(* The handler does not hang: wherever the threads are when the signal     *)
(* comes, also in select, its joins return or the process ends, and every  *)
(* program but rgbd_uvc_main stops.  There are two exceptions: the signal  *)
(* in the middle of start_video_capture, and a peer that stops reading.    *)
HandlerFinishes ==
  (pcH # "off") ~> (~Running \/ Starved \/ Stalled \/ (WithClass /\ pcH = "returned"))

(* A frame that a camera has delivered is dequeued, unless the stream is   *)
(* stopped or the device is closed first, or the peer of rgbd stalls.      *)
FramesDequeued ==
  \A m \in Module : \A b \in BufIndex :
    (\E i \in 1 .. Len(kdone[m]) : kdone[m][i] = b)
      ~> \/ ~Running \/ fd[m] = "closed" \/ Stalled
         \/ ~\E i \in 1 .. Len(kdone[m]) : kdone[m][i] = b

(* "3. How to stop application.  1) Ctrl+c" (README.md): when the signal   *)
(* comes while both cameras stream, the program ends.                      *)
CtrlCStops == (pcH = "stopRgb" /\ \A m \in Module : kstreaming[m]) ~> ~Running
=============================================================================
