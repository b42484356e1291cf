---------------------------- MODULE FlagShutdown ----------------------------
(***************************************************************************)
(* Ctrl+C of test1 (src/src/test_main1.cpp), whose threads are detached:   *)
(* the signal handler raises g_video_done and waits until the RGB thread,  *)
(* the UVC thread and main have each set their bit of g_all_done.  test    *)
(* (test_main.cpp) has the same handler, without the cameras.              *)
(*                                                                         *)
(* The kernel gives a signal of the process to the main thread, which does *)
(* not block it; main stands still while the handler runs.                 *)
(***************************************************************************)
EXTENDS CaptureLoop

VARIABLES
  pcM, pcR, pcU, pcH,   \* main, RGB thread, UVC thread, handler
  g_video_done,
  g_all_done,           \* the bits, as a set of threads
  seen                  \* what a thread has read of g_all_done in g_all_done |= bit

threadVars == <<pcM, pcR, pcU, pcH, buf, g_video_done, g_all_done, seen>>
vars == <<deviceVars, status, threadVars>>

Thread == {"rgb", "uvc", "main"}
Running == status = "running"

Init ==
  /\ CaptureInit
  /\ pcM = "openRgb" /\ pcR = "none" /\ pcU = "none" /\ pcH = "off"
  /\ buf = [m \in Module |-> 0]
  /\ g_video_done = FALSE /\ g_all_done = {} /\ seen = [t \in Thread |-> {}]

\* g_all_done |= bit, a load and a store.
Report(t, pc, next) ==
  \/ /\ pc = "report" /\ next = "store"
     /\ seen' = [seen EXCEPT ![t] = g_all_done] /\ UNCHANGED g_all_done
  \/ /\ pc = "store" /\ next = "ended"
     /\ g_all_done' = seen[t] \cup {t} /\ UNCHANGED seen

-----------------------------------------------------------------------------
(* main: an error code ends the process.                                   *)

MainRuns == Running /\ pcH = "off"

MainOpen ==
  /\ MainRuns /\ pcM \in {"openRgb", "openDepth"}
  /\ open_video_device(IF pcM = "openRgb" THEN "RGB" ELSE "DEPTH") \/ Exit
  /\ pcM' = IF pcM = "openRgb" THEN "openDepth" ELSE "create"
  /\ UNCHANGED <<pcR, pcU, pcH, buf, g_video_done, g_all_done, seen>>

\* open_uvc_gadget_device, both threads, and register_signal.
MainCreate ==
  /\ MainRuns /\ pcM = "create"
  /\ \/ pcR' = "init" /\ pcU' = "test" /\ pcM' = "initDepth" /\ UNCHANGED <<deviceVars, status>>
     \/ Exit /\ UNCHANGED <<pcR, pcU, pcM>>
  /\ UNCHANGED <<pcH, buf, g_video_done, g_all_done, seen>>

MainInitDepth ==
  /\ MainRuns /\ pcM = "initDepth"
  /\ \/ init_video_device("DEPTH") /\ pcM' = "start"
     \/ (init_ends("DEPTH") \/ Exit) /\ UNCHANGED pcM
  /\ UNCHANGED <<pcR, pcU, pcH, buf, g_video_done, g_all_done, seen>>

MainStart ==
  /\ MainRuns /\ pcM = "start"
  /\ \/ start_qbuf("DEPTH") /\ UNCHANGED pcM
     \/ start_streamon("DEPTH") /\ pcM' = "test"
  /\ UNCHANGED <<pcR, pcU, pcH, buf, g_video_done, g_all_done, seen>>

MainTest ==
  /\ MainRuns /\ pcM = "test"
  /\ pcM' = IF g_video_done THEN "close" ELSE "select"
  /\ UNCHANGED <<deviceVars, status, pcR, pcU, pcH, buf, g_video_done, g_all_done, seen>>

MainCapture ==
  /\ MainRuns
  /\ Capture("DEPTH", pcM, pcM', TRUE, "qbuf")
  /\ UNCHANGED <<pcR, pcU, pcH, g_video_done, g_all_done, seen>>

MainClose ==
  /\ MainRuns /\ pcM = "close"
  /\ uninit_and_close("DEPTH")
  /\ pcM' = "report"
  /\ UNCHANGED <<pcR, pcU, pcH, buf, g_video_done, g_all_done, seen>>

MainReport ==
  /\ MainRuns
  /\ Report("main", pcM, pcM')
  /\ UNCHANGED <<deviceVars, status, pcR, pcU, pcH, buf, g_video_done>>

Main == \/ MainOpen \/ MainCreate \/ MainInitDepth \/ MainStart \/ MainTest \/ MainCapture
        \/ MainClose \/ MainReport

-----------------------------------------------------------------------------
(* RGB thread and UVC thread.                                              *)

RgbInit ==
  /\ Running /\ pcR = "init"
  /\ \/ init_video_device("RGB") /\ pcR' = "start"
     \/ init_ends("RGB") /\ UNCHANGED pcR
     \/ pcR' = "ended" /\ UNCHANGED <<deviceVars, status>>
  /\ UNCHANGED <<pcM, pcU, pcH, buf, g_video_done, g_all_done, seen>>

RgbStart ==
  /\ Running /\ pcR = "start"
  /\ \/ start_qbuf("RGB") /\ UNCHANGED pcR
     \/ start_streamon("RGB") /\ pcR' = "test"
  /\ UNCHANGED <<pcM, pcU, pcH, buf, g_video_done, g_all_done, seen>>

RgbTest ==
  /\ Running /\ pcR = "test"
  /\ pcR' = IF g_video_done THEN "close" ELSE "select"
  /\ UNCHANGED <<deviceVars, status, pcM, pcU, pcH, buf, g_video_done, g_all_done, seen>>

RgbCapture ==
  /\ Running
  /\ Capture("RGB", pcR, pcR', TRUE, "qbuf")
  /\ UNCHANGED <<pcM, pcU, pcH, g_video_done, g_all_done, seen>>

RgbClose ==
  /\ Running /\ pcR = "close"
  /\ uninit_and_close("RGB")
  /\ pcR' = "report"
  /\ UNCHANGED <<pcM, pcU, pcH, buf, g_video_done, g_all_done, seen>>

RgbReport ==
  /\ Running
  /\ Report("rgb", pcR, pcR')
  /\ UNCHANGED <<deviceVars, status, pcM, pcU, pcH, buf, g_video_done>>

Rgb == RgbInit \/ RgbStart \/ RgbTest \/ RgbCapture \/ RgbClose \/ RgbReport

\* The loop around process_uvc_gadget_device, and close_uvc_gadget_device.
UvcLoop ==
  /\ Running /\ pcU = "test" /\ g_video_done
  /\ pcU' = "report"
  /\ UNCHANGED <<deviceVars, status, pcM, pcR, pcH, buf, g_video_done, g_all_done, seen>>

UvcReport ==
  /\ Running
  /\ Report("uvc", pcU, pcU')
  /\ UNCHANGED <<deviceVars, status, pcM, pcR, pcH, buf, g_video_done>>

Uvc == UvcLoop \/ UvcReport

-----------------------------------------------------------------------------
(* signal_handler, from register_signal on.                                *)

Signal ==
  /\ Running /\ pcH = "off" /\ pcR # "none"
  /\ pcH' = "clear"
  /\ UNCHANGED <<deviceVars, status, pcM, pcR, pcU, buf, g_video_done, g_all_done, seen>>

HandlerFlags ==
  /\ Running /\ pcH \in {"clear", "raise"}
  /\ IF pcH = "clear"
     THEN g_all_done' = {} /\ pcH' = "raise" /\ UNCHANGED g_video_done
     ELSE g_video_done' = TRUE /\ pcH' = "wait" /\ UNCHANGED g_all_done
  /\ UNCHANGED <<deviceVars, status, pcM, pcR, pcU, buf, seen>>

\* if (g_all_done == 7) break; then the devices, and exit(0).
HandlerExits ==
  /\ Running /\ pcH = "wait" /\ g_all_done = Thread
  /\ status' = "success"
  /\ UNCHANGED <<deviceVars, threadVars>>

Handler == HandlerFlags \/ HandlerExits

-----------------------------------------------------------------------------
Device(m) == Running /\ DeviceFills(m) /\ UNCHANGED threadVars

\* Waiting with usleep goes on for ever.
Waits == (~Running \/ pcH = "wait") /\ UNCHANGED vars

Next == Main \/ Rgb \/ Uvc \/ Signal \/ Handler \/ Waits \/ \E m \in Module : Device(m)

\* As in Shutdown: threads and handler run, cameras deliver.
Spec == /\ Init /\ [][Next]_vars
        /\ WF_vars(Main) /\ WF_vars(Rgb) /\ WF_vars(Uvc) /\ WF_vars(Handler)
        /\ \A m \in Module : WF_vars(Device(m))

(* "3. How to stop application.  1) Ctrl+c" (README.md): when the signal   *)
(* comes while both cameras stream, test1 ends.                            *)
Test1Stops == (pcH = "clear" /\ \A m \in Module : kstreaming[m]) ~> ~Running
=============================================================================
