--------------------------- MODULE ShutdownProofs ---------------------------
(***************************************************************************)
(* Start and shutdown of the four programs for every number of buffers:    *)
(* the handler takes nothing away from a running thread, and no buffer is  *)
(* lost.                                                                   *)
(***************************************************************************)
EXTENDS Shutdown, CaptureProofs

-----------------------------------------------------------------------------
(* The steps of main and of the handler.                                   *)

(* Follow goes to the next step when each occurs once.                     *)
LEMMA FollowAt ==
  ASSUME NEW steps, NEW i \in DOMAIN steps, \A j \in DOMAIN steps : steps[j] = steps[i] => j = i
  PROVE  Follow(steps, steps[i]) = steps[i+1]
<1>1. (CHOOSE j \in DOMAIN steps : steps[j] = steps[i]) = i
  OBVIOUS
<1> QED
  BY <1>1 DEF Follow

(* The order of the steps of main: with both cameras and the gadget,       *)
LEMMA OrderStartBoth ==
  /\ Follow(StartRgbdUvcMain, "openRgb") = "openDepth"
  /\ Follow(StartRgbdUvcMain, "openDepth") = "openUvc"
  /\ Follow(StartRgbdUvcMain, "openUvc") = "createRgb"
  /\ Follow(StartRgbdUvcMain, "createRgb") = "createUvc"
  /\ Follow(StartRgbdUvcMain, "createUvc") = "initDepth"
  /\ Follow(StartRgbdUvcMain, "initDepth") = "start"
  /\ Follow(StartRgbdUvcMain, "start") = "test"
<1> DEFINE s == StartRgbdUvcMain
<1>1. /\ DOMAIN s = 1 .. 8
      /\ s[1] = "openRgb" /\ s[2] = "openDepth" /\ s[3] = "openUvc" /\ s[4] = "createRgb"
      /\ s[5] = "createUvc" /\ s[6] = "initDepth" /\ s[7] = "start" /\ s[8] = "test"
  BY DEF StartRgbdUvcMain
<1> HIDE DEF s
<1>2. \A i, j \in 1 .. 8 : s[i] = s[j] => i = j
  BY <1>1
<1>3. \A i \in 1 .. 7 : Follow(s, s[i]) = s[i+1]
  BY <1>1, <1>2, FollowAt
<1> QED
  BY <1>1, <1>3 DEF s

(* with the cameras only,                                                  *)
LEMMA OrderStartRgbd ==
  /\ Follow(StartRgbd, "openRgb") = "openDepth"
  /\ Follow(StartRgbd, "openDepth") = "createRgb"
  /\ Follow(StartRgbd, "createRgb") = "initDepth"
  /\ Follow(StartRgbd, "initDepth") = "start"
  /\ Follow(StartRgbd, "start") = "test"
<1> DEFINE s == StartRgbd
<1>1. /\ DOMAIN s = 1 .. 6
      /\ s[1] = "openRgb" /\ s[2] = "openDepth" /\ s[3] = "createRgb" /\ s[4] = "initDepth"
      /\ s[5] = "start" /\ s[6] = "test"
  BY DEF StartRgbd
<1> HIDE DEF s
<1>2. \A i, j \in 1 .. 6 : s[i] = s[j] => i = j
  BY <1>1
<1>3. \A i \in 1 .. 5 : Follow(s, s[i]) = s[i+1]
  BY <1>1, <1>2, FollowAt
<1> QED
  BY <1>1, <1>3 DEF s

(* and with the gadget only.                                               *)
LEMMA OrderStartUvc ==
  /\ Follow(StartUvc, "openUvc") = "createUvc"
  /\ Follow(StartUvc, "createUvc") = "sleep"
<1> DEFINE s == StartUvc
<1>1. /\ DOMAIN s = 1 .. 3
      /\ s[1] = "openUvc" /\ s[2] = "createUvc" /\ s[3] = "sleep"
  BY DEF StartUvc
<1> HIDE DEF s
<1>2. \A i, j \in 1 .. 3 : s[i] = s[j] => i = j
  BY <1>1
<1>3. \A i \in 1 .. 2 : Follow(s, s[i]) = s[i+1]
  BY <1>1, <1>2, FollowAt
<1> QED
  BY <1>1, <1>3 DEF s

(* The order of the steps of the handler, program by program.              *)
LEMMA OrderUninit ==
  /\ Follow(Uninit, "stopRgb") = "stopDepth"
  /\ Follow(Uninit, "stopDepth") = "flags"
  /\ Follow(Uninit, "flags") = "joinRgb"
  /\ Follow(Uninit, "joinRgb") = "joinUvc"
  /\ Follow(Uninit, "joinUvc") = "closeRgb"
  /\ Follow(Uninit, "closeRgb") = "closeDepth"
  /\ Follow(Uninit, "closeDepth") = "closeUvc"
  /\ Follow(Uninit, "closeUvc") = "delete"
<1> DEFINE s == Uninit
<1>1. /\ DOMAIN s = 1 .. 9
      /\ s[1] = "stopRgb" /\ s[2] = "stopDepth" /\ s[3] = "flags" /\ s[4] = "joinRgb"
      /\ s[5] = "joinUvc" /\ s[6] = "closeRgb" /\ s[7] = "closeDepth" /\ s[8] = "closeUvc"
      /\ s[9] = "delete"
  BY DEF Uninit
<1> HIDE DEF s
<1>2. \A i, j \in 1 .. 9 : s[i] = s[j] => i = j
  BY <1>1
<1>3. \A i \in 1 .. 8 : Follow(s, s[i]) = s[i+1]
  BY <1>1, <1>2, FollowAt
<1> QED
  BY <1>1, <1>3 DEF s

(* The handler of rgbd_uvc follows its order.                              *)
LEMMA OrderHandleBoth ==
  /\ Follow(HandleRgbdUvc, "stopRgb") = "stopDepth"
  /\ Follow(HandleRgbdUvc, "stopDepth") = "flags"
  /\ Follow(HandleRgbdUvc, "flags") = "joinRgb"
  /\ Follow(HandleRgbdUvc, "joinRgb") = "joinUvc"
  /\ Follow(HandleRgbdUvc, "joinUvc") = "closeRgb"
  /\ Follow(HandleRgbdUvc, "closeRgb") = "closeDepth"
  /\ Follow(HandleRgbdUvc, "closeDepth") = "closeUvc"
  /\ Follow(HandleRgbdUvc, "closeUvc") = "exit"
<1> DEFINE s == HandleRgbdUvc
<1>1. /\ DOMAIN s = 1 .. 9
      /\ s[1] = "stopRgb" /\ s[2] = "stopDepth" /\ s[3] = "flags" /\ s[4] = "joinRgb"
      /\ s[5] = "joinUvc" /\ s[6] = "closeRgb" /\ s[7] = "closeDepth" /\ s[8] = "closeUvc"
      /\ s[9] = "exit"
  BY DEF HandleRgbdUvc
<1> HIDE DEF s
<1>2. \A i, j \in 1 .. 9 : s[i] = s[j] => i = j
  BY <1>1
<1>3. \A i \in 1 .. 8 : Follow(s, s[i]) = s[i+1]
  BY <1>1, <1>2, FollowAt
<1> QED
  BY <1>1, <1>3 DEF s

(* The handler of rgbd follows its order.                                  *)
LEMMA OrderHandleRgbd ==
  /\ Follow(HandleRgbd, "stopRgb") = "stopDepth"
  /\ Follow(HandleRgbd, "stopDepth") = "flags"
  /\ Follow(HandleRgbd, "flags") = "joinRgb"
  /\ Follow(HandleRgbd, "joinRgb") = "closeRgb"
  /\ Follow(HandleRgbd, "closeRgb") = "closeDepth"
  /\ Follow(HandleRgbd, "closeDepth") = "exit"
<1> DEFINE s == HandleRgbd
<1>1. /\ DOMAIN s = 1 .. 7
      /\ s[1] = "stopRgb" /\ s[2] = "stopDepth" /\ s[3] = "flags" /\ s[4] = "joinRgb"
      /\ s[5] = "closeRgb" /\ s[6] = "closeDepth" /\ s[7] = "exit"
  BY DEF HandleRgbd
<1> HIDE DEF s
<1>2. \A i, j \in 1 .. 7 : s[i] = s[j] => i = j
  BY <1>1
<1>3. \A i \in 1 .. 6 : Follow(s, s[i]) = s[i+1]
  BY <1>1, <1>2, FollowAt
<1> QED
  BY <1>1, <1>3 DEF s

(* The handler of uvc follows its order.                                   *)
LEMMA OrderHandleUvc ==
  /\ Follow(HandleUvc, "flags") = "joinUvc"
  /\ Follow(HandleUvc, "joinUvc") = "closeUvc"
  /\ Follow(HandleUvc, "closeUvc") = "exit"
<1> DEFINE s == HandleUvc
<1>1. /\ DOMAIN s = 1 .. 4
      /\ s[1] = "flags" /\ s[2] = "joinUvc" /\ s[3] = "closeUvc" /\ s[4] = "exit"
  BY DEF HandleUvc
<1> HIDE DEF s
<1>2. \A i, j \in 1 .. 4 : s[i] = s[j] => i = j
  BY <1>1
<1>3. \A i \in 1 .. 3 : Follow(s, s[i]) = s[i+1]
  BY <1>1, <1>2, FollowAt
<1> QED
  BY <1>1, <1>3 DEF s

(* The same for the program that runs.                                     *)
LEMMA MainFollow ==
  ASSUME program \in Programs
  PROVE  /\ program # "uvc" =>
              /\ Follow(StartSteps, "openRgb") = "openDepth"
              /\ Follow(StartSteps, "initDepth") = "start"
              /\ Follow(StartSteps, "start") = "test"
         /\ program = "rgbd" =>
              /\ Follow(StartSteps, "openDepth") = "createRgb"
              /\ Follow(StartSteps, "createRgb") = "initDepth"
         /\ program \in {"rgbd_uvc_main", "rgbd_uvc"} =>
              /\ Follow(StartSteps, "openDepth") = "openUvc"
              /\ Follow(StartSteps, "openUvc") = "createRgb"
              /\ Follow(StartSteps, "createRgb") = "createUvc"
              /\ Follow(StartSteps, "createUvc") = "initDepth"
         /\ program = "uvc" =>
              /\ Follow(StartSteps, "openUvc") = "createUvc"
              /\ Follow(StartSteps, "createUvc") = "sleep"
<1>1. CASE program = "rgbd"
  <2>1. StartSteps = StartRgbd
    BY <1>1 DEF StartSteps
  <2> QED
    BY <1>1, <2>1, OrderStartRgbd
<1>2. CASE program \in {"rgbd_uvc_main", "rgbd_uvc"}
  <2>1. StartSteps = StartRgbdUvcMain
    BY <1>2 DEF StartSteps, StartRgbdUvcMain, StartRgbdUvc
  <2> QED
    BY <1>2, <2>1, OrderStartBoth
<1>3. CASE program = "uvc"
  <2>1. StartSteps = StartUvc
    BY <1>3 DEF StartSteps
  <2> QED
    BY <1>3, <2>1, OrderStartUvc
<1> QED
  BY <1>1, <1>2, <1>3, ProgramsAssumption DEF AllPrograms

(* Each handler follows its order.                                         *)
LEMMA HandlerFollow ==
  ASSUME program \in Programs
  PROVE  /\ program # "uvc" =>
              /\ Follow(HandlerSteps, "stopRgb") = "stopDepth"
              /\ Follow(HandlerSteps, "stopDepth") = "flags"
              /\ Follow(HandlerSteps, "flags") = "joinRgb"
              /\ Follow(HandlerSteps, "closeRgb") = "closeDepth"
         /\ program = "rgbd" =>
              /\ Follow(HandlerSteps, "joinRgb") = "closeRgb"
              /\ Follow(HandlerSteps, "closeDepth") = "exit"
         /\ program \in {"rgbd_uvc_main", "rgbd_uvc"} =>
              /\ Follow(HandlerSteps, "joinRgb") = "joinUvc"
              /\ Follow(HandlerSteps, "joinUvc") = "closeRgb"
              /\ Follow(HandlerSteps, "closeDepth") = "closeUvc"
         /\ program = "rgbd_uvc_main" => Follow(HandlerSteps, "closeUvc") = "delete"
         /\ program = "rgbd_uvc" => Follow(HandlerSteps, "closeUvc") = "exit"
         /\ program = "uvc" =>
              /\ Follow(HandlerSteps, "flags") = "joinUvc"
              /\ Follow(HandlerSteps, "joinUvc") = "closeUvc"
              /\ Follow(HandlerSteps, "closeUvc") = "exit"
<1>1. CASE program = "rgbd"
  <2>1. HandlerSteps = HandleRgbd
    BY <1>1 DEF HandlerSteps
  <2> QED
    BY <1>1, <2>1, OrderHandleRgbd
<1>2. CASE program = "rgbd_uvc"
  <2>1. HandlerSteps = HandleRgbdUvc
    BY <1>2 DEF HandlerSteps
  <2> QED
    BY <1>2, <2>1, OrderHandleBoth
<1>3. CASE program = "rgbd_uvc_main"
  <2>1. HandlerSteps = Uninit
    BY <1>3 DEF HandlerSteps
  <2> QED
    BY <1>3, <2>1, OrderUninit
<1>4. CASE program = "uvc"
  <2>1. HandlerSteps = HandleUvc
    BY <1>4 DEF HandlerSteps
  <2> QED
    BY <1>4, <2>1, OrderHandleUvc
<1> QED
  BY <1>1, <1>2, <1>3, <1>4, ProgramsAssumption DEF AllPrograms

(* And where they start.                                                   *)
LEMMA Starts ==
  ASSUME program \in Programs
  PROVE  /\ Head(StartSteps) = IF program = "uvc" THEN "openUvc" ELSE "openRgb"
         /\ Head(HandlerSteps) = IF program = "uvc" THEN "flags" ELSE "stopRgb"
<1>1. program \in {"rgbd_uvc_main", "rgbd_uvc", "rgbd", "uvc"}
  BY ProgramsAssumption DEF AllPrograms
<1>2. Head(StartSteps) = IF program = "uvc" THEN "openUvc" ELSE "openRgb"
  BY <1>1 DEF StartSteps, StartRgbdUvcMain, StartRgbdUvc, StartRgbd, StartUvc
<1>3. Head(HandlerSteps) = IF program = "uvc" THEN "flags" ELSE "stopRgb"
  BY <1>1 DEF HandlerSteps, Uninit, HandleRgbdUvc, HandleRgbd, HandleUvc
<1> QED
  BY <1>2, <1>3

-----------------------------------------------------------------------------
(* Type correctness, and the steps that each program has.                  *)

ProgramPcs ==
  /\ program = "uvc" => /\ pcM \in {"openUvc", "createUvc", "sleep"} /\ pcR = "none"
                        /\ pcH \in {"off", "flags", "joinUvc", "closeUvc", "exit"}
  /\ program # "uvc" => pcM # "sleep"
  /\ program = "rgbd" => /\ pcM \notin {"openUvc", "createUvc"} /\ pcU = "none"
                         /\ pcH \in {"off", "stopRgb", "stopDepth", "flags", "joinRgb",
                                     "closeRgb", "closeDepth", "exit"}
  /\ program = "rgbd_uvc" => pcH \in {"off", "stopRgb", "stopDepth", "flags", "joinRgb", "joinUvc",
                                      "closeRgb", "closeDepth", "closeUvc", "exit"}
  /\ WithClass => pcH \in {"off", "stopRgb", "stopDepth", "flags", "joinRgb", "joinUvc",
                           "closeRgb", "closeDepth", "closeUvc", "delete", "returned"}

Types == TypeOK /\ Devices /\ ProgramPcs

\* The types of everything but the devices.
ThreadTypes ==
  /\ program \in Programs
  /\ pcM \in {"openRgb", "openDepth", "openUvc", "createRgb", "createUvc", "initDepth",
              "start", "test", "select", "dqbuf", "copy", "qbuf", "sleep"}
  /\ pcR \in {"none", "connect", "init", "start", "test", "select", "dqbuf", "copy", "send",
              "qbuf", "ended"}
  /\ pcU \in {"none", "init", "test", "process", "ended"}
  /\ buf \in [Module -> BufIndex]
  /\ done \subseteq {"video", "depth", "uvc"}

(* Types is the conjunction of its three parts.                            *)
LEMMA TypeParts == Types <=> Devices /\ ThreadTypes /\ ProgramPcs
BY DEF Types, TypeOK, Devices, ThreadTypes

(* There are four programs.                                                *)
LEMMA ProgramCases == ASSUME ThreadTypes PROVE program \in {"rgbd_uvc_main", "rgbd_uvc", "rgbd", "uvc"}
BY ProgramsAssumption DEF ThreadTypes, AllPrograms

(* All four programs start well typed.                                     *)
LEMMA TypeInit == Init => Types
<1> SUFFICES ASSUME Init PROVE Types
  OBVIOUS
<1>1. program \in Programs /\ pcM = (IF program = "uvc" THEN "openUvc" ELSE "openRgb")
  BY Starts DEF Init
<1>2. << >> \in Seq(BufIndex) /\ 0 \in BufIndex /\ 0 \in 0 .. NBufs
  BY EmptySeq, CaptureAssumption DEF BufIndex
<1>3. Devices
  BY <1>2 DEF Init, CaptureInit, Devices, CaptureTypes
<1>4. ThreadTypes
  BY <1>1, <1>2 DEF Init, ThreadTypes
<1>5. ProgramPcs
  BY <1>1 DEF Init, ProgramPcs, WithClass
<1> QED
  BY <1>3, <1>4, <1>5, TypeParts

(* The main thread.                                                        *)
LEMMA MainTypes == ASSUME Types, Main PROVE Types'
<1>0. Devices /\ ThreadTypes /\ ProgramPcs
  BY TypeParts
<1>a. program \in Programs /\ program \in {"rgbd_uvc_main", "rgbd_uvc", "rgbd", "uvc"}
  BY <1>0, ProgramCases DEF ThreadTypes
<1>b. "RGB" \in Module /\ "DEPTH" \in Module
  BY DEF Module
<1> SUFFICES Devices' /\ ThreadTypes' /\ ProgramPcs'
  BY TypeParts, PTL
<1>1. CASE MainOpen
  <2>1. Devices'
    BY <1>0, <1>1, <1>b, SetupTypes, EndsTypes DEF MainOpen
  <2> QED
    BY <1>0, <1>1, <1>a, <2>1, MainFollow DEF MainOpen, ThreadTypes, ProgramPcs, WithClass
<1>2. CASE MainOpenUvc
  <2>1. Devices'
    BY <1>0, <1>2, EndsTypes DEF MainOpenUvc, MainFails
  <2> QED
    BY <1>0, <1>2, <1>a, <2>1, MainFollow
    DEF MainOpenUvc, MainFails, ThreadTypes, ProgramPcs, WithClass
<1>3. CASE MainCreateRgb
  <2>1. Devices'
    BY <1>0, <1>3, EndsTypes DEF MainCreateRgb, MainFails
  <2> QED
    BY <1>0, <1>3, <1>a, <2>1, MainFollow
    DEF MainCreateRgb, MainFails, ThreadTypes, ProgramPcs, WithClass
<1>4. CASE MainCreateUvc
  <2>1. Devices'
    BY <1>0, <1>4, EndsTypes DEF MainCreateUvc, MainFails
  <2> QED
    BY <1>0, <1>4, <1>a, <2>1, MainFollow
    DEF MainCreateUvc, MainFails, ThreadTypes, ProgramPcs, WithClass
<1>5. CASE MainInitDepth
  <2>1. Devices'
    BY <1>0, <1>5, <1>b, SetupTypes, EndsTypes DEF MainInitDepth, MainFails
  <2> QED
    BY <1>0, <1>5, <1>a, <2>1, MainFollow
    DEF MainInitDepth, MainFails, ThreadTypes, ProgramPcs, WithClass
<1>6. CASE MainStart
  <2>1. Devices'
    BY <1>0, <1>6, <1>b, StartTypes DEF MainStart
  <2> QED
    BY <1>0, <1>6, <1>a, <2>1, MainFollow DEF MainStart, ThreadTypes, ProgramPcs, WithClass
<1>7. CASE MainTest
  <2>1. Devices'
    BY <1>0, <1>7, EndsTypes DEF MainTest
  <2> QED
    BY <1>0, <1>7, <2>1 DEF MainTest, ThreadTypes, ProgramPcs, WithClass
<1>8. CASE MainCapture
  <2>1. buf \in [Module -> BufIndex]
    BY <1>0 DEF ThreadTypes
  <2>2. /\ Devices' /\ buf' \in [Module -> BufIndex]
        /\ pcM' \in {"select", "dqbuf", "copy", "qbuf", "test"}
    BY <1>0, <1>8, <1>b, <2>1, LoopTypes DEF MainCapture
  <2>3. pcM \in {"select", "dqbuf", "copy", "qbuf"}
    BY <1>8 DEF MainCapture, Capture, Select, SelectAgain, Dequeue, Copy, Requeue
  <2> QED
    BY <1>0, <1>8, <2>2, <2>3 DEF MainCapture, ThreadTypes, ProgramPcs, WithClass
<1> QED
  BY <1>1, <1>2, <1>3, <1>4, <1>5, <1>6, <1>7, <1>8 DEF Main

(* The RGB thread.                                                         *)
LEMMA RgbTypes == ASSUME Types, Rgb PROVE Types'
<1>0. Devices /\ ThreadTypes /\ ProgramPcs /\ "RGB" \in Module
  BY TypeParts DEF Module
<1> SUFFICES Devices' /\ ThreadTypes' /\ ProgramPcs'
  BY TypeParts, PTL
<1>1. CASE RgbConnect
  <2>1. Devices'
    BY <1>0, <1>1, EndsTypes DEF RgbConnect
  <2> QED
    BY <1>0, <1>1, <2>1 DEF RgbConnect, ThreadTypes, ProgramPcs, WithClass
<1>2. CASE RgbInit
  <2>1. Devices'
    BY <1>0, <1>2, SetupTypes, EndsTypes DEF RgbInit
  <2> QED
    BY <1>0, <1>2, <2>1 DEF RgbInit, ThreadTypes, ProgramPcs, WithClass
<1>3. CASE RgbStart
  <2>1. Devices'
    BY <1>0, <1>3, StartTypes DEF RgbStart
  <2> QED
    BY <1>0, <1>3, <2>1 DEF RgbStart, ThreadTypes, ProgramPcs, WithClass
<1>4. CASE RgbTest
  <2>1. Devices'
    BY <1>0, <1>4, EndsTypes DEF RgbTest
  <2> QED
    BY <1>0, <1>4, <2>1 DEF RgbTest, ThreadTypes, ProgramPcs, WithClass
<1>5. CASE RgbCapture
  <2>1. buf \in [Module -> BufIndex] /\ pcR \in {"select", "dqbuf", "copy", "qbuf"}
    BY <1>0, <1>5 DEF ThreadTypes, RgbCapture, Capture, Select, SelectAgain, Dequeue, Copy, Requeue
  <2>2. /\ Devices' /\ buf' \in [Module -> BufIndex]
        /\ pcR' \in {"select", "dqbuf", "copy", IF program = "rgbd" THEN "send" ELSE "qbuf", "test"}
    BY <1>0, <1>5, <2>1, LoopTypes DEF RgbCapture
  <2> QED
    BY <1>0, <1>5, <2>1, <2>2 DEF RgbCapture, ThreadTypes, ProgramPcs, WithClass
<1>6. CASE RgbSend
  <2>1. Devices'
    BY <1>0, <1>6, EndsTypes DEF RgbSend
  <2> QED
    BY <1>0, <1>6, <2>1 DEF RgbSend, ThreadTypes, ProgramPcs, WithClass
<1> QED
  BY <1>1, <1>2, <1>3, <1>4, <1>5, <1>6 DEF Rgb

(* The UVC thread, the signal, the cameras and the peer.                   *)
LEMMA OtherTypes ==
  ASSUME Types, Uvc \/ Signal \/ SignalAgain \/ Peer \/ (\E m \in Module : Device(m)) \/ UNCHANGED vars
  PROVE  Types'
<1>0. Devices /\ ThreadTypes /\ ProgramPcs /\ program \in Programs
  BY TypeParts DEF ThreadTypes
<1> SUFFICES Devices' /\ ThreadTypes' /\ ProgramPcs'
  BY TypeParts, PTL
<1>1. CASE Uvc
  <2>1. Devices'
    BY <1>0, <1>1, EndsTypes DEF Uvc, UvcInit, UvcTest, UvcProcess
  <2> QED
    BY <1>0, <1>1, <2>1
    DEF Uvc, UvcInit, UvcTest, UvcProcess, ThreadTypes, ProgramPcs, WithClass
<1>2. CASE Signal
  <2>1. Devices'
    BY <1>0, <1>2, EndsTypes DEF Signal
  <2> QED
    BY <1>0, <1>2, <2>1, Starts, ProgramCases DEF Signal, ThreadTypes, ProgramPcs, WithClass
<1>3. CASE SignalAgain
  <2>1. Devices'
    BY <1>0, <1>3, EndsTypes DEF SignalAgain
  <2> QED
    BY <1>0, <1>3, <2>1 DEF SignalAgain, threadVars, ThreadTypes, ProgramPcs, WithClass
<1>4. CASE Peer
  <2>1. Devices'
    BY <1>0, <1>4, EndsTypes DEF Peer
  <2> QED
    BY <1>0, <1>4, <2>1 DEF Peer, ThreadTypes, ProgramPcs, WithClass
<1>5. CASE \E m \in Module : Device(m)
  <2>1. Devices'
    BY <1>0, <1>5, FlowTypes DEF Device
  <2> QED
    BY <1>0, <1>5, <2>1 DEF Device, threadVars, ThreadTypes, ProgramPcs, WithClass
<1>6. CASE UNCHANGED vars
  <2>1. Devices'
    BY <1>0, <1>6, EndsTypes DEF vars
  <2> QED
    BY <1>0, <1>6, <2>1 DEF vars, threadVars, ThreadTypes, ProgramPcs, WithClass
<1> QED
  BY <1>1, <1>2, <1>3, <1>4, <1>5, <1>6

(* The handler.                                                            *)
LEMMA HandlerTypes == ASSUME Types, Handler PROVE Types'
<1>0. Devices /\ ThreadTypes /\ ProgramPcs /\ "RGB" \in Module /\ "DEPTH" \in Module
  BY TypeParts DEF Module
<1>a. program \in Programs /\ program \in {"rgbd_uvc_main", "rgbd_uvc", "rgbd", "uvc"}
  BY <1>0, ProgramCases DEF ThreadTypes
<1> SUFFICES Devices' /\ ThreadTypes' /\ ProgramPcs'
  BY TypeParts, PTL
<1>1. CASE HandlerStop
  <2>1. Devices'
    BY <1>0, <1>1, StopTypes DEF HandlerStop
  <2> QED
    BY <1>0, <1>1, <1>a, <2>1, HandlerFollow DEF HandlerStop, ThreadTypes, ProgramPcs, WithClass
<1>2. CASE HandlerFlags
  <2>1. Devices'
    BY <1>0, <1>2, EndsTypes DEF HandlerFlags
  <2>2. done' \subseteq {"video", "depth", "uvc"}
    BY <1>2 DEF HandlerFlags, Flags
  <2> QED
    BY <1>0, <1>2, <1>a, <2>1, <2>2, HandlerFollow
    DEF HandlerFlags, ThreadTypes, ProgramPcs, WithClass
<1>3. CASE HandlerJoin
  <2>1. Devices'
    BY <1>0, <1>3, EndsTypes DEF HandlerJoin
  <2> QED
    BY <1>0, <1>3, <1>a, <2>1, HandlerFollow DEF HandlerJoin, ThreadTypes, ProgramPcs, WithClass
<1>4. CASE HandlerClose
  <2>1. Devices'
    BY <1>0, <1>4, StopTypes DEF HandlerClose
  <2> QED
    BY <1>0, <1>4, <1>a, <2>1, HandlerFollow DEF HandlerClose, ThreadTypes, ProgramPcs, WithClass
<1>5. CASE HandlerCloseUvc
  <2>1. Devices'
    BY <1>0, <1>5, EndsTypes DEF HandlerCloseUvc
  <2> QED
    BY <1>0, <1>5, <1>a, <2>1, HandlerFollow
    DEF HandlerCloseUvc, ThreadTypes, ProgramPcs, WithClass
<1>6. CASE HandlerReturns
  <2>1. Devices'
    BY <1>0, <1>6, EndsTypes DEF HandlerReturns
  <2> QED
    BY <1>0, <1>6, <1>a, <2>1 DEF HandlerReturns, ThreadTypes, ProgramPcs, WithClass
<1>7. CASE HandlerExits
  <2>1. Devices'
    BY <1>0, <1>7 DEF HandlerExits, deviceVars, Devices, CaptureTypes
  <2> QED
    BY <1>0, <1>7, <2>1 DEF HandlerExits, threadVars, ThreadTypes, ProgramPcs, WithClass
<1> QED
  BY <1>1, <1>2, <1>3, <1>4, <1>5, <1>6, <1>7 DEF Handler

(* Every step keeps the types.                                             *)
LEMMA TypeStep == ASSUME Types, [Next]_vars PROVE Types'
BY MainTypes, RgbTypes, OtherTypes, HandlerTypes DEF Next, Ended

-----------------------------------------------------------------------------
(* Teardown comes after the joins.                                         *)

\* A thread exists only after main has created it, and has returned when the
\* handler is past its join.
Ordering ==
  /\ pcM \in {"openRgb", "openDepth", "openUvc", "createRgb"} => pcR = "none"
  /\ pcM \in {"openRgb", "openDepth", "openUvc", "createRgb", "createUvc"} => pcU = "none"
  /\ WithCameras /\ pcH \in {"joinUvc", "closeRgb", "closeDepth", "closeUvc", "delete", "returned",
                             "exit"} => pcR = "ended"
  /\ WithUvc /\ pcH \in {"closeRgb", "closeDepth", "closeUvc", "delete", "returned", "exit"} =>
       pcU = "ended"
  /\ ~object => pcH = "returned"

\* Main creates a thread only when what the thread needs is open.
Opened ==
  /\ Running /\ WithCameras /\ pcM \in {"openDepth", "openUvc", "createRgb"} => fd["RGB"] = "open"
  /\ Running /\ WithUvc /\ pcM \in {"createRgb", "createUvc"} => uvcOpen

\* The RGB thread has set up its device.
Mapped ==
  pcR \in {"start", "test", "select", "dqbuf", "copy", "send", "qbuf"} => mapped["RGB"] = BufIndex

\* What a thread needs while it runs.
Needs ==
  /\ pcR \notin {"none", "ended"} => fd["RGB"] = "open" /\ object
  /\ pcU \notin {"none", "ended"} => uvcOpen /\ object

(* Every step keeps the order of start and teardown.                       *)
LEMMA OrderStep == ASSUME Types, Ordering, [Next]_vars PROVE Ordering'
<1>0. ThreadTypes /\ ProgramPcs
  BY TypeParts
<1>a. program \in Programs /\ program \in {"rgbd_uvc_main", "rgbd_uvc", "rgbd", "uvc"}
  BY <1>0, ProgramCases DEF ThreadTypes
<1> USE DEF Ordering, WithCameras, WithUvc
<1>1. CASE MainOpen \/ MainOpenUvc
  BY <1>0, <1>1, <1>a, MainFollow
  DEF MainOpen, MainOpenUvc, MainFails, WithClass, ProgramPcs
<1>2. CASE MainCreateRgb
  BY <1>0, <1>2, <1>a, MainFollow DEF MainCreateRgb, MainFails, MainRuns, WithClass, ProgramPcs
<1>3. CASE MainCreateUvc
  BY <1>0, <1>3, <1>a, MainFollow DEF MainCreateUvc, MainFails, MainRuns, WithClass, ProgramPcs
<1>4. CASE MainInitDepth
  BY <1>0, <1>4, <1>a, MainFollow DEF MainInitDepth, MainFails, WithClass, ProgramPcs
<1>5. CASE MainStart \/ MainTest
  BY <1>0, <1>5, <1>a, MainFollow DEF MainStart, MainTest, WithClass, ProgramPcs
<1>6. CASE MainCapture
  BY <1>0, <1>6
  DEF MainCapture, Capture, Select, SelectAgain, Dequeue, Copy, Requeue, ProgramPcs
<1>7. CASE Rgb
  <2>1. UNCHANGED <<program, pcM, pcU, pcH, object>> /\ pcR \notin {"none", "ended"}
    BY <1>7
    DEF Rgb, RgbConnect, RgbInit, RgbStart, RgbTest, RgbCapture, RgbSend,
        Capture, Select, SelectAgain, Dequeue, Copy, Requeue
  <2> QED
    BY <2>1
<1>8. CASE Uvc
  BY <1>8 DEF Uvc, UvcInit, UvcTest, UvcProcess
<1>9. CASE HandlerStop \/ HandlerFlags
  BY <1>0, <1>9, <1>a, HandlerFollow DEF HandlerStop, HandlerFlags, ProgramPcs
<1>10. CASE HandlerJoin
  BY <1>0, <1>10, <1>a, HandlerFollow DEF HandlerJoin, Joined, ProgramPcs
<1>11. CASE HandlerClose \/ HandlerCloseUvc
  BY <1>0, <1>11, <1>a, HandlerFollow DEF HandlerClose, HandlerCloseUvc, ProgramPcs
<1>12. CASE HandlerReturns \/ HandlerExits
  BY <1>0, <1>12, <1>a DEF HandlerReturns, HandlerExits, threadVars, ProgramPcs
<1>13. CASE Signal
  BY <1>0, <1>13, <1>a, Starts DEF Signal, ProgramPcs
<1>14. CASE SignalAgain \/ Peer \/ (\E m \in Module : Device(m)) \/ UNCHANGED vars
  BY <1>14 DEF SignalAgain, Peer, Device, vars, threadVars
<1> QED
  BY <1>1, <1>2, <1>3, <1>4, <1>5, <1>6, <1>7, <1>8, <1>9, <1>10, <1>11, <1>12, <1>13, <1>14
  DEF Next, Main, Handler, Ended

Teardown == Ordering /\ Opened /\ Mapped /\ Needs

(* A step that leaves descriptors, mappings and the gadget alone and takes *)
(* no thread or program to a new place where it would need them.           *)
LEMMA TeardownKeeps ==
  ASSUME Teardown, Ordering',
         UNCHANGED <<fd, mapped, uvcOpen, object, program>>,
         status' # "running" \/ status' = status,
         pcM' = pcM \/ pcM' \notin {"openDepth", "openUvc", "createRgb", "createUvc"},
         \/ pcR' = pcR \/ pcR' = "ended"
         \/ pcR \in {"start", "test", "select", "dqbuf", "copy", "send", "qbuf"}
         \/ pcR = "connect" /\ pcR' = "init",
         pcU' = pcU \/ pcU' = "ended" \/ pcU \notin {"none", "ended"}
  PROVE  Teardown'
BY DEF Teardown, Opened, Mapped, Needs, Running, WithCameras, WithUvc

(* No step takes something from a running thread.                          *)
LEMMA TeardownStep == ASSUME Types, Teardown, [Next]_vars PROVE Teardown'
<1>0. ThreadTypes /\ ProgramPcs /\ Ordering /\ Devices
  BY TypeParts DEF Teardown
<1>a. program \in Programs /\ program \in {"rgbd_uvc_main", "rgbd_uvc", "rgbd", "uvc"}
  BY <1>0, ProgramCases DEF ThreadTypes
<1>b. Ordering'
  BY <1>0, OrderStep
<1>c. /\ fd \in [Module -> {"unset", "open", "closed"}] /\ mapped \in [Module -> SUBSET BufIndex]
      /\ "RGB" \in Module /\ "DEPTH" \in Module /\ "RGB" # "DEPTH"
  BY <1>0 DEF Devices, CaptureTypes, Module
<1>1. CASE MainOpen
  <2>1. pcM \in {"openRgb", "openDepth"} /\ Running /\ program # "uvc"
    BY <1>0, <1>1 DEF MainOpen, MainRuns, ProgramPcs
  <2>2. pcM' \in {"openDepth", "openUvc", "createRgb"}
        /\ (pcM' = "createRgb" => program = "rgbd")
    BY <1>1, <1>a, <2>1, MainFollow DEF MainOpen
  <2>3. UNCHANGED <<mapped, program, pcR, pcU, uvcOpen, object>>
    BY <1>1 DEF MainOpen, open_video_device, Exit, deviceVars
  <2>4. pcM = "openDepth" => fd["RGB"] = "open"
    BY <2>1 DEF Teardown, Opened, WithCameras
  <2>5. Running' => fd'["RGB"] = "open"
    BY <1>1, <1>c, <2>1, <2>4 DEF MainOpen, open_video_device, Exit, Running
  <2>6. pcR = "none" /\ pcU = "none"
    BY <1>0, <2>1 DEF Ordering
  <2> QED
    BY <1>b, <2>2, <2>3, <2>5, <2>6 DEF Teardown, Opened, Mapped, Needs, WithUvc
<1>2. CASE MainOpenUvc
  <2>1. UNCHANGED <<fd, mapped, program, pcR, pcU, object>> /\ Running
    BY <1>2 DEF MainOpenUvc, MainRuns, MainFails, Exit, deviceVars
  <2>2. pcR = "none" /\ pcU = "none" /\ pcM = "openUvc"
    BY <1>0, <1>2 DEF MainOpenUvc, Ordering
  <2>3. Running' /\ pcM' # "test" => uvcOpen'
    BY <1>2 DEF MainOpenUvc, MainFails, Exit, Running
  <2> QED
    BY <1>b, <2>1, <2>2, <2>3 DEF Teardown, Opened, Mapped, Needs, WithCameras, WithUvc
<1>3. CASE MainCreateRgb
  <2>1. UNCHANGED <<fd, mapped, program, pcU, uvcOpen, object>> /\ Running
    BY <1>3 DEF MainCreateRgb, MainRuns, MainFails, Exit, deviceVars
  <2>2. pcR = "none" /\ pcU = "none" /\ pcM = "createRgb" /\ program # "uvc"
    BY <1>0, <1>3 DEF MainCreateRgb, Ordering, ProgramPcs
  <2>3. fd["RGB"] = "open" /\ (program # "rgbd" => uvcOpen) /\ object
    BY <1>0, <1>a, <2>1, <2>2 DEF Teardown, Opened, WithCameras, WithUvc, Ordering
  <2>4. pcR' \in {"none", "connect", "init"}
    BY <1>3, <2>2 DEF MainCreateRgb
  <2> QED
    BY <1>b, <2>1, <2>2, <2>3, <2>4 DEF Teardown, Opened, Mapped, Needs, WithUvc
<1>4. CASE MainCreateUvc
  <2>1. UNCHANGED <<fd, mapped, program, pcR, uvcOpen, object>> /\ Running
    BY <1>4 DEF MainCreateUvc, MainRuns, MainFails, Exit, deviceVars
  <2>2. pcU = "none" /\ pcM = "createUvc" /\ program # "rgbd"
    BY <1>0, <1>4 DEF MainCreateUvc, Ordering, ProgramPcs
  <2>3. uvcOpen /\ object
    BY <1>0, <1>a, <2>1, <2>2 DEF Teardown, Opened, WithUvc, Ordering
  <2>4. pcM' = pcM \/ pcM' \in {"initDepth", "sleep", "test"}
    BY <1>4, <1>a, <2>2, MainFollow DEF MainCreateUvc, MainFails
  <2> QED
    BY <1>b, <2>1, <2>2, <2>3, <2>4 DEF Teardown, Opened, Mapped, Needs
<1>5. CASE MainInitDepth
  <2>1. UNCHANGED <<fd, program, pcR, pcU, uvcOpen, object>> /\ mapped'["RGB"] = mapped["RGB"]
    BY <1>5, <1>c
    DEF MainInitDepth, MainFails, init_video_device, init_ends, Exit, Crash, deviceVars
  <2>2. pcM = "initDepth" /\ program # "uvc"
    BY <1>0, <1>5 DEF MainInitDepth, ProgramPcs
  <2>3. pcM' \in {"initDepth", "start", "test"}
    BY <1>5, <1>a, <2>2, MainFollow DEF MainInitDepth, MainFails
  <2> QED
    BY <1>b, <2>1, <2>3 DEF Teardown, Opened, Mapped, Needs
<1>6. CASE MainStart \/ MainTest \/ MainCapture
  <2>1. UNCHANGED <<fd, mapped>>
    BY <1>6, KeepsOpen DEF MainStart, MainTest, MainCapture
  <2>2. UNCHANGED <<program, pcR, pcU, uvcOpen, object>>
    BY <1>6 DEF MainStart, MainTest, MainCapture
  <2>3. pcM' = pcM \/ pcM' \in {"test", "select", "dqbuf", "copy", "qbuf"}
    BY <1>0, <1>6, <1>a, MainFollow
    DEF MainStart, MainTest, MainCapture, Capture, Select, SelectAgain, Dequeue, Copy, Requeue,
        ProgramPcs
  <2>4. status = "running"
    BY <1>6 DEF MainStart, MainTest, MainCapture, MainRuns, Running
  <2> QED
    BY <1>b, <2>1, <2>2, <2>3, <2>4, TeardownKeeps
<1>7. CASE RgbInit
  <2>1. UNCHANGED <<fd, program, pcM, pcU, uvcOpen, object>> /\ pcR = "init"
    BY <1>7 DEF RgbInit, init_video_device, init_ends, Exit, Crash, deviceVars
  <2>2. \/ pcR' = "start" /\ mapped'["RGB"] = BufIndex
        \/ pcR' \in {"init", "ended"}
    BY <1>7, <1>c DEF RgbInit, init_video_device
  <2>3. Running
    BY <1>7 DEF RgbInit
  <2> QED
    BY <1>b, <2>1, <2>2, <2>3 DEF Teardown, Opened, Mapped, Needs, WithCameras, WithUvc
<1>8. CASE RgbConnect \/ RgbStart \/ RgbTest \/ RgbCapture \/ RgbSend
  <2>1. UNCHANGED <<fd, mapped>>
    BY <1>8, KeepsOpen DEF RgbConnect, RgbStart, RgbTest, RgbCapture, RgbSend, deviceVars
  <2>2. UNCHANGED <<program, pcM, pcU, uvcOpen, object>> /\ status = "running"
    BY <1>8 DEF RgbConnect, RgbStart, RgbTest, RgbCapture, RgbSend, Running
  <2>3. \/ pcR \in {"start", "test", "select", "dqbuf", "copy", "send", "qbuf"}
        \/ pcR = "connect" /\ pcR' = "init"
    BY <1>8
    DEF RgbConnect, RgbStart, RgbTest, RgbCapture, RgbSend, Capture, Select, SelectAgain, Dequeue,
        Copy, Requeue
  <2> QED
    BY <1>b, <2>1, <2>2, <2>3, TeardownKeeps
<1>9. CASE Uvc
  <2>1. UNCHANGED <<fd, mapped, program, pcM, pcR, uvcOpen, object, status>>
        /\ pcU \notin {"none", "ended"}
    BY <1>9 DEF Uvc, UvcInit, UvcTest, UvcProcess, deviceVars
  <2> QED
    BY <1>b, <2>1, TeardownKeeps
<1>10. CASE HandlerClose
  <2>1. /\ UNCHANGED <<program, pcM, pcR, pcU, uvcOpen, object, status>>
        /\ pcH \in {"closeRgb", "closeDepth"} /\ program # "uvc"
    BY <1>0, <1>10 DEF HandlerClose, uninit_and_close, ProgramPcs
  <2>2. pcR = "ended" /\ pcM \notin {"openDepth", "openUvc", "createRgb"}
    BY <1>0, <2>1 DEF Ordering, WithCameras
  <2> QED
    BY <1>b, <2>1, <2>2 DEF Teardown, Opened, Mapped, Needs, WithUvc, Running
<1>11. CASE HandlerCloseUvc
  <2>1. /\ UNCHANGED <<fd, mapped, program, pcM, pcR, pcU, object, status>>
        /\ pcH = "closeUvc" /\ program # "rgbd"
    BY <1>0, <1>11 DEF HandlerCloseUvc, ProgramPcs, deviceVars
  <2>2. pcU = "ended" /\ pcM \notin {"createRgb", "createUvc"}
    BY <1>0, <2>1 DEF Ordering, WithUvc
  <2> QED
    BY <1>b, <2>1, <2>2 DEF Teardown, Opened, Mapped, Needs, WithCameras, Running
<1>12. CASE HandlerReturns
  <2>1. /\ UNCHANGED <<fd, mapped, program, pcM, pcR, pcU, uvcOpen, status>>
        /\ pcH = "delete" /\ WithClass
    BY <1>0, <1>12, <1>a DEF HandlerReturns, ProgramPcs, WithClass, deviceVars
  <2>2. pcU = "ended" /\ pcR = "ended"
    BY <1>0, <2>1 DEF Ordering, WithUvc, WithCameras, WithClass
  <2> QED
    BY <1>b, <2>1, <2>2 DEF Teardown, Opened, Mapped, Needs, WithCameras, WithUvc, Running
<1>13. CASE HandlerStop
  <2>1. UNCHANGED <<fd, mapped>>
    BY <1>13, KeepsOpen DEF HandlerStop
  <2>2. UNCHANGED <<program, pcM, pcR, pcU, uvcOpen, object>> /\ status = "running"
    BY <1>13 DEF HandlerStop, Running
  <2> QED
    BY <1>b, <2>1, <2>2, TeardownKeeps
<1>14. CASE \/ HandlerFlags \/ HandlerJoin \/ HandlerExits \/ Signal \/ SignalAgain \/ Peer
            \/ UNCHANGED vars
  <2>1. UNCHANGED <<fd, mapped, program, pcM, pcR, pcU, uvcOpen, object>>
        /\ (status' # "running" \/ status' = status)
    BY <1>14
    DEF HandlerFlags, HandlerJoin, HandlerExits, Signal, SignalAgain, Peer, vars, threadVars,
        deviceVars, Crash
  <2> QED
    BY <1>b, <2>1, TeardownKeeps
<1>15. CASE \E m \in Module : Device(m)
  <2>1. UNCHANGED <<fd, mapped, program, pcM, pcR, pcU, uvcOpen, object, status>>
    BY <1>15 DEF Device, DeviceFills, threadVars
  <2> QED
    BY <1>b, <2>1, TeardownKeeps
<1> QED
  BY <1>1, <1>2, <1>3, <1>4, <1>5, <1>6, <1>7, <1>8, <1>9, <1>10, <1>11, <1>12, <1>13, <1>14, <1>15
  DEF Next, Main, Rgb, Handler, Ended

-----------------------------------------------------------------------------
(* No buffer is lost.                                                      *)

Before == Running /\ pcH = "off"

Pc(m) == IF m = "RGB" THEN pcR ELSE pcM

\* Places from where start_video_capture is still ahead.
NotStarted == {"none", "connect", "init", "openRgb", "openDepth", "openUvc", "createRgb",
               "createUvc", "initDepth", "sleep"}

\* Device m: nothing is queued before start_video_capture, the first buffers in
\* its loop, and all of them are somewhere afterwards.
Buffers(m) ==
  /\ Pc(m) \in NotStarted => /\ ~kstreaming[m] /\ qi[m] = 0
                             /\ kqueue[m] = << >> /\ kdone[m] = << >>
  /\ Pc(m) = "start" => /\ ~kstreaming[m] /\ n_buffers[m] = NBufs
                        /\ kqueue[m] = Queued(qi[m]) /\ kdone[m] = << >>
  /\ kstreaming[m] => Conserved(kqueue[m], kdone[m], Holds(buf[m], Pc(m)))

AllBuffers == Before => \A m \in Module : Buffers(m)

(* The signal ends the time before it.                                     *)
LEMMA BeforeStep == ASSUME Types, [Next]_vars, Before' PROVE Before /\ ~Handler /\ ~Signal
<1>0. ThreadTypes /\ ProgramPcs
  BY TypeParts
<1>a. program \in Programs /\ program \in {"rgbd_uvc_main", "rgbd_uvc", "rgbd", "uvc"}
  BY <1>0, ProgramCases DEF ThreadTypes
<1>1. ~Signal
  BY <1>a, Starts DEF Signal, Before
<1>2. ~HandlerStop /\ ~HandlerFlags
  BY <1>0, <1>a, HandlerFollow DEF HandlerStop, HandlerFlags, Before, ProgramPcs
<1>3. ~HandlerJoin
  BY <1>0, <1>a, HandlerFollow DEF HandlerJoin, Before, ProgramPcs
<1>4. ~HandlerClose /\ ~HandlerCloseUvc
  BY <1>0, <1>a, HandlerFollow DEF HandlerClose, HandlerCloseUvc, Before, ProgramPcs, WithClass
<1>5. ~HandlerReturns /\ ~HandlerExits
  BY DEF HandlerReturns, HandlerExits, Before, Running
<1>6. ~Handler
  BY <1>2, <1>3, <1>4, <1>5 DEF Handler
<1>7. Running
  BY <1>6
  DEF Next, Main, Rgb, Uvc, Signal, SignalAgain, Peer, Device, Ended, MainOpen, MainOpenUvc,
      MainCreateRgb, MainCreateUvc, MainInitDepth, MainStart, MainTest, MainCapture, MainRuns,
      RgbConnect, RgbInit, RgbStart, RgbTest, RgbCapture, RgbSend, UvcInit, UvcTest, UvcProcess,
      Before, Running, vars
<1>8. pcH = "off"
  BY <1>1, <1>6
  DEF Next, Main, Rgb, Uvc, SignalAgain, Peer, Device, Ended, MainOpen, MainOpenUvc,
      MainCreateRgb, MainCreateUvc, MainInitDepth, MainStart, MainTest, MainCapture,
      RgbConnect, RgbInit, RgbStart, RgbTest, RgbCapture, RgbSend, UvcInit, UvcTest, UvcProcess,
      Before, vars, threadVars
<1> QED
  BY <1>1, <1>6, <1>7, <1>8 DEF Before

(* A step that leaves the device alone, and the thread with what it holds. *)
LEMMA BuffersKeep ==
  ASSUME NEW m \in Module, Buffers(m), SameDevice(m), buf'[m] = buf[m],
         \/ Pc(m)' = Pc(m)
         \/ Pc(m) \in NotStarted /\ Pc(m)' \in NotStarted \cup {"test", "ended"}
         \/ Pc(m) \in {"test", "select"} /\ Pc(m)' \in {"select", "ended"}
         \/ Pc(m) = "send" /\ Pc(m)' = "qbuf"
  PROVE  Buffers(m)'
BY DEF Buffers, SameDevice, NotStarted, Holds

(* start_video_capture of device m.                                        *)
LEMMA BuffersStart ==
  ASSUME Devices, NEW m \in Module, Buffers(m), Pc(m) = "start", buf'[m] = buf[m],
         status' = "running",
         \/ start_qbuf(m) /\ Pc(m)' = "start"
         \/ start_streamon(m) /\ Pc(m)' = "test"
  PROVE  Buffers(m)'
<1>0. /\ kqueue \in [Module -> Seq(BufIndex)] /\ qi \in [Module -> 0 .. NBufs]
      /\ kstreaming \in [Module -> BOOLEAN]
  BY DEF Devices, CaptureTypes
<1>1. /\ ~kstreaming[m] /\ n_buffers[m] = NBufs
      /\ kqueue[m] = Queued(qi[m]) /\ kdone[m] = << >>
  BY DEF Buffers
<1>2. CASE start_qbuf(m) /\ Pc(m)' = "start"
  <2>1. /\ kqueue'[m] = Append(kqueue[m], qi[m]) /\ qi'[m] = qi[m] + 1
        /\ UNCHANGED <<n_buffers, kstreaming, kdone>>
    BY <1>0, <1>2 DEF start_qbuf, Exit
  <2>2. qi[m] \in 0 .. NBufs-1
    BY <1>0, <1>1, <1>2, CaptureAssumption DEF start_qbuf, More
  <2>3. kqueue'[m] = Queued(qi'[m])
    BY <1>1, <2>1, <2>2, QueuedNext
  <2> QED
    BY <1>1, <1>2, <2>1, <2>3 DEF Buffers, NotStarted
<1>3. CASE start_streamon(m) /\ Pc(m)' = "test"
  <2>1. UNCHANGED <<kqueue, kdone>>
    BY <1>3 DEF start_streamon, Exit
  <2>2. qi[m] = NBufs
    BY <1>0, <1>1, <1>3, CaptureAssumption DEF start_streamon, More
  <2>3. Conserved(kqueue'[m], kdone'[m], << >>)
    BY <1>1, <2>1, <2>2, QueuedAll
  <2> QED
    BY <1>3, <2>3 DEF Buffers, NotStarted, Holds
<1> QED
  BY <1>2, <1>3

(* The device fills a buffer.                                              *)
LEMMA BuffersFill ==
  ASSUME Devices, buf \in [Module -> BufIndex], NEW m \in Module, Buffers(m), DeviceFills(m),
         buf'[m] = buf[m], Pc(m)' = Pc(m)
  PROVE  Buffers(m)'
<1>0. /\ kqueue \in [Module -> Seq(BufIndex)] /\ kdone \in [Module -> Seq(BufIndex)]
      /\ kqueue[m] \in Seq(BufIndex) /\ kdone[m] \in Seq(BufIndex) /\ buf[m] \in BufIndex
  BY DEF Devices
<1>1. /\ kstreaming[m] /\ kqueue[m] # << >> /\ kstreaming' = kstreaming
      /\ kqueue'[m] = Tail(kqueue[m]) /\ kdone'[m] = Append(kdone[m], Head(kqueue[m]))
  BY <1>0 DEF DeviceFills
<1>2. Holds(buf[m], Pc(m)) \in Seq(BufIndex)
  BY <1>0, EmptySeq DEF Holds
<1>3. Conserved(kqueue'[m], kdone'[m], Holds(buf[m], Pc(m)))
  BY <1>0, <1>1, <1>2, ConservedFill DEF Buffers
<1> QED
  BY <1>1, <1>3 DEF Buffers

(* The capture loop of device m.                                           *)
LEMMA BuffersLoop ==
  ASSUME Devices, buf \in [Module -> BufIndex], NEW m \in Module, Buffers(m),
         NEW exists, NEW after \in {"send", "qbuf"},
         Capture(m, Pc(m), Pc(m)', exists, after), status' = "running"
  PROVE  Buffers(m)'
<1>1. Pc(m)' \in {"select", "dqbuf", "copy", "send", "qbuf", "test"}
  BY DEF Capture, Select, SelectAgain, Dequeue, Copy, Requeue, Exit
<1>2. /\ kstreaming' = kstreaming
      /\ kstreaming[m] => Conserved(kqueue'[m], kdone'[m], Holds(buf'[m], Pc(m)'))
  BY LoopConserves DEF Buffers
<1> QED
  BY <1>1, <1>2 DEF Buffers, NotStarted

(* The main thread while nothing has been signalled: it reads the depth    *)
(* sensor and leaves the RGB camera alone.                                 *)
LEMMA MainBuffers ==
  ASSUME Types, Ordering, Before, Before', \A m \in Module : Buffers(m), Main
  PROVE  Buffers("RGB")' /\ Buffers("DEPTH")'
<1>0. Devices /\ ThreadTypes /\ ProgramPcs
  BY TypeParts
<1>a. program \in Programs /\ program \in {"rgbd_uvc_main", "rgbd_uvc", "rgbd", "uvc"}
  BY <1>0, ProgramCases DEF ThreadTypes
<1>b. /\ "RGB" \in Module /\ "DEPTH" \in Module /\ "DEPTH" # "RGB"
      /\ Buffers("RGB") /\ Buffers("DEPTH")
  BY DEF Module
<1>c. status = "running" /\ status' = "running" /\ buf \in [Module -> BufIndex] /\ ~Exit /\ ~Crash
  BY <1>0 DEF Before, Running, ThreadTypes, Exit, Crash
<1>d. /\ Pc("RGB") = pcR /\ Pc("RGB")' = pcR' /\ Pc("DEPTH") = pcM /\ Pc("DEPTH")' = pcM'
  BY <1>b DEF Pc
<1>1. CASE MainOpen
  <2>1. open_video_device("RGB") \/ open_video_device("DEPTH")
    BY <1>1, <1>c DEF MainOpen
  <2>2. SameDevice("RGB") /\ SameDevice("DEPTH")
    BY <2>1 DEF open_video_device, SameDevice
  <2>3. pcM \in NotStarted /\ pcM' \in NotStarted
    BY <1>0, <1>1, <1>a, MainFollow DEF MainOpen, ProgramPcs, NotStarted
  <2>4. buf' = buf /\ pcR' = pcR
    BY <1>1 DEF MainOpen
  <2> QED
    BY <1>b, <1>d, <2>2, <2>3, <2>4, BuffersKeep
<1>2. CASE MainOpenUvc \/ MainCreateRgb \/ MainCreateUvc
  <2>1. UNCHANGED <<deviceVars, buf>>
    BY <1>2, <1>c DEF MainOpenUvc, MainCreateRgb, MainCreateUvc, MainFails
  <2>2. SameDevice("RGB") /\ SameDevice("DEPTH")
    BY <2>1 DEF deviceVars, SameDevice
  <2>3. pcM \in NotStarted /\ pcM' \in NotStarted \cup {"test", "ended"}
    BY <1>0, <1>2, <1>a, <1>c, MainFollow
    DEF MainOpenUvc, MainCreateRgb, MainCreateUvc, MainFails, ProgramPcs, NotStarted
  <2>4. \/ pcR' = pcR
        \/ pcR \in NotStarted /\ pcR' \in NotStarted \cup {"test", "ended"}
    <3>1. CASE MainCreateRgb
      <4>1. pcR' \in {pcR, "connect", "init"} /\ pcR = "none"
        BY <3>1 DEF MainCreateRgb, Ordering
      <4> QED
        BY <4>1 DEF NotStarted
    <3>2. CASE MainOpenUvc \/ MainCreateUvc
      <4>1. pcR' = pcR
        BY <3>2 DEF MainOpenUvc, MainCreateUvc
      <4> QED
        BY <4>1
    <3> QED
      BY <1>2, <3>1, <3>2
  <2> QED
    BY <1>b, <1>d, <2>1, <2>2, <2>3, <2>4, BuffersKeep
<1>3. CASE MainInitDepth
  <2>1. \/ init_video_device("DEPTH") /\ pcM' = "start"
        \/ UNCHANGED deviceVars /\ pcM' = "test"
    BY <1>0, <1>3, <1>a, <1>c, MainFollow DEF MainInitDepth, init_ends, MainFails, ProgramPcs
  <2>2. buf' = buf /\ pcR' = pcR /\ pcM = "initDepth"
    BY <1>3 DEF MainInitDepth
  <2>3. SameDevice("RGB")
    BY <1>0, <1>b, <2>1, OtherDevice
  <2>4. Buffers("RGB")'
    BY <1>b, <1>d, <2>2, <2>3, BuffersKeep
  <2>5. CASE UNCHANGED deviceVars /\ pcM' = "test"
    BY <1>b, <1>d, <2>2, <2>5, BuffersKeep DEF deviceVars, SameDevice, NotStarted
  <2>6. CASE init_video_device("DEPTH") /\ pcM' = "start"
    <3>1. /\ ~kstreaming["DEPTH"] /\ qi["DEPTH"] = 0
          /\ kqueue["DEPTH"] = << >> /\ kdone["DEPTH"] = << >>
      BY <1>b, <1>d, <2>2 DEF Buffers, NotStarted
    <3>2. n_buffers \in [Module -> {0, NBufs}]
      BY <1>0 DEF Devices, CaptureTypes
    <3>3. n_buffers'["DEPTH"] = NBufs /\ UNCHANGED <<kstreaming, qi, kqueue, kdone>>
      BY <1>b, <2>6, <3>2 DEF init_video_device
    <3>4. Queued(0) = << >>
      BY DEF Queued
    <3> QED
      BY <1>d, <2>4, <2>6, <3>1, <3>3, <3>4 DEF Buffers, NotStarted
  <2> QED
    BY <2>1, <2>4, <2>5, <2>6
<1>4. CASE MainStart
  <2>1. buf' = buf /\ pcR' = pcR /\ pcM = "start"
    BY <1>4 DEF MainStart
  <2>2. \/ start_qbuf("DEPTH") /\ pcM' = "start"
        \/ start_streamon("DEPTH") /\ pcM' = "test"
    BY <1>0, <1>4, <1>a, <2>1, MainFollow DEF MainStart, ProgramPcs
  <2>3. SameDevice("RGB")
    BY <1>0, <1>b, <2>2, OtherDevice
  <2>4. Buffers("RGB")'
    BY <1>b, <1>d, <2>1, <2>3, BuffersKeep
  <2>5. Buffers("DEPTH")'
    BY <1>0, <1>b, <1>c, <1>d, <2>1, <2>2, BuffersStart
  <2> QED
    BY <2>4, <2>5
<1>5. CASE MainTest
  <2>1. UNCHANGED <<deviceVars, buf, pcR>> /\ pcM = "test" /\ pcM' = "select"
    BY <1>5, <1>c DEF MainTest
  <2>2. SameDevice("RGB") /\ SameDevice("DEPTH")
    BY <2>1 DEF deviceVars, SameDevice
  <2> QED
    BY <1>b, <1>d, <2>1, <2>2, BuffersKeep
<1>6. CASE MainCapture
  <2>1. Capture("DEPTH", pcM, pcM', object, "qbuf") /\ pcR' = pcR
    BY <1>6 DEF MainCapture
  <2>2. SameDevice("RGB") /\ buf'["RGB"] = buf["RGB"]
    BY <1>0, <1>b, <1>c, <2>1, OtherLoop
  <2>3. Buffers("RGB")'
    BY <1>b, <1>d, <2>1, <2>2, BuffersKeep
  <2>4. Buffers("DEPTH")'
    BY <1>0, <1>b, <1>c, <1>d, <2>1, BuffersLoop
  <2> QED
    BY <2>3, <2>4
<1> QED
  BY <1>1, <1>2, <1>3, <1>4, <1>5, <1>6 DEF Main

(* The RGB thread, the other way round.                                    *)
LEMMA RgbBuffers ==
  ASSUME Types, Before, Before', \A m \in Module : Buffers(m), Rgb
  PROVE  Buffers("RGB")' /\ Buffers("DEPTH")'
<1>0. Devices /\ ThreadTypes
  BY TypeParts
<1>b. /\ "RGB" \in Module /\ "DEPTH" \in Module /\ "DEPTH" # "RGB"
      /\ Buffers("RGB") /\ Buffers("DEPTH")
  BY DEF Module
<1>c. status = "running" /\ status' = "running" /\ buf \in [Module -> BufIndex] /\ ~Exit /\ ~Crash
  BY <1>0 DEF Before, Running, ThreadTypes, Exit, Crash
<1>d. /\ Pc("RGB") = pcR /\ Pc("RGB")' = pcR' /\ Pc("DEPTH") = pcM /\ Pc("DEPTH")' = pcM'
  BY <1>b DEF Pc
<1>1. CASE RgbConnect \/ RgbTest \/ RgbSend
  <2>1. UNCHANGED <<deviceVars, buf, pcM>>
    BY <1>1, <1>c DEF RgbConnect, RgbTest, RgbSend
  <2>2. SameDevice("RGB") /\ SameDevice("DEPTH")
    BY <2>1 DEF deviceVars, SameDevice
  <2>3. \/ pcR \in NotStarted /\ pcR' \in NotStarted
        \/ pcR \in {"test", "select"} /\ pcR' \in {"select", "ended"}
        \/ pcR = "send" /\ pcR' = "qbuf"
    BY <1>1 DEF RgbConnect, RgbTest, RgbSend, NotStarted
  <2> QED
    BY <1>b, <1>d, <2>1, <2>2, <2>3, BuffersKeep
<1>2. CASE RgbInit
  <2>1. \/ init_video_device("RGB") /\ pcR' = "start"
        \/ UNCHANGED deviceVars /\ pcR' = "ended"
    BY <1>2, <1>c DEF RgbInit, init_ends
  <2>2. buf' = buf /\ pcM' = pcM /\ pcR = "init"
    BY <1>2 DEF RgbInit
  <2>3. SameDevice("DEPTH")
    BY <1>0, <1>b, <2>1, OtherDevice
  <2>4. Buffers("DEPTH")'
    BY <1>b, <1>d, <2>2, <2>3, BuffersKeep
  <2>5. CASE UNCHANGED deviceVars /\ pcR' = "ended"
    BY <1>b, <1>d, <2>2, <2>4, <2>5, BuffersKeep DEF deviceVars, SameDevice, NotStarted
  <2>6. CASE init_video_device("RGB") /\ pcR' = "start"
    <3>1. /\ ~kstreaming["RGB"] /\ qi["RGB"] = 0
          /\ kqueue["RGB"] = << >> /\ kdone["RGB"] = << >>
      BY <1>b, <1>d, <2>2 DEF Buffers, NotStarted
    <3>2. n_buffers \in [Module -> {0, NBufs}]
      BY <1>0 DEF Devices, CaptureTypes
    <3>3. n_buffers'["RGB"] = NBufs /\ UNCHANGED <<kstreaming, qi, kqueue, kdone>>
      BY <1>b, <2>6, <3>2 DEF init_video_device
    <3>4. Queued(0) = << >>
      BY DEF Queued
    <3> QED
      BY <1>d, <2>4, <2>6, <3>1, <3>3, <3>4 DEF Buffers, NotStarted
  <2> QED
    BY <2>1, <2>5, <2>6
<1>3. CASE RgbStart
  <2>1. buf' = buf /\ pcM' = pcM /\ pcR = "start"
    BY <1>3 DEF RgbStart
  <2>2. \/ start_qbuf("RGB") /\ pcR' = "start"
        \/ start_streamon("RGB") /\ pcR' = "test"
    BY <1>3, <2>1, Zenon DEF RgbStart
  <2>3. SameDevice("DEPTH")
    BY <1>0, <1>b, <2>2, OtherDevice
  <2>4. Buffers("DEPTH")'
    BY <1>b, <1>d, <2>1, <2>3, BuffersKeep
  <2>5. Buffers("RGB")'
    BY <1>0, <1>b, <1>c, <1>d, <2>1, <2>2, BuffersStart
  <2> QED
    BY <2>4, <2>5
<1>4. CASE RgbCapture
  <2>1. PICK after \in {"send", "qbuf"} : Capture("RGB", pcR, pcR', object, after)
    <3>1. CASE program = "rgbd"
      BY <1>4, <3>1 DEF RgbCapture
    <3>2. CASE program # "rgbd"
      BY <1>4, <3>2 DEF RgbCapture
    <3> QED
      BY <3>1, <3>2
  <2>2. SameDevice("DEPTH") /\ buf'["DEPTH"] = buf["DEPTH"] /\ pcM' = pcM
    BY <1>0, <1>4, <1>b, <1>c, <2>1, OtherLoop DEF RgbCapture
  <2>3. Buffers("DEPTH")'
    BY <1>b, <1>d, <2>2, BuffersKeep
  <2>4. Buffers("RGB")'
    BY <1>0, <1>b, <1>c, <1>d, <2>1, BuffersLoop
  <2> QED
    BY <2>3, <2>4
<1> QED
  BY <1>1, <1>2, <1>3, <1>4 DEF Rgb

(* Every step conserves the buffers of both cameras.                       *)
LEMMA BufferStep == ASSUME Types, Ordering, AllBuffers, [Next]_vars PROVE AllBuffers'
<1>0. Devices /\ ThreadTypes /\ Module = {"RGB", "DEPTH"}
  BY TypeParts DEF Module
<1>a. buf \in [Module -> BufIndex]
  BY <1>0 DEF ThreadTypes
<1> SUFFICES ASSUME Before' PROVE Buffers("RGB")' /\ Buffers("DEPTH")'
  BY <1>0 DEF AllBuffers
<1>b. Before /\ ~Handler /\ ~Signal
  BY BeforeStep
<1>c. \A m \in Module : Buffers(m)
  BY <1>b DEF AllBuffers
<1>1. CASE Main
  BY <1>1, <1>b, <1>c, MainBuffers
<1>2. CASE Rgb
  BY <1>2, <1>b, <1>c, RgbBuffers
<1>3. CASE Uvc \/ Peer \/ UNCHANGED vars
  <2>1. UNCHANGED <<deviceVars, buf, pcM, pcR>>
    BY <1>3 DEF Uvc, UvcInit, UvcTest, UvcProcess, Peer, vars, threadVars
  <2>2. \A m \in Module : SameDevice(m) /\ Pc(m)' = Pc(m) /\ buf'[m] = buf[m]
    BY <2>1 DEF deviceVars, SameDevice, Pc
  <2>3. \A m \in Module : Buffers(m)'
    BY <1>c, <2>2, BuffersKeep
  <2> QED
    BY <1>0, <2>3
<1>4. CASE SignalAgain
  BY <1>4 DEF SignalAgain, Crash, Before, Running
<1>5. ASSUME NEW d \in Module, Device(d) PROVE Buffers("RGB")' /\ Buffers("DEPTH")'
  <2>1. DeviceFills(d) /\ UNCHANGED <<buf, pcM, pcR>>
    BY <1>5 DEF Device, threadVars
  <2>2. \A m \in Module : Pc(m)' = Pc(m) /\ buf'[m] = buf[m]
    BY <2>1 DEF Pc
  <2>3. Buffers(d)'
    BY <1>0, <1>a, <1>c, <2>1, <2>2, BuffersFill
  <2>4. ASSUME NEW k \in Module, k # d PROVE Buffers(k)'
    <3>1. SameDevice(k)
      BY <1>0, <2>1, <2>4, OtherDevice
    <3> QED
      BY <1>c, <2>2, <3>1, BuffersKeep
  <2> QED
    BY <1>0, <2>3, <2>4
<1> QED
  BY <1>1, <1>2, <1>3, <1>4, <1>5, <1>b DEF Next, Ended

-----------------------------------------------------------------------------
(* The inductive invariant, and the theorems.                              *)

IInv == Types /\ Teardown /\ AllBuffers

(* The invariant holds at the start.                                       *)
LEMMA InitInv == Init => IInv
<1> SUFFICES ASSUME Init PROVE IInv
  OBVIOUS
<1>1. Types
  BY TypeInit
<1>2. pcM \in {"openUvc", "openRgb"} /\ pcR = "none" /\ pcU = "none" /\ object
  BY Starts DEF Init
<1>3. pcH = "off" /\ (program = "uvc" <=> pcM = "openUvc")
  BY Starts DEF Init
<1>4. Teardown
  BY <1>2, <1>3 DEF Teardown, Ordering, Opened, Mapped, Needs, WithCameras, WithUvc
<1>5. ASSUME NEW m \in Module PROVE Buffers(m)
  <2>1. Pc(m) \in NotStarted /\ Pc(m) # "start"
    BY <1>2 DEF Pc, NotStarted
  <2>2. ~kstreaming[m] /\ qi[m] = 0 /\ kqueue[m] = << >> /\ kdone[m] = << >>
    BY DEF Init, CaptureInit
  <2> QED
    BY <2>1, <2>2 DEF Buffers
<1> QED
  BY <1>1, <1>4, <1>5 DEF IInv, AllBuffers

(* Every step keeps the invariant.                                         *)
LEMMA InvStep == IInv /\ [Next]_vars => IInv'
BY TypeStep, TeardownStep, BufferStep DEF IInv, Teardown

(* The invariant holds in every reachable state.                           *)
LEMMA Inductive == Spec => []IInv
BY InitInv, InvStep, PTL DEF Spec

(* Of every program, for every number of buffers: the indexes that         *)
(* start_video_capture and queue_capture hand to the driver are those of   *)
(* buffers it has, and threads and handler stay in their own steps.        *)
THEOREM TypeCorrect == Spec => []TypeOK
<1>1. IInv => TypeOK
  BY DEF IInv, Types
<1> QED
  BY <1>1, Inductive, PTL

(* What the handler of Ctrl+C closes, unmaps and deletes, no running       *)
(* thread still uses: the pthread_joins come first, and main has opened    *)
(* everything a thread needs before it creates the thread.                 *)
THEOREM TeardownSafe == Spec => []TeardownAfterJoin
<1>1. ASSUME IInv PROVE TeardownAfterJoin
  <2>1. Needs /\ Mapped /\ ThreadTypes
    BY <1>1, TypeParts DEF IInv, Teardown
  <2>2. buf["RGB"] \in BufIndex
    BY <2>1 DEF ThreadTypes, Module
  <2> QED
    BY <2>1, <2>2 DEF Needs, Mapped, TeardownAfterJoin
<1> QED
  BY <1>1, Inductive, PTL

(* Until the signal comes, start_video_capture, the driver,                *)
(* dequeue_and_capture and queue_capture pass each buffer on: of a device  *)
(* that streams every buffer is in one place, for any number of them.      *)
THEOREM NoBufferLost == Spec => []BuffersConserved
<1>1. ASSUME IInv PROVE BuffersConserved
  <2> SUFFICES ASSUME NEW m \in Module, Running, pcH = "off", kstreaming[m]
               PROVE  LET all == kqueue[m] \o kdone[m] \o Held(m)
                      IN  Len(all) = NBufs /\ {all[i] : i \in 1 .. NBufs} = BufIndex
    BY DEF BuffersConserved
  <2>1. Devices /\ ThreadTypes /\ Buffers(m)
    BY <1>1, TypeParts DEF IInv, AllBuffers, Before
  <2>2. kqueue[m] \in Seq(BufIndex) /\ kdone[m] \in Seq(BufIndex) /\ buf[m] \in BufIndex
    BY <2>1 DEF Devices, ThreadTypes
  <2>3. Held(m) = Holds(buf[m], Pc(m))
    BY DEF Held, Holds, Pc
  <2>4. Held(m) \in Seq(BufIndex)
    BY <2>2, <2>3, EmptySeq DEF Holds
  <2>5. Conserved(kqueue[m], kdone[m], Held(m))
    BY <2>1, <2>3 DEF Buffers
  <2> DEFINE all == kqueue[m] \o kdone[m] \o Held(m)
  <2>6. PICK q \in Seq(BufIndex), d \in Seq(BufIndex), h \in Seq(BufIndex) :
          Conserved(q, d, h) /\ all = q \o d \o h
    BY <2>2, <2>4, <2>5
  <2> HIDE DEF all
  <2>7. Len(all) = NBufs /\ Elems(all) = BufIndex
    BY <2>6, ConservedAll
  <2>8. Len(all) = NBufs /\ {all[i] : i \in 1 .. NBufs} = BufIndex
    BY <2>7 DEF Elems
  <2> QED
    BY <2>8, Zenon DEF all
<1> QED
  BY <1>1, Inductive, PTL
=============================================================================
