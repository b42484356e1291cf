------------------------------ MODULE UvcFrames ------------------------------
(* The frame table of the one format the gadget offers (YUYV).  In C the   *)
(* table and each list of intervals end with a zero entry.                 *)
uvc_frames_yuyv ==
  << [width |-> 640, height |-> 550,
      intervals |-> <<333333, 500000, 666666, 1000000, 2000000, 10000000>>],
     [width |-> 640, height |-> 480,
      intervals |-> <<333333, 500000, 666666, 1000000, 2000000, 10000000>>],
     [width |-> 640, height |-> 360, intervals |-> <<666666, 10000000, 50000000>>],
     [width |-> 1280, height |-> 720, intervals |-> <<50000000>>] >>
=============================================================================
