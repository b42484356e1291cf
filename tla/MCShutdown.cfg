SPECIFICATION Spec
CONSTANTS
  NBufs = 2
  Programs = {"rgbd_uvc_main", "rgbd_uvc", "rgbd", "uvc"}
INVARIANTS
  TypeOK
  BuffersConserved
  TeardownAfterJoin
PROPERTIES
  HandlerFinishes
  FramesDequeued
