SPECIFICATION Spec
CONSTANTS
  NBufs = 2
  Programs = {"rgbd_uvc_main"}
PROPERTIES
  CtrlCStops
