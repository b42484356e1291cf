SPECIFICATION Spec
CONSTANTS
  Requests <- MCRequests
  Values <- MCValues
  Proposals <- MCProposals
  Frames <- uvc_frames_yuyv
  MaxEvents = 1
PROPERTIES
  AeModeIgnored
