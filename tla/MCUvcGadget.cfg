SPECIFICATION Spec
CONSTANTS
  Requests <- MCRequests
  Values = {255, 256}
  Proposals <- MCProposals
  Frames <- uvc_frames_yuyv
  MaxEvents = 2
  NBufs = 2
  InitSize = 704000
  CommitSize = 614400
  Fallible = {}
  MaxAllocs = 3
  MaxCommits = 2
INVARIANTS
  StreamFollowsHost
  FrameFits
PROPERTIES
  Refilled
  CommitTakesEffect
