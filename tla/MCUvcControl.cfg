SPECIFICATION Spec
CONSTANTS
  Requests <- MCRequests
  Values <- MCValues
  Proposals <- MCProposals
  Frames <- uvc_frames_yuyv
  MaxEvents = 2
INVARIANTS
  TypeOK
  BrightnessFaithful
  DataMatchesSetup
  NegotiatedExists
PROPERTIES
  NegotiatesBest
  ProbedCommits
  SetupAnswered
