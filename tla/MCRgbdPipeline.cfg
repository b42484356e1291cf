SPECIFICATION Spec
CONSTANTS
  N = 4
  R = 3
  NBufs = 2
  MaxRgb = 3
  MaxLap = 1
  MaxChecks = 1
INVARIANTS
  TypeOK
  NoSlotShared
  PublishedWhole
  DeliveredWhole
  CopiesOnlyPublished
PROPERTIES
  RefinesFrameQueue
  PictureReachesHost
