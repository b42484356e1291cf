SPECIFICATION Spec
CONSTANTS
  N = 4
  R = 3
  NBufs = 2
  MaxRgb = 2
  MaxLap = 1
  MaxChecks = 2
INVARIANTS
  CopiesOnlyPublished
