SPECIFICATION Spec
CONSTANTS
  NBufs = 2
PROPERTIES
  Test1Stops
