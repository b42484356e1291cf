SPECIFICATION Spec
CONSTANTS
  NBufs = 2
  InitSize = 704000
  CommitSize = 614400
  Fallible = {"STREAMON"}
  MaxAllocs = 3
INVARIANTS
  StreamingFlagTrue
