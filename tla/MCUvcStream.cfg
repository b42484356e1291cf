SPECIFICATION Spec
CONSTANTS
  NBufs = 2
  InitSize = 704000
  CommitSize = 614400
  Fallible = {"REQBUFS", "calloc", "malloc", "QBUF", "STREAMON", "STREAMOFF"}
  MaxAllocs = 4
INVARIANTS
  TypeOK
  FillsSentMemory
  KernelReadsLive
  FreesOnce
  LeakBounded
