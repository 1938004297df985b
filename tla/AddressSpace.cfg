SPECIFICATION Spec
CONSTANTS
  Frames = 26
  LowFrames = 20
  FrameBits = 13
  BitmapAt = 1
  HeapEnd = 5
  KernelFrames = 2
  MaxPid = 3
  MaxTid = 4
  PerTable = 4
  StackTop = 24
  StackPages = 2
  Trampoline = 11
  ImageAt = 1
  ImageSizes <- MCImageSizes
  InitialHeap = 1
  HeapRoom = 2
  PageSize = 2
  Increments <- MCIncrements
CHECK_DEADLOCK FALSE
INVARIANTS TypeOK CountExact OneOwner StackReady
PROPERTY SbrkDelivers
