SPECIFICATION Spec
CONSTANTS
  Frames = 25
  LowFrames = 20
  FrameBits = 10
  BitmapAt = 1
  HeapEnd = 6
  KernelFrames = 2
  MaxPid = 1
  MaxTid = 1
  PerTable = 4
  StackTop = 24
  StackPages = 2
  Trampoline = 11
  ImageAt = 1
  ImageSizes <- MCImageSizes
  InitialHeap = 1
  HeapRoom = 2
  PageSize = 2
  Increments <- MCIncrements
CHECK_DEADLOCK FALSE
INVARIANT BitmapKept
