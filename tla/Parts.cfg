INIT PartsInit
NEXT PartsNext
CONSTANTS
  Byte = 8
  Moves <- MCMoves
  MaxInputs = 3
  EarlyInput = FALSE
  Lengths <- MCLengths
  Slots = 2
  Half = 2
  Entries = 4
  MergedInterrupts = FALSE
  Files <- MCFiles
  HeaderSize = 2
  FormatSize = 4
  Size = 3
  IntMin <- MCIntMin
  Numbers <- MCNumbers
  Cells = 4
  Output = 6
  MaxLog = 4
  IdleInterrupted = FALSE
  Models <- MCModels
  Threads = {1}
  Sizes = {1, 3}
  Header = 2
  Page = 4
  MinGrowth = 8
  InitialSize = 8
  MaxSize = 32
  MaxHeld = 3
  Answers <- MCAnswers
  Tables <- MCTables
  Reserved = 3
  Wide = 1024
  MaxFails = 2
  EarlyFail = FALSE
  Buses <- MCBuses
  DriverFiles <- MCDriverFiles
  Exported <- MCExported
  HeapStart = 100
  MapFiles <- MCMapFiles
  KernelStacks <- MCKernelStacks
  UserStacks <- MCUserStacks
  UserTop = 150
  LowFrame = 1
  HighFrame = 100
  KernelFrames = 4
  UserFrames = 5
  FarAway = 30
  MaxResets = 1
  Wins = {1}
  Width = 3
  Height = 2
  Chars = {1, 2}
  MaxChars = 3
INVARIANTS PicturesRight ShownRight TransfersWhole HeldApart BootRight
CHECK_DEADLOCK FALSE
