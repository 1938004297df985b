SPECIFICATION Spec
CONSTANTS
  LastCluster = 5
  Slots = 2
  ClusterSize = 2
  NameLength = 1
  ExtLength = 1
  Upper <- MCUpper
  Paths <- MCPaths
  Lengths <- MCLengths
  FormatEnd = 4
  HostFiles <- MCHostFiles
CHECK_DEADLOCK FALSE
INVARIANTS TypeOK OneOwner NothingLeaks ContentsKept ReadsBack
PROPERTY ImplementsFileTree
