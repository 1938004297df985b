SPECIFICATION Spec
CONSTANTS
  HeapSize = 28
  Header = 2
  Sizes <- MCSizes
INVARIANTS TypeOK NoOverlap UseExact
PROPERTY ImplementsAllocator
