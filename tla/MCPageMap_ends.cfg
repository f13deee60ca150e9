SPECIFICATION Spec
CONSTANTS
  PAGE_COUNT = 8
  PAGE_SIZE = 2
  HEAP_START = 4
  MemoryMaps <- MapOfEnds
INVARIANT MultibootReserved
CHECK_DEADLOCK FALSE
