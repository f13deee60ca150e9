SPECIFICATION Spec
CONSTANTS
  PAGE_COUNT = 6
  PAGE_SIZE = 8
  HEAP_START = 8
  HSIZE = 2
  Sizes = {1, 4, 9}
  MemoryMaps <- Maps
INVARIANT SplitOnlyBigger
CHECK_DEADLOCK FALSE
