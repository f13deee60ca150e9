SPECIFICATION Spec
CONSTANTS
  PAGE_COUNT = 5
  PAGE_SIZE = 8
  HEAP_START = 8
  HSIZE = 2
  Sizes = {1, 9}
  MemoryMaps <- Maps
PROPERTY FreedIsReusable
CHECK_DEADLOCK FALSE
