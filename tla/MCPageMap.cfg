SPECIFICATION Spec
CONSTANTS
  PAGE_COUNT = 8
  PAGE_SIZE = 2
  HEAP_START = 4
  MemoryMaps <- Maps
INVARIANTS
  TypeOK
  KernelReserved
  RegisteredReserved
  Exclusive
PROPERTIES
  PagesSpec
  ReservedForever
CHECK_DEADLOCK FALSE
