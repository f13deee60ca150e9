SPECIFICATION Spec
CONSTANTS
  MaxCount = 3
  MaxHandlers = 16
  MaxThreads = 5
  Wrap = 2
INVARIANTS
  TypeOK
  Identified
  Placed
  Turns
  Fifo
CHECK_DEADLOCK FALSE
