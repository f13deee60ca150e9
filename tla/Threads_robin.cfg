SPECIFICATION Spec
CONSTANTS
  MaxCount = 3
  MaxHandlers = 16
  MaxThreads = 3
  Wrap = 2
PROPERTY
  RoundRobin
CHECK_DEADLOCK FALSE
