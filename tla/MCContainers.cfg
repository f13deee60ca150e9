SPECIFICATION ContainersSpec
CONSTANTS
  BUFFER_SIZE = 3
  Char = {nul, a, b}
  Nul = nul
  NoItem = noitem
  Node = {n1, n2, n3, n4}
  Item = {a, b}
  NULL = NULL
  Garbage = Garbage
INVARIANTS
  TypeOK
  FullMeansMet
  ListTypeOK
  Linked
PROPERTIES
  DequeSpec
  ListSpec
CHECK_DEADLOCK FALSE
