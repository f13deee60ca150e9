SPECIFICATION Spec
CONSTANTS
  BUFFER_SIZE = 2
  MaxKeys = 4
INVARIANTS
  TypeOK
  RingConsistent
  Accounted
  TypedOrder
PROPERTY
  Heard
