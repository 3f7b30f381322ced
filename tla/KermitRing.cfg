SPECIFICATION Spec
CONSTANTS
  MNCHND = 3
  Byte = {b1, b2}
INVARIANTS
  RingHoldsQueue
PROPERTY
  InchrInOrder
