SPECIFICATION Spec
CONSTANTS
  Blocks = {b1, b2, b3, b4, b5}
  Words = {w1}
  None = None
  MinPending = 1
  Part = 2
  MaxLimit = 6
INVARIANTS
  NewestFound
  SlotsShared
  LagBounded
PROPERTY
  RebuildsPaid
SYMMETRY Symmetry
