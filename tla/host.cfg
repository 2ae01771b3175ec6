SPECIFICATION Spec
CONSTANTS
  p1 = p1
  p2 = p2
  None = None
  Processes <- Machine
  Versions = 2
  Once <- AddColumn
  MaxSegments = 1
  MaxFiles = 3
  MaxAttempts = 3
SYMMETRY Symmetry
INVARIANTS
  IndexedKept
  OneAppender
  SchemaComplete
  StatusTruthful
