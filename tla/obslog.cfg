SPECIFICATION Spec
SYMMETRY MCSymmetry
CONSTANTS
  p1 = p1
  p2 = p2
  small = small
  large = large
  s1 = s1
  s2 = s2
  None = None
  Procs <- MCProcs
  Contents <- MCContents
  Size <- MCSize
  Spaces <- MCSpaces
  MaxSegmentBytes = 2
  MaxBatch = 2
  MaxSeq = 2
  MaxUndo = 1
INVARIANTS
  LockHeld
  SegmentsDisjoint
  AckedStable
  SpaceAgreement
PROPERTY
  ImplementsDeviceLog
