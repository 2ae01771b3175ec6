SPECIFICATION Spec
CONSTANTS
  d1 = d1
  d2 = d2
  daemon1 = daemon1
  daemon2 = daemon2
  r1 = r1
  r2 = r2
  None = None
  Devices = {d1, d2}
  Clients = {daemon1, daemon2}
  DeviceOf <- TwoDevices
  Relays = {r1, r2}
  Writers = {d1}
  MaxSegments = 2
  MaxUploads = 2
  MaxMoves = 1
  MaxPowerLosses = 1
  MaxCrashes = 0
  MaxFailures = 0
INVARIANTS
  NoGaps
  SyncMeansSynced
PROPERTY
  SegmentsKept
SYMMETRY Symmetry
