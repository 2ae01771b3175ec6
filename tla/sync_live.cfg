SPECIFICATION FairSpec
CONSTANTS
  d1 = d1
  d2 = d2
  daemon1 = daemon1
  daemon2 = daemon2
  r1 = r1
  r2 = r2
  None = None
  Devices = {d1, d2}
  Clients = {daemon1, daemon2}
  DeviceOf <- TwoDevices
  Relays = {r1, r2}
  Writers = {d1}
  MaxSegments = 1
  MaxUploads = 1
  MaxMoves = 2
  MaxPowerLosses = 0
  MaxCrashes = 1
  MaxFailures = 1
PROPERTY
  EventuallyEverywhere
