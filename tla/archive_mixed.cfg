SPECIFICATION Spec
CONSTANTS
  a = a
  b = b
  k1 = k1
  k2 = k2
  Torn = Torn
  None = None
  Half = Half
  Keys = {k1}
  Kinds = {TRUE, FALSE}
  Rewritable = {k1}
  Lines = {a, b}
  Silent = {b}
  Foreign <- OtherDevices
  MaxLen = 2
  MaxEdits = 2
  MaxFaults = 1
INVARIANTS
  CurrentUnlessMissed
  StateShown
  SkipSafe
PROPERTIES
  NoResurrection
  DeletedNotRecorded
