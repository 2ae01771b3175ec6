SPECIFICATION FairSpec
CONSTANTS
  a = a
  b = b
  k1 = k1
  k2 = k2
  Torn = Torn
  None = None
  Half = Half
  Keys = {k1, k2}
  Kinds = {TRUE}
  Rewritable = {}
  Lines = {a, b}
  Silent = {}
  Foreign <- NoSegments
  MaxLen = 2
  MaxEdits = 2
  MaxFaults = 1
INVARIANTS
  TypeOK
  StateLogged
  NoFalseDivergence
PROPERTY
  EventuallyShown
