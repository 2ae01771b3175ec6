SPECIFICATION Spec
CONSTANTS
  Torn = Torn
  None = None
  Devices <- MCDevices
  Copies <- CodexCopies
  Rewriting = {}
  MaxObs <- MCMaxObs
CHECK_DEADLOCK FALSE
INVARIANTS
  KeepBoth
