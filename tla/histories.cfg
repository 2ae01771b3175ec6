SPECIFICATION Spec
CONSTANTS
  Torn = Torn
  None = None
  Devices <- MCDevices
  Copies <- MCCopies
  Rewriting = {1}
  MaxObs <- MCMaxObs
CHECK_DEADLOCK FALSE
INVARIANTS
  TypeOK
  OneHistory
  NothingDropped
  RelogIgnored
  StaleIgnored
  EachOnce
  BranchesInOrder
  Flagged
  LegacyAddsNothing
  WholeShownAsIs
