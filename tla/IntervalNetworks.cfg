SPECIFICATION Spec
CONSTANTS
  Inf = 1000
  Points <- MCPoints
  Clients <- MCClients
  Valuations <- MCValuations
INVARIANTS
  TypeOK
  TighteningIsEquivalent
  LooseConsistencyTightens
  ThrowsOnlyUnsolvable
  TimesKeepSolutions
PROPERTIES
  OperationsEnd
CHECK_DEADLOCK FALSE
