CONSTANTS
  NumTimes = 4
  NumLocs = 2
  Roles = {1, 2}
  DemandSets <- TouchingDemands
SPECIFICATION Spec
INVARIANTS
  IntervalsActivated
CHECK_DEADLOCK FALSE
