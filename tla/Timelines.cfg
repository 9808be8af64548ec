CONSTANTS
  NumTimes = 4
  NumLocs = 2
  Roles = {1, 2}
  DemandSets <- SeparateDemands
SPECIFICATION FairSpec
INVARIANTS
  TypeOK
  NoDeadEnds
PROPERTIES
  PathsKept
  KeepsPromise
  SearchEnds
CHECK_DEADLOCK FALSE
