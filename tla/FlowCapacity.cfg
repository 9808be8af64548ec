SPECIFICATION Spec
CONSTANTS
  NumTimes = 4
  NumLocs = 2
  Roles <- MCRoles
  DemandSets <- Fetches
  Capacity <- Ones
  TransportDemand <- Ones
  Stranded <- Pairs
  Options <- FourOptions
  MaxSpaces = 1
INVARIANT
  CarriedWithinCapacity
CHECK_DEADLOCK FALSE
