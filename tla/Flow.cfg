SPECIFICATION Spec
CONSTANTS
  NumTimes = 4
  NumLocs = 2
  Roles <- MCRoles
  DemandSets <- MCDemands
  Capacity <- Rooms
  TransportDemand <- Bulks
  Stranded <- Pairs
  Options <- FourOptions
  MaxSpaces = 2
INVARIANTS
  TypeOK
  FlawlessIsCarried
  FlawsAreReal
  FlowIsOwn
  PlansFollowFlow
  EfficacyIsHonest
CHECK_DEADLOCK FALSE
