CONSTANTS
  perfect = perfect
  broken = broken
  slow = slow
  stuck = stuck
  poor = poor
  capacity = capacity
  transfer = transfer
  None = None
  Plan <- FivePlans
  Flaw <- TwoFlaws
  FlawsOf <- PlanFlaws
  Drawn <- TwoFlaws
  Translated = {capacity}
  Resolves <- Resolvers
  Unpriced = {broken}
  Configurations <- AllConfigurations
  EpochTimeout = 1
  TotalTimeout = 2
  MaxTime = 3
  MaxFails = 4
SPECIFICATION FairSpec
INVARIANTS
  TypeOK
  NothingLost
  EpochEndsForAReason
  DrawsAreFresh
PROPERTIES
  PlansImprove
  SavesUnderNewSession
  SolveEnds
CHECK_DEADLOCK FALSE
