SPECIFICATION Spec
CONSTANTS
  None = None
  Role <- MCRole
  Model <- MCModel
  ModelOf <- MCModelOf
  ModelIndex <- MCModelIndex
  Mobile <- MCMobile
  Function <- MCFunction
  Support <- MCSupport
  Saturation <- MCSaturation
  Orders <- MCOrders
  Conditions <- MCConditions
  Full <- MCFull
  Searches <- MCSearches
INVARIANTS
  TypeOK
  MissionKept
  OneRoleAtATime
  NothingMissed
PROPERTIES
  SearchEnds
CHECK_DEADLOCK FALSE
