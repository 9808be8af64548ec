CONSTANTS
  a = a
  b = b
  p = p
  q = q
  sherpa = sherpa
  transport = transport
  Location <- TwoLocations
  Position <- OnePosition
  Point <- TwoPoints
  Intervals <- TwoIntervals
  Model <- OneModel
  Function <- OneFunction
  Amount = {0, 1}
  Pools <- TwoPools
  References <- OneOrTwoPlaces
  Orders <- TwoOrders
  Durations <- TwoDurations
  Inf = 1000000000
  MaxEdits = 3
SPECIFICATION Spec
SYMMETRY LocationSymmetry
INVARIANTS
  TypeOK
  SavedFilesLoad
  LoadRestores
