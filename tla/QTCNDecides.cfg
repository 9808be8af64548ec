CONSTANTS
  a = a
  b = b
  c = c
  Point <- ThreePoints
  Value <- Instants
  InputTypes <- OrderTypes
  Operations = {"greaterThan", "gecode", "incremental"}
  MaxAdds = 3
SPECIFICATION Spec
SYMMETRY PointSymmetry
INVARIANTS
  TypeOK
  RefutesOnlyUnsolvable
  IncrementalAcceptsOnlySolvable
  GecodeAcceptsOnlySolvable
  KeepsSolutions
  ProbeAnswersPossibility
PROPERTIES
  ChecksProgress
