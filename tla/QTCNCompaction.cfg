CONSTANTS
  a = a
  b = b
  c = c
  Point <- ThreePoints
  Value <- Instants
  InputTypes <- ContradictoryTypes
  Operations = {"parallel", "gecode"}
  MaxAdds = 3
SPECIFICATION Spec
SYMMETRY PointSymmetry
INVARIANTS
  GecodeAcceptsOnlySolvable
