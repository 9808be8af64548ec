CONSTANTS
  a = a
  b = b
  c = c
  Point <- ThreePoints
  Value <- Instants
  InputTypes <- OrderTypes
  Operations = {"remove", "beekManak"}
  MaxAdds = 3
SPECIFICATION Spec
SYMMETRY PointSymmetry
INVARIANTS
  BeekManakDecidesTriangles
