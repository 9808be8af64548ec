-------------------------- MODULE MCQualitativeTCN --------------------------
(***************************************************************************)
(* Instances of QualitativeTCN for TLC.                                    *)
(***************************************************************************)
EXTENDS QualitativeTCN, TLC

CONSTANTS a, b, c

ThreePoints == {a, b, c}
PointSymmetry == Permutations(Point)

\* As many instants as points are enough for every order of the points.
Instants == 0..(Cardinality(Point) - 1)

\* With the direction of a pair these give every type but !=.
OrderTypes == {"<", "<="}
\* Two types that exclude each other on one directed pair.
ContradictoryTypes == {"<", ">="}
=============================================================================
