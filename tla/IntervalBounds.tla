--------------------------- MODULE IntervalBounds ---------------------------
(***************************************************************************)
(* Bounds, lists of bounds and interval constraints                        *)
(* (src/solvers/temporal/Bounds.cpp, IntervalConstraint.cpp) with the      *)
(* operations on lists that the tightening algorithms are made of          *)
(* (LoosePathConsistency.cpp).                                             *)
(*                                                                         *)
(* A bound is a double of the code. Here it is an integer on a grid whose  *)
(* step stands for the 1E-06 that the code adds to degenerate intervals;   *)
(* Inf is numeric_limits<double>::max(), which absorbs what is added to    *)
(* it, and numeric_limits<double>::min(), the smallest positive double, is *)
(* 0 on the grid. A list of bounds is the set of its members: addInterval  *)
(* keeps no duplicates, and no operation depends on the order.             *)
(***************************************************************************)
EXTENDS Integers, FiniteSets, FiniteSetsExt, Folds

CONSTANT Inf  \* numeric_limits<double>::max()

ASSUME InfAssumption == Inf \in Nat \ {0}

Eps == 1  \* 1E-06

Number == -Inf..Inf
Bounds == [lo : Number, hi : Number]

-----------------------------------------------------------------------------
(* Arithmetic of doubles: the largest one absorbs. *)

\* Mutant: integers that do not absorb.
PlusUnbounded(x, y) == x + y

Plus(x, y) ==
  IF {x, y} \cap {Inf, -Inf} = {} THEN IF x + y > Inf THEN Inf ELSE IF x + y < -Inf THEN -Inf ELSE x + y
  ELSE IF {-Inf, Inf} \subseteq {x, y} THEN 0
  ELSE IF Inf \in {x, y} THEN Inf ELSE -Inf

Larger(x, y) == IF x >= y THEN x ELSE y
Smaller(x, y) == IF x <= y THEN x ELSE y

-----------------------------------------------------------------------------
(* Bounds *)

IsValid(b) == b.lo <= b.hi

Lows(S) == {b.lo : b \in S}
Highs(S) == {b.hi : b \in S}

\* Bounds that only touch each other do not overlap, unless they share an end.
Overlaps(a, b) ==
  \/ a.lo = b.lo \/ a.hi = b.hi
  \/ ~ (a.hi <= b.lo \/ b.hi <= a.lo)

\* Bounds::equals: every member of the first list is in the second.
BoundsEqual(S, T) == S \subseteq T

IncludesNegative(S) == \E b \in S : b.lo < 0 \/ b.hi < 0

ReverseBounds(S) == {[lo |-> -b.hi, hi |-> -b.lo] : b \in S}

-----------------------------------------------------------------------------
(* Operations on lists *)

Hull(S) == [lo |-> Min(Lows(S)), hi |-> Max(Highs(S))]

Common(a, b) == [lo |-> Larger(a.lo, b.lo), hi |-> Smaller(a.hi, b.hi)]

\* LoosePathConsistency::intersection, TemporalConstraintNetwork::intersection
Intersection(S, T) == {c \in {Common(a, b) : a \in S, b \in T} : IsValid(c)}

\* What overlaps is merged, in whatever order it is found: a group begins with a
\* bound that overlaps with none that starts earlier.
DisjointIntervals(S) ==
  LET Starts == {b \in S : \A c \in S : Overlaps(b, c) => b.lo <= c.lo}
      Group(b) == {c \in S : b.lo <= c.lo /\ \A d \in Starts : b.lo < d.lo => c.lo < d.lo}
  IN  {Hull(Group(b)) : b \in Starts}

\* (The bound variable makes TLC evaluate the sums once.)
Composition(S, T) ==
  LET Sums == {[lo |-> Plus(a.lo, b.lo), hi |-> Plus(a.hi, b.hi)] : a \in S, b \in T}
  IN  UNION {DisjointIntervals(list) : list \in {{c \in Sums : IsValid(c)}}}

\* Every member of S is cut down to the hull of what it has in common with T.
LooseIntersection(S, T) ==
  {h \in {Hull(Intersection({a}, T)) : a \in {c \in S : Intersection({c}, T) # {}}} : h.lo # Inf}

=============================================================================
