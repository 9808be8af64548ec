---------------------------- MODULE PointAlgebra ----------------------------
(***************************************************************************)
(* The point algebra of solvers/temporal/point_algebra: the eight types of *)
(* a qualitative time point constraint, and the three tables the temporal  *)
(* networks compute with.  A type is written as the code prints it         *)
(* (TypeSymbol), Empty as "empty"; "P" is Universal, "!=" is Distinct.     *)
(*                                                                         *)
(* The tables are transcribed from the code, row by row; what they ought   *)
(* to be is said by Primitives and Holds, the reference semantics of a     *)
(* type (hpp:25-30: R = 2^P over the primitives <, = and >).               *)
(***************************************************************************)
EXTENDS Integers

Types == {"empty", ">", "<", "=", "!=", ">=", "<=", "P"}

(***************************************************************************)
(* Reference semantics.                                                    *)
(***************************************************************************)
Primitives(t) ==
  CASE t = "empty" -> {}
    [] t = "<"  -> {"<"}
    [] t = "="  -> {"="}
    [] t = ">"  -> {">"}
    [] t = "!=" -> {"<", ">"}
    [] t = ">=" -> {">", "="}
    [] t = "<=" -> {"<", "="}
    [] t = "P"  -> {"<", "=", ">"}

\* x t y: the relation that the Gecode model posts for an edge of type t.
Holds(t, x, y) ==
  \/ x < y /\ t \in {"<", "<=", "!=", "P"}
  \/ x = y /\ t \in {"=", "<=", ">=", "P"}
  \/ x > y /\ t \in {">", ">=", "!=", "P"}

(***************************************************************************)
(* The tables of the code.                                                 *)
(***************************************************************************)
Symmetric(t) ==
  CASE t = ">"  -> "<"
    [] t = "<"  -> ">"
    [] t = ">=" -> "<="
    [] t = "<=" -> ">="
    [] OTHER    -> t

\* The switch of getIntersection, for two different types that are neither
\* Empty nor Universal.
IntersectionSwitch(a, b) ==
  CASE a = "<"  -> IF b \in {"<=", "!="} THEN "<" ELSE "empty"
    [] a = ">"  -> IF b \in {">=", "!="} THEN ">" ELSE "empty"
    [] a = "="  -> IF b \in {">=", "<="} THEN "=" ELSE "empty"
    [] a = "<=" -> CASE b \in {"<", "!="}  -> "<"
                     [] b \in {">=", "="} -> "="
                     [] OTHER             -> "empty"
    [] a = ">=" -> CASE b \in {">", "!="}  -> ">"
                     [] b \in {"<=", "="} -> "="
                     [] OTHER             -> "empty"
    [] a = "!=" -> CASE b \in {">=", ">"} -> ">"
                     [] b \in {"<=", "<"} -> "<"
                     [] OTHER             -> "empty"

Intersection(a, b) ==
  IF a = "empty" \/ b = "empty" THEN "empty"
  ELSE IF a = "P" THEN b
  ELSE IF b = "P" \/ a = b THEN a
  ELSE IntersectionSwitch(a, b)

\* The rows of the map TypeAlgebra: every pair of two different types among
\* these whose first type is not Distinct has an entry.
TypeAlgebra(a, b) ==
  CASE a = "<"  -> CASE b \in {"=", "<="} -> "<"
                     [] b = "!="          -> "!="
                     [] OTHER             -> "P"
    [] a = "="  -> IF b = "!=" THEN "P" ELSE b
    [] a = ">"  -> CASE b \in {"=", ">="} -> ">"
                     [] b = "!="          -> "!="
                     [] OTHER             -> "P"
    [] a = ">=" -> CASE b = ">" -> ">"
                     [] b = "=" -> ">="
                     [] OTHER   -> "P"
    [] a = "<=" -> CASE b = "<" -> "<"
                     [] b = "=" -> "<="
                     [] OTHER   -> "P"

\* getComposition: Universal absorbs, a type composed with itself is itself,
\* Empty is neutral, and a pair without a row is read from the swapped row.
Composition(a, b) ==
  IF a = "P" \/ b = "P" THEN "P"
  ELSE IF a = b \/ b = "empty" THEN a
  ELSE IF a = "empty" THEN b
  ELSE IF a = "!=" THEN Symmetric(TypeAlgebra(b, a))
  ELSE TypeAlgebra(a, b)

\* The list overload folds from Empty, left to right.
CompositionOf3(a, b, c) ==
  Composition(Composition(Composition("empty", a), b), c)

(***************************************************************************)
(* The composition a table without error would have: the primitives that   *)
(* some pair of primitives of a and b composes to.                         *)
(***************************************************************************)
PrimitiveComposition(p, q) ==
  CASE p = "=" -> {q}
    [] q = "=" -> {p}
    [] p = q   -> {p}
    [] OTHER   -> {"<", "=", ">"}

Distributed(a, b) ==
  UNION {PrimitiveComposition(p, q) : p \in Primitives(a), q \in Primitives(b)}

(***************************************************************************)
(* Properties of the tables.                                               *)
(***************************************************************************)

\* getIntersection is the intersection of the sets of primitives.
IntersectionIsExact ==
  \A t, u \in Types :
    Primitives(Intersection(t, u)) = Primitives(t) \cap Primitives(u)

\* The two reads of a pair that getBidirectionalConstraintType makes agree:
\* reading the intersection from the other end is intersecting the symmetric
\* types.
SymmetricCommutesWithIntersection ==
  \A t, u \in Types :
    Symmetric(Intersection(t, u)) = Intersection(Symmetric(u), Symmetric(t))

\* Without Distinct and Empty the table is the composition of the primitives,
\* neither weaker nor stronger.
CompositionIsExact ==
  \A t, u \in Types \ {"!=", "empty"} :
    Primitives(Composition(t, u)) = Distributed(t, u)

\* The fold over a list does not depend on where the list is cut, although
\* it starts from Empty.
CompositionOfListAssociates ==
  \A t, u, w \in Types \ {"!="} :
    CompositionOf3(t, u, w) = Composition(t, Composition(u, w))
=============================================================================
