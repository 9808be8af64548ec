--------------------------- MODULE MCIntervalTCN ---------------------------
(***************************************************************************)
(* Instances of IntervalTCN for TLC: three time points, bounds that are    *)
(* multiples of two steps of the grid (a step is what stp() widens by).    *)
(***************************************************************************)
EXTENDS IntervalTCN, TLC

MCPoints == {1, 2, 3}
MCHorizon == 14
MCValuations == [MCPoints -> 0..MCHorizon]

B(lo, hi) == [lo |-> lo, hi |-> hi]
Lists(e, S) == {[edge |-> e, bounds |-> b] : b \in S}
NoDomains == [p \in MCPoints |-> B(0, MCHorizon)]

\* Disjunctive networks: complete triangles, with reversed and negative edges, and
\* chains without a triangle.
FirstLists == {{B(2, 2), B(8, 10)}, {B(0, 4), B(6, 6)}, {B(-4, -2), B(2, 4)}}
SecondLists == {{B(0, 2), B(6, 8)}, {B(-6, 0), B(4, 6)}}
ThirdLists ==
  {<<<<1, 3>>, t>> : t \in {{}, {B(4, 6), B(8, 8)}, {B(0, 4), B(6, 8), B(10, 12)}}}
    \cup {<<<<3, 1>>, t>> : t \in {{B(-2, 0), B(2, 10)}, {B(-14, -12)}}}

Tightened ==
  {[entries |-> Lists(<<1, 2>>, f) \cup Lists(<<2, 3>>, s) \cup Lists(t[1], t[2]),
    domains |-> NoDomains,
    calls |-> {"upperLowerTightening", "loosePathConsistency"}] :
     f \in FirstLists, s \in SecondLists, t \in ThirdLists}

\* The networks of a time quantification: required times, travel times without
\* upper bound, durations; the last point may be reached by two ways, a
\* transition may be infeasible, a point may be a second start.
Quantified ==
  {[entries |-> Lists(<<1, 2>>, f) \cup Lists(e, s) \cup Lists(<<1, 3>>, t),
    domains |-> NoDomains, calls |-> {"quantifyTime"}] :
     f \in {{B(2, Inf)}, {B(0, Inf), B(2, 6)}, {B(Inf, Inf)}},
     s \in {{B(0, Inf)}, {B(2, Inf)}, {B(4, Inf), B(0, 6)}},
     t \in {{}, {B(8, Inf)}, {B(2, 2)}, {B(2, Inf), B(0, 8)}, {B(Inf, Inf)}},
     e \in {<<2, 3>>, <<3, 2>>}}

\* Simple networks with domains.
Propagated ==
  {[entries |-> Lists(<<1, 2>>, {f}) \cup Lists(e, {s}),
    domains |-> (1 :> x @@ 2 :> y @@ 3 :> z), calls |-> {"propagate"}] :
     f \in {B(2, 4), B(-2, 2)}, s \in {B(2, 2), B(4, 6), B(-8, -6)},
     e \in {<<2, 3>>, <<1, 2>>},
     x \in {B(0, 6)}, y \in {B(2, 8), B(4, 6)}, z \in {B(6, 12), B(0, 10)}}

MCClients == Tightened \cup Quantified \cup Propagated
=============================================================================
