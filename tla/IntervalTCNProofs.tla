------------------------- MODULE IntervalTCNProofs -------------------------
(***************************************************************************)
(* Theorems about IntervalTCN, for any time points, networks and bounds:   *)
(* Upper-Lower-Tightening returns an equivalent network, a negative cycle  *)
(* means that there is no solution, the times of getAssignment are lower   *)
(* bounds, and the upper bounds of propagate cut off no solution. Loose    *)
(* path consistency, whose turns fold over the vertices, returns lists of  *)
(* bounds and an equivalent network, too, and on complete networks leaves  *)
(* no bounds that Upper-Lower-Tightening cuts off.                         *)
(***************************************************************************)
EXTENDS IntervalTCN, FiniteSetTheorems, WellFoundedInduction, TLAPS

(***************************************************************************)
(* Minima, maxima and the arithmetic of bounds                             *)
(***************************************************************************)

NatOrder == OpToRel(<, Nat)

LEMMA LeastNatural ==
  ASSUME NEW T, T \subseteq Nat, T # {}
  PROVE  \E m \in T : \A y \in T : m <= y
  <1>1. \A x, y \in Nat : x < y => <<x, y>> \in NatOrder
    BY DEF NatOrder, OpToRel
  <1>2. IsWellFoundedOn(NatOrder, Nat)
    BY NatLessThanWellFounded, Zenon DEF NatOrder
  <1>3. PICK m \in T : \A y \in T : ~ (<<y, m>> \in NatOrder)
    BY <1>2, WFMin, Zenon
  <1>4. ASSUME NEW y \in T PROVE m <= y
    <2>1. y \in Nat /\ m \in Nat
      OBVIOUS
    <2>2. ~ (y < m)
      BY <1>1, <1>3, <2>1
    <2> QED
      BY <2>1, <2>2
  <1> QED
    BY <1>4

LEMMA MinOfNumbers ==
  ASSUME NEW S, S \subseteq Number, S # {}
  PROVE  Min(S) \in S /\ \A x \in S : Min(S) <= x
  <1> DEFINE T == {x + Inf : x \in S}
  <1>1. T \subseteq Nat /\ T # {}
    <2>1. \A x \in S : x + Inf \in Nat
      BY InfAssumption DEF Number
    <2> QED
      BY <2>1
  <1>2. PICK m \in T : \A y \in T : m <= y
    BY <1>1, LeastNatural, Zenon
  <1>3. PICK x \in S : m = x + Inf
    OBVIOUS
  <1>4. \A y \in S : x <= y
    <2> TAKE y \in S
    <2>1. x + Inf <= y + Inf
      BY <1>2, <1>3
    <2> QED
      BY <2>1, InfAssumption DEF Number
  <1> QED
    BY <1>4 DEF Min

LEMMA MaxOfNumbers ==
  ASSUME NEW S, S \subseteq Number, S # {}
  PROVE  Max(S) \in S /\ \A x \in S : Max(S) >= x
  <1> DEFINE T == {Inf - x : x \in S}
  <1>1. T \subseteq Nat /\ T # {}
    <2>1. \A x \in S : Inf - x \in Nat
      BY InfAssumption DEF Number
    <2> QED
      BY <2>1
  <1>2. PICK m \in T : \A y \in T : m <= y
    BY <1>1, LeastNatural, Zenon
  <1>3. PICK x \in S : m = Inf - x
    OBVIOUS
  <1>4. \A y \in S : x >= y
    <2> TAKE y \in S
    <2>1. Inf - x <= Inf - y
      BY <1>2, <1>3
    <2> QED
      BY <2>1, InfAssumption DEF Number
  <1> QED
    BY <1>4 DEF Max

LEMMA PlusIsNumber ==
  ASSUME NEW x \in Number, NEW y \in Number
  PROVE  Plus(x, y) \in Number
  BY InfAssumption DEF Plus, Number

\* Saturation keeps an upper bound of a difference that is less than Inf.
LEMMA PlusAbove ==
  ASSUME NEW x \in Number, NEW y \in Number, NEW v \in Int, NEW w \in Int,
         v <= x, w <= y, -Inf < v, -Inf < w, -Inf < v + w, v + w < Inf
  PROVE  v + w <= Plus(x, y)
  BY InfAssumption DEF Plus, Number

\* It keeps a lower bound of one, too.
LEMMA PlusBelow ==
  ASSUME NEW x \in Number, NEW y \in Number, NEW v \in Int, NEW w \in Int,
         x <= v, y <= w, v < Inf, w < Inf, -Inf < v + w, v + w < Inf
  PROVE  Plus(x, y) <= v + w
  BY InfAssumption DEF Plus, Number

(***************************************************************************)
(* Graphs                                                                  *)
(***************************************************************************)

Diff(a, p) == a[p[2]] - a[p[1]]

\* A valuation keeps all bounds of a graph.
KeepsAll(a, g) == \A e \in DOMAIN g : \A b \in g[e] : Keeps(a, e, b)
KeepsOne(a, g) == \A e \in DOMAIN g : \E b \in g[e] : Keeps(a, e, b)

LEMMA DiffBounded ==
  ASSUME NEW a \in Valuations, NEW s \in Points, NEW t \in Points
  PROVE  /\ a[s] \in Int /\ a[t] \in Int
         /\ a[t] - a[s] \in Int
         /\ -Inf < a[t] - a[s] /\ a[t] - a[s] < Inf
  BY ValuationsAssumption

LEMMA NetworkIsGraph ==
  ASSUME client \in Clients
  PROVE  IsGraph(Network)
  <1>1. client.entries \subseteq Entry
    BY ClientsAssumption DEF Client
  <1>2. DOMAIN Network = {x.edge : x \in client.entries}
    BY DEF Network, AddIntervalConstraints
  <1>3. DOMAIN Network \subseteq Pairs
    BY <1>1, <1>2 DEF Entry
  <1>4. ASSUME NEW e \in DOMAIN Network PROVE Network[e] \subseteq Bounds
    BY <1>1, <1>4 DEF Network, AddIntervalConstraints, Entry
  <1>5. Network = [e \in DOMAIN Network |-> Network[e]]
    BY DEF Network, AddIntervalConstraints
  <1> QED
    BY <1>3, <1>4, <1>5 DEF IsGraph

LEMMA IntervalsTyped ==
  ASSUME NEW g, IsGraph(g), NEW s, NEW t
  PROVE  Intervals(g, s, t) \subseteq Bounds
  BY DEF IsGraph, Intervals

LEMMA EndsTyped ==
  ASSUME NEW S, S \subseteq Bounds
  PROVE  /\ Lows(S) \subseteq Number /\ Highs(S) \subseteq Number
         /\ {-x : x \in Lows(S)} \subseteq Number
  <1>1. \A b \in S : b.lo \in Number /\ b.hi \in Number
    BY DEF Bounds
  <1>2. Lows(S) \subseteq Number /\ Highs(S) \subseteq Number
    BY <1>1 DEF Lows, Highs
  <1>3. \A x \in Number : -x \in Number
    BY InfAssumption DEF Number
  <1> QED
    BY <1>2, <1>3

LEMMA ZeroInfNumbers == 0 \in Number /\ Inf \in Number /\ -Inf \in Number
  BY InfAssumption DEF Number

LEMMA WeightsTyped ==
  ASSUME NEW g, IsGraph(g), NEW s, NEW t
  PROVE  Weights(g, s, t) \subseteq Number
  BY IntervalsTyped, EndsTyped DEF Weights

\* A valuation that keeps all bounds keeps all weights.
LEMMA WeightsAreBounds ==
  ASSUME NEW g, IsGraph(g), NEW a \in Valuations, KeepsAll(a, g),
         NEW s \in Points, NEW t \in Points
  PROVE  \A w \in Weights(g, s, t) : a[t] - a[s] <= w
  <1> TAKE w \in Weights(g, s, t)
  <1>1. CASE w \in Highs(Intervals(g, s, t))
    <2>1. PICK b \in Intervals(g, s, t) : w = b.hi
      BY <1>1 DEF Highs
    <2>2. <<s, t>> \in DOMAIN g /\ b \in g[<<s, t>>]
      BY <2>1 DEF Intervals
    <2>3. Keeps(a, <<s, t>>, b)
      BY <2>2 DEF KeepsAll
    <2> QED
      BY <2>1, <2>3 DEF Keeps
  <1>2. CASE w \in {-x : x \in Lows(Intervals(g, t, s))}
    <2>1. PICK b \in Intervals(g, t, s) : w = -b.lo
      BY <1>2 DEF Lows
    <2>2. <<t, s>> \in DOMAIN g /\ b \in g[<<t, s>>]
      BY <2>1 DEF Intervals
    <2>3. Keeps(a, <<t, s>>, b)
      BY <2>2 DEF KeepsAll
    <2>4. b.lo \in Int
      BY <2>1, IntervalsTyped DEF Bounds, Number
    <2> QED
      BY <2>1, <2>3, <2>4, DiffBounded DEF Keeps
  <1> QED
    BY <1>1, <1>2 DEF Weights

LEMMA WeightMatrixTyped ==
  ASSUME NEW g, IsGraph(g)
  PROVE  WeightMatrix(g) \in [Points \X Points -> Number]
  <1>1. \A s, t \in Points : Min(Weights(g, s, t) \cup {Inf}) \in Number
    BY WeightsTyped, MinOfNumbers, ZeroInfNumbers
  <1> QED
    BY <1>1, ZeroInfNumbers DEF WeightMatrix

LEMMA WeightMatrixIsBound ==
  ASSUME NEW g, IsGraph(g), NEW a \in Valuations, KeepsAll(a, g)
  PROVE  \A p \in Points \X Points : Diff(a, p) <= WeightMatrix(g)[p]
  <1> TAKE p \in Points \X Points
  <1>1. p[1] \in Points /\ p[2] \in Points
    OBVIOUS
  <1>2. CASE p[1] = p[2]
    BY <1>1, <1>2, DiffBounded DEF WeightMatrix, Diff
  <1>3. CASE p[1] # p[2]
    <2> DEFINE W == Weights(g, p[1], p[2]) \cup {Inf}
    <2>1. Min(W) \in W
      <3>1. W \subseteq Number /\ W # {}
        BY WeightsTyped, ZeroInfNumbers
      <3> QED
        BY <3>1, MinOfNumbers
    <2>2. \A w \in Weights(g, p[1], p[2]) : a[p[2]] - a[p[1]] <= w
      BY <1>1, WeightsAreBounds
    <2>3. a[p[2]] - a[p[1]] <= Inf
      BY <1>1, DiffBounded, InfAssumption
    <2>4. \A w \in W : Diff(a, p) <= w
      BY <2>2, <2>3 DEF Diff
    <2> QED
      BY <1>3, <2>1, <2>4 DEF WeightMatrix
  <1> QED
    BY <1>2, <1>3

(***************************************************************************)
(* Hulls                                                                   *)
(***************************************************************************)

LEMMA DisjunctiveHullTyped ==
  ASSUME NEW S, S \subseteq Bounds
  PROVE  DisjunctiveHull(S) \in Bounds
  <1>1. Lows(S) \cup {Inf} \subseteq Number /\ Highs(S) \cup {0} \subseteq Number
    BY EndsTyped, ZeroInfNumbers
  <1>2. Min(Lows(S) \cup {Inf}) \in Number
    BY <1>1, MinOfNumbers
  <1>3. Max(Highs(S) \cup {0}) \in Number
    BY <1>1, MaxOfNumbers
  <1>4. Plus(Min(Lows(S) \cup {Inf}), Eps) \in Number
    <2>1. Eps \in Number
      BY InfAssumption DEF Eps, Number
    <2> QED
      BY <1>2, <2>1, PlusIsNumber
  <1> QED
    BY <1>2, <1>3, <1>4 DEF DisjunctiveHull, Bounds, Larger

\* The hull of disjunctive intervals holds for what one of them holds for.
LEMMA DisjunctiveHullHolds ==
  ASSUME NEW S, S \subseteq Bounds, NEW b \in S, NEW x \in Int,
         b.lo <= x, x <= b.hi
  PROVE  DisjunctiveHull(S).lo <= x /\ x <= DisjunctiveHull(S).hi
  <1>1. Lows(S) \cup {Inf} \subseteq Number /\ Highs(S) \cup {0} \subseteq Number
    BY EndsTyped, ZeroInfNumbers
  <1>2. b.lo \in Lows(S) /\ b.hi \in Highs(S)
    BY DEF Lows, Highs
  <1>3. b.lo \in Int /\ b.hi \in Int
    BY DEF Bounds, Number
  <1> DEFINE lo == Min(Lows(S) \cup {Inf})
             hi == Max(Highs(S) \cup {0})
  <1>4. lo \in Number /\ lo <= b.lo
    BY <1>1, <1>2, MinOfNumbers
  <1>5. hi \in Number /\ b.hi <= hi
    <2>1. hi \in Number /\ hi >= b.hi
      BY <1>1, <1>2, MaxOfNumbers
    <2> QED
      BY <1>3, <2>1 DEF Number
  <1> HIDE DEF lo, hi
  <1>6. Plus(lo, Eps) \in Number
    <2>1. Eps \in Number
      BY InfAssumption DEF Eps, Number
    <2> QED
      BY <1>4, <2>1, PlusIsNumber
  <1>7. lo <= x /\ x <= Larger(hi, Plus(lo, Eps))
    BY <1>3, <1>4, <1>5, <1>6 DEF Larger, Number
  <1> QED
    BY <1>7 DEF DisjunctiveHull, lo, hi

LEMMA ConjunctiveHullTyped ==
  ASSUME NEW S, S \subseteq Bounds
  PROVE  ConjunctiveHull(S) \in Bounds
  <1>1. Lows(S) \cup {0} \subseteq Number /\ Highs(S) \cup {Inf} \subseteq Number
    BY EndsTyped, ZeroInfNumbers
  <1>2. Max(Lows(S) \cup {0}) \in Number
    BY <1>1, MaxOfNumbers
  <1>3. Min(Highs(S) \cup {Inf}) \in Number
    BY <1>1, MinOfNumbers
  <1> QED
    BY <1>2, <1>3 DEF ConjunctiveHull, Bounds

\* What intervals with lower bounds from 0 have in common holds for what all of
\* them hold for.
LEMMA ConjunctiveHullHolds ==
  ASSUME NEW S, S \subseteq Bounds, S # {}, NEW x \in Int, x <= Inf,
         \A b \in S : 0 <= b.lo /\ b.lo <= x /\ x <= b.hi
  PROVE  ConjunctiveHull(S).lo <= x /\ x <= ConjunctiveHull(S).hi
  <1>1. Lows(S) \cup {0} \subseteq Number /\ Highs(S) \cup {Inf} \subseteq Number
    BY EndsTyped, ZeroInfNumbers
  <1>2. \A b \in S : b.lo \in Int /\ b.hi \in Int
    BY DEF Bounds, Number
  <1>3. \A y \in Lows(S) \cup {0} : y <= x
    BY <1>2 DEF Lows
  <1>4. \A y \in Highs(S) \cup {Inf} : x <= y
    BY <1>2, InfAssumption DEF Highs
  <1>5. Max(Lows(S) \cup {0}) <= x
    BY <1>1, <1>3, MaxOfNumbers
  <1>6. x <= Min(Highs(S) \cup {Inf})
    BY <1>1, <1>4, MinOfNumbers
  <1> QED
    BY <1>5, <1>6 DEF ConjunctiveHull

LEMMA StpIsGraph ==
  ASSUME NEW g, IsGraph(g)
  PROVE  /\ IsGraph(Stp(g)) /\ DOMAIN Stp(g) = DOMAIN g
         /\ \A a \in Valuations : KeepsOne(a, g) => KeepsAll(a, Stp(g))
  <1>1. DOMAIN Stp(g) = DOMAIN g /\ \A e \in DOMAIN g : Stp(g)[e] = {DisjunctiveHull(g[e])}
    BY DEF Stp
  <1>2. \A e \in DOMAIN g : Stp(g)[e] \subseteq Bounds
    BY <1>1, DisjunctiveHullTyped DEF IsGraph
  <1>3. Stp(g) = [e \in DOMAIN Stp(g) |-> Stp(g)[e]]
    BY DEF Stp
  <1>4. IsGraph(Stp(g))
    BY <1>1, <1>2, <1>3 DEF IsGraph
  <1>5. ASSUME NEW a \in Valuations, KeepsOne(a, g), NEW e \in DOMAIN g
        PROVE  Keeps(a, e, DisjunctiveHull(g[e]))
    <2>1. PICK b \in g[e] : Keeps(a, e, b)
      BY <1>5 DEF KeepsOne
    <2>2. e[1] \in Points /\ e[2] \in Points /\ g[e] \subseteq Bounds
      BY <1>5 DEF IsGraph, Pairs
    <2>3. a[e[2]] - a[e[1]] \in Int
      BY <2>2, DiffBounded
    <2> QED
      BY <2>1, <2>2, <2>3, DisjunctiveHullHolds DEF Keeps
  <1> QED
    BY <1>1, <1>4, <1>5 DEF KeepsAll

LEMMA StpWithConjunctiveIntervalsIsGraph ==
  ASSUME NEW g, IsGraph(g), \A e \in DOMAIN g : g[e] # {} /\ \A b \in g[e] : 0 <= b.lo
  PROVE  LET h == StpWithConjunctiveIntervals(g)
         IN  /\ IsGraph(h) /\ DOMAIN h = DOMAIN g
             /\ \A a \in Valuations : KeepsAll(a, g) => KeepsOne(a, h)
  <1> DEFINE h == StpWithConjunctiveIntervals(g)
  <1>1. DOMAIN h = DOMAIN g /\ \A e \in DOMAIN g : h[e] = {ConjunctiveHull(g[e])}
    BY DEF StpWithConjunctiveIntervals
  <1>2. \A e \in DOMAIN g : h[e] \subseteq Bounds
    BY <1>1, ConjunctiveHullTyped DEF IsGraph
  <1>3. h = [e \in DOMAIN h |-> h[e]]
    BY DEF StpWithConjunctiveIntervals
  <1>4. IsGraph(h)
    BY <1>1, <1>2, <1>3 DEF IsGraph
  <1>5. ASSUME NEW a \in Valuations, KeepsAll(a, g), NEW e \in DOMAIN g
        PROVE  Keeps(a, e, ConjunctiveHull(g[e]))
    <2>1. \A b \in g[e] : 0 <= b.lo /\ b.lo <= a[e[2]] - a[e[1]] /\ a[e[2]] - a[e[1]] <= b.hi
      BY <1>5 DEF KeepsAll, Keeps
    <2>2. e[1] \in Points /\ e[2] \in Points /\ g[e] \subseteq Bounds /\ g[e] # {}
      BY <1>5 DEF IsGraph, Pairs
    <2>3. a[e[2]] - a[e[1]] \in Int /\ a[e[2]] - a[e[1]] <= Inf
      BY <2>2, DiffBounded, InfAssumption
    <2> QED
      BY <2>1, <2>2, <2>3, ConjunctiveHullHolds DEF Keeps
  <1> QED
    BY <1>1, <1>4, <1>5 DEF KeepsOne

LEMMA MinNetworkIsGraph ==
  ASSUME NEW g, IsGraph(g), NEW d \in [Points \X Points -> Number]
  PROVE  /\ IsGraph(MinNetwork(g, d)) /\ DOMAIN MinNetwork(g, d) = DOMAIN g
         /\ \A e \in DOMAIN g : MinNetwork(g, d)[e] # {}
         /\ \A a \in Valuations :
              (\A p \in Points \X Points : Diff(a, p) <= d[p]) => KeepsAll(a, MinNetwork(g, d))
  <1> DEFINE h == MinNetwork(g, d)
  <1>1. DOMAIN h = DOMAIN g
        /\ \A e \in DOMAIN g : h[e] = {[lo |-> -d[<<e[2], e[1]>>], hi |-> d[e]]}
    BY DEF MinNetwork
  <1>2. \A e \in DOMAIN g :
          e \in Points \X Points /\ <<e[2], e[1]>> \in Points \X Points
          /\ e[1] \in Points /\ e[2] \in Points
    BY DEF IsGraph, Pairs
  <1>3. ASSUME NEW e \in DOMAIN g PROVE h[e] \subseteq Bounds
    <2>1. d[e] \in Number /\ d[<<e[2], e[1]>>] \in Number
      BY <1>2, <1>3
    <2>2. -d[<<e[2], e[1]>>] \in Number
      BY <2>1, InfAssumption DEF Number
    <2> QED
      BY <1>1, <2>1, <2>2 DEF Bounds
  <1>4. h = [e \in DOMAIN h |-> h[e]]
    BY DEF MinNetwork
  <1>5. IsGraph(h)
    BY <1>1, <1>3, <1>4 DEF IsGraph
  <1>6. ASSUME NEW a \in Valuations, \A p \in Points \X Points : Diff(a, p) <= d[p],
               NEW e \in DOMAIN g
        PROVE  Keeps(a, e, [lo |-> -d[<<e[2], e[1]>>], hi |-> d[e]])
    <2>1. Diff(a, e) <= d[e] /\ Diff(a, <<e[2], e[1]>>) <= d[<<e[2], e[1]>>]
      BY <1>2, <1>6
    <2>2. d[<<e[2], e[1]>>] \in Int /\ a[e[1]] \in Int /\ a[e[2]] \in Int
      BY <1>2, DiffBounded DEF Number
    <2> QED
      BY <2>1, <2>2 DEF Keeps, Diff
  <1>7. ASSUME NEW a \in Valuations, \A p \in Points \X Points : Diff(a, p) <= d[p]
        PROVE  KeepsAll(a, h)
    <2> SUFFICES ASSUME NEW e \in DOMAIN h, NEW b \in h[e] PROVE Keeps(a, e, b)
      BY DEF KeepsAll
    <2>1. e \in DOMAIN g /\ b = [lo |-> -d[<<e[2], e[1]>>], hi |-> d[e]]
      BY <1>1
    <2> QED
      BY <1>6, <1>7, <2>1
  <1>8. \A e \in DOMAIN g : h[e] # {}
    BY <1>1
  <1> HIDE DEF h
  <1>9. DOMAIN h = DOMAIN g
    BY <1>1
  <1> QED
    BY <1>5, <1>7, <1>8, <1>9 DEF h

LEMMA CommonIsBounds ==
  ASSUME NEW b \in Bounds, NEW c \in Bounds
  PROVE  Common(b, c) \in Bounds
  BY DEF Common, Bounds, Larger, Smaller

LEMMA CommonHolds ==
  ASSUME NEW b \in Bounds, NEW c \in Bounds, NEW x \in Int
  PROVE  /\ b.lo <= x /\ x <= b.hi /\ c.lo <= x /\ x <= c.hi
              => Common(b, c).lo <= x /\ x <= Common(b, c).hi /\ IsValid(Common(b, c))
         /\ Common(b, c).lo <= x /\ x <= Common(b, c).hi => b.lo <= x /\ x <= b.hi
  <1>1. b.lo \in Int /\ b.hi \in Int /\ c.lo \in Int /\ c.hi \in Int
    BY DEF Bounds, Number
  <1> QED
    BY <1>1 DEF Common, Larger, Smaller, IsValid

LEMMA IntersectionIsGraph ==
  ASSUME NEW g, IsGraph(g), NEW h, IsGraph(h), DOMAIN h = DOMAIN g,
         \A e \in DOMAIN h : h[e] # {}
  PROVE  /\ IsGraph(IntersectionWith(g, h)) /\ DOMAIN IntersectionWith(g, h) = DOMAIN g
         /\ \A a \in Valuations :
              KeepsOne(a, g) /\ KeepsAll(a, h) => KeepsOne(a, IntersectionWith(g, h))
         /\ \A a \in Valuations : KeepsOne(a, IntersectionWith(g, h)) => KeepsOne(a, g)
  <1> DEFINE i == IntersectionWith(g, h)
  <1>1. DOMAIN i = DOMAIN g /\ \A e \in DOMAIN g : i[e] = Intersection(g[e], h[e])
    BY DEF IntersectionWith
  <1>2. \A e \in DOMAIN g : g[e] \subseteq Bounds /\ h[e] \subseteq Bounds
                         /\ e[1] \in Points /\ e[2] \in Points
    BY DEF IsGraph, Pairs
  <1>3. \A e \in DOMAIN g : i[e] \subseteq Bounds
    BY <1>1, <1>2, CommonIsBounds DEF Intersection
  <1>4. i = [e \in DOMAIN i |-> i[e]]
    BY DEF IntersectionWith
  <1>5. IsGraph(i)
    BY <1>1, <1>3, <1>4 DEF IsGraph
  <1>6. ASSUME NEW a \in Valuations, KeepsOne(a, g), KeepsAll(a, h), NEW e \in DOMAIN g
        PROVE  \E b \in i[e] : Keeps(a, e, b)
    <2>1. PICK b \in g[e] : Keeps(a, e, b)
      BY <1>6 DEF KeepsOne
    <2>2. PICK c \in h[e] : Keeps(a, e, c)
      BY <1>6 DEF KeepsAll
    <2>3. a[e[2]] - a[e[1]] \in Int
      BY <1>2, DiffBounded
    <2>4. Keeps(a, e, Common(b, c)) /\ IsValid(Common(b, c))
      BY <1>2, <2>1, <2>2, <2>3, CommonHolds DEF Keeps
    <2> QED
      BY <1>1, <2>4 DEF Intersection
  <1>7. ASSUME NEW a \in Valuations, KeepsOne(a, i), NEW e \in DOMAIN g
        PROVE  \E b \in g[e] : Keeps(a, e, b)
    <2>1. PICK b \in g[e], c \in h[e] : Keeps(a, e, Common(b, c))
      BY <1>1, <1>7 DEF KeepsOne, Intersection
    <2>2. a[e[2]] - a[e[1]] \in Int
      BY <1>2, DiffBounded
    <2> QED
      BY <1>2, <2>1, <2>2, CommonHolds DEF Keeps
  <1> QED
    BY <1>1, <1>5, <1>6, <1>7 DEF KeepsOne

(***************************************************************************)
(* Distances                                                               *)
(***************************************************************************)

\* The distances dominate the differences of a valuation.
Dominates(d, a) == \A p \in Points \X Points : Diff(a, p) <= d[p]

Relaxed(d, k) ==
  [p \in Points \X Points |-> Smaller(d[p], Plus(d[<<p[1], k>>], d[<<k, p[2]>>]))]

LEMMA RelaxedTyped ==
  ASSUME NEW d \in [Points \X Points -> Number], NEW k \in Points
  PROVE  Relaxed(d, k) \in [Points \X Points -> Number]
  <1>1. ASSUME NEW p \in Points \X Points
        PROVE  Smaller(d[p], Plus(d[<<p[1], k>>], d[<<k, p[2]>>])) \in Number
    BY <1>1, PlusIsNumber DEF Smaller
  <1> QED
    BY <1>1 DEF Relaxed

LEMMA RelaxedDominates ==
  ASSUME NEW d \in [Points \X Points -> Number], NEW k \in Points,
         NEW a \in Valuations, Dominates(d, a)
  PROVE  Dominates(Relaxed(d, k), a)
  <1> SUFFICES ASSUME NEW p \in Points \X Points
               PROVE  Diff(a, p) <= Smaller(d[p], Plus(d[<<p[1], k>>], d[<<k, p[2]>>]))
    BY DEF Dominates, Relaxed
  <1> DEFINE x == d[<<p[1], k>>]
             y == d[<<k, p[2]>>]
             v == a[k] - a[p[1]]
             w == a[p[2]] - a[k]
  <1>1. p[1] \in Points /\ p[2] \in Points
    OBVIOUS
  <1>2. v <= x /\ w <= y /\ Diff(a, p) <= d[p]
    BY <1>1 DEF Dominates, Diff
  <1>3. /\ v \in Int /\ w \in Int /\ -Inf < v /\ -Inf < w
        /\ v + w = Diff(a, p) /\ -Inf < v + w /\ v + w < Inf
    BY <1>1, DiffBounded DEF Diff
  <1>4. x \in Number /\ y \in Number
    BY <1>1
  <1> HIDE DEF x, y, v, w
  <1>5. v + w <= Plus(x, y)
    BY <1>2, <1>3, <1>4, PlusAbove
  <1>6. Diff(a, p) <= Smaller(d[p], Plus(x, y))
    BY <1>2, <1>3, <1>5 DEF Smaller
  <1> QED
    BY <1>6 DEF x, y

LEMMA NegativeCycleHasNoSolution ==
  ASSUME dist \in [Points \X Points -> Number],
         NEW a \in Valuations, Dominates(dist, a)
  PROVE  ~ NegativeCycle
  <1> SUFFICES ASSUME NEW p \in Points, dist[<<p, p>>] < 0 PROVE FALSE
    BY DEF NegativeCycle
  <1>0. dist[<<p, p>>] \in Int
    BY DEF Number
  <1>1. Diff(a, <<p, p>>) <= dist[<<p, p>>]
    BY DEF Dominates
  <1>2. Diff(a, <<p, p>>) = 0
    BY DiffBounded DEF Diff
  <1> QED
    BY <1>0, <1>1, <1>2

(***************************************************************************)
(* The invariant                                                           *)
(***************************************************************************)

\* The types that the argument needs; GraphInv, at the end, adds those of the networks.
TypeInv ==
  /\ client \in Clients
  /\ job \in Jobs \cup {"none"}
  /\ dist \in [Points \X Points -> Number]
  /\ todo \subseteq Points
  /\ at \in Points
  /\ domain \in [Points -> Bounds]
  /\ DOMAIN times \subseteq Points /\ \A p \in DOMAIN times : times[p] \in Number
  /\ result = [j \in Jobs |-> result[j]]

\* Which operation is in which of its phases.
PhaseInv ==
  /\ pc \in {"idle", "paths", "tighten", "loose", "assign", "visit"}
  /\ pc = "paths" => job \in {"upperLowerTightening", "quantifyTime", "propagate"}
  /\ pc = "tighten" => job = "upperLowerTightening"
  /\ pc = "loose" => job = "loosePathConsistency"
  /\ pc = "assign" => job = "quantifyTime"
  /\ pc = "visit" => job = "propagate"
  /\ pc \in {"paths", "tighten", "assign", "visit"} => IsGraph(tcn)
  /\ job = "quantifyTime" => job \in client.calls

\* Between the turns the network is equivalent to the input; within a turn the old
\* one is, and the simple one holds for every solution.
TightenInv ==
  /\ pc = "tighten" => \A a \in Valuations : KeepsOne(a, tcn) <=> KeepsOne(a, Network)
  /\ pc = "paths" /\ job = "upperLowerTightening" =>
       /\ IsGraph(old) /\ DOMAIN old = DOMAIN tcn
       /\ \A e \in DOMAIN tcn : tcn[e] # {}
       /\ \A a \in Valuations : KeepsOne(a, old) <=> KeepsOne(a, Network)
       /\ \A a \in Valuations : KeepsOne(a, Network) => KeepsAll(a, tcn)

DistInv == pc = "paths" => \A a \in SolutionsFor(job) : Dominates(dist, a)

AssignInv ==
  /\ job = "quantifyTime" /\ pc \in {"paths", "assign"} => DOMAIN tcn = DOMAIN Network
  /\ pc = "assign" =>
       /\ at \in DOMAIN times
       /\ \A a \in ConjunctiveSolutions(Network) : KeepsAll(a, tcn)

VisitInv ==
  /\ job = "propagate" /\ pc = "paths" => tcn = Network
  /\ pc = "visit" =>
       /\ unseen \subseteq Pairs \X Number
       /\ \A x \in unseen : \A a \in ConjunctiveSolutions(Network) : Diff(a, x[1]) <= x[2]

ResultInv ==
  Returned("upperLowerTightening") =>
    Solutions(result["upperLowerTightening"].graph) = Solutions(Network)

IInv ==
  /\ TypeInv /\ PhaseInv /\ TightenInv /\ DistInv /\ AssignInv /\ VisitInv
  /\ ResultInv /\ ThrowsOnlyUnsolvable /\ TimesAreLowerBounds /\ UpperBoundsKept

LEMMA SolutionsAre ==
  /\ \A a : a \in Solutions(Network) <=> a \in Valuations /\ KeepsOne(a, Network)
  /\ \A a : a \in ConjunctiveSolutions(Network) <=> a \in Valuations /\ KeepsAll(a, Network)
  BY DEF Solutions, ConjunctiveSolutions, KeepsOne, KeepsAll

LEMMA NetworkNotEmpty == \A e \in DOMAIN Network : Network[e] # {}
  BY DEF Network, AddIntervalConstraints

LEMMA NetworkForward ==
  ASSUME client \in Clients, "quantifyTime" \in client.calls
  PROVE  \A e \in DOMAIN Network : \A b \in Network[e] : 0 <= b.lo
  <1>1. \A x \in client.entries : x.bounds.lo >= 0 /\ x.bounds.lo \in Int
    BY ForwardAssumption, ClientsAssumption DEF Client, Entry, Bounds, Number
  <1> QED
    BY <1>1 DEF Network, AddIntervalConstraints

\* The client's network stays what it is.
LEMMA NetworkStays ==
  ASSUME client' = client
  PROVE  /\ Network' = Network
         /\ \A j : SolutionsFor(j)' = SolutionsFor(j)
         /\ Solutions(Network)' = Solutions(Network)
         /\ ConjunctiveSolutions(Network)' = ConjunctiveSolutions(Network)
  BY DEF Network, SolutionsFor, Solutions, ConjunctiveSolutions

(***************************************************************************)
(* The steps                                                               *)
(***************************************************************************)

LEMMA NowhereTyped == Nowhere \in Points
  BY PointsAssumption DEF Nowhere

LEMMA NoGraphIsGraph == IsGraph(NoGraph)
  BY DEF NoGraph, AddIntervalConstraints, IsGraph

LEMMA NoDistTyped == NoDist \in [Points \X Points -> Number]
  BY ZeroInfNumbers DEF NoDist

\* An operation may return what it promises to return.
LEMMA ReturnKeeps ==
  ASSUME IInv, NEW o, NEW g, pc # "idle", Return(o, g), UNCHANGED <<domain, times>>,
         job = "upperLowerTightening" /\ o = "returned" => Solutions(g) = Solutions(Network),
         o = "threw" => \/ SolutionsFor(job) = {}
                        \/ job = "quantifyTime" /\ Cardinality(StartPoints(Network)) # 1
  PROVE  IInv'
  <1>1. client' = client /\ job' = job /\ pc' = "idle" /\ domain' = domain /\ times' = times
    BY DEF Return
  <1>2. job \in Jobs
    BY DEF IInv, PhaseInv, Jobs
  <1>3. TypeInv'
    <2>1. dist' \in [Points \X Points -> Number] /\ at' \in Points /\ todo' \subseteq Points
      BY NoDistTyped, NowhereTyped DEF Return
    <2>2. result' = [j \in Jobs |-> result'[j]]
      BY DEF IInv, TypeInv, Return
    <2> QED
      BY <1>1, <2>1, <2>2 DEF IInv, TypeInv
  <1>4. PhaseInv'
    BY <1>1 DEF IInv, PhaseInv
  <1>5. TightenInv' /\ DistInv' /\ AssignInv' /\ VisitInv'
    BY <1>1 DEF TightenInv, DistInv, AssignInv, VisitInv
  <1>6. \A j \in Jobs : result'[j] = IF j = job THEN [outcome |-> o, graph |-> g] ELSE result[j]
    BY <1>2 DEF IInv, TypeInv, Return
  <1>7. ResultInv'
    <2> SUFFICES ASSUME Returned("upperLowerTightening")'
                 PROVE  Solutions(result'["upperLowerTightening"].graph) = Solutions(Network)'
      BY DEF ResultInv, Solutions
    <2>1. CASE job = "upperLowerTightening"
      BY <1>1, <1>6, <2>1, NetworkStays DEF Returned, Jobs
    <2>2. CASE job # "upperLowerTightening"
      BY <1>1, <1>6, <2>2, NetworkStays DEF Returned, Jobs, IInv, ResultInv
    <2> QED
      BY <2>1, <2>2
  <1>8. ThrowsOnlyUnsolvable'
    <2>1. StartPoints(Network)' = StartPoints(Network)
      BY <1>1, NetworkStays DEF StartPoints, Vertices
    <2> SUFFICES ASSUME NEW j \in Jobs, result'[j].outcome = "threw"
                 PROVE  \/ SolutionsFor(j)' = {}
                        \/ j = "quantifyTime" /\ Cardinality(StartPoints(Network)') # 1
      BY DEF ThrowsOnlyUnsolvable, StartPoints, Vertices
    <2> QED
      BY <1>1, <1>6, <2>1, NetworkStays DEF IInv, ThrowsOnlyUnsolvable
  <1>9. TimesAreLowerBounds' /\ UpperBoundsKept'
    BY <1>1, NetworkStays DEF IInv, TimesAreLowerBounds, UpperBoundsKept, StartPoints, Vertices
  <1> QED
    BY <1>3, <1>4, <1>5, <1>7, <1>8, <1>9 DEF IInv

\* Steps that leave times, domains and results alone keep what is said of them.
LEMMA PromisesStay ==
  ASSUME IInv, client' = client, UNCHANGED <<domain, times, result>>
  PROVE  ResultInv' /\ ThrowsOnlyUnsolvable' /\ TimesAreLowerBounds' /\ UpperBoundsKept'
  <1>1. StartPoints(Network)' = StartPoints(Network)
    BY NetworkStays DEF StartPoints, Vertices
  <1>2. ResultInv'
    BY NetworkStays DEF IInv, ResultInv, Returned, Solutions
  <1>3. ThrowsOnlyUnsolvable'
    BY <1>1, NetworkStays DEF IInv, ThrowsOnlyUnsolvable
  <1>4. TimesAreLowerBounds'
    BY <1>1, NetworkStays DEF IInv, TimesAreLowerBounds
  <1>5. UpperBoundsKept'
    BY NetworkStays DEF IInv, UpperBoundsKept
  <1> QED
    BY <1>2, <1>3, <1>4, <1>5

\* Shortest paths begin with the weights of a graph that holds for the solutions.
LEMMA WeightsDominate ==
  ASSUME NEW g, IsGraph(g), NEW a \in Valuations, KeepsAll(a, g)
  PROVE  Dominates(WeightMatrix(g), a)
  BY WeightMatrixIsBound DEF Dominates

LEMMA VerticesArePoints ==
  ASSUME NEW g, IsGraph(g)
  PROVE  Vertices(g) \subseteq Points
  BY DEF IsGraph, Vertices, Pairs

LEMMA RelaxStep ==
  ASSUME IInv, NEW k \in Points, Relax(k)
  PROVE  IInv'
  <1>1. dist' = Relaxed(dist, k) /\ pc = "paths" /\ client' = client
    BY DEF Relax, Relaxed
  <1>2. TypeInv'
    <2>1. dist' \in [Points \X Points -> Number]
      BY <1>1, RelaxedTyped DEF IInv, TypeInv
    <2>2. todo' = todo \ {k} /\ UNCHANGED <<client, at, domain, times, job, result>>
      BY DEF Relax
    <2> QED
      BY <2>1, <2>2 DEF IInv, TypeInv
  <1>3. PhaseInv'
    BY DEF IInv, PhaseInv, Relax
  <1>4. TightenInv'
    <2>1. UNCHANGED <<tcn, old, job, pc>> /\ Network' = Network
      BY <1>1, NetworkStays DEF Relax
    <2>2. TightenInv
      BY DEF IInv
    <2> QED
      BY <2>1, <2>2 DEF TightenInv, KeepsOne, KeepsAll, Keeps, IsGraph
  <1>5. DistInv'
    <2>1. \A a \in SolutionsFor(job) : Dominates(dist', a)
      BY <1>1, RelaxedDominates DEF IInv, TypeInv, DistInv, SolutionsFor, Solutions, ConjunctiveSolutions
    <2> QED
      BY <1>1, <2>1, NetworkStays DEF Relax, DistInv, Dominates
  <1>6. AssignInv'
    BY <1>1, NetworkStays DEF IInv, AssignInv, Relax
  <1>7. VisitInv'
    BY <1>1, NetworkStays DEF IInv, VisitInv, Relax
  <1>8. ResultInv' /\ ThrowsOnlyUnsolvable' /\ TimesAreLowerBounds' /\ UpperBoundsKept'
    BY PromisesStay DEF Relax
  <1> QED
    BY <1>2, <1>3, <1>4, <1>5, <1>6, <1>7, <1>8 DEF IInv

LEMMA ShortestPathsThrowStep ==
  ASSUME IInv, ShortestPathsThrow
  PROVE  IInv'
  <1>1. pc = "paths" /\ NegativeCycle /\ Return("threw", NoGraph) /\ UNCHANGED <<domain, times>>
    BY DEF ShortestPathsThrow
  <1>2. SolutionsFor(job) = {}
    <2> SUFFICES ASSUME NEW a \in SolutionsFor(job) PROVE FALSE
      OBVIOUS
    <2>1. Dominates(dist, a) /\ a \in Valuations
      BY <1>1 DEF IInv, DistInv, SolutionsFor, Solutions, ConjunctiveSolutions
    <2> QED
      BY <1>1, <2>1, NegativeCycleHasNoSolution DEF IInv, TypeInv
  <1> QED
    BY <1>1, <1>2, ReturnKeeps

LEMMA UpperLowerTighteningStep ==
  ASSUME IInv, UpperLowerTightening
  PROVE  IInv'
  <1>1. /\ client' = client /\ job' = "upperLowerTightening" /\ pc' = "tighten"
        /\ tcn' = Network /\ UNCHANGED <<dist, todo, at, domain, times, result>>
    BY DEF UpperLowerTightening, Call
  <1>2. TypeInv'
    BY <1>1 DEF IInv, TypeInv, Jobs
  <1>3. PhaseInv'
    BY <1>1, NetworkIsGraph DEF IInv, TypeInv, PhaseInv, IsGraph
  <1>4. TightenInv'
    BY <1>1, NetworkStays DEF TightenInv, KeepsOne
  <1>5. DistInv' /\ AssignInv' /\ VisitInv'
    BY <1>1 DEF DistInv, AssignInv, VisitInv
  <1>6. ResultInv' /\ ThrowsOnlyUnsolvable' /\ TimesAreLowerBounds' /\ UpperBoundsKept'
    BY <1>1, PromisesStay
  <1> QED
    BY <1>2, <1>3, <1>4, <1>5, <1>6 DEF IInv

LEMMA TightenStep ==
  ASSUME IInv, Tighten
  PROVE  IInv'
  <1>1. /\ client' = client /\ job' = job /\ pc = "tighten" /\ pc' = "paths"
        /\ tcn' = Stp(tcn) /\ old' = tcn /\ dist' = WeightMatrix(Stp(tcn))
        /\ todo' = Vertices(Stp(tcn)) /\ UNCHANGED <<at, domain, times, result>>
    BY DEF Tighten, BeginShortestPaths
  <1>2. job = "upperLowerTightening" /\ IsGraph(tcn)
    BY <1>1 DEF IInv, PhaseInv
  <1>3. IsGraph(Stp(tcn)) /\ DOMAIN Stp(tcn) = DOMAIN tcn
        /\ \A a \in Valuations : KeepsOne(a, tcn) => KeepsAll(a, Stp(tcn))
    BY <1>2, StpIsGraph
  <1>4. TypeInv'
    BY <1>1, <1>3, WeightMatrixTyped, VerticesArePoints DEF IInv, TypeInv
  <1>5. PhaseInv'
    BY <1>1, <1>2, <1>3 DEF IInv, PhaseInv, IsGraph
  <1>6. TightenInv'
    <2>1. \A e \in DOMAIN Stp(tcn) : Stp(tcn)[e] # {}
      BY DEF Stp
    <2>2. \A a \in Valuations : KeepsOne(a, tcn) <=> KeepsOne(a, Network)
      BY <1>1 DEF IInv, TightenInv
    <2> QED
      BY <1>1, <1>2, <1>3, <2>1, <2>2, NetworkStays DEF TightenInv, KeepsOne, KeepsAll, IsGraph
  <1>7. DistInv'
    <2> SUFFICES ASSUME NEW a \in SolutionsFor(job) PROVE Dominates(WeightMatrix(Stp(tcn)), a)
      BY <1>1, NetworkStays DEF DistInv, Dominates
    <2>1. a \in Valuations /\ KeepsOne(a, Network)
      BY <1>2, SolutionsAre DEF SolutionsFor
    <2>2. KeepsAll(a, Stp(tcn))
      BY <1>1, <1>3, <2>1 DEF IInv, TightenInv
    <2> QED
      BY <1>3, <2>1, <2>2, WeightsDominate
  <1>8. AssignInv' /\ VisitInv'
    BY <1>1, <1>2 DEF AssignInv, VisitInv
  <1>9. ResultInv' /\ ThrowsOnlyUnsolvable' /\ TimesAreLowerBounds' /\ UpperBoundsKept'
    BY <1>1, PromisesStay
  <1> QED
    BY <1>4, <1>5, <1>6, <1>7, <1>8, <1>9 DEF IInv

LEMMA IntersectStep ==
  ASSUME IInv, Intersect
  PROVE  IInv'
  <1> DEFINE tighter == IntersectionWith(old, MinNetwork(tcn, dist))
  <1>1. pc = "paths" /\ job = "upperLowerTightening" /\ UNCHANGED <<domain, times>>
    BY DEF Intersect, HaveShortestPaths
  <1>2. /\ IsGraph(tcn) /\ IsGraph(old) /\ DOMAIN old = DOMAIN tcn
        /\ dist \in [Points \X Points -> Number]
        /\ \A a \in Valuations : KeepsOne(a, old) <=> KeepsOne(a, Network)
        /\ \A a \in Valuations : KeepsOne(a, Network) => Dominates(dist, a)
    BY <1>1, SolutionsAre DEF IInv, TypeInv, PhaseInv, TightenInv, DistInv, SolutionsFor
  <1>3. /\ IsGraph(MinNetwork(tcn, dist)) /\ DOMAIN MinNetwork(tcn, dist) = DOMAIN old
        /\ \A e \in DOMAIN old : MinNetwork(tcn, dist)[e] # {}
        /\ \A a \in Valuations : KeepsOne(a, Network) => KeepsAll(a, MinNetwork(tcn, dist))
    BY <1>2, MinNetworkIsGraph DEF Dominates
  <1>4. IsGraph(tighter)
    BY <1>2, <1>3, IntersectionIsGraph
  <1>5. \A a \in Valuations : KeepsOne(a, tighter) <=> KeepsOne(a, Network)
    <2>1. \A a \in Valuations : KeepsOne(a, tighter) => KeepsOne(a, old)
      BY <1>2, <1>3, IntersectionIsGraph
    <2>2. \A a \in Valuations : KeepsOne(a, old) /\ KeepsAll(a, MinNetwork(tcn, dist)) => KeepsOne(a, tighter)
      BY <1>2, <1>3, IntersectionIsGraph
    <2> HIDE DEF tighter
    <2> QED
      BY <1>2, <1>3, <2>1, <2>2
  <1> HIDE DEF tighter
  <1>6. CASE Return("returned", tighter)
    <2>1. Solutions(tighter) = Solutions(Network)
      BY <1>5 DEF Solutions, KeepsOne
    <2> QED
      BY <1>1, <1>6, <2>1, ReturnKeeps
  <1>7. CASE tcn' = tighter /\ pc' = "tighten"
             /\ UNCHANGED <<client, old, dist, todo, unseen, at, job, result>>
    <2>1. TypeInv'
      BY <1>1, <1>7 DEF IInv, TypeInv
    <2>2. PhaseInv'
      BY <1>1, <1>4, <1>7 DEF IInv, PhaseInv, IsGraph
    <2>3. TightenInv'
      BY <1>5, <1>7, NetworkStays DEF TightenInv, KeepsOne
    <2>4. DistInv' /\ AssignInv' /\ VisitInv'
      BY <1>1, <1>7 DEF DistInv, AssignInv, VisitInv
    <2>5. ResultInv' /\ ThrowsOnlyUnsolvable' /\ TimesAreLowerBounds' /\ UpperBoundsKept'
      BY <1>1, <1>7, PromisesStay
    <2> QED
      BY <2>1, <2>2, <2>3, <2>4, <2>5 DEF IInv
  <1> QED
    BY <1>6, <1>7 DEF Intersect, tighter

LEMMA LoosePathConsistencyStep ==
  ASSUME IInv, LoosePathConsistency \/ Loosen
  PROVE  IInv'
  <1>1. CASE LoosePathConsistency
    <2>1. /\ client' = client /\ job' = "loosePathConsistency" /\ pc' = "loose"
          /\ UNCHANGED <<dist, todo, at, domain, times, result>>
      BY <1>1 DEF LoosePathConsistency, Call
    <2>2. TypeInv' /\ PhaseInv'
      BY <2>1 DEF IInv, TypeInv, PhaseInv, Jobs
    <2>3. TightenInv' /\ DistInv' /\ AssignInv' /\ VisitInv'
      BY <2>1 DEF TightenInv, DistInv, AssignInv, VisitInv
    <2>4. ResultInv' /\ ThrowsOnlyUnsolvable' /\ TimesAreLowerBounds' /\ UpperBoundsKept'
      BY <2>1, PromisesStay
    <2> QED
      BY <2>2, <2>3, <2>4 DEF IInv
  <1>2. CASE Loosen /\ Return("returned", tcn)
    <2>1. pc = "loose" /\ job = "loosePathConsistency" /\ UNCHANGED <<domain, times>>
      BY <1>2 DEF Loosen, IInv, PhaseInv
    <2> QED
      BY <1>2, <2>1, ReturnKeeps
  <1>3. CASE Loosen /\ ~ Return("returned", tcn)
    <2>1. /\ pc = "loose" /\ job = "loosePathConsistency"
          /\ UNCHANGED <<client, old, dist, todo, unseen, at, domain, times, job, pc, result>>
      BY <1>3 DEF Loosen, IInv, PhaseInv
    <2>2. TypeInv' /\ PhaseInv'
      BY <2>1 DEF IInv, TypeInv, PhaseInv
    <2>3. TightenInv' /\ DistInv' /\ AssignInv' /\ VisitInv'
      BY <2>1 DEF TightenInv, DistInv, AssignInv, VisitInv
    <2>4. ResultInv' /\ ThrowsOnlyUnsolvable' /\ TimesAreLowerBounds' /\ UpperBoundsKept'
      BY <2>1, PromisesStay
    <2> QED
      BY <2>2, <2>3, <2>4 DEF IInv
  <1> QED
    BY <1>1, <1>2, <1>3

LEMMA QuantifyTimeStep ==
  ASSUME IInv, QuantifyTime
  PROVE  IInv'
  <1> DEFINE c == StpWithConjunctiveIntervals(Network)
             g == Stp(c)
  <1>1. /\ client' = client /\ job' = "quantifyTime" /\ pc' = "paths" /\ tcn' = g
        /\ dist' = WeightMatrix(g) /\ todo' = Vertices(g)
        /\ UNCHANGED <<at, domain, times, result>> /\ "quantifyTime" \in client.calls
    BY DEF QuantifyTime, BeginShortestPaths, Call
  <1>2. client \in Clients
    BY DEF IInv, TypeInv
  <1>3. /\ IsGraph(c) /\ DOMAIN c = DOMAIN Network
        /\ \A a \in Valuations : KeepsAll(a, Network) => KeepsOne(a, c)
    <2>1. \A e \in DOMAIN Network : Network[e] # {} /\ \A b \in Network[e] : 0 <= b.lo
      BY <1>1, <1>2, NetworkNotEmpty, NetworkForward
    <2> QED
      BY <1>2, <2>1, NetworkIsGraph, StpWithConjunctiveIntervalsIsGraph
  <1> HIDE DEF c
  <1>4. /\ IsGraph(g) /\ DOMAIN g = DOMAIN Network
        /\ \A a \in Valuations : KeepsAll(a, Network) => KeepsAll(a, g)
    BY <1>3, StpIsGraph
  <1> HIDE DEF g
  <1>5. TypeInv'
    <2>1. dist' \in [Points \X Points -> Number] /\ todo' \subseteq Points
      BY <1>1, <1>4, WeightMatrixTyped, VerticesArePoints
    <2> QED
      BY <1>1, <2>1 DEF IInv, TypeInv, Jobs
  <1>6. PhaseInv'
    BY <1>1, <1>4 DEF PhaseInv, IsGraph
  <1>7. TightenInv' /\ VisitInv'
    BY <1>1 DEF TightenInv, VisitInv
  <1>8. DistInv'
    <2> SUFFICES ASSUME NEW a \in ConjunctiveSolutions(Network) PROVE Dominates(WeightMatrix(g), a)
      BY <1>1, NetworkStays DEF DistInv, SolutionsFor, Dominates
    <2>1. a \in Valuations /\ KeepsAll(a, Network)
      BY SolutionsAre
    <2> QED
      BY <1>4, <2>1, WeightsDominate
  <1>9. AssignInv'
    BY <1>1, <1>4, NetworkStays DEF AssignInv
  <1>10. ResultInv' /\ ThrowsOnlyUnsolvable' /\ TimesAreLowerBounds' /\ UpperBoundsKept'
    BY <1>1, PromisesStay
  <1> QED
    BY <1>5, <1>6, <1>7, <1>8, <1>9, <1>10 DEF IInv

LEMMA BeginAssignmentStep ==
  ASSUME IInv, BeginAssignment
  PROVE  IInv'
  <1>1. pc = "paths" /\ job = "quantifyTime" /\ domain' = domain
    BY DEF BeginAssignment, HaveShortestPaths
  <1>2. DOMAIN tcn = DOMAIN Network /\ IsGraph(tcn)
    BY <1>1 DEF IInv, AssignInv, PhaseInv
  <1>3. StartPoints(tcn) = StartPoints(Network) /\ StartPoints(tcn) \subseteq Points
    BY <1>2, VerticesArePoints DEF StartPoints, Vertices
  <1>4. CASE Cardinality(StartPoints(tcn)) # 1 /\ Return("threw", NoGraph) /\ UNCHANGED times
    BY <1>1, <1>3, <1>4, ReturnKeeps
  <1>5. CASE /\ Cardinality(StartPoints(tcn)) = 1
             /\ tcn' = MinNetwork(tcn, dist)
             /\ at' \in StartPoints(tcn)
             /\ times' = [p \in {at'} |-> 0]
             /\ pc' = "assign"
             /\ UNCHANGED <<client, old, dist, todo, unseen, job, result>>
    <2>1. /\ IsGraph(tcn') /\ DOMAIN tcn' = DOMAIN Network
          /\ \A a \in ConjunctiveSolutions(Network) : KeepsAll(a, tcn')
      <3>1. dist \in [Points \X Points -> Number]
        BY DEF IInv, TypeInv
      <3>2. \A a \in ConjunctiveSolutions(Network) : a \in Valuations /\ Dominates(dist, a)
        BY <1>1, SolutionsAre DEF IInv, DistInv, SolutionsFor
      <3> QED
        BY <1>2, <1>5, <3>1, <3>2, MinNetworkIsGraph DEF Dominates
    <2>2. TypeInv'
      <3>1. at' \in Points /\ DOMAIN times' = {at'} /\ \A p \in DOMAIN times' : times'[p] \in Number
        BY <1>3, <1>5, ZeroInfNumbers
      <3> QED
        BY <1>1, <1>5, <3>1 DEF IInv, TypeInv
    <2>3. PhaseInv'
      BY <1>1, <1>5, <2>1 DEF IInv, PhaseInv, IsGraph
    <2>4. TightenInv' /\ DistInv' /\ VisitInv'
      BY <1>1, <1>5 DEF TightenInv, DistInv, VisitInv
    <2>5. AssignInv'
      <3>1. at' \in DOMAIN times'
        BY <1>5
      <3> QED
        BY <1>5, <2>1, <3>1, NetworkStays DEF AssignInv, KeepsAll
    <2>6. TimesAreLowerBounds'
      <3>1. StartPoints(Network)' = StartPoints(Network)
        BY <1>5, NetworkStays DEF StartPoints, Vertices
      <3>2. \E p : StartPoints(Network) = {p}
        <4>1. IsFiniteSet(StartPoints(Network))
          BY <1>3, PointsAssumption, FS_Subset
        <4> QED
          BY <1>3, <1>5, <4>1, FS_Singleton
      <3>3. ASSUME NEW a \in ConjunctiveSolutions(Network), NEW s \in StartPoints(Network),
                   NEW p \in DOMAIN times'
            PROVE  times'[p] <= a[p] - a[s]
        <4>1. p = s /\ times'[p] = 0
          BY <1>3, <1>5, <3>2
        <4>2. a \in Valuations /\ p \in Points
          BY <1>3, <4>1, SolutionsAre
        <4> QED
          BY <4>1, <4>2, DiffBounded
      <3> QED
        BY <1>5, <3>1, <3>3, NetworkStays DEF TimesAreLowerBounds
    <2>7. ResultInv' /\ ThrowsOnlyUnsolvable' /\ UpperBoundsKept'
      <3>1. StartPoints(Network)' = StartPoints(Network)
        BY <1>5, NetworkStays DEF StartPoints, Vertices
      <3>2. ResultInv'
        BY <1>5, NetworkStays DEF IInv, ResultInv, Returned, Solutions
      <3>3. ThrowsOnlyUnsolvable'
        BY <1>5, <3>1, NetworkStays DEF IInv, ThrowsOnlyUnsolvable
      <3>4. UpperBoundsKept'
        BY <1>1, <1>5, NetworkStays DEF IInv, UpperBoundsKept
      <3> QED
        BY <3>2, <3>3, <3>4
    <2> QED
      BY <2>2, <2>3, <2>4, <2>5, <2>6, <2>7 DEF IInv
  <1> QED
    BY <1>4, <1>5 DEF BeginAssignment

LEMMA AssignNextStep ==
  ASSUME IInv, AssignNext
  PROVE  IInv'
  <1>1. pc = "assign" /\ job = "quantifyTime" /\ domain' = domain
    BY DEF AssignNext, IInv, PhaseInv
  <1>2. /\ DOMAIN tcn = DOMAIN Network /\ IsGraph(tcn) /\ at \in DOMAIN times
        /\ \A a \in ConjunctiveSolutions(Network) : KeepsAll(a, tcn)
    BY <1>1 DEF IInv, AssignInv, PhaseInv
  <1>3. CASE Return("undefined", NoGraph) /\ UNCHANGED times
    BY <1>1, <1>3, ReturnKeeps
  <1>4. ASSUME NEW e \in OutEdges(tcn, at),
               LowerBound(tcn[e]) < Inf,
               at' = e[2],
               times' = WithTime(e[2], Plus(times[at], LowerBound(tcn[e]))),
               UNCHANGED <<client, tcn, old, dist, todo, unseen, job, pc, result>>
        PROVE  IInv'
    <2> DEFINE l == LowerBound(tcn[e])
    <2>1. e \in DOMAIN tcn /\ e[1] = at /\ e[1] \in Points /\ e[2] \in Points /\ tcn[e] \subseteq Bounds
      BY <1>2, <1>4 DEF OutEdges, IsGraph, Pairs
    <2>2. l \in Number /\ l \in Lows(tcn[e])
      <3>1. Lows(tcn[e]) \cup {Inf} \subseteq Number
        BY <2>1, EndsTyped, ZeroInfNumbers
      <3>2. l \in Lows(tcn[e]) \cup {Inf}
        BY <3>1, MinOfNumbers DEF LowerBound
      <3>3. l # Inf
        BY <1>4, InfAssumption
      <3> QED
        BY <3>1, <3>2, <3>3
    <2> HIDE DEF l
    <2>3. times[at] \in Number /\ Plus(times[at], l) \in Number
      BY <1>2, <2>2, PlusIsNumber DEF IInv, TypeInv
    <2>4. /\ DOMAIN times' = DOMAIN times \cup {e[2]}
          /\ \A p \in DOMAIN times' : times'[p] = IF p = e[2] THEN Plus(times[at], l) ELSE times[p]
      BY <1>4 DEF WithTime, l
    <2>5. TypeInv'
      <3>1. at' \in Points /\ DOMAIN times' \subseteq Points /\ \A p \in DOMAIN times' : times'[p] \in Number
        BY <1>4, <2>1, <2>3, <2>4 DEF IInv, TypeInv
      <3> QED
        BY <1>1, <1>4, <3>1 DEF IInv, TypeInv
    <2>6. PhaseInv'
      BY <1>4 DEF IInv, PhaseInv, IsGraph
    <2>7. TightenInv' /\ DistInv' /\ VisitInv'
      BY <1>1, <1>4 DEF TightenInv, DistInv, VisitInv
    <2>8. AssignInv'
      <3>1. at' \in DOMAIN times'
        BY <1>4, <2>4
      <3> QED
        BY <1>1, <1>2, <1>4, <3>1, NetworkStays DEF AssignInv, KeepsAll
    <2>9. TimesAreLowerBounds'
      <3>1. StartPoints(Network)' = StartPoints(Network)
        BY <1>4, NetworkStays DEF StartPoints, Vertices
      <3>2. ASSUME NEW a \in ConjunctiveSolutions(Network), NEW s \in StartPoints(Network),
                   NEW p \in DOMAIN times'
            PROVE  times'[p] <= a[p] - a[s]
        <4>1. a \in Valuations /\ s \in Points
          <5>1. IsGraph(Network)
            BY NetworkIsGraph DEF IInv, TypeInv
          <5> QED
            BY <5>1, SolutionsAre, VerticesArePoints DEF StartPoints
        <4>2. CASE p # e[2]
          BY <2>4, <3>2, <4>2 DEF IInv, TimesAreLowerBounds
        <4>3. CASE p = e[2]
          <5> DEFINE v == a[at] - a[s]
                     w == a[e[2]] - a[at]
          <5>1. times[at] <= v
            BY <1>2, <3>2 DEF IInv, TimesAreLowerBounds
          <5>2. l <= w
            <6>1. PICK b \in tcn[e] : l = b.lo
              BY <2>2 DEF Lows
            <6>2. Keeps(a, e, b)
              BY <1>2, <2>1, <3>2, <6>1 DEF KeepsAll
            <6> QED
              BY <2>1, <6>1, <6>2 DEF Keeps
          <5>3. /\ v \in Int /\ w \in Int /\ v < Inf /\ w < Inf
                /\ v + w = a[p] - a[s] /\ -Inf < v + w /\ v + w < Inf
            BY <2>1, <4>1, <4>3, DiffBounded
          <5> HIDE DEF v, w
          <5>4. Plus(times[at], l) <= v + w
            BY <2>2, <2>3, <5>1, <5>2, <5>3, PlusBelow
          <5> QED
            BY <2>4, <4>3, <5>3, <5>4
        <4> QED
          BY <4>2, <4>3
      <3> QED
        BY <1>4, <3>1, <3>2, NetworkStays DEF TimesAreLowerBounds
    <2>10. ResultInv' /\ ThrowsOnlyUnsolvable' /\ UpperBoundsKept'
      <3>1. StartPoints(Network)' = StartPoints(Network)
        BY <1>4, NetworkStays DEF StartPoints, Vertices
      <3>2. ResultInv'
        BY <1>4, NetworkStays DEF IInv, ResultInv, Returned, Solutions
      <3>3. ThrowsOnlyUnsolvable'
        BY <1>4, <3>1, NetworkStays DEF IInv, ThrowsOnlyUnsolvable
      <3>4. UpperBoundsKept'
        BY <1>1, <1>4, NetworkStays DEF IInv, UpperBoundsKept
      <3> QED
        BY <3>2, <3>3, <3>4
    <2> QED
      BY <2>5, <2>6, <2>7, <2>8, <2>9, <2>10 DEF IInv
  <1> QED
    BY <1>3, <1>4 DEF AssignNext

LEMMA AssignmentDoneStep ==
  ASSUME IInv, AssignmentDone
  PROVE  IInv'
  <1>1. pc = "assign" /\ job = "quantifyTime" /\ Return("returned", tcn) /\ UNCHANGED <<domain, times>>
    BY DEF AssignmentDone, IInv, PhaseInv
  <1> QED
    BY <1>1, ReturnKeeps

LEMMA PropagateStep ==
  ASSUME IInv, Propagate
  PROVE  IInv'
  <1>1. /\ client' = client /\ job' = "propagate" /\ pc' = "paths" /\ tcn' = Network
        /\ dist' = WeightMatrix(Network) /\ todo' = Vertices(Network)
        /\ UNCHANGED <<at, domain, times, result>>
    BY DEF Propagate, BeginShortestPaths, Call
  <1>2. IsGraph(Network)
    BY NetworkIsGraph DEF IInv, TypeInv
  <1>3. TypeInv'
    <2>1. dist' \in [Points \X Points -> Number] /\ todo' \subseteq Points
      BY <1>1, <1>2, WeightMatrixTyped, VerticesArePoints
    <2> QED
      BY <1>1, <2>1 DEF IInv, TypeInv, Jobs
  <1>4. PhaseInv'
    BY <1>1, <1>2 DEF PhaseInv, IsGraph
  <1>5. TightenInv' /\ AssignInv'
    BY <1>1 DEF TightenInv, AssignInv
  <1>6. VisitInv'
    BY <1>1, NetworkStays DEF VisitInv
  <1>7. DistInv'
    <2> SUFFICES ASSUME NEW a \in ConjunctiveSolutions(Network)
                 PROVE  Dominates(WeightMatrix(Network), a)
      BY <1>1, NetworkStays DEF DistInv, SolutionsFor, Dominates
    <2> QED
      BY <1>2, SolutionsAre, WeightsDominate
  <1>8. ResultInv' /\ ThrowsOnlyUnsolvable' /\ TimesAreLowerBounds' /\ UpperBoundsKept'
    BY <1>1, PromisesStay
  <1> QED
    BY <1>3, <1>4, <1>5, <1>6, <1>7, <1>8 DEF IInv

\* The weights of the two edges of an interval are bounds for every solution.
LEMMA WeightedEdgesHold ==
  ASSUME NEW g, IsGraph(g), NEW x \in WeightedEdges(g)
  PROVE  /\ x \in Pairs \X Number
         /\ \A a \in Valuations : KeepsAll(a, g) => Diff(a, x[1]) <= x[2]
  <1>0. PICK e \in DOMAIN g : \E b \in g[e] : x = <<e, b.hi>> \/ x = <<<<e[2], e[1]>>, -b.lo>>
    BY DEF WeightedEdges
  <1>1. PICK b \in g[e] : x = <<e, b.hi>> \/ x = <<<<e[2], e[1]>>, -b.lo>>
    BY <1>0
  <1>2. /\ e \in Pairs /\ e[1] \in Points /\ e[2] \in Points /\ <<e[2], e[1]>> \in Pairs
        /\ b.lo \in Number /\ b.hi \in Number
    BY <1>1 DEF IsGraph, Pairs, Bounds
  <1>3. -b.lo \in Number /\ b.lo \in Int
    BY <1>2, InfAssumption DEF Number
  <1>4. x \in Pairs \X Number
    BY <1>1, <1>2, <1>3
  <1>5. ASSUME NEW a \in Valuations, KeepsAll(a, g) PROVE Diff(a, x[1]) <= x[2]
    <2>1. Keeps(a, e, b)
      BY <1>1, <1>5 DEF KeepsAll
    <2>2. a[e[1]] \in Int /\ a[e[2]] \in Int
      BY <1>2, DiffBounded
    <2>3. CASE x = <<e, b.hi>>
      BY <2>1, <2>3 DEF Keeps, Diff
    <2>4. CASE x = <<<<e[2], e[1]>>, -b.lo>>
      BY <1>3, <2>1, <2>2, <2>4 DEF Keeps, Diff
    <2> QED
      BY <1>1, <2>3, <2>4
  <1> QED
    BY <1>4, <1>5

LEMMA BeginVisitsStep ==
  ASSUME IInv, BeginVisits
  PROVE  IInv'
  <1>1. /\ pc = "paths" /\ job = "propagate" /\ pc' = "visit" /\ unseen' = WeightedEdges(tcn)
        /\ UNCHANGED <<client, tcn, old, dist, todo, at, domain, times, job, result>>
    BY DEF BeginVisits, HaveShortestPaths
  <1>2. TypeInv' /\ PhaseInv'
    BY <1>1 DEF IInv, TypeInv, PhaseInv, IsGraph
  <1>3. TightenInv' /\ DistInv' /\ AssignInv'
    BY <1>1 DEF TightenInv, DistInv, AssignInv
  <1>4. VisitInv'
    <2>1. tcn = Network /\ IsGraph(Network)
      BY <1>1, NetworkIsGraph DEF IInv, VisitInv, TypeInv
    <2>2. unseen' \subseteq Pairs \X Number
      BY <1>1, <2>1, WeightedEdgesHold
    <2>3. \A x \in unseen' : \A a \in ConjunctiveSolutions(Network) : Diff(a, x[1]) <= x[2]
      BY <1>1, <2>1, WeightedEdgesHold, SolutionsAre
    <2> QED
      BY <1>1, <2>2, <2>3, NetworkStays DEF VisitInv, Diff
  <1>5. ResultInv' /\ ThrowsOnlyUnsolvable' /\ TimesAreLowerBounds' /\ UpperBoundsKept'
    BY <1>1, PromisesStay
  <1> QED
    BY <1>2, <1>3, <1>4, <1>5 DEF IInv

\* A bound lowered by a weight that is not positive is still above the values that
\* the bound and the weight are above.
LEMMA LoweredAbove ==
  ASSUME NEW h \in Number, NEW w \in Number, NEW i \in Number,
         NEW x \in Int, NEW y \in Int,
         x <= h, y <= i, y - x <= w, -Inf < y - x, w <= 0, y <= Inf
  PROVE  y <= Smaller(Plus(h, w), i)
  BY InfAssumption DEF Smaller, Plus, Number

LEMMA VisitStep ==
  ASSUME IInv, NEW x \in unseen, Visit(x)
  PROVE  IInv'
  <1> DEFINE source == x[1][1]
             target == x[1][2]
             weight == x[2]
             lo == Larger(Plus(domain[source].lo, weight), domain[target].lo)
             hi == Smaller(Plus(domain[source].hi, weight), domain[target].hi)
             bound == IF weight > 0 THEN lo ELSE hi
  <1>1. pc = "visit" /\ job = "propagate" /\ times' = times
    BY DEF Visit, IInv, PhaseInv
  <1>2. /\ unseen \subseteq Pairs \X Number
        /\ \A a \in ConjunctiveSolutions(Network) : Diff(a, x[1]) <= weight
    BY <1>1 DEF IInv, VisitInv
  <1>3. source \in Points /\ target \in Points /\ weight \in Number
    BY <1>2 DEF Pairs
  <1>4. \A p \in Points : domain[p] \in Bounds /\ domain[p].lo \in Number /\ domain[p].hi \in Number
    BY DEF IInv, TypeInv, Bounds
  <1>5. lo \in Number /\ hi \in Number
    BY <1>3, <1>4, PlusIsNumber DEF Larger, Smaller
  <1>6. CASE Return("undefined", NoGraph) /\ UNCHANGED domain
    BY <1>1, <1>6, ReturnKeeps
  <1>7. ASSUME domain' = IF weight > 0 THEN [domain EXCEPT ![target].lo = lo]
                         ELSE [domain EXCEPT ![target].hi = hi],
               unseen' = unseen \ {x},
               UNCHANGED <<client, tcn, old, dist, todo, at, job, pc, result>>
        PROVE  IInv'
    <2>1. /\ domain' \in [Points -> Bounds]
          /\ \A p \in Points : domain'[p].hi = IF weight > 0 \/ p # target THEN domain[p].hi ELSE hi
      <3>1. domain \in [Points -> Bounds]
        BY DEF IInv, TypeInv
      <3> HIDE DEF lo, hi, target, weight
      <3>2. CASE weight > 0
        <4>1. domain' = [domain EXCEPT ![target].lo = lo]
          BY <1>7, <3>2
        <4> QED
          BY <1>3, <1>5, <3>1, <3>2, <4>1 DEF Bounds
      <3>3. CASE ~ (weight > 0)
        <4>1. domain' = [domain EXCEPT ![target].hi = hi]
          BY <1>7, <3>3
        <4> QED
          BY <1>3, <1>5, <3>1, <3>3, <4>1 DEF Bounds
      <3> QED
        BY <3>2, <3>3
    <2>2. TypeInv'
      BY <1>1, <1>7, <2>1 DEF IInv, TypeInv
    <2>3. PhaseInv'
      BY <1>7 DEF IInv, PhaseInv, IsGraph
    <2>4. TightenInv' /\ DistInv' /\ AssignInv'
      BY <1>1, <1>7 DEF TightenInv, DistInv, AssignInv
    <2>5. VisitInv'
      BY <1>1, <1>7, NetworkStays DEF IInv, VisitInv, Diff
    <2>6. UpperBoundsKept'
      <3>1. ASSUME NEW a \in ConjunctiveSolutions(Network),
                   \A p \in Points : client.domains[p].lo <= a[p] /\ a[p] <= client.domains[p].hi,
                   NEW p \in Points
            PROVE  a[p] <= domain'[p].hi
        <4>1. \A q \in Points : a[q] <= domain[q].hi
          BY <3>1 DEF IInv, UpperBoundsKept
        <4>2. CASE weight > 0 \/ p # target
          BY <2>1, <4>1, <4>2
        <4>3. CASE ~ (weight > 0) /\ p = target
          <5>1. a \in Valuations
            BY SolutionsAre
          <5>2. /\ a[source] \in Int /\ a[target] \in Int
                /\ -Inf < a[target] - a[source] /\ a[target] - a[source] <= weight
            BY <1>2, <1>3, <5>1, DiffBounded DEF Diff
          <5>3. a[target] <= Inf
            <6>1. client.domains[target] \in Bounds
              BY <1>3, ClientsAssumption DEF IInv, TypeInv, Client
            <6>2. client.domains[target].hi \in Int /\ client.domains[target].hi <= Inf
              BY <6>1, InfAssumption DEF Bounds, Number
            <6> QED
              BY <1>3, <3>1, <5>2, <6>2, InfAssumption
          <5>4. weight <= 0
            BY <1>3, <4>3 DEF Number
          <5>5. a[source] <= domain[source].hi /\ a[target] <= domain[target].hi
            BY <1>3, <4>1
          <5> HIDE DEF weight, source, target
          <5>6. a[target] <= hi
            BY <1>3, <1>4, <5>2, <5>3, <5>4, <5>5, LoweredAbove
          <5> QED
            BY <2>1, <4>3, <5>6
        <4> QED
          BY <4>2, <4>3
      <3> QED
        BY <1>7, <3>1, NetworkStays DEF UpperBoundsKept
    <2>7. ResultInv' /\ ThrowsOnlyUnsolvable' /\ TimesAreLowerBounds'
      <3>1. StartPoints(Network)' = StartPoints(Network)
        BY <1>7, NetworkStays DEF StartPoints, Vertices
      <3>2. ResultInv'
        BY <1>7, NetworkStays DEF IInv, ResultInv, Returned, Solutions
      <3>3. ThrowsOnlyUnsolvable'
        BY <1>7, <3>1, NetworkStays DEF IInv, ThrowsOnlyUnsolvable
      <3>4. TimesAreLowerBounds'
        BY <1>1, <1>7, <3>1, NetworkStays DEF IInv, TimesAreLowerBounds
      <3> QED
        BY <3>2, <3>3, <3>4
    <2> QED
      BY <2>2, <2>3, <2>4, <2>5, <2>6, <2>7 DEF IInv
  <1> QED
    BY <1>6, <1>7 DEF Visit

LEMMA VisitsDoneStep ==
  ASSUME IInv, VisitsDone
  PROVE  IInv'
  <1>1. pc = "visit" /\ job = "propagate" /\ Return("returned", tcn) /\ UNCHANGED <<domain, times>>
    BY DEF VisitsDone, IInv, PhaseInv
  <1> QED
    BY <1>1, ReturnKeeps

LEMMA InitIInv ==
  ASSUME Init
  PROVE  IInv
  <1>1. TypeInv
    <2>1. client.domains \in [Points -> Bounds]
      BY ClientsAssumption DEF Init, Client
    <2>2. DOMAIN times = {}
      BY DEF Init, NoTimes
    <2> QED
      BY <2>1, <2>2, NoDistTyped, NowhereTyped DEF Init, TypeInv
  <1>2. PhaseInv /\ TightenInv /\ DistInv /\ AssignInv /\ VisitInv
    BY DEF Init, PhaseInv, TightenInv, DistInv, AssignInv, VisitInv
  <1>3. \A j \in Jobs : result[j].outcome = "none"
    BY DEF Init
  <1>4. ResultInv /\ ThrowsOnlyUnsolvable
    BY <1>3 DEF ResultInv, ThrowsOnlyUnsolvable, Returned, Jobs
  <1>5. TimesAreLowerBounds
    BY DEF Init, NoTimes, TimesAreLowerBounds
  <1>6. UpperBoundsKept
    BY DEF Init, UpperBoundsKept
  <1> QED
    BY <1>1, <1>2, <1>4, <1>5, <1>6 DEF IInv

LEMMA NextIInv ==
  ASSUME IInv, [Next]_vars
  PROVE  IInv'
  <1>1. CASE UNCHANGED vars
    <2>1. /\ UNCHANGED <<client, tcn, old, dist, todo, unseen, at, domain, times, job, pc, result>>
      BY <1>1 DEF vars, scratch
    <2>2. TypeInv' /\ PhaseInv'
      BY <2>1 DEF IInv, TypeInv, PhaseInv, IsGraph
    <2>3. TightenInv'
      BY <2>1, NetworkStays DEF IInv, TightenInv, KeepsOne, KeepsAll, IsGraph
    <2>4. DistInv' /\ AssignInv' /\ VisitInv'
      BY <2>1, NetworkStays DEF IInv, DistInv, Dominates, AssignInv, VisitInv, KeepsAll, Diff
    <2>5. ResultInv' /\ ThrowsOnlyUnsolvable' /\ TimesAreLowerBounds' /\ UpperBoundsKept'
      BY <2>1, PromisesStay
    <2> QED
      BY <2>2, <2>3, <2>4, <2>5 DEF IInv
  <1>2. ASSUME NEW k \in Points, Relax(k) PROVE IInv'
    BY <1>2, RelaxStep
  <1>3. ASSUME NEW x \in unseen, Visit(x) PROVE IInv'
    BY <1>3, VisitStep
  <1> QED
    BY <1>1, <1>2, <1>3, ShortestPathsThrowStep, UpperLowerTighteningStep, TightenStep, IntersectStep,
       LoosePathConsistencyStep, QuantifyTimeStep, BeginAssignmentStep, AssignNextStep,
       AssignmentDoneStep, PropagateStep, BeginVisitsStep, VisitsDoneStep
    DEF Next, Step

LEMMA Invariance == Spec => []IInv
  BY InitIInv, NextIInv, PTL DEF Spec

(***************************************************************************)
(* The theorems                                                            *)
(***************************************************************************)

\* Upper-Lower-Tightening loses and gains no solution: not between its turns, not
\* within one, and not in what it returns.
THEOREM TighteningEquivalent == Spec => []TighteningIsEquivalent
  <1>1. IInv => TighteningIsEquivalent
    <2> SUFFICES ASSUME IInv PROVE TighteningIsEquivalent
      OBVIOUS
    <2>1. CASE Tightening("upperLowerTightening") /\ pc = "tighten"
      <3>1. Solutions(tcn) = Solutions(Network)
        BY <2>1 DEF IInv, TightenInv, Solutions, KeepsOne
      <3> QED
        BY <3>1 DEF TighteningIsEquivalent, IInv, ResultInv
    <2>2. CASE Tightening("upperLowerTightening") /\ pc = "paths"
      <3>1. \A a \in Valuations : KeepsOne(a, Network) => KeepsOne(a, tcn)
        BY <2>2 DEF Tightening, IInv, TightenInv, KeepsOne, KeepsAll
      <3> QED
        BY <2>2, <3>1 DEF TighteningIsEquivalent, IInv, ResultInv, Solutions, KeepsOne
    <2>3. CASE ~ Tightening("upperLowerTightening")
      BY <2>3 DEF TighteningIsEquivalent, IInv, ResultInv
    <2> QED
      BY <2>1, <2>2, <2>3 DEF Tightening, IInv, PhaseInv
  <1> QED
    BY <1>1, Invariance, PTL

\* No operation throws a network away that has a solution.
THEOREM ThrowsRight == Spec => []ThrowsOnlyUnsolvable
  <1>1. IInv => ThrowsOnlyUnsolvable
    BY DEF IInv
  <1> QED
    BY <1>1, Invariance, PTL

\* The times that getAssignment finds are lower bounds of what any solution
\* needs, and the upper bounds that propagate lowers cut off no solution, in
\* any order of the edges.
THEOREM TimesRight == Spec => []TimesKeepSolutions
  <1>1. IInv => TimesKeepSolutions
    BY DEF IInv, TimesKeepSolutions
  <1> QED
    BY <1>1, Invariance, PTL

(***************************************************************************)
(* The paths over third vertices                                           *)
(***************************************************************************)

\* A nonempty finite set of integers has a maximum, so the fold over the vertices
\* has a vertex to choose.
LEMMA MaxOfFinite ==
  ASSUME NEW S, S \subseteq Int, IsFiniteSet(S), S # {}
  PROVE  Max(S) \in S
  <1> DEFINE Lacks(x) == x # {} /\ ~ \E m \in x : \A y \in x : m >= y
             T == {Cardinality(x) : x \in {z \in SUBSET S : Lacks(z)}}
  <1>1. \A x \in SUBSET S : IsFiniteSet(x) /\ Cardinality(x) \in Nat
    BY FS_Subset, FS_CardinalityType
  <1>2. ~ Lacks(S)
    <2> SUFFICES ASSUME Lacks(S) PROVE FALSE
      OBVIOUS
    <2>1. T \subseteq Nat /\ T # {}
      BY <1>1
    <2> HIDE DEF T
    <2>2. PICK n \in T : \A k \in T : n <= k
      BY <2>1, LeastNatural, Zenon
    <2>3. PICK x \in SUBSET S : Lacks(x) /\ n = Cardinality(x)
      BY <2>2 DEF T
    <2>4. PICK e : e \in x
      BY <2>3
    <2> DEFINE rest == x \ {e}
    <2>5. Cardinality(rest) = n - 1 /\ rest \in SUBSET S
      BY <1>1, <2>3, <2>4, FS_RemoveElement
    <2>6. n \in Nat
      BY <2>1, <2>2
    <2>7. ~ Lacks(rest)
      <3>1. SUFFICES ASSUME Lacks(rest) PROVE FALSE
        OBVIOUS
      <3>2. Cardinality(rest) \in T
        BY <2>5, <3>1 DEF T
      <3> QED
        BY <2>2, <2>5, <2>6, <3>2
    <2>8. CASE rest = {}
      <3>1. \A y \in x : y = e
        BY <2>8
      <3>2. e \in Int
        BY <2>4
      <3>3. \A y \in x : e >= y
        BY <3>1, <3>2
      <3> QED
        BY <2>3, <2>4, <3>3
    <2>9. CASE rest # {}
      <3>1. PICK m \in rest : \A y \in rest : m >= y
        BY <2>7, <2>9
      <3>2. m \in Int /\ e \in Int /\ m \in x /\ \A y \in x : y \in Int
        BY <2>4
      <3>3. \A y \in x : y # e => m >= y
        BY <3>1
      <3>4. (\A y \in x : m >= y) \/ (\A y \in x : e >= y)
        BY <3>2, <3>3
      <3> QED
        BY <2>3, <2>4, <3>2, <3>4
    <2> QED
      BY <2>8, <2>9
  <1> QED
    BY <1>2 DEF Max

PathOver(g, s, t, k) == Composition(BothWays(g, s, k), BothWays(g, k, t))

\* One step of the fold: the list so far and the path over the next vertex.
Met(g, s, t, k, list) ==
  CASE list = {} -> PathOver(g, s, t, k)
    [] list # {} /\ PathOver(g, s, t, k) = {} -> list
    [] OTHER -> Intersection(list, PathOver(g, s, t, k))

MetUpTo(g, s, t, f, x) ==
  IF x = {} THEN {} ELSE Met(g, s, t, Max(x), f[x \ {Max(x)}])

IsFold(g, s, t, V, f) == f = [x \in SUBSET V |-> MetUpTo(g, s, t, f, x)]

LEMMA ThroughThirdIsFold ==
  ASSUME NEW g, NEW s, NEW t
  PROVE  LET V == Vertices(g) \ {s, t}
         IN  ThroughThird(g, s, t) =
               (CHOOSE f : IsFold(g, s, t, V, f))[V]
  BY Zenon DEF IsFold, ThroughThird, MapThenFoldSet, Met, MetUpTo, PathOver

\* The recursion of the fold has a solution: it goes down in the number of vertices.
LEMMA FoldExists ==
  ASSUME NEW g, NEW s, NEW t, NEW V, IsFiniteSet(V), V \subseteq Int
  PROVE  \E f : IsFold(g, s, t, V, f)
  <1> DEFINE Upto(n, f) == \A x \in SUBSET V : Cardinality(x) <= n => f[x] = MetUpTo(g, s, t, f, x)
             T == {n \in Nat : ~ \E f : Upto(n, f)}
  <1>1. \A x \in SUBSET V : IsFiniteSet(x) /\ Cardinality(x) \in Nat /\ Cardinality(x) <= Cardinality(V)
    BY FS_Subset, FS_CardinalityType
  <1>2. ASSUME NEW x \in SUBSET V, x # {}
        PROVE  /\ x \ {Max(x)} \in SUBSET V
               /\ Cardinality(x \ {Max(x)}) = Cardinality(x) - 1
    <2>1. Max(x) \in x
      BY <1>1, <1>2, MaxOfFinite
    <2> HIDE DEF T
    <2> QED
      BY <1>1, <2>1, FS_RemoveElement
  <1>3. \A x \in SUBSET V : Cardinality(x) = 0 => x = {}
    BY <1>1, FS_EmptySet
  <1>4. T = {}
    <2> SUFFICES ASSUME T # {} PROVE FALSE
      OBVIOUS
    <2>1. PICK n \in T : \A k \in T : n <= k
      BY LeastNatural
    <2>2. n \in Nat /\ ~ \E f : Upto(n, f)
      BY <2>1
    <2>3. CASE n = 0
      <3> DEFINE f == [x \in SUBSET V |-> {}]
      <3>1. Upto(0, f)
        BY <1>1, <1>3 DEF MetUpTo
      <3> QED
        BY <2>2, <2>3, <3>1
    <2>4. CASE n # 0
      <3>1. n - 1 \in Nat /\ n - 1 \notin T
        BY <2>1, <2>2, <2>4
      <3>2. PICK f : Upto(n - 1, f)
        BY <3>1
      <3> DEFINE h == [x \in SUBSET V |-> IF Cardinality(x) < n THEN f[x] ELSE MetUpTo(g, s, t, f, x)]
      <3>3. ASSUME NEW x \in SUBSET V, Cardinality(x) <= n
            PROVE  h[x] = MetUpTo(g, s, t, h, x)
        <4>1. x # {} => h[x \ {Max(x)}] = f[x \ {Max(x)}]
          BY <1>1, <1>2, <2>2, <3>3
        <4>2. MetUpTo(g, s, t, h, x) = MetUpTo(g, s, t, f, x)
          BY <4>1 DEF MetUpTo
        <4>3. Cardinality(x) < n => f[x] = MetUpTo(g, s, t, f, x)
          BY <1>1, <2>2, <3>2
        <4> QED
          BY <4>2, <4>3
      <3>4. Upto(n, h)
        BY <3>3
      <3> QED
        BY <2>2, <3>4
    <2> QED
      BY <2>3, <2>4
  <1>5. Cardinality(V) \in Nat
    BY FS_CardinalityType
  <1>6. PICK f : Upto(Cardinality(V), f)
    BY <1>4, <1>5
  <1> DEFINE h == [x \in SUBSET V |-> f[x]]
  <1>7. ASSUME NEW x \in SUBSET V
        PROVE  h[x] = MetUpTo(g, s, t, h, x)
    <2>1. x # {} => h[x \ {Max(x)}] = f[x \ {Max(x)}]
      BY <1>2
    <2>2. MetUpTo(g, s, t, h, x) = MetUpTo(g, s, t, f, x)
      BY <2>1 DEF MetUpTo
    <2> QED
      BY <1>1, <1>6, <2>2
  <1>8. h = [x \in SUBSET V |-> MetUpTo(g, s, t, h, x)]
    BY <1>7
  <1> QED
    BY <1>8 DEF IsFold

\* What every step of the fold keeps, the fold has.
LEMMA FoldKeeps ==
  ASSUME NEW g, IsGraph(g), NEW s, NEW t, NEW L, {} \in L,
         \A k \in Vertices(g) : \A list \in L : Met(g, s, t, k, list) \in L
  PROVE  ThroughThird(g, s, t) \in L
  <1>0. PICK V : V = Vertices(g) \ {s, t}
    OBVIOUS
  <1>1. V \subseteq Int /\ IsFiniteSet(V) /\ V \subseteq Vertices(g)
    BY <1>0, VerticesArePoints, PointsAssumption, FS_Subset
  <1>3. \E h : IsFold(g, s, t, V, h)
    BY <1>1, FoldExists
  <1> DEFINE f == CHOOSE h : IsFold(g, s, t, V, h)
             T == {Cardinality(x) : x \in {z \in SUBSET V : f[z] \notin L}}
  <1>2. ThroughThird(g, s, t) = f[V]
    BY <1>0, ThroughThirdIsFold
  <1> HIDE DEF f, T
  <1>4. f = [x \in SUBSET V |-> MetUpTo(g, s, t, f, x)]
    BY <1>3 DEF f, IsFold
  <1>5. \A x \in SUBSET V : f[x] = MetUpTo(g, s, t, f, x)
    BY <1>4
  <1>6. \A x \in SUBSET V : IsFiniteSet(x) /\ Cardinality(x) \in Nat
    BY <1>1, FS_Subset, FS_CardinalityType
  <1>7. T = {}
    <2> USE DEF T
    <2> SUFFICES ASSUME T # {} PROVE FALSE
      OBVIOUS
    <2>1. T \subseteq Nat
      BY <1>6
    <2>2. PICK n \in T : \A k \in T : n <= k
      BY <2>1, LeastNatural
    <2>3. PICK x \in SUBSET V : f[x] \notin L /\ n = Cardinality(x)
      BY <2>2
    <2>4. x # {}
      BY <1>5, <2>3 DEF MetUpTo
    <2> DEFINE k == Max(x)
               rest == x \ {k}
    <2>5. k \in x
      BY <1>1, <1>6, <2>4, MaxOfFinite
    <2> HIDE DEF k
    <2>6. Cardinality(rest) = Cardinality(x) - 1
      BY <1>6, <2>5, FS_RemoveElement
    <2>7. f[rest] \in L
      <3>1. SUFFICES ASSUME f[rest] \notin L PROVE FALSE
        OBVIOUS
      <3>2. Cardinality(rest) \in T
        BY <3>1
      <3> HIDE DEF T
      <3> QED
        BY <1>6, <2>2, <2>3, <2>6, <3>2
    <2>8. f[x] = Met(g, s, t, k, f[rest])
      BY <1>5, <2>4 DEF MetUpTo, k
    <2> QED
      BY <1>1, <2>3, <2>5, <2>7, <2>8
  <1> QED
    BY <1>2, <1>7 DEF T

(***************************************************************************)
(* What the operations on lists keep                                       *)
(***************************************************************************)

\* A difference between two instants keeps one of the bounds of a list.
Holds(S, x) == \E b \in S : b.lo <= x /\ x <= b.hi

LEMMA HullTyped ==
  ASSUME NEW S, S \subseteq Bounds, S # {}
  PROVE  /\ Hull(S) \in Bounds
         /\ \E b \in S : Hull(S).lo = b.lo
         /\ \E b \in S : Hull(S).hi = b.hi
         /\ \A b \in S : Hull(S).lo <= b.lo /\ b.hi <= Hull(S).hi
  <1>1. Lows(S) \subseteq Number /\ Highs(S) \subseteq Number
    BY EndsTyped
  <1>2. Lows(S) # {} /\ Highs(S) # {}
    BY DEF Lows, Highs
  <1>3. Min(Lows(S)) \in Lows(S) /\ \A x \in Lows(S) : Min(Lows(S)) <= x
    BY <1>1, <1>2, MinOfNumbers
  <1>4. Max(Highs(S)) \in Highs(S) /\ \A x \in Highs(S) : Max(Highs(S)) >= x
    BY <1>1, <1>2, MaxOfNumbers
  <1>5. Hull(S).lo = Min(Lows(S)) /\ Hull(S).hi = Max(Highs(S)) /\ Hull(S) = [lo |-> Min(Lows(S)), hi |-> Max(Highs(S))]
    BY DEF Hull
  <1>6. Hull(S) \in Bounds
    BY <1>1, <1>3, <1>4, <1>5 DEF Bounds
  <1>7. \A b \in S : b.lo \in Lows(S) /\ b.hi \in Highs(S) /\ b.lo \in Int /\ b.hi \in Int
    BY DEF Lows, Highs, Bounds, Number
  <1>8. \A b \in S : Hull(S).lo <= b.lo /\ b.hi <= Hull(S).hi
    <2> SUFFICES ASSUME NEW b \in S PROVE Hull(S).lo <= b.lo /\ b.hi <= Hull(S).hi
      OBVIOUS
    <2>1. Hull(S).hi \in Int
      BY <1>6 DEF Bounds, Number
    <2> QED
      BY <1>3, <1>4, <1>5, <1>7, <2>1
  <1>9. (\E b \in S : Min(Lows(S)) = b.lo) /\ \E b \in S : Max(Highs(S)) = b.hi
    BY <1>3, <1>4 DEF Lows, Highs
  <1> QED
    BY <1>5, <1>6, <1>8, <1>9

LEMMA ReverseBoundsTyped ==
  ASSUME NEW S, S \subseteq Bounds
  PROVE  /\ ReverseBounds(S) \subseteq Bounds
         /\ \A x \in Int : Holds(S, x) <=> Holds(ReverseBounds(S), -x)
  <1>1. \A b \in S : b.lo \in Number /\ b.hi \in Number /\ b.lo \in Int /\ b.hi \in Int
    BY DEF Bounds, Number
  <1>2. \A x \in Number : -x \in Number
    BY InfAssumption DEF Number
  <1>3. ReverseBounds(S) \subseteq Bounds
    BY <1>1, <1>2 DEF ReverseBounds, Bounds
  <1>4. ASSUME NEW x \in Int PROVE Holds(S, x) <=> Holds(ReverseBounds(S), -x)
    <2>1. ASSUME NEW b \in S
          PROVE  b.lo <= x /\ x <= b.hi <=> -b.hi <= -x /\ -x <= -b.lo
      BY <1>1
    <2>2. ASSUME NEW b \in S, b.lo <= x, x <= b.hi PROVE Holds(ReverseBounds(S), -x)
      <3> DEFINE r == [lo |-> -b.hi, hi |-> -b.lo]
      <3>1. r.lo <= -x /\ -x <= r.hi
        BY <2>1, <2>2
      <3>2. r \in ReverseBounds(S)
        BY DEF ReverseBounds
      <3> HIDE DEF r
      <3> QED
        BY <3>1, <3>2 DEF Holds
    <2>3. ASSUME NEW r \in ReverseBounds(S), r.lo <= -x, -x <= r.hi PROVE Holds(S, x)
      <3>1. PICK b \in S : r = [lo |-> -b.hi, hi |-> -b.lo]
        BY DEF ReverseBounds
      <3>2. r.lo = -b.hi /\ r.hi = -b.lo
        BY <3>1
      <3> QED
        BY <2>1, <2>3, <3>2 DEF Holds
    <2> QED
      BY <2>2, <2>3 DEF Holds
  <1> QED
    BY <1>3, <1>4

LEMMA BothWaysTyped ==
  ASSUME NEW g, IsGraph(g), NEW s, NEW t
  PROVE  BothWays(g, s, t) \subseteq Bounds
  BY IntervalsTyped, ReverseBoundsTyped DEF BothWays

\* The disjoint intervals of a list cover it.
LEMMA DisjointIntervalsCover ==
  ASSUME NEW S, S \subseteq Bounds
  PROVE  /\ DisjointIntervals(S) \subseteq Bounds
         /\ \A c \in S : \E h \in DisjointIntervals(S) : h.lo <= c.lo /\ c.hi <= h.hi
  <1> DEFINE Starts == {b \in S : \A c \in S : Overlaps(b, c) => b.lo <= c.lo}
             Group(b) == {c \in S : b.lo <= c.lo /\ \A d \in Starts : b.lo < d.lo => c.lo < d.lo}
  <1>1. DisjointIntervals(S) = {Hull(Group(b)) : b \in Starts}
    BY DEF DisjointIntervals
  <1>2. \A b \in S : b.lo \in Int /\ b.lo \in Number
    BY DEF Bounds, Number
  <1>3. \A b \in Starts : b \in S /\ b \in Group(b) /\ Group(b) \subseteq Bounds
    BY <1>2
  <1>4. ASSUME NEW c \in S PROVE \E b \in Starts : c \in Group(b)
    <2> DEFINE Earlier == {b \in Starts : b.lo <= c.lo}
    <2>1. Earlier # {}
      <3>1. Min(Lows(S)) \in Lows(S) /\ \A x \in Lows(S) : Min(Lows(S)) <= x
        <4>1. Lows(S) \subseteq Number /\ Lows(S) # {}
          BY EndsTyped DEF Lows
        <4> QED
          BY <4>1, MinOfNumbers
      <3>2. PICK b \in S : b.lo = Min(Lows(S))
        BY <3>1 DEF Lows
      <3>3. \A d \in S : b.lo <= d.lo
        BY <3>1, <3>2 DEF Lows
      <3> QED
        BY <3>3
    <2>2. Lows(Earlier) \subseteq Number /\ Lows(Earlier) # {}
      BY <1>2, <2>1 DEF Lows
    <2>3. Max(Lows(Earlier)) \in Lows(Earlier) /\ \A x \in Lows(Earlier) : Max(Lows(Earlier)) >= x
      BY <2>2, MaxOfNumbers
    <2>4. PICK b \in Earlier : b.lo = Max(Lows(Earlier))
      BY <2>3 DEF Lows
    <2>5. \A d \in Earlier : b.lo >= d.lo
      BY <2>3, <2>4 DEF Lows
    <2>6. ASSUME NEW d \in Starts, b.lo < d.lo PROVE c.lo < d.lo
      BY <1>2, <2>4, <2>5, <2>6
    <2> QED
      BY <2>4, <2>6
  <1>5. \A b \in Starts : /\ Hull(Group(b)) \in Bounds
                          /\ \A c \in Group(b) : Hull(Group(b)).lo <= c.lo /\ c.hi <= Hull(Group(b)).hi
    <2> TAKE b \in Starts
    <2>1. Group(b) # {} /\ Group(b) \subseteq Bounds
      BY <1>3
    <2> HIDE DEF Group
    <2> QED
      BY <2>1, HullTyped
  <1> HIDE DEF Group, Starts
  <1> QED
    BY <1>1, <1>4, <1>5

LEMMA CompositionKeeps ==
  ASSUME NEW S, S \subseteq Bounds, NEW T, T \subseteq Bounds
  PROVE  /\ Composition(S, T) \subseteq Bounds
         /\ S = {} \/ T = {} => Composition(S, T) = {}
         /\ \A x, y \in Int : /\ -Inf < x /\ x < Inf /\ -Inf < y /\ y < Inf
                              /\ -Inf < x + y /\ x + y < Inf
                              /\ Holds(S, x) /\ Holds(T, y)
                              => Holds(Composition(S, T), x + y)
  <1> DEFINE Sums == {[lo |-> Plus(a.lo, b.lo), hi |-> Plus(a.hi, b.hi)] : a \in S, b \in T}
             list == {c \in Sums : IsValid(c)}
  <1>1. Composition(S, T) = DisjointIntervals(list)
    BY DEF Composition
  <1>2. \A b \in S \cup T : b.lo \in Number /\ b.hi \in Number /\ b.lo \in Int /\ b.hi \in Int
    BY DEF Bounds, Number
  <1>3. Sums \subseteq Bounds
    BY <1>2, PlusIsNumber DEF Bounds
  <1>4. list \subseteq Bounds
    BY <1>3
  <1>5. S = {} \/ T = {} => DisjointIntervals(list) = {}
    BY DEF DisjointIntervals
  <1>6. ASSUME NEW x \in Int, NEW y \in Int, -Inf < x, x < Inf, -Inf < y, y < Inf,
               -Inf < x + y, x + y < Inf, Holds(S, x), Holds(T, y)
        PROVE  Holds(DisjointIntervals(list), x + y)
    <2>1. PICK a \in S : a.lo <= x /\ x <= a.hi
      BY <1>6 DEF Holds
    <2>2. PICK b \in T : b.lo <= y /\ y <= b.hi
      BY <1>6 DEF Holds
    <2> DEFINE c == [lo |-> Plus(a.lo, b.lo), hi |-> Plus(a.hi, b.hi)]
    <2>3. c.lo <= x + y
      BY <1>2, <1>6, <2>1, <2>2, PlusBelow
    <2>4. x + y <= c.hi
      BY <1>2, <1>6, <2>1, <2>2, PlusAbove
    <2>5. c \in Sums
      OBVIOUS
    <2> HIDE DEF Sums, c
    <2>6. c.lo \in Int /\ c.hi \in Int
      BY <1>3, <2>5 DEF Bounds, Number
    <2>7. c \in list
      BY <2>3, <2>4, <2>5, <2>6 DEF IsValid
    <2> HIDE DEF list
    <2>8. PICK h \in DisjointIntervals(list) : h.lo <= c.lo /\ c.hi <= h.hi
      BY <1>4, <2>7, DisjointIntervalsCover
    <2>9. h.lo \in Int /\ h.hi \in Int
      BY <1>4, DisjointIntervalsCover DEF Bounds, Number
    <2> QED
      BY <2>3, <2>4, <2>6, <2>8, <2>9 DEF Holds
  <1> HIDE DEF list
  <1>7. DisjointIntervals(list) \subseteq Bounds
    BY <1>4, DisjointIntervalsCover
  <1> QED
    BY <1>1, <1>5, <1>6, <1>7

LEMMA IntersectionKeeps ==
  ASSUME NEW S, S \subseteq Bounds, NEW T, T \subseteq Bounds
  PROVE  /\ Intersection(S, T) \subseteq Bounds
         /\ \A x \in Int : Holds(S, x) /\ Holds(T, x) => Holds(Intersection(S, T), x)
         /\ \A c \in Intersection(S, T) : \E b \in S : b.lo <= c.lo /\ c.hi <= b.hi
  <1>1. Intersection(S, T) \subseteq Bounds
    BY CommonIsBounds DEF Intersection
  <1>2. ASSUME NEW x \in Int, Holds(S, x), Holds(T, x)
        PROVE  Holds(Intersection(S, T), x)
    <2>1. PICK b \in S : b.lo <= x /\ x <= b.hi
      BY <1>2 DEF Holds
    <2>2. PICK c \in T : c.lo <= x /\ x <= c.hi
      BY <1>2 DEF Holds
    <2>3. b \in Bounds /\ c \in Bounds
      OBVIOUS
    <2>4. Common(b, c).lo <= x /\ x <= Common(b, c).hi /\ IsValid(Common(b, c))
      BY <2>1, <2>2, <2>3, CommonHolds
    <2> QED
      BY <2>4 DEF Holds, Intersection
  <1>3. ASSUME NEW c \in Intersection(S, T)
        PROVE  \E b \in S : b.lo <= c.lo /\ c.hi <= b.hi
    <2>1. PICK b \in S, d \in T : c = Common(b, d)
      BY DEF Intersection
    <2>2. b.lo \in Int /\ b.hi \in Int /\ d.lo \in Int /\ d.hi \in Int
      BY DEF Bounds, Number
    <2> QED
      BY <2>1, <2>2 DEF Common, Larger, Smaller
  <1> QED
    BY <1>1, <1>2, <1>3

LEMMA LooseIntersectionKeeps ==
  ASSUME NEW S, S \subseteq Bounds, NEW T, T \subseteq Bounds
  PROVE  /\ LooseIntersection(S, T) \subseteq Bounds
         /\ T = {} => LooseIntersection(S, T) = {}
         /\ \A x \in Int : x < Inf /\ Holds(S, x) /\ Holds(T, x) => Holds(LooseIntersection(S, T), x)
         /\ \A x \in Int : Holds(LooseIntersection(S, T), x) => Holds(S, x)
  <1> DEFINE I(c) == Intersection({c}, T)
             Cut == {c \in S : I(c) # {}}
  <1>1. LooseIntersection(S, T) = {h \in {Hull(I(c)) : c \in Cut} : h.lo # Inf}
    BY DEF LooseIntersection
  <1>2. ASSUME NEW c \in S
        PROVE  /\ I(c) \subseteq Bounds
               /\ \A x \in Int : Holds({c}, x) /\ Holds(T, x) => Holds(I(c), x)
               /\ \A d \in I(c) : c.lo <= d.lo /\ d.hi <= c.hi
    <2>1. PICK S1 : S1 = {c}
      OBVIOUS
    <2>2. S1 \subseteq Bounds
      BY <2>1
    <2>3. /\ Intersection(S1, T) \subseteq Bounds
          /\ \A x \in Int : Holds(S1, x) /\ Holds(T, x) => Holds(Intersection(S1, T), x)
          /\ \A d \in Intersection(S1, T) : \E b \in S1 : b.lo <= d.lo /\ d.hi <= b.hi
      BY <2>2, IntersectionKeeps
    <2> QED
      BY <2>1, <2>3
  <1>3. T = {} => Cut = {}
    BY DEF Intersection
  <1> HIDE DEF I
  <1>4. ASSUME NEW c \in Cut
        PROVE  /\ Hull(I(c)) \in Bounds
               /\ \E b \in I(c) : Hull(I(c)).lo = b.lo
               /\ \E b \in I(c) : Hull(I(c)).hi = b.hi
               /\ \A b \in I(c) : Hull(I(c)).lo <= b.lo /\ b.hi <= Hull(I(c)).hi
    <2>1. I(c) \subseteq Bounds /\ I(c) # {}
      BY <1>2
    <2> QED
      BY <2>1, HullTyped
  <1>5. ASSUME NEW x \in Int, x < Inf, Holds(S, x), Holds(T, x)
        PROVE  Holds(LooseIntersection(S, T), x)
    <2>1. PICK c \in S : c.lo <= x /\ x <= c.hi
      BY <1>5 DEF Holds
    <2>2. Holds(I(c), x)
      BY <1>2, <1>5, <2>1 DEF Holds
    <2>3. PICK b \in I(c) : b.lo <= x /\ x <= b.hi
      BY <2>2 DEF Holds
    <2>4. c \in Cut
      BY <2>3
    <2>5. b \in Bounds /\ Hull(I(c)) \in Bounds
      BY <1>2, <1>4, <2>4
    <2>6. Hull(I(c)).lo <= b.lo /\ b.hi <= Hull(I(c)).hi
      BY <1>4, <2>4
    <2>7. b.lo \in Int /\ b.hi \in Int /\ Hull(I(c)).lo \in Int /\ Hull(I(c)).hi \in Int
      BY <2>5 DEF Bounds, Number
    <2>8. Hull(I(c)).lo <= x /\ x <= Hull(I(c)).hi /\ Hull(I(c)).lo # Inf
      BY <1>5, <2>3, <2>6, <2>7, InfAssumption
    <2> QED
      BY <1>1, <2>4, <2>8 DEF Holds
  <1>6. ASSUME NEW x \in Int, Holds(LooseIntersection(S, T), x) PROVE Holds(S, x)
    <2>1. PICK c \in Cut : Hull(I(c)).lo <= x /\ x <= Hull(I(c)).hi
      BY <1>1, <1>6 DEF Holds
    <2>2. PICK b \in I(c) : Hull(I(c)).lo = b.lo
      BY <1>4
    <2>3. PICK d \in I(c) : Hull(I(c)).hi = d.hi
      BY <1>4
    <2>4. c.lo <= b.lo /\ d.hi <= c.hi
      BY <1>2
    <2>5. b \in Bounds /\ d \in Bounds /\ c \in Bounds
      BY <1>2
    <2>6. b.lo \in Int /\ d.hi \in Int /\ c.lo \in Int /\ c.hi \in Int
      BY <2>5 DEF Bounds, Number
    <2>7. c.lo <= x /\ x <= c.hi
      BY <2>1, <2>2, <2>3, <2>4, <2>6
    <2> QED
      BY <2>7 DEF Holds
  <1> QED
    BY <1>1, <1>3, <1>4, <1>5, <1>6

(***************************************************************************)
(* A turn of loose path consistency                                        *)
(***************************************************************************)

\* No pair of points has edges in both directions.
OneWay(g) == \A e \in DOMAIN g : <<e[2], e[1]>> \notin DOMAIN g

LEMMA PointsAreOrdered ==
  \A s, t \in Points : s \in Int /\ t \in Int /\ (s < t => s # t /\ ~ (t < s)) /\ (s # t => s < t \/ t < s)
  BY PointsAssumption

LEMMA BothWaysHold ==
  ASSUME NEW g, IsGraph(g), NEW a \in Valuations, KeepsOne(a, g),
         NEW s \in Points, NEW t \in Points, BothWays(g, s, t) # {}
  PROVE  Holds(BothWays(g, s, t), a[t] - a[s])
  <1>1. a[s] \in Int /\ a[t] \in Int /\ a[t] - a[s] \in Int /\ a[s] - a[t] \in Int /\ -(a[s] - a[t]) = a[t] - a[s]
    BY DiffBounded
  <1>2. CASE <<s, t>> \in DOMAIN g
    <2>1. Holds(g[<<s, t>>], a[t] - a[s])
      BY <1>2 DEF KeepsOne, Keeps, Holds
    <2> QED
      BY <1>2, <2>1 DEF BothWays, Intervals, Holds
  <1>3. CASE <<s, t>> \notin DOMAIN g
    <2>1. Intervals(g, s, t) = {}
      BY <1>3 DEF Intervals
    <2>2. Intervals(g, t, s) # {}
      BY <2>1 DEF BothWays, ReverseBounds
    <2>3. <<t, s>> \in DOMAIN g /\ Intervals(g, t, s) = g[<<t, s>>]
      BY <2>2 DEF Intervals
    <2>4. Holds(Intervals(g, t, s), a[s] - a[t])
      BY <2>3 DEF KeepsOne, Keeps, Holds
    <2>5. Holds(ReverseBounds(Intervals(g, t, s)), a[t] - a[s])
      <3>1. Intervals(g, t, s) \subseteq Bounds
        BY IntervalsTyped
      <3>2. Holds(ReverseBounds(Intervals(g, t, s)), -(a[s] - a[t]))
        BY <1>1, <2>4, <3>1, ReverseBoundsTyped
      <3> QED
        BY <1>1, <3>2
    <2> QED
      BY <2>1, <2>5 DEF BothWays
  <1> QED
    BY <1>2, <1>3

\* What the paths over third vertices leave possible, every solution keeps.
LEMMA ThroughThirdKeeps ==
  ASSUME NEW g, IsGraph(g), NEW s \in Points, NEW t \in Points
  PROVE  /\ ThroughThird(g, s, t) \subseteq Bounds
         /\ \A a \in Valuations :
              KeepsOne(a, g) /\ ThroughThird(g, s, t) # {} => Holds(ThroughThird(g, s, t), a[t] - a[s])
  <1> DEFINE A == {a \in Valuations : KeepsOne(a, g)}
             L == {l \in SUBSET Bounds : \A a \in A : l = {} \/ Holds(l, a[t] - a[s])}
  <1>1. ASSUME NEW k \in Vertices(g) PROVE PathOver(g, s, t, k) \in L
    <2>1. k \in Points
      BY VerticesArePoints
    <2>2. PICK S : S = BothWays(g, s, k)
      OBVIOUS
    <2>3. PICK T : T = BothWays(g, k, t)
      OBVIOUS
    <2>4. S \subseteq Bounds /\ T \subseteq Bounds
      BY <2>2, <2>3, BothWaysTyped
    <2>5. PICK P : P = Composition(S, T)
      OBVIOUS
    <2>6. P \subseteq Bounds /\ (S = {} \/ T = {} => P = {})
      BY <2>4, <2>5, CompositionKeeps
    <2>7. ASSUME NEW a \in A, P # {} PROVE Holds(P, a[t] - a[s])
      <3>1. Holds(S, a[k] - a[s]) /\ Holds(T, a[t] - a[k])
        BY <2>1, <2>2, <2>3, <2>6, <2>7, BothWaysHold
      <3>2. PICK x : x = a[k] - a[s]
        OBVIOUS
      <3>3. PICK y : y = a[t] - a[k]
        OBVIOUS
      <3>4. /\ x \in Int /\ y \in Int /\ x + y = a[t] - a[s]
            /\ -Inf < x /\ x < Inf /\ -Inf < y /\ y < Inf /\ -Inf < x + y /\ x + y < Inf
        <4>1. a[s] \in Int /\ a[t] \in Int /\ a[k] \in Int
          BY <2>1, DiffBounded
        <4>2. /\ -Inf < x /\ x < Inf /\ -Inf < y /\ y < Inf
              /\ -Inf < a[t] - a[s] /\ a[t] - a[s] < Inf
          BY <2>1, <3>2, <3>3, DiffBounded
        <4>3. x \in Int /\ y \in Int /\ x + y = a[t] - a[s]
          BY <3>2, <3>3, <4>1
        <4> QED
          BY <4>2, <4>3
      <3>5. Holds(P, x + y)
        BY <2>4, <2>5, <3>1, <3>2, <3>3, <3>4, CompositionKeeps
      <3> QED
        BY <3>4, <3>5
    <2> HIDE DEF A
    <2>8. P \in L
      BY <2>6, <2>7
    <2> QED
      BY <2>2, <2>3, <2>5, <2>8 DEF PathOver
  <1>2. ASSUME NEW k \in Vertices(g), NEW list \in L PROVE Met(g, s, t, k, list) \in L
    <2>1. PICK P : P = PathOver(g, s, t, k)
      OBVIOUS
    <2>2. P \in L
      BY <1>1, <2>1
    <2>3. list # {} /\ P # {} => Intersection(list, P) \in L
      <3> SUFFICES ASSUME list # {}, P # {} PROVE Intersection(list, P) \in L
        OBVIOUS
      <3>1. list \subseteq Bounds /\ P \subseteq Bounds
        BY <2>2
      <3>2. PICK M : M = Intersection(list, P)
        OBVIOUS
      <3>3. M \subseteq Bounds
        BY <3>1, <3>2, IntersectionKeeps
      <3>4. ASSUME NEW a \in A PROVE Holds(M, a[t] - a[s])
        <4>1. Holds(list, a[t] - a[s]) /\ Holds(P, a[t] - a[s])
          BY <2>2
        <4>2. a[t] - a[s] \in Int
          BY DiffBounded
        <4> QED
          BY <3>1, <3>2, <4>1, <4>2, IntersectionKeeps
      <3> HIDE DEF A
      <3>5. M \in L
        BY <3>3, <3>4
      <3> QED
        BY <3>2, <3>5
    <2> HIDE DEF L
    <2> QED
      BY <2>1, <2>2, <2>3 DEF Met
  <1>3. {} \in L
    OBVIOUS
  <1>4. ThroughThird(g, s, t) \in L
    <2> HIDE DEF L
    <2> QED
      BY <1>2, <1>3, FoldKeeps
  <1> QED
    BY <1>4

LEMMA IntersectionNetworkIsGraph ==
  ASSUME NEW g, IsGraph(g)
  PROVE  LET h == IntersectionNetwork(g)
         IN  /\ IsGraph(h)
             /\ DOMAIN h = {p \in Vertices(g) \X Vertices(g) : p[1] < p[2]}
             /\ \A a \in Valuations : KeepsOne(a, g) =>
                  \A e \in DOMAIN h : h[e] # {} => Holds(h[e], a[e[2]] - a[e[1]])
  <1> DEFINE F == {p \in Vertices(g) \X Vertices(g) : p[1] < p[2]}
             h == IntersectionNetwork(g)
  <1>1. Vertices(g) \subseteq Points
    BY VerticesArePoints
  <1>2. ASSUME NEW e \in F PROVE e \in Pairs /\ e[1] \in Points /\ e[2] \in Points
    <2>1. e = <<e[1], e[2]>> /\ e[1] \in Points /\ e[2] \in Points /\ e[1] < e[2]
      BY <1>1
    <2>2. e[1] # e[2]
      BY <2>1, PointsAreOrdered
    <2> QED
      BY <2>1, <2>2 DEF Pairs
  <1>3. h = [e \in F |-> ThroughThird(g, e[1], e[2])]
    BY DEF IntersectionNetwork
  <1> HIDE DEF h, F
  <1>4. ASSUME NEW e \in F
        PROVE  /\ h[e] \subseteq Bounds
               /\ \A a \in Valuations : KeepsOne(a, g) /\ h[e] # {} => Holds(h[e], a[e[2]] - a[e[1]])
    <2>1. h[e] = ThroughThird(g, e[1], e[2])
      BY <1>3
    <2> QED
      BY <1>2, <2>1, ThroughThirdKeeps
  <1>5. DOMAIN h = F /\ h = [e \in DOMAIN h |-> h[e]]
    BY <1>3
  <1>6. IsGraph(h)
    BY <1>2, <1>4, <1>5 DEF IsGraph
  <1> QED
    BY <1>4, <1>5, <1>6 DEF h, F

\* What is left of the bounds from s to t.
Kept(g, h, s, t) ==
  IF BothWays(g, s, t) = {} THEN BothWays(h, s, t)
  ELSE LooseIntersection(BothWays(g, s, t), BothWays(h, s, t))

ForwardPairs(g) == {p \in Vertices(g) \X Vertices(g) : p[1] < p[2]}
TurnedPairs(g, h) == {p \in ForwardPairs(g) : IncludesNegative(Kept(g, h, p[1], p[2]))}

LEMMA LooseNetworkIs ==
  ASSUME NEW g, NEW h
  PROVE  LooseIntersectionNetwork(g, h) =
           [e \in (ForwardPairs(g) \ TurnedPairs(g, h)) \cup {<<p[2], p[1]>> : p \in TurnedPairs(g, h)} |->
              IF e[1] < e[2] THEN Kept(g, h, e[1], e[2]) ELSE ReverseBounds(Kept(g, h, e[2], e[1]))]
  BY DEF LooseIntersectionNetwork, ForwardPairs, TurnedPairs, Kept

LEMMA ForwardPairFacts ==
  ASSUME NEW g, IsGraph(g), NEW p \in ForwardPairs(g)
  PROVE  /\ p = <<p[1], p[2]>> /\ p[1] \in Points /\ p[2] \in Points
         /\ p[1] \in Vertices(g) /\ p[2] \in Vertices(g)
         /\ p[1] < p[2] /\ ~ (p[2] < p[1]) /\ p[1] # p[2]
  <1>1. p = <<p[1], p[2]>> /\ p[1] \in Vertices(g) /\ p[2] \in Vertices(g) /\ p[1] < p[2]
    BY DEF ForwardPairs
  <1>2. p[1] \in Points /\ p[2] \in Points
    BY <1>1, VerticesArePoints
  <1> QED
    BY <1>1, <1>2, PointsAreOrdered

LEMMA KeptTyped ==
  ASSUME NEW g, IsGraph(g), NEW h, IsGraph(h), NEW s, NEW t
  PROVE  Kept(g, h, s, t) \subseteq Bounds
  BY BothWaysTyped, LooseIntersectionKeeps DEF Kept

\* Every edge of the new network is a pair with its bounds, forward or turned round.
LEMMA LooseNetworkEdges ==
  ASSUME NEW g, IsGraph(g), NEW h, IsGraph(h), NEW n, n = LooseIntersectionNetwork(g, h)
  PROVE  /\ n = [e \in DOMAIN n |-> n[e]]
         /\ \A e \in DOMAIN n : \E p \in ForwardPairs(g) :
              \/ e = p /\ n[e] = Kept(g, h, p[1], p[2]) /\ p \notin TurnedPairs(g, h)
              \/ /\ e = <<p[2], p[1]>> /\ n[e] = ReverseBounds(Kept(g, h, p[1], p[2]))
                 /\ p \in TurnedPairs(g, h)
         /\ \A p \in ForwardPairs(g) :
              \/ p \in DOMAIN n /\ n[p] = Kept(g, h, p[1], p[2])
              \/ <<p[2], p[1]>> \in DOMAIN n /\ n[<<p[2], p[1]>>] = ReverseBounds(Kept(g, h, p[1], p[2]))
  <1> DEFINE D == (ForwardPairs(g) \ TurnedPairs(g, h)) \cup {<<p[2], p[1]>> : p \in TurnedPairs(g, h)}
  <1>1. n = [e \in D |-> IF e[1] < e[2] THEN Kept(g, h, e[1], e[2]) ELSE ReverseBounds(Kept(g, h, e[2], e[1]))]
    BY LooseNetworkIs
  <1>2. TurnedPairs(g, h) \subseteq ForwardPairs(g)
    BY DEF TurnedPairs
  <1>3. ASSUME NEW p \in ForwardPairs(g) \ TurnedPairs(g, h)
        PROVE  p \in D /\ n[p] = Kept(g, h, p[1], p[2])
    <2>1. p \in D /\ p[1] < p[2]
      BY ForwardPairFacts
    <2> HIDE DEF D
    <2> QED
      BY <1>1, <2>1
  <1>4. ASSUME NEW p \in TurnedPairs(g, h)
        PROVE  <<p[2], p[1]>> \in D /\ n[<<p[2], p[1]>>] = ReverseBounds(Kept(g, h, p[1], p[2]))
    <2>1. PICK e : e = <<p[2], p[1]>>
      OBVIOUS
    <2>2. e \in D
      BY <2>1
    <2>3. e[1] = p[2] /\ e[2] = p[1] /\ ~ (e[1] < e[2])
      BY <1>2, <2>1, ForwardPairFacts
    <2> HIDE DEF D
    <2>4. n[e] = ReverseBounds(Kept(g, h, p[1], p[2]))
      BY <1>1, <2>2, <2>3
    <2> QED
      BY <2>1, <2>2, <2>4
  <1>5. DOMAIN n = D /\ n = [e \in DOMAIN n |-> n[e]]
    <2> HIDE DEF D
    <2> QED
      BY <1>1
  <1>6. ASSUME NEW e \in D
        PROVE  \/ e \in ForwardPairs(g) \ TurnedPairs(g, h)
               \/ \E p \in TurnedPairs(g, h) : e = <<p[2], p[1]>>
    OBVIOUS
  <1> HIDE DEF D
  <1>7. ASSUME NEW e \in DOMAIN n
        PROVE  \E p \in ForwardPairs(g) :
                 \/ e = p /\ n[e] = Kept(g, h, p[1], p[2]) /\ p \notin TurnedPairs(g, h)
                 \/ /\ e = <<p[2], p[1]>> /\ n[e] = ReverseBounds(Kept(g, h, p[1], p[2]))
                    /\ p \in TurnedPairs(g, h)
    <2>1. CASE e \in ForwardPairs(g) \ TurnedPairs(g, h)
      BY <1>3, <2>1
    <2>2. CASE \E p \in TurnedPairs(g, h) : e = <<p[2], p[1]>>
      <3>1. PICK p \in TurnedPairs(g, h) : e = <<p[2], p[1]>>
        BY <2>2
      <3>2. n[e] = ReverseBounds(Kept(g, h, p[1], p[2]))
        BY <1>4, <3>1
      <3> QED
        BY <1>2, <3>1, <3>2
    <2> QED
      BY <1>5, <1>6, <2>1, <2>2
  <1>8. ASSUME NEW p \in ForwardPairs(g)
        PROVE  \/ p \in DOMAIN n /\ n[p] = Kept(g, h, p[1], p[2])
               \/ <<p[2], p[1]>> \in DOMAIN n /\ n[<<p[2], p[1]>>] = ReverseBounds(Kept(g, h, p[1], p[2]))
    BY <1>3, <1>4, <1>5
  <1> QED
    BY <1>5, <1>7, <1>8

LEMMA LooseNetworkTyped ==
  ASSUME NEW g, IsGraph(g), NEW h, IsGraph(h)
  PROVE  IsGraph(LooseIntersectionNetwork(g, h)) /\ OneWay(LooseIntersectionNetwork(g, h))
  <1>0. PICK n : n = LooseIntersectionNetwork(g, h)
    OBVIOUS
  <1>1. n = [e \in DOMAIN n |-> n[e]]
    BY <1>0, LooseNetworkEdges
  <1>2. ASSUME NEW e \in DOMAIN n
        PROVE  \E p \in ForwardPairs(g) :
                 \/ e = p /\ n[e] = Kept(g, h, p[1], p[2]) /\ p \notin TurnedPairs(g, h)
                 \/ /\ e = <<p[2], p[1]>> /\ n[e] = ReverseBounds(Kept(g, h, p[1], p[2]))
                    /\ p \in TurnedPairs(g, h)
    BY <1>0, LooseNetworkEdges
  <1>3. ASSUME NEW e \in DOMAIN n PROVE e \in Pairs /\ n[e] \subseteq Bounds
    <2>1. PICK p \in ForwardPairs(g) :
            \/ e = p /\ n[e] = Kept(g, h, p[1], p[2])
            \/ e = <<p[2], p[1]>> /\ n[e] = ReverseBounds(Kept(g, h, p[1], p[2]))
      BY <1>2
    <2>2. Kept(g, h, p[1], p[2]) \subseteq Bounds
      BY KeptTyped
    <2>3. ReverseBounds(Kept(g, h, p[1], p[2])) \subseteq Bounds
      BY <2>2, ReverseBoundsTyped
    <2>4. p \in Pairs /\ <<p[2], p[1]>> \in Pairs
      BY ForwardPairFacts DEF Pairs
    <2> QED
      BY <2>1, <2>2, <2>3, <2>4
  <1>4. OneWay(n)
    <2> SUFFICES ASSUME NEW e \in DOMAIN n, <<e[2], e[1]>> \in DOMAIN n PROVE FALSE
      BY DEF OneWay
    <2>0. PICK r : r = <<e[2], e[1]>>
      OBVIOUS
    <2>1. PICK p \in ForwardPairs(g) :
            \/ e = p /\ p \notin TurnedPairs(g, h)
            \/ e = <<p[2], p[1]>> /\ p \in TurnedPairs(g, h)
      BY <1>2
    <2>2. PICK q \in ForwardPairs(g) :
            \/ r = q /\ q \notin TurnedPairs(g, h)
            \/ r = <<q[2], q[1]>> /\ q \in TurnedPairs(g, h)
      BY <1>2, <2>0
    <2>3. p = <<p[1], p[2]>> /\ p[1] < p[2] /\ ~ (p[2] < p[1])
      BY ForwardPairFacts
    <2>4. q = <<q[1], q[2]>> /\ q[1] < q[2] /\ ~ (q[2] < q[1])
      BY ForwardPairFacts
    <2>5. r[1] = e[2] /\ r[2] = e[1]
      BY <2>0
    <2>6. CASE e = p /\ p \notin TurnedPairs(g, h)
      <3>1. ~ (r = q)
        BY <2>3, <2>4, <2>5, <2>6
      <3>2. r = <<q[2], q[1]>> /\ q \in TurnedPairs(g, h)
        BY <2>2, <3>1
      <3>3. r[1] = q[2] /\ r[2] = q[1]
        BY <3>2
      <3>4. q = p
        BY <2>3, <2>4, <2>5, <2>6, <3>3
      <3> QED
        BY <2>6, <3>2, <3>4
    <2>7. CASE e = <<p[2], p[1]>> /\ p \in TurnedPairs(g, h)
      <3>1. e[1] = p[2] /\ e[2] = p[1]
        BY <2>7
      <3>2. r # <<q[2], q[1]>>
        <4>1. r = <<q[2], q[1]>> => r[1] = q[2] /\ r[2] = q[1]
          OBVIOUS
        <4> QED
          BY <2>3, <2>4, <2>5, <3>1, <4>1
      <3>3. r = q /\ q \notin TurnedPairs(g, h)
        BY <2>2, <3>2
      <3>4. q = p
        BY <2>3, <2>4, <2>5, <3>1, <3>3
      <3> QED
        BY <2>7, <3>3, <3>4
    <2> QED
      BY <2>1, <2>6, <2>7
  <1>5. IsGraph(n)
    BY <1>1, <1>3 DEF IsGraph
  <1> QED
    BY <1>0, <1>4, <1>5

LEMMA HoldsReversed ==
  ASSUME NEW a \in Valuations, NEW s \in Points, NEW t \in Points, NEW S, S \subseteq Bounds
  PROVE  Holds(S, a[t] - a[s]) <=> Holds(ReverseBounds(S), a[s] - a[t])
  <1>1. a[t] - a[s] \in Int /\ -(a[t] - a[s]) = a[s] - a[t]
    BY DiffBounded
  <1> QED
    BY <1>1, ReverseBoundsTyped

LEMMA LooseNetworkEdge ==
  ASSUME NEW g, IsGraph(g), NEW h, IsGraph(h), NEW n, n = LooseIntersectionNetwork(g, h),
         NEW e \in DOMAIN n
  PROVE  \E p \in ForwardPairs(g) :
           \/ e = p /\ n[e] = Kept(g, h, p[1], p[2])
           \/ e = <<p[2], p[1]>> /\ n[e] = ReverseBounds(Kept(g, h, p[1], p[2]))
  <1>1. \E p \in ForwardPairs(g) :
           \/ e = p /\ n[e] = Kept(g, h, p[1], p[2]) /\ p \notin TurnedPairs(g, h)
           \/ /\ e = <<p[2], p[1]>> /\ n[e] = ReverseBounds(Kept(g, h, p[1], p[2]))
              /\ p \in TurnedPairs(g, h)
    BY LooseNetworkEdges
  <1>2. PICK p \in ForwardPairs(g) :
           \/ e = p /\ n[e] = Kept(g, h, p[1], p[2]) /\ p \notin TurnedPairs(g, h)
           \/ /\ e = <<p[2], p[1]>> /\ n[e] = ReverseBounds(Kept(g, h, p[1], p[2]))
              /\ p \in TurnedPairs(g, h)
    BY <1>1
  <1> QED
    BY <1>2

LEMMA LooseNetworkPair ==
  ASSUME NEW g, IsGraph(g), NEW h, IsGraph(h), NEW n, n = LooseIntersectionNetwork(g, h),
         NEW p \in ForwardPairs(g)
  PROVE  \/ p \in DOMAIN n /\ n[p] = Kept(g, h, p[1], p[2])
         \/ <<p[2], p[1]>> \in DOMAIN n /\ n[<<p[2], p[1]>>] = ReverseBounds(Kept(g, h, p[1], p[2]))
  BY LooseNetworkEdges

\* A turn that finds no contradiction leaves the solutions, if they all keep what is met
\* with.
LEMMA MeetingKeepsSolutions ==
  ASSUME NEW g, IsGraph(g), OneWay(g), CheckConsistency(g), NEW a \in Valuations,
         NEW h, IsGraph(h), DOMAIN h = ForwardPairs(g),
         KeepsOne(a, g) => \A e \in DOMAIN h : h[e] # {} => Holds(h[e], a[e[2]] - a[e[1]]),
         NEW n, n = LooseIntersectionNetwork(g, h), CheckConsistency(n)
  PROVE  KeepsOne(a, g) <=> KeepsOne(a, n)
  <1>2. ASSUME NEW e \in DOMAIN n
        PROVE  \E p \in ForwardPairs(g) :
                 \/ e = p /\ n[e] = Kept(g, h, p[1], p[2])
                 \/ e = <<p[2], p[1]>> /\ n[e] = ReverseBounds(Kept(g, h, p[1], p[2]))
    BY LooseNetworkEdge
  <1>3. ASSUME NEW p \in ForwardPairs(g)
        PROVE  \/ p \in DOMAIN n /\ n[p] = Kept(g, h, p[1], p[2])
               \/ <<p[2], p[1]>> \in DOMAIN n /\ n[<<p[2], p[1]>>] = ReverseBounds(Kept(g, h, p[1], p[2]))
    BY LooseNetworkPair
  <1>4. ASSUME NEW s, NEW t
        PROVE  /\ BothWays(g, s, t) \subseteq Bounds /\ BothWays(h, s, t) \subseteq Bounds
               /\ Kept(g, h, s, t) \subseteq Bounds
    BY BothWaysTyped, KeptTyped
  <1>5. ASSUME KeepsOne(a, g), NEW p \in ForwardPairs(g), Kept(g, h, p[1], p[2]) # {}
        PROVE  Holds(Kept(g, h, p[1], p[2]), a[p[2]] - a[p[1]])
    <2>1. p = <<p[1], p[2]>> /\ p[1] \in Points /\ p[2] \in Points /\ p[1] < p[2] /\ ~ (p[2] < p[1])
      BY ForwardPairFacts
    <2>2. PICK s : s = p[1]
      OBVIOUS
    <2>3. PICK t : t = p[2]
      OBVIOUS
    <2>4. <<t, s>> \notin DOMAIN h
      <3>1. PICK r : r = <<t, s>>
        OBVIOUS
      <3>2. r[1] = p[2] /\ r[2] = p[1]
        BY <2>2, <2>3, <3>1
      <3>3. r \notin ForwardPairs(g)
        <4>1. r \in ForwardPairs(g) => r[1] < r[2]
          BY ForwardPairFacts
        <4> QED
          BY <2>1, <3>2, <4>1
      <3> QED
        BY <3>1, <3>3
    <2>5. Intervals(h, t, s) = {} /\ Intervals(h, s, t) = h[p]
      <3>1. <<s, t>> = p
        BY <2>1, <2>2, <2>3
      <3>2. <<s, t>> \in DOMAIN h
        BY <3>1
      <3> QED
        BY <2>4, <3>1, <3>2 DEF Intervals
    <2>6. BothWays(h, s, t) = h[p]
      BY <2>5 DEF BothWays, ReverseBounds
    <2>7. h[p] # {} => Holds(h[p], a[t] - a[s])
      BY <1>5, <2>2, <2>3
    <2>8. s \in Points /\ t \in Points
      BY <2>1, <2>2, <2>3
    <2>9. CASE BothWays(g, s, t) = {}
      BY <1>5, <2>2, <2>3, <2>6, <2>7, <2>9 DEF Kept
    <2>10. CASE BothWays(g, s, t) # {}
      <3>1. Kept(g, h, s, t) = LooseIntersection(BothWays(g, s, t), BothWays(h, s, t))
        BY <2>10 DEF Kept
      <3>2. BothWays(h, s, t) # {}
        BY <1>4, <1>5, <2>2, <2>3, <3>1, LooseIntersectionKeeps
      <3>3. Holds(BothWays(h, s, t), a[t] - a[s])
        BY <2>6, <2>7, <3>2
      <3>4. Holds(BothWays(g, s, t), a[t] - a[s])
        BY <1>5, <2>8, <2>10, BothWaysHold
      <3>5. a[t] - a[s] \in Int /\ a[t] - a[s] < Inf
        BY <2>8, DiffBounded
      <3>6. Holds(LooseIntersection(BothWays(g, s, t), BothWays(h, s, t)), a[t] - a[s])
        BY <1>4, <3>3, <3>4, <3>5, LooseIntersectionKeeps
      <3> QED
        BY <2>2, <2>3, <3>1, <3>6
    <2> QED
      BY <2>9, <2>10
  <1>6. ASSUME KeepsOne(a, g) PROVE KeepsOne(a, n)
    <2> SUFFICES ASSUME NEW e \in DOMAIN n PROVE Holds(n[e], a[e[2]] - a[e[1]])
      BY DEF KeepsOne, Keeps, Holds
    <2>1. PICK p \in ForwardPairs(g) :
             \/ e = p /\ n[e] = Kept(g, h, p[1], p[2])
             \/ e = <<p[2], p[1]>> /\ n[e] = ReverseBounds(Kept(g, h, p[1], p[2]))
      BY <1>2
    <2>2. n[e] # {}
      BY DEF CheckConsistency
    <2>3. Kept(g, h, p[1], p[2]) # {}
      BY <2>1, <2>2 DEF ReverseBounds
    <2>4. Holds(Kept(g, h, p[1], p[2]), a[p[2]] - a[p[1]])
      BY <1>5, <1>6, <2>3
    <2>5. Holds(ReverseBounds(Kept(g, h, p[1], p[2])), a[p[1]] - a[p[2]])
      BY <1>4, <2>4, ForwardPairFacts, HoldsReversed
    <2>6. CASE e = p /\ n[e] = Kept(g, h, p[1], p[2])
      BY <2>4, <2>6
    <2>7. CASE e = <<p[2], p[1]>> /\ n[e] = ReverseBounds(Kept(g, h, p[1], p[2]))
      <3>1. e[1] = p[2] /\ e[2] = p[1]
        BY <2>7
      <3> QED
        BY <2>5, <2>7, <3>1
    <2> QED
      BY <2>1, <2>6, <2>7
  <1>7. ASSUME KeepsOne(a, n), NEW p \in ForwardPairs(g)
        PROVE  Holds(Kept(g, h, p[1], p[2]), a[p[2]] - a[p[1]])
    <2>1. CASE p \in DOMAIN n /\ n[p] = Kept(g, h, p[1], p[2])
      BY <1>7, <2>1 DEF KeepsOne, Keeps, Holds
    <2>2. CASE <<p[2], p[1]>> \in DOMAIN n /\ n[<<p[2], p[1]>>] = ReverseBounds(Kept(g, h, p[1], p[2]))
      <3>1. PICK r : r = <<p[2], p[1]>>
        OBVIOUS
      <3>2. r[1] = p[2] /\ r[2] = p[1]
        BY <3>1
      <3>3. Holds(n[r], a[r[2]] - a[r[1]])
        BY <1>7, <2>2, <3>1 DEF KeepsOne, Keeps, Holds
      <3>4. Holds(ReverseBounds(Kept(g, h, p[1], p[2])), a[p[1]] - a[p[2]])
        BY <2>2, <3>1, <3>2, <3>3
      <3> QED
        BY <1>4, <3>4, ForwardPairFacts, HoldsReversed
    <2> QED
      BY <1>3, <2>1, <2>2
  <1>8. ASSUME KeepsOne(a, n), NEW p \in ForwardPairs(g), BothWays(g, p[1], p[2]) # {}
        PROVE  Holds(BothWays(g, p[1], p[2]), a[p[2]] - a[p[1]])
    <2>1. Kept(g, h, p[1], p[2]) = LooseIntersection(BothWays(g, p[1], p[2]), BothWays(h, p[1], p[2]))
      BY <1>8 DEF Kept
    <2>2. Holds(LooseIntersection(BothWays(g, p[1], p[2]), BothWays(h, p[1], p[2])), a[p[2]] - a[p[1]])
      BY <1>7, <1>8, <2>1
    <2>3. a[p[2]] - a[p[1]] \in Int
      BY ForwardPairFacts, DiffBounded
    <2> QED
      BY <1>4, <2>2, <2>3, LooseIntersectionKeeps
  <1>9. ASSUME KeepsOne(a, n) PROVE KeepsOne(a, g)
    <2> SUFFICES ASSUME NEW e \in DOMAIN g PROVE Holds(g[e], a[e[2]] - a[e[1]])
      BY DEF KeepsOne, Keeps, Holds
    <2>1. e = <<e[1], e[2]>> /\ e[1] \in Points /\ e[2] \in Points /\ e[1] # e[2]
      BY DEF IsGraph, Pairs
    <2>2. e[1] \in Vertices(g) /\ e[2] \in Vertices(g)
      BY DEF Vertices
    <2>3. <<e[2], e[1]>> \notin DOMAIN g
      BY DEF OneWay
    <2>4. Intervals(g, e[1], e[2]) = g[e] /\ Intervals(g, e[2], e[1]) = {}
      BY <2>1, <2>3 DEF Intervals
    <2>5. g[e] \subseteq Bounds
      BY DEF IsGraph
    <2>6. CASE e[1] < e[2]
      <3>1. e \in ForwardPairs(g)
        BY <2>1, <2>2, <2>6 DEF ForwardPairs
      <3>2. BothWays(g, e[1], e[2]) = g[e]
        BY <2>4 DEF BothWays, ReverseBounds
      <3>4. g[e] # {}
        BY DEF CheckConsistency
      <3> QED
        BY <1>8, <1>9, <3>1, <3>2, <3>4
    <2>7. CASE e[2] < e[1]
      <3>1. PICK p : p = <<e[2], e[1]>>
        OBVIOUS
      <3>2. p \in ForwardPairs(g) /\ p[1] = e[2] /\ p[2] = e[1]
        BY <2>2, <2>7, <3>1 DEF ForwardPairs
      <3>3. BothWays(g, p[1], p[2]) = ReverseBounds(g[e])
        BY <2>4, <3>2 DEF BothWays
      <3>4. ReverseBounds(g[e]) # {}
        BY DEF CheckConsistency, ReverseBounds
      <3>5. Holds(ReverseBounds(g[e]), a[e[1]] - a[e[2]])
        BY <1>8, <1>9, <3>2, <3>3, <3>4
      <3> QED
        BY <2>1, <2>5, <3>5, HoldsReversed
    <2> QED
      BY <2>1, <2>6, <2>7, PointsAreOrdered
  <1> QED
    BY <1>6, <1>9

LEMMA LooseNetworkEquivalent ==
  ASSUME NEW g, IsGraph(g), OneWay(g), CheckConsistency(g), NEW n,
         n = LooseIntersectionNetwork(g, IntersectionNetwork(g)), CheckConsistency(n),
         NEW a \in Valuations
  PROVE  KeepsOne(a, g) <=> KeepsOne(a, n)
  <1>1. PICK h : h = IntersectionNetwork(g)
    OBVIOUS
  <1>2. /\ IsGraph(h) /\ DOMAIN h = ForwardPairs(g)
        /\ KeepsOne(a, g) => \A e \in DOMAIN h : h[e] # {} => Holds(h[e], a[e[2]] - a[e[1]])
    BY <1>1, IntersectionNetworkIsGraph DEF ForwardPairs
  <1>3. n = LooseIntersectionNetwork(g, h)
    BY <1>1
  <1> QED
    BY <1>2, <1>3, MeetingKeepsSolutions

(***************************************************************************)
(* Types and loose path consistency                                        *)
(***************************************************************************)

\* The rest of TypeOK: the networks, also those of loose path consistency.
GraphInv ==
  /\ IsGraph(tcn) /\ IsGraph(old)
  /\ unseen \subseteq Pairs \X Number
  /\ \A j \in Jobs : result[j].outcome \in Outcomes /\ IsGraph(result[j].graph)

LEMMA TypesTogether ==
  ASSUME IInv, GraphInv
  PROVE  TypeOK
  <1>1. DOMAIN result = Jobs
    BY DEF IInv, TypeInv
  <1> QED
    BY <1>1 DEF IInv, TypeInv, PhaseInv, GraphInv, TypeOK

LEMMA ReturnKeepsGraphs ==
  ASSUME GraphInv, IInv, NEW o \in Outcomes, NEW g, IsGraph(g), Return(o, g)
  PROVE  GraphInv'
  <1>1. tcn' = NoGraph /\ old' = NoGraph /\ unseen' = {}
        /\ result' = [result EXCEPT ![job] = [outcome |-> o, graph |-> g]]
    BY DEF Return
  <1>2. ASSUME NEW j \in Jobs PROVE result'[j] = result[j] \/ result'[j] = [outcome |-> o, graph |-> g]
    BY <1>1 DEF IInv, TypeInv
  <1>3. ASSUME NEW j \in Jobs PROVE result'[j].outcome \in Outcomes /\ IsGraph(result'[j].graph)
    <2>1. CASE result'[j] = result[j]
      BY <2>1 DEF GraphInv
    <2>2. CASE result'[j] = [outcome |-> o, graph |-> g]
      <3>1. result'[j].outcome = o /\ result'[j].graph = g
        BY <2>2
      <3> QED
        BY <3>1
    <2> QED
      BY <1>2, <2>1, <2>2
  <1>4. IsGraph(tcn') /\ IsGraph(old')
    BY <1>1, NoGraphIsGraph
  <1> QED
    BY <1>1, <1>3, <1>4 DEF GraphInv, IsGraph

LEMMA OutcomesAre == {"returned", "threw", "undefined", "none"} \subseteq Outcomes
  BY DEF Outcomes

\* The actions of Upper-Lower-Tightening and of loose path consistency.
LEMMA TighteningsKeepGraphs ==
  ASSUME IInv, GraphInv,
         UpperLowerTightening \/ Tighten \/ Intersect \/ LoosePathConsistency \/ Loosen
  PROVE  GraphInv'
  <1>1. IsGraph(Network)
    BY NetworkIsGraph DEF IInv, TypeInv
  <1>2. CASE UpperLowerTightening \/ LoosePathConsistency
    <2>1. tcn' = Network /\ UNCHANGED <<old, unseen, result>>
      BY <1>2 DEF UpperLowerTightening, LoosePathConsistency, Call
    <2> QED
      BY <1>1, <2>1 DEF GraphInv, IsGraph
  <1>3. CASE Tighten
    <2>1. tcn' = Stp(tcn) /\ old' = tcn /\ UNCHANGED <<unseen, result>>
      BY <1>3 DEF Tighten
    <2>2. IsGraph(Stp(tcn))
      BY StpIsGraph DEF GraphInv
    <2> QED
      BY <2>1, <2>2 DEF GraphInv, IsGraph
  <1>4. CASE Intersect
    <2>0. PICK tighter : tighter = IntersectionWith(old, MinNetwork(tcn, dist))
      OBVIOUS
    <2>1. /\ IsGraph(old) /\ IsGraph(tcn) /\ DOMAIN old = DOMAIN tcn
          /\ dist \in [Points \X Points -> Number]
      BY <1>4 DEF Intersect, HaveShortestPaths, IInv, TightenInv, TypeInv, GraphInv
    <2>2. /\ IsGraph(MinNetwork(tcn, dist)) /\ DOMAIN MinNetwork(tcn, dist) = DOMAIN old
          /\ \A e \in DOMAIN MinNetwork(tcn, dist) : MinNetwork(tcn, dist)[e] # {}
      BY <2>1, MinNetworkIsGraph
    <2>3. IsGraph(tighter)
      BY <2>0, <2>1, <2>2, IntersectionIsGraph
    <2>4. CASE Return("returned", tighter)
      BY <2>3, <2>4, OutcomesAre, ReturnKeepsGraphs
    <2>5. CASE tcn' = tighter /\ UNCHANGED <<old, unseen, result>>
      BY <2>3, <2>5 DEF GraphInv, IsGraph
    <2> QED
      BY <1>4, <2>0, <2>4, <2>5 DEF Intersect
  <1>5. CASE Loosen
    <2>0. PICK paths : paths = IntersectionNetwork(tcn)
      OBVIOUS
    <2>1. PICK tighter : tighter = LooseIntersectionNetwork(tcn, paths)
      OBVIOUS
    <2>2. IsGraph(paths)
      BY <2>0, IntersectionNetworkIsGraph DEF GraphInv
    <2>3. IsGraph(tighter)
      BY <2>1, <2>2, LooseNetworkTyped DEF GraphInv
    <2>4. CASE Return("returned", tcn)
      BY <2>4, OutcomesAre, ReturnKeepsGraphs DEF GraphInv
    <2>5. CASE tcn' = tighter /\ UNCHANGED <<old, unseen, result>>
      BY <2>3, <2>5 DEF GraphInv, IsGraph
    <2> QED
      BY <1>5, <2>0, <2>1, <2>4, <2>5 DEF Loosen
  <1> QED
    BY <1>2, <1>3, <1>4, <1>5

\* The actions of quantifyTime and propagate, and the shortest paths of all operations.
LEMMA OthersKeepGraphs ==
  ASSUME IInv, GraphInv,
         \/ \E k \in Points : Relax(k)
         \/ ShortestPathsThrow
         \/ QuantifyTime \/ BeginAssignment \/ AssignNext \/ AssignmentDone
         \/ Propagate \/ BeginVisits \/ VisitsDone
         \/ \E x \in unseen : Visit(x)
  PROVE  GraphInv'
  <1>1. ASSUME UNCHANGED <<tcn, old, unseen, result>> PROVE GraphInv'
    BY <1>1 DEF GraphInv, IsGraph
  <1>2. ASSUME UNCHANGED <<old, unseen, result>>, IsGraph(tcn') PROVE GraphInv'
    BY <1>2 DEF GraphInv, IsGraph
  <1>3. ASSUME UNCHANGED <<tcn, old, result>>, unseen' \subseteq Pairs \X Number PROVE GraphInv'
    BY <1>3 DEF GraphInv, IsGraph
  <1>4. IsGraph(Network) /\ IsGraph(tcn) /\ dist \in [Points \X Points -> Number]
    BY NetworkIsGraph DEF IInv, TypeInv, GraphInv
  <1>5. CASE \E k \in Points : Relax(k)
    BY <1>1, <1>5 DEF Relax
  <1>6. CASE ShortestPathsThrow
    BY <1>6, NoGraphIsGraph, OutcomesAre, ReturnKeepsGraphs DEF ShortestPathsThrow
  <1>7. CASE QuantifyTime
    <2>1. PICK c : c = StpWithConjunctiveIntervals(Network)
      OBVIOUS
    <2>2. "quantifyTime" \in client.calls /\ client \in Clients
      BY <1>7 DEF QuantifyTime, Call, IInv, TypeInv
    <2>3. \A e \in DOMAIN Network : Network[e] # {} /\ \A b \in Network[e] : 0 <= b.lo
      BY <2>2, NetworkForward, NetworkNotEmpty
    <2>4. IsGraph(c)
      BY <1>4, <2>1, <2>3, StpWithConjunctiveIntervalsIsGraph
    <2>5. IsGraph(Stp(c))
      BY <2>4, StpIsGraph
    <2>6. tcn' = Stp(c) /\ UNCHANGED <<old, unseen, result>>
      BY <1>7, <2>1 DEF QuantifyTime, Call
    <2> QED
      BY <1>2, <2>5, <2>6
  <1>8. CASE BeginAssignment
    <2>1. CASE tcn' = MinNetwork(tcn, dist) /\ UNCHANGED <<old, unseen, result>>
      <3>1. /\ pc = "paths" /\ job = "quantifyTime"
        BY <1>8 DEF BeginAssignment, HaveShortestPaths
      <3>2. IsGraph(MinNetwork(tcn, dist))
        BY <1>4, MinNetworkIsGraph
      <3> QED
        BY <1>2, <2>1, <3>2
    <2>2. CASE Return("threw", NoGraph)
      BY <2>2, NoGraphIsGraph, OutcomesAre, ReturnKeepsGraphs
    <2>3. (tcn' = MinNetwork(tcn, dist) /\ UNCHANGED <<old, unseen, result>>) \/ Return("threw", NoGraph)
      <3>1. unseen' = unseen \/ Return("threw", NoGraph)
        <4>1. CASE Cardinality(StartPoints(tcn)) = 1
          BY <1>8, <4>1 DEF BeginAssignment
        <4>2. CASE Cardinality(StartPoints(tcn)) # 1
          BY <1>8, <4>2 DEF BeginAssignment
        <4> QED
          BY <4>1, <4>2
      <3> QED
        BY <1>8, <3>1 DEF BeginAssignment
    <2> QED
      BY <2>1, <2>2, <2>3
  <1>9. CASE AssignNext
    <2>1. UNCHANGED <<tcn, old, unseen, result>> \/ Return("undefined", NoGraph)
      BY <1>9 DEF AssignNext
    <2> QED
      BY <1>1, <2>1, NoGraphIsGraph, OutcomesAre, ReturnKeepsGraphs
  <1>10. CASE AssignmentDone \/ VisitsDone
    <2>1. Return("returned", tcn)
      BY <1>10 DEF AssignmentDone, VisitsDone
    <2> QED
      BY <1>4, <2>1, OutcomesAre, ReturnKeepsGraphs
  <1>11. CASE Propagate
    BY <1>2, <1>4, <1>11 DEF Propagate, Call, BeginShortestPaths, IsGraph
  <1>12. CASE BeginVisits
    <2>1. unseen' = WeightedEdges(tcn) /\ UNCHANGED <<tcn, old, result>>
      BY <1>12 DEF BeginVisits
    <2>2. WeightedEdges(tcn) \subseteq Pairs \X Number
      BY <1>4, WeightedEdgesHold
    <2> QED
      BY <1>3, <2>1, <2>2
  <1>13. CASE \E x \in unseen : Visit(x)
    <2>1. PICK x \in unseen : Visit(x)
      BY <1>13
    <2>2. (UNCHANGED <<tcn, old, result>> /\ unseen' = unseen \ {x}) \/ Return("undefined", NoGraph)
      BY <2>1 DEF Visit
    <2>3. unseen \subseteq Pairs \X Number
      BY DEF GraphInv
    <2> QED
      BY <1>3, <2>2, <2>3, NoGraphIsGraph, OutcomesAre, ReturnKeepsGraphs
  <1> QED
    BY <1>5, <1>6, <1>7, <1>8, <1>9, <1>10, <1>11, <1>12, <1>13

LEMMA NextGraphInv ==
  ASSUME IInv, GraphInv, [Next]_vars
  PROVE  GraphInv'
  <1>1. CASE UNCHANGED vars
    BY <1>1 DEF vars, scratch, GraphInv, IsGraph
  <1>2. CASE Next
    BY <1>2, TighteningsKeepGraphs, OthersKeepGraphs DEF Next, Step
  <1> QED
    BY <1>1, <1>2

LEMMA InitGraphInv ==
  ASSUME Init
  PROVE  GraphInv
  <1>1. IsGraph(tcn) /\ IsGraph(old) /\ unseen = {}
    BY NoGraphIsGraph DEF Init
  <1>2. ASSUME NEW j \in Jobs PROVE result[j].outcome = "none" /\ result[j].graph = NoGraph
    BY DEF Init
  <1> QED
    BY <1>1, <1>2, NoGraphIsGraph, OutcomesAre DEF GraphInv

\* TypeOK holds in every reachable state: the lists of bounds that both algorithms
\* compute, by folds over the vertices as well as by hulls, are lists of bounds on
\* edges between time points.
THEOREM TypeCorrect == Spec => []TypeOK
  <1>1. Init => GraphInv
    BY InitGraphInv
  <1>2. IInv /\ GraphInv /\ [Next]_vars => GraphInv'
    BY NextGraphInv
  <1>3. IInv /\ GraphInv => TypeOK
    BY TypesTogether
  <1> QED
    BY <1>1, <1>2, <1>3, Invariance, PTL DEF Spec

\* Between the turns the network has the solutions of the input.
LooseInv ==
  /\ pc = "loose" =>
       /\ OneWay(tcn) /\ CheckConsistency(tcn)
       /\ \A a \in Valuations : KeepsOne(a, tcn) <=> KeepsOne(a, Network)
  /\ Returned("loosePathConsistency") =>
       Solutions(result["loosePathConsistency"].graph) = Solutions(Network)

\* No client of loose path consistency constrains a pair of points in both directions.
OneWayClients ==
  \A c \in Clients : "loosePathConsistency" \in c.calls =>
    \A x, y \in c.entries : x.edge # <<y.edge[2], y.edge[1]>>

LEMMA NetworkOneWay ==
  ASSUME OneWayClients, client \in Clients, "loosePathConsistency" \in client.calls
  PROVE  OneWay(Network)
  <1> SUFFICES ASSUME NEW e \in DOMAIN Network, <<e[2], e[1]>> \in DOMAIN Network PROVE FALSE
    BY DEF OneWay
  <1>0. PICK r : r = <<e[2], e[1]>>
    OBVIOUS
  <1>1. DOMAIN Network = {x.edge : x \in client.entries}
    BY DEF Network, AddIntervalConstraints
  <1>2. PICK x \in client.entries : x.edge = e
    BY <1>1
  <1>3. PICK y \in client.entries : y.edge = r
    BY <1>0, <1>1
  <1>4. y.edge # <<x.edge[2], x.edge[1]>>
    BY DEF OneWayClients
  <1> QED
    BY <1>0, <1>2, <1>3, <1>4

LEMMA NextLooseInv ==
  ASSUME OneWayClients, IInv, GraphInv, LooseInv, [Next]_vars
  PROVE  LooseInv'
  <1>0. client' = client
    BY DEF Next, Step, vars, UpperLowerTightening, LoosePathConsistency, QuantifyTime, Propagate, Call,
           Relax, ShortestPathsThrow, Return, Tighten, Intersect, Loosen, BeginAssignment, AssignNext,
           AssignmentDone, BeginVisits, VisitsDone, Visit
  <1>1. Network' = Network /\ Solutions(Network)' = Solutions(Network)
    BY <1>0, NetworkStays
  <1>2. ASSUME pc' # "loose", result' = result PROVE LooseInv'
    BY <1>1, <1>2 DEF LooseInv, Returned, Solutions
  <1>3. ASSUME NEW o, NEW g, Return(o, g), job # "loosePathConsistency" PROVE LooseInv'
    <2>1. pc' = "idle" /\ result' = [result EXCEPT ![job] = [outcome |-> o, graph |-> g]]
      BY <1>3 DEF Return
    <2>2. result'["loosePathConsistency"] = result["loosePathConsistency"]
      BY <1>3, <2>1 DEF IInv, TypeInv, Jobs
    <2> QED
      BY <1>1, <2>1, <2>2 DEF LooseInv, Returned, Solutions
  <1>4. CASE UNCHANGED vars
    BY <1>1, <1>4 DEF vars, scratch, LooseInv, Returned, Solutions, KeepsOne, OneWay, CheckConsistency
  <1>5. CASE UpperLowerTightening \/ QuantifyTime \/ Propagate
    <2>1. result' = result /\ pc' # "loose"
      BY <1>5 DEF UpperLowerTightening, QuantifyTime, Propagate, Call, BeginShortestPaths
    <2> QED
      BY <1>2, <2>1
  <1>6. CASE LoosePathConsistency
    <2>1. /\ tcn' = Network /\ result' = result
          /\ client \in Clients /\ "loosePathConsistency" \in client.calls
      BY <1>6 DEF LoosePathConsistency, Call, IInv, TypeInv
    <2>2. OneWay(Network)
      BY <2>1, NetworkOneWay
    <2>3. CheckConsistency(Network)
      BY NetworkNotEmpty DEF CheckConsistency
    <2>4. OneWay(tcn') /\ CheckConsistency(tcn') /\ tcn' = Network'
      BY <1>1, <2>1, <2>2, <2>3
    <2>5. \A a \in Valuations : KeepsOne(a, tcn') <=> KeepsOne(a, Network')
      BY <2>4
    <2>6. Returned("loosePathConsistency")' =>
            Solutions(result'["loosePathConsistency"].graph) = Solutions(Network')
      BY <1>1, <2>1 DEF LooseInv, Returned, Solutions
    <2> QED
      BY <2>4, <2>5, <2>6 DEF LooseInv, OneWay, CheckConsistency, KeepsOne, Solutions
  <1>7. CASE Loosen
    <2>0. PICK tighter : tighter = LooseIntersectionNetwork(tcn, IntersectionNetwork(tcn))
      OBVIOUS
    <2>1. /\ pc = "loose" /\ job = "loosePathConsistency"
          /\ OneWay(tcn) /\ CheckConsistency(tcn) /\ IsGraph(tcn)
          /\ \A a \in Valuations : KeepsOne(a, tcn) <=> KeepsOne(a, Network)
      BY <1>7 DEF Loosen, LooseInv, GraphInv, IInv, PhaseInv
    <2>2. CASE Return("returned", tcn)
      <3>1. pc' = "idle" /\ result' = [result EXCEPT ![job] = [outcome |-> "returned", graph |-> tcn]]
        BY <2>2 DEF Return
      <3>2. result'["loosePathConsistency"].graph = tcn
        BY <2>1, <3>1 DEF IInv, TypeInv, Jobs
      <3>3. Solutions(tcn) = Solutions(Network)
        BY <2>1 DEF Solutions, KeepsOne
      <3>4. Solutions(result'["loosePathConsistency"].graph) = Solutions(Network')
        BY <1>1, <3>2, <3>3
      <3> QED
        BY <3>1, <3>4 DEF LooseInv, Solutions
    <2>3. CASE tcn' = tighter /\ CheckConsistency(tighter) /\ UNCHANGED <<pc, result>>
      <3>1. OneWay(tighter)
        <4>1. IsGraph(IntersectionNetwork(tcn))
          BY <2>1, IntersectionNetworkIsGraph
        <4> QED
          BY <2>0, <2>1, <4>1, LooseNetworkTyped
      <3>2. \A a \in Valuations : KeepsOne(a, tcn) <=> KeepsOne(a, tighter)
        BY <2>0, <2>1, <2>3, LooseNetworkEquivalent
      <3>3. \A a \in Valuations : KeepsOne(a, tighter) <=> KeepsOne(a, Network)
        BY <2>1, <3>2
      <3>4. Returned("loosePathConsistency")' =>
              Solutions(result'["loosePathConsistency"].graph) = Solutions(Network')
        BY <1>1, <2>3 DEF LooseInv, Returned, Solutions
      <3> QED
        BY <1>1, <2>3, <3>1, <3>3, <3>4 DEF LooseInv, OneWay, CheckConsistency, KeepsOne, Solutions
    <2> QED
      BY <1>7, <2>0, <2>2, <2>3 DEF Loosen
  <1>8. CASE \/ \E k \in Points : Relax(k)
             \/ Tighten \/ BeginVisits
    <2>1. result' = result /\ pc' # "loose"
      BY <1>8 DEF Relax, Tighten, BeginVisits, BeginShortestPaths
    <2> QED
      BY <1>2, <2>1
  <1>9. CASE \/ ShortestPathsThrow \/ Intersect
             \/ BeginAssignment \/ AssignNext \/ AssignmentDone \/ VisitsDone
             \/ \E x \in unseen : Visit(x)
    <2>1. pc \in {"paths", "assign", "visit"}
      BY <1>9 DEF ShortestPathsThrow, Intersect, BeginAssignment, HaveShortestPaths, AssignNext,
                  AssignmentDone, VisitsDone, Visit
    <2>2. job # "loosePathConsistency"
      BY <2>1 DEF IInv, PhaseInv
    <2>3. (\E o, g : Return(o, g)) \/ (result' = result /\ pc' # "loose")
      <3>1. CASE ShortestPathsThrow \/ AssignmentDone \/ VisitsDone
        BY <3>1 DEF ShortestPathsThrow, AssignmentDone, VisitsDone
      <3>2. CASE Intersect
        BY <3>2 DEF Intersect
      <3>3. CASE BeginAssignment
        BY <3>3 DEF BeginAssignment
      <3>4. CASE AssignNext
        BY <2>1, <3>4 DEF AssignNext
      <3>5. CASE \E x \in unseen : Visit(x)
        BY <2>1, <3>5 DEF Visit
      <3> QED
        BY <1>9, <3>1, <3>2, <3>3, <3>4, <3>5
    <2> QED
      BY <1>2, <1>3, <2>2, <2>3
  <1> QED
    BY <1>4, <1>5, <1>6, <1>7, <1>8, <1>9 DEF Next, Step

\* The network of loose path consistency keeps exactly the solutions of its input, for
\* clients that do not constrain a pair of points in both directions (the bounds of
\* opposite edges would be read as alternatives).
THEOREM LooseConsistencyEquivalent ==
  ASSUME OneWayClients
  PROVE  Spec => []LooseConsistencyIsEquivalent
  <1>1. Init => GraphInv /\ LooseInv
    <2> SUFFICES ASSUME Init PROVE GraphInv /\ LooseInv
      OBVIOUS
    <2>1. pc = "idle" /\ result["loosePathConsistency"].outcome = "none"
      BY DEF Init, Jobs
    <2> QED
      BY <2>1, InitGraphInv DEF LooseInv, Returned
  <1>2. IInv /\ GraphInv /\ LooseInv /\ [Next]_vars => (GraphInv /\ LooseInv)'
    BY NextGraphInv, NextLooseInv
  <1>3. IInv /\ LooseInv => LooseConsistencyIsEquivalent
    <2> SUFFICES ASSUME IInv, LooseInv PROVE LooseConsistencyIsEquivalent
      OBVIOUS
    <2>1. ASSUME Tightening("loosePathConsistency") PROVE Solutions(tcn) = Solutions(Network)
      <3>1. pc = "loose"
        BY <2>1 DEF Tightening, IInv, PhaseInv
      <3> QED
        BY <3>1 DEF LooseInv, Solutions, KeepsOne
    <2> QED
      BY <2>1 DEF LooseInv, LooseConsistencyIsEquivalent
  <1> QED
    BY <1>1, <1>2, <1>3, Invariance, PTL DEF Spec

-----------------------------------------------------------------------------
(***************************************************************************)
(* Loose path consistency and Upper-Lower-Tightening                       *)
(***************************************************************************)

\* Sums that saturate are monotone, odd and commutative.
LEMMA PlusMonotone ==
  ASSUME NEW x \in Number, NEW y \in Number, NEW v \in Number, NEW w \in Number, x <= v, y <= w
  PROVE  Plus(x, y) <= Plus(v, w)
  <1>1. Inf \in Int /\ Inf > 0 /\ x \in Int /\ y \in Int /\ v \in Int /\ w \in Int
        /\ -Inf <= x /\ x <= Inf /\ -Inf <= y /\ y <= Inf
        /\ -Inf <= v /\ v <= Inf /\ -Inf <= w /\ w <= Inf
    BY InfAssumption DEF Number
  <1>2. ASSUME NEW p \in Int, NEW q \in Int, -Inf <= p, p <= Inf, -Inf <= q, q <= Inf
        PROVE  /\ p # Inf /\ p # -Inf /\ q # Inf /\ q # -Inf =>
                    Plus(p, q) = IF p + q > Inf THEN Inf ELSE IF p + q < -Inf THEN -Inf ELSE p + q
               /\ p = Inf /\ q = -Inf => Plus(p, q) = 0
               /\ p = -Inf /\ q = Inf => Plus(p, q) = 0
               /\ p = Inf /\ q # -Inf => Plus(p, q) = Inf
               /\ q = Inf /\ p # -Inf => Plus(p, q) = Inf
               /\ p = -Inf /\ q # Inf => Plus(p, q) = -Inf
               /\ q = -Inf /\ p # Inf => Plus(p, q) = -Inf
    <2>1. Inf # -Inf /\ Inf # 0 /\ -Inf # 0
      BY <1>1
    <2>2. Inf \in {p, q} <=> p = Inf \/ q = Inf
      OBVIOUS
    <2>3. {-Inf, Inf} \subseteq {p, q} <=> (p = Inf /\ q = -Inf) \/ (p = -Inf /\ q = Inf)
      BY <2>1
    <2>4. {p, q} \cap {Inf, -Inf} = {} <=> p # Inf /\ p # -Inf /\ q # Inf /\ q # -Inf
      OBVIOUS
    <2>5. CASE p # Inf /\ p # -Inf /\ q # Inf /\ q # -Inf
      BY <2>4, <2>5, Zenon DEF Plus
    <2>6. CASE ~ (p # Inf /\ p # -Inf /\ q # Inf /\ q # -Inf)
      <3>1. Plus(p, q) = IF {-Inf, Inf} \subseteq {p, q} THEN 0
                         ELSE IF Inf \in {p, q} THEN Inf ELSE -Inf
        BY <2>4, <2>6, Zenon DEF Plus
      <3> HIDE DEF Plus
      <3>2. CASE {-Inf, Inf} \subseteq {p, q}
        BY <2>1, <2>3, <3>1, <3>2
      <3>3. CASE ~ {-Inf, Inf} \subseteq {p, q}
        <4>1. Plus(p, q) = IF Inf \in {p, q} THEN Inf ELSE -Inf
          BY <3>1, <3>3, Zenon
        <4>2. Plus(p, q) = IF p = Inf \/ q = Inf THEN Inf ELSE -Inf
          BY <2>2, <4>1
        <4> QED
          BY <2>1, <2>3, <2>6, <3>3, <4>2
      <3> QED
        BY <3>2, <3>3
    <2> QED
      BY <2>1, <2>5, <2>6
  <1> QED
    BY <1>1, <1>2

LEMMA PlusOdd ==
  ASSUME NEW x \in Number, NEW y \in Number
  PROVE  -Plus(x, y) = Plus(-y, -x)
  BY InfAssumption DEF Plus, Number

\* What is not negative lowers no sum.
LEMMA PlusRaises ==
  ASSUME NEW x \in Number, NEW y \in Number, 0 <= x
  PROVE  y <= Plus(x, y) /\ y <= Plus(y, x)
  BY InfAssumption DEF Plus, Number

Within(b, c) == c.lo <= b.lo /\ b.hi <= c.hi

LEMMA BoundsAre == \A b \in Bounds : b.lo \in Number /\ b.hi \in Number /\ b.lo \in Int /\ b.hi \in Int
  BY DEF Bounds, Number

LEMMA WithinThrough ==
  ASSUME NEW b \in Bounds, NEW c \in Bounds, NEW d \in Bounds, Within(b, c), Within(c, d)
  PROVE  Within(b, d)
  BY BoundsAre DEF Within

Turned(b) == [lo |-> -b.hi, hi |-> -b.lo]

LEMMA TurnedFacts ==
  ASSUME NEW b \in Bounds
  PROVE  /\ Turned(b) \in Bounds /\ Turned(b).lo = -b.hi /\ Turned(b).hi = -b.lo
         /\ Turned(Turned(b)) = b
         /\ IsValid(b) => IsValid(Turned(b))
  <1>1. b.lo \in Int /\ b.hi \in Int /\ b = [lo |-> b.lo, hi |-> b.hi]
    BY BoundsAre DEF Bounds
  <1>2. -b.lo \in Number /\ -b.hi \in Number /\ -(-b.lo) = b.lo /\ -(-b.hi) = b.hi
    BY <1>1, InfAssumption, BoundsAre DEF Number
  <1> QED
    BY <1>1, <1>2 DEF Turned, IsValid, Bounds

LEMMA TurnedWithin ==
  ASSUME NEW b \in Bounds, NEW c \in Bounds, Within(b, c)
  PROVE  Within(Turned(b), Turned(c))
  BY BoundsAre, TurnedFacts DEF Within

\* From t to s there are the bounds from s to t, turned round.
LEMMA BothWaysTurned ==
  ASSUME NEW g, IsGraph(g), NEW s, NEW t
  PROVE  /\ BothWays(g, t, s) = ReverseBounds(BothWays(g, s, t))
         /\ \A b : b \in BothWays(g, s, t) => Turned(b) \in BothWays(g, t, s)
  <1>1. PICK S : S = Intervals(g, s, t)
    OBVIOUS
  <1>2. PICK T : T = Intervals(g, t, s)
    OBVIOUS
  <1>3. S \subseteq Bounds /\ T \subseteq Bounds
    BY <1>1, <1>2, IntervalsTyped
  <1>4. ReverseBounds(T) = {Turned(b) : b \in T} /\ ReverseBounds(S) = {Turned(b) : b \in S}
        /\ ReverseBounds(S \cup ReverseBounds(T)) = {Turned(b) : b \in S \cup ReverseBounds(T)}
    BY DEF ReverseBounds, Turned
  <1>5. \A b \in S \cup T : Turned(Turned(b)) = b
    BY <1>3, TurnedFacts
  <1>6. T \cup ReverseBounds(S) = ReverseBounds(S \cup ReverseBounds(T))
    BY <1>4, <1>5
  <1>7. BothWays(g, s, t) = S \cup ReverseBounds(T) /\ BothWays(g, t, s) = T \cup ReverseBounds(S)
    BY <1>1, <1>2 DEF BothWays
  <1> QED
    BY <1>4, <1>6, <1>7

\* Every bound of a composition begins and ends where a sum does.
LEMMA CompositionEnds ==
  ASSUME NEW S, S \subseteq Bounds, NEW T, T \subseteq Bounds, NEW c \in Composition(S, T)
  PROVE  /\ \E a \in S, b \in T : c.lo = Plus(a.lo, b.lo)
         /\ \E a \in S, b \in T : c.hi = Plus(a.hi, b.hi)
  <1> DEFINE Sums == {[lo |-> Plus(a.lo, b.lo), hi |-> Plus(a.hi, b.hi)] : a \in S, b \in T}
             list == {e \in Sums : IsValid(e)}
             Starts == {b \in list : \A e \in list : Overlaps(b, e) => b.lo <= e.lo}
             Group(b) == {e \in list : b.lo <= e.lo /\ \A d \in Starts : b.lo < d.lo => e.lo < d.lo}
  <1>1. Composition(S, T) = DisjointIntervals(list)
    BY DEF Composition
  <1>2. DisjointIntervals(list) = {Hull(Group(b)) : b \in Starts}
    BY DEF DisjointIntervals
  <1>3. Sums \subseteq Bounds
    BY BoundsAre, PlusIsNumber DEF Bounds
  <1>4. PICK b \in Starts : c = Hull(Group(b))
    <2> HIDE DEF Starts, Group, list
    <2> QED
      BY <1>1, <1>2
  <1>5. b \in Group(b) /\ Group(b) \subseteq Sums
    <2>1. b \in list /\ b.lo \in Int
      BY <1>3, BoundsAre
    <2> QED
      BY <2>1
  <1>6. \A e \in Sums : \E x \in S, y \in T : e.lo = Plus(x.lo, y.lo) /\ e.hi = Plus(x.hi, y.hi)
    OBVIOUS
  <1> HIDE DEF Group, Sums
  <1>7. /\ \E e \in Group(b) : c.lo = e.lo
        /\ \E e \in Group(b) : c.hi = e.hi
    BY <1>3, <1>4, <1>5, HullTyped
  <1> QED
    BY <1>5, <1>6, <1>7

\* What every step of the fold adds to what the steps before it have left.
LEMMA FoldKeepsUpTo ==
  ASSUME NEW g, IsGraph(g), NEW s, NEW t, NEW L, {} \in L[{}],
         \A x \in SUBSET (Vertices(g) \ {s, t}) : \A k \in x : \A list \in L[x \ {k}] :
            Met(g, s, t, k, list) \in L[x]
  PROVE  ThroughThird(g, s, t) \in L[Vertices(g) \ {s, t}]
  <1>0. PICK V : V = Vertices(g) \ {s, t}
    OBVIOUS
  <1>1. V \subseteq Int /\ IsFiniteSet(V)
    BY <1>0, VerticesArePoints, PointsAssumption, FS_Subset
  <1>3. \E h : IsFold(g, s, t, V, h)
    BY <1>1, FoldExists
  <1> DEFINE f == CHOOSE h : IsFold(g, s, t, V, h)
             T == {Cardinality(x) : x \in {z \in SUBSET V : f[z] \notin L[z]}}
  <1>2. ThroughThird(g, s, t) = f[V]
    BY <1>0, ThroughThirdIsFold
  <1> HIDE DEF f, T
  <1>4. f = [x \in SUBSET V |-> MetUpTo(g, s, t, f, x)]
    BY <1>3 DEF f, IsFold
  <1>5. \A x \in SUBSET V : f[x] = MetUpTo(g, s, t, f, x)
    BY <1>4
  <1>6. \A x \in SUBSET V : IsFiniteSet(x) /\ Cardinality(x) \in Nat
    BY <1>1, FS_Subset, FS_CardinalityType
  <1>7. T = {}
    <2> USE DEF T
    <2> SUFFICES ASSUME T # {} PROVE FALSE
      OBVIOUS
    <2>1. T \subseteq Nat
      BY <1>6
    <2>2. PICK n \in T : \A k \in T : n <= k
      BY <2>1, LeastNatural
    <2>3. PICK x \in SUBSET V : f[x] \notin L[x] /\ n = Cardinality(x)
      BY <2>2
    <2>4. x # {}
      BY <1>5, <2>3 DEF MetUpTo
    <2> DEFINE k == Max(x)
               rest == x \ {k}
    <2>5. k \in x
      BY <1>1, <1>6, <2>4, MaxOfFinite
    <2>8. f[x] = Met(g, s, t, k, f[rest])
      BY <1>5, <2>4 DEF MetUpTo
    <2> HIDE DEF k
    <2>6. Cardinality(rest) = Cardinality(x) - 1
      BY <1>6, <2>5, FS_RemoveElement
    <2>7. f[rest] \in L[rest]
      <3>1. SUFFICES ASSUME f[rest] \notin L[rest] PROVE FALSE
        OBVIOUS
      <3>2. Cardinality(rest) \in T
        BY <3>1
      <3> HIDE DEF T
      <3> QED
        BY <1>6, <2>2, <2>3, <2>6, <3>2
    <2>9. Met(g, s, t, k, f[rest]) \in L[x]
      BY <1>0, <2>5, <2>7
    <2> QED
      BY <2>3, <2>8, <2>9
  <1> QED
    BY <1>0, <1>2, <1>7 DEF T

\* Every pair of points is constrained.
Complete(g) == \A s, t \in Points : s # t => BothWays(g, s, t) # {}

LEMMA CompleteVertices ==
  ASSUME NEW g, IsGraph(g), Complete(g), NEW s \in Points, NEW t \in Points, s # t
  PROVE  s \in Vertices(g) /\ t \in Vertices(g)
  <1>1. BothWays(g, s, t) # {}
    BY DEF Complete
  <1>2. <<s, t>> \in DOMAIN g \/ <<t, s>> \in DOMAIN g
    BY <1>1 DEF BothWays, Intervals, ReverseBounds
  <1>3. CASE <<s, t>> \in DOMAIN g
    <2>1. PICK e \in DOMAIN g : e = <<s, t>>
      BY <1>3
    <2>2. e[1] = s /\ e[2] = t
      BY <2>1
    <2> QED
      BY <2>2 DEF Vertices
  <1>4. CASE <<t, s>> \in DOMAIN g
    <2>1. PICK e \in DOMAIN g : e = <<t, s>>
      BY <1>4
    <2>2. e[1] = t /\ e[2] = s
      BY <2>1
    <2> QED
      BY <2>2 DEF Vertices
  <1> QED
    BY <1>2, <1>3, <1>4

\* What a solution keeps of two edges it keeps of their composition.
LEMMA PathOverHolds ==
  ASSUME NEW g, IsGraph(g), Complete(g), NEW a \in Valuations, KeepsOne(a, g),
         NEW s \in Points, NEW t \in Points, NEW k \in Points, k # s, k # t
  PROVE  PathOver(g, s, t, k) \subseteq Bounds /\ Holds(PathOver(g, s, t, k), a[t] - a[s])
  <1>2. PICK S : S = BothWays(g, s, k)
    OBVIOUS
  <1>3. PICK T : T = BothWays(g, k, t)
    OBVIOUS
  <1>4. S \subseteq Bounds /\ T \subseteq Bounds
    BY <1>2, <1>3, BothWaysTyped
  <1>5. PICK P : P = Composition(S, T)
    OBVIOUS
  <1>6. S # {} /\ T # {}
    BY <1>2, <1>3 DEF Complete
  <1>7. Holds(S, a[k] - a[s]) /\ Holds(T, a[t] - a[k])
    BY <1>2, <1>3, <1>6, BothWaysHold
  <1>8. PICK x : x = a[k] - a[s]
    OBVIOUS
  <1>9. PICK y : y = a[t] - a[k]
    OBVIOUS
  <1>10. /\ x \in Int /\ y \in Int /\ x + y = a[t] - a[s]
         /\ -Inf < x /\ x < Inf /\ -Inf < y /\ y < Inf /\ -Inf < x + y /\ x + y < Inf
    <2>1. a[s] \in Int /\ a[t] \in Int /\ a[k] \in Int
      BY DiffBounded
    <2>2. /\ -Inf < x /\ x < Inf /\ -Inf < y /\ y < Inf
          /\ -Inf < a[t] - a[s] /\ a[t] - a[s] < Inf
      BY <1>8, <1>9, DiffBounded
    <2>3. x \in Int /\ y \in Int /\ x + y = a[t] - a[s]
      BY <1>8, <1>9, <2>1
    <2> QED
      BY <2>2, <2>3
  <1>11. P \subseteq Bounds /\ Holds(P, x + y)
    BY <1>4, <1>5, <1>7, <1>8, <1>9, <1>10, CompositionKeeps
  <1> QED
    BY <1>2, <1>3, <1>5, <1>10, <1>11 DEF PathOver

LEMMA IntersectionWithin ==
  ASSUME NEW S, S \subseteq Bounds, NEW T, T \subseteq Bounds, NEW c \in Intersection(S, T)
  PROVE  /\ c \in Bounds /\ IsValid(c)
         /\ \E b \in S : Within(c, b)
         /\ \E b \in T : Within(c, b)
  <1>1. PICK b \in S, d \in T : c = Common(b, d) /\ IsValid(c)
    BY DEF Intersection
  <1>2. b.lo \in Int /\ b.hi \in Int /\ d.lo \in Int /\ d.hi \in Int
    BY DEF Bounds, Number
  <1>3. Within(c, b) /\ Within(c, d)
    BY <1>1, <1>2 DEF Common, Larger, Smaller, Within
  <1> QED
    BY <1>1, <1>3, IntersectionKeeps

\* On a complete network with a solution, what the paths over third vertices leave
\* possible is within each of them.
LEMMA ThroughThirdWithin ==
  ASSUME NEW g, IsGraph(g), Complete(g), NEW a \in Valuations, KeepsOne(a, g),
         NEW s \in Points, NEW t \in Points, s # t, Vertices(g) \ {s, t} # {}
  PROVE  /\ ThroughThird(g, s, t) \subseteq Bounds
         /\ Holds(ThroughThird(g, s, t), a[t] - a[s])
         /\ \A k \in Vertices(g) \ {s, t} : \A b \in ThroughThird(g, s, t) :
              \E c \in PathOver(g, s, t, k) : Within(b, c)
  <1>0. PICK V : V = Vertices(g) \ {s, t}
    OBVIOUS
  <1> DEFINE Cut(x, l) == /\ Holds(l, a[t] - a[s])
                          /\ \A k \in x : \A b \in l : \E c \in PathOver(g, s, t, k) : Within(b, c)
             L == [x \in SUBSET V |-> {l \in SUBSET Bounds : IF x = {} THEN l = {} ELSE Cut(x, l)}]
  <1>1. ASSUME NEW x \in SUBSET V, NEW k \in x, NEW list \in L[x \ {k}]
        PROVE  Met(g, s, t, k, list) \in L[x]
    <2>1. k \in Points /\ k # s /\ k # t
      BY <1>0, VerticesArePoints
    <2>2. PICK P : P = PathOver(g, s, t, k)
      OBVIOUS
    <2>3. P \subseteq Bounds /\ Holds(P, a[t] - a[s])
      BY <2>1, <2>2, PathOverHolds
    <2>4. P # {}
      BY <2>3 DEF Holds
    <2>5. x \ {k} \in SUBSET V /\ list \subseteq Bounds
          /\ IF x \ {k} = {} THEN list = {} ELSE Cut(x \ {k}, list)
      OBVIOUS
    <2>6. CASE x \ {k} = {}
      <3>1. Met(g, s, t, k, list) = P
        BY <2>2, <2>5, <2>6 DEF Met
      <3>2. \A b \in P : Within(b, b)
        BY <2>3, BoundsAre DEF Within
      <3>3. \A m \in x : m = k
        BY <2>6
      <3>4. Cut(x, P)
        BY <2>2, <2>3, <3>2, <3>3
      <3> HIDE DEF Cut
      <3> QED
        BY <2>3, <3>1, <3>4
    <2>7. CASE x \ {k} # {}
      <3>1. PICK M : M = Intersection(list, P)
        OBVIOUS
      <3>2. Cut(x \ {k}, list)
        BY <2>5, <2>7
      <3>3. list # {}
        BY <3>2 DEF Holds
      <3>4. Met(g, s, t, k, list) = M
        BY <2>2, <2>4, <3>1, <3>3 DEF Met
      <3>5. a[t] - a[s] \in Int
        BY DiffBounded
      <3>6. M \subseteq Bounds /\ Holds(M, a[t] - a[s])
        BY <2>3, <2>5, <3>1, <3>2, <3>5, IntersectionKeeps
      <3>7. ASSUME NEW m \in x, NEW b \in M PROVE \E c \in PathOver(g, s, t, m) : Within(b, c)
        <4>1. b \in Bounds /\ (\E c \in list : Within(b, c)) /\ \E c \in P : Within(b, c)
          BY <2>3, <2>5, <3>1, IntersectionWithin
        <4>2. CASE m = k
          BY <2>2, <4>1, <4>2
        <4>3. CASE m # k
          <5>1. PICK d \in list : Within(b, d)
            BY <4>1
          <5>2. PICK c \in PathOver(g, s, t, m) : Within(d, c)
            BY <3>2, <4>3
          <5>3. m \in Points /\ m # s /\ m # t
            BY <1>0, VerticesArePoints
          <5>4. c \in Bounds /\ d \in Bounds
            BY <2>5, <5>3, PathOverHolds
          <5> QED
            BY <4>1, <5>1, <5>2, <5>4, WithinThrough
        <4> QED
          BY <4>2, <4>3
      <3>8. Cut(x, M)
        BY <3>6, <3>7
      <3> HIDE DEF Cut
      <3> QED
        BY <3>4, <3>6, <3>8
    <2> QED
      BY <2>6, <2>7
  <1>2. {} \in L[{}]
    OBVIOUS
  <1>3. V \in SUBSET V /\ V # {}
    BY <1>0
  <1>4. ThroughThird(g, s, t) \in L[V]
    <2> HIDE DEF L
    <2> QED
      BY <1>0, <1>1, <1>2, FoldKeepsUpTo
  <1>5. ThroughThird(g, s, t) \in SUBSET Bounds /\ Cut(V, ThroughThird(g, s, t))
    <2> HIDE DEF Cut
    <2> QED
      BY <1>3, <1>4
  <1> QED
    BY <1>0, <1>5

\* Between two points, the turned edges say what is left of the bounds.
LEMMA LooseNetworkBothWays ==
  ASSUME NEW g, IsGraph(g), NEW h, IsGraph(h), NEW n, n = LooseIntersectionNetwork(g, h),
         NEW p \in ForwardPairs(g)
  PROVE  BothWays(n, p[1], p[2]) = Kept(g, h, p[1], p[2])
  <1>1. PICK s : s = p[1]
    OBVIOUS
  <1>2. PICK t : t = p[2]
    OBVIOUS
  <1>3. p = <<s, t>>
    BY <1>1, <1>2, ForwardPairFacts
  <1>4. PICK K : K = Kept(g, h, s, t)
    OBVIOUS
  <1>5. K \subseteq Bounds
    BY <1>4, KeptTyped
  <1>6. OneWay(n)
    BY LooseNetworkTyped
  <1>7. CASE p \in DOMAIN n /\ n[p] = Kept(g, h, p[1], p[2])
    <2>1. <<t, s>> \notin DOMAIN n
      BY <1>1, <1>2, <1>6, <1>7 DEF OneWay
    <2>2. Intervals(n, s, t) = K /\ Intervals(n, t, s) = {}
      BY <1>1, <1>2, <1>3, <1>4, <1>7, <2>1 DEF Intervals
    <2> QED
      BY <1>1, <1>2, <1>4, <2>2 DEF BothWays, ReverseBounds
  <1>8. CASE <<p[2], p[1]>> \in DOMAIN n /\ n[<<p[2], p[1]>>] = ReverseBounds(Kept(g, h, p[1], p[2]))
    <2>1. PICK r : r = <<t, s>>
      OBVIOUS
    <2>2. r \in DOMAIN n /\ r[1] = t /\ r[2] = s /\ n[r] = ReverseBounds(K)
      BY <1>1, <1>2, <1>4, <1>8, <2>1
    <2>3. <<s, t>> \notin DOMAIN n
      BY <1>6, <2>2 DEF OneWay
    <2>4. Intervals(n, s, t) = {} /\ Intervals(n, t, s) = ReverseBounds(K)
      BY <2>1, <2>2, <2>3 DEF Intervals
    <2>5. BothWays(n, s, t) = ReverseBounds(ReverseBounds(K))
      BY <2>4 DEF BothWays
    <2>6. ReverseBounds(K) = {Turned(b) : b \in K} /\ ReverseBounds(ReverseBounds(K)) = {Turned(b) : b \in ReverseBounds(K)}
      BY DEF ReverseBounds, Turned
    <2>7. \A b \in K : Turned(Turned(b)) = b
      BY <1>5, TurnedFacts
    <2>8. ReverseBounds(ReverseBounds(K)) = K
      BY <2>6, <2>7
    <2> QED
      BY <1>1, <1>2, <1>4, <2>5, <2>8
  <1> QED
    BY <1>7, <1>8, LooseNetworkPair

LEMMA LooseIntersectionWithin ==
  ASSUME NEW S, S \subseteq Bounds, NEW T, T \subseteq Bounds, NEW h \in LooseIntersection(S, T)
  PROVE  /\ h \in Bounds /\ IsValid(h)
         /\ \E b \in S : Within(h, b)
         /\ \E b \in T : h.lo >= b.lo
         /\ \E b \in T : h.hi <= b.hi
  <1>1. PICK a \in S : h = Hull(Intersection({a}, T)) /\ Intersection({a}, T) # {}
    BY DEF LooseIntersection
  <1>2. PICK A : A = {a}
    OBVIOUS
  <1>3. PICK I : I = Intersection(A, T)
    OBVIOUS
  <1>4. A \subseteq Bounds
    BY <1>2
  <1>5. I \subseteq Bounds /\ I # {} /\ h = Hull(I)
    BY <1>1, <1>2, <1>3, <1>4, IntersectionKeeps
  <1>6. \A c \in I : IsValid(c) /\ Within(c, a) /\ \E b \in T : Within(c, b)
    BY <1>2, <1>3, <1>4, IntersectionWithin
  <1>7. PICK c \in I : h.lo = c.lo
    BY <1>5, HullTyped
  <1>8. PICK d \in I : h.hi = d.hi
    BY <1>5, HullTyped
  <1>9. h \in Bounds /\ h.lo <= c.lo /\ c.hi <= h.hi
    BY <1>5, HullTyped
  <1>10. IsValid(h)
    BY <1>5, <1>6, <1>9, BoundsAre DEF IsValid
  <1>11. Within(h, a)
    BY <1>6, <1>7, <1>8 DEF Within
  <1>12. (\E b \in T : h.lo >= b.lo) /\ \E b \in T : h.hi <= b.hi
    <2>1. PICK x \in T : Within(c, x)
      BY <1>6
    <2>2. PICK y \in T : Within(d, y)
      BY <1>6
    <2>3. x.lo <= h.lo /\ h.hi <= y.hi
      BY <1>7, <1>8, <2>1, <2>2 DEF Within
    <2>4. x.lo \in Int /\ h.lo \in Int
      BY <1>9, BoundsAre
    <2> QED
      BY <2>3, <2>4
  <1> QED
    BY <1>9, <1>10, <1>11, <1>12

\* A turn on a complete network with a solution: it finds no contradiction, bounds are only
\* narrowed, and those of a pair end within every path over a third point.
LEMMA LooseTurn ==
  ASSUME NEW g, IsGraph(g), Complete(g), NEW a \in Valuations, KeepsOne(a, g),
         Cardinality(Points) > 2, NEW n, n = LooseIntersectionNetwork(g, IntersectionNetwork(g)),
         NEW s \in Points, NEW t \in Points, s < t
  PROVE  /\ BothWays(n, s, t) # {}
         /\ \A b \in BothWays(n, s, t) :
              /\ IsValid(b)
              /\ \E c \in BothWays(g, s, t) : Within(b, c)
              /\ \A k \in Points \ {s, t} :
                   /\ \E c \in PathOver(g, s, t, k) : b.lo >= c.lo
                   /\ \E c \in PathOver(g, s, t, k) : b.hi <= c.hi
  <1>0. s # t
    BY PointsAreOrdered
  <1>1. PICK h : h = IntersectionNetwork(g)
    OBVIOUS
  <1>2. IsGraph(h) /\ DOMAIN h = ForwardPairs(g)
    BY <1>1, IntersectionNetworkIsGraph DEF ForwardPairs
  <1>3. PICK p : p = <<s, t>>
    OBVIOUS
  <1>4. p \in ForwardPairs(g) /\ p[1] = s /\ p[2] = t
    BY <1>0, <1>3, CompleteVertices DEF ForwardPairs
  <1>5. PICK T : T = ThroughThird(g, s, t)
    OBVIOUS
  <1>6. h[p] = T
    <2>1. h = [e \in ForwardPairs(g) |-> ThroughThird(g, e[1], e[2])]
      BY <1>1 DEF IntersectionNetwork, ForwardPairs
    <2> QED
      BY <1>4, <1>5, <2>1
  <1>7. BothWays(h, s, t) = T
    <2>1. PICK r : r = <<t, s>>
      OBVIOUS
    <2>2. r \notin DOMAIN h
      <3>1. r[1] = t /\ r[2] = s
        BY <2>1
      <3> QED
        BY <1>2, <3>1, ForwardPairFacts, PointsAreOrdered
    <2>3. Intervals(h, s, t) = T /\ Intervals(h, t, s) = {}
      BY <1>2, <1>3, <1>4, <1>6, <2>1, <2>2 DEF Intervals
    <2> QED
      BY <2>3 DEF BothWays, ReverseBounds
  <1>8. PICK k0 \in Points : k0 # s /\ k0 # t
    <2>1. SUFFICES ASSUME Points \subseteq {s, t} PROVE FALSE
      OBVIOUS
    <2>2. Points = {s, t}
      BY <2>1
    <2>3. Cardinality({s, t}) = 2
      <3>1. IsFiniteSet({s}) /\ Cardinality({s}) = 1
        BY FS_Singleton
      <3>2. Cardinality({s} \cup {t}) = Cardinality({s}) + 1
        BY <1>0, <3>1, FS_AddElement
      <3>3. {s} \cup {t} = {s, t}
        OBVIOUS
      <3> QED
        BY <3>1, <3>2, <3>3
    <2> QED
      BY <2>2, <2>3
  <1>9. \A k \in Points \ {s, t} : k \in Vertices(g) \ {s, t}
    BY CompleteVertices
  <1>10. /\ T \subseteq Bounds
         /\ Holds(T, a[t] - a[s])
         /\ \A k \in Vertices(g) \ {s, t} : \A b \in T : \E c \in PathOver(g, s, t, k) : Within(b, c)
    BY <1>0, <1>5, <1>8, <1>9, ThroughThirdWithin
  <1>11. PICK S : S = BothWays(g, s, t)
    OBVIOUS
  <1>12. S \subseteq Bounds /\ S # {} /\ Holds(S, a[t] - a[s])
    BY <1>0, <1>11, BothWaysTyped, BothWaysHold DEF Complete
  <1>13. BothWays(n, s, t) = LooseIntersection(S, T)
    BY <1>1, <1>2, <1>4, <1>7, <1>11, <1>12, LooseNetworkBothWays DEF Kept
  <1>14. LooseIntersection(S, T) # {}
    <2>1. a[t] - a[s] \in Int /\ a[t] - a[s] < Inf
      BY DiffBounded
    <2>2. Holds(LooseIntersection(S, T), a[t] - a[s])
      BY <1>10, <1>12, <2>1, LooseIntersectionKeeps
    <2> QED
      BY <2>2 DEF Holds
  <1>15. ASSUME NEW b \in LooseIntersection(S, T)
         PROVE  /\ IsValid(b)
                /\ \E c \in S : Within(b, c)
                /\ \A k \in Points \ {s, t} :
                     /\ \E c \in PathOver(g, s, t, k) : b.lo >= c.lo
                     /\ \E c \in PathOver(g, s, t, k) : b.hi <= c.hi
    <2>1. b \in Bounds /\ IsValid(b) /\ \E c \in S : Within(b, c)
      BY <1>10, <1>12, LooseIntersectionWithin
    <2>2. PICK x \in T : b.lo >= x.lo
      BY <1>10, <1>12, LooseIntersectionWithin
    <2>3. PICK y \in T : b.hi <= y.hi
      BY <1>10, <1>12, LooseIntersectionWithin
    <2>4. ASSUME NEW k \in Points \ {s, t}
          PROVE  /\ \E c \in PathOver(g, s, t, k) : b.lo >= c.lo
                 /\ \E c \in PathOver(g, s, t, k) : b.hi <= c.hi
      <3>1. PICK c \in PathOver(g, s, t, k) : Within(x, c)
        BY <1>9, <1>10
      <3>2. PICK d \in PathOver(g, s, t, k) : Within(y, d)
        BY <1>9, <1>10
      <3>3. c \in Bounds /\ d \in Bounds /\ x \in Bounds /\ y \in Bounds
        BY <1>10, PathOverHolds
      <3>4. b.lo >= c.lo /\ b.hi <= d.hi
        BY <2>1, <2>2, <2>3, <3>1, <3>2, <3>3, BoundsAre DEF Within
      <3> QED
        BY <3>4
    <2> QED
      BY <2>1, <2>4
  <1> QED
    BY <1>11, <1>13, <1>14, <1>15

\* A network whose bounds end within every sum over a third point: no shortest paths could
\* narrow it.
Tight(g) ==
  /\ IsGraph(g)
  /\ \A s, t \in Points : s # t => \A b \in BothWays(g, s, t) :
       /\ IsValid(b)
       /\ \A k \in Points \ {s, t} :
            \E c \in BothWays(g, s, k), d \in BothWays(g, k, t) : b.hi <= Plus(c.hi, d.hi)

LEMMA TurnEndsTight ==
  ASSUME NEW g, IsGraph(g), Complete(g), NEW a \in Valuations, KeepsOne(a, g),
         Cardinality(Points) > 2, Equals(g, LooseIntersectionNetwork(g, IntersectionNetwork(g)))
  PROVE  Tight(g)
  <1>1. PICK n : n = LooseIntersectionNetwork(g, IntersectionNetwork(g))
    OBVIOUS
  <1>2. ASSUME NEW s \in Points, NEW t \in Points, s < t, NEW b \in BothWays(g, s, t)
        PROVE  /\ IsValid(b)
               /\ \A k \in Points \ {s, t} :
                    /\ \E c \in PathOver(g, s, t, k) : b.lo >= c.lo
                    /\ \E c \in PathOver(g, s, t, k) : b.hi <= c.hi
    <2>1. s # t
      BY <1>2, PointsAreOrdered
    <2>2. s \in Vertices(g) /\ t \in Vertices(g)
      BY <2>1, CompleteVertices
    <2>3. b \in BothWays(n, s, t)
      BY <1>1, <1>2, <2>2 DEF Equals, BoundsEqual
    <2> QED
      BY <1>1, <1>2, <2>3, LooseTurn
  <1>3. ASSUME NEW s \in Points, NEW t \in Points, s # t, NEW b \in BothWays(g, s, t)
        PROVE  /\ IsValid(b)
               /\ \A k \in Points \ {s, t} :
                    \E c \in BothWays(g, s, k), d \in BothWays(g, k, t) : b.hi <= Plus(c.hi, d.hi)
    <2>1. b \in Bounds
      BY BothWaysTyped
    <2>2. CASE s < t
      <3>1. ASSUME NEW k \in Points \ {s, t}
            PROVE  \E c \in BothWays(g, s, k), d \in BothWays(g, k, t) : b.hi <= Plus(c.hi, d.hi)
        <4>1. PICK e \in PathOver(g, s, t, k) : b.hi <= e.hi
          BY <1>2, <2>2
        <4>2. PICK c \in BothWays(g, s, k), d \in BothWays(g, k, t) : e.hi = Plus(c.hi, d.hi)
          BY BothWaysTyped, CompositionEnds DEF PathOver
        <4> QED
          BY <4>1, <4>2
      <3> QED
        BY <1>2, <2>2, <3>1
    <2>3. CASE t < s
      <3>0. PICK r : r = Turned(b)
        OBVIOUS
      <3>1. r \in BothWays(g, t, s) /\ r.lo = -b.hi /\ r \in Bounds /\ Turned(r) = b
        BY <2>1, <3>0, BothWaysTurned, TurnedFacts
      <3>2. IsValid(b)
        BY <1>2, <2>3, <3>1, TurnedFacts
      <3>3. ASSUME NEW k \in Points \ {s, t}
            PROVE  \E c \in BothWays(g, s, k), d \in BothWays(g, k, t) : b.hi <= Plus(c.hi, d.hi)
        <4>1. PICK e \in PathOver(g, t, s, k) : r.lo >= e.lo
          BY <1>2, <2>3, <3>1
        <4>2. PICK x \in BothWays(g, t, k), y \in BothWays(g, k, s) : e.lo = Plus(x.lo, y.lo)
          BY BothWaysTyped, CompositionEnds DEF PathOver
        <4>3. x \in Bounds /\ y \in Bounds
          BY BothWaysTyped
        <4>4. PICK c : c = Turned(y)
          OBVIOUS
        <4>5. PICK d : d = Turned(x)
          OBVIOUS
        <4>6. c \in BothWays(g, s, k) /\ d \in BothWays(g, k, t) /\ c.hi = -y.lo /\ d.hi = -x.lo
          BY <4>3, <4>4, <4>5, BothWaysTurned, TurnedFacts
        <4>7. x.lo \in Number /\ y.lo \in Number
          BY <4>3, BoundsAre
        <4>8. Plus(c.hi, d.hi) = -e.lo
          BY <4>2, <4>6, <4>7, PlusOdd
        <4>9. e.lo \in Int /\ b.hi \in Int
          BY <2>1, <4>2, <4>7, PlusIsNumber, BoundsAre DEF Number
        <4>10. b.hi <= -e.lo
          BY <3>1, <4>1, <4>9
        <4> QED
          BY <4>6, <4>8, <4>10
      <3> QED
        BY <3>2, <3>3
    <2> QED
      BY <1>3, <2>2, <2>3, PointsAreOrdered
  <1> QED
    BY <1>3 DEF Tight

\* Every bound of the tight network is within one of the other network.
Below(g, h) == \A e \in DOMAIN h : \A b \in BothWays(g, e[1], e[2]) : \E c \in h[e] : Within(b, c)

\* No distance is below a bound of the tight network.
Covered(g, d) == \A s, t \in Points : s # t => \A b \in BothWays(g, s, t) : b.hi <= d[<<s, t>>]

LEMMA DisjunctiveHullWithin ==
  ASSUME NEW S, S \subseteq Bounds, NEW b \in Bounds, \E c \in S : Within(b, c)
  PROVE  Within(b, DisjunctiveHull(S))
  <1>1. PICK c \in S : Within(b, c)
    OBVIOUS
  <1>2. PICK X : X = Lows(S) \cup {Inf}
    OBVIOUS
  <1>3. PICK Y : Y = Highs(S) \cup {0}
    OBVIOUS
  <1>4. X \subseteq Number /\ X # {} /\ Y \subseteq Number /\ Y # {}
    BY <1>2, <1>3, EndsTyped, ZeroInfNumbers
  <1>5. c.lo \in X /\ c.hi \in Y
    BY <1>2, <1>3 DEF Lows, Highs
  <1>6. Min(X) \in Number /\ Min(X) <= c.lo
    BY <1>4, <1>5, MinOfNumbers
  <1>7. Max(Y) \in Number /\ c.hi <= Max(Y)
    <2>1. Max(Y) \in Y /\ \A y \in Y : Max(Y) >= y
      BY <1>4, MaxOfNumbers
    <2>2. Max(Y) \in Number /\ c \in Bounds
      BY <1>4, <2>1
    <2>3. Max(Y) \in Int /\ c.hi \in Int
      BY <2>2, BoundsAre DEF Number
    <2> QED
      BY <1>4, <1>5, <2>1, <2>2, <2>3
  <1>8. Plus(Min(X), Eps) \in Number
    BY <1>6, PlusIsNumber, InfAssumption DEF Eps, Number
  <1>9. DisjunctiveHull(S) = [lo |-> Min(X), hi |-> Larger(Max(Y), Plus(Min(X), Eps))]
    BY <1>2, <1>3 DEF DisjunctiveHull
  <1>10. DisjunctiveHull(S).lo = Min(X) /\ DisjunctiveHull(S).hi = Larger(Max(Y), Plus(Min(X), Eps))
    BY <1>9
  <1>11. Max(Y) <= Larger(Max(Y), Plus(Min(X), Eps)) /\ Larger(Max(Y), Plus(Min(X), Eps)) \in Int
    BY <1>7, <1>8 DEF Larger, Number
  <1>12. Min(X) \in Int /\ Max(Y) \in Int
    BY <1>6, <1>7 DEF Number
  <1> QED
    BY <1>1, <1>6, <1>7, <1>10, <1>11, <1>12, BoundsAre DEF Within

LEMMA HullsCover ==
  ASSUME NEW g, IsGraph(g), NEW h, IsGraph(h), Below(g, h)
  PROVE  Covered(g, WeightMatrix(Stp(h)))
  <1>1. PICK n : n = Stp(h)
    OBVIOUS
  <1>2. IsGraph(n) /\ DOMAIN n = DOMAIN h /\ \A e \in DOMAIN n : n[e] = {DisjunctiveHull(h[e])}
    BY <1>1, StpIsGraph DEF Stp
  <1> SUFFICES ASSUME NEW s \in Points, NEW t \in Points, s # t, NEW b \in BothWays(g, s, t)
               PROVE  b.hi <= WeightMatrix(n)[<<s, t>>]
    BY <1>1 DEF Covered
  <1>3. b \in Bounds
    BY BothWaysTyped
  <1>4. PICK W : W = Weights(n, s, t) \cup {Inf}
    OBVIOUS
  <1>5. WeightMatrix(n)[<<s, t>>] = Min(W)
    BY <1>4 DEF WeightMatrix
  <1>6. W \subseteq Number /\ W # {}
    BY <1>2, <1>4, WeightsTyped, ZeroInfNumbers
  <1>7. ASSUME NEW w \in Weights(n, s, t) PROVE b.hi <= w
    <2>1. CASE w \in Highs(Intervals(n, s, t))
      <3>1. PICK c \in Intervals(n, s, t) : w = c.hi
        BY <2>1 DEF Highs
      <3>2. PICK e \in DOMAIN n : e = <<s, t>> /\ c \in n[e]
        BY <3>1 DEF Intervals
      <3>3. c = DisjunctiveHull(h[e]) /\ h[e] \subseteq Bounds /\ e[1] = s /\ e[2] = t
        BY <1>2, <3>2 DEF IsGraph
      <3>4. \E d \in h[e] : Within(b, d)
        BY <1>2, <3>2, <3>3 DEF Below
      <3> QED
        BY <1>3, <3>1, <3>3, <3>4, DisjunctiveHullWithin DEF Within
    <2>2. CASE w \in {-x : x \in Lows(Intervals(n, t, s))}
      <3>1. PICK c \in Intervals(n, t, s) : w = -c.lo
        BY <2>2 DEF Lows
      <3>2. PICK e \in DOMAIN n : e = <<t, s>> /\ c \in n[e]
        BY <3>1 DEF Intervals
      <3>3. c = DisjunctiveHull(h[e]) /\ h[e] \subseteq Bounds /\ e[1] = t /\ e[2] = s
        BY <1>2, <3>2 DEF IsGraph
      <3>4. Turned(b) \in BothWays(g, t, s) /\ Turned(b) \in Bounds /\ Turned(b).lo = -b.hi
        BY <1>3, BothWaysTurned, TurnedFacts
      <3>5. \E d \in h[e] : Within(Turned(b), d)
        BY <1>2, <3>2, <3>3, <3>4 DEF Below
      <3>6. c.lo <= -b.hi
        BY <3>3, <3>4, <3>5, DisjunctiveHullWithin DEF Within
      <3>7. c.lo \in Int /\ b.hi \in Int
        BY <1>2, <1>3, <3>2, BoundsAre DEF IsGraph
      <3> QED
        BY <3>1, <3>6, <3>7
    <2> QED
      BY <2>1, <2>2 DEF Weights
  <1>8. b.hi <= Inf
    BY <1>3 DEF Bounds, Number
  <1>9. Min(W) \in W
    BY <1>6, MinOfNumbers
  <1> QED
    BY <1>4, <1>5, <1>7, <1>8, <1>9

LEMMA RelaxCovers ==
  ASSUME NEW g, Tight(g), NEW d \in [Points \X Points -> Number], Covered(g, d),
         \A p \in Points : 0 <= d[<<p, p>>], NEW k \in Points
  PROVE  Covered(g, Relaxed(d, k))
  <1> SUFFICES ASSUME NEW s \in Points, NEW t \in Points, s # t, NEW b \in BothWays(g, s, t)
               PROVE  b.hi <= Relaxed(d, k)[<<s, t>>]
    BY DEF Covered
  <1>1. Relaxed(d, k)[<<s, t>>] = Smaller(d[<<s, t>>], Plus(d[<<s, k>>], d[<<k, t>>]))
    BY DEF Relaxed
  <1>2. b \in Bounds /\ b.hi \in Number
    BY BothWaysTyped, BoundsAre DEF Tight
  <1>3. b.hi <= d[<<s, t>>]
    BY DEF Covered
  <1>4. d[<<s, k>>] \in Number /\ d[<<k, t>>] \in Number /\ d[<<s, t>>] \in Number
    OBVIOUS
  <1>5. Plus(d[<<s, k>>], d[<<k, t>>]) \in Number
    BY <1>4, PlusIsNumber
  <1>6. b.hi <= Plus(d[<<s, k>>], d[<<k, t>>])
    <2>1. CASE k = s
      <3>1. d[<<k, t>>] <= Plus(d[<<s, k>>], d[<<k, t>>])
        BY <1>4, <2>1, PlusRaises
      <3> QED
        BY <1>2, <1>3, <1>4, <1>5, <2>1, <3>1 DEF Number
    <2>2. CASE k = t
      <3>1. d[<<s, k>>] <= Plus(d[<<s, k>>], d[<<k, t>>])
        BY <1>4, <2>2, PlusRaises
      <3> QED
        BY <1>2, <1>3, <1>4, <1>5, <2>2, <3>1 DEF Number
    <2>3. CASE k # s /\ k # t
      <3>1. PICK x \in BothWays(g, s, k), y \in BothWays(g, k, t) : b.hi <= Plus(x.hi, y.hi)
        BY <2>3 DEF Tight
      <3>2. x.hi <= d[<<s, k>>] /\ y.hi <= d[<<k, t>>]
        BY <2>3 DEF Covered
      <3>3. x.hi \in Number /\ y.hi \in Number
        BY BothWaysTyped, BoundsAre DEF Tight
      <3>4. Plus(x.hi, y.hi) <= Plus(d[<<s, k>>], d[<<k, t>>])
        BY <1>4, <3>2, <3>3, PlusMonotone
      <3>5. Plus(x.hi, y.hi) \in Number
        BY <3>3, PlusIsNumber
      <3> QED
        BY <1>2, <1>5, <3>1, <3>4, <3>5 DEF Number
    <2> QED
      BY <2>1, <2>2, <2>3
  <1> QED
    BY <1>1, <1>3, <1>6 DEF Smaller

LEMMA IntersectBelow ==
  ASSUME NEW g, Tight(g), NEW h, IsGraph(h), Below(g, h), NEW n, DOMAIN n = DOMAIN h,
         NEW d \in [Points \X Points -> Number], Covered(g, d)
  PROVE  /\ Below(g, IntersectionWith(h, MinNetwork(n, d)))
         /\ DOMAIN IntersectionWith(h, MinNetwork(n, d)) = DOMAIN h
  <1>1. PICK m : m = MinNetwork(n, d)
    OBVIOUS
  <1>2. PICK r : r = IntersectionWith(h, m)
    OBVIOUS
  <1>3. DOMAIN m = DOMAIN h /\ \A e \in DOMAIN m : m[e] = {[lo |-> -d[<<e[2], e[1]>>], hi |-> d[e]]}
    BY <1>1 DEF MinNetwork
  <1>4. DOMAIN r = DOMAIN h /\ \A e \in DOMAIN r : r[e] = Intersection(h[e], m[e])
    BY <1>2, <1>3 DEF IntersectionWith
  <1>5. ASSUME NEW e \in DOMAIN h, NEW b \in BothWays(g, e[1], e[2])
        PROVE  \E c \in r[e] : Within(b, c)
    <2>1. e = <<e[1], e[2]>> /\ e[1] \in Points /\ e[2] \in Points /\ e[1] # e[2]
      BY DEF IsGraph, Pairs
    <2>2. b \in Bounds /\ IsValid(b)
      BY <2>1, BothWaysTyped DEF Tight
    <2>3. PICK c \in h[e] : Within(b, c)
      BY DEF Below
    <2>4. PICK y \in m[e] : y.lo = -d[<<e[2], e[1]>>] /\ y.hi = d[e]
      <3>1. PICK z : z = [lo |-> -d[<<e[2], e[1]>>], hi |-> d[e]]
        OBVIOUS
      <3>2. z \in m[e] /\ z.lo = -d[<<e[2], e[1]>>] /\ z.hi = d[e]
        BY <1>3, <3>1
      <3> QED
        BY <3>2
    <2>5. b.hi <= y.hi
      BY <2>1, <2>4 DEF Covered
    <2>6. y.lo <= b.lo
      <3>1. Turned(b) \in BothWays(g, e[2], e[1]) /\ Turned(b).hi = -b.lo
        BY <2>2, BothWaysTurned, TurnedFacts DEF Tight
      <3>2. -b.lo <= d[<<e[2], e[1]>>]
        BY <2>1, <3>1 DEF Covered
      <3>3. d[<<e[2], e[1]>>] \in Int /\ b.lo \in Int
        BY <2>1, <2>2, BoundsAre DEF Number
      <3> QED
        BY <2>4, <3>2, <3>3
    <2>7. c \in Bounds
      BY DEF IsGraph
    <2>8. y.lo \in Int /\ y.hi \in Int
      <3>1. d[<<e[2], e[1]>>] \in Number /\ d[e] \in Number
        BY <2>1
      <3> QED
        BY <2>4, <3>1 DEF Number
    <2>9. PICK x : x = Common(c, y)
      OBVIOUS
    <2>10. /\ x.lo = (IF c.lo >= y.lo THEN c.lo ELSE y.lo)
           /\ x.hi = (IF c.hi <= y.hi THEN c.hi ELSE y.hi)
      BY <2>9 DEF Common, Larger, Smaller
    <2>11. Within(b, x)
      BY <2>3, <2>5, <2>6, <2>10 DEF Within
    <2>12. IsValid(x)
      BY <2>2, <2>7, <2>8, <2>10, <2>11, BoundsAre DEF Within, IsValid
    <2>13. x \in Intersection(h[e], m[e])
      BY <2>9, <2>12 DEF Intersection
    <2> QED
      BY <1>4, <2>11, <2>13
  <1> QED
    BY <1>1, <1>2, <1>4, <1>5 DEF Below

\* Every bound of the one network is within one of the other, in both directions.
Narrowed(g, h) ==
  \A s, t \in Points : s # t => \A b \in BothWays(g, s, t) : \E c \in BothWays(h, s, t) : Within(b, c)

LEMMA NarrowedIsBelow ==
  ASSUME NEW g, NEW h, IsGraph(h), OneWay(h), Narrowed(g, h)
  PROVE  Below(g, h)
  <1> SUFFICES ASSUME NEW e \in DOMAIN h, NEW b \in BothWays(g, e[1], e[2])
               PROVE  \E c \in h[e] : Within(b, c)
    BY DEF Below
  <1>1. e = <<e[1], e[2]>> /\ e[1] \in Points /\ e[2] \in Points /\ e[1] # e[2]
    BY DEF IsGraph, Pairs
  <1>2. <<e[2], e[1]>> \notin DOMAIN h
    BY DEF OneWay
  <1>3. Intervals(h, e[1], e[2]) = h[e] /\ Intervals(h, e[2], e[1]) = {}
    BY <1>1, <1>2 DEF Intervals
  <1>4. BothWays(h, e[1], e[2]) = h[e]
    BY <1>3 DEF BothWays, ReverseBounds
  <1> QED
    BY <1>1, <1>4 DEF Narrowed

LEMMA NarrowedThrough ==
  ASSUME NEW g, IsGraph(g), NEW h, IsGraph(h), NEW f, IsGraph(f), Narrowed(g, h), Narrowed(h, f)
  PROVE  Narrowed(g, f)
  <1> SUFFICES ASSUME NEW s \in Points, NEW t \in Points, s # t, NEW b \in BothWays(g, s, t)
               PROVE  \E c \in BothWays(f, s, t) : Within(b, c)
    BY DEF Narrowed
  <1>1. PICK c \in BothWays(h, s, t) : Within(b, c)
    BY DEF Narrowed
  <1>2. PICK d \in BothWays(f, s, t) : Within(c, d)
    BY DEF Narrowed
  <1>3. b \in Bounds /\ c \in Bounds /\ d \in Bounds
    BY BothWaysTyped
  <1> QED
    BY <1>1, <1>2, <1>3, WithinThrough

LEMMA LooseTurnNarrows ==
  ASSUME NEW g, IsGraph(g), Complete(g), NEW a \in Valuations, KeepsOne(a, g),
         Cardinality(Points) > 2, NEW n, n = LooseIntersectionNetwork(g, IntersectionNetwork(g))
  PROVE  IsGraph(n) /\ Complete(n) /\ CheckConsistency(n) /\ Narrowed(n, g)
  <1>0. PICK h : h = IntersectionNetwork(g)
    OBVIOUS
  <1>1. IsGraph(h) /\ IsGraph(n)
    BY <1>0, IntersectionNetworkIsGraph, LooseNetworkTyped
  <1>2. ASSUME NEW s \in Points, NEW t \in Points, s # t
        PROVE  /\ BothWays(n, s, t) # {}
               /\ \A b \in BothWays(n, s, t) : \E c \in BothWays(g, s, t) : Within(b, c)
    <2>1. CASE s < t
      BY <2>1, LooseTurn
    <2>2. CASE t < s
      <3>1. PICK x \in BothWays(n, t, s) : TRUE
        BY <2>2, LooseTurn
      <3>2. BothWays(n, s, t) # {}
        BY <1>1, <3>1, BothWaysTurned
      <3>3. ASSUME NEW b \in BothWays(n, s, t) PROVE \E c \in BothWays(g, s, t) : Within(b, c)
        <4>1. b \in Bounds
          BY <1>1, BothWaysTyped
        <4>2. Turned(b) \in BothWays(n, t, s) /\ Turned(b) \in Bounds /\ Turned(Turned(b)) = b
          BY <1>1, <4>1, BothWaysTurned, TurnedFacts
        <4>3. PICK c \in BothWays(g, t, s) : Within(Turned(b), c)
          BY <2>2, <4>2, LooseTurn
        <4>4. c \in Bounds /\ Turned(c) \in BothWays(g, s, t)
          BY <4>3, BothWaysTyped, BothWaysTurned
        <4>5. Within(Turned(Turned(b)), Turned(c))
          BY <4>2, <4>3, <4>4, TurnedWithin
        <4> QED
          BY <4>2, <4>4, <4>5
      <3> QED
        BY <3>2, <3>3
    <2> QED
      BY <1>2, <2>1, <2>2, PointsAreOrdered
  <1>3. CheckConsistency(n)
    <2> SUFFICES ASSUME NEW e \in DOMAIN n PROVE n[e] # {}
      BY DEF CheckConsistency
    <2>1. PICK p \in ForwardPairs(g) :
            \/ e = p /\ n[e] = Kept(g, h, p[1], p[2])
            \/ e = <<p[2], p[1]>> /\ n[e] = ReverseBounds(Kept(g, h, p[1], p[2]))
      BY <1>0, <1>1, LooseNetworkEdge
    <2>2. BothWays(n, p[1], p[2]) = Kept(g, h, p[1], p[2])
      BY <1>0, <1>1, LooseNetworkBothWays
    <2>3. Kept(g, h, p[1], p[2]) # {}
      BY <1>2, <2>2, ForwardPairFacts
    <2> QED
      BY <2>1, <2>3 DEF ReverseBounds
  <1> QED
    BY <1>1, <1>2, <1>3 DEF Complete, Narrowed

\* The loop of Upper-Lower-Tightening keeps the edges.
EdgesInv ==
  /\ pc = "tighten" => DOMAIN tcn = DOMAIN Network
  /\ pc = "paths" /\ job = "upperLowerTightening" => DOMAIN old = DOMAIN Network
  /\ Returned("upperLowerTightening") =>
       DOMAIN result["upperLowerTightening"].graph = DOMAIN Network

\* It cuts off nothing of a tight network whose bounds are within those of the input: the
\* hulls hold it, no path is shorter than its bounds, and so the intersection holds it.
BelowInv ==
  Solutions(Network) # {} =>
    \A g : Tight(g) /\ Below(g, Network) =>
      /\ pc = "tighten" => Below(g, tcn)
      /\ pc = "paths" /\ job = "upperLowerTightening" => Below(g, old) /\ Covered(g, dist)
      /\ Returned("upperLowerTightening") => Below(g, result["upperLowerTightening"].graph)

\* The network that loose path consistency returns is one.
TightInv ==
  Complete(Network) /\ Solutions(Network) # {} =>
    /\ pc = "loose" => OneWay(Network) /\ Complete(tcn) /\ Narrowed(tcn, Network)
    /\ Returned("loosePathConsistency") =>
         /\ Tight(result["loosePathConsistency"].graph)
         /\ Below(result["loosePathConsistency"].graph, Network)

LEMMA ResultIs ==
  ASSUME IInv, NEW o, NEW g, Return(o, g), pc # "idle"
  PROVE  /\ pc' = "idle" /\ job \in Jobs
         /\ result'[job].outcome = o /\ result'[job].graph = g
         /\ \A j \in Jobs : j # job => result'[j] = result[j]
  <1>1. job \in Jobs
    BY DEF IInv, PhaseInv, Jobs
  <1>2. pc' = "idle" /\ result' = [result EXCEPT ![job] = [outcome |-> o, graph |-> g]]
    BY DEF Return
  <1>3. DOMAIN result = Jobs
    BY DEF IInv, TypeInv
  <1> QED
    BY <1>1, <1>2, <1>3

\* Nothing changes in what the two algorithms know when others run.
LEMMA OthersKeepTight ==
  ASSUME EdgesInv, BelowInv, TightInv, client' = client,
         pc' \notin {"tighten", "loose"}, pc' = "paths" => job' # "upperLowerTightening",
         \A j \in {"upperLowerTightening", "loosePathConsistency"} : result'[j] = result[j]
  PROVE  (EdgesInv /\ BelowInv /\ TightInv)'
  <1>1. Network' = Network /\ Solutions(Network)' = Solutions(Network)
    BY NetworkStays
  <1>2. PICK u : u = result["upperLowerTightening"]
    OBVIOUS
  <1>3. PICK l : l = result["loosePathConsistency"]
    OBVIOUS
  <1>4. result'["upperLowerTightening"] = u /\ result'["loosePathConsistency"] = l
    BY <1>2, <1>3
  <1>5. EdgesInv'
    BY <1>1, <1>2, <1>4 DEF EdgesInv, Returned
  <1>6. BelowInv'
    <2> SUFFICES ASSUME Solutions(Network)' # {}, NEW g, Tight(g), Below(g, Network'), u.outcome = "returned"
                 PROVE  Below(g, u.graph)
      BY <1>4 DEF BelowInv, Returned, Tight, IsGraph, Below
    <2> QED
      BY <1>1, <1>2 DEF BelowInv, Returned
  <1>7. TightInv'
    <2> SUFFICES ASSUME Complete(Network'), Solutions(Network)' # {}, l.outcome = "returned"
                 PROVE  Tight(l.graph) /\ Below(l.graph, Network')
      BY <1>4 DEF TightInv, Returned, Tight, IsGraph, Below, Complete
    <2> QED
      BY <1>1, <1>3 DEF TightInv, Returned
  <1> QED
    BY <1>5, <1>6, <1>7

\* The steps of Upper-Lower-Tightening: what is known of loose path consistency stays.
LEMMA TighteningKeepsTight ==
  ASSUME TightInv, client' = client, pc' # "loose",
         result'["loosePathConsistency"] = result["loosePathConsistency"]
  PROVE  TightInv'
  <1>1. Network' = Network /\ Solutions(Network)' = Solutions(Network)
    BY NetworkStays
  <1>3. PICK l : l = result["loosePathConsistency"]
    OBVIOUS
  <1>4. result'["loosePathConsistency"] = l
    BY <1>3
  <1> SUFFICES ASSUME Complete(Network'), Solutions(Network)' # {}, l.outcome = "returned"
               PROVE  Tight(l.graph) /\ Below(l.graph, Network')
    BY <1>4 DEF TightInv, Returned, Tight, IsGraph, Below, Complete
  <1> QED
    BY <1>1, <1>3 DEF TightInv, Returned

\* What BelowInv says of the next state, with the unprimed network.
LEMMA BelowNext ==
  ASSUME client' = client,
         Solutions(Network) # {} =>
           \A g : Tight(g) /\ Below(g, Network) =>
             /\ pc' = "tighten" => Below(g, tcn')
             /\ pc' = "paths" /\ job' = "upperLowerTightening" => Below(g, old') /\ Covered(g, dist')
             /\ result'["upperLowerTightening"].outcome = "returned" =>
                  Below(g, result'["upperLowerTightening"].graph)
  PROVE  BelowInv'
  <1>1. Network' = Network /\ Solutions(Network)' = Solutions(Network)
    BY NetworkStays
  <1> SUFFICES ASSUME Solutions(Network)' # {}, NEW g, Tight(g), Below(g, Network')
               PROVE  /\ pc' = "tighten" => Below(g, tcn')
                      /\ pc' = "paths" /\ job' = "upperLowerTightening" => Below(g, old') /\ Covered(g, dist')
                      /\ result'["upperLowerTightening"].outcome = "returned" =>
                           Below(g, result'["upperLowerTightening"].graph)
    BY DEF BelowInv, Returned, Tight, IsGraph, Below, Covered
  <1>2. Solutions(Network) # {} /\ Below(g, Network)
    BY <1>1
  <1> QED
    BY <1>2

LEMMA UpperLowerTighteningTight ==
  ASSUME IInv, EdgesInv, BelowInv, TightInv, UpperLowerTightening
  PROVE  (EdgesInv /\ BelowInv /\ TightInv)'
  <1>1. /\ client' = client /\ job' = "upperLowerTightening" /\ pc' = "tighten"
        /\ tcn' = Network /\ result' = result /\ result["upperLowerTightening"].outcome = "none"
    BY DEF UpperLowerTightening, Call
  <1>2. Network' = Network
    BY <1>1, NetworkStays
  <1>3. EdgesInv'
    BY <1>1, <1>2 DEF EdgesInv, Returned
  <1>4. BelowInv'
    BY <1>1, BelowNext
  <1>5. TightInv'
    BY <1>1, TighteningKeepsTight
  <1> QED
    BY <1>3, <1>4, <1>5

LEMMA TightenTight ==
  ASSUME IInv, EdgesInv, BelowInv, TightInv, Tighten
  PROVE  (EdgesInv /\ BelowInv /\ TightInv)'
  <1>1. /\ client' = client /\ job' = job /\ pc = "tighten" /\ pc' = "paths"
        /\ tcn' = Stp(tcn) /\ old' = tcn /\ dist' = WeightMatrix(Stp(tcn)) /\ result' = result
    BY DEF Tighten, BeginShortestPaths
  <1>2. IsGraph(tcn)
    BY <1>1 DEF IInv, PhaseInv
  <1>3. EdgesInv'
    BY <1>1, NetworkStays DEF EdgesInv, Returned
  <1>4. BelowInv'
    <2>1. ASSUME Solutions(Network) # {}, NEW g, Tight(g), Below(g, Network)
          PROVE  /\ Below(g, tcn)
                 /\ Covered(g, WeightMatrix(Stp(tcn)))
                 /\ Returned("upperLowerTightening") => Below(g, result["upperLowerTightening"].graph)
      <3>1. Below(g, tcn) /\ (Returned("upperLowerTightening") => Below(g, result["upperLowerTightening"].graph))
        BY <1>1, <2>1 DEF BelowInv
      <3> QED
        BY <1>2, <2>1, <3>1, HullsCover DEF Tight
    <2> QED
      BY <1>1, <2>1, BelowNext DEF Returned
  <1>5. TightInv'
    BY <1>1, TighteningKeepsTight
  <1> QED
    BY <1>3, <1>4, <1>5

LEMMA RelaxTight ==
  ASSUME IInv, EdgesInv, BelowInv, TightInv, NEW k \in Points, Relax(k)
  PROVE  (EdgesInv /\ BelowInv /\ TightInv)'
  <1>1. /\ client' = client /\ job' = job /\ pc = "paths" /\ pc' = "paths"
        /\ dist' = Relaxed(dist, k) /\ result' = result /\ old' = old
    BY DEF Relax, Relaxed
  <1>2. dist \in [Points \X Points -> Number]
    BY DEF IInv, TypeInv
  <1>3. EdgesInv'
    BY <1>1, NetworkStays DEF EdgesInv, Returned
  <1>4. BelowInv'
    <2>1. ASSUME Solutions(Network) # {}, NEW g, Tight(g), Below(g, Network),
                 job = "upperLowerTightening"
          PROVE  Below(g, old) /\ Covered(g, Relaxed(dist, k))
      <3>1. PICK a \in Solutions(Network) : TRUE
        BY <2>1
      <3>2. a \in Valuations /\ Dominates(dist, a)
        BY <1>1, <2>1, <3>1 DEF IInv, DistInv, SolutionsFor, Solutions
      <3>3. ASSUME NEW p \in Points PROVE 0 <= dist[<<p, p>>]
        <4>1. Diff(a, <<p, p>>) = 0
          BY <3>2, DiffBounded DEF Diff
        <4>2. Diff(a, <<p, p>>) <= dist[<<p, p>>]
          BY <3>2 DEF Dominates
        <4> QED
          BY <4>1, <4>2
      <3>4. Below(g, old) /\ Covered(g, dist)
        BY <1>1, <2>1 DEF BelowInv
      <3> QED
        BY <1>2, <2>1, <3>3, <3>4, RelaxCovers
    <2>2. ASSUME Solutions(Network) # {}, NEW g, Tight(g), Below(g, Network)
          PROVE  Returned("upperLowerTightening") => Below(g, result["upperLowerTightening"].graph)
      BY <2>2 DEF BelowInv
    <2> QED
      BY <1>1, <2>1, <2>2, BelowNext DEF Returned
  <1>5. TightInv'
    BY <1>1, TighteningKeepsTight
  <1> QED
    BY <1>3, <1>4, <1>5

LEMMA IntersectTight ==
  ASSUME IInv, EdgesInv, BelowInv, TightInv, Intersect
  PROVE  (EdgesInv /\ BelowInv /\ TightInv)'
  <1>0. PICK tighter : tighter = IntersectionWith(old, MinNetwork(tcn, dist))
    OBVIOUS
  <1>1. pc = "paths" /\ job = "upperLowerTightening" /\ client' = client
    BY DEF Intersect, HaveShortestPaths, Return
  <1>2. /\ IsGraph(old) /\ DOMAIN tcn = DOMAIN old /\ DOMAIN old = DOMAIN Network
        /\ dist \in [Points \X Points -> Number]
    BY <1>1 DEF IInv, TypeInv, TightenInv, EdgesInv
  <1>3. DOMAIN tighter = DOMAIN Network
    BY <1>0, <1>2 DEF IntersectionWith, MinNetwork
  <1>4. ASSUME Solutions(Network) # {}, NEW g, Tight(g), Below(g, Network)
        PROVE  Below(g, tighter) /\ (Returned("upperLowerTightening") => Below(g, result["upperLowerTightening"].graph))
    <2>1. /\ Below(g, old) /\ Covered(g, dist)
          /\ Returned("upperLowerTightening") => Below(g, result["upperLowerTightening"].graph)
      BY <1>1, <1>4 DEF BelowInv
    <2> QED
      BY <1>0, <1>2, <1>4, <2>1, IntersectBelow
  <1>5. Network' = Network
    BY <1>1, NetworkStays
  <1>6. CASE Return("returned", tighter)
    <2>1. /\ pc' = "idle" /\ result'["upperLowerTightening"].graph = tighter
          /\ result'["loosePathConsistency"] = result["loosePathConsistency"]
      BY <1>1, <1>6, ResultIs DEF Jobs
    <2>2. EdgesInv'
      BY <1>3, <1>5, <2>1 DEF EdgesInv, Returned
    <2>3. BelowInv'
      BY <1>1, <1>4, <2>1, BelowNext
    <2>4. TightInv'
      BY <1>1, <2>1, TighteningKeepsTight
    <2> QED
      BY <2>2, <2>3, <2>4
  <1>7. CASE tcn' = tighter /\ pc' = "tighten" /\ result' = result
    <2>2. EdgesInv'
      BY <1>3, <1>5, <1>7 DEF EdgesInv, Returned
    <2>3. BelowInv'
      BY <1>1, <1>4, <1>7, BelowNext DEF Returned
    <2>4. TightInv'
      BY <1>1, <1>7, TighteningKeepsTight
    <2> QED
      BY <2>2, <2>3, <2>4
  <1> QED
    BY <1>0, <1>6, <1>7 DEF Intersect

\* The steps of loose path consistency leave what is known of Upper-Lower-Tightening.
LEMMA LooseKeepsBelow ==
  ASSUME EdgesInv, BelowInv, client' = client, pc' \in {"idle", "loose"},
         result'["upperLowerTightening"] = result["upperLowerTightening"]
  PROVE  EdgesInv' /\ BelowInv'
  <1>1. Network' = Network
    BY NetworkStays
  <1>2. PICK u : u = result["upperLowerTightening"]
    OBVIOUS
  <1>3. result'["upperLowerTightening"] = u
    BY <1>2
  <1>4. EdgesInv'
    BY <1>1, <1>2, <1>3 DEF EdgesInv, Returned
  <1>5. ASSUME Solutions(Network) # {}, NEW g, Tight(g), Below(g, Network)
        PROVE  u.outcome = "returned" => Below(g, u.graph)
    BY <1>2, <1>5 DEF BelowInv, Returned
  <1>6. BelowInv'
    BY <1>3, <1>5, BelowNext
  <1> QED
    BY <1>4, <1>6

LEMMA TightNext ==
  ASSUME client' = client,
         Complete(Network) /\ Solutions(Network) # {} =>
           /\ pc' = "loose" => OneWay(Network) /\ Complete(tcn') /\ Narrowed(tcn', Network)
           /\ result'["loosePathConsistency"].outcome = "returned" =>
                /\ Tight(result'["loosePathConsistency"].graph)
                /\ Below(result'["loosePathConsistency"].graph, Network)
  PROVE  TightInv'
  <1>1. Network' = Network /\ Solutions(Network)' = Solutions(Network)
    BY NetworkStays
  <1> SUFFICES ASSUME Complete(Network'), Solutions(Network)' # {}
               PROVE  /\ pc' = "loose" => OneWay(Network') /\ Complete(tcn') /\ Narrowed(tcn', Network')
                      /\ result'["loosePathConsistency"].outcome = "returned" =>
                           /\ Tight(result'["loosePathConsistency"].graph)
                           /\ Below(result'["loosePathConsistency"].graph, Network')
    BY DEF TightInv, Returned, Tight, IsGraph, Below, Complete, Narrowed, OneWay
  <1>2. Complete(Network) /\ Solutions(Network) # {}
    BY <1>1
  <1> QED
    BY <1>1, <1>2

LEMMA LoosePathConsistencyTight ==
  ASSUME OneWayClients, IInv, EdgesInv, BelowInv, TightInv, LoosePathConsistency
  PROVE  (EdgesInv /\ BelowInv /\ TightInv)'
  <1>1. /\ client' = client /\ pc' = "loose" /\ tcn' = Network /\ result' = result
        /\ result["loosePathConsistency"].outcome = "none"
    BY DEF LoosePathConsistency, Call
  <1>2. EdgesInv' /\ BelowInv'
    BY <1>1, LooseKeepsBelow
  <1>3. IsGraph(Network)
    BY NetworkIsGraph DEF IInv, TypeInv
  <1>4. Narrowed(Network, Network)
    <2> SUFFICES ASSUME NEW s \in Points, NEW t \in Points, NEW b \in BothWays(Network, s, t)
                 PROVE  Within(b, b)
      BY DEF Narrowed
    <2>1. b \in Bounds
      BY <1>3, BothWaysTyped
    <2> QED
      BY <2>1, BoundsAre DEF Within
  <1>5. client \in Clients /\ "loosePathConsistency" \in client.calls
    BY DEF LoosePathConsistency, Call, IInv, TypeInv
  <1>6. OneWay(Network)
    BY <1>5, NetworkOneWay
  <1>7. TightInv'
    BY <1>1, <1>4, <1>6, TightNext
  <1> QED
    BY <1>2, <1>7

LEMMA LoosenTight ==
  ASSUME Cardinality(Points) > 2,
         IInv, GraphInv, LooseInv, EdgesInv, BelowInv, TightInv, Loosen
  PROVE  (EdgesInv /\ BelowInv /\ TightInv)'
  <1>0. PICK tighter : tighter = LooseIntersectionNetwork(tcn, IntersectionNetwork(tcn))
    OBVIOUS
  <1>1. /\ pc = "loose" /\ job = "loosePathConsistency" /\ client' = client
        /\ OneWay(tcn) /\ CheckConsistency(tcn) /\ IsGraph(tcn)
        /\ \A a \in Valuations : KeepsOne(a, tcn) <=> KeepsOne(a, Network)
    BY DEF Loosen, Return, LooseInv, GraphInv, IInv, PhaseInv
  <1>2. ASSUME Complete(Network), Solutions(Network) # {}
        PROVE  /\ OneWay(Network) /\ Complete(tcn) /\ Narrowed(tcn, Network)
               /\ CheckConsistency(tighter) /\ Complete(tighter) /\ Narrowed(tighter, Network)
               /\ Equals(tcn, tighter) => Tight(tcn) /\ Below(tcn, Network)
    <2>1. PICK a \in Valuations : KeepsOne(a, tcn)
      BY <1>1, <1>2, SolutionsAre
    <2>2. OneWay(Network) /\ Complete(tcn) /\ Narrowed(tcn, Network)
      BY <1>1, <1>2 DEF TightInv
    <2>3. IsGraph(tighter) /\ Complete(tighter) /\ CheckConsistency(tighter) /\ Narrowed(tighter, tcn)
      BY <1>0, <1>1, <2>1, <2>2, LooseTurnNarrows
    <2>4. IsGraph(Network)
      BY NetworkIsGraph DEF IInv, TypeInv
    <2>5. Narrowed(tighter, Network)
      BY <1>1, <2>2, <2>3, <2>4, NarrowedThrough
    <2>6. Equals(tcn, tighter) => Tight(tcn)
      BY <1>0, <1>1, <2>1, <2>2, TurnEndsTight
    <2>7. Below(tcn, Network)
      BY <2>2, <2>4, NarrowedIsBelow
    <2> QED
      BY <2>2, <2>3, <2>5, <2>6, <2>7
  <1>3. CASE (Equals(tcn, tighter) \/ ~ CheckConsistency(tighter)) /\ Return("returned", tcn)
    <2>1. /\ pc' = "idle" /\ result'["loosePathConsistency"].graph = tcn
          /\ result'["upperLowerTightening"] = result["upperLowerTightening"]
      BY <1>1, <1>3, ResultIs DEF Jobs
    <2>2. EdgesInv' /\ BelowInv'
      BY <1>1, <2>1, LooseKeepsBelow
    <2>3. TightInv'
      BY <1>1, <1>2, <1>3, <2>1, TightNext
    <2> QED
      BY <2>2, <2>3
  <1>4. CASE tcn' = tighter /\ UNCHANGED <<pc, result>>
    <2>2. EdgesInv' /\ BelowInv'
      BY <1>1, <1>4, LooseKeepsBelow
    <2>3. TightInv'
      <3>1. ASSUME Complete(Network), Solutions(Network) # {},
                   result["loosePathConsistency"].outcome = "returned"
            PROVE  /\ Tight(result["loosePathConsistency"].graph)
                   /\ Below(result["loosePathConsistency"].graph, Network)
        BY <3>1 DEF TightInv, Returned
      <3> QED
        BY <1>1, <1>2, <1>4, <3>1, TightNext
    <2> QED
      BY <2>2, <2>3
  <1> QED
    BY <1>0, <1>3, <1>4 DEF Loosen

\* A call that is not one of the two algorithms.
LEMMA OtherCallsTight ==
  ASSUME IInv, EdgesInv, BelowInv, TightInv, QuantifyTime \/ Propagate
  PROVE  (EdgesInv /\ BelowInv /\ TightInv)'
  <1>1. client' = client /\ pc' = "paths" /\ job' # "upperLowerTightening" /\ result' = result
    BY DEF QuantifyTime, Propagate, Call, BeginShortestPaths
  <1> QED
    BY <1>1, OthersKeepTight

\* A step of the other two operations, or the end of one of them.
LEMMA OtherStepsTight ==
  ASSUME IInv, EdgesInv, BelowInv, TightInv, client' = client, pc # "idle",
         job \notin {"upperLowerTightening", "loosePathConsistency"},
         \/ result' = result /\ pc' \in {"assign", "visit"}
         \/ \E o, g : Return(o, g)
  PROVE  (EdgesInv /\ BelowInv /\ TightInv)'
  <1>1. ASSUME NEW o, NEW g, Return(o, g) PROVE (EdgesInv /\ BelowInv /\ TightInv)'
    <2>1. pc' = "idle" /\ \A j \in Jobs : j # job => result'[j] = result[j]
      BY <1>1, ResultIs
    <2>2. \A j \in {"upperLowerTightening", "loosePathConsistency"} : result'[j] = result[j]
      BY <2>1 DEF Jobs
    <2> QED
      BY <2>1, <2>2, OthersKeepTight
  <1>2. CASE result' = result /\ pc' \in {"assign", "visit"}
    BY <1>2, OthersKeepTight
  <1> QED
    BY <1>1, <1>2

LEMMA ThrowTight ==
  ASSUME IInv, EdgesInv, BelowInv, TightInv, ShortestPathsThrow
  PROVE  (EdgesInv /\ BelowInv /\ TightInv)'
  <1>1. client' = client /\ pc = "paths" /\ job # "loosePathConsistency" /\ Return("threw", NoGraph)
    BY DEF ShortestPathsThrow, Return, IInv, PhaseInv
  <1>2. CASE job # "upperLowerTightening"
    BY <1>1, <1>2, OtherStepsTight
  <1>3. CASE job = "upperLowerTightening"
    <2>1. /\ pc' = "idle" /\ result'["upperLowerTightening"].outcome = "threw"
          /\ result'["loosePathConsistency"] = result["loosePathConsistency"]
      BY <1>1, <1>3, ResultIs DEF Jobs
    <2>2. EdgesInv'
      BY <2>1 DEF EdgesInv, Returned
    <2>3. BelowInv'
      BY <1>1, <2>1, BelowNext
    <2>4. TightInv'
      BY <1>1, <2>1, TighteningKeepsTight
    <2> QED
      BY <2>2, <2>3, <2>4
  <1> QED
    BY <1>2, <1>3

LEMMA NextTight ==
  ASSUME OneWayClients, Cardinality(Points) > 2,
         IInv, GraphInv, LooseInv, EdgesInv, BelowInv, TightInv, [Next]_vars
  PROVE  (EdgesInv /\ BelowInv /\ TightInv)'
  <1>1. CASE UNCHANGED vars
    <2>1. /\ client' = client /\ tcn' = tcn /\ old' = old /\ dist' = dist
          /\ job' = job /\ pc' = pc /\ result' = result
      BY <1>1 DEF vars, scratch
    <2>2. Network' = Network
      BY <2>1, NetworkStays
    <2>3. EdgesInv'
      BY <2>1, <2>2 DEF EdgesInv, Returned
    <2>4. BelowInv'
      BY <2>1, BelowNext DEF BelowInv, Returned
    <2>5. TightInv'
      BY <2>1, TightNext DEF TightInv, Returned
    <2> QED
      BY <2>3, <2>4, <2>5
  <1>2. CASE UpperLowerTightening
    BY <1>2, UpperLowerTighteningTight
  <1>3. CASE LoosePathConsistency
    BY <1>3, LoosePathConsistencyTight
  <1>4. CASE QuantifyTime \/ Propagate
    BY <1>4, OtherCallsTight
  <1>5. ASSUME NEW k \in Points, Relax(k) PROVE (EdgesInv /\ BelowInv /\ TightInv)'
    BY <1>5, RelaxTight
  <1>6. CASE ShortestPathsThrow
    BY <1>6, ThrowTight
  <1>7. CASE Tighten
    BY <1>7, TightenTight
  <1>8. CASE Intersect
    BY <1>8, IntersectTight
  <1>9. CASE Loosen
    BY <1>9, LoosenTight
  <1>10. CASE BeginAssignment \/ BeginVisits
    <2>1. client' = client /\ pc # "idle" /\ job \in {"quantifyTime", "propagate"}
      BY <1>10 DEF BeginAssignment, BeginVisits, HaveShortestPaths, Return
    <2>2. (result' = result /\ pc' \in {"assign", "visit"}) \/ Return("threw", NoGraph)
      BY <1>10 DEF BeginAssignment, BeginVisits
    <2> QED
      BY <2>1, <2>2, OtherStepsTight
  <1>11. CASE AssignNext \/ AssignmentDone
    <2>1. client' = client /\ pc = "assign" /\ job = "quantifyTime"
      BY <1>11 DEF AssignNext, AssignmentDone, Return, IInv, PhaseInv
    <2>2. (result' = result /\ pc' = pc) \/ Return("undefined", NoGraph) \/ Return("returned", tcn)
      BY <1>11 DEF AssignNext, AssignmentDone
    <2> QED
      BY <2>1, <2>2, OtherStepsTight
  <1>12. ASSUME NEW x \in unseen, Visit(x) PROVE (EdgesInv /\ BelowInv /\ TightInv)'
    <2>1. client' = client /\ pc = "visit" /\ job = "propagate"
      BY <1>12 DEF Visit, Return, IInv, PhaseInv
    <2>2. (result' = result /\ pc' = pc) \/ Return("undefined", NoGraph)
      BY <1>12 DEF Visit
    <2> QED
      BY <2>1, <2>2, OtherStepsTight
  <1>13. CASE VisitsDone
    <2>1. client' = client /\ pc = "visit" /\ job = "propagate" /\ Return("returned", tcn)
      BY <1>13 DEF VisitsDone, Return, IInv, PhaseInv
    <2> QED
      BY <2>1, OtherStepsTight
  <1> QED
    BY <1>1, <1>2, <1>3, <1>4, <1>5, <1>6, <1>7, <1>8, <1>9, <1>10, <1>11, <1>12, <1>13 DEF Next, Step

\* Loose path consistency is stronger than Upper-Lower-Tightening: on a complete network
\* with a solution it leaves no bounds that Upper-Lower-Tightening has cut off. For more
\* than two points: between two there is no path to take, and loose path consistency
\* returns its input.
THEOREM LooseConsistencyStronger ==
  ASSUME OneWayClients, Cardinality(Points) > 2
  PROVE  Spec => []LooseConsistencyTightens
  <1>1. Init => GraphInv /\ LooseInv /\ EdgesInv /\ BelowInv /\ TightInv
    <2> SUFFICES ASSUME Init PROVE GraphInv /\ LooseInv /\ EdgesInv /\ BelowInv /\ TightInv
      OBVIOUS
    <2>1. pc = "idle" /\ result["loosePathConsistency"].outcome = "none"
          /\ result["upperLowerTightening"].outcome = "none"
      BY DEF Init, Jobs
    <2> QED
      BY <2>1, InitGraphInv DEF LooseInv, EdgesInv, BelowInv, TightInv, Returned
  <1>2. IInv /\ GraphInv /\ LooseInv /\ EdgesInv /\ BelowInv /\ TightInv /\ [Next]_vars
          => (GraphInv /\ LooseInv /\ EdgesInv /\ BelowInv /\ TightInv)'
    BY NextGraphInv, NextLooseInv, NextTight
  <1>3. IInv /\ GraphInv /\ EdgesInv /\ BelowInv /\ TightInv /\ LooseConsistencyIsEquivalent => LooseConsistencyTightens
    <2> SUFFICES ASSUME IInv, GraphInv, EdgesInv, BelowInv, TightInv, LooseConsistencyIsEquivalent
                 PROVE  LooseConsistencyTightens
      OBVIOUS
    <2>0. PICK u : u = result["upperLowerTightening"].graph
      OBVIOUS
    <2>1. PICK l : l = result["loosePathConsistency"].graph
      OBVIOUS
    <2>2. ASSUME Returned("upperLowerTightening"), Returned("loosePathConsistency"), Complete(Network),
                 Solutions(Network) # {}, NEW s \in Points, NEW t \in Points, s < t,
                 NEW b \in BothWays(l, s, t)
          PROVE  \E c \in BothWays(u, s, t) : c.lo <= b.lo /\ b.hi <= c.hi
      <3>1. DOMAIN u = DOMAIN Network
        BY <2>0, <2>2 DEF EdgesInv
      <3>2. Tight(l) /\ Below(l, Network)
        BY <2>1, <2>2 DEF TightInv
      <3>3. Below(l, u)
        BY <2>0, <2>2, <3>2 DEF BelowInv
      <3>4. s # t
        BY <2>2, PointsAssumption
      <3>5. <<s, t>> \in DOMAIN Network \/ <<t, s>> \in DOMAIN Network
        BY <2>2, <3>4 DEF Complete, BothWays, Intervals, ReverseBounds
      <3>6. CASE <<s, t>> \in DOMAIN u
        <4>1. PICK c \in u[<<s, t>>] : Within(b, c)
          BY <2>2, <3>3, <3>6 DEF Below
        <4> QED
          BY <3>6, <4>1 DEF BothWays, Intervals, Within
      <3>7. CASE <<t, s>> \in DOMAIN u
        <4>1. IsGraph(l) /\ IsGraph(u)
          BY <2>0, <3>2 DEF Tight, GraphInv, Jobs
        <4>2. b \in Bounds /\ Turned(b) \in BothWays(l, t, s)
          BY <2>2, <4>1, BothWaysTyped, BothWaysTurned
        <4>3. PICK c \in u[<<t, s>>] : Within(Turned(b), c)
          BY <3>3, <3>7, <4>2 DEF Below
        <4>4. c \in BothWays(u, t, s) /\ c \in Bounds
          BY <3>7, <4>1 DEF BothWays, Intervals, IsGraph
        <4>5. Turned(c) \in BothWays(u, s, t)
          BY <4>1, <4>4, BothWaysTurned
        <4>6. Within(b, Turned(c))
          BY <4>2, <4>3, <4>4, TurnedFacts, TurnedWithin
        <4> QED
          BY <4>5, <4>6 DEF Within
      <3> QED
        BY <3>1, <3>5, <3>6, <3>7
    <2>3. LooseConsistencyTightens <=>
            /\ LooseConsistencyIsEquivalent
            /\ Returned("upperLowerTightening") /\ Returned("loosePathConsistency")
               /\ Complete(Network) /\ Solutions(Network) # {}
               => \A s, t \in Points : s < t =>
                    \A b \in BothWays(l, s, t) : \E c \in BothWays(u, s, t) : c.lo <= b.lo /\ b.hi <= c.hi
      BY <2>0, <2>1 DEF LooseConsistencyTightens, Complete
    <2> QED
      BY <2>2, <2>3
  <1> QED
    BY <1>1, <1>2, <1>3, Invariance, LooseConsistencyEquivalent, PTL DEF Spec

=============================================================================
