---------------------------- MODULE IntervalTCN ----------------------------
(***************************************************************************)
(* Quantitative temporal constraint networks                               *)
(* (src/solvers/temporal/TemporalConstraintNetwork.cpp), the two           *)
(* algorithms that tighten them (Upper-Lower-Tightening and loose path     *)
(* consistency), the time assignment that SolutionAnalysis derives from a  *)
(* solution, and the domain propagation of SimpleTemporalNetwork.          *)
(*                                                                         *)
(* A client has a list of constraints and calls, one after the other and   *)
(* in any order, the operations on networks that are made of them. The     *)
(* loops of the operations are steps.                                      *)
(***************************************************************************)
EXTENDS IntervalBounds

CONSTANTS
  Points,      \* the time points, ordered as the vertices of the graph are
  Clients,     \* what a client may bring: constraints, domains of points, and
               \* the operations that it calls
  Valuations   \* the reference: assignments of instants to the points

VARIABLES
  client,  \* the client, from Clients
  tcn,     \* mpDistanceGraph: lists of bounds on directed edges
  old,     \* oldGraph of upperLowerTightening
  dist,    \* distanceMatrix of Floyd-Warshall
  todo,    \* the vertices that Floyd-Warshall has yet to visit
  unseen,  \* the weighted edges that propagate has yet to visit
  domain,  \* the domains of the time points
  times,   \* lowerBounds of getAssignment
  at,      \* evalTimepoint of getAssignment
  job,     \* the operation that runs
  pc,
  result   \* how the operations ended, and the graphs they returned

scratch == <<tcn, old, dist, todo, unseen, at>>
vars == <<client, scratch, domain, times, job, pc, result>>

Pairs == {e \in Points \X Points : e[1] # e[2]}
IsGraph(g) == g = [e \in DOMAIN g |-> g[e]] /\ DOMAIN g \subseteq Pairs /\ \A e \in DOMAIN g : g[e] \subseteq Bounds
Jobs == {"upperLowerTightening", "loosePathConsistency", "quantifyTime", "propagate"}

\* An entry of the lists of constraints: a required time, a transition, a duration.
Entry == [edge : Pairs, bounds : Bounds]
Client == [entries : SUBSET Entry, domains : [Points -> Bounds], calls : SUBSET Jobs]

ASSUME PointsAssumption == Points \subseteq Int /\ IsFiniteSet(Points) /\ Points # {}
ASSUME ClientsAssumption == Clients \subseteq Client
\* Required times, travel times and durations are at least 0: a negative lower bound
\* would be raised by stpWithConjunctiveIntervals.
ASSUME ForwardAssumption ==
  \A c \in Clients : "quantifyTime" \in c.calls => \A x \in c.entries : x.bounds.lo >= 0
ASSUME ValuationsAssumption ==
  /\ Valuations \subseteq [Points -> Int]
  /\ \A a \in Valuations : \A s, t \in Points : -Inf < a[t] - a[s] /\ a[t] - a[s] < Inf

-----------------------------------------------------------------------------
(* Graphs *)

\* addIntervalConstraint: the bounds of parallel constraints are collected.
AddIntervalConstraints(entries) ==
  [e \in {x.edge : x \in entries} |-> {x.bounds : x \in {y \in entries : y.edge = e}}]

Vertices(g) == {e[1] : e \in DOMAIN g} \cup {e[2] : e \in DOMAIN g}

Intervals(g, s, t) == IF <<s, t>> \in DOMAIN g THEN g[<<s, t>>] ELSE {}

\* The bounds from s to t, those of the reverse edge turned round.
BothWays(g, s, t) == Intervals(g, s, t) \cup ReverseBounds(Intervals(g, t, s))

\* Mutant: the reverse edges of the other graph.
EqualsReversed(g, h) ==
  \A s, t \in Vertices(g) : s < t => BoundsEqual(BothWays(g, s, t), BothWays(h, t, s))

\* TemporalConstraintNetwork::equals
Equals(g, h) ==
  /\ Cardinality(DOMAIN g) = Cardinality(DOMAIN h)
  /\ Cardinality(Vertices(g)) = Cardinality(Vertices(h))
  /\ \A s, t \in Vertices(g) : s < t => BoundsEqual(BothWays(g, s, t), BothWays(h, s, t))

\* Mutant: what the intervals have in common.
DisjunctiveHullInner(S) == [lo |-> Max(Lows(S)), hi |-> Min(Highs(S))]

\* stp: the hull of disjunctive intervals, at least Eps wide. The initial value
\* of the maximum is the smallest positive double.
DisjunctiveHull(S) ==
  LET lo == Min(Lows(S) \cup {Inf})
      hi == Max(Highs(S) \cup {0})
  IN  [lo |-> lo, hi |-> Larger(hi, Plus(lo, Eps))]

Stp(g) == [e \in DOMAIN g |-> {DisjunctiveHull(g[e])}]

\* stpWithConjunctiveIntervals: what the intervals have in common.
ConjunctiveHull(S) == [lo |-> Max(Lows(S) \cup {0}), hi |-> Min(Highs(S) \cup {Inf})]

StpWithConjunctiveIntervals(g) == [e \in DOMAIN g |-> {ConjunctiveHull(g[e])}]

\* Mutant: the upper bounds backward, too.
WeightsOfUpperBounds(g, s, t) == Highs(Intervals(g, s, t)) \cup {-x : x \in Highs(Intervals(g, t, s))}

\* toWeightedGraph: upper bounds forward, negated lower bounds backward. Two
\* parallel edges count with the smaller weight.
Weights(g, s, t) == Highs(Intervals(g, s, t)) \cup {-x : x \in Lows(Intervals(g, t, s))}

WeightMatrix(g) ==
  [p \in Points \X Points |->
     IF p[1] = p[2] THEN 0 ELSE Min(Weights(g, p[1], p[2]) \cup {Inf})]

\* Mutant: the two distances are swapped.
MinNetworkSwapped(g, d) ==
  [e \in DOMAIN g |-> {[lo |-> d[e], hi |-> -d[<<e[2], e[1]>>]]}]

\* The minimal network of a simple network, from the shortest distances.
MinNetwork(g, d) ==
  [e \in DOMAIN g |-> {[lo |-> -d[<<e[2], e[1]>>], hi |-> d[e]]}]

\* TemporalConstraintNetwork::intersection with a simple network
IntersectionWith(g, simple) ==
  [e \in DOMAIN g \cap DOMAIN simple |-> Intersection(g[e], simple[e])]

-----------------------------------------------------------------------------
(* The steps of loose path consistency *)

\* Mutant: the second edge of a path is turned round.
ThroughThirdTurned(g, s, t) ==
  LET Meet(k, list) == Composition(BothWays(g, s, k), BothWays(g, t, k))
  IN  MapThenFoldSet(Meet, {}, LAMBDA k : k, Max, Vertices(g) \ {s, t})

\* What the paths from s to t over a third vertex leave possible. An empty list
\* is no constraint: of the list so far as well as of the next path.
ThroughThird(g, s, t) ==
  LET Path(k) == Composition(BothWays(g, s, k), BothWays(g, k, t))
      Meet(k, list) ==
        CASE list = {} -> Path(k)
          [] list # {} /\ Path(k) = {} -> list
          [] OTHER -> Intersection(list, Path(k))
  IN  MapThenFoldSet(Meet, {}, LAMBDA k : k, Max, Vertices(g) \ {s, t})

IntersectionNetwork(g) ==
  [e \in {p \in Vertices(g) \X Vertices(g) : p[1] < p[2]} |-> ThroughThird(g, e[1], e[2])]

\* The edge is turned round if one of its bounds is negative.
LooseIntersectionNetwork(g, h) ==
  LET Kept(s, t) == LET a == BothWays(g, s, t)
                        b == BothWays(h, s, t)
                    IN  IF a = {} THEN b ELSE LooseIntersection(a, b)
      Forward == {p \in Vertices(g) \X Vertices(g) : p[1] < p[2]}
      Turned == {p \in Forward : IncludesNegative(Kept(p[1], p[2]))}
  IN  [e \in (Forward \ Turned) \cup {<<p[2], p[1]>> : p \in Turned} |->
         IF e[1] < e[2] THEN Kept(e[1], e[2]) ELSE ReverseBounds(Kept(e[2], e[1]))]

CheckConsistency(g) == \A e \in DOMAIN g : g[e] # {}

-----------------------------------------------------------------------------
(* The client *)

NoGraph == AddIntervalConstraints({})
NoDist == [p \in Points \X Points |-> 0]
NoTimes == [p \in {} |-> 0]
WithTime(p, x) == [q \in DOMAIN times \cup {p} |-> IF q = p THEN x ELSE times[q]]
Nowhere == CHOOSE p \in Points : TRUE
Outcomes == {"none", "returned", "threw", "undefined"}

Network == AddIntervalConstraints(client.entries)

Init ==
  /\ client \in Clients
  /\ tcn = NoGraph /\ old = NoGraph /\ dist = NoDist
  /\ todo = {} /\ unseen = {} /\ at = Nowhere
  /\ domain = client.domains
  /\ times = NoTimes
  /\ job = "none"
  /\ pc = "idle"
  /\ result = [j \in Jobs |-> [outcome |-> "none", graph |-> NoGraph]]

Call(j) ==
  /\ pc = "idle" /\ j \in client.calls /\ result[j].outcome = "none"
  /\ job' = j
  /\ UNCHANGED <<client, result>>

\* The operation ends, and its locals with it.
Return(outcome, g) ==
  /\ pc' = "idle"
  /\ result' = [result EXCEPT ![job] = [outcome |-> outcome, graph |-> g]]
  /\ tcn' = NoGraph /\ old' = NoGraph /\ dist' = NoDist
  /\ todo' = {} /\ unseen' = {} /\ at' = Nowhere
  /\ UNCHANGED <<client, job>>

BeginShortestPaths(g) ==
  /\ dist' = WeightMatrix(g)
  /\ todo' = Vertices(g)
  /\ pc' = "paths"

-----------------------------------------------------------------------------
(* Shortest paths, for all operations *)

\* One vertex of Floyd-Warshall.
Relax(k) ==
  /\ pc = "paths" /\ k \in todo
  /\ dist' = [p \in Points \X Points |->
                Smaller(dist[p], Plus(dist[<<p[1], k>>], dist[<<k, p[2]>>]))]
  /\ todo' = todo \ {k}
  /\ UNCHANGED <<client, tcn, old, unseen, at, domain, times, job, pc, result>>

NegativeCycle == \E p \in Points : dist[<<p, p>>] < 0

\* Floyd-Warshall throws on a negative cycle, through all callers.
ShortestPathsThrow ==
  /\ pc = "paths" /\ todo = {} /\ NegativeCycle
  /\ Return("threw", NoGraph)
  /\ UNCHANGED <<domain, times>>

HaveShortestPaths(j) == pc = "paths" /\ todo = {} /\ ~ NegativeCycle /\ job = j

-----------------------------------------------------------------------------
(* Upper-Lower-Tightening *)

UpperLowerTightening ==
  /\ Call("upperLowerTightening")
  /\ tcn' = Network
  /\ pc' = "tighten"
  /\ UNCHANGED <<old, dist, todo, unseen, at, domain, times>>

\* The head of the loop: remember the graph, take the hulls.
Tighten ==
  /\ pc = "tighten"
  /\ old' = tcn
  /\ tcn' = Stp(tcn)
  /\ BeginShortestPaths(Stp(tcn))
  /\ UNCHANGED <<client, unseen, at, domain, times, job, result>>

\* The rest of the loop: the intersection of the old graph with the minimal one.
Intersect ==
  /\ HaveShortestPaths("upperLowerTightening")
  /\ \E tighter \in {IntersectionWith(old, MinNetwork(tcn, dist))} :
       \/ /\ Equals(tighter, old)
          /\ Return("returned", tighter)
       \/ /\ ~ Equals(tighter, old)
          /\ tcn' = tighter
          /\ pc' = "tighten"
          /\ UNCHANGED <<client, old, dist, todo, unseen, at, job, result>>
  /\ UNCHANGED <<domain, times>>

-----------------------------------------------------------------------------
(* Loose path consistency *)

LoosePathConsistency ==
  /\ Call("loosePathConsistency")
  /\ tcn' = Network
  /\ pc' = "loose"
  /\ UNCHANGED <<old, dist, todo, unseen, at, domain, times>>

\* The loop returns the graph from before its last turn.
Loosen ==
  /\ pc = "loose"
  /\ \E paths \in {IntersectionNetwork(tcn)} :
     \E tighter \in {LooseIntersectionNetwork(tcn, paths)} :
       LET Stop == Equals(tcn, tighter) \/ ~ CheckConsistency(tighter)
       IN  \/ Stop /\ Return("returned", tcn)
           \/ /\ ~ Stop
              /\ tcn' = tighter
              /\ UNCHANGED <<client, old, dist, todo, unseen, at, job, pc, result>>
  /\ UNCHANGED <<domain, times>>

-----------------------------------------------------------------------------
(* SolutionAnalysis::quantifyTime *)

QuantifyTime ==
  /\ Call("quantifyTime")
  /\ tcn' = Stp(StpWithConjunctiveIntervals(Network))
  /\ BeginShortestPaths(Stp(StpWithConjunctiveIntervals(Network)))
  /\ UNCHANGED <<old, unseen, at, domain, times>>

StartPoints(g) == {p \in Vertices(g) : \A e \in DOMAIN g : e[2] # p}

\* minNetwork, then the head of getAssignment: the one point without in-edges.
BeginAssignment ==
  /\ HaveShortestPaths("quantifyTime")
  /\ \/ /\ Cardinality(StartPoints(tcn)) = 1
        /\ tcn' = MinNetwork(tcn, dist)
        /\ at' \in StartPoints(tcn)
        /\ times' = [p \in {at'} |-> 0]
        /\ pc' = "assign"
        /\ UNCHANGED <<client, old, dist, todo, unseen, job, result>>
     \/ /\ Cardinality(StartPoints(tcn)) # 1
        /\ Return("threw", NoGraph)
        /\ UNCHANGED times
  /\ UNCHANGED domain

OutEdges(g, p) == {e \in DOMAIN g : e[1] = p}

\* IntervalConstraint::getLowerBound
LowerBound(S) == Min(Lows(S) \cup {Inf})

\* The out-edge with the least lower bound leads to the next point, the first
\* of several. If none is less than Inf, the next point is a null pointer.
AssignNext ==
  /\ pc = "assign" /\ OutEdges(tcn, at) # {}
  /\ \/ \E e \in OutEdges(tcn, at) :
          /\ LowerBound(tcn[e]) < Inf
          /\ \A f \in OutEdges(tcn, at) : LowerBound(tcn[e]) <= LowerBound(tcn[f])
          /\ at' = e[2]
          /\ times' = WithTime(e[2], Plus(times[at], LowerBound(tcn[e])))
          /\ UNCHANGED <<client, tcn, old, dist, todo, unseen, job, pc, result>>
     \/ /\ \A f \in OutEdges(tcn, at) : LowerBound(tcn[f]) = Inf
        /\ Return("undefined", NoGraph)
        /\ UNCHANGED times
  /\ UNCHANGED domain

\* The final point: the times are complete, the latest is the horizon.
AssignmentDone ==
  /\ pc = "assign" /\ OutEdges(tcn, at) = {}
  /\ Return("returned", tcn)
  /\ UNCHANGED <<domain, times>>

-----------------------------------------------------------------------------
(* SimpleTemporalNetwork *)

\* Mutant: both edges forward.
WeightedEdgesForward(g) ==
  UNION {UNION {{<<e, b.hi>>, <<e, -b.lo>>} : b \in g[e]} : e \in DOMAIN g}

\* addInterval: an edge forward with the upper bound, one backward with the
\* negated lower bound.
WeightedEdges(g) ==
  UNION {UNION {{<<e, b.hi>>, <<<<e[2], e[1]>>, -b.lo>>} : b \in g[e]} : e \in DOMAIN g}

\* hasNegativeCycle
Propagate ==
  /\ Call("propagate")
  /\ tcn' = Network
  /\ BeginShortestPaths(Network)
  /\ UNCHANGED <<old, unseen, at, domain, times>>

BeginVisits ==
  /\ HaveShortestPaths("propagate")
  /\ unseen' = WeightedEdges(tcn)
  /\ pc' = "visit"
  /\ UNCHANGED <<client, tcn, old, dist, todo, at, domain, times, job, result>>

\* A bound of a time point is an unsigned integer: a conversion of anything else
\* is undefined.
Representable(x) == 0 <= x /\ x < Inf

\* An edge with a positive weight raises the lower bound of its target, any
\* other one lowers the upper bound.
Visit(x) ==
  LET source == x[1][1]
      target == x[1][2]
      weight == x[2]
      lo == Larger(Plus(domain[source].lo, weight), domain[target].lo)
      hi == Smaller(Plus(domain[source].hi, weight), domain[target].hi)
      bound == IF weight > 0 THEN lo ELSE hi
  IN  /\ pc = "visit" /\ x \in unseen
      /\ \/ /\ Representable(bound)
            /\ domain' = IF weight > 0 THEN [domain EXCEPT ![target].lo = lo]
                         ELSE [domain EXCEPT ![target].hi = hi]
            /\ unseen' = unseen \ {x}
            /\ UNCHANGED <<client, tcn, old, dist, todo, at, job, pc, result>>
         \/ /\ ~ Representable(bound)
            /\ Return("undefined", NoGraph)
            /\ UNCHANGED domain
      /\ UNCHANGED times

VisitsDone ==
  /\ pc = "visit" /\ unseen = {}
  /\ Return("returned", tcn)
  /\ UNCHANGED <<domain, times>>

-----------------------------------------------------------------------------
Step ==
  \/ \E k \in Points : Relax(k)
  \/ ShortestPathsThrow
  \/ Tighten \/ Intersect
  \/ Loosen
  \/ BeginAssignment \/ AssignNext \/ AssignmentDone
  \/ BeginVisits \/ VisitsDone
  \/ \E x \in unseen : Visit(x)

Next ==
  \/ UpperLowerTightening
  \/ LoosePathConsistency
  \/ QuantifyTime
  \/ Propagate
  \/ Step

Spec == Init /\ [][Next]_vars /\ WF_vars(Step)

-----------------------------------------------------------------------------
(* Properties *)

TypeOK ==
  /\ client \in Clients
  /\ IsGraph(tcn) /\ IsGraph(old)
  /\ dist \in [Points \X Points -> Number]
  /\ todo \subseteq Points
  /\ unseen \subseteq Pairs \X Number
  /\ at \in Points
  /\ domain \in [Points -> Bounds]
  /\ DOMAIN times \subseteq Points /\ \A p \in DOMAIN times : times[p] \in Number
  /\ job \in Jobs \cup {"none"}
  /\ pc \in {"idle", "paths", "tighten", "loose", "assign", "visit"}
  /\ DOMAIN result = Jobs /\ \A j \in Jobs : result[j].outcome \in Outcomes /\ IsGraph(result[j].graph)

\* A valuation keeps one of the disjunctive bounds of every edge, or all of them.
Keeps(a, e, b) == b.lo <= a[e[2]] - a[e[1]] /\ a[e[2]] - a[e[1]] <= b.hi

Solutions(g) == {a \in Valuations : \A e \in DOMAIN g : \E b \in g[e] : Keeps(a, e, b)}
ConjunctiveSolutions(g) ==
  {a \in Valuations : \A e \in DOMAIN g : \A b \in g[e] : Keeps(a, e, b)}

\* What the constraints mean to an operation: durations and transitions between two
\* points hold together, disjunctive intervals do not.
SolutionsFor(j) ==
  IF j \in {"upperLowerTightening", "loosePathConsistency"} THEN Solutions(Network)
  ELSE ConjunctiveSolutions(Network)

Returned(j) == result[j].outcome = "returned"
Tightening(j) == job = j /\ pc # "idle"

\* The network that Upper-Lower-Tightening returns is equivalent to its input: no
\* turn of the loop loses or gains a solution, although it works on hulls and on
\* their minimal network.
TighteningIsEquivalent ==
  /\ Tightening("upperLowerTightening") =>
       /\ Solutions(Network) \subseteq Solutions(tcn)
       /\ pc = "tighten" => Solutions(tcn) \subseteq Solutions(Network)
  /\ Returned("upperLowerTightening") =>
       Solutions(result["upperLowerTightening"].graph) = Solutions(Network)

\* So is the network of loose path consistency, although a loose intersection is an
\* approximation and an empty list is read as no constraint.
LooseConsistencyIsEquivalent ==
  /\ Tightening("loosePathConsistency") => Solutions(tcn) = Solutions(Network)
  /\ Returned("loosePathConsistency") =>
       Solutions(result["loosePathConsistency"].graph) = Solutions(Network)

\* Moreover it is "stronger than ULT": on a complete network it leaves no bounds that
\* Upper-Lower-Tightening has cut off.
LooseConsistencyTightens ==
  /\ LooseConsistencyIsEquivalent
  /\ LET ult == result["upperLowerTightening"].graph
         lpc == result["loosePathConsistency"].graph
     IN  /\ Returned("upperLowerTightening") /\ Returned("loosePathConsistency")
         /\ \A s, t \in Points : s # t => BothWays(Network, s, t) # {}
         /\ Solutions(Network) # {}
         => \A s, t \in Points : s < t =>
              \A b \in BothWays(lpc, s, t) :
                \E c \in BothWays(ult, s, t) : c.lo <= b.lo /\ b.hi <= c.hi

\* A negative cycle is found only in networks without a solution, in spite of the
\* intervals that stp() widens; quantifyTime also throws without a single start.
ThrowsOnlyUnsolvable ==
  \A j \in Jobs : result[j].outcome = "threw" =>
    \/ SolutionsFor(j) = {}
    \/ j = "quantifyTime" /\ Cardinality(StartPoints(Network)) # 1

\* The times of getAssignment are lower bounds: no way to keep all constraints
\* reaches a time point earlier, so the time horizon is never too late.
TimesAreLowerBounds ==
  \A a \in ConjunctiveSolutions(Network) : \A s \in StartPoints(Network) :
    \A p \in DOMAIN times : times[p] <= a[p] - a[s]

\* The upper bounds that propagate() lowers cut off no solution, in any order of
\* the edges.
UpperBoundsKept ==
  \A a \in ConjunctiveSolutions(Network) :
    (\A p \in Points : client.domains[p].lo <= a[p] /\ a[p] <= client.domains[p].hi)
    => \A p \in Points : a[p] <= domain[p].hi

\* The times and bounds that are found, by either way, are right for every
\* solution.
TimesKeepSolutions == TimesAreLowerBounds /\ UpperBoundsKept

\* Every operation returns: the loops of both algorithms reach their fixpoint.
OperationsEnd == pc # "idle" ~> pc = "idle"
=============================================================================
