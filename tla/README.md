# Verification of the TemPl mission planner

TemPl plans missions for reconfigurable multi-robot systems: a mission names
requirements (which agents, with which functions, at which location, during
which interval), and the planner searches for timelines of agents that satisfy
them. This directory holds a TLA+ model of the planner's core, the TLC runs
that check it and the TLAPS proofs about it. Paths below are relative to the
repository; `TransportNetwork.cpp` without a directory is
`src/solvers/csp/TransportNetwork.cpp`.

## The system

| Component | State | Operations | Talks to |
|---|---|---|---|
| point algebra (`solvers/temporal/point_algebra`) | constant tables | intersection, composition, symmetry of constraint types | used by both temporal networks |
| `QualitativeTemporalConstraintNetwork` | multigraph of time points, set of changed pairs | add, remove, compact, three consistency checks | `TimePointComparator` probes it, the CSP reads it |
| temporal CSP (`csp/TemporalConstraintNetwork`) | one integer per time point | post edges, search, sort, translate | called by the network and by the first stage |
| `TransportNetwork` | Gecode space: temporal network, cardinalities of models and roles per requirement, a set variable per agent and time-expanded location | constructor, stage branchers, `updateTimeline`, constraint posting, cloning | propagators, `FlawResolution`, `MinCostFlow` |
| propagators (`csp/propagators`) | queue of assigned variables, waypoints, counts of in-edges | `IsPath`, `InEdgesRestriction`, `MultiCommodityFlow`, ... | run by Gecode on the timelines |
| search (`TransportNetwork::solve`, `Gecode::RBS`) | master and slave space, last solution, cutoff, epochs | `master`, `slave`, `next`, restart, stop | logger, flaw resolution |
| `FlawResolution` | options and draws of a solution | `prepare`, `next`, `selectBestResolution`, `evaluate` | called by `slave` and `next` |
| min-cost flow (`transshipment`, `postMinCostFlow`) | space-time network of a space, roles by tag, weights; static cache of flows | build the network, `run`, flaws, propagate items | external LP solver, `SolutionAnalysis` |
| temporal networks of intervals (`solvers/temporal`) | lists of intervals per pair of time points, bounds | Upper-Lower-Tightening, loose path consistency, assignment of times, propagation of bounds | `SolutionAnalysis` quantifies time with them |
| mission constraints, `FluentTimeResource` | requirements with bounds and required functions | apply a constraint, compact, domain, mutual exclusion | the stages of `TransportNetwork` post them |
| chronicles and timelines | assertions per state variable | consistency of a timeline | mission preparation |
| `Mission`, `Location` | assertions, explicit and implied constraints, resources; a process-wide registry of locations | add requirements and constraints, compact them, `prepare` | everything |
| `MissionReader`, `MissionWriter` | the file of a mission | `fromFile`, `write` | `Mission`, the registry |
| `Solution`, `SolutionAnalysis`, `Plan` | space-time network of a solution | metrics, plans | after the search |
| agent routing, benchmark, GUI, command line | - | - | around the planner |

What is hard in it:

* *Order.* The sets of changed pairs are ordered by addresses, third vertices
  by the graph library, propagators by Gecode's queue. Verdicts may depend on
  none of it.
* *State left behind.* A read of the temporal network adds edges; a probe adds
  one and takes it back; an exception ends a check half-way; removing a
  constraint leaves what was derived from it.
* *Copies.* The engine rebuilds alternatives from copies of spaces, stored at
  depths of its own choice; symmetry breaking drops some of them.
* *Restarts.* Constraints posted in the master outlive the slave they came
  from; bounds, draws and counters live for an epoch, the list of solutions for
  the call.
* *Ends.* Two timeouts, a failure cutoff, a number of solutions, an exhausted
  search, exceptions and a keyboard wait compete to end the search.
* *Shared results.* Flows are cached for all spaces under a key; plans, flaws and
  metrics are read back from tags that several passes put on one network.
* *Files.* A mission is not written as it is, but compacted, numbered anew and
  without what it implies; what a reader builds from it is written again.
* *Numbers.* Bounds of time are unsigned here and doubles there, infinity is the
  largest double, and an empty list of intervals means two things.

`PROJECT.json` lists each of these hazards at its line with the properties that
are about it.

## Modules

**PointAlgebra** transcribes the tables of `QualitativeTimePointConstraint.cpp`.
`Primitives` and `Holds` are the reference: a type is a set of primitive
orders, and holds of two instants. `CompositionIsExact` leaves out Distinct,
whose rows are not the composition of the point algebra (`<` composed with `!=`
is `!=` in the code).

**QualitativeTCN** is `QualitativeTemporalConstraintNetwork` with its client.
`edge[<<i, j>>]` is the list of parallel edges from i to j, `updated` is
`mUpdatedConstraints`. A check is a loop over pairs and third vertices: `running`
names it, `current` and `pending` hold the popped pair and the triangles left
for it, `queue` is the local set of the algorithm of van Beek and Manak.
`IncrementalPop`, `IncrementalRevise` and `IncrementalDone` are
`incrementalPathConsistency` with `composition` and `revise`;
`BeekManakPop`, `BeekManakRevise` and `BeekManakDone` are
`pathConsistency_BeekManak` with `getConstraintType`; `CheckGecode` is the default
check, a search over one integer per vertex; `AddConstraint` includes
`compactConstraint`; `GreaterThan` is the probe of `TimePointComparator`. `Look` and
`Created` model the reads, which add a Universal edge to a pair without one and
record the pair. A pop takes any queued pair and a revision any pending triangle.

**TransportSearch** is `TransportNetwork::solve` with the meta engine (the
repository keeps a copy of Gecode's RBS in `csp/search/meta/rbs.cpp`, which is the
reference for its loop). A space is the set of plans its constraints admit.
`NewEpoch` and `EpochOver` are the outer loop; `Find`, `FindUnpriced`,
`Stopped`, `Cutoff` and `Exhausted` are the answers of the depth-first search;
`RestartAfterSolution` and `Cutoff` call `master` (with the bound of
`constrain` and any no-goods); `SlaveIsMaster`, `SlaveWithoutOptions`,
`SlaveResolves`, `SlaveFails` and `SlaveThrows` are the paths of `slave` and
`next`, including the draws of `FlawResolution::next`. The constraint of a resolver
holds in the slave's root but in no space rebuilt from a copy of it (see
RoleAssignment), so the plans of a slave are any between those that improve and those
that the resolver also allows. `Tick` is the clock.

**TimelinePlans** is the reference of the timelines: paths, requirements, access
constraints. **Timelines** is the abstract specification of a search for them:
`Post` keeps exactly the demanded plans, `Decide` splits them, `Fail` needs an empty
set, `Finish` one path for every mobile role.

**TimelineCSP** is `postRoleAssignments` and what Gecode then runs. `dom[r][<<t, l>>]`
is the set variable with index t * locations + l of role r, as the upper bound of
the set and whether it must have an element (at most one is allowed).
`FailWithoutRoles`, `PostRequirement` and `PostPropagators` are the function;
requirements are told to all their roles at once, where the code has a loop over
roles outside (the roles do not interact there). `PropagateRow` stands for
Gecode's cardinality and linear constraints. `SkipHandled`, `HandleMove` and
`HandleEmpty` are one turn each of the loop of `IsPath::propagate`, which other
propagators do not interrupt (`running`), `IsPathDone` is what follows it.
`RestrictInEdges` is `InEdgesRestriction::propagate`. `Narrow` calls the advisors.
`Branch` decides in a clone; a search path is a behaviour, backtracking another one.
`PossiblePlans` is the refinement mapping into Timelines: the plans that the
domains admit and the access constraints allow.

**IntervalBounds** is the arithmetic of intervals: lists of bounds as sets, with their
intersection, composition, reversal and the loose intersection. `DisjointIntervals` is
declared by what the in-place merge of the code returns; the two are equal in every
order of a list (checked for lists of up to four bounds on 0..4). `Plus` saturates at
`Inf`, the largest double.

**IntervalTCN** is `TemporalConstraintNetwork` with `LoosePathConsistency`,
`SimpleTemporalNetwork`, and the quantification of time in `SolutionAnalysis`.
A client calls one of four operations on a network. `Relax` and
`NegativeCycle` are single steps of the external shortest-path algorithm;
`Tighten` and `Intersect` are a turn of `upperLowerTightening`, `Loosen` one of
`loosePathConsistency`, `BeginAssignment`, `AssignNext` and `AssignmentDone` are
`getAssignment` with `getTimeHorizon`, `Propagate`, `Visit` and `VisitsDone` are
`SimpleTemporalNetwork::propagate` with its unsigned casts, in any order of the edges.

**RoleAssignment** is the transport CSP before the timelines. A space is the set of
distributions (for every requirement the number of agents of a model and the agents)
that it admits: how far propagation has come is left out. `Requirement`, `Bounds`,
`Functions`, `WithinBounds` and `Domain` are what `Mission` and `FluentTimeResource` make
of the persistence conditions; `Kept` is what `MissionConstraints` posts;
`Distribution` conjoins all stages of `postTemporalConstraints`. `BranchOrder` decides
the time points, `BranchUsage` and `BranchRole` the models and roles, `PostRoleAssignments`
hands a distribution on. `Descend` and `Backtrack` are Gecode's depth-first search, whose
choice of the copies to store, by depth and cost, is any choice: a copy is
from before or after the constraints were posted (`cloned`). What a copy lacks is
`mConstraints`, so an alternative rebuilt from the root's copy posts no resolver
(`extra`); `plain` is what it then admits. LDSB drops any set of twins.

**Transshipment** is `postMinCostFlow` for one space after the other, over the demands and
paths of TimelinePlans: what a solved timeline CSP hands on is a route for every mobile role.
`network` is the `SpaceTime::Network` with its REQUIRED and ASSIGNED roles and the weights
of its edges. `Depart`, `Stay`, `Drive` and `Arrive` are the turns of the loops of
`FlowNetwork::initialize`, in the order of the roles, `capacity` is its local variable;
`Refuse` and `RefuseItem` are the exceptions. `Flow` is `MinCostFlow::run`: the linear
program is external, it takes any flow that meets the requirements if one fits the
weights, and else any flow of some of the units (`Solver`); `Flowing` is `updateRoles`,
`InvalidTransitions` the coalitions that cannot move, and any others if the check runs out of its
time. `Violations` are those that `validateInflow` finds at the points, item by item (`TransFlow`)
and of all items together (`TotalTransFlow`). `computeFlaws` skips every type but the three in
`Kept` (`MinCostFlow.cpp:285-291`): `Short` is what remains at the points, where an item that is
missed is no flaw as long as others, needed there or not, fill the total; `Unsent` is what
remains at the depots. `Hit` and `Store` are the cache, `GiveUp` the failed propagation of the
items' points, which ends without flaws and cost, `Analyse` the rest, and `AnalysisThrows`
its `catch`: an exception of the analysis fails a space, with flaws or without. `Plan` and
`Fulfilled` are what `SolutionAnalysis` reads from the network. Two things are assumed of the
external program. The total that a point requires is the sum of what `setMinTransFlow` asks for
there (`FlawResolution.cpp:321-337` takes it for the flow plus what is missing). And a unit flows
from depot to depot or not at all, so the balance is violated at the depots only, by a unit
that is not sent, for which no other item can make up.

**MissionFiles** is how a `Mission` is built, written and read. `mission.conditions` are the
assertions, `mission.constraints` the list of constraints of which `implicit` are implied,
`registry` is `Location::msLocations`. `AddRequirement`, `AddOrder`, `AddDuration`,
`AddModelConstraint`, `SetAvailableResources` and `CreateLocation` are the calls of a
client; `AddCondition` is `addTemporalAssertion` with the order that an interval implies,
`Identity` the `operator==` by which `addConstraint` drops repetitions. `Requirement` is
`getResourceRequirements` with the bounds of the pool. `Save` is `MissionWriter::write`:
`Written` is the file, with the requirements numbered from zero, the `Resources` that
restrict something (`TemporalElements`, `ModelElements`: explicit constraints only), and
references as numbers or names (`Reference`; for a place without a requirement the code makes an exception and does
not throw it, so the number is any). `Load` is `MissionReader::fromFile`, `Readable` what makes
it throw. `Restart` is a later process with an empty registry.

**MCQualitativeTCN**, **MCTransportSearch**, **MCTimelineCSP**, **MCIntervalTCN**,
**MCRoleAssignment**, **MCTransshipment** and **MCMissionFiles** define the instances for TLC.
**QualitativeTCNProofs**, **QualitativeTCNCompleteness**, **TransportSearchProofs**,
**TimelineCSPProofs**, **IntervalTCNProofs**, **RoleAssignmentProofs**,
**TransshipmentProofs** and **MissionFilesProofs** hold the theorems.

## Runs

| Run | Question | Bounds |
|---|---|---|
| `qtcn_decides` | Do Gecode's search and incremental path consistency decide, in every order and after each other and after probes? Does every step of a check make progress and keep every solution, and do probes answer right? | 3 points, 3 constraints of `<`, `<=` in any direction |
| `qtcn_beek_manak` | Does van Beek and Manak's algorithm decide triangles, with removals before it? | the same, no probes |
| `qtcn_compaction` | violated: contradictory parallel edges refute the network | 3 points, 3 constraints |
| `transport_search` | Does `solve` lose plans, end epochs without a reason, reuse draws, overwrite sessions, fail to end? | 5 plans, 2 flaws, all 16 option sets, epoch timeout 1, total timeout 2, clocks to 3, failure limit to 4 |
| `timelines` | Do the timelines implement their promise, whatever the order of propagators and decisions? Are paths kept, dead ends removed, solutions paths, does the search end? | 4 time points, 2 locations, 2 roles, 11 demands |
| `timelines_touching` | violated: the interval of every requirement is activated | the same, 2 demands with requirements that touch |
| `interval_networks` | Are the tightened networks equivalent to their input, exceptions and the order of the two algorithms right, do assigned times and propagated bounds cut off no solution (`TimesKeepSolutions`), do the operations end? | 3 time points, bounds that are multiples of 2, horizon 14, infinity 1000 |
| `role_assignment` | Does every distribution that reaches the timelines keep the mission, ask for no agent at two places at once, is none missed, does the search end? | 3 agents of 2 models, 2 functions, 3 requirements at 2 locations, 2 orders, 13 searches |
| `role_resolvers` | violated: what a slave hands on keeps its resolver | the same |
| `flow` | What does a flow without flaws promise, although only totals are looked at, is every lack of flow a lack of room, is the flow a space ends with its own, do plans and efficacy say what the flow does? | 4 time points, 2 locations, 2 mobile agents, 2 items, 9 demands, capacities and loads up to 2, 2 spaces, cache, flaws and coalition check on or off |
| `flow_capacity` | violated: the items on an edge fit into the agents that drive along it | one demand, capacities 1 |
| `mission_files` | Can what was saved be loaded, and does it demand and constrain what it did, through any sequence of saves, loads, edits and restarts? | 3 edits, 2 locations, 2 intervals, 1 model, 1 function, pools of 2 and 0 |

*Why the bounds are enough.* Every step of the path consistency checks concerns
one triangle, so three points hold every local situation, and three constraints
close a cycle; `<` and `<=` with both directions of a pair generate all types but
Distinct. Three instants realise every order of three points. The five plans of
`TransportSearch` are one of each kind: flawless, flawless but unpriced, with a
flaw that has a resolver, with one that has none, with both. A failure limit of
4 gives three different cutoffs; the clocks pass both timeouts. The limit is a bound of the
model: the geometric sequence of the code goes on (`NextLimit` stays at `MaxFails`).

That a check returns is `ChecksProgress`, an action property: every step of a check lowers
a well-founded measure (primitives left on the edges, queued pairs, pending
triangles), so a check that is stepped takes finitely many steps.

`timelines` has a first, a last and two inner time points, so that each comparison of
`IsPath` is on both sides; instants and intervals at the beginning, the end and
within; a role that only starts, one that is not mobile, no active role at all,
maxima and minima of access that bind and that cannot be met. In its
demands no two requirements of a role share a time point: those that do are the
finding of `timelines_touching`. No location is restricted for two models.

`interval_networks` has every network over three time points whose intervals lie on a
grid on which the algorithms can cut them into pieces; on three points a pair
has one way over a third, and both directions of it. The horizon is longer than any
sum of bounds, infinity longer than any sum of them and the horizon, so a sum that
wraps or is cut shows. Solutions are looked for among all valuations up to the horizon.

`role_assignment` has every type of model constraint at work, in a search of its own: a
master, or a slave with a resolver, with and without an agent to spare. The third
requirement comes after the others in one order and touches them in the
other; two agents are twins, the third is not mobile; some searches hand on
distributions in which only the immobile agent is active. Every search hands on at
least one distribution.

`flow` has convoys whose agents share an edge and part, come along, or come too late; items
that stay, that are needed at the end only, that have no start, no interval or no weight,
that take two places, together or split; agents before and after items in the list
of roles. In `StandIn` nobody fetches an item, and another one, which waits where the
first is needed but is not needed there itself, fills the total: the case for which
`FlawlessIsCarried` speaks of units of any items, and `EfficacyIsHonest` has its second
alternative. Two spaces are enough for a hit of the cache on the same and on other requirements.
Four time points have two hops after the shared one.

`mission_files` needs two edits for a place whose requirement restricts nothing next to one
that demands something, and a third for a model constraint that refers to either: the
shortest way to a file that another requirement must be read for, or that is refused. Three
edits also make an order that is implied and explicit, in both orders of the calls, or a
contradiction. Saves, loads and restarts are not bounded. The one position and a
duration have seven digits, so that what the writer rounds shows.

*Symmetry* of points is used in the three runs of QualitativeTCN, of locations in
`mission_files`. These runs check invariants and, in `qtcn_decides`, one action property,
and no liveness. None of them tells one point or location from another, and where the
modules CHOOSE, there is one value to choose.

*Fairness.* `solve` runs on:
`WF(SearchStep)`. Time passes: `SF(Tick)`, strong because the steps between two
ticks come and go from phases in which a tick is enabled. `WF(UserPressesReturn)`
is an assumption about the user, without which `next` waits on `std::cin` for ever.
`WF(Next)` in TimelineCSP: propagation and branching are one loop of the engine, which
does not stop before a solution or a failure. `WF(Step)` in IntervalTCN: an operation
is a call that runs on. `WF(Next)` in RoleAssignment: the engine explores until
nothing is left (restarts are TransportSearch).

The runs of TransportSearch switch off deadlock checking: `done` and `threw` are the
ends of `solve`. A client of the temporal network may run out of its constraints,
but can check again, so those runs keep it on. TimelineCSP ends at `solved` and
`failed`; that it ends nowhere else is `SearchEnds`, and so for RoleAssignment, which
ends when no space is left. The client of IntervalTCN makes a bounded number of calls,
and `OperationsEnd` says that each returns. Transshipment stops when the last space has
ended, or on an exception; all that it does before takes finitely many steps by its shape, so
there is no liveness property. MissionFiles can always save, and nothing in it has to happen.

## Findings

* `compactConstraint` drops a contradiction between parallel constraints together
  with the constraints, though its header says that it throws.
* Of two requirements of a role that touch at a time point (mutual exclusion does
  not count them as overlapping) one may be lost: the tells for them fail, nobody
  looks at the result, and a failing tell does not fail the space.
* The copy constructor of `TransportNetwork` is to be a deep copy, but leaves out the
  constraints added to a slave: spaces rebuilt from the root's copy do not keep them.
* An agent that drives along an edge which another one uses takes the capacity of both on
  to the edges after it: flows without flaws may load more than the agents carry.

Other divergences met while modelling, without a run of their own, are hazards with a
note (`greaterThan` answers whether an order is possible; the total timeout is looked
at between epochs only; hill-climbing holds within an epoch only; a required duration may
be longer than the times `getAssignment` gives its ends; the lower bounds that
`SimpleTemporalNetwork::propagate` raises are too high where a duration is not fixed, as it adds
the longest one, so `TimesKeepSolutions` speaks of the upper bounds only; an item may be missed
without a flaw). Four more without a hazard: `ModelConstraint.hpp:42-49` defines
MIN_DISTINCT by the difference of two cardinalities, the code posts the size of the
symmetric difference; role usage may exceed the MAX cardinality of a requirement
when it is relaxed (the bound is on the model usage, `TransportNetwork.cpp:699-712`); the
total offset is compared with a sum of running maxima (`734-754`), which is stricter than
its comment; `FluentTimeResource::operator==` compares `mpLocation` with itself.

What is lost between a mission and its file, each in MissionFiles by what it does: only
the first interval of a duration with several is read; all numbers are cut to six
digits; what a requirement that restricts nothing implied is gone; a second duration
on a pair is dropped; a maximum at or above the pool is not written.

## Proofs

*QualitativeTCNProofs.* First the tables of PointAlgebra: they are what they ought to be, for
all types, by cases: intersection is that of the sets of primitive orders, symmetry
commutes with it, composition is that of the primitive orders (without Distinct and
Empty), and the list overload does not depend on where its list is cut. Then `TypeCorrect`: `TypeOK` is inductive as it stands. One lemma
per action; the tables are typed by cases; `NarrowedTyped` and
`BeekManakReviseIsNarrowed` reduce the three narrowings of a triangle to retyping
one pair at a time. Last, `SolutionsKept` and `RefutationsRight`, for any points,
any set of integers as instants, and any number of calls, under two named
assumptions: the client adds no Distinct (whose row in the table is wrong) and
removes nothing (what was derived from a removed edge stays). The invariant is
`AllEntailed(edge)`: every type on every edge is entailed by the client's
constraints. It is needed because `KeepsSolutions` says nothing of why an edge has
its type. `Entailed*` lemmas say that intersection, symmetry and composition
preserve entailment; an Empty entailed type refutes (`EntailedEmpty`). For Gecode's
search `Ranks` shows that every solution over integers can be mapped to 0..n-1
(the rank of a value among the values used), by cardinality of the smaller values.

*QualitativeTCNCompleteness.* The other direction, for any points: what a check accepts has a
solution. Hypotheses: no two edges on a directed pair (no operation `parallel`; two are
the finding of `qtcn_compaction`), and as many instants as points
(`EnoughInstants`, true of the instants of the runs). `GecodeDecides` needs no more: the
invariant `CarriedInv` says that a pair's edge is never weaker than what the client asserted
of the pair, so that the values the search finds for the edges satisfy the client.
`ProbesDecidePossibility` and `IncrementalDecides` also exclude Distinct, removals and the
algorithm of van Beek and Manak. `ProbeInv` adds to soundness that no edge is Empty while a
probe can look. For incremental path consistency the invariant `Closing` keeps the
debt of a check: a triangle whose edges are not closed under composition has a pair queued or
is pending for the popped one. When the check is done there is no debt, the graph is closed,
and a closed graph without Empty has a solution: the number of points that
come before one, or with it (`ClosedHasOrder`). `ChecksReturn` (any client, `parallel` included; the points
finite) is `ChecksProgress`: a step that retypes a pair takes primitive orders from it, others
leave the types and take from the queue or from the pending triangles (`Freedom`,
`SameTypes`).

`BeekManakDecides`, in the same module, is the algorithm of van Beek and Manak on three points
and more, without Distinct but with removals, probes and other checks in between. `Closing` is no invariant
of it: it narrows (k, j) and queues (i, k), so that triangles over (k, j) may stop following
with nothing queued for them. Its invariant `Settling` speaks of every graph F the check may still
end with: F has no Empty pair, is below what the graph says, and every triangle that is awaited, or allows F
by its path now, follows in F (`Settles`). In each such F all triangles follow. This is
true at the start, where a triangle or its reversal is awaited, and a revision keeps it because such an F
after the step is one before it (`ReviseSettles`): what F says of the ends of a path over (k, j) it can also
reach by (k, i) and (i, j), whose triangles are awaited or were just revised, and
composition distributes over an intersection that is not Empty (`CompositionDistributes`). `Popped`
keeps the revised triangles of the popped pair following although its second revision narrows a leg of the
first. At the end the graph itself is such an F. `Checked` says that no pair is Empty then:
the table takes Empty for neutral, so that only narrowing a pair finds it Empty, and with a
third vertex every pair is narrowed. That is why the property needs three vertices.

*TransportSearchProofs.* `SearchInv` strengthens the properties by what they rest on:
the master admits only what improves on the last plan (`MastersImprove`), a slave
is the master unless a resolver was posted (`SlaveIsWhole`), a resolver's plans
are flawless and improve (`ResolversImprove`), the session is new whenever a plan
can be returned (`SessionIsNew`). `NoDrawTwice` is `DrawsAreFresh`, inductive as it stands:
`StepDraws` sorts the steps into those that keep the draws, begin anew with a plan, or
draw one. No assumption beyond those of the module.

*TimelineCSPProofs.* `TypeCorrect` is inductive as it stands; every action narrows a
timeline (`Narrower`, one lemma per tell). `PropagationKeepsPaths`: no step of
propagation on a timeline, in any order, changes the set of paths it admits, and a
failure means that there is none. The invariant `PathInv` is needed for two reasons.
A queued variable is assigned (`QueueAssigned`) and none has a move at the last time
point (`NoEdgeAtEnd`), so a queued variable with one target is needed, and every
path makes its move: what `HandleMove` tells the neighbours cannot cut one off
(`MoveKeepsPaths`). And an assigned move is queued or its row handled (`MovesSeen`),
so a gap in the waypoints of an assigned timeline is a row without a move
(`GapLeavesNoPath`). `RowKeepsPaths` and `ExclusionKeepsPaths` are the other two
narrowings. `NoEdgeToDeadEnd` is `NoDeadEnds`; its invariant `CleanInv` says what a turn of
IsPath leaves behind and every later narrowing keeps: a handled move is alone at its time
point, leads to the only place left at the next, and starts where all edges before it
lead, if these were told (`HandledAt`); an emptied variable is queued, or no edge leads to
it, or one that is needed does (`Excluded`: `excludeTarget` stops where it fails), which a row
will see fail. No assumption beyond the sizes being positive numbers.

The second half of the module is `SearchKeepsPromise`: TimelineCSP implements Timelines, for any number
of time points, locations, roles and access constraints. Its hypothesis `DemandsApart` says that
no two requirements of a role share a time point and that a location is restricted for one model
only. The first is what the finding of `timelines_touching` is about: where requirements touch, a
tell fails unnoticed, and the promise is not kept. Of the second: where a location is restricted
for several models, the code lets the bound of the second count the roles of the first as well,
and nothing says what the bound is to mean then, so the promise does not speak of it. The demands
of the run `timelines` meet both, which TLC evaluates (`SeparateDemandsAssumption`). The argument
has four parts. While requirements are posted, `PostInv`: a timeline admits exactly the paths that
visit what has been posted, and is untouched where the rest is to come (`Untouched`), so that no
tell fails. Propagation of a timeline keeps its paths (`StepKeepsPaths` above). A restriction
counts edges at the time points its advisor told it of; `AccessInv` says that these are complete,
that a complete time point is counted or due unless it has been before the propagator
was posted, and that nothing moves there then (what a requirement needs is a stay, `Loops`). So the
edges it counts map one to one into the arrivals of every plan that is left (`CountedArrive`), and
onto them when the timelines are assigned (`ArrivalsCounted`): it never fails while a plan is left,
and a solution respects it. When nothing is left to propagate, an assigned timeline has one path
(`OnePath`, from `HandledAt`: the next edge starts where this one ends), so a solution is a plan.

*IntervalTCNProofs.* For any finite set of time points and any bounds: both networks
that a turn of Upper-Lower-Tightening makes have the solutions of the input
(`TighteningEquivalent`), exceptions mean that there is none (`ThrowsRight`), assigned
times are never later than any schedule and lowered upper bounds keep all
schedules (`TimesRight`). The invariant rests on `DistInv`: a distance never falls
below the difference of two time points in a solution, whatever edges have been relaxed,
so a negative cycle refutes, and hulls cut with distances lose nothing. `TypeCorrect` and
`LooseConsistencyEquivalent` are about loose path consistency as well, whose turns fold over the
third vertices: what the fold returns is typed, and keeps a solution, by taking a set of
vertices of least cardinality for which it would not (`FoldExists`, `FoldKeeps`).
`LooseConsistencyStronger` is `LooseConsistencyTightens`. On a complete network a turn of loose
path consistency that changes nothing leaves a network that is `Tight`: no bound ends beyond the
sums over any third point (`LooseTurn`, `TurnEndsTight`; until then each turn is within the one before,
`TightInv`). Such a network, if its bounds are within those of the input, stays below everything that
Upper-Lower-Tightening computes (`BelowInv`): a hull contains it (`HullsCover`), no relaxation
gets a distance below its bounds (`RelaxCovers`), so intersections keep it (`IntersectBelow`).
Both theorems need `OneWayClients` (no client of that algorithm constrains a
pair in both directions), which the run's clients meet: the code joins bounds of
opposite edges as if they were alternatives. The second one is for more than two points: between
two there is no third, and loose path consistency returns its input, bounds that end before they
begin included, which Upper-Lower-Tightening drops. Assumptions:
infinity exceeds what sums of bounds reach (`InfAssumption`), the points are a finite set
(`PointsAssumption`), inputs are networks of valid bounds (`ClientsAssumption`), required
times are not negative (`ForwardAssumption`), solutions are valuations up to the
horizon (`ValuationsAssumption`).

*RoleAssignmentProofs.* `MissionIsKept`, `RolesAtOnePlace` and `NothingIsMissed` for any
mission, agents, functions and any choices of the engine. The invariant `IInv` says of every
space alive that what it admits keeps the constraints it has been given (`Sound`), which is
needed because `MissionKept` speaks of distributions handed on only. The
cardinality of sums in the code is brought back to sets of agents by lemmas on `Count`,
`Presence` and `Distinct`. `NothingIsMissed` needs a second one, `Covered`: every admitted
distribution with an active role has a twin that was handed on or that a space alive
still admits. Assumptions: functions are supported pointwise (`SupportAssumption`),
intervals do not end before they begin and no two time points are always equal
(`MissionAssumption`).

*TransshipmentProofs.* `TypeCorrect`, `FlowOwned`, `ItemsCarried`, `FlawsReal` and
`EfficacyHonest` for any number of spaces, demands, capacities and configurations, and
for any flow that the external program returns under its contract (`Solver`). The
invariant `FlowInv` says three things. While the mobile roles are registered, the network
holds what has been registered of their timelines (`Done` is how far each is), and no
edge weighs less than the agents on it can carry (`Weighted`: the sums only ever err
upwards, which is why `FlawsReal` holds although `CarriedWithinCapacity` does not). From
the flow on, the network is `Sound` for the demand, the timelines and the flaws of the space:
besides what the properties say, an item that is missed without a flaw has another one in
its place (`StandsIn`). If all units at the point were needed there, they would be as many as
are needed, so all of them (`FlowingStandsIn`). And every
entry of the cache is `Sound` for some demand and timelines with its key (`CacheSound`),
which is needed because the cache outlives the space that wrote it; `SameKey` shows that
the key determines all that `Sound` speaks of. `PlansRead` is `PlansFollowFlow`: it needs of
`Sound` that an item in one piece is at one point of a time (`Whole`), and moves along edges of
mobile roles (`Escorted`, from `Driven`: an edge that nobody drives along has no weight); then
the points that the search discovers from the first are the path, by the least time
at which it would not be. Assumptions: roles are numbers (their order in the
mission's list), capacities are natural numbers, demands are typed, sizes positive.

*MissionFilesProofs.* `TypeCorrect`, `SavedFilesAreReadable` and `FilesRestore` are `TypeOK`,
`SavedFilesLoad` and `LoadRestores`, for any locations, positions, time points, pools and
constraints of a client and any number of edits, saves, loads and restarts. The invariant `Inv`
(`Invariant`) is about three things. A mission, whoever built it, repeats nothing, has among its
constraints what its conditions imply, and has as implied only that (`MissionInv`): a load makes
a mission of a file, so this cannot rest on what a client does, and a save of what was loaded
must again be readable. The file is what `Written` makes of the mission and positions
in the history (`SavedFile`), and as long as the last thing that happened is a load, the mission
is what `Read` makes of the file, or the file was refused (`Loaded`, `Refused`): the properties
compare the mission with one of an earlier process, so the invariant has to carry it over
restarts and failed loads. And a position that the process did not get from its client is in six
digits, and that of the file, if it is in there (`Positions`; that a number in six digits stays as it
is, `SixDigitsFacts`, keeps positions from drifting further).
What the writer and the reader do is proved without these: `WrittenIs` to `ReadConditionsAre`
say what is in the file, `ReadIs` takes the reader's loop one condition or constraint at a time
(`ConditionStep`, `ConstraintStep`, by the least step that would fail), `RequirementRead` shows
that the minima, maxima and functions that come back are those written, a maximum of the pool's
size being the one that is left out, `DemandsRead` that demands are kept and no requirement
demands what it did not, `ConstraintsBack` which constraints remain and which of them are implied, and
`ConsistentBack` that fewer constraints do not contradict each other if all did not.
`FlattenIs` states the concatenation of the community modules element by element. Assumptions, named in
MissionFiles: those listed there for what a client asks for, and infinity exceeds
every amount, pool and bound; models and functions are two finite sets.

*Only model-checked:* liveness (`SolveEnds`, `SearchEnds`, `OperationsEnd`), which the prover
does not reach.

## Plan

1. `PointAlgebra`, `QualitativeTCN` and their proofs: done.
2. `TransportSearch` and its proofs: done.
3. `TimelineCSP` with its abstract specification, and proofs: done.
4. `IntervalTCN` and its proofs: done.
5. `RoleAssignment` (the stages before the timelines, with copies) and its proofs: done.
6. `Transshipment` (the flow stage with its cache, plans and efficacy) and its proofs: done.
7. `MissionFiles` (building, saving and loading missions) and its proofs: done.
8. Sorting and translation of time points, the no-overlap constraints of the
   temporal CSP; chronicles and timelines: not begun.

## Not modelled

Of the flow stage: the tags INFEASIBLE, the costs that the program minimises (any flow
within the weights stands for the least), the depots as vertices of their own, the routes'
access constraints (TimelineCSP has them). Of `SolutionAnalysis`: safety, costs and
the number of agents. A requirement at an instant is no demand of the flow, and a role with no
other requirements makes the constructor throw (`Refuse`): both are modelled.

The LP of the min-cost flow and the ontology reasoner are external libraries;
LaTeX and CSV, the GUI and the command line are I/O; the
benchmark generators are not part of the planner. Of the stages before the timelines:
the option `intervals-nooverlap`, the exceptions for a mission without requirements
(`Conditions` is not empty) and for one agent in concurrent requirements (`Role` has two at
least); conditions on unknown resources, which are dropped with a warning, are not
among the `Conditions`. MIN_PROPERTY and MAX_PROPERTY raise a requirement as MIN_FUNCTION
does, with a function of their own. The strength of Gecode's propagation is abstract in
RoleAssignment (a space fails when it admits nothing), and so is its choice of copies.

Of missions and their files: numeric attributes (read and never written), overrides of the
ontology, property constraints (the writer nests them where the reader does not look,
`MissionWriter.cpp:353-358`, `MissionReader.cpp:808`), the kind of a location's
coordinates, the relations of assertions to requirements (`findRelated`), what
`refresh` derives. Inputs are restricted where the code reads something else than it
was given: three intervals of one location whose points are not ordered
(`IntervalsAssumption`: the writer's map may not find them), a duration without bounds
(`DurationsAssumption`: read as a qualitative constraint, `MissionReader.cpp:272`), two types on
one directed pair (`OrdersAssumption`: the finding on `compactConstraint`), and locations
named like a number (taken for a requirement, `MissionReader.cpp:841-849`).

## Running

`tlc -config X.cfg M` with the module and the configuration of a run in
`PROJECT.json`; `tlapm M.tla` for the modules with proofs. No configuration needs
more than three minutes.
