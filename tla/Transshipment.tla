---------------------------- MODULE Transshipment ----------------------------
(***************************************************************************)
(* The flow stage of the transport CSP: postMinCostFlow, with FlowNetwork, *)
(* MinCostFlow, the cache of flows, and what SolutionAnalysis reads from   *)
(* the network.  The timelines of the mobile agents span a network through *)
(* space and time, whose edges carry as much as these agents can; the      *)
(* agents that do not move are the commodities of a flow through it.  The  *)
(* linear program is external: it returns a flow that meets the            *)
(* requirements if there is one, and else any flow.                        *)
(***************************************************************************)
EXTENDS TimelinePlans

CONSTANTS
  Capacity,         \* what a role can carry
  TransportDemand,  \* what it takes to carry a role
  Stranded,         \* the sets of roles that form no coalition that can move
  Options,          \* the configurations of the search
  MaxSpaces         \* bound: the spaces that reach this stage

Option == [cache : BOOLEAN, allowFlaws : BOOLEAN, check : BOOLEAN]

ASSUME OrderAssumption == Roles \subseteq Nat  \* in the order of the mission's list
ASSUME CapacityAssumption ==
  Capacity \in [Roles -> Nat] /\ TransportDemand \in [Roles -> Nat]
ASSUME StrandedAssumption == Stranded \subseteq SUBSET Roles
ASSUME OptionsAssumption == Options \subseteq Option
ASSUME SpacesAssumption == MaxSpaces \in Nat

Last == NumTimes - 1
Points == Times \X Locs
Hops == (0..(Last - 1)) \X Locs \X Locs     \* from <<t, l>> to <<t + 1, k>>
Transports == {h \in Hops : h[2] # h[3]}    \* the others stay where they are

Carriers(d) == Takers(d) \cap d.mobile
Items(d) == Takers(d) \ d.mobile

\* The minimal timeline of a role has the points of its requirements; an
\* instant leaves no variable assigned, so it gives no point.
Needs(d) ==
  [r \in Takers(d) |-> {pt \in Points : \E i \in DOMAIN d.requirements :
     LET q == d.requirements[i]
     IN  r \in q.roles /\ q.from < q.to /\ pt[1] \in q.from..q.to /\ pt[2] = q.loc}]

\* The timelines of mobile roles that the search hands on.
Routes(d) ==
  {f \in [Carriers(d) -> Paths] : \A i \in DOMAIN d.requirements :
     \A r \in d.requirements[i].roles \cap Carriers(d) : Visits(f[r], d.requirements[i])}

RoutesOf == [d \in DemandSets |-> Routes(d)]
NeedsOf == [d \in DemandSets |-> Needs(d)]
NoTags == [pt \in Points |-> {}]
NoRoles == [h \in Hops |-> {}]
NoCapacity == [h \in Transports |-> 0]
NoFlaws == [short |-> {}, unsent |-> FALSE, stuck |-> {}]

VARIABLES
  options,     \* the configuration
  demand,      \* the requirements that this space has assigned roles to
  route,       \* the timelines of its mobile roles
  stage,       \* network, flow, analysis, or how the call ended
  toRegister,  \* FlowNetwork::initialize: mobile roles whose timeline is not in the
  clock,       \* network yet, the next point of the first of them,
  capacity,    \* and the local variable of that name
  network,     \* roles by tag: assigned and required at points, carried by hops; and
               \* the weight of the edges between different locations
  flaws,       \* points with less flow than the items need there, whether a unit has
               \* not left the depot, invalid hops
  cache,       \* msMinCostFlowSolutions
  spaces       \* the number of spaces so far

vars == <<options, demand, route, stage, toRegister, clock, capacity, network, flaws,
          cache, spaces>>

Network == [assigned : [Points -> SUBSET Roles], required : [Points -> SUBSET Roles],
            carried : [Hops -> SUBSET Roles], weight : [Transports -> Nat]]
Flaws == [short : SUBSET Points, unsent : BOOLEAN, stuck : SUBSET Transports]
Ends == {"done", "failed", "unpriced", "threw", "crashed"}

need == NeedsOf[demand]
items == Items(demand)
carriers == Carriers(demand)

TypeOK ==
  /\ options \in Options
  /\ demand \in DemandSets
  /\ route \in Routes(demand)
  /\ stage \in {"network", "flow", "analysis"} \cup Ends
  /\ toRegister \subseteq Carriers(demand)
  /\ clock \in 0..NumTimes
  /\ capacity \in Nat
  /\ network \in Network
  /\ flaws \in Flaws
  /\ \A k \in DOMAIN cache : cache[k] \in [flaws : Flaws, network : Network]
  /\ spaces \in 1..(MaxSpaces + 1)

-----------------------------------------------------------------------------
\* The first pass of FlowNetwork::initialize: mobile roles are required at the
\* points of their minimal timelines.
Requested(d) ==
  [pt \in Points |-> {r \in Carriers(d) : pt \in NeedsOf[d][r]}]
Registry(d) ==
  [assigned |-> NoTags, required |-> Requested(d), carried |-> NoRoles, weight |-> NoCapacity]

Begin(d) ==
  /\ demand' = d
  /\ route' \in RoutesOf[d]
  /\ stage' = "network"
  /\ toRegister' = Carriers(d)
  /\ clock' = 0
  /\ capacity' = 0
  /\ network' = Registry(d)
  /\ flaws' = NoFlaws

\* The second pass, one point of a timeline in a step, for the first of the roles.
Register(r) ==
  /\ stage = "network"
  /\ r \in toRegister /\ \A s \in toRegister : r <= s
  /\ UNCHANGED <<options, demand, route, stage, flaws, cache, spaces>>

Here(r) == <<clock, route[r][clock]>>
LastHop(r) == <<clock - 1, route[r][clock - 1], route[r][clock]>>
TagPoint(n, r) == [n EXCEPT !.assigned[Here(r)] = @ \cup {r}]
TagHop(n, r) == [n EXCEPT !.carried[LastHop(r)] = @ \cup {r}]

Depart(r) ==
  /\ Register(r)
  /\ clock = 0
  /\ capacity' = Capacity[r]
  /\ network' = TagPoint(network, r)
  /\ clock' = 1
  /\ UNCHANGED toRegister

Stay(r) ==
  /\ Register(r)
  /\ clock \in 1..Last
  /\ route[r][clock] = route[r][clock - 1]
  /\ network' = TagPoint(network, r)
  /\ clock' = clock + 1
  /\ UNCHANGED <<toRegister, capacity>>

\* Mutant: an edge has the capacity of the last agent that drives along it.
SummedNever(c, h) == c

\* What an edge already carries is added to the variable that also serves the
\* edges further on.
Summed(c, h) == IF network.carried[h] = {} THEN c ELSE c + network.weight[h]

Drive(r) ==
  /\ Register(r)
  /\ clock \in 1..Last
  /\ route[r][clock] # route[r][clock - 1]
  /\ capacity' = Summed(capacity, LastHop(r))
  /\ network' = [TagHop(TagPoint(network, r), r) EXCEPT !.weight[LastHop(r)] = capacity']
  /\ clock' = clock + 1
  /\ UNCHANGED toRegister

\* Mutant: the next timeline starts where the last one ended.
ArriveOnwards(r) ==
  /\ Register(r)
  /\ clock = NumTimes
  /\ toRegister' = toRegister \ {r}
  /\ clock' = clock + 1
  /\ UNCHANGED <<capacity, network>>

Arrive(r) ==
  /\ Register(r)
  /\ clock = NumTimes
  /\ toRegister' = toRegister \ {r}
  /\ clock' = 0
  /\ UNCHANGED <<capacity, network>>

-----------------------------------------------------------------------------
\* The flow.  A commodity is as many units as it takes to carry the item; a unit
\* starts at a point that the item needs, and ends anywhere.
Units(d) == UNION {{i} \X (1..TransportDemand[i]) : i \in Items(d)}
Starting(d, i) == {p \in Paths : <<0, p[0]>> \in NeedsOf[d][i]}
Takes(p, h) == p[h[1]] = h[2] /\ p[h[1] + 1] = h[3]
At(p, pt) == p[pt[1]] = pt[2]

\* Flows of some of the units, and those within capacities w.
PartialFlows(d) ==
  {c \in UNION {[R -> Paths] : R \in SUBSET Units(d)} :
     \A u \in DOMAIN c : c[u] \in Starting(d, u[1])}
FlowsOf == [d \in DemandSets |-> PartialFlows(d)]
Load(c, h) == Cardinality({u \in DOMAIN c : Takes(c[u], h)})
Fits(c, w) == \A h \in Transports : Load(c, h) <= w[h]
Meets(d, c) ==
  /\ DOMAIN c = Units(d)
  /\ \A u \in Units(d) : \A pt \in NeedsOf[d][u[1]] : At(c[u], pt)

Solver(d, w) ==
  LET fitting == {c \in FlowsOf[d] : Fits(c, w)}
      perfect == {c \in fitting : Meets(d, c)}
  IN  IF perfect # {} THEN perfect ELSE fitting

\* updateRoles, and the tags of setCommoditySupplyAndDemand
Flowing(n, d, c) ==
  [assigned |-> [pt \in Points |-> n.assigned[pt] \cup {u[1] : u \in {v \in DOMAIN c : At(c[v], pt)}}],
   required |-> [pt \in Points |-> n.required[pt] \cup {i \in Items(d) : pt \in NeedsOf[d][i]}],
   carried |-> [h \in Hops |-> n.carried[h] \cup {u[1] : u \in {v \in DOMAIN c : Takes(c[v], h)}}],
   weight |-> n.weight]

\* The units that pass a point, and those that setMinTransFlow asks for there.
Through(c, pt) == {u \in DOMAIN c : At(c[u], pt)}
Due(d, pt) == {u \in Units(d) : pt \in NeedsOf[d][u[1]]}

\* validateInflow, at the points: an item has less flow than it needs, or all items
\* together have.
Violations(d, c) ==
  {<<"TransFlow", pt>> : pt \in {pt \in Points : ~(Due(d, pt) \subseteq Through(c, pt))}}
    \cup {<<"TotalTransFlow", pt>> :
            pt \in {pt \in Points : Cardinality(Through(c, pt)) < Cardinality(Due(d, pt))}}

\* Mutant: the total flow through a point is not among the types looked at.
KeptAtDepots == {"TotalMinFlow", "FlowBalance"}

\* The types of violations that computeFlaws does not skip.
Kept == {"TotalTransFlow", "TotalMinFlow", "FlowBalance"}

\* computeFlaws: what it keeps of the violations at the points, and at the depots,
\* where no item can have more flow than it has units.
Short(d, c) ==
  LET found == Violations(d, c)
  IN  {pt \in Points : \E type \in Kept : <<type, pt>> \in found}
Unsent(d, c) == DOMAIN c # Units(d)

\* getInvalidTransitions: coalitions that cannot move, or whose check timed out
InvalidTransitions(n, S) ==
  LET used == {h \in Transports : n.carried[h] # {}}
  IN  IF options.check
      THEN S \subseteq used /\ {h \in used : n.carried[h] \in Stranded} \subseteq S
      ELSE S = {}

-----------------------------------------------------------------------------
\* The constructor of MinCostFlow wants a minimal timeline of every role.
Refuse ==
  /\ stage = "network"
  /\ toRegister = {}
  /\ \E r \in Takers(demand) : need[r] = {}
  /\ stage' = "threw"
  /\ UNCHANGED <<options, demand, route, toRegister, clock, capacity, network, flaws,
                 cache, spaces>>

Ready ==
  /\ stage = "network"
  /\ toRegister = {}
  /\ \A r \in Takers(demand) : need[r] # {}

\* Mutant: the cache does not ask for the minimal timelines.
KeyOfRoutes(d, f) == [route |-> f]

KeyOf(d, f) == [need |-> NeedsOf[d], route |-> f]

Hit ==
  /\ Ready
  /\ KeyOf(demand, route) \in DOMAIN cache
  /\ flaws' = cache[KeyOf(demand, route)].flaws
  /\ network' = cache[KeyOf(demand, route)].network
  /\ stage' = "analysis"
  /\ UNCHANGED <<options, demand, route, toRegister, clock, capacity, cache, spaces>>

\* An item that nothing is needed to carry cannot be a commodity.
RefuseItem ==
  /\ Ready
  /\ KeyOf(demand, route) \notin DOMAIN cache
  /\ \E i \in items : TransportDemand[i] = 0
  /\ stage' = "threw"
  /\ UNCHANGED <<options, demand, route, toRegister, clock, capacity, network, flaws,
                 cache, spaces>>

Flow ==
  /\ Ready
  /\ KeyOf(demand, route) \notin DOMAIN cache
  /\ \A i \in items : TransportDemand[i] > 0
  /\ \E c \in Solver(demand, network.weight) :
       /\ network' = Flowing(network, demand, c)
       /\ \E S \in SUBSET Transports :
            /\ InvalidTransitions(network', S)
            /\ flaws' = [short |-> Short(demand, c), unsent |-> Unsent(demand, c), stuck |-> S]
  /\ stage' = "flow"
  /\ UNCHANGED <<options, demand, route, toRegister, clock, capacity, cache, spaces>>

\* propagateImmobileAgentConstraints takes the index of an item in the list of
\* all active roles for its index in the list of the items.
Position(r) == Cardinality({s \in Takers(demand) : s < r})
Misindexed == \E i \in items : Position(i) >= Cardinality(items)

\* The paths that the timeline of an item admits through the points of the flow.
Agreeing(i) ==
  {p \in Paths :
     /\ \A pt \in Points : i \in network.assigned[pt] => At(p, pt)
     /\ \A j \in DOMAIN demand.requirements :
          i \in demand.requirements[j].roles => Visits(p, demand.requirements[j])}

\* The propagation that follows a flawless flow: updateTimeline may fail if the
\* timelines contradict the flow, and compares with anything if misindexed.
PropagationFails ==
  flaws = NoFlaws /\ (Misindexed \/ {i \in items : Agreeing(i) = {}} # {})

\* What failed is logged and not told to the space: it has no cost.
GiveUp ==
  /\ stage = "flow"
  /\ PropagationFails
  /\ stage' \in {"unpriced"} \cup IF Misindexed THEN {"crashed"} ELSE {}
  /\ UNCHANGED <<options, demand, route, toRegister, clock, capacity, network, flaws,
                 cache, spaces>>

Store ==
  /\ stage = "flow"
  /\ cache' = IF options.cache
              THEN [k \in DOMAIN cache \cup {KeyOf(demand, route)} |->
                      IF k = KeyOf(demand, route)
                      THEN [flaws |-> flaws, network |-> network]
                      ELSE cache[k]]
              ELSE cache
  /\ stage' = "analysis"
  /\ UNCHANGED <<options, demand, route, toRegister, clock, capacity, network, flaws,
                 spaces>>

\* The rest of postMinCostFlow: the space fails if it has flaws and may not.
Analyse ==
  /\ stage = "analysis"
  /\ stage' = IF flaws = NoFlaws \/ options.allowFlaws THEN "done" ELSE "failed"
  /\ UNCHANGED <<options, demand, route, toRegister, clock, capacity, network, flaws,
                 cache, spaces>>

\* An exception of SolutionAnalysis (the times of the plan have a negative cycle, or
\* no unique start: see IntervalTCN) fails the space, whatever its flaws.
AnalysisThrows ==
  /\ stage = "analysis"
  /\ stage' = "failed"
  /\ UNCHANGED <<options, demand, route, toRegister, clock, capacity, network, flaws,
                 cache, spaces>>

-----------------------------------------------------------------------------
Init ==
  /\ options \in Options
  /\ \E d \in DemandSets :
       /\ demand = d
       /\ route \in RoutesOf[d]
       /\ toRegister = Carriers(d)
       /\ network = Registry(d)
  /\ stage = "network"
  /\ clock = 0
  /\ capacity = 0
  /\ flaws = NoFlaws
  /\ cache = << >>
  /\ spaces = 1

\* The next space of the search comes with a network of its own; the cache is
\* static.
NextSpace ==
  /\ stage \in Ends \ {"threw", "crashed"}
  /\ spaces < MaxSpaces
  /\ \E d \in DemandSets : Begin(d)
  /\ spaces' = spaces + 1
  /\ UNCHANGED <<options, cache>>

Next ==
  \/ \E r \in toRegister : Depart(r) \/ Stay(r) \/ Drive(r) \/ Arrive(r)
  \/ Refuse \/ RefuseItem \/ Hit \/ Flow
  \/ GiveUp \/ Store \/ Analyse \/ AnalysisThrows
  \/ NextSpace

Spec == Init /\ [][Next]_vars

-----------------------------------------------------------------------------
\* SolutionAnalysis::computePlan, for the roles that have a start.
Least(S) == CHOOSE x \in S : \A y \in S : x <= y
Starts(r) == {l \in Locs : r \in network.assigned[<<0, l>>]}

\* Mutant: the search does not look for the tag of its role.
PlanOfAny(r) ==
  LET reach[t \in Times] ==
        IF t = 0 THEN {Least(Starts(r))}
        ELSE {k \in Locs : network.assigned[<<t, k>>] # {} /\
                \E l \in reach[t - 1] : l = k \/ \E s \in carriers : s \in network.carried[<<t - 1, l, k>>]}
  IN  reach

\* The points that the depth-first search for a role finds from its start, along
\* edges into points that the role is assigned to.
Plan(r) ==
  LET reach[t \in Times] ==
        IF t = 0 THEN {Least(Starts(r))}
        ELSE {k \in Locs : r \in network.assigned[<<t, k>>] /\
                \E l \in reach[t - 1] : l = k \/ \E s \in carriers : s \in network.carried[<<t - 1, l, k>>]}
  IN  reach
Planned == {r \in Takers(demand) : Starts(r) # {}}

\* Mutant: the roles that are assigned have to be required.
FulfilledSwapped(q) ==
  \/ q.from = 0
  \/ \A t \in q.from..q.to : network.assigned[<<t, q.loc>>] \subseteq network.required[<<t, q.loc>>]

\* computeEfficacy counts the requirements that are fulfilled.
Fulfilled(q) ==
  \/ q.from = 0
  \/ \A t \in q.from..q.to : network.required[<<t, q.loc>>] \subseteq network.assigned[<<t, q.loc>>]

Answered == stage \in {"done", "failed"}
Unit(r) == r \in carriers \/ TransportDemand[r] = 1

\* What a flow without flaws promises, computed or taken from the cache.  Every item
\* starts where it is needed and goes from point to point by an edge of the network, no
\* edge has more items than its weight, and no point has fewer units than the items
\* need there, whichever items they are of: computeFlaws keeps the violations of totals.
FlawlessIsCarried ==
  Answered /\ flaws = NoFlaws =>
    /\ \A i \in items :
         /\ \E l \in Locs : <<0, l>> \in need[i] /\ i \in network.assigned[<<0, l>>]
         /\ \A t \in 0..(Last - 1), l \in Locs : i \in network.assigned[<<t, l>>] =>
              \E k \in Locs : i \in network.assigned[<<t + 1, k>>] /\ i \in network.carried[<<t, l, k>>]
    /\ \A h \in Transports : Cardinality(network.carried[h] \cap items) <= network.weight[h]
    /\ \A pt \in Points :
         Cardinality(Due(demand, pt))
           <= Cardinality({u \in Units(demand) : u[1] \in network.assigned[pt]})

\* A flow is short at a point, or does not send an item, only if the mobile agents have
\* not enough room for all items together: no flaw is an artefact of the capacities of
\* the edges.
Room(R) == UNION {{r} \X (1..Capacity[r]) : r \in R}
Seats(f, h) == Room({r \in DOMAIN f : Takes(f[r], h)})
FlawsAreReal ==
  Answered /\ (flaws.short # {} \/ flaws.unsent) =>
    ~\E c \in FlowsOf[demand] :
       Meets(demand, c) /\ \A h \in Transports : Load(c, h) <= Cardinality(Seats(route, h))

\* The flow that a space ends with is one for its own timelines and requirements,
\* though the cache is shared by all spaces.
FlowIsOwn ==
  Answered =>
    /\ \A pt \in Points :
         /\ network.required[pt] = {r \in Takers(demand) : pt \in need[r]}
         /\ network.assigned[pt] \cap carriers = {r \in carriers : At(route[r], pt)}
    /\ \A h \in Transports : network.carried[h] \cap carriers = {r \in carriers : Takes(route[r], h)}

\* The plan of an agent that travels in one piece is one point for every time,
\* the timeline of a mobile one, and the points of an item that is carried from each
\* to the next: the search of the network does not stray to the edges of others.
PlansFollowFlow ==
  Answered => \A r \in Planned : Unit(r) =>
    /\ \A t \in Times : Cardinality(Plan(r)[t]) = 1
    /\ r \in carriers => \A t \in Times : Plan(r)[t] = {route[r][t]}
    /\ r \in items => \A t \in 0..(Last - 1), l, k \in Locs :
         l \in Plan(r)[t] /\ k \in Plan(r)[t + 1] => r \in network.carried[<<t, l, k>>]

\* Efficacy is honest about requirements over an interval.  One that counts as
\* fulfilled has its agents all the time.  One that does not misses an item, at a point
\* with a flaw, or at one where an item that is not needed there fills the total in its
\* place: only then does a plan without flaws lack efficacy.
EfficacyIsHonest ==
  Answered => \A j \in DOMAIN demand.requirements :
    LET q == demand.requirements[j]
        points == {<<t, q.loc>> : t \in q.from..q.to}
    IN  q.from > 0 /\ q.from < q.to =>
          IF Fulfilled(q)
          THEN \A pt \in points : q.roles \cap Takers(demand) \subseteq network.assigned[pt]
          ELSE \E pt \in points : \E i \in items \cap (network.required[pt] \ network.assigned[pt]) :
                 \/ pt \in flaws.short
                 \/ items \cap (network.assigned[pt] \ network.required[pt]) # {}

\* The items on an edge fit into the mobile agents that drive along it, as the
\* comment "sum up capacities of mobile systems" says, and as CapacityLink needs
\* to subtract what is used from what there is.
CarriedWithinCapacity ==
  Answered /\ flaws = NoFlaws => \A h \in Transports :
    Cardinality(network.carried[h] \cap items) <= Cardinality(Seats(route, h))
=============================================================================
