--------------------------- MODULE RoleAssignment ---------------------------
(***************************************************************************)
(* The stages of the transport CSP that assign agents to the requirements  *)
(* of a mission (src/solvers/csp/TransportNetwork.cpp), with the           *)
(* requirements that Mission makes of its persistence conditions and the   *)
(* constraints that MissionConstraints posts.                              *)
(*                                                                         *)
(* A space is first branched on the order of the time points.  Function    *)
(* branchers then post, one after the other, the temporal constraints, the *)
(* bounds, and the combinations of models that serve the requirements;     *)
(* after that the models, and then the roles, are branched on, and every   *)
(* distribution of roles is handed to the stage of timelines.  The search  *)
(* is Gecode's depth-first search, which rebuilds the alternatives it      *)
(* returns to from copies of earlier spaces.                               *)
(***************************************************************************)
EXTENDS Integers, FiniteSets, FiniteSetsExt

CONSTANTS
  Role, Model, ModelOf,  \* the agents (roles) and their models
  ModelIndex,            \* the position of a model in mModels
  Mobile,                \* the models whose robots are mobile
  Function,              \* functions, with their property constraints
  Support,               \* external: pools of models that have all functions of a set
  Saturation,            \* external: getFunctionalSaturationBound of a function
  Orders,                \* the orders of the time points that the mission admits
  Conditions,            \* mPersistenceConditions about location cardinalities
  Full,                  \* the interval of the full mission
  Searches,              \* the searches that are made: see Search
  None                   \* no space is left

Kinds == {"mobile", "immobile"}
ConstraintTypes ==
  {"MIN", "MAX", "ALL_DISTINCT", "MIN_DISTINCT", "MAX_DISTINCT", "ALL_EQUAL",
   "MIN_EQUAL", "MAX_EQUAL", "MIN_FUNCTION"}
Pools == [Model -> Nat]

\* A search: the options of role-usage, the model constraints of its mission, and those
\* that next() has added to the space (none unless it is a slave).
IsConstraint(c) ==
  /\ c.type \in ConstraintTypes /\ c.value \in Nat
  /\ c.model \in (IF c.type = "MIN_FUNCTION" THEN Function ELSE Model)
IsSearch(s) ==
  /\ s.forceMin \in BOOLEAN /\ s.bounded \subseteq Kinds /\ s.offset \in [Kinds -> Nat]
  /\ \A c \in s.constraints \cup s.resolvers : IsConstraint(c)

ASSUME RolesAssumption ==
  /\ IsFiniteSet(Role) /\ Cardinality(Role) > 1 /\ IsFiniteSet(Model)
  /\ ModelOf \in [Role -> Model] /\ ModelIndex \in [Model -> Nat]
  /\ Model \cap Function = {}
\* What supports several functions supports each of them.
ASSUME SupportAssumption ==
  /\ Support \in [SUBSET Function -> SUBSET Pools]
  /\ Saturation \in [Function -> Pools]
  /\ \A F \in SUBSET Function : \A f \in F : \A p \in Support[F] :
       \E s \in Support[{f}] : \A m \in Model : s[m] <= p[m]
\* An interval begins before it ends, or at the same time point.  The mission does
\* not make two time points equal: findAffected would take requirements at them for one.
ASSUME MissionAssumption ==
  /\ IsFiniteSet(Conditions) /\ Conditions # {} /\ IsFiniteSet(Orders) /\ Orders # {}
  /\ \A p \in Conditions :
       /\ p.resource \in Model \cup Function
       /\ p.bound \in {"MIN", "MAX"} /\ p.cardinality \in Nat
       /\ \A order \in Orders : /\ order[p.from] \in Nat /\ order[p.to] \in Nat
                                /\ order[p.from] <= order[p.to]
  /\ \A t, u \in UNION {{p.from, p.to} : p \in Conditions} :
       t # u => \E order \in Orders : order[t] # order[u]
ASSUME SearchesAssumption == \A s \in Searches : IsSearch(s)

VARIABLES
  search,     \* the search that is made
  current,    \* the space under search
  open,       \* the alternatives that the search has yet to return to
  handed      \* history: the distributions handed to the stage of timelines

vars == <<search, current, open, handed>>

-----------------------------------------------------------------------------
(* Requirements. *)

Place(p) == [location |-> p.location, from |-> p.from, to |-> p.to]

\* compact() leaves one requirement for every place and interval.
Requirement == {Place(p) : p \in Conditions}
At(q) == {p \in Conditions : Place(p) = q}

Pool == [m \in Model |-> Cardinality({r \in Role : ModelOf[r] = m})]

\* compact() keeps the largest of the lower bounds and the smallest of the upper ones.
Bounds(q, m, bound) ==
  {p.cardinality : p \in {x \in At(q) : x.resource = m /\ x.bound = bound}}

\* findAffected: the requirements at a place and interval that the constraint names.
Affected(c) ==
  {q \in Requirement :
     \E t \in c.at : t.location = q.location /\ t.interval \in {Full, <<q.from, q.to>>}}

\* The functions that constraints add to a requirement.
Demanded(q, C) ==
  {c.model : c \in {x \in C : x.type = "MIN_FUNCTION" /\ q \in Affected(x)}}

Functions(q, C) ==
  {f \in Function : \E p \in At(q) : p.resource = f} \cup Demanded(q, C)

\* addResourceRequirement raises the upper bounds by the saturation bound.
WithinBounds(q, p, C) ==
  \A m \in Model : \/ \A n \in {Pool[m]} \cup Bounds(q, m, "MAX") : p[m] <= n
                   \/ \E f \in Demanded(q, C) : p[m] <= Saturation[f][m]

\* getDomain: the supporting pools within the upper bounds, raised to the lower ones.
Usages == {u \in [Model -> 0..Cardinality(Role)] : \A m \in Model : u[m] <= Pool[m]}
IsMax(n, S) == n \in S /\ \A k \in S : k <= n
Domain(q, C) ==
  {u \in Usages :
     \E p \in Support[Functions(q, C)] :
       /\ WithinBounds(q, p, C)
       /\ \A m \in Model : IsMax(u[m], {p[m]} \cup Bounds(q, m, "MIN"))}

-----------------------------------------------------------------------------
(* The constraints of a distribution `a`: for every requirement the number  *)
(* of agents of a model (mModelUsage) and the agents (mRoleUsage).          *)

Agents(m, S) == {r \in S : ModelOf[r] = m}
Count(a, q, m) == Cardinality(Agents(m, a[q].roles))

\* Mutant: touching requirements do not exclude each other.
ExclusiveUnlessTouching(order, q1, q2) ==
  /\ q1.location # q2.location
  /\ ~(order[q1.to] <= order[q2.from]) /\ ~(order[q2.to] <= order[q1.from])

\* areMutualExclusive: at different locations, and neither is before the other.
Exclusive(order, q1, q2) ==
  /\ q1.location # q2.location
  /\ ~(order[q1.to] < order[q2.from]) /\ ~(order[q2.to] < order[q1.from])

\* setUpperBoundForConcurrentRequirements.
WithinPool(order, a) ==
  \A q1, q2 \in Requirement : Exclusive(order, q1, q2) =>
    \A m \in Model : a[q1].usage[m] + a[q2].usage[m] <= Pool[m]

\* enforceUnaryResourceUsage.
Unary(order, a) ==
  \A q1, q2 \in Requirement : Exclusive(order, q1, q2) => a[q1].roles \cap a[q2].roles = {}

KindOf(m) == IF m \in Mobile THEN "mobile" ELSE "immobile"
Relaxed(s, m) == ~s.forceMin /\ KindOf(m) \in s.bounded

\* A model may have more agents than it needs, if its kind is relaxed.
Usage(s, row, m) ==
  LET n == Cardinality(Agents(m, row.roles))
  IN  IF Relaxed(s, m) THEN n >= row.usage[m] /\ n <= row.usage[m] + s.offset[KindOf(m)]
      ELSE n = row.usage[m]

\* The surplus of a model is bounded by one variable for all requirements; the
\* running maxima of these bounds, in the order of the models, add up to the offset.
Surplus(a, m) == Max({0} \cup {Count(a, q, m) - a[q].usage[m] : q \in Requirement})
RunningMax(a, k, m) ==
  Max({0} \cup {Surplus(a, j) : j \in {x \in Model : /\ ModelIndex[x] <= ModelIndex[m]
                                                     /\ KindOf(x) = k}})
WithinOffsets(s, a) ==
  \A k \in Kinds : ~s.forceMin /\ k \in s.bounded =>
    MapThenSumSet(LAMBDA m : RunningMax(a, k, m), Model) <= s.offset[k]

\* initializeMinMaxConstraints: the bounds of a model, and no empty requirement.
MinMax(q, usage) ==
  /\ \A m \in Model : \A n \in Bounds(q, m, "MIN") : n <= usage[m]
  /\ \E m \in Model : usage[m] > 0

\* The affected requirements that a role is assigned to.
Presence(c, a, r) == Cardinality({q \in Affected(c) : r \in a[q].roles})
Present(c, a, ns) == Cardinality({r \in Role : ModelOf[r] = c.model /\ Presence(c, a, r) \in ns})

\* Mutant: the numbers of roles are compared, not the roles.
DistinctTotals(c, a, q1, q2) ==
  LET n1 == Count(a, q1, c.model)
      n2 == Count(a, q2, c.model)
  IN  IF n1 > n2 THEN n1 - n2 ELSE n2 - n1

\* The roles that are assigned to one of two requirements only.
Distinct(c, a, q1, q2) ==
  Cardinality({r \in Role : ModelOf[r] = c.model /\ ~(r \in a[q1].roles <=> r \in a[q2].roles)})

\* MissionConstraints: usage, allDistinct, distinct and equal.
Kept(c, a) ==
  LET S == Affected(c)
      used == Present(c, a, 1..Cardinality(S))
      common == Present(c, a, {Cardinality(S)})
      pairs == {pr \in S \X S : pr[1] # pr[2]}
  IN  S # {} =>
        /\ c.type = "MIN" => used >= c.value
        /\ c.type = "MAX" => used <= c.value
        /\ c.type = "ALL_DISTINCT" =>
             \A r \in Role : ModelOf[r] = c.model => Presence(c, a, r) <= 1
        /\ c.type = "MIN_DISTINCT" => \A pr \in pairs : Distinct(c, a, pr[1], pr[2]) >= c.value
        /\ c.type = "MAX_DISTINCT" => \A pr \in pairs : Distinct(c, a, pr[1], pr[2]) <= c.value
        /\ c.type = "ALL_EQUAL" => \A pr \in pairs : Distinct(c, a, pr[1], pr[2]) <= 0
        /\ c.type = "MIN_EQUAL" => common >= c.value
        /\ c.type = "MAX_EQUAL" => common <= c.value

Row(s, q, C) ==
  {row \in [usage : Domain(q, C), roles : SUBSET Role] :
     MinMax(q, row.usage) /\ \A m \in Model : Usage(s, row, m)}

\* What a space admits once all constraints are posted.
Distribution(s, order, C) ==
  {a \in [Requirement -> UNION {Row(s, q, C) : q \in Requirement}] :
     /\ \A q \in Requirement : a[q] \in Row(s, q, C)
     /\ WithinPool(order, a) /\ Unary(order, a) /\ WithinOffsets(s, a)
     /\ \A c \in C : Kept(c, a)}

-----------------------------------------------------------------------------
(* Spaces. *)

\* computeActiveRoles: the roles that are required more than once.
Active(a) == {r \in Role : Cardinality({q \in Requirement : r \in a[q].roles}) > 1}

\* Roles of one model are interchangeable: twins differ by which of them does what.
Pattern(a, m, S) ==
  Cardinality({r \in Role : ModelOf[r] = m /\ {q \in Requirement : r \in a[q].roles} = S})
Twins(a, b) ==
  /\ \A q \in Requirement : a[q].usage = b[q].usage
  /\ \A m \in Model : \A S \in SUBSET Requirement : Pattern(a, m, S) = Pattern(b, m, S)

Distributions == [Requirement -> [usage : Pools, roles : SUBSET Role]]
OrderSets == {S \in SUBSET Orders : S # {}}

\* A space: the orders left, the resolvers it keeps, the distributions it admits, and
\* those that the same decisions admit without the resolvers.  `cloned` says that a
\* copy which the search has stored on the way was taken after they were posted.
Space(s) ==
  [stage : {"order", "branching", "failed", "handed"}, orders : OrderSets,
   extra : {{}, s.resolvers}, cloned : BOOLEAN, depth : Nat,
   admitted : SUBSET Distributions,
   plain : SUBSET Distributions]

ASSUME NoneAssumption == \A s \in Searches : None \notin Space(s)

Root ==
  [stage |-> "order", orders |-> Orders, extra |-> search.resolvers, cloned |-> FALSE,
   depth |-> 0, admitted |-> {}, plain |-> {}]

In(stage) == current # None /\ current.stage = stage
Order(space) == CHOOSE order \in space.orders : TRUE

Init ==
  /\ search \in Searches
  /\ current = Root
  /\ open = {} /\ handed = {}

\* The search descends into the left alternative and keeps the other one.
Descend(left, right) ==
  /\ current' = [left EXCEPT !.depth = @ + 1]
  /\ open' = open \cup {[right EXCEPT !.depth = @ + 1]}
  /\ UNCHANGED <<search, handed>>

\* Mutant: a time point that has one value is branched on.
BranchOrderDecided(t) ==
  /\ In("order")
  /\ \E o \in current.orders :
       LET left == {x \in current.orders : x[t] = o[t]}
       IN  /\ \A x \in current.orders : o[t] <= x[t]
           /\ Descend([current EXCEPT !.orders = left],
                      [current EXCEPT !.orders = @ \ left, !.extra = {}])

\* A time point is given its least value, or another one.  The alternative is rebuilt
\* from a copy of the root, and the copy constructor does not copy mConstraints.
BranchOrder(t) ==
  /\ In("order")
  /\ \E o \in current.orders :
       LET left == {x \in current.orders : x[t] = o[t]}
       IN  /\ \A x \in current.orders : o[t] <= x[t]
           /\ left # current.orders
           /\ Descend([current EXCEPT !.orders = left],
                      [current EXCEPT !.orders = @ \ left, !.extra = {}])

\* postTemporalConstraints and the function branchers it adds: all constraints of the
\* mission, and those that the slave has been given, as far as the space keeps them.
PostConstraints ==
  /\ In("order") /\ Cardinality(current.orders) = 1
  /\ current' =
       [current EXCEPT !.stage = "branching",
          !.admitted = Distribution(search, Order(current), search.constraints \cup current.extra),
          !.plain = Distribution(search, Order(current), search.constraints)]
  /\ UNCHANGED <<search, open, handed>>

\* The alternative is rebuilt, by the same decisions, from the copy stored last: one
\* that has the constraints posted, or one that posts them again, without resolvers.
\* Symmetry breaking may drop twins of what the left alternative admits.
Branch(left, droppable) ==
  \E cloned \in {TRUE, current.cloned}, dropped \in SUBSET droppable :
    Descend([current EXCEPT !.admitted = @ \cap left, !.plain = @ \cap left,
                            !.cloned = cloned],
            [current EXCEPT !.admitted =
                              (IF cloned THEN @ ELSE current.plain) \ (left \cup dropped),
                            !.plain = @ \ (left \cup dropped),
                            !.extra = IF cloned THEN @ ELSE {}, !.cloned = cloned])

Candidates == current.admitted \cup current.plain
Splits(left) == current.admitted \cap left # {} /\ ~(current.admitted \subseteq left)

\* The lower values of a variable are tried first.
BranchUsage(q, m, n) ==
  /\ In("branching")
  /\ LET below == {a \in Candidates : a[q].usage[m] <= n}
     IN  Splits(below) /\ Branch(below, {})

\* Mutant: symmetry breaking drops whatever the other alternative admits.
BranchRoleOneSided(q, r) ==
  /\ In("branching")
  /\ \A a, b \in current.admitted : \A x \in Requirement : a[x].usage = b[x].usage
  /\ LET with == {a \in Candidates : r \in a[q].roles}
     IN  \E left \in {with, Candidates \ with} :
           Splits(left) /\ Branch(left, Candidates \ left)

\* When the models are decided, either value of a role may be tried first.
BranchRole(q, r) ==
  /\ In("branching")
  /\ \A a, b \in current.admitted : \A x \in Requirement : a[x].usage = b[x].usage
  /\ LET with == {a \in Candidates : r \in a[q].roles}
     IN  \E left \in {with, Candidates \ with} :
           /\ Splits(left)
           /\ Branch(left, {a \in Candidates \ left : \E b \in left : Twins(a, b)})

\* postRoleAssignments fails the space when no role is active.
PostRoleAssignments ==
  /\ In("branching")
  /\ \E a \in current.admitted :
       /\ current.admitted = {a}
       /\ current' = [current EXCEPT !.stage = IF Active(a) = {} THEN "failed" ELSE "handed"]
       /\ handed' = IF Active(a) = {} THEN handed
                    ELSE handed \cup {[order |-> Order(current), distribution |-> a]}
  /\ UNCHANGED <<search, open>>

\* Mutant: an alternative that is taken up stays on the stack.
BacktrackAgain ==
  /\ In("failed") \/ In("handed") \/ (In("branching") /\ current.admitted = {})
  /\ IF open = {} THEN current' = None
     ELSE \E s \in open : (\A x \in open : x.depth <= s.depth) /\ current' = s
  /\ UNCHANGED <<search, open, handed>>

\* After a failure, or a solution, the search takes up the last alternative.
Backtrack ==
  /\ In("failed") \/ In("handed") \/ (In("branching") /\ current.admitted = {})
  /\ IF open = {} THEN current' = None /\ open' = open
     ELSE \E s \in open : /\ \A x \in open : x.depth <= s.depth
                          /\ current' = s /\ open' = open \ {s}
  /\ UNCHANGED <<search, handed>>

TimePoint == UNION {{q.from, q.to} : q \in Requirement}

Next ==
  \/ \E t \in TimePoint : BranchOrder(t)
  \/ PostConstraints
  \/ \E q \in Requirement, m \in Model, n \in 0..Cardinality(Role) : BranchUsage(q, m, n)
  \/ \E q \in Requirement, r \in Role : BranchRole(q, r)
  \/ PostRoleAssignments
  \/ Backtrack

\* The engine runs until nothing is left to explore.
Spec == Init /\ [][Next]_vars /\ WF_vars(Next)

-----------------------------------------------------------------------------
(* Properties. *)

\* Type correctness.
TypeOK ==
  /\ search \in Searches
  /\ current \in Space(search) \cup {None} /\ open \subseteq Space(search)
  /\ handed \subseteq [order : Orders, distribution : Distributions]

\* The agents of a model that a distribution involves in some, or in all, of the
\* requirements S, and those it involves in one of two requirements only.
Some(a, m, S) == Agents(m, UNION {a[q].roles : q \in S})
All(a, m, S) == {r \in Agents(m, Role) : \A q \in S : r \in a[q].roles}
Either(a, m, q1, q2) == Agents(m, (a[q1].roles \ a[q2].roles) \cup (a[q2].roles \ a[q1].roles))

\* The agents at a place provide a function.
Provided(a, q, f) == \E p \in Support[{f}] : \A m \in Model : p[m] <= Count(a, q, m)

\* What a model constraint means for the sets of agents at the affected requirements.
Meaning(c, a) ==
  LET S == Affected(c)
  IN  S # {} =>
        /\ c.type = "MIN" => Cardinality(Some(a, c.model, S)) >= c.value
        /\ c.type = "MAX" => Cardinality(Some(a, c.model, S)) <= c.value
        /\ c.type = "MIN_EQUAL" => Cardinality(All(a, c.model, S)) >= c.value
        /\ c.type = "MAX_EQUAL" => Cardinality(All(a, c.model, S)) <= c.value
        /\ c.type = "MIN_FUNCTION" => \A q \in S : Provided(a, q, c.model)
        /\ \A q1, q2 \in S : q1 # q2 =>
             /\ c.type = "ALL_DISTINCT" =>
                  Agents(c.model, a[q1].roles) \cap Agents(c.model, a[q2].roles) = {}
             /\ c.type = "ALL_EQUAL" =>
                  Agents(c.model, a[q1].roles) = Agents(c.model, a[q2].roles)
             /\ c.type = "MIN_DISTINCT" => Cardinality(Either(a, c.model, q1, q2)) >= c.value
             /\ c.type = "MAX_DISTINCT" => Cardinality(Either(a, c.model, q1, q2)) <= c.value

\* Whatever space is rebuilt from whatever copy, a distribution that reaches the stage
\* of timelines serves every condition of the mission that asks for agents, at its
\* place, and keeps every constraint of the mission.
MissionKept ==
  \A h \in handed :
    /\ \A p \in Conditions :
         /\ p.resource \in Model /\ p.bound = "MIN" =>
              Count(h.distribution, Place(p), p.resource) >= p.cardinality
         /\ p.resource \in Function => Provided(h.distribution, Place(p), p.resource)
    /\ \A c \in search.constraints : Meaning(c, h.distribution)

\* No agent has to be at two locations at a time: at no instant do two requirements
\* at different locations, which both hold at that instant, have a role in common.
OneRoleAtATime ==
  \A h \in handed : \A t \in TimePoint : \A q1, q2 \in Requirement :
    LET now == h.order[t]
    IN  /\ h.order[q1.from] <= now /\ now <= h.order[q1.to]
        /\ h.order[q2.from] <= now /\ now <= h.order[q2.to]
        /\ h.distribution[q1].roles \cap h.distribution[q2].roles # {}
        => q1.location = q2.location

\* A master search that has ended has handed on every distribution the mission
\* admits, in every order, unless it moves no role or differs from one handed on by
\* interchangeable roles only: symmetry breaking and backtracking lose nothing.
NothingMissed ==
  current = None /\ search.resolvers = {} =>
    \A order \in Orders : \A a \in Distribution(search, order, search.constraints) :
      Active(a) # {} => \E h \in handed : h.order = order /\ Twins(h.distribution, a)

\* The engine ends, and then it has taken up every alternative.
SearchEnds == <>(current = None /\ open = {})

\* addConstraint, called on the slave that next() creates, is meant for all that the
\* slave searches: TransportNetwork.hpp says that the copy constructor provides the
\* search engine with a deep copy.
ResolverKept == \A h \in handed : \A c \in search.resolvers : Meaning(c, h.distribution)
=============================================================================
