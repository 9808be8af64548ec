------------------------ MODULE RoleAssignmentProofs ------------------------
(***************************************************************************)
(* Proofs about RoleAssignment for every mission, organization model and   *)
(* configuration: what is handed to the stage of timelines keeps the       *)
(* mission, asks no agent to be at two locations at a time, and misses no  *)
(* distribution that a master search admits.                               *)
(***************************************************************************)
EXTENDS RoleAssignment, FiniteSetTheorems, TLAPS

-----------------------------------------------------------------------------
(* Requirements and distributions. *)

LEMMA RequirementsFinite == IsFiniteSet(Requirement)
<1>1. IsFiniteSet(Conditions)
  BY MissionAssumption
<1> DEFINE f == [p \in Conditions |-> Place(p)]
<1>2. f \in Surjection(Conditions, Requirement)
  BY DEF Surjection, Requirement
<1> QED
  BY <1>1, <1>2, FS_Surjection

LEMMA RequirementTimes ==
  ASSUME NEW q \in Requirement, NEW order \in Orders
  PROVE  order[q.from] \in Nat /\ order[q.to] \in Nat
<1>1. PICK p \in Conditions : q = Place(p)
  BY DEF Requirement
<1>2. q.from = p.from /\ q.to = p.to
  BY <1>1 DEF Place
<1> QED
  BY <1>2, MissionAssumption

LEMMA RolesFinite ==
  /\ IsFiniteSet(Role)
  /\ \A S \in SUBSET Role : IsFiniteSet(S) /\ Cardinality(S) \in Nat
<1>1. IsFiniteSet(Role)
  BY RolesAssumption
<1> QED
  BY <1>1, FS_Subset, FS_CardinalityType

LEMMA UsageType == Usages \subseteq Pools
<1>1. Cardinality(Role) \in Nat
  BY RolesFinite
<1> QED
  BY <1>1 DEF Usages, Pools

LEMMA DistributionType ==
  ASSUME NEW s, NEW order, NEW C
  PROVE  Distribution(s, order, C) \subseteq Distributions
<1> SUFFICES ASSUME NEW a \in Distribution(s, order, C) PROVE a \in Distributions
  OBVIOUS
<1>1. \A q \in Requirement : a[q] \in [usage : Pools, roles : SUBSET Role]
  <2> TAKE q \in Requirement
  <2>1. a[q] \in [usage : Domain(q, C), roles : SUBSET Role]
    BY DEF Distribution, Row
  <2>2. Domain(q, C) \subseteq Pools
    BY UsageType DEF Domain
  <2> QED
    BY <2>1, <2>2
<1>2. a \in [Requirement -> UNION {Row(s, q, C) : q \in Requirement}]
  BY DEF Distribution
<1> QED
  BY <1>1, <1>2 DEF Distributions

LEMMA AgentsFinite ==
  ASSUME NEW a \in Distributions, NEW q \in Requirement, NEW m
  PROVE  Count(a, q, m) \in Nat
<1>1. Agents(m, a[q].roles) \in SUBSET Role
  BY DEF Agents, Distributions
<1> QED
  BY <1>1, RolesFinite DEF Count

\* A requirement has at least the agents that its models need.
LEMMA EnoughAgents ==
  ASSUME NEW s, NEW order, NEW C, NEW a \in Distribution(s, order, C),
         NEW q \in Requirement, NEW m \in Model
  PROVE  a[q].usage[m] \in Nat /\ a[q].usage[m] <= Count(a, q, m)
<1>1. a \in Distributions
  BY DistributionType
<1>2. a[q].usage[m] \in Nat /\ Count(a, q, m) \in Nat
  BY <1>1, AgentsFinite DEF Distributions, Pools
<1>3. Usage(s, a[q], m)
  BY DEF Distribution, Row
<1> QED
  BY <1>2, <1>3 DEF Usage, Count

-----------------------------------------------------------------------------
(* The conditions and the constraints of the mission. *)

LEMMA FunctionProvided ==
  ASSUME NEW s, NEW order, NEW C, \A c \in C : IsConstraint(c),
         NEW a \in Distribution(s, order, C),
         NEW q \in Requirement, NEW f \in Functions(q, C)
  PROVE  Provided(a, q, f)
<1>1. a[q].usage \in Domain(q, C)
  BY DEF Distribution, Row
<1>2. Functions(q, C) \in SUBSET Function /\ f \in Function
  BY DEF Functions, Demanded, IsConstraint
<1>3. PICK p \in Support[Functions(q, C)] :
             \A m \in Model : IsMax(a[q].usage[m], {p[m]} \cup Bounds(q, m, "MIN"))
  BY <1>1 DEF Domain
<1>4. PICK p1 \in Support[{f}] : \A m \in Model : p1[m] <= p[m]
  BY <1>2, SupportAssumption
<1>5. p \in Pools /\ p1 \in Pools
  BY <1>2, SupportAssumption
<1>6. \A m \in Model : p1[m] <= Count(a, q, m)
  <2> TAKE m \in Model
  <2>1. p[m] <= a[q].usage[m]
    BY <1>3 DEF IsMax
  <2>2. p1[m] \in Nat /\ p[m] \in Nat /\ p1[m] <= p[m]
    BY <1>4, <1>5 DEF Pools
  <2>3. a[q].usage[m] \in Nat /\ a[q].usage[m] <= Count(a, q, m)
    BY EnoughAgents
  <2>4. Count(a, q, m) \in Nat
    BY AgentsFinite, DistributionType
  <2> QED
    BY <2>1, <2>2, <2>3, <2>4
<1> QED
  BY <1>4, <1>6 DEF Provided

LEMMA ConditionsServed ==
  ASSUME NEW s, NEW order, NEW C, \A c \in C : IsConstraint(c),
         NEW a \in Distribution(s, order, C), NEW p \in Conditions
  PROVE  /\ p.resource \in Model /\ p.bound = "MIN" =>
              Count(a, Place(p), p.resource) >= p.cardinality
         /\ p.resource \in Function => Provided(a, Place(p), p.resource)
<1>1. Place(p) \in Requirement /\ p \in At(Place(p))
  BY DEF Requirement, At
<1>2. ASSUME p.resource \in Model, p.bound = "MIN"
      PROVE  Count(a, Place(p), p.resource) >= p.cardinality
  <2>1. MinMax(Place(p), a[Place(p)].usage)
    BY <1>1 DEF Distribution, Row
  <2>2. p.cardinality \in Bounds(Place(p), p.resource, "MIN")
    BY <1>1, <1>2 DEF Bounds
  <2>3. p.cardinality <= a[Place(p)].usage[p.resource]
    BY <1>2, <2>1, <2>2 DEF MinMax
  <2>4. /\ a[Place(p)].usage[p.resource] \in Nat
        /\ a[Place(p)].usage[p.resource] <= Count(a, Place(p), p.resource)
    BY <1>1, <1>2, EnoughAgents
  <2>5. p.cardinality \in Nat /\ Count(a, Place(p), p.resource) \in Nat
    BY <1>1, AgentsFinite, DistributionType, MissionAssumption
  <2> QED
    BY <2>3, <2>4, <2>5
<1>3. ASSUME p.resource \in Function PROVE Provided(a, Place(p), p.resource)
  <2>1. p.resource \in Functions(Place(p), C)
    BY <1>1, <1>3 DEF Functions
  <2> QED
    BY <1>1, <2>1, FunctionProvided
<1> QED
  BY <1>2, <1>3

-----------------------------------------------------------------------------
(* Counting the requirements that a role is present at tells in which of    *)
(* them it is.                                                              *)

LEMMA PresenceCounts ==
  ASSUME NEW c, NEW a, NEW r
  PROVE  LET S == Affected(c)
         IN  /\ Cardinality(S) \in Nat /\ Presence(c, a, r) \in 0..Cardinality(S)
             /\ Presence(c, a, r) > 0 <=> \E q \in S : r \in a[q].roles
             /\ Presence(c, a, r) = Cardinality(S) <=> \A q \in S : r \in a[q].roles
             /\ Presence(c, a, r) <= 1 =>
                  \A q1, q2 \in S : r \in a[q1].roles /\ r \in a[q2].roles => q1 = q2
<1> DEFINE S == Affected(c)
           P == {q \in S : r \in a[q].roles}
<1>1. S \in SUBSET Requirement /\ P \in SUBSET S
  BY DEF Affected
<1>2. IsFiniteSet(S) /\ IsFiniteSet(P)
  BY <1>1, RequirementsFinite, FS_Subset
<1>3. Cardinality(S) \in Nat /\ Cardinality(P) \in Nat
  BY <1>2, FS_CardinalityType
<1>4. Cardinality(P) <= Cardinality(S) /\ (Cardinality(S) = Cardinality(P) => S = P)
  BY <1>1, <1>2, FS_Subset
<1>5. Cardinality(P) = 0 <=> P = {}
  BY <1>2, FS_EmptySet
<1>6. ASSUME NEW q1 \in S, NEW q2 \in S, r \in a[q1].roles, r \in a[q2].roles, q1 # q2
      PROVE  Cardinality(P) > 1
  <2>1. {q1, q2} \in SUBSET P
    <3>1. q1 \in P /\ q2 \in P
      BY <1>6
    <3> QED
      BY <3>1
  <2>2. Cardinality({q1, q2}) = 2
    <3>1. IsFiniteSet({q1}) /\ Cardinality({q1}) = 1
      BY FS_Singleton
    <3>2. q2 \notin {q1}
      BY <1>6
    <3>3. Cardinality({q1} \cup {q2}) = Cardinality({q1}) + 1
      BY <3>1, <3>2, FS_AddElement
    <3>4. {q1} \cup {q2} = {q1, q2}
      OBVIOUS
    <3> QED
      BY <3>1, <3>3, <3>4
  <2>3. Cardinality({q1, q2}) <= Cardinality(P)
    BY <1>2, <2>1, FS_Subset
  <2> QED
    BY <1>3, <2>2, <2>3
<1>7. Presence(c, a, r) = Cardinality(P)
  BY DEF Presence
<1> QED
  BY <1>3, <1>4, <1>5, <1>6, <1>7

LEMMA UsedIsSome ==
  ASSUME NEW c, NEW a \in Distributions
  PROVE  LET S == Affected(c)
         IN  /\ Present(c, a, 1..Cardinality(S)) = Cardinality(Some(a, c.model, S))
             /\ Present(c, a, {Cardinality(S)}) = Cardinality(All(a, c.model, S))
<1> DEFINE S == Affected(c)
           n == Cardinality(S)
           used == {r \in Role : ModelOf[r] = c.model /\ Presence(c, a, r) \in 1..n}
           common == {r \in Role : ModelOf[r] = c.model /\ Presence(c, a, r) \in {n}}
<1>1. \A r : /\ n \in Nat /\ Presence(c, a, r) \in 0..n
             /\ Presence(c, a, r) > 0 <=> \E q \in S : r \in a[q].roles
             /\ Presence(c, a, r) = n <=> \A q \in S : r \in a[q].roles
  BY PresenceCounts
<1>2. \A q \in S : a[q].roles \subseteq Role
  BY DEF Affected, Distributions
<1>3. used = Some(a, c.model, S)
  <2>1. \A r : Presence(c, a, r) \in 1..n <=> \E q \in S : r \in a[q].roles
    <3> HIDE DEF n, S
    <3> QED
      BY <1>1
  <2> QED
    BY <1>2, <2>1 DEF Some, Agents
<1>4. common = All(a, c.model, S)
  <2> HIDE DEF n
  <2> QED
    BY <1>1 DEF All, Agents
<1>5. /\ Present(c, a, 1..n) = Cardinality(used)
      /\ Present(c, a, {n}) = Cardinality(common)
  BY DEF Present
<1> QED
  BY <1>3, <1>4, <1>5

LEMMA DistinctIsEither ==
  ASSUME NEW c, NEW a \in Distributions, NEW q1 \in Requirement, NEW q2 \in Requirement
  PROVE  /\ Distinct(c, a, q1, q2) = Cardinality(Either(a, c.model, q1, q2))
         /\ Distinct(c, a, q1, q2) \in Nat
         /\ Distinct(c, a, q1, q2) <= 0 =>
              Agents(c.model, a[q1].roles) = Agents(c.model, a[q2].roles)
<1>1. a[q1].roles \subseteq Role /\ a[q2].roles \subseteq Role
  BY DEF Distributions
<1> DEFINE D == {r \in Role : ModelOf[r] = c.model /\ ~(r \in a[q1].roles <=> r \in a[q2].roles)}
<1>2. D = Either(a, c.model, q1, q2)
  BY <1>1, SMT DEF Either, Agents
<1>3. IsFiniteSet(D) /\ Cardinality(D) \in Nat
  BY RolesFinite
<1>4. Cardinality(D) = 0 <=> D = {}
  BY <1>3, FS_EmptySet
<1>5. D = {} => Agents(c.model, a[q1].roles) = Agents(c.model, a[q2].roles)
  BY <1>1, Zenon DEF Agents
<1>6. Distinct(c, a, q1, q2) = Cardinality(D)
  BY DEF Distinct
<1> QED
  BY <1>2, <1>3, <1>4, <1>5, <1>6

\* What MissionConstraints counts is what the constraint means.
LEMMA KeptMeans ==
  ASSUME NEW s, NEW order, NEW C, \A x \in C : IsConstraint(x),
         NEW a \in Distribution(s, order, C), NEW c \in C
  PROVE  Meaning(c, a)
<1> DEFINE S == Affected(c)
<1>1. a \in Distributions
  BY DistributionType
<1>2. Kept(c, a)
  BY DEF Distribution
<1>3. \A q \in S : q \in Requirement
  BY DEF Affected
<1> SUFFICES ASSUME S # {}
             PROVE  Meaning(c, a)
  BY DEF Meaning
<1>4. /\ c.type = "MIN" => Cardinality(Some(a, c.model, S)) >= c.value
      /\ c.type = "MAX" => Cardinality(Some(a, c.model, S)) <= c.value
      /\ c.type = "MIN_EQUAL" => Cardinality(All(a, c.model, S)) >= c.value
      /\ c.type = "MAX_EQUAL" => Cardinality(All(a, c.model, S)) <= c.value
  <2>1. /\ Present(c, a, 1..Cardinality(S)) = Cardinality(Some(a, c.model, S))
        /\ Present(c, a, {Cardinality(S)}) = Cardinality(All(a, c.model, S))
    BY <1>1, UsedIsSome
  <2> QED
    BY <1>2, <2>1 DEF Kept
<1>5. c.type = "MIN_FUNCTION" => \A q \in S : Provided(a, q, c.model)
  <2> SUFFICES ASSUME c.type = "MIN_FUNCTION", NEW q \in S
               PROVE  Provided(a, q, c.model)
    OBVIOUS
  <2>1. c.model \in Functions(q, C)
    BY DEF Functions, Demanded
  <2> QED
    BY <1>3, <2>1, FunctionProvided
<1>6. ASSUME NEW q1 \in S, NEW q2 \in S, q1 # q2
      PROVE  /\ c.type = "ALL_DISTINCT" =>
                  Agents(c.model, a[q1].roles) \cap Agents(c.model, a[q2].roles) = {}
             /\ c.type = "ALL_EQUAL" =>
                  Agents(c.model, a[q1].roles) = Agents(c.model, a[q2].roles)
             /\ c.type = "MIN_DISTINCT" => Cardinality(Either(a, c.model, q1, q2)) >= c.value
             /\ c.type = "MAX_DISTINCT" => Cardinality(Either(a, c.model, q1, q2)) <= c.value
  <2>1. /\ Distinct(c, a, q1, q2) = Cardinality(Either(a, c.model, q1, q2))
        /\ Distinct(c, a, q1, q2) <= 0 =>
             Agents(c.model, a[q1].roles) = Agents(c.model, a[q2].roles)
    BY <1>1, <1>3, <1>6, DistinctIsEither
  <2> DEFINE pairs == {pr \in S \X S : pr[1] # pr[2]}
  <2>2. <<q1, q2>> \in pairs
    BY <1>6
  <2>3. /\ c.type = "MIN_DISTINCT" => Distinct(c, a, q1, q2) >= c.value
        /\ c.type = "MAX_DISTINCT" => Distinct(c, a, q1, q2) <= c.value
        /\ c.type = "ALL_EQUAL" => Distinct(c, a, q1, q2) <= 0
    <3>1. /\ c.type = "MIN_DISTINCT" =>
               \A pr \in pairs : Distinct(c, a, pr[1], pr[2]) >= c.value
          /\ c.type = "MAX_DISTINCT" =>
               \A pr \in pairs : Distinct(c, a, pr[1], pr[2]) <= c.value
          /\ c.type = "ALL_EQUAL" =>
               \A pr \in pairs : Distinct(c, a, pr[1], pr[2]) <= 0
      BY <1>2 DEF Kept
    <3>2. <<q1, q2>>[1] = q1 /\ <<q1, q2>>[2] = q2
      OBVIOUS
    <3> HIDE DEF pairs
    <3> QED
      BY <2>2, <3>1, <3>2
  <2>4. ASSUME c.type = "ALL_DISTINCT"
        PROVE  Agents(c.model, a[q1].roles) \cap Agents(c.model, a[q2].roles) = {}
    <3> SUFFICES ASSUME NEW r \in Agents(c.model, a[q1].roles),
                        r \in Agents(c.model, a[q2].roles)
                 PROVE  FALSE
      OBVIOUS
    <3>1. r \in a[q1].roles /\ r \in a[q2].roles /\ ModelOf[r] = c.model
      BY DEF Agents
    <3>2. r \in Role
      BY <1>1, <1>3, <3>1 DEF Distributions
    <3>3. Presence(c, a, r) <= 1
      BY <1>2, <2>4, <3>1, <3>2 DEF Kept
    <3> QED
      BY <1>6, <3>1, <3>3, PresenceCounts
  <2> QED
    BY <2>1, <2>3, <2>4
<1> QED
  BY <1>4, <1>5, <1>6 DEF Meaning

\* Two closed intervals that contain a common instant are not apart.
LEMMA MeetingExclude ==
  ASSUME NEW order \in Orders, NEW q1 \in Requirement, NEW q2 \in Requirement,
         NEW now \in Nat, order[q1.from] <= now, now <= order[q1.to],
         order[q2.from] <= now, now <= order[q2.to], q1.location # q2.location
  PROVE  Exclusive(order, q1, q2)
BY RequirementTimes DEF Exclusive

-----------------------------------------------------------------------------
(* Twins. *)

LEMMA TwinsEquivalence ==
  ASSUME NEW a, NEW b, NEW c
  PROVE  /\ Twins(a, a)
         /\ Twins(a, b) => Twins(b, a)
         /\ Twins(a, b) /\ Twins(b, c) => Twins(a, c)
BY DEF Twins

\* A role that is required more than once has a counterpart in every twin.
LEMMA TwinsActive ==
  ASSUME NEW a \in Distributions, NEW b \in Distributions, Twins(a, b), Active(a) # {}
  PROVE  Active(b) # {}
<1>1. PICK r \in Role : Cardinality({q \in Requirement : r \in a[q].roles}) > 1
  BY DEF Active
<1> DEFINE S == {q \in Requirement : r \in a[q].roles}
           Like(d) == {x \in Role : /\ ModelOf[x] = ModelOf[r]
                                    /\ {q \in Requirement : x \in d[q].roles} = S}
<1>2. \A d : IsFiniteSet(Like(d)) /\ (Cardinality(Like(d)) = 0 <=> Like(d) = {})
  <2> TAKE d
  <2>1. Like(d) \in SUBSET Role
    OBVIOUS
  <2> HIDE DEF Like
  <2> QED
    BY <2>1, RolesFinite, FS_EmptySet
<1>3. ModelOf[r] \in Model /\ S \in SUBSET Requirement
  BY RolesAssumption
<1>4. Pattern(a, ModelOf[r], S) = Pattern(b, ModelOf[r], S)
  BY <1>3 DEF Twins
<1>5. Cardinality(Like(a)) = Cardinality(Like(b))
  BY <1>4 DEF Pattern
<1>6. r \in Like(a)
  OBVIOUS
<1>7. PICK x \in Role : {q \in Requirement : x \in b[q].roles} = S
  <2>1. Like(b) # {}
    <3> HIDE DEF Like
    <3> QED
      BY <1>2, <1>5, <1>6
  <2>2. PICK x \in Like(b) : TRUE
    BY <2>1
  <2> QED
    BY <2>2
<1> QED
  BY <1>1, <1>7 DEF Active

-----------------------------------------------------------------------------
(* The inductive invariant: the spaces that are alive admit only what the   *)
(* constraints that they keep allow.                                        *)

Alive == open \cup ({current} \ {None})

Sound(w, s) ==
  s.stage # "order" =>
    \E order \in Orders :
      /\ s.orders = {order}
      /\ s.admitted \subseteq Distribution(w, order, w.constraints \cup s.extra)
      /\ s.plain \subseteq Distribution(w, order, w.constraints)

Allowed(w, h) ==
  /\ h \in [order : Orders, distribution : Distributions]
  /\ \E C \in {{}, w.resolvers} :
       h.distribution \in Distribution(w, h.order, w.constraints \cup C)

IInv ==
  /\ search \in Searches
  /\ current \in Space(search) \cup {None} /\ open \subseteq Space(search)
  /\ current = None => open = {}
  /\ \A s \in Alive : Sound(search, s)
  /\ \A s \in open : s.stage \in {"order", "branching"}
  /\ \A h \in handed : Allowed(search, h)

\* A space under search, and one that is put aside.
LEMMA DescendKeeps ==
  ASSUME IInv, NEW left \in Space(search), NEW right \in Space(search),
         Sound(search, left), Sound(search, right),
         right.stage \in {"order", "branching"}, Descend(left, right)
  PROVE  IInv'
<1> DEFINE l == [left EXCEPT !.depth = @ + 1]
           r == [right EXCEPT !.depth = @ + 1]
<1>1. l \in Space(search) /\ r \in Space(search)
  BY DEF Space
<1>2. /\ l.stage = left.stage /\ l.orders = left.orders /\ l.admitted = left.admitted
      /\ l.plain = left.plain /\ l.extra = left.extra
      /\ r.stage = right.stage /\ r.orders = right.orders /\ r.admitted = right.admitted
      /\ r.plain = right.plain /\ r.extra = right.extra
  BY DEF Space
<1>3. Sound(search, l) /\ Sound(search, r)
  BY <1>2 DEF Sound
<1>4. /\ current' = l /\ open' = open \cup {r}
      /\ search' = search /\ handed' = handed
  BY DEF Descend
<1>5. l # None
  BY <1>1, NoneAssumption DEF IInv
<1> HIDE DEF l, r
<1> QED
  BY <1>1, <1>2, <1>3, <1>4, <1>5 DEF IInv, Alive

\* The distributions of a space are divided, and what is left out of one part is at
\* most left out of the search.
LEMMA BranchKeeps ==
  ASSUME IInv, In("branching"), NEW part, NEW droppable, Branch(part, droppable)
  PROVE  IInv'
<1>1. current \in Space(search) /\ Sound(search, current) /\ current.stage = "branching"
  BY DEF IInv, In, Alive
<1>2. PICK cloned \in {TRUE, current.cloned}, dropped \in SUBSET droppable :
        Descend([current EXCEPT !.admitted = @ \cap part, !.plain = @ \cap part,
                                !.cloned = cloned],
                [current EXCEPT !.admitted =
                                  (IF cloned THEN @ ELSE current.plain) \ (part \cup dropped),
                                !.plain = @ \ (part \cup dropped),
                                !.extra = IF cloned THEN @ ELSE {}, !.cloned = cloned])
  BY DEF Branch
<1> DEFINE left == [current EXCEPT !.admitted = @ \cap part, !.plain = @ \cap part,
                                   !.cloned = cloned]
           right == [current EXCEPT !.admitted =
                                      (IF cloned THEN @ ELSE current.plain) \ (part \cup dropped),
                                    !.plain = @ \ (part \cup dropped),
                                    !.extra = IF cloned THEN @ ELSE {}, !.cloned = cloned]
<1>3. cloned \in BOOLEAN
  BY <1>1 DEF Space
<1>4. left \in Space(search) /\ right \in Space(search)
  BY <1>1, <1>3 DEF Space
<1>5. /\ left.stage = "branching" /\ left.orders = current.orders /\ left.extra = current.extra
      /\ left.admitted \subseteq current.admitted /\ left.plain \subseteq current.plain
      /\ right.stage = "branching" /\ right.orders = current.orders
      /\ right.plain \subseteq current.plain
      /\ \/ right.extra = current.extra /\ right.admitted \subseteq current.admitted
         \/ right.extra = {} /\ right.admitted \subseteq current.plain
  BY <1>1, <1>3 DEF Space
<1>6. PICK order \in Orders :
        /\ current.orders = {order}
        /\ current.admitted \subseteq
             Distribution(search, order, search.constraints \cup current.extra)
        /\ current.plain \subseteq Distribution(search, order, search.constraints)
  BY <1>1 DEF Sound
<1>7. search.constraints \cup {} = search.constraints
  OBVIOUS
<1> HIDE DEF left, right
<1>8. Sound(search, left) /\ Sound(search, right)
  BY <1>5, <1>6, <1>7 DEF Sound
<1>9. Descend(left, right)
  BY <1>2 DEF left, right
<1> QED
  BY <1>4, <1>5, <1>8, <1>9, DescendKeeps

LEMMA InitIInv == Init => IInv
<1> SUFFICES ASSUME Init PROVE IInv
  OBVIOUS
<1>1. Root \in Space(search) /\ Root.stage = "order"
  <2>1. Orders \in OrderSets
    BY MissionAssumption DEF OrderSets
  <2> QED
    BY <2>1 DEF Root, Space
<1>2. Root # None
  BY <1>1, NoneAssumption DEF Init
<1>3. Sound(search, Root)
  BY <1>1 DEF Sound
<1>4. current = Root /\ open = {} /\ handed = {} /\ search \in Searches
  BY DEF Init
<1> HIDE DEF Root
<1> QED
  BY <1>1, <1>2, <1>3, <1>4 DEF IInv, Alive

LEMMA OrdersDivided ==
  ASSUME NEW X \in OrderSets, NEW S, S \subseteq X, S # X, NEW o \in S
  PROVE  S \in OrderSets /\ X \ S \in OrderSets
<1>1. X \ S # {} /\ S # {}
  OBVIOUS
<1>2. X \subseteq Orders
  BY DEF OrderSets
<1>3. S \subseteq Orders /\ X \ S \subseteq Orders
  BY <1>2
<1> QED
  BY <1>1, <1>3 DEF OrderSets

LEMMA SpaceOfOrders ==
  ASSUME NEW w, NEW s \in Space(w), NEW S \in OrderSets, NEW R \in OrderSets,
         R = s.orders \ S
  PROVE  /\ [s EXCEPT !.orders = S] \in Space(w)
         /\ [s EXCEPT !.orders = @ \ S, !.extra = {}] \in Space(w)
BY DEF Space

LEMMA BranchOrderIInv ==
  ASSUME IInv, NEW t, BranchOrder(t)
  PROVE  IInv'
<1>1. current \in Space(search) /\ current.stage = "order"
  BY DEF IInv, BranchOrder, In
<1>2. PICK o \in current.orders :
        /\ {x \in current.orders : x[t] = o[t]} # current.orders
        /\ Descend([current EXCEPT !.orders = {x \in current.orders : x[t] = o[t]}],
                   [current EXCEPT !.orders = @ \ {x \in current.orders : x[t] = o[t]},
                                   !.extra = {}])
  BY DEF BranchOrder
<1> DEFINE S == {x \in current.orders : x[t] = o[t]}
           left == [current EXCEPT !.orders = S]
           right == [current EXCEPT !.orders = @ \ S, !.extra = {}]
<1>3. S \in OrderSets /\ current.orders \ S \in OrderSets
  <2>1. o \in S /\ S \subseteq current.orders
    OBVIOUS
  <2>2. S # current.orders
    BY <1>2
  <2>3. current.orders \in OrderSets
    BY <1>1 DEF Space
  <2> HIDE DEF S
  <2> QED
    BY <2>1, <2>2, <2>3, OrdersDivided
<1> HIDE DEF S
<1>4. left \in Space(search) /\ right \in Space(search)
  BY <1>1, <1>3, SpaceOfOrders
<1>5. left.stage = "order" /\ right.stage = "order"
  BY <1>1 DEF Space
<1>6. Descend(left, right)
  BY <1>2 DEF S
<1> HIDE DEF left, right
<1>7. Sound(search, left) /\ Sound(search, right)
  BY <1>5 DEF Sound
<1> QED
  BY <1>4, <1>5, <1>6, <1>7, DescendKeeps

LEMMA OneOrder ==
  ASSUME NEW s, s.orders \subseteq Orders, Cardinality(s.orders) = 1
  PROVE  Order(s) \in Orders /\ s.orders = {Order(s)}
<1>1. IsFiniteSet(s.orders)
  BY MissionAssumption, FS_Subset
<1>2. PICK o : s.orders = {o}
  BY <1>1, FS_Singleton
<1> QED
  BY <1>2 DEF Order

LEMMA PostConstraintsIInv ==
  ASSUME IInv, PostConstraints
  PROVE  IInv'
<1> DEFINE o == Order(current)
           A == Distribution(search, o, search.constraints \cup current.extra)
           P == Distribution(search, o, search.constraints)
           next == [current EXCEPT !.stage = "branching", !.admitted = A, !.plain = P]
<1>1. current \in Space(search)
  BY DEF IInv, PostConstraints, In
<1>2. o \in Orders /\ current.orders = {o}
  BY <1>1, OneOrder DEF PostConstraints, Space, OrderSets
<1>3. A \subseteq Distributions /\ P \subseteq Distributions
  BY DistributionType
<1>4. /\ current' = next /\ open' = open /\ search' = search /\ handed' = handed
  BY DEF PostConstraints
<1> HIDE DEF A, P
<1>5. next \in Space(search)
  BY <1>1, <1>3 DEF Space
<1>6. /\ next.orders = current.orders /\ next.extra = current.extra
      /\ next.admitted = A /\ next.plain = P
  BY <1>1 DEF Space
<1> HIDE DEF next, o
<1>7. Sound(search, next)
  <2>1. /\ A = Distribution(search, o, search.constraints \cup next.extra)
        /\ P = Distribution(search, o, search.constraints)
    BY <1>6 DEF A, P
  <2> QED
    BY <1>2, <1>6, <2>1 DEF Sound
<1>8. next # None
  BY <1>5, NoneAssumption DEF IInv
<1> QED
  BY <1>4, <1>5, <1>7, <1>8 DEF IInv, Alive

LEMMA PostRoleAssignmentsIInv ==
  ASSUME IInv, PostRoleAssignments
  PROVE  IInv'
<1>1. current \in Space(search) /\ Sound(search, current) /\ current.stage = "branching"
  BY DEF IInv, PostRoleAssignments, In, Alive
<1>2. PICK a \in current.admitted :
        /\ current' = [current EXCEPT !.stage = IF Active(a) = {} THEN "failed" ELSE "handed"]
        /\ handed' = IF Active(a) = {} THEN handed
                     ELSE handed \cup {[order |-> Order(current), distribution |-> a]}
  BY DEF PostRoleAssignments
<1>3. open' = open /\ search' = search
  BY DEF PostRoleAssignments
<1>4. /\ current' \in Space(search)
      /\ current'.orders = current.orders /\ current'.extra = current.extra
      /\ current'.admitted = current.admitted /\ current'.plain = current.plain
  BY <1>1, <1>2 DEF Space
<1>5. PICK order \in Orders :
        /\ current.orders = {order}
        /\ current.admitted \subseteq
             Distribution(search, order, search.constraints \cup current.extra)
        /\ current.plain \subseteq Distribution(search, order, search.constraints)
  BY <1>1 DEF Sound
<1>6. Sound(search, current')
  BY <1>4, <1>5 DEF Sound
<1>7. Allowed(search, [order |-> Order(current), distribution |-> a])
  <2>1. Order(current) = order
    BY <1>5 DEF Order
  <2>2. a \in Distribution(search, order, search.constraints \cup current.extra)
    BY <1>5
  <2>3. a \in Distributions
    BY <2>2, DistributionType
  <2>4. current.extra \in {{}, search.resolvers}
    BY <1>1 DEF Space
  <2> QED
    BY <2>1, <2>2, <2>3, <2>4 DEF Allowed
<1>8. \A h \in handed' : Allowed(search, h)
  BY <1>2, <1>7 DEF IInv
<1>9. current' # None
  BY <1>4, NoneAssumption DEF IInv
<1> QED
  BY <1>3, <1>4, <1>6, <1>8, <1>9 DEF IInv, Alive

LEMMA BacktrackIInv ==
  ASSUME IInv, Backtrack
  PROVE  IInv'
<1>1. search' = search /\ handed' = handed
  BY DEF Backtrack
<1>2. CASE open = {}
  BY <1>1, <1>2 DEF Backtrack, IInv, Alive
<1>3. CASE open # {}
  <2>1. PICK s \in open : current' = s /\ open' = open \ {s}
    BY <1>3 DEF Backtrack
  <2>2. s # None
    BY <2>1, NoneAssumption DEF IInv
  <2> QED
    BY <1>1, <2>1, <2>2 DEF IInv, Alive
<1> QED
  BY <1>2, <1>3

LEMMA NextIInv == IInv /\ [Next]_vars => IInv'
<1> SUFFICES ASSUME IInv, [Next]_vars PROVE IInv'
  OBVIOUS
<1>1. ASSUME NEW t \in TimePoint, BranchOrder(t) PROVE IInv'
  BY <1>1, BranchOrderIInv
<1>2. CASE PostConstraints
  BY <1>2, PostConstraintsIInv
<1>3. ASSUME NEW q \in Requirement, NEW m \in Model, NEW n \in 0..Cardinality(Role),
             BranchUsage(q, m, n)
      PROVE  IInv'
  BY <1>3, BranchKeeps DEF BranchUsage
<1>4. ASSUME NEW q \in Requirement, NEW r \in Role, BranchRole(q, r)
      PROVE  IInv'
  <2>1. In("branching") /\ \E left, droppable : Branch(left, droppable)
    BY <1>4 DEF BranchRole
  <2> QED
    BY <2>1, BranchKeeps
<1>5. CASE PostRoleAssignments
  BY <1>5, PostRoleAssignmentsIInv
<1>6. CASE Backtrack
  BY <1>6, BacktrackIInv
<1>7. CASE UNCHANGED vars
  BY <1>7 DEF vars, IInv, Alive
<1> QED
  BY <1>1, <1>2, <1>3, <1>4, <1>5, <1>6, <1>7 DEF Next

THEOREM Invariance == Spec => []IInv
BY InitIInv, NextIInv, PTL DEF Spec

-----------------------------------------------------------------------------
(* The theorems. *)

\* Type correctness, for every mission.
THEOREM TypeCorrect == Spec => []TypeOK
<1>1. IInv => TypeOK
  BY DEF IInv, TypeOK, Allowed
<1> QED
  BY <1>1, Invariance, PTL

\* What is handed on keeps the conditions and the constraints of the mission,
\* whatever copies the spaces of the search are rebuilt from.
THEOREM MissionIsKept == Spec => []MissionKept
<1>1. ASSUME IInv PROVE MissionKept
  <2> SUFFICES ASSUME NEW h \in handed
               PROVE  /\ \A p \in Conditions :
                           /\ p.resource \in Model /\ p.bound = "MIN" =>
                                Count(h.distribution, Place(p), p.resource) >= p.cardinality
                           /\ p.resource \in Function =>
                                Provided(h.distribution, Place(p), p.resource)
                      /\ \A c \in search.constraints : Meaning(c, h.distribution)
    BY DEF MissionKept
  <2>1. PICK C \in {{}, search.resolvers} :
          h.distribution \in Distribution(search, h.order, search.constraints \cup C)
    BY <1>1 DEF IInv, Allowed
  <2>2. \A c \in search.constraints \cup C : IsConstraint(c)
    BY <1>1, SearchesAssumption DEF IInv, IsSearch
  <2> QED
    BY <2>1, <2>2, ConditionsServed, KeptMeans
<1> QED
  BY <1>1, Invariance, PTL

\* No distribution that is handed on asks a role to be at two locations at a time.
THEOREM RolesAtOnePlace == Spec => []OneRoleAtATime
<1>1. ASSUME IInv PROVE OneRoleAtATime
  <2> SUFFICES ASSUME NEW h \in handed, NEW t \in TimePoint,
                      NEW q1 \in Requirement, NEW q2 \in Requirement,
                      h.order[q1.from] <= h.order[t], h.order[t] <= h.order[q1.to],
                      h.order[q2.from] <= h.order[t], h.order[t] <= h.order[q2.to],
                      h.distribution[q1].roles \cap h.distribution[q2].roles # {},
                      q1.location # q2.location
               PROVE  FALSE
    BY DEF OneRoleAtATime
  <2>1. h.order \in Orders
    BY <1>1 DEF IInv, Allowed
  <2>2. h.order[t] \in Nat
    BY <2>1, RequirementTimes DEF TimePoint
  <2>3. Exclusive(h.order, q1, q2)
    BY <2>1, <2>2, MeetingExclude
  <2>4. Unary(h.order, h.distribution)
    BY <1>1 DEF IInv, Allowed, Distribution
  <2> QED
    BY <2>3, <2>4 DEF Unary
<1> QED
  BY <1>1, Invariance, PTL

-----------------------------------------------------------------------------
(* A master search misses nothing: every distribution with an active role   *)
(* has a twin that has been handed on or that a space still admits.         *)

Found(order, a) == \E h \in handed : h.order = order /\ Twins(h.distribution, a)
Ahead(order, a, s) ==
  /\ order \in s.orders
  /\ s.stage = "order" \/ (s.stage = "branching" /\ \E b \in s.admitted : Twins(b, a))

Covered ==
  \A order \in Orders : \A a \in Distribution(search, order, search.constraints) :
    Active(a) # {} => Found(order, a) \/ \E s \in Alive : Ahead(order, a, s)

\* A master keeps no resolvers, and so its copies admit what it admits.
IsMaster == search.resolvers = {}
Undivided == \A s \in Alive : s.plain = s.admitted
MInv == IsMaster => Covered /\ Undivided

LEMMA MasterKeepsNothing ==
  ASSUME IInv, IsMaster, NEW s \in Space(search)
  PROVE  s.extra = {} /\ search.constraints \cup s.extra = search.constraints
BY DEF IsMaster, Space

LEMMA DescendCovers ==
  ASSUME IInv, Covered, Undivided,
         NEW left \in Space(search), NEW right \in Space(search), Descend(left, right),
         left.plain = left.admitted, right.plain = right.admitted,
         \A order, a : Ahead(order, a, current) =>
                         Ahead(order, a, left) \/ Ahead(order, a, right)
  PROVE  Covered' /\ Undivided'
<1> DEFINE l == [left EXCEPT !.depth = @ + 1]
           r == [right EXCEPT !.depth = @ + 1]
<1>1. l \in Space(search) /\ r \in Space(search)
  BY DEF Space
<1>2. /\ l.stage = left.stage /\ l.orders = left.orders /\ l.admitted = left.admitted
      /\ l.plain = left.plain
      /\ r.stage = right.stage /\ r.orders = right.orders /\ r.admitted = right.admitted
      /\ r.plain = right.plain
  BY DEF Space
<1>3. /\ current' = l /\ open' = open \cup {r}
      /\ search' = search /\ handed' = handed
  BY DEF Descend
<1>4. l # None /\ r # None
  BY <1>1, NoneAssumption DEF IInv
<1> HIDE DEF l, r
<1>5. l \in Alive' /\ r \in Alive' /\ open \subseteq Alive' /\ Alive' \subseteq open \cup {l, r}
  BY <1>3, <1>4 DEF Alive
<1>6. Undivided'
  BY <1>2, <1>5 DEF Undivided, Alive
<1>7. Covered'
  <2> SUFFICES ASSUME NEW order \in Orders,
                      NEW a \in Distribution(search, order, search.constraints), Active(a) # {}
               PROVE  Found(order, a)' \/ \E s \in Alive' : Ahead(order, a, s)
    BY <1>3 DEF Covered
  <2>1. CASE Found(order, a)
    BY <1>3, <2>1 DEF Found
  <2>2. ASSUME NEW s \in Alive, Ahead(order, a, s)
        PROVE  \E x \in Alive' : Ahead(order, a, x)
    <3>1. CASE s \in open
      BY <1>5, <2>2, <3>1
    <3>2. CASE s = current
      <4>1. Ahead(order, a, left) \/ Ahead(order, a, right)
        BY <2>2, <3>2
      <4>2. Ahead(order, a, l) \/ Ahead(order, a, r)
        BY <1>2, <4>1 DEF Ahead
      <4> QED
        BY <1>5, <4>2
    <3> QED
      BY <2>2, <3>1, <3>2 DEF Alive
  <2> QED
    BY <2>1, <2>2 DEF Covered
<1> QED
  BY <1>6, <1>7

LEMMA BranchOrderCovers ==
  ASSUME IInv, Covered, Undivided, NEW t, BranchOrder(t)
  PROVE  Covered' /\ Undivided'
<1>1. current \in Space(search) /\ current.stage = "order" /\ current \in Alive
  BY DEF IInv, BranchOrder, In, Alive
<1>2. PICK o \in current.orders :
        /\ {x \in current.orders : x[t] = o[t]} # current.orders
        /\ Descend([current EXCEPT !.orders = {x \in current.orders : x[t] = o[t]}],
                   [current EXCEPT !.orders = @ \ {x \in current.orders : x[t] = o[t]},
                                   !.extra = {}])
  BY DEF BranchOrder
<1> DEFINE S == {x \in current.orders : x[t] = o[t]}
           left == [current EXCEPT !.orders = S]
           right == [current EXCEPT !.orders = @ \ S, !.extra = {}]
<1>3. S \in OrderSets /\ current.orders \ S \in OrderSets
  <2>1. o \in S /\ S \subseteq current.orders
    OBVIOUS
  <2>2. S # current.orders
    BY <1>2
  <2>3. current.orders \in OrderSets
    BY <1>1 DEF Space
  <2> HIDE DEF S
  <2> QED
    BY <2>1, <2>2, <2>3, OrdersDivided
<1> HIDE DEF S
<1>4. left \in Space(search) /\ right \in Space(search)
  BY <1>1, <1>3, SpaceOfOrders
<1>5. /\ left.stage = "order" /\ right.stage = "order"
      /\ left.orders = S /\ right.orders = current.orders \ S
      /\ left.plain = current.plain /\ left.admitted = current.admitted
      /\ right.plain = current.plain /\ right.admitted = current.admitted
  BY <1>1 DEF Space
<1>6. Descend(left, right)
  BY <1>2 DEF S
<1>7. current.plain = current.admitted
  BY <1>1 DEF Undivided
<1> HIDE DEF left, right
<1>8. \A order, a : Ahead(order, a, current) =>
                      Ahead(order, a, left) \/ Ahead(order, a, right)
  BY <1>5 DEF Ahead
<1> QED
  BY <1>4, <1>5, <1>6, <1>7, <1>8, DescendCovers

LEMMA BranchCovers ==
  ASSUME IInv, Covered, Undivided, In("branching"), NEW part, NEW droppable,
         \A x \in droppable : \E b \in part \cap current.admitted : Twins(x, b),
         Branch(part, droppable)
  PROVE  Covered' /\ Undivided'
<1>1. /\ current \in Space(search) /\ current.stage = "branching"
      /\ current.plain = current.admitted
  BY DEF IInv, In, Alive, Undivided
<1>2. PICK cloned \in {TRUE, current.cloned}, dropped \in SUBSET droppable :
        Descend([current EXCEPT !.admitted = @ \cap part, !.plain = @ \cap part,
                                !.cloned = cloned],
                [current EXCEPT !.admitted =
                                  (IF cloned THEN @ ELSE current.plain) \ (part \cup dropped),
                                !.plain = @ \ (part \cup dropped),
                                !.extra = IF cloned THEN @ ELSE {}, !.cloned = cloned])
  BY DEF Branch
<1> DEFINE left == [current EXCEPT !.admitted = @ \cap part, !.plain = @ \cap part,
                                   !.cloned = cloned]
           right == [current EXCEPT !.admitted =
                                      (IF cloned THEN @ ELSE current.plain) \ (part \cup dropped),
                                    !.plain = @ \ (part \cup dropped),
                                    !.extra = IF cloned THEN @ ELSE {}, !.cloned = cloned]
<1>3. cloned \in BOOLEAN
  BY <1>1 DEF Space
<1>4. left \in Space(search) /\ right \in Space(search)
  BY <1>1, <1>3 DEF Space
<1>5. /\ left.stage = "branching" /\ left.orders = current.orders
      /\ left.admitted = current.admitted \cap part /\ left.plain = left.admitted
      /\ right.stage = "branching" /\ right.orders = current.orders
      /\ right.admitted = current.admitted \ (part \cup dropped)
      /\ right.plain = right.admitted
  BY <1>1, <1>3 DEF Space
<1> HIDE DEF left, right
<1>6. ASSUME NEW order, NEW a, Ahead(order, a, current)
      PROVE  Ahead(order, a, left) \/ Ahead(order, a, right)
  <2>1. PICK b \in current.admitted : Twins(b, a)
    BY <1>1, <1>6 DEF Ahead
  <2>2. order \in current.orders
    BY <1>6 DEF Ahead
  <2>3. CASE b \in part
    BY <1>5, <2>1, <2>2, <2>3 DEF Ahead
  <2>4. CASE b \in dropped
    <3>1. PICK x \in part \cap current.admitted : Twins(b, x)
      BY <2>4
    <3>2. Twins(x, a)
      BY <2>1, <3>1, TwinsEquivalence
    <3> QED
      BY <1>5, <2>2, <3>1, <3>2 DEF Ahead
  <2>5. CASE b \notin part \cup dropped
    BY <1>5, <2>1, <2>2, <2>5 DEF Ahead
  <2> QED
    BY <2>3, <2>4, <2>5
<1>7. Descend(left, right)
  BY <1>2 DEF left, right
<1> QED
  BY <1>4, <1>5, <1>6, <1>7, DescendCovers

LEMMA PostConstraintsCovers ==
  ASSUME IInv, IsMaster, Covered, Undivided, PostConstraints
  PROVE  Covered' /\ Undivided'
<1> DEFINE o == Order(current)
           A == Distribution(search, o, search.constraints \cup current.extra)
           P == Distribution(search, o, search.constraints)
           next == [current EXCEPT !.stage = "branching", !.admitted = A, !.plain = P]
<1>1. current \in Space(search)
  BY DEF IInv, PostConstraints, In
<1>2. o \in Orders /\ current.orders = {o}
  BY <1>1, OneOrder DEF PostConstraints, Space, OrderSets
<1>3. A = P
  BY <1>1, MasterKeepsNothing
<1>4. A \subseteq Distributions /\ P \subseteq Distributions
  BY DistributionType
<1>5. /\ current' = next /\ open' = open /\ search' = search /\ handed' = handed
  BY DEF PostConstraints
<1>6. \A a : a \in Distribution(search, o, search.constraints) => a \in P
  OBVIOUS
<1> HIDE DEF A, P
<1>7. /\ next.orders = current.orders /\ next.stage = "branching"
      /\ next.admitted = A /\ next.plain = P
  BY <1>1 DEF Space
<1>8. next # None
  <2>1. next \in Space(search)
    BY <1>1, <1>4 DEF Space
  <2> QED
    BY <2>1, NoneAssumption DEF IInv
<1> HIDE DEF next
<1>9. Undivided'
  BY <1>3, <1>5, <1>7 DEF Undivided, Alive
<1>10. Covered'
  <2> SUFFICES ASSUME NEW order \in Orders,
                      NEW a \in Distribution(search, order, search.constraints), Active(a) # {}
               PROVE  Found(order, a)' \/ \E s \in Alive' : Ahead(order, a, s)
    BY <1>5 DEF Covered
  <2>1. CASE Found(order, a)
    BY <1>5, <2>1 DEF Found
  <2>2. ASSUME NEW s \in Alive, Ahead(order, a, s)
        PROVE  \E x \in Alive' : Ahead(order, a, x)
    <3>1. CASE s \in open
      BY <1>5, <2>2, <3>1 DEF Alive
    <3>2. CASE s = current
      <4>1. order = o
        BY <1>2, <2>2, <3>2 DEF Ahead
      <4>2. a \in next.admitted
        BY <1>3, <1>6, <1>7, <4>1
      <4>3. Ahead(order, a, next)
        BY <1>2, <1>7, <4>1, <4>2, TwinsEquivalence DEF Ahead
      <4> QED
        BY <1>5, <1>8, <4>3 DEF Alive
    <3> QED
      BY <2>2, <3>1, <3>2 DEF Alive
  <2> QED
    BY <2>1, <2>2 DEF Covered
<1> QED
  BY <1>9, <1>10

LEMMA PostRoleAssignmentsCovers ==
  ASSUME IInv, Covered, Undivided, PostRoleAssignments
  PROVE  Covered' /\ Undivided'
<1>1. /\ current \in Space(search) /\ Sound(search, current) /\ current.stage = "branching"
      /\ current \in Alive
  BY DEF IInv, PostRoleAssignments, In, Alive
<1>2. PICK x \in current.admitted :
        /\ current.admitted = {x}
        /\ current' = [current EXCEPT !.stage = IF Active(x) = {} THEN "failed" ELSE "handed"]
        /\ handed' = IF Active(x) = {} THEN handed
                     ELSE handed \cup {[order |-> Order(current), distribution |-> x]}
  BY DEF PostRoleAssignments
<1>3. open' = open /\ search' = search
  BY DEF PostRoleAssignments
<1>4. current'.admitted = current.admitted /\ current'.plain = current.plain
  BY <1>1, <1>2 DEF Space
<1>5. Undivided'
  BY <1>1, <1>3, <1>4 DEF Undivided, Alive
<1>6. x \in Distributions
  BY <1>1 DEF Space
<1>7. \E order \in Orders : current.orders = {order}
  BY <1>1 DEF Sound
<1>8. Covered'
  <2> SUFFICES ASSUME NEW order \in Orders,
                      NEW a \in Distribution(search, order, search.constraints), Active(a) # {}
               PROVE  Found(order, a)' \/ \E s \in Alive' : Ahead(order, a, s)
    BY <1>3 DEF Covered
  <2>1. CASE Found(order, a)
    BY <1>2, <2>1 DEF Found
  <2>2. ASSUME NEW s \in Alive, Ahead(order, a, s)
        PROVE  Found(order, a)' \/ \E y \in Alive' : Ahead(order, a, y)
    <3>1. CASE s \in open
      BY <1>3, <2>2, <3>1 DEF Alive
    <3>2. CASE s = current
      <4>1. Twins(x, a) /\ order \in current.orders
        BY <1>1, <1>2, <2>2, <3>2 DEF Ahead
      <4>2. Active(x) # {}
        BY <1>6, <4>1, TwinsActive, TwinsEquivalence, DistributionType
      <4>3. Order(current) = order
        BY <1>7, <4>1 DEF Order
      <4>4. [order |-> order, distribution |-> x] \in handed'
        BY <1>2, <4>2, <4>3
      <4> QED
        BY <4>1, <4>4 DEF Found
    <3> QED
      BY <2>2, <3>1, <3>2 DEF Alive
  <2> QED
    BY <2>1, <2>2 DEF Covered
<1> QED
  BY <1>5, <1>8

LEMMA BacktrackCovers ==
  ASSUME IInv, Covered, Undivided, Backtrack
  PROVE  Covered' /\ Undivided'
<1>1. search' = search /\ handed' = handed
  BY DEF Backtrack
<1>2. \A order, a : ~Ahead(order, a, current)
  BY DEF Backtrack, In, Ahead
<1>3. open \subseteq Alive' /\ Alive' \subseteq open
  <2>1. CASE open = {}
    BY <2>1 DEF Backtrack, Alive
  <2>2. CASE open # {}
    <3>1. PICK s \in open : current' = s /\ open' = open \ {s}
      BY <2>2 DEF Backtrack
    <3>2. s # None
      BY <3>1, NoneAssumption DEF IInv
    <3> QED
      BY <3>1, <3>2 DEF Alive
  <2> QED
    BY <2>1, <2>2
<1>4. Undivided'
  BY <1>3 DEF Undivided, Alive
<1>5. Covered'
  <2> SUFFICES ASSUME NEW order \in Orders,
                      NEW a \in Distribution(search, order, search.constraints), Active(a) # {}
               PROVE  Found(order, a)' \/ \E s \in Alive' : Ahead(order, a, s)
    BY <1>1 DEF Covered
  <2>1. Found(order, a) => Found(order, a)'
    BY <1>1 DEF Found
  <2>2. ASSUME NEW s \in Alive, Ahead(order, a, s)
        PROVE  s \in open
    BY <1>2, <2>2 DEF Alive
  <2> QED
    BY <1>3, <2>1, <2>2 DEF Covered
<1> QED
  BY <1>4, <1>5

LEMMA NextMInv == IInv /\ MInv /\ [Next]_vars => MInv'
<1> SUFFICES ASSUME IInv, MInv, [Next]_vars, IsMaster' PROVE (Covered /\ Undivided)'
  BY DEF MInv
<1>0. IsMaster /\ Covered /\ Undivided
  <2>1. search' = search
    <3>1. \A left, right : Descend(left, right) => search' = search
      BY DEF Descend
    <3>2. \A left, droppable : Branch(left, droppable) => search' = search
      BY <3>1 DEF Branch
    <3>3. \A t \in TimePoint : BranchOrder(t) => search' = search
      BY <3>1 DEF BranchOrder
    <3>4. \A q \in Requirement, m \in Model, n \in 0..Cardinality(Role) :
            BranchUsage(q, m, n) => search' = search
      BY <3>2 DEF BranchUsage
    <3>5. \A q \in Requirement, r \in Role : BranchRole(q, r) => search' = search
      BY <3>2 DEF BranchRole
    <3>6. PostConstraints \/ PostRoleAssignments \/ Backtrack \/ UNCHANGED vars
          => search' = search
      BY DEF PostConstraints, PostRoleAssignments, Backtrack, vars
    <3> QED
      BY <3>3, <3>4, <3>5, <3>6 DEF Next
  <2> QED
    BY <2>1 DEF MInv, IsMaster
<1>1. ASSUME NEW t \in TimePoint, BranchOrder(t) PROVE (Covered /\ Undivided)'
  BY <1>0, <1>1, BranchOrderCovers
<1>2. CASE PostConstraints
  BY <1>0, <1>2, PostConstraintsCovers
<1>3. ASSUME NEW q \in Requirement, NEW m \in Model, NEW n \in 0..Cardinality(Role),
             BranchUsage(q, m, n)
      PROVE  (Covered /\ Undivided)'
  BY <1>0, <1>3, BranchCovers DEF BranchUsage
<1>4. ASSUME NEW q \in Requirement, NEW r \in Role, BranchRole(q, r)
      PROVE  (Covered /\ Undivided)'
  <2> DEFINE with == {a \in Candidates : r \in a[q].roles}
             Droppable(left) == {a \in Candidates \ left : \E b \in left : Twins(a, b)}
  <2>1. PICK left \in {with, Candidates \ with} : Branch(left, Droppable(left))
    BY <1>4 DEF BranchRole
  <2>2. In("branching")
    BY <1>4 DEF BranchRole
  <2>3. Candidates = current.admitted
    BY <1>0, <2>2 DEF Candidates, Undivided, Alive, In
  <2>4. left \subseteq Candidates
    BY <2>1
  <2>5. \A x \in Droppable(left) : \E b \in left \cap current.admitted : Twins(x, b)
    BY <2>3, <2>4
  <2> HIDE DEF Droppable, with
  <2> QED
    BY <1>0, <2>1, <2>2, <2>5, BranchCovers
<1>5. CASE PostRoleAssignments
  BY <1>0, <1>5, PostRoleAssignmentsCovers
<1>6. CASE Backtrack
  BY <1>0, <1>6, BacktrackCovers
<1>7. CASE UNCHANGED vars
  BY <1>0, <1>7 DEF vars, Covered, Undivided, Alive, Found
<1> QED
  BY <1>1, <1>2, <1>3, <1>4, <1>5, <1>6, <1>7 DEF Next

LEMMA InitMInv == Init => MInv
<1> SUFFICES ASSUME Init PROVE Covered /\ Undivided
  BY DEF MInv
<1>1. Root.stage = "order" /\ Root.orders = Orders /\ Root.plain = Root.admitted
  BY DEF Root
<1>2. Root # None
  <2>1. Orders \in OrderSets
    BY MissionAssumption DEF OrderSets
  <2>2. Root \in Space(search)
    BY <2>1 DEF Root, Space
  <2> QED
    BY <2>2, NoneAssumption DEF Init
<1>3. current = Root /\ open = {}
  BY DEF Init
<1> HIDE DEF Root
<1>4. Alive = {Root}
  BY <1>2, <1>3 DEF Alive
<1> QED
  BY <1>1, <1>4 DEF Covered, Undivided, Ahead

\* Whatever is branched on first, whatever twins symmetry breaking drops and from
\* whatever copy an alternative is rebuilt, a master search that has ended has handed
\* on every distribution with an active role that the mission admits, or its twin.
THEOREM NothingIsMissed == Spec => []NothingMissed
<1>1. ASSUME IInv, MInv PROVE NothingMissed
  <2> SUFFICES ASSUME current = None, search.resolvers = {}, NEW order \in Orders,
                      NEW a \in Distribution(search, order, search.constraints),
                      Active(a) # {}
               PROVE  \E h \in handed : h.order = order /\ Twins(h.distribution, a)
    BY DEF NothingMissed
  <2>1. Alive = {}
    BY <1>1 DEF IInv, Alive
  <2>2. Covered
    BY <1>1 DEF MInv, IsMaster
  <2> QED
    BY <2>1, <2>2 DEF Covered, Found
<1>2. Spec => []MInv
  BY Invariance, InitMInv, NextMInv, PTL DEF Spec
<1> QED
  BY <1>1, <1>2, Invariance, PTL
=============================================================================
