------------------------ MODULE TransshipmentProofs ------------------------
(***************************************************************************)
(* Proofs about Transshipment for any time points, locations, roles and    *)
(* demands: the flow that a space ends with, computed or taken from the    *)
(* cache, is one for its own timelines and requirements, it carries the    *)
(* items from point to point within the weights of the edges, and is       *)
(* reported short only if there is not enough room.                        *)
(***************************************************************************)
EXTENDS Transshipment, FiniteSetTheorems, WellFoundedInduction, TLAPS

-----------------------------------------------------------------------------
(* Sizes. *)

LEMMA Sizes == NumTimes \in Nat /\ NumTimes > 1 /\ Last \in Nat /\ Last >= 1 /\ Last = NumTimes - 1
BY SizeAssumption DEF Last

LEMMA TakersFinite ==
  ASSUME NEW d
  PROVE  /\ IsFiniteSet(Takers(d)) /\ Takers(d) \subseteq Roles
         /\ Items(d) \subseteq Takers(d) /\ Carriers(d) \subseteq Takers(d)
         /\ IsFiniteSet(Items(d)) /\ IsFiniteSet(Carriers(d))
         /\ Items(d) \cap Carriers(d) = {} /\ Items(d) \cup Carriers(d) = Takers(d)
<1>1. Takers(d) \subseteq Roles
  BY DEF Takers
<1>2. Items(d) \subseteq Takers(d) /\ Carriers(d) \subseteq Takers(d)
  BY DEF Items, Carriers
<1>3. Items(d) \cap Carriers(d) = {} /\ Items(d) \cup Carriers(d) = Takers(d)
  BY DEF Items, Carriers
<1> QED
  BY <1>1, <1>2, <1>3, RolesAssumption, FS_Subset

\* A finite family of finite sets has a finite union, here of pairs.
LEMMA PairsFinite ==
  ASSUME NEW S, IsFiniteSet(S), NEW size \in [S -> Nat]
  PROVE  IsFiniteSet(UNION {{x} \X (1..size[x]) : x \in S})
<1> DEFINE f == [x \in S |-> {x} \X (1..size[x])]
           T == {f[x] : x \in S}
<1>1. f \in Surjection(S, T)
  BY DEF Surjection
<1>2. IsFiniteSet(T)
  BY <1>1, FS_Surjection
<1>3. \A X \in T : IsFiniteSet(X)
  <2> SUFFICES ASSUME NEW x \in S PROVE IsFiniteSet({x} \X (1..size[x]))
    OBVIOUS
  <2>1. IsFiniteSet({x})
    BY FS_Singleton
  <2>2. IsFiniteSet(1..size[x])
    BY FS_Interval
  <2> QED
    BY <2>1, <2>2, FS_Product
<1>4. UNION T = UNION {{x} \X (1..size[x]) : x \in S}
  OBVIOUS
<1> QED
  BY <1>2, <1>3, <1>4, FS_UNION

LEMMA UnitsFinite ==
  ASSUME NEW d
  PROVE  IsFiniteSet(Units(d))
<1> DEFINE size == [i \in Items(d) |-> TransportDemand[i]]
<1>1. IsFiniteSet(Items(d)) /\ size \in [Items(d) -> Nat]
  BY TakersFinite, CapacityAssumption
<1>2. IsFiniteSet(UNION {{i} \X (1..size[i]) : i \in Items(d)})
  BY <1>1, PairsFinite
<1>3. Units(d) = UNION {{i} \X (1..size[i]) : i \in Items(d)}
  BY DEF Units
<1> QED
  BY <1>2, <1>3

LEMMA RoomFinite ==
  ASSUME NEW R \in SUBSET Roles
  PROVE  IsFiniteSet(Room(R)) /\ Cardinality(Room(R)) \in Nat
<1> DEFINE size == [r \in R |-> Capacity[r]]
<1>1. IsFiniteSet(R) /\ size \in [R -> Nat]
  BY RolesAssumption, FS_Subset, CapacityAssumption
<1>2. IsFiniteSet(UNION {{r} \X (1..size[r]) : r \in R})
  BY <1>1, PairsFinite
<1>3. Room(R) = UNION {{r} \X (1..size[r]) : r \in R}
  BY DEF Room
<1> QED
  BY <1>2, <1>3, FS_CardinalityType

\* One more agent on an edge has the room that it adds.
LEMMA RoomGrows ==
  ASSUME NEW R \in SUBSET Roles, NEW r \in Roles
  PROVE  /\ Cardinality(Room(R \cup {r})) <= Cardinality(Room(R)) + Capacity[r]
         /\ Cardinality(Room({r})) = Capacity[r]
<1> DEFINE own == {r} \X (1..Capacity[r])
<1>0. Capacity[r] \in Nat
  BY CapacityAssumption
<1>1. IsFiniteSet(own) /\ Cardinality(own) = Capacity[r]
  <2>1. IsFiniteSet({r}) /\ Cardinality({r}) = 1
    BY FS_Singleton
  <2>2. IsFiniteSet(1..Capacity[r]) /\ Cardinality(1..Capacity[r]) = Capacity[r]
    BY <1>0, FS_Interval
  <2>3. IsFiniteSet(own) /\ Cardinality(own) = Cardinality({r}) * Cardinality(1..Capacity[r])
    BY <2>1, <2>2, FS_Product
  <2> QED
    BY <1>0, <2>1, <2>2, <2>3
<1>2. Room(R \cup {r}) = Room(R) \cup own /\ Room({r}) = own
  BY DEF Room
<1>3. IsFiniteSet(Room(R)) /\ Cardinality(Room(R)) \in Nat
  BY RoomFinite
<1>4. /\ IsFiniteSet(Room(R) \cap own)
      /\ Cardinality(Room(R) \cup own)
           = Cardinality(Room(R)) + Cardinality(own) - Cardinality(Room(R) \cap own)
  BY <1>1, <1>3, FS_Union, FS_Intersection
<1>5. Cardinality(Room(R) \cap own) \in Nat
  BY <1>4, FS_CardinalityType
<1>6. Cardinality(Room(R \cup {r}))
        = Cardinality(Room(R)) + Capacity[r] - Cardinality(Room(R) \cap own)
  BY <1>1, <1>2, <1>4
<1>7. Cardinality(Room({r})) = Capacity[r]
  BY <1>1, <1>2
<1> QED
  BY <1>0, <1>3, <1>5, <1>6, <1>7

-----------------------------------------------------------------------------
(* Types. *)

LEMMA DemandTyped ==
  ASSUME NEW d \in DemandSets
  PROVE  /\ RoutesOf[d] = Routes(d) /\ NeedsOf[d] = Needs(d)
         /\ DOMAIN Needs(d) = Takers(d)
         /\ \A r \in Takers(d) : NeedsOf[d][r] \subseteq Points
         /\ \A f \in Routes(d) : DOMAIN f = Carriers(d) /\ \A r \in Carriers(d) : f[r] \in Paths
BY DEF RoutesOf, NeedsOf, Needs, Routes

LEMMA PathTyped ==
  ASSUME NEW p \in Paths, NEW t \in Times
  PROVE  p[t] \in Locs
BY DEF Paths

LEMMA FlowTyped ==
  ASSUME NEW d \in DemandSets, NEW c \in FlowsOf[d]
  PROVE  /\ DOMAIN c \subseteq Units(d)
         /\ \A u \in DOMAIN c : c[u] \in Paths /\ u[1] \in Items(d)
         /\ \A u \in Units(d) : u[1] \in Items(d)
<1>1. c \in PartialFlows(d)
  BY DEF FlowsOf
<1>2. PICK R \in SUBSET Units(d) : c \in [R -> Paths]
  BY <1>1 DEF PartialFlows
<1>3. \A u \in Units(d) : u[1] \in Items(d)
  BY DEF Units
<1> QED
  BY <1>2, <1>3

LEMMA SolverTyped ==
  ASSUME NEW d, NEW w, NEW c \in Solver(d, w)
  PROVE  c \in FlowsOf[d] /\ Fits(c, w)
BY DEF Solver

LEMMA FlowingTyped ==
  ASSUME NEW d \in DemandSets, NEW c \in FlowsOf[d], NEW n \in Network
  PROVE  Flowing(n, d, c) \in Network
<1>1. \A S \in SUBSET DOMAIN c : {u[1] : u \in S} \subseteq Roles
  BY FlowTyped, TakersFinite
<1>2. \A pt \in Points : n.assigned[pt] \in SUBSET Roles /\ n.required[pt] \in SUBSET Roles
  BY DEF Network
<1>3. \A h \in Hops : n.carried[h] \in SUBSET Roles
  BY DEF Network
<1>4. Items(d) \subseteq Roles
  BY TakersFinite
<1> QED
  BY <1>1, <1>2, <1>3, <1>4 DEF Flowing, Network

LEMMA FlawsTyped ==
  ASSUME NEW d, NEW c
  PROVE  Short(d, c) \in SUBSET Points /\ Unsent(d, c) \in BOOLEAN
BY DEF Short, Unsent

LEMMA RegistryTyped ==
  ASSUME NEW d \in DemandSets
  PROVE  Registry(d) \in Network
<1>1. Requested(d) \in [Points -> SUBSET Roles]
  BY TakersFinite DEF Requested
<1> QED
  BY <1>1 DEF Registry, Network, NoTags, NoRoles, NoCapacity

LEMMA NoFlawsTyped == NoFlaws \in Flaws
BY DEF NoFlaws, Flaws

LEMMA InitTyped ==
  ASSUME Init
  PROVE  TypeOK
<1>1. PICK d \in DemandSets : demand = d /\ route \in RoutesOf[d] /\ toRegister = Carriers(d)
                                /\ network = Registry(d)
  BY DEF Init
<1>2. 0 \in 0..NumTimes /\ 1 \in 1..(MaxSpaces + 1)
  BY Sizes, SpacesAssumption
<1>3. \A k \in DOMAIN cache : cache[k] \in [flaws : Flaws, network : Network]
  BY DEF Init
<1> QED
  BY <1>1, <1>2, <1>3, DemandTyped, RegistryTyped, NoFlawsTyped DEF Init, TypeOK

\* Where a mobile role is, and the edge that it has come along.
LEMMA RegisterTyped ==
  ASSUME TypeOK, NEW r, Register(r)
  PROVE  /\ r \in Carriers(demand) /\ r \in Roles /\ Capacity[r] \in Nat
         /\ route[r] \in Paths
         /\ clock \in Times => Here(r) \in Points
         /\ clock \in 1..Last => LastHop(r) \in Hops
         /\ clock \in 1..Last /\ route[r][clock] # route[r][clock - 1] => LastHop(r) \in Transports
         /\ clock \in 1..Last => clock \in Times /\ clock + 1 \in 0..NumTimes
<1>1. r \in Carriers(demand) /\ r \in Roles /\ Capacity[r] \in Nat /\ route[r] \in Paths
  BY DemandTyped, TakersFinite, CapacityAssumption DEF TypeOK, Register
<1>2. clock \in Times => Here(r) \in Points
  BY <1>1, PathTyped DEF Here, Points
<1>3. ASSUME clock \in 1..Last
      PROVE  /\ clock \in Times /\ clock - 1 \in Times /\ clock - 1 \in 0..(Last - 1)
             /\ clock + 1 \in 0..NumTimes
  BY <1>3, Sizes DEF Times
<1>4. clock \in 1..Last => LastHop(r) \in Hops
  BY <1>1, <1>3, PathTyped DEF LastHop, Hops
<1>5. clock \in 1..Last /\ route[r][clock] # route[r][clock - 1] => LastHop(r) \in Transports
  BY <1>4 DEF Transports, LastHop
<1> QED
  BY <1>1, <1>2, <1>3, <1>4, <1>5

LEMMA TagPointTyped ==
  ASSUME NEW n \in Network, NEW r \in Roles, Here(r) \in Points
  PROVE  TagPoint(n, r) \in Network
BY DEF TagPoint, Network

LEMMA RegistrationTyped ==
  ASSUME TypeOK, NEW r, Depart(r) \/ Stay(r) \/ Drive(r) \/ Arrive(r)
  PROVE  TypeOK'
<1>0. Register(r)
  BY DEF Depart, Stay, Drive, Arrive
<1>1. UNCHANGED <<options, demand, route, stage, flaws, cache, spaces>>
  BY <1>0 DEF Register
<1>2. network \in Network /\ capacity \in Nat
  BY DEF TypeOK
<1>3. network' \in Network /\ capacity' \in Nat /\ clock' \in 0..NumTimes /\ toRegister' \subseteq toRegister
  <2>1. CASE Depart(r)
    <3>1. 0 \in Times /\ 1 \in 0..NumTimes
      BY Sizes DEF Times
    <3> QED
      BY <1>0, <1>2, <2>1, <3>1, RegisterTyped, TagPointTyped DEF Depart
  <2>2. CASE Stay(r)
    BY <1>0, <1>2, <2>2, RegisterTyped, TagPointTyped DEF Stay
  <2>3. CASE Drive(r)
    <3>1. LastHop(r) \in Transports /\ LastHop(r) \in Hops /\ r \in Roles
      BY <1>0, <2>3, RegisterTyped DEF Drive
    <3>2. network.weight[LastHop(r)] \in Nat
      BY <1>2, <3>1 DEF Network
    <3>3. capacity' \in Nat
      BY <1>2, <2>3, <3>2 DEF Drive, Summed
    <3>4. TagPoint(network, r) \in Network
      BY <1>0, <1>2, <2>3, RegisterTyped, TagPointTyped DEF Drive
    <3>5. TagHop(TagPoint(network, r), r) \in Network
      BY <3>1, <3>4 DEF TagHop, Network
    <3>6. network' \in Network
      BY <2>3, <3>1, <3>3, <3>5 DEF Drive, Network
    <3> QED
      BY <1>0, <2>3, <3>3, <3>6, RegisterTyped DEF Drive
  <2>4. CASE Arrive(r)
    BY <1>2, <2>4, Sizes DEF Arrive
  <2> QED
    BY <2>1, <2>2, <2>3, <2>4
<1> QED
  BY <1>1, <1>3 DEF TypeOK

LEMMA FlowStepTyped ==
  ASSUME TypeOK, Flow
  PROVE  TypeOK'
<1>1. PICK c \in Solver(demand, network.weight) :
        /\ network' = Flowing(network, demand, c)
        /\ \E S \in SUBSET Transports :
             flaws' = [short |-> Short(demand, c), unsent |-> Unsent(demand, c), stuck |-> S]
  BY DEF Flow
<1>2. network' \in Network
  BY <1>1, SolverTyped, FlowingTyped DEF TypeOK
<1>3. flaws' \in Flaws
  BY <1>1, FlawsTyped DEF Flaws
<1> QED
  BY <1>2, <1>3 DEF TypeOK, Flow

LEMMA StoreTyped ==
  ASSUME TypeOK, Store
  PROVE  TypeOK'
<1>1. \A k \in DOMAIN cache' : cache'[k] \in [flaws : Flaws, network : Network]
  BY DEF Store, TypeOK
<1> QED
  BY <1>1 DEF TypeOK, Store

LEMMA NextSpaceTyped ==
  ASSUME TypeOK, NextSpace
  PROVE  TypeOK'
<1>1. PICK d \in DemandSets : Begin(d)
  BY DEF NextSpace
<1>2. route' \in Routes(d)
  BY <1>1, DemandTyped DEF Begin
<1>3. network' \in Network /\ flaws' \in Flaws
  BY <1>1, RegistryTyped, NoFlawsTyped DEF Begin
<1>4. 0 \in 0..NumTimes /\ spaces' \in 1..(MaxSpaces + 1)
  BY Sizes, SpacesAssumption DEF NextSpace, TypeOK
<1> QED
  BY <1>1, <1>2, <1>3, <1>4 DEF TypeOK, Begin, NextSpace

LEMMA StepTyped ==
  ASSUME TypeOK, [Next]_vars
  PROVE  TypeOK'
<1>1. CASE \E r \in toRegister : Depart(r) \/ Stay(r) \/ Drive(r) \/ Arrive(r)
  BY <1>1, RegistrationTyped
<1>2. CASE Refuse
  BY <1>2 DEF Refuse, TypeOK, Ends
<1>3. CASE RefuseItem
  BY <1>3 DEF RefuseItem, TypeOK, Ends
<1>4. CASE Hit
  BY <1>4 DEF Hit, TypeOK
<1>5. CASE Flow
  BY <1>5, FlowStepTyped
<1>6. CASE GiveUp
  BY <1>6 DEF GiveUp, TypeOK, Ends
<1>7. CASE Store
  BY <1>7, StoreTyped
<1>8. CASE Analyse \/ AnalysisThrows
  BY <1>8 DEF Analyse, AnalysisThrows, TypeOK, Ends
<1>9. CASE NextSpace
  BY <1>9, NextSpaceTyped
<1>10. CASE UNCHANGED vars
  BY <1>10 DEF vars, TypeOK
<1> QED
  BY <1>1, <1>2, <1>3, <1>4, <1>5, <1>6, <1>7, <1>8, <1>9, <1>10 DEF Next

\* The network, the flaws, the cache and the position of the registration stay in
\* their types: postMinCostFlow, for any demands, capacities and configurations.
THEOREM TypeCorrect == Spec => []TypeOK
<1>1. Init => TypeOK
  BY InitTyped
<1>2. TypeOK /\ [Next]_vars => TypeOK'
  BY StepTyped
<1> QED
  BY <1>1, <1>2, PTL DEF Spec

-----------------------------------------------------------------------------
(* The invariant. *)

\* How many points of the timeline of a mobile role are registered.
Done(r) ==
  IF r \notin toRegister THEN NumTimes
  ELSE IF \A s \in toRegister : r <= s THEN clock ELSE 0

AssignedSoFar ==
  \A pt \in Points :
    network.assigned[pt] = {r \in Carriers(demand) : pt[1] < Done(r) /\ At(route[r], pt)}
CarriedSoFar ==
  \A h \in Hops :
    network.carried[h] =
      {r \in Carriers(demand) : h \in Transports /\ h[1] + 1 < Done(r) /\ Takes(route[r], h)}

\* No edge is lighter than what the agents on it can carry.
Weighted ==
  /\ \A h \in Transports : Cardinality(Room(network.carried[h])) <= network.weight[h]
  /\ \A r \in toRegister : (\A s \in toRegister : r <= s) /\ clock > 0 => capacity >= Capacity[r]

\* An edge that nobody drives along carries nothing.
Driven == \A h \in Transports : network.carried[h] = {} => network.weight[h] = 0

Registering ==
  stage = "network" =>
    /\ flaws = NoFlaws /\ network.required = Requested(demand)
    /\ AssignedSoFar /\ CarriedSoFar /\ Weighted /\ Driven

\* What a flow has to be for the demand d and the routes f, wherever it comes from.
Own(d, f, n) ==
  /\ \A pt \in Points :
       /\ n.required[pt] = {r \in Takers(d) : pt \in NeedsOf[d][r]}
       /\ n.assigned[pt] \cap Carriers(d) = {r \in Carriers(d) : At(f[r], pt)}
  /\ \A h \in Transports : n.carried[h] \cap Carriers(d) = {r \in Carriers(d) : Takes(f[r], h)}
Started(d, fl, n) ==
  ~fl.unsent => \A i \in Items(d) : \E l \in Locs :
                  <<0, l>> \in NeedsOf[d][i] /\ i \in n.assigned[<<0, l>>]
\* Where no flaw is reported there are as many units as the items need there, so what
\* is missing of one item is there of another one.
Totals(d, fl, n) ==
  \A pt \in Points : pt \in fl.short \/
    Cardinality(Due(d, pt)) <= Cardinality({u \in Units(d) : u[1] \in n.assigned[pt]})
StandsIn(d, fl, n) ==
  \A i \in Items(d) : \A pt \in NeedsOf[d][i] :
    \/ i \in n.assigned[pt]
    \/ pt \in fl.short
    \/ \E j \in Items(d) : j \in n.assigned[pt] /\ pt \notin NeedsOf[d][j]
HopByHop(d, n) ==
  \A i \in Items(d), t \in 0..(Last - 1), l \in Locs : i \in n.assigned[<<t, l>>] =>
    \E k \in Locs : i \in n.assigned[<<t + 1, k>>] /\ i \in n.carried[<<t, l, k>>]
Loaded(d, n) ==
  \A h \in Transports : Cardinality(n.carried[h] \cap Items(d)) <= n.weight[h]
\* An item that travels in one piece has one path, or no point at all.
Whole(d, n) ==
  \A i \in Items(d) : TransportDemand[i] = 1 =>
    \/ \A pt \in Points : i \notin n.assigned[pt]
    \/ \E p \in Paths : /\ \A pt \in Points : i \in n.assigned[pt] <=> At(p, pt)
                        /\ \A h \in Hops : i \in n.carried[h] <=> Takes(p, h)
\* No item drives alone.
Escorted(d, n) ==
  \A h \in Transports : n.carried[h] \cap Items(d) # {} => n.carried[h] \cap Carriers(d) # {}
Real(d, f, fl) ==
  fl.short # {} \/ fl.unsent =>
    ~\E c \in FlowsOf[d] :
       Meets(d, c) /\ \A h \in Transports : Load(c, h) <= Cardinality(Seats(f, h))
Sound(d, f, fl, n) ==
  /\ Own(d, f, n) /\ HopByHop(d, n) /\ Loaded(d, n) /\ Whole(d, n) /\ Escorted(d, n)
  /\ Started(d, fl, n) /\ Totals(d, fl, n) /\ StandsIn(d, fl, n) /\ Real(d, f, fl)

CacheSound ==
  \A k \in DOMAIN cache : \E d \in DemandSets : \E f \in Routes(d) :
    k = KeyOf(d, f) /\ Sound(d, f, cache[k].flaws, cache[k].network)

FlowInv ==
  /\ TypeOK
  /\ Registering
  /\ CacheSound
  /\ stage \in {"flow", "analysis", "done", "failed"} =>
       Sound(demand, route, flaws, network)

-----------------------------------------------------------------------------
(* The registration of the mobile agents. *)

\* What is registered of the timelines, before a step and after it.
LEMMA DoneSteps ==
  ASSUME TypeOK, NEW r, Register(r), clock' = clock + 1, UNCHANGED toRegister
  PROVE  /\ Done(r) = clock /\ Done(r)' = clock + 1
         /\ \A s \in Carriers(demand) : s # r => Done(s)' = Done(s)
<1>1. r \in toRegister /\ \A s \in toRegister : r <= s
  BY DEF Register
<1>2. \A s \in toRegister : s \in Nat
  BY OrderAssumption, TakersFinite DEF TypeOK
<1>3. \A s \in toRegister : s # r => ~(\A q \in toRegister : s <= q)
  BY <1>1, <1>2
<1> QED
  BY <1>1, <1>3 DEF Done

LEMMA PointTagged ==
  ASSUME TypeOK, NEW r, Register(r), clock \in Times, clock' = clock + 1, UNCHANGED toRegister,
         AssignedSoFar, network'.assigned = TagPoint(network, r).assigned
  PROVE  AssignedSoFar'
<1>1. UNCHANGED <<demand, route>>
  BY DEF Register
<1>2. Here(r) \in Points /\ r \in Carriers(demand)
  BY RegisterTyped
<1> SUFFICES ASSUME NEW pt \in Points
             PROVE  network'.assigned[pt]
                      = {s \in Carriers(demand) : pt[1] < Done(s)' /\ At(route[s], pt)}
  BY <1>1 DEF AssignedSoFar
<1>3. network.assigned[pt] = {s \in Carriers(demand) : pt[1] < Done(s) /\ At(route[s], pt)}
  BY DEF AssignedSoFar
<1>4. network'.assigned[pt] = IF pt = Here(r) THEN network.assigned[pt] \cup {r} ELSE network.assigned[pt]
  <2>1. network \in Network /\ network.assigned \in [Points -> SUBSET Roles]
    BY DEF TypeOK, Network
  <2>2. TagPoint(network, r).assigned = [network.assigned EXCEPT ![Here(r)] = @ \cup {r}]
    BY <2>1 DEF TagPoint, Network
  <2> QED
    BY <2>1, <2>2
<1>5. pt[1] \in Times /\ pt[1] \in Int /\ clock \in Int /\ pt = <<pt[1], pt[2]>>
  BY Sizes DEF Points, Times
<1>6. pt[1] < clock + 1 /\ At(route[r], pt) <=> (pt[1] < clock /\ At(route[r], pt)) \/ pt = Here(r)
  BY <1>5 DEF At, Here
<1>7. Done(r) = clock /\ Done(r)' = clock + 1 /\ \A s \in Carriers(demand) : s # r => Done(s)' = Done(s)
  BY DoneSteps
<1> QED
  BY <1>2, <1>3, <1>4, <1>6, <1>7

\* The set that CarriedSoFar speaks of grows by the role itself, if it drives.
LEMMA HopsDone ==
  ASSUME TypeOK, NEW r, Register(r), clock \in Times, clock' = clock + 1, UNCHANGED toRegister,
         NEW h \in Hops
  PROVE  {s \in Carriers(demand) : h \in Transports /\ h[1] + 1 < Done(s)' /\ Takes(route[s], h)}
           = {s \in Carriers(demand) : h \in Transports /\ h[1] + 1 < Done(s) /\ Takes(route[s], h)}
               \cup (IF h \in Transports /\ clock > 0 /\ h = LastHop(r) THEN {r} ELSE {})
<1>1. Done(r) = clock /\ Done(r)' = clock + 1 /\ \A s \in Carriers(demand) : s # r => Done(s)' = Done(s)
  BY DoneSteps
<1>2. r \in Carriers(demand)
  BY RegisterTyped
<1>3. h[1] \in Int /\ h[1] >= 0 /\ clock \in Int /\ h = <<h[1], h[2], h[3]>>
  BY Sizes DEF Hops, Times
<1>4. h[1] + 1 < clock + 1 /\ Takes(route[r], h)
        <=> (h[1] + 1 < clock /\ Takes(route[r], h)) \/ (clock > 0 /\ h = LastHop(r))
  BY <1>3 DEF Takes, LastHop
<1> QED
  BY <1>1, <1>2, <1>4

LEMMA DepartKept ==
  ASSUME TypeOK, Registering, NEW r, Depart(r)
  PROVE  Registering'
<1>1. Register(r) /\ clock = 0 /\ clock' = clock + 1 /\ clock \in Times /\ UNCHANGED toRegister
      /\ network' = TagPoint(network, r) /\ capacity' = Capacity[r]
  BY Sizes DEF Depart, Times
<1>2. UNCHANGED <<demand, route, flaws, stage>> /\ stage = "network"
  BY <1>1 DEF Register
<1>3. /\ flaws = NoFlaws /\ network.required = Requested(demand)
      /\ AssignedSoFar /\ CarriedSoFar /\ Weighted /\ Driven
  BY <1>2 DEF Registering
<1>4. /\ network'.required = network.required /\ network'.carried = network.carried
      /\ network'.weight = network.weight
  BY <1>1 DEF TagPoint, TypeOK, Network
<1>5. AssignedSoFar'
  BY <1>1, <1>3, PointTagged
<1>6. CarriedSoFar'
  <2> SUFFICES ASSUME NEW h \in Hops
               PROVE  network'.carried[h] = {s \in Carriers(demand) :
                        h \in Transports /\ h[1] + 1 < Done(s)' /\ Takes(route[s], h)}
    BY <1>2 DEF CarriedSoFar
  <2> QED
    BY <1>1, <1>3, <1>4, HopsDone DEF CarriedSoFar
<1>7. Weighted'
  <2>1. \A h \in Transports : Cardinality(Room(network'.carried[h])) <= network'.weight[h]
    BY <1>3, <1>4 DEF Weighted
  <2>2. \A s \in toRegister : (\A q \in toRegister : s <= q) => s = r
    <3>1. r \in toRegister /\ \A s \in toRegister : r <= s
      BY <1>1 DEF Register
    <3>2. \A s \in toRegister : s \in Nat
      BY OrderAssumption, TakersFinite DEF TypeOK
    <3> QED
      BY <3>1, <3>2
  <2>3. Capacity[r] >= Capacity[r]
    BY <1>1, RegisterTyped
  <2> QED
    BY <1>1, <2>1, <2>2, <2>3 DEF Weighted, Room
<1>8. Driven'
  BY <1>3, <1>4 DEF Driven
<1> QED
  BY <1>2, <1>3, <1>4, <1>5, <1>6, <1>7, <1>8 DEF Registering

LEMMA StayKept ==
  ASSUME TypeOK, Registering, NEW r, Stay(r)
  PROVE  Registering'
<1>1. Register(r) /\ clock \in 1..Last /\ clock' = clock + 1 /\ clock \in Times /\ clock > 0
      /\ UNCHANGED <<toRegister, capacity>> /\ network' = TagPoint(network, r)
      /\ route[r][clock] = route[r][clock - 1]
  BY Sizes DEF Stay, Times
<1>2. UNCHANGED <<demand, route, flaws, stage>> /\ stage = "network"
  BY <1>1 DEF Register
<1>3. /\ flaws = NoFlaws /\ network.required = Requested(demand)
      /\ AssignedSoFar /\ CarriedSoFar /\ Weighted /\ Driven
  BY <1>2 DEF Registering
<1>4. /\ network'.required = network.required /\ network'.carried = network.carried
      /\ network'.weight = network.weight
  BY <1>1 DEF TagPoint, TypeOK, Network
<1>5. AssignedSoFar'
  BY <1>1, <1>3, PointTagged
<1>6. CarriedSoFar'
  <2> SUFFICES ASSUME NEW h \in Hops
               PROVE  network'.carried[h] = {s \in Carriers(demand) :
                        h \in Transports /\ h[1] + 1 < Done(s)' /\ Takes(route[s], h)}
    BY <1>2 DEF CarriedSoFar
  <2>1. LastHop(r) \notin Transports
    BY <1>1 DEF LastHop, Transports
  <2>2. ~(h \in Transports /\ clock > 0 /\ h = LastHop(r))
    BY <2>1
  <2> QED
    BY <1>1, <1>3, <1>4, <2>2, HopsDone DEF CarriedSoFar
<1>7. Weighted'
  <2>1. \A h \in Transports : Cardinality(Room(network'.carried[h])) <= network'.weight[h]
    BY <1>3, <1>4 DEF Weighted
  <2>2. \A s \in toRegister : (\A q \in toRegister : s <= q) => capacity >= Capacity[s]
    BY <1>1, <1>3 DEF Weighted
  <2> QED
    BY <1>1, <2>1, <2>2 DEF Weighted, Room
<1>8. Driven'
  BY <1>3, <1>4 DEF Driven
<1> QED
  BY <1>2, <1>3, <1>4, <1>5, <1>6, <1>7, <1>8 DEF Registering

\* An edge gets at least what it had and what the agent adds.
LEMMA DriveWeighs ==
  ASSUME TypeOK, Weighted, NEW r, Drive(r), NEW h \in Transports, h = LastHop(r)
  PROVE  /\ capacity' \in Nat /\ capacity' >= capacity /\ capacity >= Capacity[r]
         /\ Cardinality(Room(network.carried[h] \cup {r})) <= capacity'
<1>1. Register(r) /\ clock \in 1..Last
  BY DEF Drive
<1>2. capacity \in Nat /\ network.weight[h] \in Nat
  BY DEF TypeOK, Network
<1>3. r \in Roles /\ Capacity[r] \in Nat
  BY <1>1, RegisterTyped
<1>4. clock > 0
  BY <1>1, Sizes
<1>5. capacity >= Capacity[r]
  BY <1>1, <1>4 DEF Weighted, Register
<1>6. capacity' = IF network.carried[h] = {} THEN capacity ELSE capacity + network.weight[h]
  BY DEF Drive, Summed
<1>7. capacity' \in Nat /\ capacity' >= capacity
  BY <1>2, <1>6
<1>8. network.carried[h] \in SUBSET Roles
  BY DEF TypeOK, Network, Transports
<1>9. Cardinality(Room(network.carried[h] \cup {r})) <= capacity'
  <2>1. CASE network.carried[h] = {}
    <3>1. network.carried[h] \cup {r} = {r}
      BY <2>1
    <3>2. Cardinality(Room({r})) = Capacity[r]
      BY <1>3, <1>8, RoomGrows
    <3>3. Cardinality(Room(network.carried[h] \cup {r})) = Capacity[r]
      BY <3>1, <3>2
    <3> QED
      BY <1>5, <1>6, <2>1, <3>3
  <2>2. CASE network.carried[h] # {}
    <3>1. Cardinality(Room(network.carried[h] \cup {r}))
            <= Cardinality(Room(network.carried[h])) + Capacity[r]
      BY <1>3, <1>8, RoomGrows
    <3>2. Cardinality(Room(network.carried[h])) <= network.weight[h]
      BY DEF Weighted
    <3>3. /\ Cardinality(Room(network.carried[h] \cup {r})) \in Nat
          /\ Cardinality(Room(network.carried[h])) \in Nat
      <4>1. network.carried[h] \cup {r} \in SUBSET Roles
        BY <1>3, <1>8
      <4>2. Cardinality(Room(network.carried[h] \cup {r})) \in Nat
        BY <4>1, RoomFinite
      <4>3. Cardinality(Room(network.carried[h])) \in Nat
        BY <1>8, RoomFinite
      <4> QED
        BY <4>2, <4>3
    <3>4. capacity' = capacity + network.weight[h]
      BY <1>6, <2>2
    <3> DEFINE x == Cardinality(Room(network.carried[h] \cup {r}))
               y == Cardinality(Room(network.carried[h]))
    <3>5. x <= y + Capacity[r] /\ y <= network.weight[h] /\ x \in Nat /\ y \in Nat
      BY <3>1, <3>2, <3>3
    <3>6. x <= capacity'
      <4> HIDE DEF x, y
      <4> QED
        BY <1>2, <1>3, <1>5, <3>4, <3>5
    <3> QED
      BY <3>6
  <2> QED
    BY <2>1, <2>2
<1> QED
  BY <1>5, <1>7, <1>9

LEMMA DriveKept ==
  ASSUME TypeOK, Registering, NEW r, Drive(r)
  PROVE  Registering'
<1>1. Register(r) /\ clock \in 1..Last /\ clock' = clock + 1 /\ clock \in Times /\ clock > 0
      /\ UNCHANGED toRegister /\ route[r][clock] # route[r][clock - 1]
  BY Sizes DEF Drive, Times
<1>2. UNCHANGED <<demand, route, flaws, stage>> /\ stage = "network"
  BY <1>1 DEF Register
<1>3. /\ flaws = NoFlaws /\ network.required = Requested(demand)
      /\ AssignedSoFar /\ CarriedSoFar /\ Weighted /\ Driven
  BY <1>2 DEF Registering
<1> DEFINE hop == LastHop(r)
<1>4. hop \in Transports /\ hop \in Hops /\ Here(r) \in Points /\ r \in Roles
  BY <1>1, RegisterTyped
<1>5. network \in Network /\ TagPoint(network, r) \in Network
  BY <1>4, TagPointTyped DEF TypeOK
<1>6. /\ TagPoint(network, r).carried = network.carried /\ TagPoint(network, r).weight = network.weight
      /\ TagPoint(network, r).required = network.required
  BY <1>5 DEF TagPoint, Network
<1>7. /\ network'.assigned = TagPoint(network, r).assigned
      /\ network'.required = network.required
      /\ network'.carried = [network.carried EXCEPT ![hop] = @ \cup {r}]
      /\ network'.weight = [network.weight EXCEPT ![hop] = capacity']
  <2>1. network' = [TagHop(TagPoint(network, r), r) EXCEPT !.weight[hop] = capacity']
    BY DEF Drive
  <2>2. TagHop(TagPoint(network, r), r) \in Network
    BY <1>4, <1>5 DEF TagHop, Network
  <2>3. /\ TagHop(TagPoint(network, r), r).assigned = TagPoint(network, r).assigned
        /\ TagHop(TagPoint(network, r), r).required = network.required
        /\ TagHop(TagPoint(network, r), r).carried = [network.carried EXCEPT ![hop] = @ \cup {r}]
        /\ TagHop(TagPoint(network, r), r).weight = network.weight
    BY <1>5, <1>6 DEF TagHop, Network
  <2> HIDE DEF hop
  <2> QED
    BY <2>1, <2>2, <2>3 DEF Network
<1>8. AssignedSoFar'
  BY <1>1, <1>3, <1>7, PointTagged
<1>9. CarriedSoFar'
  <2> SUFFICES ASSUME NEW h \in Hops
               PROVE  network'.carried[h] = {s \in Carriers(demand) :
                        h \in Transports /\ h[1] + 1 < Done(s)' /\ Takes(route[s], h)}
    BY <1>2 DEF CarriedSoFar
  <2>1. network'.carried[h] = network.carried[h] \cup (IF h = hop THEN {r} ELSE {})
    BY <1>4, <1>5, <1>7 DEF Network
  <2>2. network'.carried[h]
          = network.carried[h] \cup (IF h \in Transports /\ clock > 0 /\ h = LastHop(r) THEN {r} ELSE {})
    BY <1>1, <1>4, <2>1
  <2> QED
    BY <1>1, <1>3, <2>2, HopsDone DEF CarriedSoFar
<1>10. Weighted'
  <2>1. ASSUME NEW h \in Transports
        PROVE  Cardinality(Room(network'.carried[h])) <= network'.weight[h]
    <3>1. CASE h = hop
      <4>1. Cardinality(Room(network.carried[h] \cup {r})) <= capacity'
        BY <1>3, <3>1, DriveWeighs
      <4>2. network'.carried[h] = network.carried[h] \cup {r}
        BY <1>4, <1>5, <1>7, <3>1 DEF Network
      <4>3. network'.weight[h] = capacity'
        BY <1>4, <1>5, <1>7, <3>1 DEF Network
      <4> QED
        BY <4>1, <4>2, <4>3
    <3>2. CASE h # hop
      <4>1. network'.carried[h] = network.carried[h] /\ network'.weight[h] = network.weight[h]
        BY <1>5, <1>7, <3>2 DEF Network, Transports
      <4> QED
        BY <1>3, <4>1 DEF Weighted
    <3> QED
      BY <3>1, <3>2
  <2>2. \A s \in toRegister : (\A q \in toRegister : s <= q) => s = r
    <3>1. r \in toRegister /\ \A s \in toRegister : r <= s
      BY <1>1 DEF Register
    <3>2. \A s \in toRegister : s \in Nat
      BY OrderAssumption, TakersFinite DEF TypeOK
    <3> QED
      BY <3>1, <3>2
  <2>3. capacity' >= Capacity[r]
    <3>1. capacity' \in Nat /\ capacity' >= capacity /\ capacity >= Capacity[r]
      BY <1>3, <1>4, DriveWeighs
    <3>2. capacity \in Nat /\ Capacity[r] \in Nat
      BY <1>1, RegisterTyped DEF TypeOK
    <3> QED
      BY <3>1, <3>2
  <2> QED
    BY <1>1, <2>1, <2>2, <2>3 DEF Weighted, Room
<1>11. Driven'
  <2> SUFFICES ASSUME NEW h \in Transports, network'.carried[h] = {}
               PROVE  network'.weight[h] = 0
    BY DEF Driven
  <2>1. h \in Hops /\ h # hop
    <3>1. h \in Hops
      BY DEF Transports
    <3>2. network.carried \in [Hops -> SUBSET Roles]
      BY <1>5 DEF Network
    <3>3. r \in network'.carried[hop]
      BY <1>4, <1>7, <3>2
    <3> QED
      BY <3>1, <3>3
  <2>2. network'.carried[h] = network.carried[h] /\ network'.weight[h] = network.weight[h]
    BY <1>5, <1>7, <2>1 DEF Network
  <2> QED
    BY <1>3, <2>2 DEF Driven
<1> QED
  BY <1>2, <1>3, <1>7, <1>8, <1>9, <1>10, <1>11 DEF Registering

LEMMA ArriveKept ==
  ASSUME TypeOK, Registering, NEW r, Arrive(r)
  PROVE  Registering'
<1>1. Register(r) /\ clock = NumTimes /\ clock' = 0 /\ toRegister' = toRegister \ {r}
      /\ UNCHANGED <<capacity, network>>
  BY DEF Arrive
<1>2. UNCHANGED <<demand, route, flaws, stage>> /\ stage = "network"
  BY <1>1 DEF Register
<1>3. /\ flaws = NoFlaws /\ network.required = Requested(demand)
      /\ AssignedSoFar /\ CarriedSoFar /\ Weighted /\ Driven
  BY <1>2 DEF Registering
<1>4. \A s \in Carriers(demand) : Done(s)' = Done(s)
  <2>1. r \in toRegister /\ \A s \in toRegister : r <= s
    BY <1>1 DEF Register
  <2>2. \A s \in toRegister : s \in Nat
    BY OrderAssumption, TakersFinite DEF TypeOK
  <2>3. \A s \in toRegister : s # r => ~(\A q \in toRegister : s <= q)
    BY <2>1, <2>2
  <2> QED
    BY <1>1, <2>1, <2>3 DEF Done
<1>5. AssignedSoFar'
  BY <1>1, <1>2, <1>3, <1>4 DEF AssignedSoFar
<1>6. CarriedSoFar'
  BY <1>1, <1>2, <1>3, <1>4 DEF CarriedSoFar
<1>7. Weighted'
  <2>1. \A h \in Transports : Cardinality(Room(network'.carried[h])) <= network'.weight[h]
    BY <1>1, <1>3 DEF Weighted
  <2>2. ~(clock' > 0)
    BY <1>1
  <2> QED
    BY <2>1, <2>2 DEF Weighted, Room
<1>8. Driven'
  BY <1>1, <1>3 DEF Driven
<1> QED
  BY <1>1, <1>2, <1>3, <1>5, <1>6, <1>7, <1>8 DEF Registering

\* A space begins with an empty network.
LEMMA BeginKept ==
  ASSUME NEW d \in DemandSets, demand = d, toRegister = Carriers(d), network = Registry(d),
         clock = 0, flaws = NoFlaws
  PROVE  Registering
<1>1. \A r \in Carriers(d) : Done(r) = 0
  BY DEF Done
<1>2. \A pt \in Points : ~(pt[1] < 0)
  BY Sizes DEF Points, Times
<1>3. \A h \in Hops : ~(h[1] + 1 < 0)
  BY Sizes DEF Hops
<1>4. AssignedSoFar
  BY <1>1, <1>2 DEF AssignedSoFar, Registry, NoTags
<1>5. CarriedSoFar
  BY <1>1, <1>3 DEF CarriedSoFar, Registry, NoRoles
<1>6. Weighted
  <2>1. Room({}) = {} /\ Cardinality({}) = 0
    BY FS_EmptySet DEF Room
  <2>2. \A h \in Transports : Room(network.carried[h]) = {} /\ network.weight[h] = 0
    BY <2>1 DEF Registry, NoRoles, NoCapacity, Transports
  <2>3. \A h \in Transports : Cardinality(Room(network.carried[h])) <= network.weight[h]
    BY <2>1, <2>2
  <2> QED
    BY <2>3 DEF Weighted
<1>7. network.required = Requested(demand)
  BY DEF Registry
<1>8. Driven
  BY DEF Driven, Registry, NoCapacity
<1> QED
  BY <1>4, <1>5, <1>6, <1>7, <1>8 DEF Registering

-----------------------------------------------------------------------------
(* The flow. *)

\* The roles whose units do something are items.
LEMMA UnitsOfItems ==
  ASSUME NEW d \in DemandSets, NEW c \in FlowsOf[d], NEW D \in SUBSET DOMAIN c
  PROVE  {u[1] : u \in D} \subseteq Items(d) /\ {u[1] : u \in D} \cap Carriers(d) = {}
<1>1. \A u \in D : u[1] \in Items(d)
  BY FlowTyped
<1> QED
  BY <1>1, TakersFinite

\* When all mobile roles are registered: their timelines are on the network.
Registered(d, f, n) ==
  /\ n.required = Requested(d)
  /\ \A pt \in Points : n.assigned[pt] = {r \in Carriers(d) : At(f[r], pt)}
  /\ \A h \in Transports : n.carried[h] = {r \in Carriers(d) : Takes(f[r], h)}
  /\ \A h \in Hops \ Transports : n.carried[h] = {}
  /\ \A h \in Transports : Cardinality(Seats(f, h)) <= n.weight[h]
  /\ \A h \in Transports : n.carried[h] = {} => n.weight[h] = 0

LEMMA AllRegistered ==
  ASSUME TypeOK, Registering, stage = "network", toRegister = {}
  PROVE  Registered(demand, route, network)
<1>1. network.required = Requested(demand) /\ AssignedSoFar /\ CarriedSoFar /\ Weighted /\ Driven
  BY DEF Registering
<1>2. \A r : Done(r) = NumTimes
  BY DEF Done
<1>3. \A pt \in Points : pt[1] < NumTimes
  BY Sizes DEF Points, Times
<1>4. \A h \in Transports : h \in Hops /\ h[1] + 1 < NumTimes
  BY Sizes DEF Transports, Hops
<1>5. \A pt \in Points : network.assigned[pt] = {r \in Carriers(demand) : At(route[r], pt)}
  BY <1>1, <1>2, <1>3 DEF AssignedSoFar
<1>6. \A h \in Transports : network.carried[h] = {r \in Carriers(demand) : Takes(route[r], h)}
  BY <1>1, <1>2, <1>4 DEF CarriedSoFar
<1>7. DOMAIN route = Carriers(demand)
  BY DemandTyped DEF TypeOK
<1>8. \A h \in Transports : Seats(route, h) = Room(network.carried[h])
  BY <1>6, <1>7 DEF Seats
<1>9. \A h \in Transports : Cardinality(Seats(route, h)) <= network.weight[h]
  BY <1>1, <1>8 DEF Weighted
<1>10. \A h \in Hops \ Transports : network.carried[h] = {}
  BY <1>1 DEF CarriedSoFar
<1>11. \A h \in Transports : network.carried[h] = {} => network.weight[h] = 0
  BY <1>1 DEF Driven
<1> QED
  BY <1>1, <1>5, <1>6, <1>9, <1>10, <1>11 DEF Registered

LEMMA FlowingOwn ==
  ASSUME NEW d \in DemandSets, NEW f \in Routes(d), NEW n \in Network, Registered(d, f, n),
         NEW c \in FlowsOf[d]
  PROVE  Own(d, f, Flowing(n, d, c))
<1>1. ASSUME NEW pt \in Points
      PROVE  /\ Flowing(n, d, c).required[pt] = {r \in Takers(d) : pt \in NeedsOf[d][r]}
             /\ Flowing(n, d, c).assigned[pt] \cap Carriers(d) = {r \in Carriers(d) : At(f[r], pt)}
  <2>1. Flowing(n, d, c).required[pt] = n.required[pt] \cup {i \in Items(d) : pt \in NeedsOf[d][i]}
    BY DEF Flowing
  <2>2. n.required[pt] = {r \in Carriers(d) : pt \in NeedsOf[d][r]}
    BY DEF Registered, Requested
  <2>3. Takers(d) = Carriers(d) \cup Items(d)
    BY TakersFinite
  <2>4. Flowing(n, d, c).assigned[pt] = n.assigned[pt] \cup {u[1] : u \in {v \in DOMAIN c : At(c[v], pt)}}
    BY DEF Flowing
  <2>5. {u[1] : u \in {v \in DOMAIN c : At(c[v], pt)}} \cap Carriers(d) = {}
    BY UnitsOfItems
  <2>6. n.assigned[pt] = {r \in Carriers(d) : At(f[r], pt)}
    BY DEF Registered
  <2>7. Flowing(n, d, c).required[pt] = {r \in Takers(d) : pt \in NeedsOf[d][r]}
    BY <2>1, <2>2, <2>3
  <2>8. Flowing(n, d, c).assigned[pt] \cap Carriers(d) = {r \in Carriers(d) : At(f[r], pt)}
    BY <2>4, <2>5, <2>6
  <2> QED
    BY <2>7, <2>8
<1>2. ASSUME NEW h \in Transports
      PROVE  Flowing(n, d, c).carried[h] \cap Carriers(d) = {r \in Carriers(d) : Takes(f[r], h)}
  <2>1. Flowing(n, d, c).carried[h] = n.carried[h] \cup {u[1] : u \in {v \in DOMAIN c : Takes(c[v], h)}}
    BY DEF Flowing, Transports
  <2>2. {u[1] : u \in {v \in DOMAIN c : Takes(c[v], h)}} \cap Carriers(d) = {}
    BY UnitsOfItems
  <2>3. n.carried[h] = {r \in Carriers(d) : Takes(f[r], h)}
    BY DEF Registered
  <2> QED
    BY <2>1, <2>2, <2>3
<1> QED
  BY <1>1, <1>2 DEF Own

\* If every unit is sent, every item starts at a point that it needs, as it has a unit.
LEMMA FlowingStarted ==
  ASSUME NEW d \in DemandSets, NEW n \in Network, NEW c \in FlowsOf[d], DOMAIN c = Units(d),
         NEW i \in Items(d), TransportDemand[i] > 0
  PROVE  \E l \in Locs :
           <<0, l>> \in NeedsOf[d][i] /\ i \in Flowing(n, d, c).assigned[<<0, l>>]
<1> DEFINE u == <<i, 1>>
           l == c[u][0]
<1>1. u \in DOMAIN c
  <2>1. TransportDemand[i] \in Nat /\ TransportDemand[i] > 0
    BY CapacityAssumption, TakersFinite
  <2> QED
    BY <2>1 DEF Units
<1>2. c[u] \in Starting(d, u[1])
  <2>1. c \in PartialFlows(d)
    BY DEF FlowsOf
  <2> QED
    BY <1>1, <2>1 DEF PartialFlows
<1>3. c[u] \in Paths /\ <<0, l>> \in NeedsOf[d][i]
  BY <1>2 DEF Starting
<1>4. l \in Locs
  BY <1>3, Sizes, PathTyped DEF Times
<1>5. <<0, l>> \in Points
  BY <1>3, DemandTyped, TakersFinite
<1>6. At(c[u], <<0, l>>) /\ u[1] = i
  BY DEF At
<1>7. i \in {v[1] : v \in {v \in DOMAIN c : At(c[v], <<0, l>>)}}
  <2> HIDE DEF u, l
  <2> QED
    BY <1>1, <1>6
<1>8. i \in Flowing(n, d, c).assigned[<<0, l>>]
  <2> HIDE DEF u, l
  <2> QED
    BY <1>5, <1>7 DEF Flowing
<1> QED
  BY <1>3, <1>4, <1>8

\* A point that is not reported has as much flow as the items need there.
LEMMA Enough ==
  ASSUME NEW d \in DemandSets, NEW c \in FlowsOf[d], NEW pt \in Points, pt \notin Short(d, c)
  PROVE  /\ Through(c, pt) \subseteq Units(d) /\ Due(d, pt) \subseteq Units(d)
         /\ IsFiniteSet(Through(c, pt)) /\ IsFiniteSet(Due(d, pt))
         /\ Cardinality(Due(d, pt)) <= Cardinality(Through(c, pt))
<1>1. Through(c, pt) \subseteq Units(d) /\ Due(d, pt) \subseteq Units(d)
  BY FlowTyped DEF Through, Due
<1>2. IsFiniteSet(Through(c, pt)) /\ IsFiniteSet(Due(d, pt))
  BY <1>1, UnitsFinite, FS_Subset
<1>3. Cardinality(Through(c, pt)) \in Nat /\ Cardinality(Due(d, pt)) \in Nat
  BY <1>2, FS_CardinalityType
<1>4. <<"TotalTransFlow", pt>> \notin Violations(d, c)
  BY DEF Short, Kept
<1>5. ~(Cardinality(Through(c, pt)) < Cardinality(Due(d, pt)))
  BY <1>4 DEF Violations
<1> QED
  BY <1>1, <1>2, <1>3, <1>5

LEMMA FlowingTotals ==
  ASSUME NEW d \in DemandSets, NEW n \in Network, NEW c \in FlowsOf[d],
         NEW pt \in Points, pt \notin Short(d, c)
  PROVE  Cardinality(Due(d, pt))
           <= Cardinality({u \in Units(d) : u[1] \in Flowing(n, d, c).assigned[pt]})
<1> DEFINE U == {u \in Units(d) : u[1] \in Flowing(n, d, c).assigned[pt]}
<1>1. /\ Through(c, pt) \subseteq Units(d)
      /\ IsFiniteSet(Through(c, pt)) /\ IsFiniteSet(Due(d, pt))
      /\ Cardinality(Due(d, pt)) <= Cardinality(Through(c, pt))
  BY Enough
<1>2. Through(c, pt) \subseteq U
  BY <1>1 DEF Through, Flowing
<1>3. IsFiniteSet(U)
  BY UnitsFinite, FS_Subset
<1> HIDE DEF U
<1>4. Cardinality(Through(c, pt)) <= Cardinality(U)
  BY <1>2, <1>3, FS_Subset
<1>5. /\ Cardinality(Through(c, pt)) \in Nat /\ Cardinality(Due(d, pt)) \in Nat
      /\ Cardinality(U) \in Nat
  BY <1>1, <1>3, FS_CardinalityType
<1>6. Cardinality(Due(d, pt)) <= Cardinality(U)
  BY <1>1, <1>4, <1>5
<1> QED
  BY <1>6 DEF U

\* If the units at a point were all needed there, they would be all that are.
LEMMA FlowingStandsIn ==
  ASSUME NEW d \in DemandSets, NEW n \in Network, NEW c \in FlowsOf[d],
         NEW i \in Items(d), TransportDemand[i] > 0, NEW pt \in NeedsOf[d][i],
         pt \notin Short(d, c), i \notin Flowing(n, d, c).assigned[pt]
  PROVE  \E j \in Items(d) : j \in Flowing(n, d, c).assigned[pt] /\ pt \notin NeedsOf[d][j]
<1>0. pt \in Points
  BY DemandTyped, TakersFinite
<1>1. \A u \in Through(c, pt) : u[1] \in Flowing(n, d, c).assigned[pt]
  BY <1>0 DEF Through, Flowing
<1>2. /\ Through(c, pt) \subseteq Units(d)
      /\ IsFiniteSet(Through(c, pt)) /\ IsFiniteSet(Due(d, pt))
      /\ Cardinality(Due(d, pt)) <= Cardinality(Through(c, pt))
  BY <1>0, Enough
<1>3. <<i, 1>> \in Due(d, pt)
  <2>1. TransportDemand[i] \in Nat /\ TransportDemand[i] > 0
    BY CapacityAssumption, TakersFinite
  <2>2. <<i, 1>> \in Units(d)
    BY <2>1 DEF Units
  <2> QED
    BY <2>2 DEF Due
<1>4. <<i, 1>> \notin Through(c, pt)
  BY <1>1
<1>5. ~(Through(c, pt) \subseteq Due(d, pt))
  <2> SUFFICES ASSUME Through(c, pt) \subseteq Due(d, pt) PROVE FALSE
    OBVIOUS
  <2>1. /\ Cardinality(Through(c, pt)) <= Cardinality(Due(d, pt))
        /\ Cardinality(Due(d, pt)) = Cardinality(Through(c, pt)) => Due(d, pt) = Through(c, pt)
    BY <1>2, FS_Subset
  <2>2. Cardinality(Through(c, pt)) \in Nat /\ Cardinality(Due(d, pt)) \in Nat
    BY <1>2, FS_CardinalityType
  <2>3. Due(d, pt) = Through(c, pt)
    BY <1>2, <2>1, <2>2
  <2> QED
    BY <1>3, <1>4, <2>3
<1>6. PICK u \in Through(c, pt) : u \notin Due(d, pt)
  BY <1>5
<1>7. u \in Units(d) /\ u[1] \in Items(d) /\ pt \notin NeedsOf[d][u[1]]
  BY <1>2, <1>6, FlowTyped DEF Due
<1> QED
  BY <1>1, <1>7

LEMMA FlowingHops ==
  ASSUME NEW d \in DemandSets, NEW f \in Routes(d), NEW n \in Network, Registered(d, f, n),
         NEW c \in FlowsOf[d]
  PROVE  HopByHop(d, Flowing(n, d, c))
<1> SUFFICES ASSUME NEW i \in Items(d), NEW t \in 0..(Last - 1), NEW l \in Locs,
                    i \in Flowing(n, d, c).assigned[<<t, l>>]
             PROVE  \E k \in Locs : /\ i \in Flowing(n, d, c).assigned[<<t + 1, k>>]
                                    /\ i \in Flowing(n, d, c).carried[<<t, l, k>>]
  BY DEF HopByHop
<1>1. t \in Times /\ t + 1 \in Times
  BY Sizes DEF Times
<1>2. <<t, l>> \in Points
  BY <1>1 DEF Points
<1>3. i \notin n.assigned[<<t, l>>]
  BY <1>2, TakersFinite DEF Registered
<1>4. i \in {u[1] : u \in {v \in DOMAIN c : At(c[v], <<t, l>>)}}
  BY <1>2, <1>3 DEF Flowing
<1>5. PICK u \in DOMAIN c : u[1] = i /\ At(c[u], <<t, l>>)
  BY <1>4
<1> DEFINE k == c[u][t + 1]
<1>6. k \in Locs /\ c[u][t] = l
  BY <1>1, <1>5, FlowTyped, PathTyped DEF At
<1>7. <<t + 1, k>> \in Points /\ <<t, l, k>> \in Hops
  BY <1>1, <1>6 DEF Points, Hops
<1>8. At(c[u], <<t + 1, k>>) /\ Takes(c[u], <<t, l, k>>)
  BY <1>6 DEF At, Takes
<1>9. i \in Flowing(n, d, c).assigned[<<t + 1, k>>]
  BY <1>5, <1>7, <1>8 DEF Flowing
<1>10. i \in Flowing(n, d, c).carried[<<t, l, k>>]
  BY <1>5, <1>7, <1>8 DEF Flowing
<1> QED
  BY <1>6, <1>9, <1>10

\* There are at most as many items on an edge as units.
LEMMA FlowingLoaded ==
  ASSUME NEW d \in DemandSets, NEW f \in Routes(d), NEW n \in Network, Registered(d, f, n),
         NEW c \in FlowsOf[d], Fits(c, n.weight)
  PROVE  Loaded(d, Flowing(n, d, c))
<1> SUFFICES ASSUME NEW h \in Transports
             PROVE  Cardinality(Flowing(n, d, c).carried[h] \cap Items(d)) <= Flowing(n, d, c).weight[h]
  BY DEF Loaded
<1> DEFINE D == {u \in DOMAIN c : Takes(c[u], h)}
           T == {u[1] : u \in D}
           g == [u \in D |-> u[1]]
<1>1. IsFiniteSet(D)
  BY UnitsFinite, FlowTyped, FS_Subset
<1>2. g \in Surjection(D, T)
  BY DEF Surjection
<1>3. IsFiniteSet(T) /\ Cardinality(T) <= Cardinality(D)
  BY <1>1, <1>2, FS_Surjection
<1>4. Flowing(n, d, c).carried[h] = n.carried[h] \cup T
  BY DEF Flowing, Transports
<1>5. T \subseteq Items(d)
  BY UnitsOfItems
<1>6. n.carried[h] \cap Items(d) = {}
  BY TakersFinite DEF Registered
<1>7. Flowing(n, d, c).carried[h] \cap Items(d) = T
  BY <1>4, <1>5, <1>6
<1>8. Cardinality(D) <= n.weight[h]
  BY DEF Fits, Load
<1>9. Flowing(n, d, c).weight[h] = n.weight[h]
  BY DEF Flowing
<1>10. Cardinality(T) \in Nat /\ Cardinality(D) \in Nat /\ n.weight[h] \in Nat
  BY <1>1, <1>3, FS_CardinalityType DEF Network
<1>11. Cardinality(T) <= n.weight[h]
  <2> HIDE DEF D, T
  <2> QED
    BY <1>3, <1>8, <1>10
<1> QED
  BY <1>7, <1>9, <1>11

\* If a flow within the room of the agents met everything, it would fit the weights,
\* so the program would have found one that does.
LEMMA FlowingReal ==
  ASSUME NEW d \in DemandSets, NEW f \in Routes(d), NEW n \in Network, Registered(d, f, n),
         NEW c \in Solver(d, n.weight),
         NEW fl, fl.short = Short(d, c), fl.unsent = Unsent(d, c)
  PROVE  Real(d, f, fl)
<1> SUFFICES ASSUME NEW b \in FlowsOf[d], Meets(d, b),
                    \A h \in Transports : Load(b, h) <= Cardinality(Seats(f, h))
             PROVE  fl.short = {} /\ ~fl.unsent
  BY DEF Real
<1>1. Fits(b, n.weight)
  <2> SUFFICES ASSUME NEW h \in Transports PROVE Load(b, h) <= n.weight[h]
    BY DEF Fits
  <2>1. Load(b, h) \in Nat
    BY FlowTyped, UnitsFinite, FS_Subset, FS_CardinalityType DEF Load
  <2>2. Cardinality(Seats(f, h)) \in Nat
    <3>1. {r \in DOMAIN f : Takes(f[r], h)} \in SUBSET Roles
      BY DemandTyped, TakersFinite
    <3> QED
      BY <3>1, RoomFinite DEF Seats
  <2>3. n.weight[h] \in Nat /\ Cardinality(Seats(f, h)) <= n.weight[h]
    BY DEF Network, Registered
  <2>4. Load(b, h) <= Cardinality(Seats(f, h))
    OBVIOUS
  <2> QED
    BY <2>1, <2>2, <2>3, <2>4
<1>2. Meets(d, c) /\ c \in FlowsOf[d]
  BY <1>1 DEF Solver
<1>3. ~Unsent(d, c)
  BY <1>2 DEF Meets, Unsent
<1>4. Short(d, c) = {}
  <2>1. ASSUME NEW pt \in Points
        PROVE  /\ Due(d, pt) \subseteq Through(c, pt)
               /\ ~(Cardinality(Through(c, pt)) < Cardinality(Due(d, pt)))
    <3>1. Due(d, pt) \subseteq Through(c, pt)
      BY <1>2 DEF Meets, Due, Through
    <3>2. IsFiniteSet(Through(c, pt))
      BY <1>2, FlowTyped, UnitsFinite, FS_Subset DEF Through
    <3>3. IsFiniteSet(Due(d, pt)) /\ Cardinality(Due(d, pt)) <= Cardinality(Through(c, pt))
      BY <3>1, <3>2, FS_Subset
    <3>4. Cardinality(Through(c, pt)) \in Nat /\ Cardinality(Due(d, pt)) \in Nat
      BY <3>2, <3>3, FS_CardinalityType
    <3> QED
      BY <3>1, <3>3, <3>4
  <2>2. Violations(d, c) = {}
    BY <2>1 DEF Violations
  <2> QED
    BY <2>2 DEF Short
<1> QED
  BY <1>3, <1>4

\* The only unit of an item in one piece has the item's path.
LEMMA FlowingWhole ==
  ASSUME NEW d \in DemandSets, NEW f \in Routes(d), NEW n \in Network, Registered(d, f, n),
         NEW c \in FlowsOf[d]
  PROVE  Whole(d, Flowing(n, d, c))
<1> SUFFICES ASSUME NEW i \in Items(d), TransportDemand[i] = 1
             PROVE  \/ \A pt \in Points : i \notin Flowing(n, d, c).assigned[pt]
                    \/ \E p \in Paths :
                         /\ \A pt \in Points : i \in Flowing(n, d, c).assigned[pt] <=> At(p, pt)
                         /\ \A h \in Hops : i \in Flowing(n, d, c).carried[h] <=> Takes(p, h)
  BY DEF Whole
<1> DEFINE u == <<i, 1>>
<1>1. \A v \in DOMAIN c : v[1] = i <=> v = u
  <2> SUFFICES ASSUME NEW v \in DOMAIN c, v[1] = i PROVE v = u
    OBVIOUS
  <2>1. v \in Units(d)
    BY FlowTyped
  <2>2. PICK j \in Items(d) : v \in {j} \X (1..TransportDemand[j])
    BY <2>1 DEF Units
  <2>3. v = <<v[1], v[2]>> /\ v[1] = j /\ v[2] \in 1..TransportDemand[j]
    BY <2>2
  <2>4. v[2] = 1
    BY <2>3
  <2> QED
    BY <2>3, <2>4
<1>2. /\ \A pt \in Points : i \notin n.assigned[pt]
      /\ \A h \in Hops : i \notin n.carried[h]
  BY TakersFinite DEF Registered
<1>3. /\ \A pt \in Points : i \in Flowing(n, d, c).assigned[pt] <=> \E v \in DOMAIN c : v[1] = i /\ At(c[v], pt)
      /\ \A h \in Hops : i \in Flowing(n, d, c).carried[h] <=> \E v \in DOMAIN c : v[1] = i /\ Takes(c[v], h)
  BY <1>2 DEF Flowing
<1> HIDE DEF u
<1>4. CASE u \in DOMAIN c
  <2>1. c[u] \in Paths
    BY <1>4, FlowTyped
  <2>2. /\ \A pt \in Points : i \in Flowing(n, d, c).assigned[pt] <=> At(c[u], pt)
        /\ \A h \in Hops : i \in Flowing(n, d, c).carried[h] <=> Takes(c[u], h)
    BY <1>1, <1>3, <1>4
  <2> QED
    BY <2>1, <2>2
<1>5. CASE u \notin DOMAIN c
  BY <1>1, <1>3, <1>5
<1> QED
  BY <1>4, <1>5

\* An edge that an item takes has a weight, which only a driving agent gives it.
LEMMA FlowingEscorted ==
  ASSUME NEW d \in DemandSets, NEW f \in Routes(d), NEW n \in Network, Registered(d, f, n),
         NEW c \in FlowsOf[d], Fits(c, n.weight)
  PROVE  Escorted(d, Flowing(n, d, c))
<1> SUFFICES ASSUME NEW h \in Transports, NEW i \in Flowing(n, d, c).carried[h] \cap Items(d)
             PROVE  Flowing(n, d, c).carried[h] \cap Carriers(d) # {}
  BY DEF Escorted
<1> DEFINE D == {v \in DOMAIN c : Takes(c[v], h)}
<1>1. h \in Hops /\ n.carried[h] \subseteq Carriers(d)
  BY DEF Transports, Registered
<1>2. Flowing(n, d, c).carried[h] = n.carried[h] \cup {v[1] : v \in D}
  BY <1>1 DEF Flowing
<1>3. i \notin n.carried[h]
  BY <1>1, TakersFinite
<1>4. D # {}
  BY <1>2, <1>3
<1>5. IsFiniteSet(D) /\ Cardinality(D) \in Nat
  BY UnitsFinite, FlowTyped, FS_Subset, FS_CardinalityType
<1>6. Cardinality(D) <= n.weight[h] /\ n.weight[h] \in Nat
  BY DEF Fits, Load, Network
<1>7. Cardinality(D) # 0
  <2> HIDE DEF D
  <2> QED
    BY <1>4, <1>5, FS_EmptySet
<1>8. n.weight[h] # 0
  <2> HIDE DEF D
  <2> QED
    BY <1>5, <1>6, <1>7
<1>9. n.carried[h] # {}
  BY <1>8 DEF Registered
<1> QED
  BY <1>1, <1>2, <1>9

LEMMA FlowSound ==
  ASSUME TypeOK, Registering, Flow
  PROVE  Sound(demand, route, flaws', network')
<1>1. stage = "network" /\ toRegister = {} /\ \A i \in Items(demand) : TransportDemand[i] > 0
  BY DEF Flow, Ready, items
<1>2. demand \in DemandSets /\ route \in Routes(demand) /\ network \in Network
  BY DEF TypeOK
<1>3. Registered(demand, route, network)
  BY <1>1, AllRegistered
<1>4. PICK c \in Solver(demand, network.weight) :
        /\ network' = Flowing(network, demand, c)
        /\ flaws'.short = Short(demand, c) /\ flaws'.unsent = Unsent(demand, c)
  BY DEF Flow
<1>5. c \in FlowsOf[demand] /\ Fits(c, network.weight)
  BY SolverTyped
<1>6. Own(demand, route, network') /\ HopByHop(demand, network') /\ Loaded(demand, network')
  BY <1>2, <1>3, <1>4, <1>5, FlowingOwn, FlowingHops, FlowingLoaded
<1>7. Started(demand, flaws', network')
  BY <1>1, <1>2, <1>4, <1>5, FlowingStarted DEF Started, Unsent
<1>8. Totals(demand, flaws', network')
  BY <1>2, <1>4, <1>5, FlowingTotals DEF Totals
<1>9. StandsIn(demand, flaws', network')
  BY <1>1, <1>2, <1>4, <1>5, FlowingStandsIn DEF StandsIn
<1>10. Real(demand, route, flaws')
  BY <1>2, <1>3, <1>4, FlowingReal
<1>11. Whole(demand, network') /\ Escorted(demand, network')
  BY <1>2, <1>3, <1>4, <1>5, FlowingWhole, FlowingEscorted
<1> QED
  BY <1>6, <1>7, <1>8, <1>9, <1>10, <1>11 DEF Sound

-----------------------------------------------------------------------------
(* The cache. *)

\* The key of a flow is all that its soundness is about.
LEMMA SameKey ==
  ASSUME NEW d \in DemandSets, NEW f \in Routes(d), NEW e \in DemandSets, NEW g \in Routes(e),
         KeyOf(d, f) = KeyOf(e, g)
  PROVE  /\ f = g /\ NeedsOf[d] = NeedsOf[e] /\ Takers(d) = Takers(e) /\ Carriers(d) = Carriers(e)
         /\ Items(d) = Items(e) /\ Units(d) = Units(e) /\ FlowsOf[d] = FlowsOf[e]
<1>1. KeyOf(d, f).route = KeyOf(e, g).route /\ KeyOf(d, f).need = KeyOf(e, g).need
  OBVIOUS
<1>2. f = g /\ NeedsOf[d] = NeedsOf[e]
  BY <1>1 DEF KeyOf
<1>3. Takers(d) = Takers(e) /\ Carriers(d) = Carriers(e)
  BY <1>2, DemandTyped
<1>4. Items(d) = Items(e)
  BY <1>3, TakersFinite
<1>5. Units(d) = Units(e)
  BY <1>4 DEF Units
<1>6. FlowsOf[d] = FlowsOf[e]
  BY <1>2, <1>5 DEF FlowsOf, PartialFlows, Starting
<1> QED
  BY <1>2, <1>3, <1>4, <1>5, <1>6

LEMMA SoundForKey ==
  ASSUME NEW d \in DemandSets, NEW f \in Routes(d), NEW e \in DemandSets, NEW g \in Routes(e),
         KeyOf(d, f) = KeyOf(e, g), NEW fl, NEW n, Sound(d, f, fl, n)
  PROVE  Sound(e, g, fl, n)
<1>1. /\ f = g /\ NeedsOf[d] = NeedsOf[e] /\ Takers(d) = Takers(e) /\ Carriers(d) = Carriers(e)
      /\ Items(d) = Items(e) /\ Units(d) = Units(e) /\ FlowsOf[d] = FlowsOf[e]
  BY SameKey
<1>2. Own(e, g, n)
  BY <1>1 DEF Sound, Own
<1>3. HopByHop(e, n) /\ Loaded(e, n)
  BY <1>1 DEF Sound, HopByHop, Loaded
<1>4. Real(e, g, fl)
  BY <1>1 DEF Sound, Real, Meets
<1>5. Whole(e, n) /\ Escorted(e, n)
  BY <1>1 DEF Sound, Whole, Escorted
<1>6. Started(e, fl, n) /\ StandsIn(e, fl, n)
  BY <1>1 DEF Sound, Started, StandsIn
<1>7. \A pt : Due(d, pt) = Due(e, pt)
  BY <1>1 DEF Due
<1>8. Totals(e, fl, n)
  BY <1>1, <1>7 DEF Sound, Totals
<1> QED
  BY <1>2, <1>3, <1>4, <1>5, <1>6, <1>8 DEF Sound

LEMMA HitSound ==
  ASSUME TypeOK, CacheSound, Hit
  PROVE  Sound(demand, route, flaws', network')
<1> DEFINE k == KeyOf(demand, route)
<1>1. k \in DOMAIN cache /\ flaws' = cache[k].flaws /\ network' = cache[k].network
  BY DEF Hit
<1>2. PICK d \in DemandSets : \E f \in Routes(d) :
        k = KeyOf(d, f) /\ Sound(d, f, cache[k].flaws, cache[k].network)
  BY <1>1 DEF CacheSound
<1>3. PICK f \in Routes(d) :
        k = KeyOf(d, f) /\ Sound(d, f, cache[k].flaws, cache[k].network)
  BY <1>2
<1>4. demand \in DemandSets /\ route \in Routes(demand)
  BY DEF TypeOK
<1>5. Sound(demand, route, cache[k].flaws, cache[k].network)
  BY <1>3, <1>4, SoundForKey
<1> QED
  BY <1>1, <1>5

LEMMA StoreSound ==
  ASSUME FlowInv, Store
  PROVE  CacheSound'
<1> SUFFICES ASSUME NEW k \in DOMAIN cache'
             PROVE  \E d \in DemandSets : \E f \in Routes(d) :
                      k = KeyOf(d, f) /\ Sound(d, f, cache'[k].flaws, cache'[k].network)
  BY DEF CacheSound
<1>1. demand \in DemandSets /\ route \in Routes(demand) /\ Sound(demand, route, flaws, network)
  BY DEF FlowInv, TypeOK, Store
<1>2. CASE k = KeyOf(demand, route) /\ options.cache
  <2>1. cache'[k] = [flaws |-> flaws, network |-> network]
    BY <1>2 DEF Store
  <2>2. cache'[k].flaws = flaws /\ cache'[k].network = network
    BY <2>1
  <2> QED
    BY <1>1, <1>2, <2>2
<1>3. CASE ~(k = KeyOf(demand, route) /\ options.cache)
  <2>1. k \in DOMAIN cache /\ cache'[k] = cache[k]
    BY <1>3 DEF Store
  <2> QED
    BY <2>1 DEF FlowInv, CacheSound
<1> QED
  BY <1>2, <1>3

LEMMA SoundStays ==
  ASSUME FlowInv, UNCHANGED <<demand, route, flaws, network, cache>>, stage' # "network",
         stage' \in {"flow", "analysis", "done", "failed"} =>
           stage \in {"flow", "analysis", "done", "failed"}
  PROVE  /\ Registering' /\ CacheSound'
         /\ stage' \in {"flow", "analysis", "done", "failed"} =>
              Sound(demand, route, flaws, network)'
<1>1. Registering'
  BY DEF Registering
<1>2. CacheSound'
  BY DEF FlowInv, CacheSound
<1> QED
  BY <1>1, <1>2 DEF FlowInv

LEMMA NextSpaceKept ==
  ASSUME NextSpace
  PROVE  Registering'
<1>1. PICK d \in DemandSets : Begin(d)
  BY DEF NextSpace
<1>2. /\ demand' = d /\ toRegister' = Carriers(d) /\ network' = Registry(d) /\ clock' = 0
      /\ flaws' = NoFlaws
  BY <1>1 DEF Begin
<1>3. \A r \in Carriers(d) : Done(r)' = 0
  BY <1>2 DEF Done
<1>4. AssignedSoFar'
  <2>1. \A pt \in Points : ~(pt[1] < 0)
    BY Sizes DEF Points, Times
  <2> QED
    BY <1>2, <1>3, <2>1 DEF AssignedSoFar, Registry, NoTags
<1>5. CarriedSoFar'
  <2>1. \A h \in Hops : ~(h[1] + 1 < 0)
    BY Sizes DEF Hops
  <2> QED
    BY <1>2, <1>3, <2>1 DEF CarriedSoFar, Registry, NoRoles
<1>6. Weighted'
  <2>1. Room({}) = {} /\ Cardinality({}) = 0
    BY FS_EmptySet DEF Room
  <2>2. \A h \in Transports : network'.carried[h] = {} /\ network'.weight[h] = 0
    BY <1>2 DEF Registry, NoRoles, NoCapacity, Transports
  <2>3. \A h \in Transports : Cardinality(Room(network'.carried[h])) <= network'.weight[h]
    BY <2>1, <2>2
  <2>4. ~(clock' > 0)
    BY <1>2
  <2> QED
    BY <2>3, <2>4 DEF Weighted, Room
<1>7. network'.required = Requested(demand')
  BY <1>2 DEF Registry
<1>8. Driven'
  BY <1>2 DEF Driven, Registry, NoCapacity
<1> QED
  BY <1>2, <1>4, <1>5, <1>6, <1>7, <1>8 DEF Registering, Requested

-----------------------------------------------------------------------------
(* Every step. *)

LEMMA InitFlowInv ==
  ASSUME Init
  PROVE  FlowInv
<1>1. TypeOK
  BY InitTyped
<1>2. Registering
  <2>1. PICK d \in DemandSets : demand = d /\ toRegister = Carriers(d) /\ network = Registry(d)
    BY DEF Init
  <2> QED
    BY <2>1, BeginKept DEF Init
<1>3. CacheSound
  BY DEF Init, CacheSound
<1> QED
  BY <1>1, <1>2, <1>3 DEF FlowInv, Init

LEMMA StepFlowInv ==
  ASSUME FlowInv, [Next]_vars
  PROVE  FlowInv'
<1>0. TypeOK /\ TypeOK' /\ Registering /\ CacheSound
  BY StepTyped DEF FlowInv
<1>1. ASSUME NEW r \in toRegister, Depart(r) \/ Stay(r) \/ Drive(r) \/ Arrive(r)
      PROVE  FlowInv'
  <2>1. stage' = "network" /\ cache' = cache
    BY <1>1 DEF Depart, Stay, Drive, Arrive, Register
  <2>2. Registering'
    BY <1>0, <1>1, DepartKept, StayKept, DriveKept, ArriveKept
  <2>3. CacheSound'
    BY <1>0, <2>1 DEF CacheSound
  <2> QED
    BY <1>0, <2>1, <2>2, <2>3 DEF FlowInv
<1>2. CASE Refuse \/ RefuseItem
  <2>1. UNCHANGED <<demand, route, flaws, network, cache>> /\ stage' = "threw"
    BY <1>2 DEF Refuse, RefuseItem
  <2> QED
    BY <1>0, <2>1, SoundStays DEF FlowInv
<1>3. CASE Hit
  <2>1. stage' = "analysis" /\ UNCHANGED <<demand, route, cache>>
    BY <1>3 DEF Hit
  <2>2. Sound(demand, route, flaws', network')
    BY <1>0, <1>3, HitSound
  <2>3. Registering' /\ CacheSound'
    BY <1>0, <2>1 DEF Registering, CacheSound
  <2> QED
    BY <1>0, <2>1, <2>2, <2>3 DEF FlowInv
<1>4. CASE Flow
  <2>1. stage' = "flow" /\ UNCHANGED <<demand, route, cache>>
    BY <1>4 DEF Flow
  <2>2. Sound(demand, route, flaws', network')
    BY <1>0, <1>4, FlowSound
  <2>3. Registering' /\ CacheSound'
    BY <1>0, <2>1 DEF Registering, CacheSound
  <2> QED
    BY <1>0, <2>1, <2>2, <2>3 DEF FlowInv
<1>5. CASE GiveUp
  <2>1. UNCHANGED <<demand, route, flaws, network, cache>> /\ stage' \in {"unpriced", "crashed"}
    BY <1>5 DEF GiveUp
  <2> QED
    BY <1>0, <2>1, SoundStays DEF FlowInv
<1>6. CASE Store
  <2>1. UNCHANGED <<demand, route, flaws, network>> /\ stage = "flow" /\ stage' = "analysis"
    BY <1>6 DEF Store
  <2>2. CacheSound'
    BY <1>6, StoreSound
  <2>3. Registering'
    BY <2>1 DEF Registering
  <2> QED
    BY <1>0, <2>1, <2>2, <2>3 DEF FlowInv
<1>7. CASE Analyse \/ AnalysisThrows
  <2>1. /\ UNCHANGED <<demand, route, flaws, network, cache>>
        /\ stage = "analysis" /\ stage' \in {"done", "failed"}
    BY <1>7 DEF Analyse, AnalysisThrows
  <2> QED
    BY <1>0, <2>1, SoundStays DEF FlowInv
<1>8. CASE NextSpace
  <2>1. stage' = "network" /\ cache' = cache
    BY <1>8 DEF NextSpace, Begin
  <2>2. CacheSound'
    BY <1>0, <2>1 DEF CacheSound
  <2> QED
    BY <1>0, <1>8, <2>1, <2>2, NextSpaceKept DEF FlowInv
<1>9. CASE UNCHANGED vars
  <2>1. UNCHANGED <<demand, route, stage, toRegister, clock, capacity, network, flaws, cache>>
    BY <1>9 DEF vars
  <2>2. \A r : Done(r)' = Done(r)
    BY <2>1 DEF Done
  <2>3. AssignedSoFar => AssignedSoFar'
    BY <2>1, <2>2 DEF AssignedSoFar
  <2>4. CarriedSoFar => CarriedSoFar'
    BY <2>1, <2>2 DEF CarriedSoFar
  <2>5. (Weighted => Weighted') /\ (Driven => Driven')
    BY <2>1 DEF Weighted, Driven, Room
  <2>6. Registering'
    BY <1>0, <2>1, <2>3, <2>4, <2>5 DEF Registering
  <2>7. CacheSound'
    BY <1>0, <2>1 DEF CacheSound
  <2> QED
    BY <1>0, <2>1, <2>6, <2>7 DEF FlowInv
<1> QED
  BY <1>1, <1>2, <1>3, <1>4, <1>5, <1>6, <1>7, <1>8, <1>9 DEF Next

LEMMA FlowInvariant == Spec => []FlowInv
<1>1. Init => FlowInv
  BY InitFlowInv
<1>2. FlowInv /\ [Next]_vars => FlowInv'
  BY StepFlowInv
<1> QED
  BY <1>1, <1>2, PTL DEF Spec

-----------------------------------------------------------------------------
(* The properties. *)

LEMMA AnsweredSound ==
  ASSUME FlowInv, Answered
  PROVE  demand \in DemandSets /\ route \in Routes(demand) /\ Sound(demand, route, flaws, network)
BY DEF FlowInv, TypeOK, Answered

\* The roles on the network that a space ends with are those of its own timelines
\* and requirements, for any sequence of spaces: the key of the static cache in
\* postMinCostFlow tells all that the flow depends on.
THEOREM FlowOwned == Spec => []FlowIsOwn
<1>1. FlowInv => FlowIsOwn
  <2> SUFFICES ASSUME FlowInv, Answered
               PROVE  /\ \A pt \in Points :
                           /\ network.required[pt] = {r \in Takers(demand) : pt \in need[r]}
                           /\ network.assigned[pt] \cap carriers = {r \in carriers : At(route[r], pt)}
                      /\ \A h \in Transports :
                           network.carried[h] \cap carriers = {r \in carriers : Takes(route[r], h)}
    BY DEF FlowIsOwn
  <2> QED
    BY AnsweredSound DEF Sound, Own, need, carriers
<1> QED
  BY <1>1, FlowInvariant, PTL

\* A flow without flaws has every item start where it is needed, takes it from point to
\* point, keeps to the weights that FlowNetwork::initialize gives the edges, and has at
\* every point as many units as the items need there: what the totals that computeFlaws
\* keeps are good for, with any solution of the linear program, computed or cached.
THEOREM ItemsCarried == Spec => []FlawlessIsCarried
<1>1. FlowInv => FlawlessIsCarried
  <2> SUFFICES ASSUME FlowInv, Answered, flaws = NoFlaws
               PROVE  /\ \A i \in items :
                           /\ \E l \in Locs : <<0, l>> \in need[i] /\ i \in network.assigned[<<0, l>>]
                           /\ \A t \in 0..(Last - 1), l \in Locs : i \in network.assigned[<<t, l>>] =>
                                \E k \in Locs : /\ i \in network.assigned[<<t + 1, k>>]
                                                /\ i \in network.carried[<<t, l, k>>]
                      /\ \A h \in Transports :
                           Cardinality(network.carried[h] \cap items) <= network.weight[h]
                      /\ \A pt \in Points :
                           Cardinality(Due(demand, pt))
                             <= Cardinality({u \in Units(demand) : u[1] \in network.assigned[pt]})
    BY DEF FlawlessIsCarried
  <2>1. flaws.short = {} /\ ~flaws.unsent
    BY DEF NoFlaws
  <2>2. /\ HopByHop(demand, network) /\ Loaded(demand, network)
        /\ Started(demand, flaws, network) /\ Totals(demand, flaws, network)
    BY AnsweredSound DEF Sound
  <2>3. \A i \in items : \E l \in Locs : <<0, l>> \in need[i] /\ i \in network.assigned[<<0, l>>]
    BY <2>1, <2>2 DEF Started, items, need
  <2>4. \A pt \in Points :
          Cardinality(Due(demand, pt))
            <= Cardinality({u \in Units(demand) : u[1] \in network.assigned[pt]})
    BY <2>1, <2>2 DEF Totals
  <2> QED
    BY <2>2, <2>3, <2>4 DEF HopByHop, Loaded, items
<1> QED
  BY <1>1, FlowInvariant, PTL

\* No lack of flow is reported by computeFlaws, at a point or a depot, while the mobile agents have
\* room for a flow that meets them all: the capacities that registration adds up are
\* never less than what the agents on an edge can carry.
THEOREM FlawsReal == Spec => []FlawsAreReal
<1>1. FlowInv => FlawsAreReal
  <2> SUFFICES ASSUME FlowInv, Answered, flaws.short # {} \/ flaws.unsent
               PROVE  ~\E c \in FlowsOf[demand] :
                        Meets(demand, c) /\ \A h \in Transports : Load(c, h) <= Cardinality(Seats(route, h))
    BY DEF FlawsAreReal
  <2> QED
    BY AnsweredSound DEF Sound, Real
<1> QED
  BY <1>1, FlowInvariant, PTL

LEMMA NeededAt ==
  ASSUME NEW d \in DemandSets, NEW r \in Takers(d), NEW pt
  PROVE  pt \in NeedsOf[d][r] <=>
           pt \in Points /\ \E i \in DOMAIN d.requirements :
             LET q == d.requirements[i]
             IN  r \in q.roles /\ q.from < q.to /\ pt[1] \in q.from..q.to /\ pt[2] = q.loc
<1>1. NeedsOf[d][r] = Needs(d)[r]
  BY DemandTyped
<1> QED
  BY <1>1 DEF Needs

\* A mobile role is at the points that its requirements need.
LEMMA CarriersThere ==
  ASSUME NEW d \in DemandSets, NEW f \in Routes(d), NEW r \in Carriers(d), NEW pt \in NeedsOf[d][r]
  PROVE  At(f[r], pt)
<1>1. PICK i \in DOMAIN d.requirements :
        LET q == d.requirements[i]
        IN  r \in q.roles /\ q.from < q.to /\ pt[1] \in q.from..q.to /\ pt[2] = q.loc
  BY TakersFinite, NeededAt
<1>2. Visits(f[r], d.requirements[i])
  BY <1>1 DEF Routes
<1> QED
  BY <1>1, <1>2 DEF Visits, At

\* What computeEfficacy counts as fulfilled over an interval has all its agents at
\* all its points.  What it does not lacks an item, never a mobile agent, and without
\* a flaw there only if another item, that is not needed there, makes up the total.
THEOREM EfficacyHonest == Spec => []EfficacyIsHonest
<1>1. FlowInv => EfficacyIsHonest
  <2> SUFFICES ASSUME FlowInv, Answered, NEW j \in DOMAIN demand.requirements,
                      demand.requirements[j].from > 0,
                      demand.requirements[j].from < demand.requirements[j].to
               PROVE  LET q == demand.requirements[j]
                          points == {<<t, q.loc>> : t \in q.from..q.to}
                      IN  IF Fulfilled(q)
                          THEN \A pt \in points : q.roles \cap Takers(demand) \subseteq network.assigned[pt]
                          ELSE \E pt \in points :
                                 \E i \in items \cap (network.required[pt] \ network.assigned[pt]) :
                                   \/ pt \in flaws.short
                                   \/ items \cap (network.assigned[pt] \ network.required[pt]) # {}
    BY DEF EfficacyIsHonest
  <2> DEFINE q == demand.requirements[j]
             points == {<<t, q.loc>> : t \in q.from..q.to}
  <2>1. demand \in DemandSets /\ route \in Routes(demand) /\ Sound(demand, route, flaws, network)
    BY AnsweredSound
  <2>2. q \in Requirement
    <3>1. demand.requirements \in Seq(Requirement)
      BY <2>1, DemandAssumption DEF Demand
    <3> QED
      BY <3>1
  <2>3. points \subseteq Points
    <3>1. q.loc \in Locs /\ q.from \in Times /\ q.to \in Times
      BY <2>2 DEF Requirement
    <3>2. \A t \in q.from..q.to : t \in Times
      BY <3>1, Sizes DEF Times
    <3> QED
      BY <3>1, <3>2 DEF Points
  <2>4. ASSUME NEW pt \in points, NEW r \in q.roles \cap Takers(demand)
        PROVE  pt \in NeedsOf[demand][r]
    <3>1. pt \in Points /\ pt[1] \in q.from..q.to /\ pt[2] = q.loc
      BY <2>3
    <3>2. r \in q.roles /\ q.from < q.to
      OBVIOUS
    <3> HIDE DEF points
    <3> QED
      BY <2>1, <3>1, <3>2, NeededAt
  <2>5. \A pt \in Points : network.required[pt] = {r \in Takers(demand) : pt \in NeedsOf[demand][r]}
    BY <2>1 DEF Sound, Own
  <2>6. ASSUME Fulfilled(q), NEW pt \in points, NEW r \in q.roles \cap Takers(demand)
        PROVE  r \in network.assigned[pt]
    <3>1. r \in network.required[pt]
      BY <2>3, <2>4, <2>5, <2>6
    <3>2. network.required[pt] \subseteq network.assigned[pt]
      BY <2>2, <2>6 DEF Fulfilled, Requirement
    <3> QED
      BY <3>1, <3>2
  <2>7. ASSUME ~Fulfilled(q)
        PROVE  \E pt \in points :
                 \E i \in items \cap (network.required[pt] \ network.assigned[pt]) :
                   \/ pt \in flaws.short
                   \/ items \cap (network.assigned[pt] \ network.required[pt]) # {}
    <3>1. PICK pt \in points : ~(network.required[pt] \subseteq network.assigned[pt])
      BY <2>7 DEF Fulfilled
    <3>2. PICK r \in network.required[pt] : r \notin network.assigned[pt]
      BY <3>1
    <3>3. r \in Takers(demand) /\ pt \in NeedsOf[demand][r]
      BY <2>3, <2>5, <3>2
    <3>4. r \notin Carriers(demand)
      <4> SUFFICES ASSUME r \in Carriers(demand) PROVE FALSE
        OBVIOUS
      <4>1. At(route[r], pt)
        BY <2>1, <3>3, CarriersThere
      <4>2. network.assigned[pt] \cap Carriers(demand) = {s \in Carriers(demand) : At(route[s], pt)}
        BY <2>1, <2>3 DEF Sound, Own
      <4> QED
        BY <3>2, <4>1, <4>2
    <3>5. r \in Items(demand)
      BY <3>3, <3>4, TakersFinite
    <3>6. \/ pt \in flaws.short
          \/ \E k \in Items(demand) : k \in network.assigned[pt] /\ pt \notin NeedsOf[demand][k]
      BY <2>1, <3>2, <3>3, <3>5 DEF Sound, StandsIn
    <3>7. \A k \in Items(demand) : pt \notin NeedsOf[demand][k] => k \notin network.required[pt]
      BY <2>3, <2>5
    <3> HIDE DEF points
    <3> QED
      BY <3>2, <3>5, <3>6, <3>7 DEF items
  <2> QED
    BY <2>6, <2>7
<1> QED
  BY <1>1, FlowInvariant, PTL

-----------------------------------------------------------------------------
(* The plans that SolutionAnalysis reads from the network. *)

NatOrder == OpToRel(<, Nat)

LEMMA LeastNatural ==
  ASSUME NEW T, T \subseteq Nat, T # {}
  PROVE  \E m \in T : \A y \in T : m <= y
<1>1. \A x, y \in Nat : x < y => <<x, y>> \in NatOrder
  BY DEF NatOrder, OpToRel
<1>2. IsWellFoundedOn(NatOrder, Nat)
  BY NatLessThanWellFounded, Zenon DEF NatOrder
<1>3. PICK m \in T : \A y \in T : ~ (<<y, m>> \in NatOrder)
  BY <1>2, WFMin, Zenon
<1>4. ASSUME NEW y \in T PROVE m <= y
  <2>1. y \in Nat /\ m \in Nat
    OBVIOUS
  <2>2. ~ (y < m)
    BY <1>1, <1>3, <2>1
  <2> QED
    BY <2>1, <2>2
<1> QED
  BY <1>4

\* The path p of a role: where it is assigned, and every move with an agent.
Follows(r, p) ==
  /\ \A pt \in Points : r \in network.assigned[pt] <=> At(p, pt)
  /\ \A t \in 0..(Last - 1) : p[t] # p[t + 1] =>
       \E s \in carriers : s \in network.carried[<<t, p[t], p[t + 1]>>]

\* One point of the search, given those of the time before.
Reached(r, f, t) ==
  IF t = 0 THEN {Least(Starts(r))}
  ELSE {k \in Locs : r \in network.assigned[<<t, k>>] /\
          \E l \in f[t - 1] : l = k \/ \E s \in carriers : s \in network.carried[<<t - 1, l, k>>]}

\* From the point before, the search finds the next one of the path and no other.
LEMMA ReachedStep ==
  ASSUME NEW r, NEW p \in Paths, Follows(r, p), NEW f, NEW t \in Times,
         t > 0 => f[t - 1] = {p[t - 1]}
  PROVE  Reached(r, f, t) = {p[t]}
<1>1. p[t] \in Locs
  BY PathTyped
<1>2. CASE t = 0
  <2>1. \A l \in Locs : r \in network.assigned[<<0, l>>] <=> l = p[0]
    <3> SUFFICES ASSUME NEW l \in Locs PROVE r \in network.assigned[<<0, l>>] <=> l = p[0]
      OBVIOUS
    <3>1. <<0, l>> \in Points
      BY <1>2 DEF Points
    <3> QED
      BY <3>1 DEF Follows, At
  <2>2. Starts(r) = {p[0]}
    BY <1>1, <1>2, <2>1 DEF Starts
  <2>3. p[0] \in Int
    BY <1>1, <1>2 DEF Locs
  <2>4. Least({p[0]}) = p[0]
    BY <2>3 DEF Least
  <2> QED
    BY <1>2, <2>2, <2>4 DEF Reached
<1>3. CASE t # 0
  <2>1. t - 1 \in 0..(Last - 1) /\ t - 1 \in Times /\ (t - 1) + 1 = t /\ t > 0
    BY <1>3, Sizes DEF Times
  <2>2. f[t - 1] = {p[t - 1]} /\ p[t - 1] \in Locs
    BY <2>1, PathTyped
  <2>3. \A k \in Locs : r \in network.assigned[<<t, k>>] <=> k = p[t]
    <3> SUFFICES ASSUME NEW k \in Locs PROVE r \in network.assigned[<<t, k>>] <=> k = p[t]
      OBVIOUS
    <3>1. <<t, k>> \in Points
      BY DEF Points
    <3> QED
      BY <3>1 DEF Follows, At
  <2>4. p[t - 1] = p[t] \/ \E s \in carriers : s \in network.carried[<<t - 1, p[t - 1], p[t]>>]
    BY <2>1 DEF Follows
  <2>5. Reached(r, f, t) = {k \in Locs : r \in network.assigned[<<t, k>>] /\
          \E l \in f[t - 1] : l = k \/ \E s \in carriers : s \in network.carried[<<t - 1, l, k>>]}
    BY <1>3 DEF Reached
  <2> QED
    BY <1>1, <2>2, <2>3, <2>4, <2>5
<1> QED
  BY <1>2, <1>3

\* So the depth-first search finds the path.
LEMMA PlanIsPath ==
  ASSUME NEW r, NEW p \in Paths, Follows(r, p)
  PROVE  \A t \in Times : Plan(r)[t] = {p[t]}
<1> DEFINE g == [t \in Times |-> {p[t]}]
           f == Plan(r)
<1>1. f = CHOOSE h : h = [t \in Times |-> Reached(r, h, t)]
  BY DEF Plan, Reached
<1>2. g = [t \in Times |-> Reached(r, g, t)]
  <2> SUFFICES ASSUME NEW t \in Times PROVE Reached(r, g, t) = {p[t]}
    OBVIOUS
  <2>1. t > 0 => t - 1 \in Times
    BY Sizes DEF Times
  <2>2. t > 0 => g[t - 1] = {p[t - 1]}
    BY <2>1
  <2> HIDE DEF g
  <2> QED
    BY <2>2, ReachedStep
<1>3. \E h : h = [t \in Times |-> Reached(r, h, t)]
  BY <1>2
<1> HIDE DEF f, g
<1>4. f = [t \in Times |-> Reached(r, f, t)]
  BY <1>1, <1>3
<1> DEFINE T == {t \in Times : f[t] # {p[t]}}
<1>5. T = {}
  <2> SUFFICES ASSUME T # {} PROVE FALSE
    OBVIOUS
  <2>1. T \subseteq Nat
    BY DEF Times
  <2>2. PICK m \in T : \A y \in T : m <= y
    BY <2>1, LeastNatural
  <2>3. m \in Times /\ f[m] # {p[m]}
    OBVIOUS
  <2>4. m > 0 => m - 1 \in Times /\ m - 1 \notin T
    BY <2>2, <2>3, Sizes DEF Times
  <2>5. m > 0 => f[m - 1] = {p[m - 1]}
    BY <2>4
  <2> HIDE DEF T
  <2>6. Reached(r, f, m) = {p[m]}
    BY <2>3, <2>5, ReachedStep
  <2>7. f[m] = Reached(r, f, m)
    BY <1>4, <2>3
  <2> QED
    BY <2>3, <2>6, <2>7
<1> QED
  BY <1>5 DEF f

\* An agent in one piece that has a start has a path.
LEMMA PathOfUnit ==
  ASSUME FlowInv, Answered, NEW r \in Planned, Unit(r)
  PROVE  \E p \in Paths :
           /\ Follows(r, p)
           /\ r \in carriers => p = route[r]
           /\ r \in items => \A h \in Hops : r \in network.carried[h] <=> Takes(p, h)
<1>1. /\ demand \in DemandSets /\ route \in Routes(demand)
      /\ Own(demand, route, network) /\ Whole(demand, network) /\ Escorted(demand, network)
  BY AnsweredSound DEF Sound
<1>2. r \in Takers(demand) /\ Starts(r) # {}
  BY DEF Planned
<1>3. ASSUME NEW p \in Paths, NEW t \in 0..(Last - 1), p[t] # p[t + 1]
      PROVE  /\ <<t, p[t], p[t + 1]>> \in Transports /\ <<t, p[t], p[t + 1]>> \in Hops
             /\ Takes(p, <<t, p[t], p[t + 1]>>)
  <2>1. t \in Times /\ t + 1 \in Times
    BY Sizes DEF Times
  <2>2. p[t] \in Locs /\ p[t + 1] \in Locs
    BY <2>1, PathTyped
  <2> QED
    BY <1>3, <2>2 DEF Transports, Hops, Takes
<1>4. CASE r \in Carriers(demand)
  <2> DEFINE p == route[r]
  <2>1. p \in Paths /\ r \notin Items(demand)
    BY <1>1, <1>4, DemandTyped, TakersFinite
  <2>2. \A pt \in Points : r \in network.assigned[pt] <=> At(p, pt)
    BY <1>1, <1>4 DEF Own
  <2>3. ASSUME NEW t \in 0..(Last - 1), p[t] # p[t + 1]
        PROVE  \E s \in carriers : s \in network.carried[<<t, p[t], p[t + 1]>>]
    <3> DEFINE h == <<t, p[t], p[t + 1]>>
    <3>1. h \in Transports /\ Takes(p, h)
      BY <1>3, <2>1, <2>3
    <3>2. network.carried[h] \cap Carriers(demand) = {s \in Carriers(demand) : Takes(route[s], h)}
      BY <1>1, <3>1 DEF Own
    <3>3. r \in network.carried[h]
      BY <1>4, <3>1, <3>2
    <3> QED
      BY <1>4, <3>3 DEF carriers
  <2>4. Follows(r, p)
    BY <2>2, <2>3 DEF Follows
  <2> QED
    BY <2>1, <2>4 DEF items
<1>5. CASE r \in Items(demand)
  <2>1. TransportDemand[r] = 1 /\ r \notin Carriers(demand)
    BY <1>5, TakersFinite DEF Unit, carriers
  <2>2. ~\A pt \in Points : r \notin network.assigned[pt]
    <3>1. PICK l \in Locs : r \in network.assigned[<<0, l>>]
      BY <1>2 DEF Starts
    <3>2. <<0, l>> \in Points
      BY Sizes DEF Points, Times
    <3> QED
      BY <3>1, <3>2
  <2>3. PICK p \in Paths : /\ \A pt \in Points : r \in network.assigned[pt] <=> At(p, pt)
                           /\ \A h \in Hops : r \in network.carried[h] <=> Takes(p, h)
    BY <1>1, <1>5, <2>1, <2>2 DEF Whole
  <2>4. ASSUME NEW t \in 0..(Last - 1), p[t] # p[t + 1]
        PROVE  \E s \in carriers : s \in network.carried[<<t, p[t], p[t + 1]>>]
    <3> DEFINE h == <<t, p[t], p[t + 1]>>
    <3>1. h \in Transports /\ h \in Hops /\ Takes(p, h)
      BY <1>3, <2>4
    <3>2. r \in network.carried[h]
      BY <2>3, <3>1
    <3>3. network.carried[h] \cap Carriers(demand) # {}
      BY <1>1, <1>5, <3>1, <3>2 DEF Escorted
    <3> QED
      BY <3>3 DEF carriers
  <2>5. Follows(r, p)
    BY <2>3, <2>4 DEF Follows
  <2> QED
    BY <2>1, <2>3, <2>5 DEF carriers
<1> QED
  BY <1>2, <1>4, <1>5, TakersFinite

\* The plan that computePlan reads for an agent in one piece is its timeline, or the
\* path of its item in the flow, whether the flow is computed or cached: the search
\* finds one point for every time, and takes no edge that the item does not take.
THEOREM PlansRead == Spec => []PlansFollowFlow
<1>1. FlowInv => PlansFollowFlow
  <2> SUFFICES ASSUME FlowInv, Answered, NEW r \in Planned, Unit(r)
               PROVE  /\ \A t \in Times : Cardinality(Plan(r)[t]) = 1
                      /\ r \in carriers => \A t \in Times : Plan(r)[t] = {route[r][t]}
                      /\ r \in items => \A t \in 0..(Last - 1), l, k \in Locs :
                           l \in Plan(r)[t] /\ k \in Plan(r)[t + 1] =>
                             r \in network.carried[<<t, l, k>>]
    BY DEF PlansFollowFlow
  <2>1. PICK p \in Paths :
          /\ Follows(r, p)
          /\ r \in carriers => p = route[r]
          /\ r \in items => \A h \in Hops : r \in network.carried[h] <=> Takes(p, h)
    BY PathOfUnit
  <2>2. \A t \in Times : Plan(r)[t] = {p[t]}
    BY <2>1, PlanIsPath
  <2>3. \A t \in Times : Cardinality(Plan(r)[t]) = 1
    BY <2>2, FS_Singleton
  <2>4. ASSUME r \in items, NEW t \in 0..(Last - 1), NEW l \in Locs, NEW k \in Locs,
               l \in Plan(r)[t], k \in Plan(r)[t + 1]
        PROVE  r \in network.carried[<<t, l, k>>]
    <3>1. t \in Times /\ t + 1 \in Times
      BY Sizes DEF Times
    <3>2. l = p[t] /\ k = p[t + 1]
      BY <2>2, <2>4, <3>1
    <3>3. <<t, l, k>> \in Hops /\ Takes(p, <<t, l, k>>)
      BY <3>2 DEF Hops, Takes
    <3> QED
      BY <2>1, <2>4, <3>3
  <2> QED
    BY <2>1, <2>2, <2>3, <2>4
<1> QED
  BY <1>1, FlowInvariant, PTL
=============================================================================
