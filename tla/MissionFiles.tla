---------------------------- MODULE MissionFiles ----------------------------
(***************************************************************************)
(* Missions and their files: a client builds a Mission (requirements at    *)
(* places, orders and durations of time points, model constraints that     *)
(* refer to requirements), MissionWriter writes what it compacts from it,  *)
(* MissionReader builds a mission from the file again, in this process or  *)
(* in a later one.  Neither is the inverse of the other: requirements are  *)
(* merged, numbered anew and stripped of what the pool implies, and what a *)
(* requirement implies is not written but built again.                     *)
(*                                                                         *)
(* A place is a location with an interval; a time point is its label, as   *)
(* TimePoint::create returns one object per label.                         *)
(***************************************************************************)
EXTENDS PointAlgebra, FiniteSets, Sequences, SequencesExt, Functions

CONSTANTS
  Location,     \* the names of locations
  Position,     \* where they may be, by one coordinate
  Point,        \* the labels of time points
  Intervals,    \* the intervals <<from, to>> of requirements
  Model,        \* the agent models, all of which are in the pool
  Function,     \* the functionalities
  Amount,       \* the cardinalities a client asks for
  Pools,        \* the pools [Model -> Nat] a client sets
  Orders,       \* the qualitative constraints <<i, j, type>> of a client
  References,   \* the places a model constraint of a client is about
  Durations,    \* the interval constraints <<i, j, intervals>> of a client
  Inf,          \* no bound: the maximum of size_t, and that of double
  MaxEdits      \* bound: how many edits the client makes

\* Infinity is above all numbers of a client, and rounding does not take a
\* number beyond it.
ASSUME InfAssumption == Inf \in Nat \ {0} /\ Inf % 10 = 0
ASSUME PositionAssumption == Position \subseteq Nat
ASSUME ResourceAssumption ==
  IsFiniteSet(Model) /\ IsFiniteSet(Function) /\ Model \cap Function = {}
ASSUME AmountAssumption == Amount \subseteq Nat /\ \A n \in Amount : n < Inf
ASSUME PoolsAssumption ==
  Pools \subseteq [Model -> Nat] /\ \A p \in Pools : \A r \in Model : p[r] < Inf
\* The writer looks places up in a map ordered by what may come first, which
\* finds each of two intervals of a location, and not each of three.
ASSUME IntervalsAssumption ==
  Intervals \subseteq Point \X Point /\ Cardinality(Intervals) <= 2
\* A model constraint is about one place at least.
ASSUME ReferencesAssumption ==
  /\ References \subseteq Seq(Location \X (Intervals \cup {<<>>}))
  /\ <<>> \notin References
\* Two types on one directed pair may be dropped by the network (see
\* QualitativeTCN), and a duration that bounds nothing is no duration to the
\* reader.
ASSUME OrdersAssumption ==
  /\ Orders \subseteq Point \X Point \X Types
  /\ \A o, u \in Orders : o[1] # o[2] /\ (o[1] = u[1] /\ o[2] = u[2] => o = u)
ASSUME DurationsAssumption ==
  /\ Durations \subseteq Point \X Point \X Seq(Nat \X Nat)
  /\ \A d \in Durations :
       d[3] # <<>> /\ \A b \in ToSet(d[3]) : b[1] <= b[2] /\ b[2] <= Inf /\ b # <<0, Inf>>
ASSUME MaxEditsAssumption == MaxEdits \in Nat

VARIABLES
  registry,     \* Location::msLocations: the positions, for the process
  mission,      \* the mission the client works on
  file,         \* the mission file
  last,         \* how the last save or load ended
  edits,        \* how many edits the client has made
  saved,        \* history: the mission and positions the file was written from
  created       \* history: the locations this process created by itself

vars == <<registry, mission, file, last, edits, saved, created>>

Nowhere == -1
NoFile == [pool |-> <<>>]
\* From the start to the end of the horizon: a model constraint with it
\* refers to a location at every time.
FullMission == <<>>

NewMission(pool) ==
  [pool |-> pool, locations |-> {}, conditions |-> <<>>, constraints |-> <<>>,
   implicit |-> {}]

(***************************************************************************)
(* Building a mission.                                                     *)
(***************************************************************************)

\* What a client can ask for: a least or a greatest number of agents of a
\* model, or a functionality.
Conditions ==
  [location : Location, interval : Intervals, model : Model,
   type : {"min", "max"}, card : Amount]
  \cup [location : Location, interval : Intervals, model : Function,
        type : {"min"}, card : {1}]

\* Mutant: durations are told apart by their intervals.
IdentityWithBounds(c) == c

\* What operator== of the constraints compares: an IntervalConstraint has
\* the operator of SimpleConstraint, which knows nothing of its intervals.
Identity(c) == IF c.kind = "duration" THEN [c EXCEPT !.bounds = <<>>] ELSE c

HasConstraint(m, c) == \E d \in ToSet(m.constraints) : Identity(d) = Identity(c)

\* Mutant: an explicit constraint that is implied already is dropped.
AddConstraintOnce(m, c, implicit) ==
  IF HasConstraint(m, c) THEN m
  ELSE [m EXCEPT !.constraints = Append(@, c),
                 !.implicit = IF implicit THEN @ \cup {c} ELSE @]

\* addConstraint: what an explicit constraint repeats is no longer implicit.
AddConstraint(m, c, implicit) ==
  IF HasConstraint(m, c)
  THEN [m EXCEPT !.implicit = IF implicit THEN @ ELSE @ \ {c}]
  ELSE [m EXCEPT !.constraints = Append(@, c),
                 !.implicit = IF implicit THEN @ \cup {c} ELSE @]

Order(i, j, type) == [kind |-> "order", from |-> i, to |-> j, type |-> type]

\* addTemporalAssertion: the condition, and the order its interval implies.
AddCondition(m, c) ==
  LET with == [m EXCEPT !.locations = @ \cup {c.location},
                        !.conditions = Append(@, c)]
      from == c.interval[1]
      to == c.interval[2]
  IN IF from = to THEN with ELSE AddConstraint(with, Order(from, to, "<"), TRUE)

\* isConsistent of the mission's network, which holds the orders only.
Consistent(m) ==
  \E v \in [Point -> 0..(Cardinality(Point) - 1)] :
     \A c \in ToSet(m.constraints) :
        c.kind = "order" => Holds(c.type, v[c.from], v[c.to])

(***************************************************************************)
(* getResourceRequirements: one requirement per place, in the order of the *)
(* first conditions, with the largest minimum, the smallest maximum that   *)
(* conditions and pool give, and every functionality.                      *)
(***************************************************************************)
Place(c) == <<c.location, c.interval>>

Places(m) ==
  FlattenSeq([n \in DOMAIN m.conditions |->
    LET place == Place(m.conditions[n])
    IN IF \E k \in 1..(n - 1) : Place(m.conditions[k]) = place THEN <<>> ELSE <<place>>])

Cards(m, p, r, type) ==
  {c.card : c \in {d \in ToSet(m.conditions) :
                     Place(d) = p /\ d.model = r /\ d.type = type}}

Requirement(m, p) ==
  [place |-> p,
   min |-> [r \in Model |-> Max({0} \cup Cards(m, p, r, "min"))],
   max |-> [r \in Model |-> Min({m.pool[r]} \cup Cards(m, p, r, "max"))],
   functions |-> {c.model : c \in {d \in ToSet(m.conditions) : Place(d) = p}}
                   \cap Function]

\* Mutant: only a minimum is worth writing.
RestrictedMinOnly(m, q) == {r \in Model : q.min[r] > 0}

Restricted(m, q) == {r \in Model : q.min[r] > 0 \/ q.max[r] < m.pool[r]}

\* Every reference means a requirement of the mission or a location.
WellReferenced(m) ==
  \A c \in ToSet(m.constraints) :
     c.kind = "model" =>
       \A p \in ToSet(c.refs) : p[2] = FullMission \/ p \in ToSet(Places(m))

(***************************************************************************)
(* MissionWriter.                                                          *)
(***************************************************************************)

\* Mutant: a functionality is written with every model it goes with.
ResourcesTwice(m, q) ==
  SetToSeq({[model |-> r, min |-> q.min[r],
             max |-> IF q.max[r] < m.pool[r] THEN q.max[r] ELSE Inf]
              : r \in Restricted(m, q)})
  \o SetToSeq({[model |-> f, min |-> 1, max |-> Inf] : f \in q.functions})
  \o SetToSeq({[model |-> f, min |-> 1, max |-> Inf] : f \in q.functions})

\* A maximum is written when it is below the pool's.
Resources(m, q) ==
  SetToSeq({[model |-> r, min |-> q.min[r],
             max |-> IF q.max[r] < m.pool[r] THEN q.max[r] ELSE Inf]
              : r \in Restricted(m, q)})
  \o SetToSeq({[model |-> f, min |-> 1, max |-> Inf] : f \in q.functions})

\* A stringstream writes a double with six significant digits: of a number
\* with seven the last one is rounded away.
SixDigits(x) == IF x < 1000000 \/ x = Inf THEN x ELSE 10 * ((x + 5) \div 10)

\* One element per order, one per interval of a duration.
Elements(c) ==
  IF c.kind = "order" THEN <<c>>
  ELSE [n \in DOMAIN c.bounds |->
          [c EXCEPT !.bounds =
             << <<SixDigits(c.bounds[n][1]), SixDigits(c.bounds[n][2])>> >>]]

\* Mutant: requirements are referred to from one.
ReferenceFromOne(places, p, stray) ==
  CASE p[2] = FullMission -> <<"location", p[1]>>
    [] p \in ToSet(places) ->
         <<"id", CHOOSE n \in 1..Len(places) : places[n] = p>>
    [] OTHER -> <<"id", stray>>

\* A place is written as the number of its requirement.  The exception for a
\* place without one is made and not thrown: the writer goes on with the
\* number it finds behind the end of its map.
Reference(places, p, stray) ==
  CASE p[2] = FullMission -> <<"location", p[1]>>
    [] p \in ToSet(places) ->
         <<"id", (CHOOSE n \in 1..Len(places) : places[n] = p) - 1>>
    [] OTHER -> <<"id", stray>>

\* Orders and durations, but those that are implied.
TemporalElements(m) ==
  FlattenSeq([n \in DOMAIN m.constraints |->
    LET c == m.constraints[n]
    IN IF c.kind = "model" \/ c \in m.implicit THEN <<>> ELSE Elements(c)])

ModelElements(m, stray) ==
  FlattenSeq([n \in DOMAIN m.constraints |->
    LET c == m.constraints[n]
        refs == [k \in DOMAIN c.refs |-> Reference(Places(m), c.refs[k], stray)]
    IN IF c.kind = "model" THEN <<[c EXCEPT !.refs = refs]>> ELSE <<>>])

Written(m, positions, stray) ==
  [pool |-> m.pool,
   constants |-> [l \in m.locations |-> SixDigits(positions[l])],
   requirements |->
     [n \in DOMAIN Places(m) |->
        [id |-> n - 1, place |-> Places(m)[n],
         resources |-> Resources(m, Requirement(m, Places(m)[n]))]],
   temporal |-> TemporalElements(m),
   model |-> ModelElements(m, stray)]

(***************************************************************************)
(* MissionReader.                                                          *)
(***************************************************************************)

\* A resource becomes a condition for its minimum and one for its maximum.
ConditionsOf(q, s) ==
  LET Condition(type, card) ==
        [location |-> q.place[1], interval |-> q.place[2], model |-> s.model,
         type |-> type, card |-> card]
  IN <<Condition("min", s.min), Condition("max", s.max)>>

ReadConditions(f) ==
  FlattenSeq([n \in DOMAIN f.requirements |->
    LET required == f.requirements[n]
    IN FlattenSeq([k \in DOMAIN required.resources |->
                     ConditionsOf(required, required.resources[k])])])

\* The places a reference of a model constraint can mean.
Referred(f, ref) ==
  IF ref[1] = "location"
  THEN {<<l, FullMission>> : l \in {ref[2]} \cap DOMAIN f.constants}
  ELSE {q.place : q \in {r \in ToSet(f.requirements) : r.id = ref[2]}}

\* The constraints of the file, model constraints first.
ReadConstraints(f) ==
  [n \in DOMAIN f.model |->
     [f.model[n] EXCEPT !.refs =
        [k \in DOMAIN @ |-> CHOOSE p \in Referred(f, @[k]) : TRUE]]]
  \o f.temporal

\* The mission with the constants, and after each of the conditions and
\* constraints, in the order of the file's elements and of the reader's loops.
Read(f) ==
  LET located == [NewMission(f.pool) EXCEPT !.locations = DOMAIN f.constants]
      conditions == ReadConditions(f)
      constraints == ReadConstraints(f)
      all == Len(conditions) + Len(constraints)
      after[n \in 0..all] ==
        CASE n = 0 -> located
          [] n \in 1..Len(conditions) -> AddCondition(after[n - 1], conditions[n])
          [] OTHER -> AddConstraint(after[n - 1], constraints[n - Len(conditions)], FALSE)
  IN after[all]

\* What makes the reader throw: a location or a requirement that is not
\* there, an assertion that is added again, a duration with its bounds
\* swapped, no resources, no intervals, inconsistent orders.
Readable(f, m) ==
  /\ \A q \in ToSet(f.requirements) : q.place[1] \in DOMAIN f.constants
  /\ \A c \in ToSet(f.model) : \A ref \in ToSet(c.refs) : Referred(f, ref) # {}
  /\ \A c \in ToSet(f.model) : c.refs # <<>>
  /\ LET cs == ReadConditions(f) IN cs # <<>> /\ IsInjective(cs)
  /\ \A c \in ToSet(f.temporal) :
        c.kind = "duration" => c.bounds[1][1] <= c.bounds[1][2]
  /\ \E r \in Model : f.pool[r] > 0
  /\ Consistent(m)

(***************************************************************************)
(* The client: an edit goes to the mission at hand, saving and loading     *)
(* connect missions, processes and files.                                  *)
(***************************************************************************)
Init ==
  /\ registry = [l \in Location |-> Nowhere]
  /\ \E pool \in Pools : mission = NewMission(pool)
  /\ file = NoFile
  /\ last = "none"
  /\ edits = 0
  /\ saved = [mission |-> NewMission(<<>>), positions |-> <<>>]
  /\ created = {}

Edit(m) ==
  /\ edits < MaxEdits
  /\ edits' = edits + 1
  /\ mission' = m
  /\ last' = "none"
  /\ UNCHANGED <<registry, file, saved, created>>

\* Location::create: the first position of a name stays.
CreateLocation(l, p) ==
  /\ edits < MaxEdits
  /\ registry[l] = Nowhere
  /\ registry' = [registry EXCEPT ![l] = p]
  /\ created' = created \cup {l}
  /\ UNCHANGED <<mission, file, last, edits, saved>>

\* addResourceLocationCardinalityConstraint: the location is known before
\* the assertion is refused because it is there already.
AddRequirement(c) ==
  /\ registry[c.location] # Nowhere
  /\ Edit(IF c \in ToSet(mission.conditions)
          THEN [mission EXCEPT !.locations = @ \cup {c.location}]
          ELSE AddCondition(mission, c))

AddOrder(o) == Edit(AddConstraint(mission, Order(o[1], o[2], o[3]), FALSE))

AddDuration(d) ==
  Edit(AddConstraint(mission, [kind |-> "duration", from |-> d[1], to |-> d[2],
                               bounds |-> d[3]], FALSE))

\* A model constraint over places of requirements or over locations.
AddModelConstraint(r, refs) ==
  /\ ToSet(refs) \subseteq ToSet(Places(mission))
                             \cup (mission.locations \X {FullMission})
  /\ Edit(AddConstraint(mission, [kind |-> "model", model |-> r, refs |-> refs], FALSE))

SetAvailableResources(pool) == Edit([mission EXCEPT !.pool = pool])

\* write() prepares the intervals of a copy first, which throws before the
\* file is touched when the orders contradict each other.
Save(stray) ==
  /\ IF Consistent(mission)
     THEN /\ saved' = [mission |-> mission,
                        positions |-> Restrict(registry, mission.locations)]
          /\ file' = Written(mission, registry, stray)
          /\ last' = "saved"
     ELSE /\ last' = "not saved"
          /\ UNCHANGED <<file, saved>>
  /\ UNCHANGED <<registry, mission, edits, created>>

\* fromFile: the locations enter the registry before anything can be refused.
Load ==
  /\ file # NoFile
  /\ registry' = [l \in Location |->
                    IF registry[l] = Nowhere /\ l \in DOMAIN file.constants
                    THEN file.constants[l] ELSE registry[l]]
  /\ LET m == Read(file)
     IN IF Readable(file, m)
        THEN mission' = m /\ last' = "loaded"
        ELSE last' = "refused" /\ UNCHANGED mission
  /\ UNCHANGED <<file, edits, saved, created>>

\* A new process knows no locations; its client has the same agents.
Restart ==
  /\ file # NoFile
  /\ registry' = [l \in Location |-> Nowhere]
  /\ mission' = NewMission(mission.pool)
  /\ last' = "none"
  /\ created' = {}
  /\ UNCHANGED <<file, edits, saved>>

Next ==
  \/ \E l \in Location, p \in Position : CreateLocation(l, p)
  \/ \E c \in Conditions : AddRequirement(c)
  \/ \E o \in Orders : AddOrder(o)
  \/ \E d \in Durations : AddDuration(d)
  \/ \E r \in Model, refs \in References : AddModelConstraint(r, refs)
  \/ \E pool \in Pools : SetAvailableResources(pool)
  \/ \E stray \in IF WellReferenced(mission) THEN {0} ELSE 0..Len(Places(mission)) :
        Save(stray)
  \/ Load
  \/ Restart

Spec == Init /\ [][Next]_vars

(***************************************************************************)
(* Properties.                                                             *)
(***************************************************************************)

\* What a mission demands: requirements that restrict nothing demand nothing.
Demands(m) ==
  {q \in {Requirement(m, p) : p \in ToSet(Places(m))} :
     Restricted(m, q) # {} \/ q.functions # {}}

\* What remains of the constraints: an implied order only with a requirement
\* that demands something, a duration as its first interval in six digits.
Kept(m) ==
  LET implied == {Order(q.place[2][1], q.place[2][2], "<") : q \in Demands(m)}
  IN (ToSet(m.constraints) \ m.implicit) \cup (m.implicit \cap implied)

AsRead(c) ==
  IF c.kind = "duration" THEN Elements(c)[1] ELSE c

\* The lists of a mission repeat nothing, whoever built it: constraints differ
\* in what the code compares, and each implied one is among them.
TypeOK ==
  /\ registry \in [Location -> Position \cup {SixDigits(p) : p \in Position}
                                 \cup {Nowhere}]
  /\ mission.pool \in Pools
  /\ mission.locations \subseteq {l \in Location : registry[l] # Nowhere}
  /\ \A c \in ToSet(mission.conditions) :
        c.location \in mission.locations /\ c.interval \in Intervals
  /\ IsInjective(mission.conditions)
  /\ \A m, n \in 1..Len(mission.constraints) :
        LET c == mission.constraints[m]
            d == mission.constraints[n]
        IN m # n /\ c.kind = d.kind =>
             CASE c.kind = "model" -> c # d
               [] c.kind = "duration" -> <<c.from, c.to>> # <<d.from, d.to>>
               [] c.kind = "order" -> <<c.from, c.to, c.type>> # <<d.from, d.to, d.type>>
  /\ mission.implicit \subseteq ToSet(mission.constraints)
  /\ last \in {"none", "saved", "not saved", "loaded", "refused"}
  /\ edits \in 0..MaxEdits
  /\ created \subseteq {l \in Location : registry[l] # Nowhere}

\* What was written can be read, in this process and in later ones, whatever
\* was edited, saved and loaded before: unless the mission demanded nothing or
\* had no resources, or a constraint referred to a requirement that is gone.
SavedFilesLoad ==
  last \in {"loaded", "refused"} /\ WellReferenced(saved.mission) =>
    (last = "loaded" <=> /\ Demands(saved.mission) # {}
                         /\ \E r \in Model : saved.mission.pool[r] > 0)

\* A mission that is loaded demands what the saved one did, of the same
\* resources, at the same locations, and they are where they were, in six
\* digits, if this process had no position of its own for them.
RequirementsSurvive ==
  last = "loaded" =>
    /\ mission.pool = saved.mission.pool
    /\ mission.locations = saved.mission.locations
    /\ Demands(mission) = Demands(saved.mission)
    /\ \A l \in mission.locations \ created :
          registry[l] = SixDigits(saved.positions[l])

\* It has the constraints of the saved one that remain, and knows which of
\* them are implied and must not be written: nothing turns from implied to
\* explicit or back, and references mean the same requirements.
ConstraintsSurvive ==
  last = "loaded" /\ WellReferenced(saved.mission) =>
    /\ ToSet(mission.constraints) = {AsRead(c) : c \in Kept(saved.mission)}
    /\ mission.implicit = saved.mission.implicit \cap Kept(saved.mission)

\* What is saved comes back.
LoadRestores == RequirementsSurvive /\ ConstraintsSurvive

=============================================================================
