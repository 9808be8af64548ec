-------------------------- MODULE TimelineCSPProofs --------------------------
(***************************************************************************)
(* Theorems about TimelineCSP for any number of time points, locations,    *)
(* roles and demands: its variables stay in their types, propagation on a  *)
(* timeline loses no path, and leaves no edge to a dead end; and it        *)
(* implements Timelines.                                                   *)
(***************************************************************************)
EXTENDS TimelineCSP, FiniteSetTheorems, TLAPS

(***************************************************************************)
(* What is told to a variable.                                             *)
(***************************************************************************)

\* w is v after some tells.
Narrower(w, v) ==
  /\ w.targets \subseteq v.targets
  /\ v.needed => w.needed
  /\ w.needed => v.needed \/ v.targets # {}
  /\ Assigned(v) => Assigned(w)
  /\ (v.needed => v.targets # {}) => (w.needed => w.targets # {})

\* Emptying keeps the type, narrows, and fails only on needed variables.
LEMMA EmptiedNarrows ==
  ASSUME NEW v \in View
  PROVE  /\ Emptied(v) \in View /\ Narrower(Emptied(v), v)
         /\ Emptied(v).needed = v.needed
         /\ v.needed => Emptied(v) = v
BY DEF View, Emptied, CannotEmpty, Narrower, Assigned

\* Clamping to a set keeps the type, narrows, and keeps the targets in the set.
LEMMA ClampedNarrows ==
  ASSUME NEW v \in View, NEW S
  PROVE  /\ Clamped(v, S) \in View /\ Narrower(Clamped(v, S), v)
         /\ Clamped(v, S).needed = v.needed
         /\ v.targets \cap S \subseteq Clamped(v, S).targets
BY DEF View, Clamped, CannotClamp, Narrower, Assigned

\* Demanding an element keeps the type and the targets.
LEMMA NeededNarrows ==
  ASSUME NEW v \in View
  PROVE  /\ Needed(v) \in View /\ Narrower(Needed(v), v)
         /\ Needed(v).targets = v.targets
         /\ Needed(v).needed => v.needed \/ v.targets # {}
BY DEF View, Needed, Narrower, Assigned

\* Narrowing is reflexive and transitive.
LEMMA NarrowerOrders ==
  ASSUME NEW u, NEW v, NEW w
  PROVE  Narrower(v, v) /\ (Narrower(w, v) /\ Narrower(v, u) => Narrower(w, u))
BY DEF Narrower

\* A timeline that is narrower in each variable.
Domains == [Points -> View]
NarrowerDomain(new, d) == \A x \in Points : Narrower(new[x], d[x])

(***************************************************************************)
(* The narrowings of the actions.                                          *)
(***************************************************************************)

\* A requirement narrows a timeline.
LEMMA ActivatedNarrows ==
  ASSUME NEW d \in Domains, NEW q \in Requirement
  PROVE  Activated(d, q) \in Domains /\ NarrowerDomain(Activated(d, q), d)
<1> DEFINE clamped(x) == Clamped(d[x], {q.loc})
<1>1. \A x \in Points :
        /\ d[x] \in View /\ Narrower(d[x], d[x])
        /\ Emptied(d[x]) \in View /\ Narrower(Emptied(d[x]), d[x])
        /\ clamped(x) \in View /\ Narrower(clamped(x), d[x])
  BY EmptiedNarrows, ClampedNarrows, NarrowerOrders DEF Domains
<1>2. \A x \in Points : Needed(clamped(x)) \in View /\ Narrower(Needed(clamped(x)), d[x])
  BY <1>1, NeededNarrows, NarrowerOrders
<1>3. AtInstant(d, q) \in Domains /\ NarrowerDomain(AtInstant(d, q), d)
  BY <1>1 DEF AtInstant, Domains, NarrowerDomain
<1>4. DuringInterval(d, q) \in Domains /\ NarrowerDomain(DuringInterval(d, q), d)
  BY <1>1, <1>2 DEF DuringInterval, Domains, NarrowerDomain
<1> QED BY <1>3, <1>4 DEF Activated

\* Gecode's propagators of a time point narrow a timeline.
LEMMA RowNarrows ==
  ASSUME NEW r \in Roles, NEW t \in Times, dom[r] \in Domains
  PROVE  /\ RowNarrowed(r, t) \in Domains
         /\ NarrowerDomain(RowNarrowed(r, t), dom[r])
<1>1. \A x \in Points :
        /\ Needed(dom[r][x]) \in View /\ Narrower(Needed(dom[r][x]), dom[r][x])
        /\ Emptied(dom[r][x]) \in View /\ Narrower(Emptied(dom[r][x]), dom[r][x])
        /\ dom[r][x] \in View /\ Narrower(dom[r][x], dom[r][x])
  BY NeededNarrows, EmptiedNarrows, NarrowerOrders DEF Domains
<1> QED BY <1>1 DEF RowNarrowed, Domains, NarrowerDomain

\* A move narrows a timeline.
LEMMA MoveNarrows ==
  ASSUME NEW d \in Domains, NEW x \in Points, NEW n \in Locs
  PROVE  /\ MoveNarrowed(d, x, n) \in Domains
         /\ NarrowerDomain(MoveNarrowed(d, x, n), d)
<1>1. \A y \in Points :
        /\ Clamped(d[y], {x[2]}) \in View /\ Narrower(Clamped(d[y], {x[2]}), d[y])
        /\ Emptied(d[y]) \in View /\ Narrower(Emptied(d[y]), d[y])
        /\ d[y] \in View /\ Narrower(d[y], d[y])
  BY ClampedNarrows, EmptiedNarrows, NarrowerOrders DEF Domains
<1> QED BY <1>1 DEF MoveNarrowed, Domains, NarrowerDomain

\* The exclusion of a target narrows a timeline.
LEMMA ExclusionNarrows ==
  ASSUME NEW d \in Domains, NEW t, NEW l \in Locs
  PROVE  /\ TargetExcluded(d, t, l) \in Domains
         /\ NarrowerDomain(TargetExcluded(d, t, l), d)
<1>1. \A y \in Points :
        /\ Clamped(d[y], Locs \ {l}) \in View
        /\ Narrower(Clamped(d[y], Locs \ {l}), d[y])
        /\ d[y] \in View /\ Narrower(d[y], d[y])
  BY ClampedNarrows, NarrowerOrders DEF Domains
<1> QED BY <1>1 DEF TargetExcluded, Domains, NarrowerDomain

(***************************************************************************)
(* Type correctness.                                                       *)
(***************************************************************************)
\* The demands are typed.
LEMMA DemandsTyped ==
  ASSUME demands \in DemandSets
  PROVE  requirements \in Seq(Requirement) /\ access \in Seq(Access) /\ mobile \subseteq Roles
BY DemandAssumption DEF Demand, requirements, access, mobile

\* Last is a number, and the time points end with it.
LEMMA TimesEnd == Last \in Nat /\ Last > 0 /\ Times = 0..Last
BY SizeAssumption DEF Last, Times

\* The variables start in their types.
LEMMA InitTyped == Init => TypeOK
<1> SUFFICES ASSUME Init PROVE TypeOK
  OBVIOUS
<1>1. requirements \in Seq(Requirement)
  BY DemandsTyped DEF Init
<1>2. \A x \in Points : BaseView(x[1]) \in View
  BY DEF BaseView, View
<1>3. dom \in [Roles -> [Points -> View]]
  BY <1>2 DEF Init
<1>4. posted \in 0..Len(requirements)
  BY <1>1 DEF Init
<1> QED BY <1>3, <1>4 DEF Init, TypeOK

\* Narrowing a timeline, and advising the propagators of it, keeps the types.
LEMMA NarrowTyped ==
  ASSUME TypeOK, NEW r \in Roles, NEW new \in Domains, NEW kept \in SUBSET Points,
         Narrow(r, new, kept), UNCHANGED demands
  PROVE  /\ dom' \in [Roles -> [Points -> View]]
         /\ queue' \in [Roles -> SUBSET Points]
         /\ rowsDue' \in [DOMAIN access -> SUBSET Times]
         /\ accessDue' \subseteq DOMAIN access
<1>1. Fresh(r, new) \subseteq Points
  BY DEF Fresh
<1>2. \A a \in DOMAIN access : RowsAdvised(a, r, new) \subseteq Times
  BY DEF RowsAdvised, CompleteRows
<1>3. dom' \in [Roles -> [Points -> View]]
  BY DEF Narrow, TypeOK, Domains
<1>4. queue' \in [Roles -> SUBSET Points]
  BY <1>1 DEF Narrow, TypeOK
<1>5. rowsDue' \in [DOMAIN access -> SUBSET Times]
  BY <1>2 DEF Narrow, TypeOK
<1>6. accessDue' \subseteq DOMAIN access
  BY DEF Narrow, TypeOK
<1> QED BY <1>3, <1>4, <1>5, <1>6

\* Every step keeps the types.
LEMMA StepTyped == TypeOK /\ [Next]_vars => TypeOK'
<1> SUFFICES ASSUME TypeOK, [Next]_vars PROVE TypeOK'
  OBVIOUS
<1> USE DEF requirements, access
<1>0. /\ \A r \in Roles : dom[r] \in Domains
      /\ \A r \in Roles : queue[r] \in SUBSET Points
  BY DEF TypeOK, Domains
<1>a. FailSpace => TypeOK'
  BY DEF FailSpace, TypeOK
<1>1. CASE FailWithoutRoles
  BY <1>1 DEF FailWithoutRoles, TypeOK
<1>2. CASE PostRequirement
  <2>1. posted + 1 \in 1..Len(requirements) /\ posted' = posted + 1
    BY <1>2, DemandsTyped DEF PostRequirement, TypeOK
  <2>2. requirements[posted + 1] \in Requirement
    BY <2>1, DemandsTyped DEF TypeOK
  <2>3. \A r \in Roles : Activated(dom[r], requirements[posted + 1]) \in [Points -> View]
    BY <1>0, <2>2, ActivatedNarrows DEF Domains
  <2>4. dom' \in [Roles -> [Points -> View]]
    BY <1>2, <2>3 DEF PostRequirement, TypeOK
  <2> QED BY <1>2, <2>1, <2>4 DEF PostRequirement, TypeOK
<1>3. CASE PostPropagators
  BY <1>3 DEF PostPropagators, TypeOK
<1>4. ASSUME NEW r \in Roles, NEW t \in Times, PropagateRow(r, t) PROVE TypeOK'
  <2>1. CASE RowFails(r, t)
    BY <1>4, <1>a, <2>1 DEF PropagateRow
  <2>2. CASE ~RowFails(r, t)
    BY <1>0, <1>4, <2>2, RowNarrows, NarrowTyped DEF PropagateRow, TypeOK
  <2> QED BY <2>1, <2>2
<1>5. ASSUME NEW r \in Roles, NEW x \in Points, SkipHandled(r, x) PROVE TypeOK'
  BY <1>5 DEF SkipHandled, TypeOK
<1>6. ASSUME NEW r \in Roles, NEW x \in Points, HandleMove(r, x) PROVE TypeOK'
  <2>1. PICK n \in Locs :
          IF MoveFails(dom[r], x, n) THEN FailSpace
          ELSE /\ Narrow(r, MoveNarrowed(dom[r], x, n), queue[r] \ {x})
               /\ waypoint' = [waypoint EXCEPT ![r][x[1]] = x[2]]
               /\ running' = {r}
               /\ UNCHANGED <<demands, phase, posted, rowsCounted>>
    BY <1>6 DEF HandleMove
  <2>2. CASE FailSpace
    BY <1>a, <2>2
  <2>3. CASE Narrow(r, MoveNarrowed(dom[r], x, n), queue[r] \ {x}) /\ ~MoveFails(dom[r], x, n)
    <3>1. queue[r] \ {x} \in SUBSET Points /\ x[1] \in Times /\ x[2] \in Locs
      BY <1>0 DEF Points
    <3>2. waypoint' \in [Roles -> [Times -> Locs \cup {Nowhere}]]
      <4>1. waypoint' = [waypoint EXCEPT ![r] = [waypoint[r] EXCEPT ![x[1]] = x[2]]]
        BY <2>1, <2>3
      <4>2. [waypoint[r] EXCEPT ![x[1]] = x[2]] \in [Times -> Locs \cup {Nowhere}]
        BY <3>1 DEF TypeOK
      <4> QED BY <4>1, <4>2 DEF TypeOK
    <3> QED BY <1>0, <2>1, <2>3, <3>1, <3>2, MoveNarrows, NarrowTyped DEF TypeOK
  <2> QED BY <2>1, <2>2, <2>3
<1>7. ASSUME NEW r \in Roles, NEW x \in Points, HandleEmpty(r, x) PROVE TypeOK'
  <2>1. x[2] \in Locs /\ queue[r] \ {x} \in SUBSET Points
    BY <1>0 DEF Points
  <2> DEFINE new == IF Excludes(x) THEN TargetExcluded(dom[r], x[1] - 1, x[2]) ELSE dom[r]
  <2>2. new \in Domains
    BY <1>0, <2>1, ExclusionNarrows
  <2> QED BY <1>7, <2>1, <2>2, NarrowTyped DEF HandleEmpty, TypeOK
<1>8. ASSUME NEW r \in Roles, IsPathDone(r) PROVE TypeOK'
  BY <1>8, <1>a DEF IsPathDone, TypeOK
<1>9. ASSUME NEW a \in DOMAIN access, RestrictInEdges(a) PROVE TypeOK'
  <2> DEFINE counted == rowsCounted[a] \cup rowsDue[a]
  <2>1. CASE FailSpace
    BY <1>a, <2>1
  <2>2. CASE ~FailSpace
    <3>1. counted \in SUBSET Times
      BY DEF TypeOK
    <3> QED BY <1>9, <2>2, <3>1 DEF RestrictInEdges, TypeOK
  <2> QED BY <2>1, <2>2
<1>10. ASSUME NEW r \in Roles, NEW x \in Points, NEW n \in Locs, Branch(r, x, n) PROVE TypeOK'
  <2>1. Without(r, x, n) \in Domains /\ With(r, x, n) \in Domains
    BY <1>0 DEF Without, With, Domains, View
  <2> QED BY <1>10, <2>1, NarrowTyped DEF Branch, TypeOK
<1>11. CASE Solve
  BY <1>11 DEF Solve, TypeOK
<1>12. CASE UNCHANGED vars
  BY <1>12 DEF vars, TypeOK
<1> QED
  BY <1>1, <1>2, <1>3, <1>4, <1>5, <1>6, <1>7, <1>8, <1>9, <1>10, <1>11, <1>12
  DEF Next, Posting, Propagate, PropagatePath, Decide

\* For any demands the search for timelines stays in its types.
THEOREM TypeCorrect == Spec => []TypeOK
BY InitTyped, StepTyped, PTL DEF Spec

(***************************************************************************)
(* The queue of IsPath: it holds assigned variables only, and a variable   *)
(* with a move is forgotten only once its time point is handled.  At the   *)
(* last time point there is no edge.                                       *)
(***************************************************************************)
QueueAssigned == \A r \in Roles : \A x \in queue[r] : Assigned(dom[r][x])

MovesSeen ==
  phase = "search" =>
    \A r \in Active, x \in Points :
      Assigned(dom[r][x]) /\ dom[r][x].targets # {} =>
        x \in queue[r] \/ waypoint[r][x[1]] # Nowhere

NothingQueued == phase = "posting" => \A r \in Roles : queue[r] = {}

NoEdgeAtEnd ==
  \A r \in Roles, x \in Points :
    x[1] = Last => dom[r][x].targets = {} /\ ~dom[r][x].needed

PathInv == QueueAssigned /\ MovesSeen /\ NothingQueued /\ NoEdgeAtEnd

\* Narrowing a timeline keeps the queue assigned, and sees the new moves.
LEMMA NarrowSees ==
  ASSUME TypeOK, PathInv, NEW r \in Roles, NEW new \in Domains, NEW kept \in SUBSET queue[r],
         NarrowerDomain(new, dom[r]), Narrow(r, new, kept), UNCHANGED demands,
         phase = "search", UNCHANGED phase, waypoint' \in [Roles -> [Times -> Locs \cup {Nowhere}]],
         \A s \in Roles, t \in Times : waypoint[s][t] # Nowhere => waypoint'[s][t] # Nowhere,
         \A x \in queue[r] \ kept :
           dom[r][x].targets # {} => waypoint'[r][x[1]] # Nowhere
  PROVE  PathInv'
<1>1. /\ dom' = [dom EXCEPT ![r] = new]
      /\ queue' = [queue EXCEPT ![r] = kept \cup Fresh(r, new)]
  BY DEF Narrow
<1>2. \A s \in Roles \ {r} : dom'[s] = dom[s] /\ queue'[s] = queue[s]
  BY <1>1 DEF TypeOK
<1>3. dom'[r] = new /\ queue'[r] = kept \cup Fresh(r, new)
  BY <1>1 DEF TypeOK
<1>4. QueueAssigned'
  <2>1. \A x \in queue'[r] : Assigned(new[x])
    <3>1. ASSUME NEW x \in kept PROVE Assigned(new[x])
      BY <3>1 DEF PathInv, QueueAssigned, NarrowerDomain, Narrower, TypeOK
    <3> QED BY <1>3, <3>1 DEF Fresh
  <2>2. \A s \in Roles \ {r} : \A x \in queue'[s] : Assigned(dom'[s][x])
    BY <1>2 DEF PathInv, QueueAssigned
  <2> QED BY <1>3, <2>1, <2>2 DEF QueueAssigned
<1>5. MovesSeen'
  <2> SUFFICES ASSUME NEW s \in Active, NEW x \in Points,
                      Assigned(dom'[s][x]), dom'[s][x].targets # {}
               PROVE  x \in queue'[s] \/ waypoint'[s][x[1]] # Nowhere
    BY DEF MovesSeen, Active, RequirementsOf, requirements
  <2>1. s \in Roles /\ x[1] \in Times
    BY DEF Active, Points
  <2>2. CASE s # r
    BY <1>2, <2>1, <2>2 DEF PathInv, MovesSeen
  <2>3. CASE s = r
    <3>1. CASE Assigned(dom[r][x])
      <4>1. dom[r][x].targets # {}
        BY <1>3, <2>3 DEF NarrowerDomain, Narrower
      <4>2. x \in queue[r] \/ waypoint[r][x[1]] # Nowhere
        BY <2>3, <3>1, <4>1 DEF PathInv, MovesSeen
      <4> QED BY <1>3, <2>1, <2>3, <4>1, <4>2
    <3>2. CASE ~Assigned(dom[r][x])
      BY <1>3, <2>3, <3>2 DEF Fresh
    <3> QED BY <3>1, <3>2
  <2> QED BY <2>2, <2>3
<1>6. NothingQueued'
  BY DEF NothingQueued
<1>7. NoEdgeAtEnd'
  <2>1. \A x \in Points : x[1] = Last => new[x].targets = {} /\ ~new[x].needed
    BY DEF PathInv, NoEdgeAtEnd, NarrowerDomain, Narrower
  <2> QED BY <1>2, <1>3, <2>1 DEF PathInv, NoEdgeAtEnd
<1> QED BY <1>4, <1>5, <1>6, <1>7 DEF PathInv

\* A branching narrows one variable that is not assigned.
LEMMA BranchNarrows ==
  ASSUME TypeOK, NEW r \in Roles, NEW x \in Points, NEW n \in dom[r][x].targets,
         ~Assigned(dom[r][x])
  PROVE  /\ Without(r, x, n) \in Domains /\ NarrowerDomain(Without(r, x, n), dom[r])
         /\ With(r, x, n) \in Domains /\ NarrowerDomain(With(r, x, n), dom[r])
<1>1. dom[r] \in [Points -> View] /\ dom[r][x] \in View /\ n \in Locs
  BY DEF TypeOK, View
<1>2. \A y \in Points : Narrower(dom[r][y], dom[r][y])
  BY NarrowerOrders
<1>3. Without(r, x, n) \in Domains /\ With(r, x, n) \in Domains
  BY <1>1 DEF Without, With, Domains, View
<1>4. Narrower(Without(r, x, n)[x], dom[r][x])
  <2>1. Without(r, x, n)[x] = [dom[r][x] EXCEPT !.targets = dom[r][x].targets \ {n}]
    BY <1>1 DEF Without
  <2>2. dom[r][x].needed => dom[r][x].targets \ {n} # {}
    BY <1>1 DEF Assigned, View
  <2> QED BY <1>1, <2>1, <2>2 DEF Narrower, View
<1>5. Narrower(With(r, x, n)[x], dom[r][x])
  BY <1>1 DEF With, Narrower, View
<1>6. \A y \in Points \ {x} : Without(r, x, n)[y] = dom[r][y] /\ With(r, x, n)[y] = dom[r][y]
  BY <1>1 DEF Without, With
<1> QED BY <1>2, <1>3, <1>4, <1>5, <1>6 DEF NarrowerDomain

\* Every step keeps the invariant of the queue.
LEMMA StepSees == TypeOK /\ TypeOK' /\ PathInv /\ [Next]_vars => PathInv'
<1> SUFFICES ASSUME TypeOK, TypeOK', PathInv, [Next]_vars PROVE PathInv'
  OBVIOUS
<1>0. \A r \in Roles : dom[r] \in Domains /\ NarrowerDomain(dom[r], dom[r])
  BY NarrowerOrders DEF TypeOK, Domains, NarrowerDomain
<1>a. FailSpace => PathInv'
  BY DEF FailSpace, PathInv, QueueAssigned, MovesSeen, NothingQueued, NoEdgeAtEnd
<1>b. ASSUME UNCHANGED <<demands, dom, queue, waypoint>>,
             phase' \in {"search", "posting"} => UNCHANGED phase
      PROVE  PathInv'
  BY <1>b DEF PathInv, QueueAssigned, MovesSeen, NothingQueued, NoEdgeAtEnd,
              Active, RequirementsOf, requirements
<1>1. CASE FailWithoutRoles
  BY <1>1, <1>b DEF FailWithoutRoles
<1>2. CASE PostRequirement
  <2> DEFINE q == requirements[posted + 1]
  <2>1. q \in Requirement
    BY <1>2, DemandsTyped DEF PostRequirement, TypeOK
  <2>2. \A r \in Roles : dom'[r] \in {Activated(dom[r], q), dom[r]}
    BY <1>2 DEF PostRequirement
  <2>3. \A r \in Roles : NarrowerDomain(dom'[r], dom[r])
    BY <1>0, <2>1, <2>2, ActivatedNarrows
  <2>4. NoEdgeAtEnd'
    BY <2>3 DEF PathInv, NoEdgeAtEnd, NarrowerDomain, Narrower
  <2> QED BY <1>2, <2>4 DEF PostRequirement, PathInv, QueueAssigned, MovesSeen, NothingQueued
<1>3. CASE PostPropagators
  BY <1>3 DEF PostPropagators, PathInv, QueueAssigned, MovesSeen, NothingQueued, NoEdgeAtEnd,
              Active, RequirementsOf,
              requirements, TypeOK
<1>4. ASSUME NEW r \in Roles, NEW t \in Times, PropagateRow(r, t) PROVE PathInv'
  <2>1. CASE RowFails(r, t)
    BY <1>4, <1>a, <2>1 DEF PropagateRow
  <2>2. CASE ~RowFails(r, t)
    BY <1>0, <1>4, <2>2, RowNarrows, NarrowSees DEF PropagateRow, TypeOK
  <2> QED BY <2>1, <2>2
<1>5. ASSUME NEW r \in Roles, NEW x \in Points, SkipHandled(r, x) PROVE PathInv'
  BY <1>5 DEF SkipHandled, PathInv, QueueAssigned, MovesSeen, NothingQueued, NoEdgeAtEnd,
              Active, RequirementsOf,
              requirements, TypeOK
<1>6. ASSUME NEW r \in Roles, NEW x \in Points, HandleMove(r, x) PROVE PathInv'
  <2>1. PICK n \in Locs :
          IF MoveFails(dom[r], x, n) THEN FailSpace
          ELSE /\ Narrow(r, MoveNarrowed(dom[r], x, n), queue[r] \ {x})
               /\ waypoint' = [waypoint EXCEPT ![r][x[1]] = x[2]]
               /\ running' = {r}
               /\ UNCHANGED <<demands, phase, posted, rowsCounted>>
    BY <1>6 DEF HandleMove
  <2>2. CASE FailSpace
    BY <1>a, <2>2
  <2>3. CASE Narrow(r, MoveNarrowed(dom[r], x, n), queue[r] \ {x}) /\ ~MoveFails(dom[r], x, n)
    <3>1. x[1] \in Times /\ x[2] \in Locs /\ x[2] # Nowhere
      BY SizeAssumption DEF Points, Locs, Nowhere
    <3>2. waypoint' = [waypoint EXCEPT ![r] = [waypoint[r] EXCEPT ![x[1]] = x[2]]]
      BY <2>1, <2>3
    <3>3. /\ waypoint'[r][x[1]] = x[2]
          /\ \A s \in Roles, t \in Times :
               waypoint[s][t] # Nowhere => waypoint'[s][t] # Nowhere
      BY <3>1, <3>2 DEF TypeOK
    <3>4. phase = "search" /\ UNCHANGED <<demands, phase>>
      BY <1>6, <2>1, <2>3 DEF HandleMove, IsPathRuns
    <3>5. /\ MoveNarrowed(dom[r], x, n) \in Domains
          /\ NarrowerDomain(MoveNarrowed(dom[r], x, n), dom[r])
      BY <1>0, MoveNarrows
    <3>6. \A y \in queue[r] \ (queue[r] \ {x}) : waypoint'[r][y[1]] # Nowhere
      BY <3>1, <3>3
    <3>7. waypoint' \in [Roles -> [Times -> Locs \cup {Nowhere}]]
      BY DEF TypeOK
    <3> QED BY <2>3, <3>3, <3>4, <3>5, <3>6, <3>7, NarrowSees
  <2> QED BY <2>1, <2>2, <2>3
<1>7. ASSUME NEW r \in Roles, NEW x \in Points, HandleEmpty(r, x) PROVE PathInv'
  <2> DEFINE new == IF Excludes(x) THEN TargetExcluded(dom[r], x[1] - 1, x[2]) ELSE dom[r]
  <2>1. new \in Domains /\ NarrowerDomain(new, dom[r])
    BY <1>0, ExclusionNarrows DEF Points
  <2>2. phase = "search" /\ UNCHANGED <<demands, phase, waypoint>> /\ Narrow(r, new, queue[r] \ {x})
    BY <1>7 DEF HandleEmpty, IsPathRuns
  <2>3. \A y \in queue[r] \ (queue[r] \ {x}) : dom[r][y].targets = {}
    BY <1>7 DEF HandleEmpty
  <2> HIDE DEF new
  <2> QED BY <2>1, <2>2, <2>3, NarrowSees DEF TypeOK
<1>8. ASSUME NEW r \in Roles, IsPathDone(r) PROVE PathInv'
  BY <1>8, <1>a, <1>b DEF IsPathDone
<1>9. ASSUME NEW a \in DOMAIN access, RestrictInEdges(a) PROVE PathInv'
  BY <1>9, <1>a, <1>b DEF RestrictInEdges
<1>10. ASSUME NEW r \in Roles, NEW x \in Points, NEW n \in Locs, Branch(r, x, n) PROVE PathInv'
  <2>1. /\ phase = "search" /\ UNCHANGED <<demands, phase, waypoint>> /\ queue[r] = {}
        /\ ~Assigned(dom[r][x]) /\ n \in dom[r][x].targets
    BY <1>10 DEF Branch, Quiet
  <2>2. /\ Without(r, x, n) \in Domains /\ NarrowerDomain(Without(r, x, n), dom[r])
        /\ With(r, x, n) \in Domains /\ NarrowerDomain(With(r, x, n), dom[r])
    BY <2>1, BranchNarrows
  <2>3. Narrow(r, Without(r, x, n), {}) \/ Narrow(r, With(r, x, n), {})
    BY <1>10 DEF Branch
  <2> QED BY <2>1, <2>2, <2>3, NarrowSees DEF TypeOK
<1>11. CASE Solve
  BY <1>11, <1>b DEF Solve
<1>12. CASE UNCHANGED vars
  BY <1>12, <1>b DEF vars
<1> QED
  BY <1>1, <1>2, <1>3, <1>4, <1>5, <1>6, <1>7, <1>8, <1>9, <1>10, <1>11, <1>12
  DEF Next, Posting, Propagate, PropagatePath, Decide

\* The invariant holds in every state.
LEMMA PathInvariance == Spec => []PathInv
<1>1. ASSUME Init PROVE PathInv
  <2>1. /\ phase = "posting" /\ queue = [r \in Roles |-> {}]
        /\ dom = [r \in Roles |-> [x \in Points |-> BaseView(x[1])]]
    BY <1>1 DEF Init
  <2>2. QueueAssigned /\ MovesSeen /\ NothingQueued
    BY <2>1 DEF QueueAssigned, MovesSeen, NothingQueued
  <2>3. ~(Last < Last)
    BY TimesEnd
  <2>4. BaseView(Last) = [targets |-> {}, needed |-> FALSE]
    BY ONLY <2>3 DEF BaseView
  <2>5. NoEdgeAtEnd
    BY <2>1, <2>4 DEF NoEdgeAtEnd
  <2> QED BY <2>2, <2>5 DEF PathInv
<1> QED BY <1>1, StepSees, TypeCorrect, PTL DEF Spec

(***************************************************************************)
(* Propagation keeps paths.                                                *)
(***************************************************************************)
\* The edges of a path.
LEMMA PathEdges ==
  ASSUME NEW p \in Paths, NEW t \in 0..(Last - 1)
  PROVE  /\ p[t] \in Locs /\ p[t + 1] \in Locs
         /\ \A l \in Locs : <<t, l>> \in Points
BY TimesEnd DEF Paths, Points

\* A narrower timeline admits no more paths.
LEMMA NarrowerAdmitsLess ==
  ASSUME NEW d \in Domains, NEW new \in Domains, NarrowerDomain(new, d), NEW p \in Paths,
         Admits(new, p)
  PROVE  Admits(d, p)
<1> SUFFICES ASSUME NEW t \in 0..(Last - 1)
             PROVE  /\ p[t + 1] \in d[<<t, p[t]>>].targets
                    /\ \A l \in Locs \ {p[t]} : ~d[<<t, l>>].needed
  BY DEF Admits
<1>1. \A l \in Locs : Narrower(new[<<t, l>>], d[<<t, l>>])
  BY PathEdges DEF NarrowerDomain
<1>2. p[t + 1] \in new[<<t, p[t]>>].targets /\ \A l \in Locs \ {p[t]} : ~new[<<t, l>>].needed
  BY DEF Admits
<1>3. p[t + 1] \in d[<<t, p[t]>>].targets
  BY <1>1, <1>2, PathEdges DEF Narrower
<1>4. \A l \in Locs \ {p[t]} : d[<<t, l>>].needed => new[<<t, l>>].needed
  BY <1>1 DEF Narrower
<1> QED BY <1>2, <1>3, <1>4

\* Gecode's propagators of a time point fail only without a path, and keep
\* the paths.
LEMMA RowKeepsPaths ==
  ASSUME NEW r \in Roles, NEW t \in 0..(Last - 1), dom[r] \in Domains, NEW p \in Paths,
         Admits(dom[r], p)
  PROVE  ~RowFails(r, t) /\ Admits(RowNarrowed(r, t), p)
<1> DEFINE new == RowNarrowed(r, t)
<1>1. \A u \in 0..(Last - 1) :
        /\ p[u + 1] \in dom[r][<<u, p[u]>>].targets
        /\ \A l \in Locs \ {p[u]} : ~dom[r][<<u, l>>].needed
  BY DEF Admits
<1>2. p[t] \in OpenAt(r, t) /\ NeededAt(r, t) \subseteq {p[t]}
  BY <1>1, PathEdges DEF OpenAt, NeededAt
<1>3. ~RowFails(r, t)
  BY <1>2 DEF RowFails
<1>4. ASSUME NEW u \in 0..(Last - 1)
      PROVE  /\ p[u + 1] \in new[<<u, p[u]>>].targets
             /\ \A l \in Locs \ {p[u]} : ~new[<<u, l>>].needed
  <2>0. /\ p[u] \in Locs
        /\ \A l \in Locs : <<u, l>> \in Points /\ dom[r][<<u, l>>] \in View
    BY PathEdges DEF Domains
  <2>1. CASE u # t
    <3>1. \A l \in Locs : new[<<u, l>>] = dom[r][<<u, l>>]
      BY <2>0, <2>1 DEF RowNarrowed
    <3> QED BY <1>1, <2>0, <3>1
  <2>2. CASE u = t
    <3>1. new[<<u, p[u]>>].targets = dom[r][<<u, p[u]>>].targets
      <4>1. CASE OpenAt(r, t) = {p[t]}
        BY <2>0, <2>2, <4>1, NeededNarrows DEF RowNarrowed
      <4>2. CASE OpenAt(r, t) # {p[t]} /\ NeededAt(r, t) # {}
        <5>1. dom[r][<<u, p[u]>>].needed
          BY <1>2, <2>2, <4>2 DEF NeededAt
        <5> QED BY <2>0, <2>2, <4>2, <5>1, EmptiedNarrows DEF RowNarrowed
      <4>3. CASE OpenAt(r, t) # {p[t]} /\ NeededAt(r, t) = {}
        BY <2>0, <2>2, <4>3 DEF RowNarrowed
      <4> QED BY <4>1, <4>2, <4>3
    <3>2. ASSUME NEW l \in Locs \ {p[u]} PROVE ~new[<<u, l>>].needed
      <4>1. OpenAt(r, t) # {l}
        BY <1>2, <2>2
      <4>2. new[<<u, l>>] \in {Emptied(dom[r][<<u, l>>]), dom[r][<<u, l>>]}
        BY <2>0, <2>2, <4>1 DEF RowNarrowed
      <4> QED BY <1>1, <2>0, <4>2, EmptiedNarrows
    <3> QED BY <1>1, <3>1, <3>2
  <2> QED BY <2>1, <2>2
<1> QED BY <1>3, <1>4 DEF Admits

\* A needed variable with one target is an edge of every path.
LEMMA NeededIsOnPath ==
  ASSUME NEW d \in Domains, NEW x \in Points, NEW n \in Locs, NEW p \in Paths, Admits(d, p),
         x[1] < Last, d[x].needed, d[x].targets = {n}
  PROVE  p[x[1]] = x[2] /\ p[x[1] + 1] = n
<1>1. x[1] \in 0..(Last - 1) /\ x[2] \in Locs /\ x = <<x[1], x[2]>>
  BY TimesEnd DEF Points
<1>2. p[x[1] + 1] \in d[<<x[1], p[x[1]]>>].targets
  BY <1>1 DEF Admits
<1>3. x[2] = p[x[1]]
  BY <1>1 DEF Admits
<1> QED BY <1>1, <1>2, <1>3

\* A move that every path makes fails only without a path, and keeps them.
LEMMA MoveKeepsPaths ==
  ASSUME NEW d \in Domains, NEW x \in Points, NEW n \in Locs, NEW p \in Paths, Admits(d, p),
         x[1] < Last, d[x].needed, d[x].targets = {n},
         \A y \in Points : y[1] = Last => ~d[y].needed
  PROVE  ~MoveFails(d, x, n) /\ Admits(MoveNarrowed(d, x, n), p)
<1> DEFINE new == MoveNarrowed(d, x, n)
<1>0. x[1] \in 0..(Last - 1) /\ x[2] \in Locs /\ p[x[1]] = x[2] /\ p[x[1] + 1] = n
  BY NeededIsOnPath, TimesEnd DEF Points
<1>1. \A u \in 0..(Last - 1) :
        /\ p[u] \in Locs /\ p[u + 1] \in d[<<u, p[u]>>].targets
        /\ \A l \in Locs \ {p[u]} : ~d[<<u, l>>].needed
  BY PathEdges DEF Admits
<1>2. ASSUME NEW y \in Points
      PROVE  /\ y[1] \in Times /\ y[2] \in Locs /\ y = <<y[1], y[2]>>
             /\ y[1] # Last => y[1] \in 0..(Last - 1)
  BY TimesEnd DEF Points
<1>3. ASSUME NEW y \in Clamps(x)
      PROVE  y \in Points /\ y[1] \in 0..(Last - 1) /\ y[1] + 1 = x[1]
  BY <1>0, <1>2 DEF Clamps
<1>4. ASSUME NEW y \in Empties(x, n)
      PROVE  y \in Points /\ ~d[y].needed /\ (y[1] # Last => y[2] # p[y[1]])
  <2>1. y \in Points /\ (y[1] # Last => y[2] # p[y[1]])
    BY <1>0 DEF Empties
  <2>2. CASE y[1] = Last
    BY <2>1, <2>2
  <2>3. CASE y[1] # Last
    BY <1>1, <1>2, <2>1, <2>3
  <2> QED BY <2>1, <2>2, <2>3
<1>5. ~MoveFails(d, x, n)
  <2>1. ASSUME NEW y \in Clamps(x), CannotClamp(d[y], {x[2]}) PROVE FALSE
    <3>1. d[y].needed /\ x[2] \notin d[y].targets
      BY <2>1 DEF CannotClamp
    <3>2. y[2] = p[y[1]] /\ y = <<y[1], y[2]>>
      BY <1>1, <1>2, <1>3, <3>1
    <3> QED BY <1>0, <1>1, <1>3, <3>1, <3>2
  <2>2. \A y \in Empties(x, n) : ~CannotEmpty(d[y])
    BY <1>4 DEF CannotEmpty
  <2> QED BY <2>1, <2>2 DEF MoveFails
<1>6. ASSUME NEW u \in 0..(Last - 1)
      PROVE  /\ p[u + 1] \in new[<<u, p[u]>>].targets
             /\ \A l \in Locs \ {p[u]} : ~new[<<u, l>>].needed
  <2>0. \A l \in Locs : <<u, l>> \in Points /\ d[<<u, l>>] \in View
    BY PathEdges DEF Domains
  <2>1. \A l \in Locs : new[<<u, l>>].needed = d[<<u, l>>].needed
    <3>1. ASSUME NEW l \in Locs
          PROVE  new[<<u, l>>] \in {Clamped(d[<<u, l>>], {x[2]}), Emptied(d[<<u, l>>]), d[<<u, l>>]}
      BY <2>0 DEF MoveNarrowed
    <3> QED BY <2>0, <3>1, ClampedNarrows, EmptiedNarrows
  <2>2. p[u + 1] \in new[<<u, p[u]>>].targets
    <3> DEFINE y == <<u, p[u]>>
    <3>0. y \in Points /\ p[u] \in Locs /\ p[u + 1] \in d[y].targets /\ u # Last
      BY <1>1, <2>0, TimesEnd
    <3>1. y \notin Empties(x, n)
      BY <1>4, <3>0
    <3>2. CASE y \in Clamps(x)
      <4>1. p[u + 1] = x[2]
        BY <1>0, <1>3, <3>2
      <4>2. new[y] = Clamped(d[y], {x[2]})
        BY <3>0, <3>2 DEF MoveNarrowed
      <4> QED BY <2>0, <3>0, <4>1, <4>2, ClampedNarrows
    <3>3. CASE y \notin Clamps(x)
      <4>1. new[y] = d[y]
        BY <3>0, <3>1, <3>3 DEF MoveNarrowed
      <4> QED BY <3>0, <4>1
    <3> QED BY <3>2, <3>3
  <2> QED BY <1>1, <2>1, <2>2
<1> QED BY <1>5, <1>6 DEF Admits

\* No path moves to a location that has no move; so excluding it keeps them.
LEMMA ExclusionKeepsPaths ==
  ASSUME NEW d \in Domains, NEW x \in Points, NEW p \in Paths, Admits(d, p),
         d[x].targets = {}, Excludes(x)
  PROVE  Admits(TargetExcluded(d, x[1] - 1, x[2]), p)
<1> DEFINE new == TargetExcluded(d, x[1] - 1, x[2])
<1>0. x[1] \in 0..(Last - 1) /\ x[2] \in Locs /\ x = <<x[1], x[2]>>
  BY TimesEnd DEF Points, Excludes
<1>1. p[x[1]] # x[2]
  BY <1>0 DEF Admits
<1>2. ASSUME NEW u \in 0..(Last - 1)
      PROVE  /\ p[u + 1] \in new[<<u, p[u]>>].targets
             /\ \A l \in Locs \ {p[u]} : ~new[<<u, l>>].needed
  <2>0. /\ \A l \in Locs : <<u, l>> \in Points /\ d[<<u, l>>] \in View
        /\ p[u] \in Locs /\ p[u + 1] \in Locs /\ p[u + 1] \in d[<<u, p[u]>>].targets
        /\ \A l \in Locs \ {p[u]} : ~d[<<u, l>>].needed
    BY PathEdges DEF Domains, Admits
  <2>1. ASSUME NEW l \in Locs
        PROVE  \/ new[<<u, l>>] = d[<<u, l>>]
               \/ u = x[1] - 1 /\ new[<<u, l>>] = Clamped(d[<<u, l>>], Locs \ {x[2]})
    BY <2>0 DEF TargetExcluded
  <2>2. \A l \in Locs : new[<<u, l>>].needed = d[<<u, l>>].needed
    BY <2>0, <2>1, ClampedNarrows
  <2>3. u = x[1] - 1 => p[u + 1] \in Locs \ {x[2]}
    BY <1>0, <1>1, <2>0
  <2>4. p[u + 1] \in new[<<u, p[u]>>].targets
    BY <2>0, <2>1, <2>3, ClampedNarrows
  <2> QED BY <2>0, <2>2, <2>4
<1> QED BY <1>2 DEF Admits

\* A timeline that is narrowed to one with the same paths admits the same.
LEMMA SamePaths ==
  ASSUME TypeOK, NEW r \in Roles, NEW new \in Domains, NarrowerDomain(new, dom[r]),
         dom' = [dom EXCEPT ![r] = new],
         \A p \in Paths : Admits(dom[r], p) => Admits(new, p)
  PROVE  AdmittedPaths(r)' = AdmittedPaths(r)
<1>1. dom'[r] = new /\ dom[r] \in Domains
  BY DEF TypeOK, Domains
<1>2. \A p \in Paths : Admits(new, p) <=> Admits(dom[r], p)
  BY <1>1, NarrowerAdmitsLess
<1>3. AdmittedPaths(r)' = {p \in Paths : Admits(new, p)}
  BY <1>1 DEF AdmittedPaths, Admits
<1> QED BY <1>2, <1>3 DEF AdmittedPaths

\* A gap in the waypoints of an assigned timeline without a queue leaves no
\* path.
LEMMA GapLeavesNoPath ==
  ASSUME TypeOK, PathInv, NEW r \in Active, phase = "search", queue[r] = {},
         \A x \in Points : Assigned(dom[r][x]), ~ValidWaypoints(waypoint[r])
  PROVE  AdmittedPaths(r) = {}
<1> SUFFICES ASSUME NEW p \in Paths, Admits(dom[r], p) PROVE FALSE
  BY DEF AdmittedPaths
<1>1. PICK t1, t2, t3 \in Times : t1 < t2 /\ t2 < t3 /\ waypoint[r][t2] = Nowhere
  BY DEF ValidWaypoints
<1>2. t2 \in 0..(Last - 1)
  BY <1>1, TimesEnd
<1> DEFINE x == <<t2, p[t2]>>
<1>3. x \in Points /\ dom[r][x].targets # {}
  BY <1>2, PathEdges DEF Admits
<1>4. x \in queue[r] \/ waypoint[r][x[1]] # Nowhere
  BY <1>3 DEF PathInv, MovesSeen
<1> QED BY <1>1, <1>4

\* One step of propagation on a timeline keeps its paths, or fails without any.
LEMMA StepKeepsPaths ==
  ASSUME TypeOK, PathInv, NEW r \in Roles, PropagatePath(r)
  PROVE  /\ AdmittedPaths(r)' = AdmittedPaths(r)
         /\ phase' = "failed" => AdmittedPaths(r) = {}
<1>0. dom[r] \in Domains /\ NarrowerDomain(dom[r], dom[r])
  BY NarrowerOrders DEF TypeOK, Domains, NarrowerDomain
<1>a. FailSpace => AdmittedPaths(r)' = AdmittedPaths(r)
  BY DEF FailSpace, AdmittedPaths, Admits
<1>1. ASSUME NEW t \in Times, PropagateRow(r, t)
      PROVE  /\ AdmittedPaths(r)' = AdmittedPaths(r)
             /\ phase' = "failed" => AdmittedPaths(r) = {}
  <2>1. t \in 0..(Last - 1) /\ phase = "search"
    BY <1>1, TimesEnd DEF PropagateRow
  <2>2. \A p \in Paths : Admits(dom[r], p) => ~RowFails(r, t) /\ Admits(RowNarrowed(r, t), p)
    BY <1>0, <2>1, RowKeepsPaths
  <2>3. CASE RowFails(r, t)
    <3>1. AdmittedPaths(r) = {}
      BY <2>2, <2>3 DEF AdmittedPaths
    <3> QED BY <1>1, <1>a, <2>3, <3>1 DEF PropagateRow
  <2>4. CASE ~RowFails(r, t)
    <3>1. UNCHANGED phase /\ dom' = [dom EXCEPT ![r] = RowNarrowed(r, t)]
      BY <1>1, <2>4 DEF PropagateRow, Narrow
    <3>2. RowNarrowed(r, t) \in Domains /\ NarrowerDomain(RowNarrowed(r, t), dom[r])
      BY <1>0, RowNarrows
    <3> QED BY <2>1, <2>2, <3>1, <3>2, SamePaths
  <2> QED BY <2>3, <2>4
<1>2. ASSUME NEW x \in Points, SkipHandled(r, x)
      PROVE  /\ AdmittedPaths(r)' = AdmittedPaths(r)
             /\ phase' = "failed" => AdmittedPaths(r) = {}
  BY <1>2 DEF SkipHandled, IsPathRuns, AdmittedPaths, Admits
<1>3. ASSUME NEW x \in Points, HandleMove(r, x)
      PROVE  /\ AdmittedPaths(r)' = AdmittedPaths(r)
             /\ phase' = "failed" => AdmittedPaths(r) = {}
  <2>1. PICK n \in Locs :
          /\ dom[r][x].targets = {n}
          /\ \/ MoveFails(dom[r], x, n) /\ FailSpace
             \/ /\ ~MoveFails(dom[r], x, n) /\ UNCHANGED phase
                /\ dom' = [dom EXCEPT ![r] = MoveNarrowed(dom[r], x, n)]
    BY <1>3 DEF HandleMove, Narrow
  <2>2. phase = "search" /\ Assigned(dom[r][x])
    BY <1>3 DEF HandleMove, IsPathRuns, PathInv, QueueAssigned
  <2>3. dom[r][x].needed
    BY <2>1, <2>2 DEF Assigned
  <2>4. x[1] < Last
    BY <2>1, TimesEnd DEF PathInv, NoEdgeAtEnd, Points
  <2>5. \A y \in Points : y[1] = Last => ~dom[r][y].needed
    BY DEF PathInv, NoEdgeAtEnd
  <2>6. \A p \in Paths : Admits(dom[r], p) =>
          ~MoveFails(dom[r], x, n) /\ Admits(MoveNarrowed(dom[r], x, n), p)
    BY <1>0, <2>1, <2>3, <2>4, <2>5, MoveKeepsPaths
  <2>7. CASE MoveFails(dom[r], x, n)
    <3>1. AdmittedPaths(r) = {}
      BY <2>6, <2>7 DEF AdmittedPaths
    <3> QED BY <1>a, <2>1, <2>7, <3>1
  <2>8. CASE ~MoveFails(dom[r], x, n)
    <3>1. /\ MoveNarrowed(dom[r], x, n) \in Domains
          /\ NarrowerDomain(MoveNarrowed(dom[r], x, n), dom[r])
      BY <1>0, MoveNarrows
    <3> QED BY <2>1, <2>2, <2>6, <2>8, <3>1, SamePaths
  <2> QED BY <2>7, <2>8
<1>4. ASSUME NEW x \in Points, HandleEmpty(r, x)
      PROVE  /\ AdmittedPaths(r)' = AdmittedPaths(r)
             /\ phase' = "failed" => AdmittedPaths(r) = {}
  <2> DEFINE new == IF Excludes(x) THEN TargetExcluded(dom[r], x[1] - 1, x[2]) ELSE dom[r]
  <2>1. /\ phase = "search" /\ UNCHANGED phase /\ dom[r][x].targets = {}
        /\ dom' = [dom EXCEPT ![r] = new]
    BY <1>4 DEF HandleEmpty, IsPathRuns, Narrow
  <2>2. new \in Domains /\ NarrowerDomain(new, dom[r])
    BY <1>0, ExclusionNarrows DEF Points
  <2>3. \A p \in Paths : Admits(dom[r], p) => Admits(new, p)
    BY <1>0, <2>1, ExclusionKeepsPaths
  <2> HIDE DEF new
  <2> QED BY <2>1, <2>2, <2>3, SamePaths
<1>5. ASSUME IsPathDone(r)
      PROVE  /\ AdmittedPaths(r)' = AdmittedPaths(r)
             /\ phase' = "failed" => AdmittedPaths(r) = {}
  <2>1. phase = "search" /\ r \in Active /\ queue[r] = {}
    BY <1>5 DEF IsPathDone, IsPathRuns
  <2>2. CASE (\A x \in Points : Assigned(dom[r][x])) /\ ~ValidWaypoints(waypoint[r])
    <3>1. FailSpace
      BY <1>5, <2>2 DEF IsPathDone
    <3> QED BY <1>a, <2>1, <2>2, <3>1, GapLeavesNoPath
  <2>3. CASE ~((\A x \in Points : Assigned(dom[r][x])) /\ ~ValidWaypoints(waypoint[r]))
    <3>1. UNCHANGED <<phase, dom>>
      BY <1>5, <2>3 DEF IsPathDone
    <3> QED BY <2>1, <3>1 DEF AdmittedPaths, Admits
  <2> QED BY <2>2, <2>3
<1> QED BY <1>1, <1>2, <1>3, <1>4, <1>5 DEF PropagatePath

\* For any number of time points, locations and roles, in any order of the
\* propagators, no propagation on a timeline takes a path from it, and one
\* that fails the space finds no path left (IsPath::propagate and the
\* cardinality constraints of Gecode).
THEOREM PropagationKeepsPaths == Spec => PathsKept
<1>1. TypeOK /\ PathInv /\ [Next]_vars =>
        [\A r \in Roles : PropagatePath(r) =>
           /\ AdmittedPaths(r)' = AdmittedPaths(r)
           /\ phase' = "failed" => AdmittedPaths(r) = {}]_vars
  BY StepKeepsPaths
<1> QED BY <1>1, TypeCorrect, PathInvariance, PTL DEF Spec, PathsKept

(***************************************************************************)
(* What IsPath leaves behind of the variables that it has handled, as long *)
(* as the search runs: d, w and q are the domains, the waypoints and the   *)
(* queue of a role.                                                        *)
(***************************************************************************)
\* A handled move from k at time t is the only one at its time point; what it
\* leads to is the only place left, and so is its start, if the time point before
\* is told.
HandledAt(d, t, k) ==
  \E m \in Locs :
    /\ d[<<t, k>>].needed /\ d[<<t, k>>].targets = {m}
    /\ \A l \in Locs \ {k} : d[<<t, l>>].targets = {}
    /\ t < Last => \A l \in Locs \ {m} : d[<<t + 1, l>>].targets = {}
    /\ t > 0 /\ PredecessorsTold(<<t, k>>) =>
         \A l \in Locs : d[<<t - 1, l>>].targets \subseteq {k}

\* No edge leads to x, or only one that is needed (and that a row will see fail), or
\* the first time point was not told.
Excluded(d, w, x) ==
  \/ \A k \in Locs : x[2] \notin d[<<x[1] - 1, k>>].targets
  \/ \E k \in Locs : d[<<x[1] - 1, k>>].needed /\ d[<<x[1] - 1, k>>].targets = {x[2]}
  \/ x[1] = 1 /\ w[1] = 0

Clean(d, w, q) ==
  /\ \A x \in Points : d[x].needed => d[x].targets # {}
  /\ \A t \in Times : w[t] # Nowhere => HandledAt(d, t, w[t])
  /\ \A x \in Points : Assigned(d[x]) /\ d[x].targets # {} => x \in q \/ w[x[1]] = x[2]
  /\ \A x \in Points : Excludes(x) /\ d[x].targets = {} => x \in q \/ Excluded(d, w, x)

LEMMA PointFacts ==
  /\ \A x \in Points : x[1] \in Times /\ x[1] \in Int /\ x[2] \in Locs /\ x = <<x[1], x[2]>>
  /\ \A t \in Times, l \in Locs : <<t, l>> \in Points
  /\ \A t \in Times : t < Last => t + 1 \in Times
  /\ \A t \in Times : t > 0 => t - 1 \in Times
BY TimesEnd DEF Points

\* Narrowing keeps what has been handled.
LEMMA NarrowerHandled ==
  ASSUME NEW d \in Domains, NEW new \in Domains, NarrowerDomain(new, d),
         \A x \in Points : d[x].needed => d[x].targets # {},
         NEW t \in Times, NEW k \in Locs, HandledAt(d, t, k)
  PROVE  HandledAt(new, t, k)
<1>1. PICK m \in Locs :
        /\ d[<<t, k>>].needed /\ d[<<t, k>>].targets = {m}
        /\ \A l \in Locs \ {k} : d[<<t, l>>].targets = {}
        /\ t < Last => \A l \in Locs \ {m} : d[<<t + 1, l>>].targets = {}
        /\ t > 0 /\ PredecessorsTold(<<t, k>>) =>
             \A l \in Locs : d[<<t - 1, l>>].targets \subseteq {k}
  BY DEF HandledAt
<1>2. \A x \in Points : /\ new[x].targets \subseteq d[x].targets
                        /\ d[x].needed => new[x].needed /\ new[x].targets # {}
  BY DEF NarrowerDomain, Narrower
<1>3. new[<<t, k>>].needed /\ new[<<t, k>>].targets = {m}
  BY <1>1, <1>2, PointFacts
<1>4. \A l \in Locs \ {k} : new[<<t, l>>].targets = {}
  BY <1>1, <1>2, PointFacts
<1>5. t < Last => \A l \in Locs \ {m} : new[<<t + 1, l>>].targets = {}
  BY <1>1, <1>2, PointFacts
<1>6. t > 0 /\ PredecessorsTold(<<t, k>>) =>
        \A l \in Locs : new[<<t - 1, l>>].targets \subseteq {k}
  <2> SUFFICES ASSUME t > 0, PredecessorsTold(<<t, k>>), NEW l \in Locs
               PROVE  new[<<t - 1, l>>].targets \subseteq {k}
    OBVIOUS
  <2>1. <<t - 1, l>> \in Points
    BY PointFacts
  <2>2. d[<<t - 1, l>>].targets \subseteq {k}
    BY <1>1
  <2> QED BY <1>2, <2>1, <2>2
<1> QED BY <1>3, <1>4, <1>5, <1>6 DEF HandledAt

LEMMA NarrowerExcluded ==
  ASSUME NEW d \in Domains, NEW new \in Domains, NarrowerDomain(new, d),
         \A x \in Points : d[x].needed => d[x].targets # {},
         NEW w, NEW v, \A t \in Times : w[t] # Nowhere => v[t] = w[t],
         NEW x \in Points, Excludes(x), Excluded(d, w, x)
  PROVE  Excluded(new, v, x)
<1>1. \A y \in Points : /\ new[y].targets \subseteq d[y].targets
                        /\ d[y].needed => new[y].needed /\ new[y].targets # {}
  BY DEF NarrowerDomain, Narrower
<1>2. \A k \in Locs : <<x[1] - 1, k>> \in Points
  BY PointFacts DEF Excludes
<1>3. CASE \A k \in Locs : x[2] \notin d[<<x[1] - 1, k>>].targets
  BY <1>1, <1>2, <1>3 DEF Excluded
<1>4. CASE \E k \in Locs : d[<<x[1] - 1, k>>].needed /\ d[<<x[1] - 1, k>>].targets = {x[2]}
  <2>1. PICK k \in Locs : d[<<x[1] - 1, k>>].needed /\ d[<<x[1] - 1, k>>].targets = {x[2]}
    BY <1>4
  <2>2. PICK y : y = <<x[1] - 1, k>>
    OBVIOUS
  <2>3. y \in Points /\ d[y].needed /\ d[y].targets = {x[2]}
    BY <1>2, <2>1, <2>2
  <2>4. new[y].needed /\ new[y].targets = {x[2]}
    BY <1>1, <2>3
  <2> QED BY <2>2, <2>4 DEF Excluded
<1>5. CASE x[1] = 1 /\ w[1] = 0
  <2>1. 1 \in Times /\ w[1] # Nowhere
    BY <1>5, PointFacts DEF Nowhere
  <2> QED BY <1>5, <2>1 DEF Excluded
<1> QED BY <1>3, <1>4, <1>5 DEF Excluded

\* Narrowing a timeline keeps it clean, if what leaves the queue has been handled.
LEMMA NarrowClean ==
  ASSUME NEW d \in Domains, NEW new \in Domains, NarrowerDomain(new, d),
         NEW w, NEW v, NEW q, NEW kept,
         Clean(d, w, q),
         \A t \in Times : w[t] # Nowhere => v[t] = w[t],
         \A t \in Times : w[t] = Nowhere /\ v[t] # Nowhere => HandledAt(new, t, v[t]),
         w \in [Times -> Locs \cup {Nowhere}],
         \A x \in q \ kept : /\ d[x].targets # {} => v[x[1]] = x[2]
                             /\ Excludes(x) /\ d[x].targets = {} => Excluded(new, v, x),
         NEW fresh, fresh = {x \in Points : Assigned(new[x]) /\ ~Assigned(d[x])}
  PROVE  Clean(new, v, kept \cup fresh)
<1>1. \A x \in Points : d[x].needed => d[x].targets # {}
  BY DEF Clean
<1>2. \A x \in Points : new[x].needed => new[x].targets # {}
  BY <1>1 DEF NarrowerDomain, Narrower
<1>3. ASSUME NEW t \in Times, v[t] # Nowhere PROVE HandledAt(new, t, v[t])
  <2>1. CASE w[t] # Nowhere
    <3>1. v[t] = w[t] /\ w[t] \in Locs /\ HandledAt(d, t, w[t])
      BY <2>1 DEF Clean
    <3> QED BY <1>1, <3>1, NarrowerHandled
  <2> QED BY <1>3, <2>1
<1>4. ASSUME NEW x \in Points, Assigned(new[x]), new[x].targets # {}
      PROVE  x \in kept \cup fresh \/ v[x[1]] = x[2]
  <2>1. CASE ~Assigned(d[x])
    BY <1>4, <2>1
  <2>2. CASE Assigned(d[x])
    <3>1. d[x].targets # {}
      BY <1>4 DEF NarrowerDomain, Narrower
    <3>2. x \in q \/ w[x[1]] = x[2]
      BY <2>2, <3>1 DEF Clean
    <3>3. w[x[1]] = x[2] => v[x[1]] = x[2]
      BY PointFacts, SizeAssumption DEF Nowhere, Locs
    <3> QED BY <3>1, <3>2, <3>3
  <2> QED BY <2>1, <2>2
<1>5. ASSUME NEW x \in Points, Excludes(x), new[x].targets = {}
      PROVE  x \in kept \cup fresh \/ Excluded(new, v, x)
  <2>1. Assigned(new[x])
    BY <1>5 DEF Assigned
  <2>2. CASE ~Assigned(d[x])
    BY <2>1, <2>2
  <2>3. CASE Assigned(d[x])
    <3>1. d[x].targets = {}
      <4>1. SUFFICES ASSUME d[x].targets # {} PROVE FALSE
        OBVIOUS
      <4>2. d[x].needed
        BY <2>3, <4>1 DEF Assigned
      <4> QED BY <1>2, <1>5, <4>2 DEF NarrowerDomain, Narrower
    <3>2. x \in q \/ Excluded(d, w, x)
      BY <1>5, <3>1 DEF Clean
    <3>3. Excluded(d, w, x) => Excluded(new, v, x)
      BY <1>1, <1>5, NarrowerExcluded
    <3> QED BY <1>5, <3>1, <3>2, <3>3
  <2> QED BY <2>2, <2>3
<1> QED BY <1>2, <1>3, <1>4, <1>5 DEF Clean

CleanInv ==
  /\ \A r \in Roles : \A x \in Points : dom[r][x].needed => dom[r][x].targets # {}
  /\ phase = "posting" => \A r \in Roles : \A t \in Times : waypoint[r][t] = Nowhere
  /\ phase = "search" => \A r \in Active : Clean(dom[r], waypoint[r], queue[r])

\* Narrowing one timeline does not touch the others.
LEMMA NarrowKeepsClean ==
  ASSUME TypeOK, CleanInv, phase = "search", phase' = phase, demands' = demands,
         NEW r \in Active, NEW new \in Domains, NarrowerDomain(new, dom[r]),
         NEW kept, Narrow(r, new, kept),
         \A s \in Roles \ {r} : waypoint'[s] = waypoint[s],
         \A t \in Times : waypoint[r][t] # Nowhere => waypoint'[r][t] = waypoint[r][t],
         \A t \in Times :
           waypoint[r][t] = Nowhere /\ waypoint'[r][t] # Nowhere =>
             HandledAt(new, t, waypoint'[r][t]),
         \A x \in queue[r] \ kept :
           /\ dom[r][x].targets # {} => waypoint'[r][x[1]] = x[2]
           /\ Excludes(x) /\ dom[r][x].targets = {} => Excluded(new, waypoint'[r], x)
  PROVE  CleanInv'
<1>1. r \in Roles /\ Active' = Active
  BY DEF Active, RequirementsOf, requirements
<1>2. dom' = [dom EXCEPT ![r] = new] /\ queue' = [queue EXCEPT ![r] = kept \cup Fresh(r, new)]
  BY DEF Narrow
<1>3. \A s \in Roles \ {r} : dom'[s] = dom[s] /\ queue'[s] = queue[s] /\ waypoint'[s] = waypoint[s]
  BY <1>1, <1>2 DEF TypeOK
<1>4. dom'[r] = new /\ queue'[r] = kept \cup Fresh(r, new)
  BY <1>1, <1>2 DEF TypeOK
<1>5. Clean(dom[r], waypoint[r], queue[r])
  BY DEF CleanInv
<1>6. dom[r] \in Domains /\ waypoint[r] \in [Times -> Locs \cup {Nowhere}]
  BY <1>1 DEF TypeOK, Domains
<1>7. Clean(new, waypoint'[r], kept \cup Fresh(r, new))
  <2>1. PICK fresh : fresh = {x \in Points : Assigned(new[x]) /\ ~Assigned(dom[r][x])}
    OBVIOUS
  <2>2. Clean(new, waypoint'[r], kept \cup fresh)
    BY <1>5, <1>6, <2>1, NarrowClean
  <2> QED BY <2>1, <2>2 DEF Fresh
<1>8. ASSUME NEW s \in Roles, NEW x \in Points, dom'[s][x].needed PROVE dom'[s][x].targets # {}
  <2>1. CASE s = r
    BY <1>4, <1>7, <1>8, <2>1 DEF Clean
  <2>2. CASE s # r
    BY <1>3, <1>8, <2>2 DEF CleanInv
  <2> QED BY <2>1, <2>2
<1>9. ASSUME NEW s \in Active PROVE Clean(dom'[s], waypoint'[s], queue'[s])
  <2>1. CASE s = r
    BY <1>4, <1>7, <2>1
  <2>2. CASE s # r
    <3>1. s \in Roles
      BY DEF Active
    <3> QED BY <1>3, <2>2, <3>1 DEF CleanInv
  <2> QED BY <2>1, <2>2
<1> QED BY <1>1, <1>8, <1>9 DEF CleanInv

\* A point whose predecessors are not told is at time point 1 and location 0.
LEMMA NotTold ==
  ASSUME NEW t \in Times, t > 0, NEW k \in Locs, ~PredecessorsTold(<<t, k>>)
  PROVE  t = 1 /\ k = 0
<1>1. t \in Int /\ k \in Int /\ 0 <= k /\ NumLocs \in Nat /\ NumLocs > 0
  BY SizeAssumption, TimesEnd DEF Locs
<1>2. ~((t - 1) * NumLocs + k > 0)
  BY DEF PredecessorsTold
<1>3. t - 1 \in Nat
  BY <1>1
<1>4. (t - 1) * NumLocs >= 0
  BY <1>1, <1>3
<1>5. t - 1 > 0 => (t - 1) * NumLocs > 0
  BY <1>1, <1>3
<1>6. (t - 1) * NumLocs \in Int
  BY <1>1, <1>3
<1> QED BY <1>1, <1>2, <1>4, <1>5, <1>6

\* A move that is handled leaves its time point clean.
LEMMA MoveCleans ==
  ASSUME NEW d \in Domains, NEW x \in Points, NEW n \in Locs,
         d[x].targets = {n}, d[x].needed, ~MoveFails(d, x, n)
  PROVE  HandledAt(MoveNarrowed(d, x, n), x[1], x[2])
<1> DEFINE new == MoveNarrowed(d, x, n)
<1>1. x = <<x[1], x[2]>> /\ x[1] \in Times /\ x[1] \in Int /\ x[2] \in Locs
  BY PointFacts
<1>2. \A y \in Points : new[y] = IF y \in Clamps(x) THEN Clamped(d[y], {x[2]})
                                 ELSE IF y \in Empties(x, n) THEN Emptied(d[y]) ELSE d[y]
  BY DEF MoveNarrowed
<1>3. \A y \in Clamps(x) : y \in Points /\ y[1] = x[1] - 1 /\ ~CannotClamp(d[y], {x[2]})
  BY DEF Clamps, MoveFails
<1>4. \A y \in Empties(x, n) : y \in Points /\ ~CannotEmpty(d[y])
  BY DEF Empties, MoveFails
<1>5. \A y \in Points : d[y] \in View
  BY DEF Domains
<1>6. ASSUME NEW y \in Empties(x, n), y \notin Clamps(x) PROVE new[y].targets = {}
  <2>1. new[y] = Emptied(d[y])
    BY <1>2, <1>4, <1>6
  <2>2. Emptied(d[y]) = [d[y] EXCEPT !.targets = {}]
    BY <1>4 DEF Emptied
  <2> QED BY <1>4, <1>5, <2>1, <2>2 DEF View
<1>7. ASSUME NEW y \in Clamps(x) PROVE new[y].targets \subseteq {x[2]}
  <2>1. new[y] = Clamped(d[y], {x[2]})
    BY <1>2, <1>3
  <2>2. Clamped(d[y], {x[2]}) = [d[y] EXCEPT !.targets = d[y].targets \cap {x[2]}]
    BY <1>3 DEF Clamped
  <2> QED BY <1>3, <1>5, <2>1, <2>2 DEF View
<1>8. x \notin Clamps(x) /\ x \notin Empties(x, n)
  BY <1>1, <1>3 DEF Empties
<1>9. new[x] = d[x]
  BY <1>2, <1>8
<1> HIDE DEF new
<1>10. new[<<x[1], x[2]>>].needed /\ new[<<x[1], x[2]>>].targets = {n}
  BY <1>1, <1>9
<1>11. ASSUME NEW l \in Locs \ {x[2]} PROVE new[<<x[1], l>>].targets = {}
  <2>1. PICK y : y = <<x[1], l>>
    OBVIOUS
  <2>2. y \in Points /\ y[1] = x[1] /\ y[2] # x[2]
    BY <1>1, <2>1, PointFacts
  <2>3. y \in Empties(x, n) /\ y \notin Clamps(x)
    BY <1>1, <1>3, <2>2 DEF Empties
  <2> QED BY <1>6, <2>1, <2>3
<1>12. ASSUME x[1] < Last, NEW l \in Locs \ {n} PROVE new[<<x[1] + 1, l>>].targets = {}
  <2>1. PICK y : y = <<x[1] + 1, l>>
    OBVIOUS
  <2>2. y \in Points /\ y[1] = x[1] + 1 /\ y[2] # n
    BY <1>1, <1>12, <2>1, PointFacts
  <2>3. y \in Empties(x, n) /\ y \notin Clamps(x)
    BY <1>1, <1>3, <2>2 DEF Empties
  <2> QED BY <1>6, <2>1, <2>3
<1>13. ASSUME x[1] > 0, PredecessorsTold(<<x[1], x[2]>>), NEW l \in Locs
       PROVE  new[<<x[1] - 1, l>>].targets \subseteq {x[2]}
  <2>1. PICK y : y = <<x[1] - 1, l>>
    OBVIOUS
  <2>2. y \in Points /\ y[1] = x[1] - 1
    BY <1>1, <1>13, <2>1, PointFacts
  <2>3. y \in Clamps(x)
    BY <1>1, <1>13, <2>2 DEF Clamps
  <2> QED BY <1>7, <2>1, <2>3
<1>14. HandledAt(new, x[1], x[2])
  BY <1>10, <1>11, <1>12, <1>13 DEF HandledAt
<1> QED BY <1>14 DEF new

\* A variable that is emptied at a time point whose move is handled is excluded.
LEMMA HandledExcludes ==
  ASSUME NEW d, NEW w, NEW x \in Points, Excludes(x), w[x[1]] \in Locs, HandledAt(d, x[1], w[x[1]]),
         d[x].targets = {}
  PROVE  Excluded(d, w, x)
<1>1. x = <<x[1], x[2]>> /\ x[1] \in Times /\ x[1] \in Int /\ x[2] \in Locs /\ x[1] > 0
  BY PointFacts DEF Excludes
<1>2. x[2] # w[x[1]]
  BY <1>1 DEF HandledAt
<1>3. CASE PredecessorsTold(<<x[1], w[x[1]]>>)
  <2>1. \A l \in Locs : d[<<x[1] - 1, l>>].targets \subseteq {w[x[1]]}
    BY <1>1, <1>3 DEF HandledAt
  <2> QED BY <1>2, <2>1 DEF Excluded
<1>4. CASE ~PredecessorsTold(<<x[1], w[x[1]]>>)
  <2>1. x[1] = 1 /\ w[x[1]] = 0
    BY <1>1, <1>4, NotTold
  <2> QED BY <2>1 DEF Excluded
<1> QED BY <1>3, <1>4

\* The exclusion of an empty variable leaves no edge to it, or a needed one.
LEMMA ExclusionExcludes ==
  ASSUME NEW d \in Domains, NEW w, NEW x \in Points, Excludes(x),
         \A y \in Points : d[y].needed => d[y].targets # {}
  PROVE  Excluded(TargetExcluded(d, x[1] - 1, x[2]), w, x)
<1> DEFINE new == TargetExcluded(d, x[1] - 1, x[2])
           t == x[1] - 1
           l == x[2]
<1>1. \A k \in Locs : <<t, k>> \in Points /\ <<t, k>>[1] = t /\ <<t, k>>[2] = k
  BY PointFacts DEF Excludes
<1>2. \A y \in Points : new[y] = IF y[1] = t /\ \A k \in 0..y[2] : ~CannotExclude(d[<<t, k>>], l)
                                   THEN Clamped(d[y], Locs \ {l}) ELSE d[y]
  BY DEF TargetExcluded
<1>3. \A y \in Points : d[y] \in View
  BY DEF Domains
<1>4. \A k \in Locs : 0..k \subseteq Locs /\ k \in 0..k
  BY SizeAssumption DEF Locs
<1>5. CASE \A k \in Locs : ~CannotExclude(d[<<t, k>>], l)
  <2>1. ASSUME NEW k \in Locs PROVE l \notin new[<<t, k>>].targets
    <3>1. PICK y : y = <<t, k>>
      OBVIOUS
    <3>2. y \in Points /\ y[1] = t /\ y[2] = k
      BY <1>1, <3>1
    <3>3. new[y] = Clamped(d[y], Locs \ {l})
      BY <1>2, <1>4, <1>5, <3>2
    <3>4. ~CannotClamp(d[y], Locs \ {l})
      BY <1>5, <3>1 DEF CannotExclude
    <3>5. new[y].targets = d[y].targets \cap (Locs \ {l})
      BY <1>3, <3>2, <3>3, <3>4 DEF Clamped, View
    <3> QED BY <3>1, <3>5
  <2> QED BY <2>1 DEF Excluded
<1>6. CASE \E k \in Locs : CannotExclude(d[<<t, k>>], l)
  <2>1. PICK k \in Locs : CannotExclude(d[<<t, k>>], l)
    BY <1>6
  <2>2. PICK y : y = <<t, k>>
    OBVIOUS
  <2>3. y \in Points /\ y[1] = t /\ y[2] = k /\ d[y] \in View
    BY <1>1, <1>3, <2>2
  <2>4. d[y].needed /\ d[y].targets \cap (Locs \ {l}) = {} /\ d[y].targets # {}
    BY <2>1, <2>2, <2>3 DEF CannotExclude, CannotClamp
  <2>5. d[y].targets = {l}
    BY <2>3, <2>4 DEF View
  <2>6. new[y] = d[y]
    <3>1. k \in 0..y[2] /\ CannotExclude(d[<<t, k>>], l)
      BY <1>4, <2>1, <2>3
    <3> QED BY <1>2, <2>3, <3>1
  <2> HIDE DEF new
  <2>7. new[<<t, k>>].needed /\ new[<<t, k>>].targets = {l}
    BY <2>2, <2>4, <2>5, <2>6
  <2> QED BY <2>7 DEF Excluded, new
<1> QED BY <1>5, <1>6

\* An entry of the queue whose time point is handled has nothing left to do.
LEMMA SkippedDone ==
  ASSUME TypeOK, PathInv, CleanInv, phase = "search", NEW r \in Active, NEW x \in queue[r],
         waypoint[r][x[1]] # Nowhere
  PROVE  /\ dom[r][x].targets # {} => waypoint[r][x[1]] = x[2]
         /\ Excludes(x) /\ dom[r][x].targets = {} => Excluded(dom[r], waypoint[r], x)
<1>1. r \in Roles /\ x \in Points
  BY DEF Active, TypeOK
<1>2. x = <<x[1], x[2]>> /\ x[1] \in Times /\ x[2] \in Locs
  BY <1>1, PointFacts
<1>3. waypoint[r][x[1]] \in Locs
  BY <1>1, <1>2 DEF TypeOK
<1>4. HandledAt(dom[r], x[1], waypoint[r][x[1]])
  BY <1>2 DEF CleanInv, Clean
<1>5. dom[r][x].targets # {} => waypoint[r][x[1]] = x[2]
  BY <1>2, <1>4 DEF HandledAt
<1> QED BY <1>1, <1>3, <1>4, <1>5, HandledExcludes

\* Every step keeps what IsPath leaves behind.
LEMMA StepClean == TypeOK /\ TypeOK' /\ PathInv /\ CleanInv /\ [Next]_vars => CleanInv'
<1> SUFFICES ASSUME TypeOK, TypeOK', PathInv, CleanInv, [Next]_vars PROVE CleanInv'
  OBVIOUS
<1>0. \A r \in Roles : dom[r] \in Domains /\ NarrowerDomain(dom[r], dom[r])
  BY NarrowerOrders DEF TypeOK, Domains, NarrowerDomain
<1>a. FailSpace => CleanInv'
  BY DEF FailSpace, CleanInv
<1>b. ASSUME UNCHANGED <<demands, dom, queue, waypoint>>,
             phase' \in {"search", "posting"} => UNCHANGED phase
      PROVE  CleanInv'
  BY <1>b DEF CleanInv, Active, RequirementsOf, requirements
<1>1. CASE FailWithoutRoles
  BY <1>1, <1>b DEF FailWithoutRoles
<1>2. CASE PostRequirement
  <2> DEFINE q == requirements[posted + 1]
  <2>1. q \in Requirement
    BY <1>2, DemandsTyped DEF PostRequirement, TypeOK
  <2>2. \A r \in Roles : dom'[r] \in {Activated(dom[r], q), dom[r]}
    BY <1>2 DEF PostRequirement
  <2>3. \A r \in Roles : NarrowerDomain(dom'[r], dom[r])
    BY <1>0, <2>1, <2>2, ActivatedNarrows
  <2>4. \A r \in Roles : \A x \in Points : dom'[r][x].needed => dom'[r][x].targets # {}
    BY <2>3 DEF CleanInv, NarrowerDomain, Narrower
  <2> QED BY <1>2, <2>4 DEF PostRequirement, CleanInv
<1>3. CASE PostPropagators
  <2>1. /\ phase = "posting" /\ UNCHANGED <<demands, dom, waypoint>>
        /\ phase' \in {"failed", "search"}
        /\ queue' = [r \in Roles |-> IF r \in Active THEN {x \in Points : Assigned(dom[r][x])}
                                     ELSE {}]
    BY <1>3 DEF PostPropagators
  <2>2. Active' = Active /\ Active \subseteq Roles
    BY <2>1 DEF Active, RequirementsOf, requirements
  <2>3. ASSUME NEW r \in Active PROVE Clean(dom[r], waypoint[r], queue'[r])
    <3>1. queue'[r] = {x \in Points : Assigned(dom[r][x])}
      BY <2>1, <2>2
    <3>2. \A t \in Times : waypoint[r][t] = Nowhere
      BY <2>1, <2>2 DEF CleanInv
    <3>3. \A x \in Points : dom[r][x].needed => dom[r][x].targets # {}
      BY <2>2 DEF CleanInv
    <3>4. \A x \in Points : dom[r][x].targets = {} => x \in queue'[r]
      BY <3>1 DEF Assigned
    <3>5. \A x \in Points : Assigned(dom[r][x]) => x \in queue'[r]
      BY <3>1
    <3> QED BY <3>2, <3>3, <3>4, <3>5 DEF Clean
  <2> QED BY <2>1, <2>2, <2>3 DEF CleanInv
<1>4. ASSUME NEW r \in Roles, NEW t \in Times, PropagateRow(r, t) PROVE CleanInv'
  <2>1. CASE RowFails(r, t)
    BY <1>4, <1>a, <2>1 DEF PropagateRow
  <2>2. CASE ~RowFails(r, t)
    <3>1. /\ phase = "search" /\ r \in Active /\ UNCHANGED <<demands, phase, waypoint>>
          /\ Narrow(r, RowNarrowed(r, t), queue[r])
      BY <1>4, <2>2 DEF PropagateRow
    <3>2. RowNarrowed(r, t) \in Domains /\ NarrowerDomain(RowNarrowed(r, t), dom[r])
      BY <1>0, RowNarrows
    <3> QED BY <3>1, <3>2, NarrowKeepsClean
  <2> QED BY <2>1, <2>2
<1>5. ASSUME NEW r \in Roles, NEW x \in Points, SkipHandled(r, x) PROVE CleanInv'
  <2>1. /\ phase = "search" /\ r \in Active /\ UNCHANGED <<demands, phase, dom, waypoint>>
        /\ x \in queue[r] /\ waypoint[r][x[1]] # Nowhere
        /\ queue' = [queue EXCEPT ![r] = queue[r] \ {x}]
    BY <1>5 DEF SkipHandled, IsPathRuns
  <2>2. /\ dom[r][x].targets # {} => waypoint[r][x[1]] = x[2]
        /\ Excludes(x) /\ dom[r][x].targets = {} => Excluded(dom[r], waypoint[r], x)
    BY <2>1, SkippedDone
  <2>3. Active' = Active
    BY <2>1 DEF Active, RequirementsOf, requirements
  <2>4. /\ queue'[r] = queue[r] \ {x}
        /\ \A s \in Roles \ {r} : queue'[s] = queue[s]
    BY <2>1 DEF TypeOK
  <2>5. ASSUME NEW s \in Active PROVE Clean(dom[s], waypoint[s], queue'[s])
    <3>1. Clean(dom[s], waypoint[s], queue[s]) /\ s \in Roles
      BY <2>1 DEF CleanInv, Active
    <3>2. CASE s # r
      BY <2>4, <3>1, <3>2
    <3>3. CASE s = r
      BY <2>2, <2>4, <3>1, <3>3 DEF Clean
    <3> QED BY <3>2, <3>3
  <2> QED BY <2>1, <2>3, <2>5 DEF CleanInv
<1>6. ASSUME NEW r \in Roles, NEW x \in Points, HandleMove(r, x) PROVE CleanInv'
  <2>1. PICK n \in Locs :
          /\ dom[r][x].targets = {n}
          /\ IF MoveFails(dom[r], x, n) THEN FailSpace
             ELSE /\ Narrow(r, MoveNarrowed(dom[r], x, n), queue[r] \ {x})
                  /\ waypoint' = [waypoint EXCEPT ![r][x[1]] = x[2]]
                  /\ running' = {r}
                  /\ UNCHANGED <<demands, phase, posted, rowsCounted>>
    BY <1>6 DEF HandleMove
  <2>2. /\ phase = "search" /\ r \in Active /\ x \in queue[r] /\ waypoint[r][x[1]] = Nowhere
        /\ x[1] \in Times
    BY <1>6, PointFacts DEF HandleMove, IsPathRuns
  <2>3. dom[r][x].needed
    BY <2>1, <2>2 DEF PathInv, QueueAssigned, Assigned
  <2>4. CASE MoveFails(dom[r], x, n)
    BY <1>a, <2>1, <2>4
  <2>5. CASE ~MoveFails(dom[r], x, n)
    <3>1. /\ MoveNarrowed(dom[r], x, n) \in Domains
          /\ NarrowerDomain(MoveNarrowed(dom[r], x, n), dom[r])
      BY <1>0, MoveNarrows
    <3>2. HandledAt(MoveNarrowed(dom[r], x, n), x[1], x[2])
      BY <1>0, <2>1, <2>3, <2>5, MoveCleans
    <3>3. waypoint' = [waypoint EXCEPT ![r] = [waypoint[r] EXCEPT ![x[1]] = x[2]]]
      BY <2>1, <2>5
    <3>4. \A s \in Roles \ {r} : waypoint'[s] = waypoint[s]
      BY <3>3 DEF TypeOK
    <3>5. waypoint'[r][x[1]] = x[2] /\ \A t \in Times \ {x[1]} : waypoint'[r][t] = waypoint[r][t]
      BY <2>2, <3>3 DEF TypeOK
    <3>6. \A t \in Times : waypoint[r][t] # Nowhere => waypoint'[r][t] = waypoint[r][t]
      BY <2>2, <3>5
    <3>7. \A t \in Times : waypoint[r][t] = Nowhere /\ waypoint'[r][t] # Nowhere =>
            HandledAt(MoveNarrowed(dom[r], x, n), t, waypoint'[r][t])
      BY <3>2, <3>5
    <3>8. \A y \in queue[r] \ (queue[r] \ {x}) :
            dom[r][y].targets # {} /\ waypoint'[r][y[1]] = y[2]
      BY <2>1, <3>5
    <3>9. Narrow(r, MoveNarrowed(dom[r], x, n), queue[r] \ {x}) /\ UNCHANGED <<demands, phase>>
      BY <2>1, <2>5
    <3> QED BY <2>2, <3>1, <3>4, <3>6, <3>7, <3>8, <3>9, NarrowKeepsClean
  <2> QED BY <2>4, <2>5
<1>7. ASSUME NEW r \in Roles, NEW x \in Points, HandleEmpty(r, x) PROVE CleanInv'
  <2> DEFINE new == IF Excludes(x) THEN TargetExcluded(dom[r], x[1] - 1, x[2]) ELSE dom[r]
  <2>1. new \in Domains /\ NarrowerDomain(new, dom[r])
    BY <1>0, ExclusionNarrows DEF Points
  <2>2. /\ phase = "search" /\ r \in Active /\ UNCHANGED <<demands, phase, waypoint>>
        /\ Narrow(r, new, queue[r] \ {x}) /\ dom[r][x].targets = {}
    BY <1>7 DEF HandleEmpty, IsPathRuns
  <2>3. Excludes(x) => Excluded(new, waypoint[r], x)
    BY <1>0, ExclusionExcludes DEF CleanInv
  <2> HIDE DEF new
  <2>4. \A y \in queue[r] \ (queue[r] \ {x}) :
          /\ dom[r][y].targets # {} => waypoint[r][y[1]] = y[2]
          /\ Excludes(y) /\ dom[r][y].targets = {} => Excluded(new, waypoint[r], y)
    BY <2>2, <2>3
  <2> QED BY <2>1, <2>2, <2>4, NarrowKeepsClean
<1>8. ASSUME NEW r \in Roles, IsPathDone(r) PROVE CleanInv'
  BY <1>8, <1>a, <1>b DEF IsPathDone
<1>9. ASSUME NEW a \in DOMAIN access, RestrictInEdges(a) PROVE CleanInv'
  BY <1>9, <1>a, <1>b DEF RestrictInEdges
<1>10. ASSUME NEW r \in Roles, NEW x \in Points, NEW n \in Locs, Branch(r, x, n) PROVE CleanInv'
  <2>1. /\ phase = "search" /\ UNCHANGED <<demands, phase, waypoint>> /\ queue[r] = {}
        /\ r \in Active /\ ~Assigned(dom[r][x]) /\ n \in dom[r][x].targets
    BY <1>10 DEF Branch, Quiet
  <2>2. /\ Without(r, x, n) \in Domains /\ NarrowerDomain(Without(r, x, n), dom[r])
        /\ With(r, x, n) \in Domains /\ NarrowerDomain(With(r, x, n), dom[r])
    BY <2>1, BranchNarrows
  <2>3. ASSUME NEW new \in Domains, NarrowerDomain(new, dom[r]), Narrow(r, new, {})
        PROVE  CleanInv'
    BY <2>1, <2>3, NarrowKeepsClean
  <2>4. Narrow(r, Without(r, x, n), {}) \/ Narrow(r, With(r, x, n), {})
    BY <1>10 DEF Branch
  <2> QED BY <2>2, <2>3, <2>4
<1>11. CASE Solve
  BY <1>11, <1>b DEF Solve
<1>12. CASE UNCHANGED vars
  BY <1>12, <1>b DEF vars
<1> QED
  BY <1>1, <1>2, <1>3, <1>4, <1>5, <1>6, <1>7, <1>8, <1>9, <1>10, <1>11, <1>12
  DEF Next, Posting, Propagate, PropagatePath, Decide

\* The invariant holds in every state.
LEMMA CleanInvariance == Spec => []CleanInv
<1>1. ASSUME Init PROVE CleanInv
  <2>1. /\ phase = "posting" /\ waypoint = [r \in Roles |-> [t \in Times |-> Nowhere]]
        /\ dom = [r \in Roles |-> [x \in Points |-> BaseView(x[1])]]
    BY <1>1 DEF Init
  <2>2. \A r \in Roles, x \in Points : ~dom[r][x].needed
    BY <2>1 DEF BaseView
  <2> QED BY <2>1, <2>2 DEF CleanInv
<1> QED BY <1>1, StepClean, TypeCorrect, PathInvariance, PTL DEF Spec

\* For any number of time points, locations and roles and any order of the
\* propagators and the branchings: when nothing is left to propagate, no edge
\* leads to a time point and location without an edge; IsPath and the
\* propagators of the rows leave no dead end, except that IsPath does not tell
\* the first time point of a move from location 0 at the second.
THEOREM NoEdgeToDeadEnd == Spec => []NoDeadEnds
<1>1. ASSUME TypeOK, CleanInv PROVE NoDeadEnds
  <2> SUFFICES ASSUME phase = "search", Quiet, NEW r \in Active, NEW t \in 0..(Last - 2),
                      NEW l \in Locs, t > 0 \/ waypoint[r][1] # 0,
                      NEW n \in dom[r][<<t, l>>].targets, dom[r][<<t + 1, n>>].targets = {}
               PROVE  FALSE
    BY DEF NoDeadEnds
  <2>1. /\ r \in Roles /\ queue[r] = {}
        /\ \A u \in 0..(Last - 1) : ~RowFails(r, u)
    BY DEF Active, Quiet, RowPending
  <2>2. Clean(dom[r], waypoint[r], {})
    BY <1>1, <2>1 DEF CleanInv
  <2>3. t \in Times /\ t < Last /\ t + 1 \in 0..(Last - 1) /\ t + 1 \in Times /\ t + 1 - 1 = t
    BY TimesEnd
  <2>4. <<t, l>> \in Points /\ dom[r][<<t, l>>] \in View
    BY <1>1, <2>1, <2>3, PointFacts DEF TypeOK
  <2>5. n \in Locs
    BY <2>4 DEF View
  <2>6. PICK x : x = <<t + 1, n>>
    OBVIOUS
  <2>7. x \in Points /\ x[1] = t + 1 /\ x[2] = n /\ Excludes(x) /\ dom[r][x].targets = {}
    BY <2>3, <2>5, <2>6, PointFacts, TimesEnd DEF Excludes
  <2>8. Excluded(dom[r], waypoint[r], x)
    BY <2>2, <2>7 DEF Clean
  <2>9. \/ \A k \in Locs : n \notin dom[r][<<t, k>>].targets
        \/ \E k \in Locs : dom[r][<<t, k>>].needed /\ dom[r][<<t, k>>].targets = {n}
        \/ t + 1 = 1 /\ waypoint[r][1] = 0
    BY <2>3, <2>7, <2>8 DEF Excluded
  <2>10. ~(t + 1 = 1 /\ waypoint[r][1] = 0)
    BY <2>3
  <2>11. ~ \A k \in Locs : n \notin dom[r][<<t, k>>].targets
    OBVIOUS
  <2>12. PICK k \in Locs : dom[r][<<t, k>>].needed /\ dom[r][<<t, k>>].targets = {n}
    BY <2>9, <2>10, <2>11
  <2>13. PICK y : y = <<t, k>>
    OBVIOUS
  <2>14. y \in Points /\ y[1] = t /\ y[2] = k /\ dom[r][y].needed /\ dom[r][y].targets = {n}
    BY <2>3, <2>12, <2>13, PointFacts
  <2>15. Assigned(dom[r][y])
    BY <2>5, <2>14 DEF Assigned
  <2>16. waypoint[r][t] = k
    BY <2>2, <2>14, <2>15 DEF Clean
  <2>17. HandledAt(dom[r], t, k)
    <3>1. k # Nowhere
      BY SizeAssumption DEF Locs, Nowhere
    <3> QED BY <2>2, <2>3, <2>16, <3>1 DEF Clean
  <2>18. \A j \in Locs \ {n} : dom[r][<<t + 1, j>>].targets = {}
    BY <2>3, <2>12, <2>17 DEF HandledAt
  <2>19. OpenAt(r, t + 1) = {}
    BY <2>18 DEF OpenAt
  <2> QED BY <2>1, <2>3, <2>19 DEF RowFails
<1> QED BY <1>1, TypeCorrect, CleanInvariance, PTL

(***************************************************************************)
(* TimelineCSP implements Timelines, as long as no two requirements of a   *)
(* role share a time point: what is posted admits the demanded plans,      *)
(* propagation and restrictions lose none of them, a branching splits      *)
(* them, and a solution is a plan.                                         *)
(***************************************************************************)

\* Every search is for demands that keep the requirements of a role apart.
DemandsApart == \A d \in DemandSets : Apart(d)

\* The abstract specification speaks of the same plans.
LEMMA SameReference ==
  /\ Promise!Paths = Paths
  /\ \A d : Promise!Takers(d) = Takers(d) /\ Promise!Plans(d) = Plans(d)
  /\ \A d, f : /\ Promise!MeetsRequirements(d, f) <=> MeetsRequirements(d, f)
               /\ Promise!RespectsAccess(d, f) <=> RespectsAccess(d, f)
  /\ \A f, r, t, l, n : Promise!Moves(f, r, t, l, n) <=> Moves(f, r, t, l, n)
<1>1. Promise!Paths = Paths
  BY DEF Promise!Paths, Paths, Promise!Times, Times, Promise!Locs, Locs
<1>2. \A d : Promise!Takers(d) = Takers(d)
  BY DEF Promise!Takers, Takers
<1>3. \A d : Promise!Plans(d) = Plans(d)
  BY <1>1, <1>2 DEF Promise!Plans, Plans
<1>4. \A p, q : Promise!Visits(p, q) <=> Visits(p, q)
  BY DEF Promise!Visits, Visits
<1>5. \A d, f : Promise!MeetsRequirements(d, f) <=> MeetsRequirements(d, f)
  BY <1>2, <1>4 DEF Promise!MeetsRequirements, MeetsRequirements
<1>6. \A f, R, l : Promise!Arrivals(f, R, l) = Arrivals(f, R, l)
  BY DEF Promise!Arrivals, Arrivals
<1>7. \A d, f : Promise!RespectsAccess(d, f) <=> RespectsAccess(d, f)
  <2>1. \A S : Promise!Cardinality(S) = Cardinality(S)
    BY DEF Promise!Cardinality, Cardinality
  <2> QED BY <1>2, <1>6, <2>1 DEF Promise!RespectsAccess, RespectsAccess
<1>8. \A f, r, t, l, n : Promise!Moves(f, r, t, l, n) <=> Moves(f, r, t, l, n)
  BY DEF Promise!Moves, Moves
<1> QED BY <1>1, <1>2, <1>3, <1>5, <1>7, <1>8

\* The active roles are those that take part.
LEMMA ActiveTakes == TypeOK => Active = Takers(demands)
<1> SUFFICES ASSUME TypeOK PROVE Active = Takers(demands)
  OBVIOUS
<1>1. requirements = demands.requirements /\ DOMAIN requirements = 1..Len(requirements)
      /\ Len(requirements) \in Nat
  BY DemandsTyped DEF TypeOK, requirements
<1>2. ASSUME NEW r \in Roles
      PROVE  Cardinality(RequirementsOf(r)) > 1 <=>
               \E i, j \in DOMAIN requirements :
                 i # j /\ r \in requirements[i].roles \cap requirements[j].roles
  <2>1. IsFiniteSet(RequirementsOf(r))
    <3>1. IsFiniteSet(1..Len(requirements))
      BY <1>1, FS_Interval
    <3>2. RequirementsOf(r) \in SUBSET (1..Len(requirements))
      BY <1>1 DEF RequirementsOf
    <3> QED BY <3>1, <3>2, FS_Subset
  <2>2. PICK S : S = RequirementsOf(r)
    OBVIOUS
  <2>3. Cardinality(S) \in Nat
    BY <2>1, <2>2, FS_CardinalityType
  <2>4. ASSUME Cardinality(S) > 1 PROVE \E i, j \in S : i # j
    <3>1. S # {}
      BY <2>1, <2>2, <2>4, FS_EmptySet
    <3>2. PICK i \in S : TRUE
      BY <3>1
    <3>3. S # {i}
      BY <2>4, FS_Singleton
    <3> QED BY <3>2, <3>3
  <2>5. ASSUME NEW i \in S, NEW j \in S, i # j PROVE Cardinality(S) > 1
    <3>1. Cardinality(S) # 0
      BY <2>1, <2>2, FS_EmptySet
    <3>2. Cardinality(S) # 1
      <4>1. ~ \E x : S = {x}
        BY <2>5
      <4> QED BY <2>1, <2>2, <4>1, FS_Singleton
    <3> QED BY <2>3, <3>1, <3>2
  <2>6. \A i : i \in S <=> i \in DOMAIN requirements /\ r \in requirements[i].roles
    BY <2>2 DEF RequirementsOf
  <2> QED BY <2>2, <2>4, <2>5, <2>6
<1> QED BY <1>1, <1>2 DEF Active, Takers

(***************************************************************************)
(* What is posted: a timeline admits the paths that visit the requirements *)
(* posted so far, and is open where the others are to come.                *)
(***************************************************************************)
Untouched(d, q) ==
  /\ \A x \in Points : q.from <= x[1] + 1 /\ x[1] <= q.to => ~d[x].needed
  /\ \A x \in Points : q.from <= x[1] /\ x[1] < q.to /\ x[2] = q.loc => q.loc \in d[x].targets

Loops(d) == \A x \in Points : d[x].needed => d[x].targets \subseteq {x[2]}

LEMMA RequirementFacts ==
  ASSUME NEW q \in Requirement
  PROVE  /\ q.loc \in Locs /\ q.from \in Int /\ q.to \in Int
         /\ 0 <= q.from /\ q.from <= q.to /\ q.to <= Last
BY TimesEnd DEF Requirement

\* The tells for an instant: nothing is needed where they empty and clamp.
LEMMA InstantTold ==
  ASSUME NEW d \in Domains, NEW q \in Requirement, q.from = q.to, Untouched(d, q),
         NEW x \in Points
  PROVE  /\ AtInstant(d, q)[x].needed = d[x].needed
         /\ AtInstant(d, q)[x].targets =
              IF x[1] = q.from /\ x[2] # q.loc THEN {}
              ELSE IF x[1] = q.from - 1 THEN d[x].targets \cap {q.loc}
              ELSE d[x].targets
<1>1. /\ d[x] \in View /\ x[1] \in Int /\ q.from \in Int
      /\ q.from <= x[1] + 1 /\ x[1] <= q.to => ~d[x].needed
  BY PointFacts, RequirementFacts DEF Domains, Untouched
<1>2. AtInstant(d, q)[x] =
        IF x[1] = q.from /\ x[2] # q.loc THEN Emptied(d[x])
        ELSE IF x[1] = q.from - 1 THEN Clamped(d[x], {q.loc}) ELSE d[x]
  BY DEF AtInstant
<1>3. ~d[x].needed =>
        /\ Emptied(d[x]) = [d[x] EXCEPT !.targets = {}]
        /\ Clamped(d[x], {q.loc}) = [d[x] EXCEPT !.targets = d[x].targets \cap {q.loc}]
  BY DEF Emptied, CannotEmpty, Clamped, CannotClamp
<1>4. x[1] \in {q.from, q.from - 1} => ~d[x].needed
  BY <1>1
<1> QED BY <1>1, <1>2, <1>3, <1>4 DEF View

\* The tells for an interval.
LEMMA IntervalTold ==
  ASSUME NEW d \in Domains, NEW q \in Requirement, q.from # q.to, Untouched(d, q),
         NEW x \in Points
  PROVE  /\ DuringInterval(d, q)[x].needed <=>
              d[x].needed \/ (x[2] = q.loc /\ q.from <= x[1] /\ x[1] < q.to)
         /\ DuringInterval(d, q)[x].targets =
              IF x[2] = q.loc /\ q.from <= x[1] /\ x[1] < q.to THEN {q.loc}
              ELSE IF x[2] # q.loc /\ q.from < x[1] /\ x[1] <= q.to THEN {}
              ELSE d[x].targets
<1>1. /\ d[x] \in View /\ x[1] \in Int /\ q.from \in Int /\ q.to \in Int
      /\ q.from <= x[1] + 1 /\ x[1] <= q.to => ~d[x].needed
      /\ q.from <= x[1] /\ x[1] < q.to /\ x[2] = q.loc => q.loc \in d[x].targets
  BY PointFacts, RequirementFacts DEF Domains, Untouched
<1>2. DuringInterval(d, q)[x] =
        IF x[2] = q.loc /\ x[1] \in q.from..(q.to - 1) THEN Needed(Clamped(d[x], {q.loc}))
        ELSE IF x[2] # q.loc /\ x[1] \in (q.from + 1)..q.to THEN Emptied(d[x]) ELSE d[x]
  BY DEF DuringInterval
<1>3. CASE x[2] = q.loc /\ q.from <= x[1] /\ x[1] < q.to
  <2>1. ~d[x].needed /\ q.loc \in d[x].targets
    BY <1>1, <1>3
  <2>2. Clamped(d[x], {q.loc}) = [d[x] EXCEPT !.targets = d[x].targets \cap {q.loc}]
    BY <2>1 DEF Clamped, CannotClamp
  <2>3. Clamped(d[x], {q.loc}).targets = {q.loc} /\ Clamped(d[x], {q.loc}) \in View
    BY <1>1, <2>1, <2>2 DEF View
  <2>4. /\ Needed(Clamped(d[x], {q.loc})).targets = {q.loc}
        /\ Needed(Clamped(d[x], {q.loc})).needed = TRUE
    BY <2>3 DEF Needed, View
  <2>5. x[1] \in q.from..(q.to - 1)
    BY <1>1, <1>3
  <2>6. DuringInterval(d, q)[x] = Needed(Clamped(d[x], {q.loc}))
    BY <1>2, <1>3, <2>5
  <2> QED BY <1>3, <2>4, <2>6
<1>4. CASE x[2] # q.loc /\ q.from < x[1] /\ x[1] <= q.to
  <2>1. ~d[x].needed
    BY <1>1, <1>4
  <2>2. Emptied(d[x]) = [d[x] EXCEPT !.targets = {}]
    BY <2>1 DEF Emptied, CannotEmpty
  <2>3. DuringInterval(d, q)[x] = Emptied(d[x])
    BY <1>1, <1>2, <1>4
  <2> QED BY <1>1, <1>4, <2>2, <2>3 DEF View
<1>5. CASE /\ ~(x[2] = q.loc /\ q.from <= x[1] /\ x[1] < q.to)
           /\ ~(x[2] # q.loc /\ q.from < x[1] /\ x[1] <= q.to)
  <2>1. DuringInterval(d, q)[x] = d[x]
    BY <1>1, <1>2, <1>5
  <2> QED BY <1>5, <2>1
<1> QED BY <1>3, <1>4, <1>5

\* A requirement leaves the paths that visit it.
LEMMA ActivatedAdmits ==
  ASSUME NEW d \in Domains, NEW q \in Requirement, Untouched(d, q), NEW p \in Paths
  PROVE  Admits(Activated(d, q), p) <=> Admits(d, p) /\ Visits(p, q)
<1>1. /\ q.loc \in Locs /\ q.from \in Int /\ q.to \in Int
      /\ 0 <= q.from /\ q.from <= q.to /\ q.to <= Last
  BY RequirementFacts
<1>2. Admits(Activated(d, q), p) => Admits(d, p)
  BY ActivatedNarrows, NarrowerAdmitsLess
<1>3. \A t \in 0..(Last - 1), l \in Locs : <<t, l>> \in Points
  BY PathEdges
<1>4. \A t \in 0..(Last - 1) : p[t] \in Locs /\ p[t + 1] \in Locs
  BY PathEdges
<1>5. Last \in Int /\ Last > 0
  BY TimesEnd
<1>6. CASE q.from = q.to
  <2> DEFINE new == AtInstant(d, q)
  <2>1. ASSUME NEW t \in 0..(Last - 1), NEW l \in Locs
        PROVE  /\ new[<<t, l>>].needed = d[<<t, l>>].needed
               /\ new[<<t, l>>].targets =
                    IF t = q.from /\ l # q.loc THEN {}
                    ELSE IF t = q.from - 1 THEN d[<<t, l>>].targets \cap {q.loc}
                    ELSE d[<<t, l>>].targets
    <3>1. PICK x : x = <<t, l>>
      OBVIOUS
    <3>2. x \in Points /\ x[1] = t /\ x[2] = l
      BY <1>3, <3>1
    <3> HIDE DEF new
    <3>3. /\ new[x].needed = d[x].needed
          /\ new[x].targets =
               IF x[1] = q.from /\ x[2] # q.loc THEN {}
               ELSE IF x[1] = q.from - 1 THEN d[x].targets \cap {q.loc}
               ELSE d[x].targets
      BY <1>6, <3>2, InstantTold DEF new
    <3> QED BY <3>1, <3>2, <3>3
  <2>2. Activated(d, q) = new
    BY <1>6 DEF Activated
  <2> HIDE DEF new
  <2>3. ASSUME Admits(new, p) PROVE p[q.from] = q.loc
    <3>1. CASE q.from < Last
      <4>1. q.from \in 0..(Last - 1)
        BY <1>1, <1>5, <3>1
      <4>2. p[q.from + 1] \in new[<<q.from, p[q.from]>>].targets
        BY <2>3, <4>1 DEF Admits
      <4> QED BY <1>4, <2>1, <4>1, <4>2
    <3>2. CASE q.from = Last
      <4>1. Last - 1 \in 0..(Last - 1) /\ Last - 1 # q.from /\ Last - 1 = q.from - 1
            /\ Last - 1 + 1 = q.from
        BY <1>5, <3>2
      <4>2. p[Last - 1 + 1] \in new[<<Last - 1, p[Last - 1]>>].targets
        BY <2>3, <4>1 DEF Admits
      <4>3. p[Last - 1 + 1] \in {q.loc}
        BY <1>4, <2>1, <4>1, <4>2
      <4> QED BY <4>1, <4>3
    <3> QED BY <1>1, <1>5, <1>6, <3>1, <3>2
  <2>4. ASSUME Admits(d, p), p[q.from] = q.loc PROVE Admits(new, p)
    <3>1. ASSUME NEW t \in 0..(Last - 1)
          PROVE  /\ p[t + 1] \in new[<<t, p[t]>>].targets
                 /\ \A l \in Locs \ {p[t]} : ~new[<<t, l>>].needed
      <4>1. /\ p[t + 1] \in d[<<t, p[t]>>].targets
            /\ \A l \in Locs \ {p[t]} : ~d[<<t, l>>].needed
        BY <2>4 DEF Admits
      <4>2. t = q.from => p[t] = q.loc
        BY <2>4
      <4>3. t = q.from - 1 => p[t + 1] = q.loc
        BY <1>1, <2>4
      <4> QED BY <1>4, <2>1, <4>1, <4>2, <4>3
    <3> QED BY <3>1 DEF Admits
  <2>5. Visits(p, q) <=> p[q.from] = q.loc
    BY <1>1, <1>6 DEF Visits
  <2> QED BY <1>2, <2>2, <2>3, <2>4, <2>5
<1>7. CASE q.from # q.to
  <2> DEFINE new == DuringInterval(d, q)
  <2>1. ASSUME NEW t \in 0..(Last - 1), NEW l \in Locs
        PROVE  /\ new[<<t, l>>].needed <=>
                    d[<<t, l>>].needed \/ (l = q.loc /\ q.from <= t /\ t < q.to)
               /\ new[<<t, l>>].targets =
                    IF l = q.loc /\ q.from <= t /\ t < q.to THEN {q.loc}
                    ELSE IF l # q.loc /\ q.from < t /\ t <= q.to THEN {}
                    ELSE d[<<t, l>>].targets
    <3>1. PICK x : x = <<t, l>>
      OBVIOUS
    <3>2. x \in Points /\ x[1] = t /\ x[2] = l
      BY <1>3, <3>1
    <3> HIDE DEF new
    <3>3. /\ new[x].needed <=> d[x].needed \/ (x[2] = q.loc /\ q.from <= x[1] /\ x[1] < q.to)
          /\ new[x].targets =
               IF x[2] = q.loc /\ q.from <= x[1] /\ x[1] < q.to THEN {q.loc}
               ELSE IF x[2] # q.loc /\ q.from < x[1] /\ x[1] <= q.to THEN {}
               ELSE d[x].targets
      BY <1>7, <3>2, IntervalTold DEF new
    <3> QED BY <3>1, <3>2, <3>3
  <2>2. Activated(d, q) = new
    BY <1>7 DEF Activated
  <2> HIDE DEF new
  <2>3. ASSUME Admits(new, p), NEW t \in q.from..q.to PROVE p[t] = q.loc
    <3>1. CASE t < q.to
      <4>1. t \in 0..(Last - 1)
        BY <1>1, <1>5, <3>1
      <4>2. \A l \in Locs \ {p[t]} : ~new[<<t, l>>].needed
        BY <2>3, <4>1 DEF Admits
      <4>3. new[<<t, q.loc>>].needed
        BY <1>1, <2>1, <3>1, <4>1
      <4> QED BY <1>1, <4>2, <4>3
    <3>2. CASE t = q.to
      <4>1. t - 1 \in 0..(Last - 1) /\ q.from <= t - 1 /\ t - 1 < q.to /\ t - 1 + 1 = t
        BY <1>1, <1>5, <1>7, <3>2
      <4>2. /\ p[t - 1 + 1] \in new[<<t - 1, p[t - 1]>>].targets
            /\ \A l \in Locs \ {p[t - 1]} : ~new[<<t - 1, l>>].needed
        BY <2>3, <4>1 DEF Admits
      <4>3. new[<<t - 1, q.loc>>].needed
        BY <1>1, <2>1, <4>1
      <4>4. p[t - 1] = q.loc
        BY <1>1, <4>2, <4>3
      <4>5. new[<<t - 1, q.loc>>].targets = {q.loc}
        BY <1>1, <2>1, <4>1
      <4> QED BY <4>1, <4>2, <4>4, <4>5
    <3> QED BY <1>1, <3>1, <3>2
  <2>4. ASSUME Admits(d, p), \A t \in q.from..q.to : p[t] = q.loc PROVE Admits(new, p)
    <3>1. ASSUME NEW t \in 0..(Last - 1)
          PROVE  /\ p[t + 1] \in new[<<t, p[t]>>].targets
                 /\ \A l \in Locs \ {p[t]} : ~new[<<t, l>>].needed
      <4>1. /\ p[t + 1] \in d[<<t, p[t]>>].targets
            /\ \A l \in Locs \ {p[t]} : ~d[<<t, l>>].needed
        BY <2>4 DEF Admits
      <4>2. q.from <= t /\ t <= q.to => p[t] = q.loc
        BY <1>1, <2>4
      <4>3. q.from <= t /\ t < q.to => p[t + 1] = q.loc
        BY <1>1, <2>4
      <4>4. p[t + 1] \in new[<<t, p[t]>>].targets
        BY <1>1, <1>4, <2>1, <4>1, <4>2, <4>3
      <4>5. \A l \in Locs \ {p[t]} : ~new[<<t, l>>].needed
        BY <1>1, <2>1, <4>1, <4>2
      <4> QED BY <4>4, <4>5
    <3> QED BY <3>1 DEF Admits
  <2> QED BY <1>2, <2>2, <2>3, <2>4 DEF Visits
<1> QED BY <1>6, <1>7

\* A requirement leaves alone what a later one of the role speaks of.
LEMMA StaysUntouched ==
  ASSUME NEW d \in Domains, NEW q \in Requirement, NEW u \in Requirement,
         Untouched(d, q), Untouched(d, u), q.to < u.from \/ u.to < q.from
  PROVE  Untouched(Activated(d, q), u)
<1>1. /\ q.from \in Int /\ q.to \in Int /\ u.from \in Int /\ u.to \in Int
      /\ q.from <= q.to /\ u.from <= u.to
  BY RequirementFacts
<1>2. \A x \in Points : x[1] \in Int
  BY PointFacts
<1>3. CASE q.from = q.to
  <2>1. ASSUME NEW x \in Points
        PROVE  /\ Activated(d, q)[x].needed = d[x].needed
               /\ u.from <= x[1] /\ x[1] < u.to => Activated(d, q)[x].targets = d[x].targets
    <3>1. /\ AtInstant(d, q)[x].needed = d[x].needed
          /\ AtInstant(d, q)[x].targets =
               IF x[1] = q.from /\ x[2] # q.loc THEN {}
               ELSE IF x[1] = q.from - 1 THEN d[x].targets \cap {q.loc}
               ELSE d[x].targets
      BY <1>3, InstantTold
    <3>2. u.from <= x[1] /\ x[1] < u.to => x[1] # q.from /\ x[1] # q.from - 1
      BY <1>1, <1>2, <1>3
    <3> QED BY <1>3, <3>1, <3>2 DEF Activated
  <2> QED BY <2>1 DEF Untouched
<1>4. CASE q.from # q.to
  <2>1. ASSUME NEW x \in Points
        PROVE  /\ u.from <= x[1] + 1 /\ x[1] <= u.to /\ Activated(d, q)[x].needed => d[x].needed
               /\ u.from <= x[1] /\ x[1] < u.to => Activated(d, q)[x].targets = d[x].targets
    <3>1. /\ DuringInterval(d, q)[x].needed <=>
               d[x].needed \/ (x[2] = q.loc /\ q.from <= x[1] /\ x[1] < q.to)
          /\ DuringInterval(d, q)[x].targets =
               IF x[2] = q.loc /\ q.from <= x[1] /\ x[1] < q.to THEN {q.loc}
               ELSE IF x[2] # q.loc /\ q.from < x[1] /\ x[1] <= q.to THEN {}
               ELSE d[x].targets
      BY <1>4, IntervalTold
    <3>2. u.from <= x[1] + 1 /\ x[1] <= u.to => ~(q.from <= x[1] /\ x[1] < q.to)
      BY <1>1, <1>2
    <3>3. u.from <= x[1] /\ x[1] < u.to => ~(q.from < x[1] /\ x[1] <= q.to)
      BY <1>1, <1>2
    <3>4. u.from <= x[1] /\ x[1] < u.to => u.from <= x[1] + 1 /\ x[1] <= u.to
      BY <1>1, <1>2
    <3> QED BY <1>4, <3>1, <3>2, <3>3, <3>4 DEF Activated
  <2> QED BY <2>1 DEF Untouched
<1> QED BY <1>3, <1>4

\* What a requirement needs are stays.
LEMMA ActivatedLoops ==
  ASSUME NEW d \in Domains, NEW q \in Requirement, Untouched(d, q), Loops(d)
  PROVE  Loops(Activated(d, q))
<1> SUFFICES ASSUME NEW x \in Points, Activated(d, q)[x].needed
             PROVE  Activated(d, q)[x].targets \subseteq {x[2]}
  BY DEF Loops
<1>1. d[x].needed => d[x].targets \subseteq {x[2]}
  BY DEF Loops
<1>2. CASE q.from = q.to
  BY <1>1, <1>2, InstantTold DEF Activated
<1>3. CASE q.from # q.to
  <2>1. Activated(d, q) = DuringInterval(d, q)
    BY <1>3 DEF Activated
  <2>2. /\ DuringInterval(d, q)[x].needed <=>
             d[x].needed \/ (x[2] = q.loc /\ q.from <= x[1] /\ x[1] < q.to)
        /\ DuringInterval(d, q)[x].targets =
             IF x[2] = q.loc /\ q.from <= x[1] /\ x[1] < q.to THEN {q.loc}
             ELSE IF x[2] # q.loc /\ q.from < x[1] /\ x[1] <= q.to THEN {}
             ELSE d[x].targets
    BY <1>3, IntervalTold
  <2> QED BY <1>1, <2>1, <2>2
<1> QED BY <1>2, <1>3

PostInv ==
  phase = "posting" =>
    /\ \A r \in Active :
         /\ Loops(dom[r])
         /\ \A p \in Paths :
              Admits(dom[r], p) <=>
                \A i \in 1..posted : r \in requirements[i].roles => Visits(p, requirements[i])
         /\ \A j \in (posted + 1)..Len(requirements) :
              r \in requirements[j].roles => Untouched(dom[r], requirements[j])
    /\ \A a \in DOMAIN access : rowsDue[a] = {} /\ rowsCounted[a] = {}

\* Before anything is posted all paths are admitted.
LEMMA InitPosts == Init => PostInv
<1> SUFFICES ASSUME Init PROVE PostInv
  OBVIOUS
<1>1. /\ dom = [r \in Roles |-> [x \in Points |-> BaseView(x[1])]]
      /\ rowsDue = [a \in DOMAIN access |-> {}] /\ rowsCounted = [a \in DOMAIN access |-> {}]
      /\ posted = 0 /\ demands \in DemandSets
  BY DEF Init
<1>2. requirements \in Seq(Requirement)
  BY <1>1, DemandsTyped
<1>3. ASSUME NEW r \in Active
      PROVE  /\ Loops(dom[r])
             /\ \A p \in Paths : Admits(dom[r], p)
             /\ \A q \in Requirement : Untouched(dom[r], q)
  <2>1. r \in Roles
    BY DEF Active
  <2>2. \A x \in Points : dom[r][x] = BaseView(x[1])
    BY <1>1, <2>1
  <2>3. \A x \in Points : ~dom[r][x].needed /\ (x[1] < Last => dom[r][x].targets = Locs)
    <3> SUFFICES ASSUME NEW x \in Points
                 PROVE  ~dom[r][x].needed /\ (x[1] < Last => dom[r][x].targets = Locs)
      OBVIOUS
    <3>1. dom[r][x] = [targets |-> IF x[1] < Last THEN Locs ELSE {}, needed |-> FALSE]
      BY <2>2 DEF BaseView
    <3>2. dom[r][x].needed = FALSE /\ dom[r][x].targets = IF x[1] < Last THEN Locs ELSE {}
      BY <3>1
    <3> QED BY <3>2
  <2>4. Loops(dom[r])
    BY <2>3 DEF Loops
  <2>5. ASSUME NEW p \in Paths, NEW t \in 0..(Last - 1)
        PROVE  /\ p[t + 1] \in dom[r][<<t, p[t]>>].targets
               /\ \A l \in Locs \ {p[t]} : ~dom[r][<<t, l>>].needed
    <3>1. /\ p[t] \in Locs /\ p[t + 1] \in Locs
          /\ \A l \in Locs : <<t, l>> \in Points /\ <<t, l>>[1] = t
      BY PathEdges
    <3>2. t < Last
      BY TimesEnd
    <3>3. dom[r][<<t, p[t]>>].targets = Locs
      BY <2>3, <3>1, <3>2
    <3> QED BY <2>3, <3>1, <3>3
  <2>6. ASSUME NEW q \in Requirement PROVE Untouched(dom[r], q)
    <3>1. q.loc \in Locs /\ q.to <= Last /\ q.to \in Int
      BY RequirementFacts
    <3>2. \A x \in Points : x[1] \in Int
      BY PointFacts
    <3>3. \A x \in Points : x[1] < q.to => x[1] < Last
      BY <3>1, <3>2, TimesEnd
    <3> QED BY <2>3, <3>1, <3>3 DEF Untouched
  <2> QED BY <2>4, <2>5, <2>6 DEF Admits
<1>4. \A r \in Active, j \in (posted + 1)..Len(requirements) : requirements[j] \in Requirement
  BY <1>1, <1>2
<1>5. 1..posted = {}
  BY <1>1
<1> QED BY <1>1, <1>3, <1>4, <1>5 DEF PostInv

\* Each requirement is added to those that the paths visit.
LEMMA PostingKeeps ==
  ASSUME DemandsApart, TypeOK, TypeOK', PostInv, PostRequirement
  PROVE  PostInv'
<1>1. /\ phase = "posting" /\ posted < Len(requirements) /\ posted' = posted + 1
      /\ dom' = [r \in Roles |->
                   IF r \in requirements[posted + 1].roles \cap Active
                     THEN Activated(dom[r], requirements[posted + 1]) ELSE dom[r]]
      /\ UNCHANGED <<demands, phase, rowsDue, rowsCounted>>
  BY DEF PostRequirement
<1>2. /\ requirements \in Seq(Requirement) /\ Len(requirements) \in Nat /\ posted \in Nat
      /\ DOMAIN requirements = 1..Len(requirements)
  BY DemandsTyped DEF TypeOK
<1>3. requirements' = requirements /\ Active' = Active /\ Active \subseteq Roles /\ access' = access
  BY <1>1 DEF requirements, Active, RequirementsOf, access
<1>4. PICK q : q = requirements[posted + 1]
  OBVIOUS
<1>5. posted + 1 \in 1..Len(requirements) /\ q \in Requirement
  BY <1>1, <1>2, <1>4
<1>6. ASSUME NEW j \in (posted + 2)..Len(requirements), requirements[j].roles \cap q.roles # {}
      PROVE  q.to < requirements[j].from \/ requirements[j].to < q.from
  <2>1. j \in 1..Len(requirements) /\ j # posted + 1
    BY <1>2
  <2>2. demands \in DemandSets
    BY DEF TypeOK
  <2> QED BY <1>2, <1>4, <1>5, <1>6, <2>1, <2>2 DEF DemandsApart, Apart, requirements
<1>7. ASSUME NEW r \in Active
      PROVE  /\ Loops(dom'[r])
             /\ \A p \in Paths :
                  Admits(dom'[r], p) <=>
                    \A i \in 1..(posted + 1) :
                      r \in requirements[i].roles => Visits(p, requirements[i])
             /\ \A j \in (posted + 2)..Len(requirements) :
                  r \in requirements[j].roles => Untouched(dom'[r], requirements[j])
  <2>1. /\ Loops(dom[r])
        /\ \A p \in Paths :
             Admits(dom[r], p) <=>
               \A i \in 1..posted : r \in requirements[i].roles => Visits(p, requirements[i])
        /\ \A j \in (posted + 1)..Len(requirements) :
             r \in requirements[j].roles => Untouched(dom[r], requirements[j])
    BY <1>1 DEF PostInv
  <2>2. dom[r] \in Domains /\ r \in Roles
    BY <1>3 DEF TypeOK, Domains
  <2>3. \A i : i \in 1..(posted + 1) <=> i \in 1..posted \/ i = posted + 1
    BY <1>2
  <2>4. \A j : j \in (posted + 2)..Len(requirements) => j \in (posted + 1)..Len(requirements)
    BY <1>2
  <2>5. CASE r \notin q.roles
    <3>1. dom'[r] = dom[r]
      BY <1>1, <1>4, <2>2, <2>5
    <3> QED BY <1>4, <2>1, <2>3, <2>4, <2>5, <3>1
  <2>6. CASE r \in q.roles
    <3>1. dom'[r] = Activated(dom[r], q)
      BY <1>1, <1>4, <2>2, <2>6
    <3>2. Untouched(dom[r], q)
      <4>1. posted + 1 \in (posted + 1)..Len(requirements)
        BY <1>2, <1>5
      <4> QED BY <1>4, <2>1, <2>6, <4>1
    <3>3. Loops(dom'[r])
      BY <1>5, <2>1, <2>2, <3>1, <3>2, ActivatedLoops
    <3>4. \A p \in Paths : Admits(dom'[r], p) <=> Admits(dom[r], p) /\ Visits(p, q)
      BY <1>5, <2>2, <3>1, <3>2, ActivatedAdmits
    <3>5. \A p \in Paths :
            Admits(dom'[r], p) <=>
              \A i \in 1..(posted + 1) :
                r \in requirements[i].roles => Visits(p, requirements[i])
      BY <1>4, <2>1, <2>3, <2>6, <3>4
    <3>6. ASSUME NEW j \in (posted + 2)..Len(requirements), r \in requirements[j].roles
          PROVE  Untouched(dom'[r], requirements[j])
      <4>1. Untouched(dom[r], requirements[j]) /\ requirements[j] \in Requirement
        BY <1>2, <2>1, <2>4, <3>6
      <4>2. q.to < requirements[j].from \/ requirements[j].to < q.from
        BY <1>6, <2>6, <3>6
      <4>3. Untouched(Activated(dom[r], q), requirements[j])
        BY <1>5, <2>2, <3>2, <4>1, <4>2, StaysUntouched
      <4> QED BY <3>1, <4>3
    <3> QED BY <3>3, <3>5, <3>6
  <2> QED BY <2>5, <2>6
<1>8. \A a \in DOMAIN access : rowsDue[a] = {} /\ rowsCounted[a] = {}
  BY <1>1 DEF PostInv
<1>9. posted' + 1 = posted + 2
  BY <1>1, <1>2
<1> QED BY <1>1, <1>3, <1>7, <1>8, <1>9 DEF PostInv

LEMMA StepPosts ==
  ASSUME DemandsApart, TypeOK, TypeOK', PostInv, [Next]_vars
  PROVE  PostInv'
<1>1. CASE PostRequirement
  BY <1>1, PostingKeeps
<1>2. CASE UNCHANGED vars
  BY <1>2 DEF vars, PostInv, Active, RequirementsOf, requirements, access, Untouched, Loops, Admits
<1>3. CASE FailWithoutRoles
  BY <1>3 DEF FailWithoutRoles, PostInv
<1>4. CASE PostPropagators
  BY <1>4 DEF PostPropagators, PostInv
<1>5. FailSpace => PostInv'
  BY DEF FailSpace, PostInv
<1>6. ASSUME NEW r \in Roles, NEW t \in Times, PropagateRow(r, t) PROVE PostInv'
  BY <1>5, <1>6 DEF PropagateRow, PostInv
<1>7. ASSUME NEW r \in Roles, NEW x \in Points, SkipHandled(r, x) PROVE PostInv'
  BY <1>7 DEF SkipHandled, IsPathRuns, PostInv
<1>8. ASSUME NEW r \in Roles, NEW x \in Points, HandleMove(r, x) PROVE PostInv'
  BY <1>5, <1>8 DEF HandleMove, IsPathRuns, PostInv
<1>9. ASSUME NEW r \in Roles, NEW x \in Points, HandleEmpty(r, x) PROVE PostInv'
  BY <1>9 DEF HandleEmpty, IsPathRuns, PostInv
<1>10. ASSUME NEW r \in Roles, IsPathDone(r) PROVE PostInv'
  BY <1>5, <1>10 DEF IsPathDone, IsPathRuns, PostInv
<1>11. ASSUME NEW a \in DOMAIN access, RestrictInEdges(a) PROVE PostInv'
  BY <1>5, <1>11 DEF RestrictInEdges, PostInv
<1>12. ASSUME NEW r \in Roles, NEW x \in Points, NEW n \in Locs, Branch(r, x, n) PROVE PostInv'
  BY <1>12 DEF Branch, PostInv
<1>13. CASE Solve
  BY <1>13 DEF Solve, PostInv
<1> QED
  BY <1>1, <1>2, <1>3, <1>4, <1>6, <1>7, <1>8, <1>9, <1>10, <1>11, <1>12, <1>13
  DEF Next, Posting, Propagate, PropagatePath, Decide

(***************************************************************************)
(* InEdgesRestriction: a time point is counted, or due, once all variables *)
(* of the selected timelines are assigned there; what is not counted of    *)
(* those that were assigned by the requirements is no move.                *)
(***************************************************************************)
Complete(a) == {t \in Times : \A s \in Selected(a), l \in Locs : Assigned(dom[s][<<t, l>>])}

AccessInv ==
  phase = "search" =>
    \A a \in DOMAIN access :
      /\ Selected(a) # {}
      /\ rowsCounted[a] \cup rowsDue[a] \subseteq Complete(a)
      /\ \A t \in Complete(a) \ (rowsCounted[a] \cup rowsDue[a]) :
           \A s \in Selected(a), l \in Locs : dom[s][<<t, l>>].targets \subseteq {l}
      /\ a \notin accessDue =>
           /\ rowsDue[a] = {}
           /\ ~RestrictionFails(a, Cardinality(InEdges(a, rowsCounted[a])))

\* The selected timelines are those of active roles.
LEMMA SelectedActive ==
  ASSUME NEW a \in DOMAIN access
  PROVE  Selected(a) \subseteq Active /\ Active \subseteq Roles
BY DEF Selected, Active

\* An assigned variable keeps its value.
LEMMA AssignedStays ==
  ASSUME NEW v \in View, NEW w \in View, Narrower(w, v), Assigned(v), v.needed => v.targets # {}
  PROVE  Assigned(w) /\ w.targets = v.targets
BY DEF Narrower, Assigned

\* When a timeline is narrowed, the new complete time points are due.
LEMMA NarrowAdvises ==
  ASSUME TypeOK, PathInv, CleanInv, AccessInv, phase = "search", phase' = phase, demands' = demands,
         NEW r \in Active, NEW new \in Domains, NarrowerDomain(new, dom[r]),
         NEW kept, Narrow(r, new, kept), rowsCounted' = rowsCounted
  PROVE  AccessInv'
<1>1. /\ r \in Roles /\ Active' = Active /\ access' = access
      /\ \A a : Selected(a)' = Selected(a) /\ SameLocation(a)' = SameLocation(a)
  BY DEF Active, RequirementsOf, requirements, access, Selected, SameLocation
<1>2. /\ dom' = [dom EXCEPT ![r] = new]
      /\ rowsDue' = [a \in DOMAIN access |-> rowsDue[a] \cup RowsAdvised(a, r, new)]
      /\ accessDue' = accessDue \cup {a \in DOMAIN access : RowsAdvised(a, r, new) # {}}
  BY DEF Narrow
<1>3. \A s \in Roles : /\ dom[s] \in Domains /\ dom'[s] \in Domains
                       /\ dom'[s] = IF s = r THEN new ELSE dom[s]
  BY <1>1, <1>2 DEF TypeOK, Domains
<1>4. ASSUME NEW s \in Roles, NEW x \in Points, Assigned(dom[s][x])
      PROVE  Assigned(dom'[s][x]) /\ dom'[s][x].targets = dom[s][x].targets
  <2>1. CASE s = r
    <3>1. Narrower(new[x], dom[r][x]) /\ new[x] \in View /\ dom[r][x] \in View
      BY <1>1, <1>3 DEF NarrowerDomain, Domains
    <3>2. dom[r][x].needed => dom[r][x].targets # {}
      BY <1>1 DEF CleanInv
    <3> QED BY <1>3, <1>4, <2>1, <3>1, <3>2, AssignedStays
  <2> QED BY <1>3, <1>4, <2>1
<1>5. ASSUME NEW a \in DOMAIN access, NEW t \in Times, t \in Complete(a)', t \notin Complete(a)
      PROVE  t \in RowsAdvised(a, r, new)
  <2>1. PICK s \in Selected(a), l \in Locs : ~Assigned(dom[s][<<t, l>>])
    BY <1>5 DEF Complete
  <2>2. PICK x : x = <<t, l>>
    OBVIOUS
  <2>3. x \in Points /\ x[1] = t /\ s \in Roles
    BY <2>2, PointFacts, SelectedActive
  <2>4. Assigned(dom'[s][x])
    BY <1>1, <1>5, <2>1, <2>2 DEF Complete
  <2>5. s = r
    BY <1>3, <2>1, <2>2, <2>3, <2>4
  <2>6. x \in Fresh(r, new)
    BY <1>3, <2>1, <2>2, <2>3, <2>4, <2>5 DEF Fresh
  <2>7. t \in CompleteRows(a, r, new)
    <3>1. \A u \in Selected(a) : u \in Roles /\ dom'[u] = IF u = r THEN new ELSE dom[u]
      BY <1>3, SelectedActive
    <3>2. \A u \in Selected(a), k \in Locs : Assigned(dom'[u][<<t, k>>])
      BY <1>1, <1>5 DEF Complete
    <3> QED BY <3>1, <3>2 DEF CompleteRows
  <2>8. t \in {y[1] : y \in Fresh(r, new)}
    BY <2>3, <2>6
  <2> QED BY <2>1, <2>5, <2>7, <2>8 DEF RowsAdvised
<1>6. ASSUME NEW a \in DOMAIN access, NEW t \in Complete(a)
      PROVE  /\ t \in Complete(a)'
             /\ \A s \in Selected(a), l \in Locs :
                  dom'[s][<<t, l>>].targets = dom[s][<<t, l>>].targets
  <2>1. t \in Times /\ \A s \in Selected(a), l \in Locs : Assigned(dom[s][<<t, l>>])
    BY DEF Complete
  <2>2. \A s \in Selected(a), l \in Locs : s \in Roles /\ <<t, l>> \in Points
    BY <2>1, PointFacts, SelectedActive
  <2>3. \A s \in Selected(a), l \in Locs :
          /\ Assigned(dom'[s][<<t, l>>])
          /\ dom'[s][<<t, l>>].targets = dom[s][<<t, l>>].targets
    BY <1>4, <2>1, <2>2
  <2> QED BY <1>1, <2>1, <2>3 DEF Complete
<1>7. ASSUME NEW a \in DOMAIN access, NEW t \in RowsAdvised(a, r, new) PROVE t \in Complete(a)'
  <2>1. t \in CompleteRows(a, r, new)
    BY <1>7 DEF RowsAdvised
  <2>2. t \in Times /\ \A s \in Selected(a), l \in Locs :
          Assigned(IF s = r THEN new[<<t, l>>] ELSE dom[s][<<t, l>>])
    BY <2>1 DEF CompleteRows
  <2>3. \A s \in Selected(a) : s \in Roles /\ dom'[s] = IF s = r THEN new ELSE dom[s]
    BY <1>3, SelectedActive
  <2>4. \A s \in Selected(a), l \in Locs : Assigned(dom'[s][<<t, l>>])
    BY <2>2, <2>3
  <2> QED BY <1>1, <2>2, <2>4 DEF Complete
<1>8. ASSUME NEW a \in DOMAIN access
      PROVE  /\ Selected(a) # {}
             /\ rowsCounted[a] \cup rowsDue[a] \subseteq Complete(a)
             /\ \A t \in Complete(a) \ (rowsCounted[a] \cup rowsDue[a]) :
                  \A s \in Selected(a), l \in Locs : dom[s][<<t, l>>].targets \subseteq {l}
             /\ a \notin accessDue =>
                  /\ rowsDue[a] = {}
                  /\ ~RestrictionFails(a, Cardinality(InEdges(a, rowsCounted[a])))
  BY DEF AccessInv
<1>9. ASSUME NEW a \in DOMAIN access
      PROVE  /\ Selected(a)' # {}
             /\ (rowsCounted[a] \cup rowsDue[a])' \subseteq Complete(a)'
             /\ \A t \in Complete(a)' \ (rowsCounted[a] \cup rowsDue[a])' :
                  \A s \in Selected(a)', l \in Locs : dom'[s][<<t, l>>].targets \subseteq {l}
             /\ a \notin accessDue' =>
                  /\ rowsDue'[a] = {}
                  /\ ~RestrictionFails(a, Cardinality(InEdges(a, rowsCounted[a])))'
  <2>1. rowsDue'[a] = rowsDue[a] \cup RowsAdvised(a, r, new)
    BY <1>2
  <2>2. rowsCounted'[a] \cup rowsDue'[a] \subseteq Complete(a)'
    BY <1>6, <1>7, <1>8, <2>1
  <2>3. ASSUME NEW t \in Complete(a)' \ (rowsCounted'[a] \cup rowsDue'[a]),
               NEW s \in Selected(a), NEW l \in Locs
        PROVE  dom'[s][<<t, l>>].targets \subseteq {l}
    <3>1. t \in Complete(a)
      <4>1. t \in Times /\ t \notin RowsAdvised(a, r, new)
        BY <2>1, <2>3 DEF Complete
      <4> QED BY <1>5, <2>3, <4>1
    <3>2. dom[s][<<t, l>>].targets \subseteq {l}
      BY <1>8, <2>1, <3>1
    <3> QED BY <1>6, <3>1, <3>2
  <2>4. ASSUME a \notin accessDue'
        PROVE  /\ rowsDue'[a] = {}
               /\ ~RestrictionFails(a, Cardinality(InEdges(a, rowsCounted[a])))'
    <3>1. a \notin accessDue /\ RowsAdvised(a, r, new) = {}
      BY <1>2, <2>4
    <3>2. rowsDue[a] = {} /\ ~RestrictionFails(a, Cardinality(InEdges(a, rowsCounted[a])))
      BY <1>8, <3>1
    <3>3. InEdges(a, rowsCounted[a])' = InEdges(a, rowsCounted[a])
      <4>1. ASSUME NEW b \in SameLocation(a), NEW s \in Active, NEW x \in Points,
                   s \in access[b].roles, x[1] \in rowsCounted[a]
            PROVE  dom'[s][x].targets = dom[s][x].targets
        <5>1. s \in Selected(a)
          BY <4>1 DEF Selected
        <5>2. x[1] \in Complete(a) /\ x[2] \in Locs /\ x = <<x[1], x[2]>>
          BY <1>8, <4>1, PointFacts
        <5>3. dom'[s][<<x[1], x[2]>>].targets = dom[s][<<x[1], x[2]>>].targets
          BY <1>6, <5>1, <5>2
        <5> QED BY <5>2, <5>3
      <4>2. \A e \in SameLocation(a) \X Active \X Points :
              e[2] \in access[e[1]].roles /\ e[3][1] \in rowsCounted[a] =>
                dom'[e[2]][e[3]].targets = dom[e[2]][e[3]].targets
        BY <4>1
      <4>3. InEdges(a, rowsCounted[a])' =
              {e \in SameLocation(a) \X Active \X Points :
                 /\ e[2] \in access[e[1]].roles /\ e[3][1] \in rowsCounted[a]
                 /\ e[3][2] # access[a].loc /\ dom'[e[2]][e[3]].targets = {access[a].loc}}
        BY <1>1 DEF InEdges
      <4> QED BY <4>2, <4>3 DEF InEdges
    <3>4. AllAssigned(Selected(a))' => AllAssigned(Selected(a))
      <4> SUFFICES ASSUME AllAssigned(Selected(a))', NEW s \in Selected(a), NEW x \in Points
                   PROVE  Assigned(dom[s][x])
        BY DEF AllAssigned
      <4>1. x[1] \in Times /\ x[2] \in Locs /\ x = <<x[1], x[2]>>
        BY PointFacts
      <4>2. x[1] \in Complete(a)'
        <5>1. \A u \in Selected(a), y \in Points : Assigned(dom'[u][y])
          BY <1>1 DEF AllAssigned
        <5>2. \A l \in Locs : <<x[1], l>> \in Points
          BY <4>1, PointFacts
        <5> QED BY <1>1, <4>1, <5>1, <5>2 DEF Complete
      <4>3. x[1] \in Complete(a)
        BY <1>5, <3>1, <4>1, <4>2
      <4>4. Assigned(dom[s][<<x[1], x[2]>>])
        BY <4>1, <4>3 DEF Complete
      <4> QED BY <4>1, <4>4
    <3>5. PICK c : c = Cardinality(InEdges(a, rowsCounted[a]))
      OBVIOUS
    <3>6. Cardinality(InEdges(a, rowsCounted[a]))' = c
      BY <3>3, <3>5
    <3>7. ~RestrictionFails(a, c)
      BY <3>2, <3>5
    <3> HIDE <3>5
    <3>8. ~(c > access[a].max \/ (AllAssigned(Selected(a))' /\ c < access[a].min))
      BY <3>4, <3>7 DEF RestrictionFails
    <3>9. RestrictionFails(a, Cardinality(InEdges(a, rowsCounted[a])))' <=>
            c > access[a].max \/ (AllAssigned(Selected(a))' /\ c < access[a].min)
      BY <1>1, <3>6 DEF RestrictionFails
    <3> QED BY <2>1, <3>1, <3>2, <3>8, <3>9
  <2> QED BY <1>1, <1>8, <2>2, <2>3, <2>4
<1> QED BY <1>1, <1>9 DEF AccessInv

\* What is assigned when the propagators are posted is no move.
LEMMA PostingCounts ==
  ASSUME TypeOK, PostInv, PostPropagators
  PROVE  AccessInv'
<1>1. /\ phase = "posting" /\ UNCHANGED <<demands, dom, rowsDue, rowsCounted>>
      /\ accessDue' = DOMAIN access
      /\ phase' = "search" => \A a \in DOMAIN access : Selected(a) # {}
  BY DEF PostPropagators
<1>2. /\ access' = access /\ \A a : Selected(a)' = Selected(a) /\ Complete(a)' = Complete(a)
  BY <1>1 DEF Active, RequirementsOf, requirements, access, Selected, SameLocation, Complete
<1>3. ASSUME NEW a \in DOMAIN access, NEW t \in Complete(a), NEW s \in Selected(a), NEW l \in Locs
      PROVE  dom[s][<<t, l>>].targets \subseteq {l}
  <2>1. PICK x : x = <<t, l>>
    OBVIOUS
  <2>2. x \in Points /\ x[2] = l /\ s \in Active
    BY <2>1, PointFacts, SelectedActive DEF Complete
  <2>3. Assigned(dom[s][x])
    BY <2>1 DEF Complete
  <2>4. dom[s][x].needed => dom[s][x].targets \subseteq {x[2]}
    BY <1>1, <2>2 DEF PostInv, Loops
  <2> QED BY <2>1, <2>2, <2>3, <2>4 DEF Assigned
<1>4. \A a \in DOMAIN access : rowsCounted[a] \cup rowsDue[a] = {}
  BY <1>1 DEF PostInv
<1> QED BY <1>1, <1>2, <1>3, <1>4 DEF AccessInv

\* A restriction that does not fail has counted what was due.
LEMMA RestrictionCounts ==
  ASSUME TypeOK, AccessInv, NEW a \in DOMAIN access, RestrictInEdges(a)
  PROVE  AccessInv'
<1>1. PICK counted : counted = rowsCounted[a] \cup rowsDue[a]
  OBVIOUS
<1>2. CASE RestrictionFails(a, Cardinality(InEdges(a, counted)))
  BY <1>1, <1>2 DEF RestrictInEdges, FailSpace, AccessInv
<1>3. CASE ~RestrictionFails(a, Cardinality(InEdges(a, counted)))
  <2>1. /\ phase = "search" /\ rowsCounted' = [rowsCounted EXCEPT ![a] = counted]
        /\ rowsDue' = [rowsDue EXCEPT ![a] = {}] /\ accessDue' = accessDue \ {a}
        /\ UNCHANGED <<demands, phase, posted, dom, queue, waypoint, running>>
    BY <1>1, <1>3 DEF RestrictInEdges
  <2>2. /\ access' = access /\ \A b : Selected(b)' = Selected(b) /\ Complete(b)' = Complete(b)
    BY <2>1 DEF Active, RequirementsOf, requirements, access, Selected, SameLocation, Complete
  <2>3. \A b \in DOMAIN access :
          b # a => rowsCounted'[b] = rowsCounted[b] /\ rowsDue'[b] = rowsDue[b]
    BY <2>1 DEF TypeOK
  <2>4. rowsCounted'[a] = counted /\ rowsDue'[a] = {}
    BY <2>1 DEF TypeOK
  <2>5. \A b, rows, n : /\ InEdges(b, rows)' = InEdges(b, rows)
                        /\ RestrictionFails(b, n)' <=> RestrictionFails(b, n)
    BY <2>1 DEF InEdges, RestrictionFails, AllAssigned, Active, RequirementsOf, requirements,
                access, Selected, SameLocation
  <2>6. ASSUME NEW b \in DOMAIN access
        PROVE  /\ Selected(b) # {}
               /\ rowsCounted[b] \cup rowsDue[b] \subseteq Complete(b)
               /\ \A t \in Complete(b) \ (rowsCounted[b] \cup rowsDue[b]) :
                    \A s \in Selected(b), l \in Locs : dom[s][<<t, l>>].targets \subseteq {l}
               /\ b \notin accessDue =>
                    /\ rowsDue[b] = {}
                    /\ ~RestrictionFails(b, Cardinality(InEdges(b, rowsCounted[b])))
    BY <2>1 DEF AccessInv
  <2>7. ASSUME NEW b \in DOMAIN access
        PROVE  /\ Selected(b)' # {}
               /\ rowsCounted'[b] \cup rowsDue'[b] \subseteq Complete(b)'
               /\ \A t \in Complete(b)' \ (rowsCounted'[b] \cup rowsDue'[b]) :
                    \A s \in Selected(b)', l \in Locs : dom'[s][<<t, l>>].targets \subseteq {l}
               /\ b \notin accessDue' =>
                    /\ rowsDue'[b] = {}
                    /\ ~RestrictionFails(b, Cardinality(InEdges(b, rowsCounted'[b])))
    <3>1. CASE b = a
      <4>1. /\ rowsCounted'[b] = counted /\ rowsDue'[b] = {}
            /\ counted = rowsCounted[b] \cup rowsDue[b]
        BY <1>1, <2>4, <3>1
      <4>2. ~RestrictionFails(b, Cardinality(InEdges(b, rowsCounted'[b])))
        <5>1. PICK c : c = Cardinality(InEdges(a, counted))
          OBVIOUS
        <5>2. c = Cardinality(InEdges(b, rowsCounted'[b]))
          BY <3>1, <4>1, <5>1
        <5>3. ~RestrictionFails(a, c)
          BY <1>3, <5>1
        <5> QED BY <3>1, <5>2, <5>3
      <4>3. /\ Selected(b)' # {}
            /\ rowsCounted'[b] \cup rowsDue'[b] \subseteq Complete(b)'
        BY <2>2, <2>6, <4>1
      <4>4. ASSUME NEW t \in Complete(b)' \ (rowsCounted'[b] \cup rowsDue'[b])
            PROVE  \A s \in Selected(b)', l \in Locs : dom'[s][<<t, l>>].targets \subseteq {l}
        <5>1. t \in Complete(b) \ (rowsCounted[b] \cup rowsDue[b])
          BY <2>2, <4>1, <4>4
        <5>2. \A s \in Selected(b), l \in Locs : dom[s][<<t, l>>].targets \subseteq {l}
          BY <2>6, <5>1
        <5> QED BY <2>1, <2>2, <5>2
      <4> QED BY <4>1, <4>2, <4>3, <4>4
    <3>2. CASE b # a
      <4>1. rowsCounted'[b] = rowsCounted[b] /\ rowsDue'[b] = rowsDue[b]
            /\ (b \notin accessDue' => b \notin accessDue)
        BY <2>1, <2>3, <3>2
      <4> QED BY <2>1, <2>2, <2>6, <4>1
    <3> QED BY <3>1, <3>2
  <2>8. \A b \in DOMAIN access :
          RestrictionFails(b, Cardinality(InEdges(b, rowsCounted[b])))' =>
            RestrictionFails(b, Cardinality(InEdges(b, rowsCounted'[b])))
    <3> SUFFICES ASSUME NEW b \in DOMAIN access
                 PROVE  RestrictionFails(b, Cardinality(InEdges(b, rowsCounted[b])))' =>
                          RestrictionFails(b, Cardinality(InEdges(b, rowsCounted'[b])))
      OBVIOUS
    <3>1. InEdges(b, rowsCounted[b])' = InEdges(b, rowsCounted'[b])
      BY <2>1 DEF InEdges, RestrictionFails, AllAssigned, Active, RequirementsOf, requirements,
                  access, Selected, SameLocation
    <3>2. PICK c : c = Cardinality(InEdges(b, rowsCounted'[b]))
      OBVIOUS
    <3>3. Cardinality(InEdges(b, rowsCounted[b]))' = c
      BY <3>1, <3>2
    <3>4. RestrictionFails(b, Cardinality(InEdges(b, rowsCounted[b])))' => RestrictionFails(b, c)
      BY <2>1, <2>2, <3>3 DEF RestrictionFails, AllAssigned
    <3> QED BY <3>2, <3>4
  <2> QED BY <2>2, <2>7, <2>8 DEF AccessInv
<1> QED BY <1>2, <1>3

\* Every step keeps the counts.
LEMMA StepCounts ==
  ASSUME TypeOK, TypeOK', PathInv, CleanInv, PostInv, AccessInv, [Next]_vars
  PROVE  AccessInv'
<1>0. \A r \in Roles : dom[r] \in Domains /\ NarrowerDomain(dom[r], dom[r])
  BY NarrowerOrders DEF TypeOK, Domains, NarrowerDomain
<1>a. FailSpace => AccessInv'
  BY DEF FailSpace, AccessInv
<1>b. ASSUME UNCHANGED <<demands, dom, rowsDue, rowsCounted, accessDue>>,
             phase' = "search" => UNCHANGED phase
      PROVE  AccessInv'
  <2> SUFFICES ASSUME phase' = "search" PROVE AccessInv'
    BY DEF AccessInv
  <2>1. /\ access' = access /\ phase = "search"
        /\ \A b : Selected(b)' = Selected(b) /\ Complete(b)' = Complete(b)
    BY <1>b DEF Active, RequirementsOf, requirements, access, Selected, SameLocation, Complete
  <2>2. \A b, rows, n : /\ InEdges(b, rows)' = InEdges(b, rows)
                        /\ RestrictionFails(b, n)' <=> RestrictionFails(b, n)
    BY <1>b DEF InEdges, RestrictionFails, AllAssigned, Active, RequirementsOf, requirements,
                access, Selected, SameLocation
  <2>3. ASSUME NEW b \in DOMAIN access,
               ~RestrictionFails(b, Cardinality(InEdges(b, rowsCounted[b])))
        PROVE  ~RestrictionFails(b, Cardinality(InEdges(b, rowsCounted[b])))'
    <3>1. InEdges(b, rowsCounted[b])' = InEdges(b, rowsCounted[b])
      BY <1>b DEF InEdges, Active, RequirementsOf, requirements, access, SameLocation
    <3>2. PICK c : c = Cardinality(InEdges(b, rowsCounted[b]))
      OBVIOUS
    <3>3. Cardinality(InEdges(b, rowsCounted[b]))' = c
      BY <3>1, <3>2
    <3>4. ~RestrictionFails(b, c)
      BY <2>3, <3>2
    <3> HIDE <3>2
    <3>5. RestrictionFails(b, Cardinality(InEdges(b, rowsCounted[b])))' => RestrictionFails(b, c)
      BY <2>1, <3>3, <1>b DEF RestrictionFails, AllAssigned
    <3> QED BY <3>4, <3>5
  <2>4. ASSUME NEW b \in DOMAIN access
        PROVE  /\ Selected(b) # {}
               /\ rowsCounted[b] \cup rowsDue[b] \subseteq Complete(b)
               /\ \A t \in Complete(b) \ (rowsCounted[b] \cup rowsDue[b]) :
                    \A s \in Selected(b), l \in Locs : dom[s][<<t, l>>].targets \subseteq {l}
               /\ b \notin accessDue =>
                    /\ rowsDue[b] = {}
                    /\ ~RestrictionFails(b, Cardinality(InEdges(b, rowsCounted[b])))
    BY <2>1 DEF AccessInv
  <2>5. ASSUME NEW b \in DOMAIN access
        PROVE  /\ Selected(b)' # {}
               /\ (rowsCounted[b] \cup rowsDue[b])' \subseteq Complete(b)'
               /\ \A t \in Complete(b)' \ (rowsCounted[b] \cup rowsDue[b])' :
                    \A s \in Selected(b)', l \in Locs : dom'[s][<<t, l>>].targets \subseteq {l}
               /\ b \notin accessDue' =>
                    /\ rowsDue'[b] = {}
                    /\ ~RestrictionFails(b, Cardinality(InEdges(b, rowsCounted[b])))'
    <3>1. b \notin accessDue' => ~RestrictionFails(b, Cardinality(InEdges(b, rowsCounted[b])))'
      BY <1>b, <2>3, <2>4
    <3> QED BY <1>b, <2>1, <2>4, <3>1
  <2> QED BY <2>1, <2>5 DEF AccessInv
<1>1. CASE FailWithoutRoles
  BY <1>1, <1>b DEF FailWithoutRoles
<1>2. CASE PostRequirement
  BY <1>2 DEF PostRequirement, AccessInv
<1>3. CASE PostPropagators
  BY <1>3, PostingCounts
<1>4. ASSUME NEW r \in Roles, NEW t \in Times, PropagateRow(r, t) PROVE AccessInv'
  <2>1. CASE RowFails(r, t)
    BY <1>4, <1>a, <2>1 DEF PropagateRow
  <2>2. CASE ~RowFails(r, t)
    <3>1. RowNarrowed(r, t) \in Domains /\ NarrowerDomain(RowNarrowed(r, t), dom[r])
      BY <1>0, RowNarrows
    <3>2. /\ phase = "search" /\ r \in Active /\ UNCHANGED <<demands, phase, rowsCounted>>
          /\ Narrow(r, RowNarrowed(r, t), queue[r])
      BY <1>4, <2>2 DEF PropagateRow
    <3> QED BY <3>1, <3>2, NarrowAdvises
  <2> QED BY <2>1, <2>2
<1>5. ASSUME NEW r \in Roles, NEW x \in Points, SkipHandled(r, x) PROVE AccessInv'
  BY <1>5, <1>b DEF SkipHandled
<1>6. ASSUME NEW r \in Roles, NEW x \in Points, HandleMove(r, x) PROVE AccessInv'
  <2>1. PICK n \in Locs :
          IF MoveFails(dom[r], x, n) THEN FailSpace
          ELSE /\ Narrow(r, MoveNarrowed(dom[r], x, n), queue[r] \ {x})
               /\ waypoint' = [waypoint EXCEPT ![r][x[1]] = x[2]]
               /\ running' = {r}
               /\ UNCHANGED <<demands, phase, posted, rowsCounted>>
    BY <1>6 DEF HandleMove
  <2>2. CASE MoveFails(dom[r], x, n)
    BY <1>a, <2>1, <2>2
  <2>3. CASE ~MoveFails(dom[r], x, n)
    <3>1. /\ MoveNarrowed(dom[r], x, n) \in Domains
          /\ NarrowerDomain(MoveNarrowed(dom[r], x, n), dom[r])
      BY <1>0, MoveNarrows
    <3>2. /\ phase = "search" /\ r \in Active /\ UNCHANGED <<demands, phase, rowsCounted>>
          /\ Narrow(r, MoveNarrowed(dom[r], x, n), queue[r] \ {x})
      BY <1>6, <2>1, <2>3 DEF HandleMove, IsPathRuns
    <3> QED BY <3>1, <3>2, NarrowAdvises
  <2> QED BY <2>2, <2>3
<1>7. ASSUME NEW r \in Roles, NEW x \in Points, HandleEmpty(r, x) PROVE AccessInv'
  <2> DEFINE new == IF Excludes(x) THEN TargetExcluded(dom[r], x[1] - 1, x[2]) ELSE dom[r]
  <2>1. new \in Domains /\ NarrowerDomain(new, dom[r])
    BY <1>0, ExclusionNarrows DEF Points
  <2>2. /\ phase = "search" /\ r \in Active /\ UNCHANGED <<demands, phase, rowsCounted>>
        /\ Narrow(r, new, queue[r] \ {x})
    BY <1>7 DEF HandleEmpty, IsPathRuns
  <2> HIDE DEF new
  <2> QED BY <2>1, <2>2, NarrowAdvises
<1>8. ASSUME NEW r \in Roles, IsPathDone(r) PROVE AccessInv'
  BY <1>8, <1>a, <1>b DEF IsPathDone
<1>9. ASSUME NEW a \in DOMAIN access, RestrictInEdges(a) PROVE AccessInv'
  BY <1>9, RestrictionCounts
<1>10. ASSUME NEW r \in Roles, NEW x \in Points, NEW n \in Locs, Branch(r, x, n) PROVE AccessInv'
  <2>1. /\ phase = "search" /\ UNCHANGED <<demands, phase, rowsCounted>>
        /\ r \in Active /\ ~Assigned(dom[r][x]) /\ n \in dom[r][x].targets
    BY <1>10 DEF Branch
  <2>2. /\ Without(r, x, n) \in Domains /\ NarrowerDomain(Without(r, x, n), dom[r])
        /\ With(r, x, n) \in Domains /\ NarrowerDomain(With(r, x, n), dom[r])
    BY <2>1, BranchNarrows
  <2>3. ASSUME NEW new \in Domains, NarrowerDomain(new, dom[r]), Narrow(r, new, {})
        PROVE  AccessInv'
    BY <2>1, <2>3, NarrowAdvises
  <2>4. Narrow(r, Without(r, x, n), {}) \/ Narrow(r, With(r, x, n), {})
    BY <1>10 DEF Branch
  <2> QED BY <2>2, <2>3, <2>4
<1>11. CASE Solve
  BY <1>11, <1>b DEF Solve
<1>12. CASE UNCHANGED vars
  BY <1>12, <1>b DEF vars
<1> QED
  BY <1>1, <1>2, <1>3, <1>4, <1>5, <1>6, <1>7, <1>8, <1>9, <1>10, <1>11, <1>12
  DEF Next, Posting, Propagate, PropagatePath, Decide

\* What was posted, and what the restrictions count, holds in every state.
LEMMA CountInvariance ==
  ASSUME DemandsApart
  PROVE  Spec => []PostInv /\ []AccessInv
<1>1. Init => PostInv /\ AccessInv
  <2>1. Init => AccessInv
    BY DEF Init, AccessInv
  <2> QED BY <2>1, InitPosts
<1>2. TypeOK /\ TypeOK' /\ PathInv /\ CleanInv /\ (PostInv /\ AccessInv) /\ [Next]_vars =>
        (PostInv /\ AccessInv)'
  BY StepPosts, StepCounts
<1> QED BY <1>1, <1>2, TypeCorrect, PathInvariance, CleanInvariance, PTL DEF Spec

(***************************************************************************)
(* What a restriction counts, against the arrivals of the plans that are   *)
(* still possible.                                                         *)
(***************************************************************************)
\* A location that is restricted once selects the timelines it is restricted for.
LEMMA SelectedOwn ==
  ASSUME DemandsApart, TypeOK, NEW a \in DOMAIN access
  PROVE  /\ SameLocation(a) = {a}
         /\ Selected(a) = access[a].roles \cap Takers(demands)
         /\ access[a] \in Access
<1>1. demands \in DemandSets /\ access \in Seq(Access)
  BY DemandsTyped DEF TypeOK
<1>2. \A b \in DOMAIN access : access[b].loc = access[a].loc => a = b
  BY <1>1 DEF DemandsApart, Apart, access
<1>3. DOMAIN access = 1..Len(access) /\ Len(access) \in Nat /\ access[a] \in Access
  BY <1>1
<1>4. SameLocation(a) = {a}
  BY <1>2, <1>3 DEF SameLocation
<1>5. UNION {access[b].roles : b \in {a}} = access[a].roles
  OBVIOUS
<1>6. Selected(a) = access[a].roles \cap Active
  BY <1>4, <1>5 DEF Selected
<1> QED BY <1>3, <1>4, <1>6, ActiveTakes

\* There are finitely many arrivals.
LEMMA FiniteArrivals ==
  ASSUME NEW f, NEW R \in SUBSET Roles, NEW l
  PROVE  IsFiniteSet(Arrivals(f, R, l)) /\ Cardinality(Arrivals(f, R, l)) \in Nat
<1>1. IsFiniteSet(1..(NumTimes - 1))
  BY FS_Interval, SizeAssumption
<1>2. IsFiniteSet(R)
  BY FS_Subset, RolesAssumption
<1>3. IsFiniteSet(R \X (1..(NumTimes - 1)))
  BY <1>1, <1>2, FS_Product
<1>4. Arrivals(f, R, l) \in SUBSET (R \X (1..(NumTimes - 1)))
  BY DEF Arrivals
<1>5. IsFiniteSet(Arrivals(f, R, l))
  BY <1>3, <1>4, FS_Subset
<1> QED BY <1>5, FS_CardinalityType

\* What is counted arrives in every plan.
LEMMA CountedArrive ==
  ASSUME DemandsApart, TypeOK, NoEdgeAtEnd, NEW a \in DOMAIN access,
         NEW rows \in SUBSET Complete(a), NEW f \in [Takers(demands) -> Paths],
         \A s \in Takers(demands) : Admits(dom[s], f[s])
  PROVE  LET R == access[a].roles \cap Takers(demands)
         IN  /\ IsFiniteSet(InEdges(a, rows))
             /\ Cardinality(InEdges(a, rows)) <= Cardinality(Arrivals(f, R, access[a].loc))
<1> DEFINE R == access[a].roles \cap Takers(demands)
<1>1. /\ SameLocation(a) = {a} /\ Selected(a) = R /\ access[a].loc \in Locs /\ R \subseteq Roles
      /\ R \subseteq Takers(demands) /\ Active = Takers(demands) /\ Takers(demands) \subseteq Roles
  BY SelectedOwn, ActiveTakes DEF Access, Takers
<1>2. PICK l, E, A : l = access[a].loc /\ E = InEdges(a, rows) /\ A = Arrivals(f, R, l)
  OBVIOUS
<1>3. ASSUME NEW e \in E
      PROVE  /\ <<e[2], e[3][1] + 1>> \in A
             /\ e[3][1] \in Int /\ f[e[2]][e[3][1]] = e[3][2]
  <2>1. /\ e \in SameLocation(a) \X Active \X Points
        /\ e[2] \in access[e[1]].roles /\ e[3][1] \in rows
        /\ e[3][2] # l /\ dom[e[2]][e[3]].targets = {l}
    BY <1>2 DEF InEdges
  <2>2. PICK s, x : s = e[2] /\ x = e[3]
    OBVIOUS
  <2>3. /\ e[1] = a /\ s \in R /\ x \in Points /\ x[1] \in Complete(a) /\ x[2] # l
        /\ dom[s][x].targets = {l} /\ e = <<e[1], e[2], e[3]>>
    BY <1>1, <2>1, <2>2
  <2>4. x = <<x[1], x[2]>> /\ x[1] \in Times /\ x[2] \in Locs /\ x[1] \in Int
    BY <2>3, PointFacts
  <2>5. s \in Roles /\ s \in Takers(demands) /\ f[s] \in Paths /\ Admits(dom[s], f[s])
    BY <1>1, <2>3
  <2>6. x[1] \in 0..(Last - 1)
    <3>1. x[1] # Last
      BY <2>3, <2>5 DEF NoEdgeAtEnd
    <3> QED BY <2>4, <3>1, TimesEnd
  <2>7. dom[s][x].needed
    <3>1. Assigned(dom[s][<<x[1], x[2]>>])
      BY <1>1, <2>3, <2>4 DEF Complete
    <3> QED BY <2>3, <2>4, <3>1 DEF Assigned
  <2>8. f[s][x[1]] = x[2]
    BY <2>4, <2>5, <2>6, <2>7 DEF Admits
  <2>9. f[s][x[1] + 1] = l
    <3>1. f[s][x[1] + 1] \in dom[s][<<x[1], f[s][x[1]]>>].targets
      BY <2>5, <2>6 DEF Admits
    <3> QED BY <2>3, <2>4, <2>8, <3>1
  <2>10. PICK y : y = <<s, x[1] + 1>>
    OBVIOUS
  <2>11. y[1] = s /\ y[2] = x[1] + 1 /\ y[2] - 1 = x[1] /\ y \in R \X (1..(NumTimes - 1))
    BY <2>3, <2>4, <2>6, <2>10, TimesEnd DEF Last
  <2>12. y \in A
    BY <1>2, <2>3, <2>8, <2>9, <2>11 DEF Arrivals
  <2> QED BY <2>2, <2>3, <2>4, <2>8, <2>10, <2>12
<1>4. PICK g : g = [e \in E |-> <<e[2], e[3][1] + 1>>]
  OBVIOUS
<1>5. g \in Injection(E, A)
  <2>1. g \in [E -> A]
    BY <1>3, <1>4
  <2>2. \A e \in E : e[3][1] \in Int /\ f[e[2]][e[3][1]] = e[3][2]
    BY <1>3
  <2>3. \A e \in E : e \in {a} \X Active \X Points
    BY <1>1, <1>2 DEF InEdges
  <2>4. ASSUME NEW e \in E, NEW d \in E, g[e] = g[d] PROVE e = d
    <3>1. e[2] = d[2] /\ e[3][1] + 1 = d[3][1] + 1
      BY <1>4, <2>4
    <3>2. e[3][1] = d[3][1]
      BY <2>2, <3>1
    <3>3. e[3][2] = d[3][2]
      BY <2>2, <3>1, <3>2
    <3>4. e[3] \in Points /\ d[3] \in Points /\ e[1] = d[1]
      BY <2>3
    <3>5. e[3] = d[3]
      BY <3>2, <3>3, <3>4 DEF Points
    <3> QED BY <2>3, <3>1, <3>4, <3>5
  <2> QED BY <2>1, <2>4 DEF Injection, IsInjective
<1>6. IsFiniteSet(A)
  BY <1>1, <1>2, FiniteArrivals
<1>7. IsFiniteSet(E) /\ Cardinality(E) <= Cardinality(A)
  BY <1>5, <1>6, FS_Injection
<1> QED BY <1>2, <1>7

\* When the timelines are assigned and what is complete is counted, what
\* arrives is counted.
LEMMA ArrivalsCounted ==
  ASSUME DemandsApart, TypeOK, NoEdgeAtEnd, NEW a \in DOMAIN access,
         NEW rows \in SUBSET Complete(a), NEW f \in [Takers(demands) -> Paths],
         \A s \in Takers(demands) : Admits(dom[s], f[s]),
         AllAssigned(Selected(a)),
         \A t \in Complete(a) \ rows :
           \A s \in Selected(a), l \in Locs : dom[s][<<t, l>>].targets \subseteq {l}
  PROVE  LET R == access[a].roles \cap Takers(demands)
         IN  Cardinality(Arrivals(f, R, access[a].loc)) <= Cardinality(InEdges(a, rows))
<1> DEFINE R == access[a].roles \cap Takers(demands)
<1>1. /\ SameLocation(a) = {a} /\ Selected(a) = R /\ access[a].loc \in Locs /\ R \subseteq Roles
      /\ R \subseteq Takers(demands) /\ Active = Takers(demands) /\ Takers(demands) \subseteq Roles
  BY SelectedOwn, ActiveTakes DEF Access, Takers
<1>2. PICK l, E, A : l = access[a].loc /\ E = InEdges(a, rows) /\ A = Arrivals(f, R, l)
  OBVIOUS
<1>3. IsFiniteSet(E)
  BY <1>2, CountedArrive
<1>4. ASSUME NEW y \in A
      PROVE  /\ <<a, y[1], <<y[2] - 1, f[y[1]][y[2] - 1]>>>> \in E
             /\ y \in R \X Int
  <2>1. /\ y \in R \X (1..(NumTimes - 1)) /\ f[y[1]][y[2]] = l /\ f[y[1]][y[2] - 1] # l
    BY <1>2 DEF Arrivals
  <2>2. PICK s, t : s = y[1] /\ t = y[2] - 1
    OBVIOUS
  <2>3. /\ s \in R /\ y[2] \in 1..(NumTimes - 1) /\ y = <<y[1], y[2]>>
    BY <2>1, <2>2
  <2>4. t \in 0..(Last - 1) /\ t + 1 = y[2] /\ y[2] \in Int
    BY <2>2, <2>3, TimesEnd DEF Last
  <2>5. f[s][t + 1] = l /\ f[s][t] # l
    BY <2>1, <2>2, <2>4
  <2>6. s \in Active /\ s \in Selected(a) /\ f[s] \in Paths /\ Admits(dom[s], f[s])
    BY <1>1, <2>3
  <2>7. PICK x : x = <<t, f[s][t]>>
    OBVIOUS
  <2>8. x \in Points /\ x[1] = t /\ x[2] = f[s][t] /\ f[s][t] \in Locs
    BY <2>4, <2>6, <2>7, PathEdges
  <2>9. l \in dom[s][x].targets
    BY <2>4, <2>5, <2>6, <2>7 DEF Admits
  <2>10. dom[s][x].targets = {l}
    BY <2>6, <2>8, <2>9 DEF AllAssigned, Assigned
  <2>11. t \in rows
    <3>1. t \in Complete(a)
      <4>1. t \in Times
        BY <2>4, TimesEnd
      <4>2. \A u \in Selected(a), k \in Locs : Assigned(dom[u][<<t, k>>])
        BY <4>1, PointFacts DEF AllAssigned
      <4> QED BY <4>1, <4>2 DEF Complete
    <3>2. ~(dom[s][<<t, f[s][t]>>].targets \subseteq {f[s][t]})
      BY <2>5, <2>7, <2>9
    <3> QED BY <2>6, <2>8, <3>1, <3>2
  <2>12. PICK e : e = <<a, s, x>>
    OBVIOUS
  <2>13. /\ e[1] = a /\ e[2] = s /\ e[3] = x
         /\ e \in SameLocation(a) \X Active \X Points
    BY <1>1, <2>6, <2>8, <2>12
  <2>14. e \in E
    BY <1>1, <1>2, <2>3, <2>5, <2>8, <2>10, <2>11, <2>13 DEF InEdges
  <2> QED BY <2>2, <2>3, <2>4, <2>7, <2>12, <2>14
<1>5. PICK g : g = [y \in A |-> <<a, y[1], <<y[2] - 1, f[y[1]][y[2] - 1]>>>>]
  OBVIOUS
<1>6. g \in Injection(A, E)
  <2>1. g \in [A -> E]
    BY <1>4, <1>5
  <2>2. ASSUME NEW y \in A, NEW z \in A, g[y] = g[z] PROVE y = z
    <3>1. y[1] = z[1] /\ y[2] - 1 = z[2] - 1
      BY <1>5, <2>2
    <3>2. y \in R \X Int /\ z \in R \X Int
      BY <1>4
    <3>3. y[2] = z[2]
      BY <3>1, <3>2
    <3> QED BY <3>1, <3>2, <3>3
  <2> QED BY <2>1, <2>2 DEF Injection, IsInjective
<1>7. Cardinality(A) <= Cardinality(E)
  BY <1>3, <1>6, FS_Injection
<1> QED BY <1>2, <1>7


(***************************************************************************)
(* The plans that are possible, and what the steps do to them.             *)
(***************************************************************************)
\* Once the constraints are posted: what all timelines admit and what respects
\* the access constraints.
PlansAdmitted ==
  /\ phase = "posting" => PossiblePlans = Plans(demands)
  /\ phase = "failed" => PossiblePlans = {}
  /\ phase \in {"search", "solved"} =>
       \A f : f \in PossiblePlans <=>
                /\ f \in [Takers(demands) -> Paths]
                /\ \A r \in Takers(demands) : Admits(dom[r], f[r])
                /\ RespectsAccess(demands, f)

\* The possible plans are the plans of those that take part.
LEMMA PlansPossible == TypeOK => PlansAdmitted
<1> SUFFICES ASSUME TypeOK PROVE PlansAdmitted
  OBVIOUS
<1>1. Active = Takers(demands)
  BY ActiveTakes
<1>2. phase = "posting" => PossiblePlans = Plans(demands)
  BY <1>1 DEF PossiblePlans, Plans
<1>3. phase = "failed" => PossiblePlans = {}
  BY DEF PossiblePlans
<1>4. ASSUME phase \in {"search", "solved"}, NEW f
      PROVE  f \in PossiblePlans <=> /\ f \in [Active -> Paths]
                                     /\ \A r \in Active : Admits(dom[r], f[r])
                                     /\ RespectsAccess(demands, f)
  <2> DEFINE All == UNION {AdmittedPaths(r) : r \in Active}
  <2>1. f \in PossiblePlans <=> /\ f \in [Active -> All]
                                /\ \A r \in Active : Admits(dom[r], f[r])
                                /\ RespectsAccess(demands, f)
    BY <1>4 DEF PossiblePlans
  <2>2. \A p : p \in All => p \in Paths
    BY DEF AdmittedPaths
  <2>3. \A r \in Active, p \in Paths : Admits(dom[r], p) => p \in All
    BY DEF AdmittedPaths
  <2> HIDE DEF All
  <2>4. f \in [Active -> All] => f \in [Active -> Paths]
    BY <2>2
  <2>5. f \in [Active -> Paths] /\ (\A r \in Active : Admits(dom[r], f[r])) =>
          f \in [Active -> All]
    BY <2>3
  <2> QED BY <2>1, <2>4, <2>5
<1> QED BY <1>1, <1>2, <1>3, <1>4 DEF PlansAdmitted

\* The same of the next state.
LEMMA PlansPossibleNext == TypeOK' => PlansAdmitted'
BY PlansPossible, PTL

\* The count of a restriction against the arrivals of one plan.
LEMMA CountOfPlan ==
  ASSUME DemandsApart, TypeOK, PathInv, AccessInv, phase = "search", NEW a \in DOMAIN access,
         NEW f \in [Takers(demands) -> Paths],
         \A s \in Takers(demands) : Admits(dom[s], f[s])
  PROVE  LET R == access[a].roles \cap Takers(demands)
             arrivals == Cardinality(Arrivals(f, R, access[a].loc))
             count == Cardinality(InEdges(a, rowsCounted[a] \cup rowsDue[a]))
         IN  /\ count \in Nat /\ arrivals \in Nat /\ count <= arrivals
             /\ AllAssigned(Selected(a)) => count = arrivals
<1> DEFINE R == access[a].roles \cap Takers(demands)
           A == Arrivals(f, R, access[a].loc)
<1>1. PICK rows : rows = rowsCounted[a] \cup rowsDue[a]
  OBVIOUS
<1>2. /\ rows \in SUBSET Complete(a)
      /\ \A t \in Complete(a) \ rows :
           \A s \in Selected(a), l \in Locs : dom[s][<<t, l>>].targets \subseteq {l}
  BY <1>1 DEF AccessInv
<1>3. NoEdgeAtEnd
  BY DEF PathInv
<1>4. IsFiniteSet(InEdges(a, rows)) /\ Cardinality(InEdges(a, rows)) <= Cardinality(A)
  BY <1>2, <1>3, CountedArrive
<1>5. AllAssigned(Selected(a)) => Cardinality(A) <= Cardinality(InEdges(a, rows))
  BY <1>2, <1>3, ArrivalsCounted
<1>6. Cardinality(InEdges(a, rows)) \in Nat
  BY <1>4, FS_CardinalityType
<1>7. Cardinality(A) \in Nat
  BY FiniteArrivals DEF Takers
<1> HIDE DEF A
<1>8. PICK m, n : m = Cardinality(InEdges(a, rows)) /\ n = Cardinality(A)
  OBVIOUS
<1>9. m \in Nat /\ n \in Nat /\ m <= n /\ (AllAssigned(Selected(a)) => n <= m)
  BY <1>4, <1>5, <1>6, <1>7, <1>8
<1>10. m \in Nat /\ n \in Nat /\ m <= n /\ (AllAssigned(Selected(a)) => m = n)
  BY <1>9
<1> QED BY <1>1, <1>8, <1>10 DEF A

\* A restriction fails only if no plan is left.
LEMMA RestrictionLosesNone ==
  ASSUME DemandsApart, TypeOK, PathInv, AccessInv, NEW a \in DOMAIN access,
         RestrictInEdges(a), phase' = "failed"
  PROVE  PossiblePlans = {}
<1>1. phase = "search"
  BY DEF RestrictInEdges
<1>2. RestrictionFails(a, Cardinality(InEdges(a, rowsCounted[a] \cup rowsDue[a])))
  BY <1>1 DEF RestrictInEdges
<1>3. SUFFICES ASSUME NEW f \in PossiblePlans PROVE FALSE
  OBVIOUS
<1>4. /\ f \in [Takers(demands) -> Paths] /\ RespectsAccess(demands, f)
      /\ \A r \in Takers(demands) : Admits(dom[r], f[r])
  BY <1>1, PlansPossible DEF PlansAdmitted
<1> DEFINE R == access[a].roles \cap Takers(demands)
<1>5. PICK m, n : /\ m = Cardinality(InEdges(a, rowsCounted[a] \cup rowsDue[a]))
                  /\ n = Cardinality(Arrivals(f, R, access[a].loc))
  OBVIOUS
<1>6. m \in Nat /\ n \in Nat /\ m <= n /\ (AllAssigned(Selected(a)) => m = n)
  BY <1>1, <1>4, <1>5, CountOfPlan
<1>7. access[a].min <= n /\ n <= access[a].max
  BY <1>4, <1>5 DEF RespectsAccess, access
<1>8. m > access[a].max \/ (AllAssigned(Selected(a)) /\ m < access[a].min)
  BY <1>2, <1>5 DEF RestrictionFails
<1>9. access[a].min \in Nat /\ access[a].max \in Nat
  BY SelectedOwn DEF Access
<1> QED BY <1>6, <1>7, <1>8, <1>9

\* A timeline whose variables are all assigned has one path when nothing is
\* left to propagate.
LEMMA OnePath ==
  ASSUME TypeOK, PathInv, CleanInv, phase = "search", Quiet, NEW r \in Active,
         \A x \in Points : Assigned(dom[r][x])
  PROVE  \E p \in Paths : Admits(dom[r], p) /\ \A q \in Paths : Admits(dom[r], q) => q = p
<1>1. /\ r \in Roles /\ dom[r] \in Domains /\ queue[r] = {} /\ Clean(dom[r], waypoint[r], {})
      /\ \A t \in 0..(Last - 1) : ~RowFails(r, t)
  BY DEF Active, TypeOK, Domains, Quiet, RowPending, CleanInv
<1>2. Last \in Nat /\ Last > 0 /\ Times = 0..Last /\ 0..(Last - 1) \subseteq Times
  BY TimesEnd
<1> DEFINE Fits(t, k, m) ==
             /\ dom[r][<<t, k>>].needed /\ dom[r][<<t, k>>].targets = {m}
             /\ \A l \in Locs \ {k} : dom[r][<<t, l>>].targets = {} /\ ~dom[r][<<t, l>>].needed
             /\ \A l \in Locs \ {m} : dom[r][<<t + 1, l>>].targets = {}
<1>3. ASSUME NEW t \in 0..(Last - 1)
      PROVE  \E k, m \in Locs : Fits(t, k, m)
  <2>1. \A l \in Locs : /\ <<t, l>> \in Points /\ Assigned(dom[r][<<t, l>>])
                        /\ dom[r][<<t, l>>].needed => dom[r][<<t, l>>].targets # {}
    BY <1>1, <1>2, PointFacts DEF Clean
  <2>2. PICK k \in Locs : dom[r][<<t, k>>].targets # {}
    BY <1>1 DEF RowFails, OpenAt
  <2>3. dom[r][<<t, k>>].needed
    BY <2>1, <2>2 DEF Assigned
  <2>4. ASSUME NEW l \in Locs \ {k}
        PROVE  dom[r][<<t, l>>].targets = {} /\ ~dom[r][<<t, l>>].needed
    <3>1. ~dom[r][<<t, l>>].needed
      BY <1>1, <2>3 DEF RowFails, NeededAt
    <3> QED BY <2>1, <3>1 DEF Assigned
  <2>5. PICK x : x = <<t, k>>
    OBVIOUS
  <2>6. x \in Points /\ x[1] = t /\ x[2] = k
    BY <2>1, <2>5
  <2>7. waypoint[r][t] = k
    BY <1>1, <2>1, <2>2, <2>5, <2>6 DEF Clean
  <2>8. HandledAt(dom[r], t, k)
    <3>1. k # Nowhere
      BY SizeAssumption DEF Locs, Nowhere
    <3> QED BY <1>1, <1>2, <2>7, <3>1 DEF Clean
  <2>9. t < Last
    BY <1>2
  <2> QED BY <2>2, <2>3, <2>4, <2>8, <2>9 DEF HandledAt
<1> HIDE DEF Fits
<1>4. PICK k \in [0..(Last - 1) -> Locs], m \in [0..(Last - 1) -> Locs] :
        \A t \in 0..(Last - 1) : Fits(t, k[t], m[t])
  <2> DEFINE kk == [t \in 0..(Last - 1) |-> CHOOSE c \in Locs : \E n \in Locs : Fits(t, c, n)]
             mm == [t \in 0..(Last - 1) |-> CHOOSE n \in Locs : Fits(t, kk[t], n)]
  <2>1. \A t \in 0..(Last - 1) : \E c, n \in Locs : Fits(t, c, n)
    BY <1>3
  <2>2. \A t \in 0..(Last - 1) : kk[t] \in Locs /\ \E n \in Locs : Fits(t, kk[t], n)
    BY <2>1
  <2> HIDE DEF kk
  <2>3. \A t \in 0..(Last - 1) : mm[t] \in Locs /\ Fits(t, kk[t], mm[t])
    BY <2>2
  <2>4. kk \in [0..(Last - 1) -> Locs] /\ mm \in [0..(Last - 1) -> Locs]
    BY <2>2, <2>3 DEF kk, mm
  <2> HIDE DEF mm
  <2> QED BY <2>3, <2>4
<1>5. \A t \in 0..(Last - 1) : t + 1 < Last => k[t + 1] = m[t]
  <2> SUFFICES ASSUME NEW t \in 0..(Last - 1), t + 1 < Last PROVE k[t + 1] = m[t]
    OBVIOUS
  <2>1. t + 1 \in 0..(Last - 1)
    BY <1>2
  <2>2. PICK u : u = t + 1
    OBVIOUS
  <2>3. Fits(t, k[t], m[t]) /\ Fits(u, k[u], m[u]) /\ k[u] \in Locs
    BY <1>4, <2>1, <2>2
  <2>4. dom[r][<<u, k[u]>>].targets # {}
    BY <2>3 DEF Fits
  <2>5. \A l \in Locs \ {m[t]} : dom[r][<<u, l>>].targets = {}
    BY <2>2, <2>3 DEF Fits
  <2> QED BY <2>2, <2>3, <2>4, <2>5
<1>6. PICK p : p = [t \in Times |-> IF t < Last THEN k[t] ELSE m[Last - 1]]
  OBVIOUS
<1>7. /\ \A t \in 0..(Last - 1) : p[t] = k[t] /\ p[t + 1] = m[t]
      /\ p[Last] = m[Last - 1] /\ p \in Paths
  <2>1. Last - 1 \in 0..(Last - 1)
    BY <1>2
  <2>2. \A t \in 0..(Last - 1) : t \in Times /\ t < Last /\ t + 1 \in Times
    BY <1>2
  <2>3. p[Last] = m[Last - 1]
    BY <1>2, <1>6
  <2>4. ASSUME NEW t \in 0..(Last - 1) PROVE p[t] = k[t] /\ p[t + 1] = m[t]
    <3>1. p[t] = k[t]
      BY <1>6, <2>2
    <3>2. CASE t + 1 < Last
      BY <1>5, <1>6, <2>2, <3>1, <3>2
    <3>3. CASE t + 1 = Last
      <4>1. t = Last - 1
        BY <1>2, <3>3
      <4> QED BY <2>3, <3>1, <3>3, <4>1
    <3> QED BY <1>2, <3>1, <3>2, <3>3
  <2>5. \A t \in Times : t < Last => t \in 0..(Last - 1)
    BY <1>2
  <2>6. p \in Paths
    BY <1>4, <1>6, <2>1, <2>5 DEF Paths
  <2> QED BY <2>3, <2>4, <2>6
<1>8. Admits(dom[r], p)
  BY <1>4, <1>7 DEF Admits, Fits
<1>9. ASSUME NEW q \in Paths, Admits(dom[r], q) PROVE q = p
  <2>1. ASSUME NEW t \in 0..(Last - 1) PROVE q[t] = p[t] /\ q[t + 1] = p[t + 1]
    <3>1. /\ q[t + 1] \in dom[r][<<t, q[t]>>].targets
          /\ \A l \in Locs \ {q[t]} : ~dom[r][<<t, l>>].needed
      BY <1>9 DEF Admits
    <3>2. q[t] = k[t]
      BY <1>4, <3>1 DEF Fits
    <3>3. q[t + 1] = m[t]
      BY <1>4, <3>1, <3>2 DEF Fits
    <3> QED BY <1>7, <3>2, <3>3
  <2>2. ASSUME NEW t \in Times PROVE q[t] = p[t]
    <3>1. CASE t < Last
      <4>1. t \in 0..(Last - 1)
        BY <1>2, <3>1
      <4> QED BY <2>1, <4>1
    <3>2. CASE t = Last
      <4>1. Last - 1 \in 0..(Last - 1) /\ Last - 1 + 1 = t
        BY <1>2, <3>2
      <4> QED BY <2>1, <4>1
    <3> QED BY <1>2, <3>1, <3>2
  <2> QED BY <1>7, <2>2 DEF Paths
<1> QED BY <1>7, <1>8, <1>9


\* Excluding a target leaves the paths without that move.
LEMMA WithoutSplits ==
  ASSUME NEW d \in Domains, NEW x \in Points, x[1] < Last, NEW n \in Locs, NEW p \in Paths,
         NEW new, new = [d EXCEPT ![x].targets = @ \ {n}]
  PROVE  Admits(new, p) <=> Admits(d, p) /\ ~(p[x[1]] = x[2] /\ p[x[1] + 1] = n)
<1>1. x[1] \in 0..(Last - 1) /\ x[2] \in Locs /\ x = <<x[1], x[2]>>
  BY PointFacts, TimesEnd
<1>2. \A y \in Points : /\ new[y].needed = d[y].needed
                        /\ new[y].targets = IF y = x THEN d[y].targets \ {n} ELSE d[y].targets
  BY DEF Domains, View
<1>3. ASSUME NEW t \in 0..(Last - 1)
      PROVE  /\ p[t] \in Locs
             /\ \A l \in Locs : /\ new[<<t, l>>].needed = d[<<t, l>>].needed
                                /\ new[<<t, l>>].targets =
                                     IF t = x[1] /\ l = x[2] THEN d[<<t, l>>].targets \ {n}
                                     ELSE d[<<t, l>>].targets
  <2>1. p[t] \in Locs /\ \A l \in Locs : <<t, l>> \in Points
    BY PathEdges
  <2>2. \A l \in Locs : <<t, l>> = x <=> t = x[1] /\ l = x[2]
    BY <1>1
  <2> QED BY <1>2, <2>1, <2>2
<1>4. ASSUME NEW t \in 0..(Last - 1)
      PROVE  p[t + 1] \in new[<<t, p[t]>>].targets <=>
               p[t + 1] \in d[<<t, p[t]>>].targets /\
                 ~(t = x[1] /\ p[t] = x[2] /\ p[t + 1] = n)
  <2>1. PICK l, u : l = p[t] /\ u = p[t + 1]
    OBVIOUS
  <2>2. new[<<t, l>>].targets = IF t = x[1] /\ l = x[2] THEN d[<<t, l>>].targets \ {n}
                                ELSE d[<<t, l>>].targets
    <3>1. l \in Locs
      BY <2>1, PathEdges
    <3>2. PICK y : y = <<t, l>>
      OBVIOUS
    <3>3. y \in Points /\ (y = x <=> t = x[1] /\ l = x[2])
      BY <1>1, <3>1, <3>2, PathEdges
    <3>4. new[y].targets = IF y = x THEN d[y].targets \ {n} ELSE d[y].targets
      BY <1>2, <3>3
    <3> QED BY <3>2, <3>3, <3>4
  <2>3. u \in new[<<t, l>>].targets <=>
          u \in d[<<t, l>>].targets /\ ~(t = x[1] /\ l = x[2] /\ u = n)
    BY <2>2
  <2> QED BY <2>1, <2>3
<1>5. \A t \in 0..(Last - 1) :
        (\A l \in Locs \ {p[t]} : ~new[<<t, l>>].needed) <=>
        (\A l \in Locs \ {p[t]} : ~d[<<t, l>>].needed)
  BY <1>3
<1>6. ASSUME Admits(new, p) PROVE Admits(d, p) /\ ~(p[x[1]] = x[2] /\ p[x[1] + 1] = n)
  <2>1. Admits(d, p)
    BY <1>4, <1>5, <1>6 DEF Admits
  <2>2. p[x[1] + 1] \in new[<<x[1], p[x[1]]>>].targets
    BY <1>1, <1>6 DEF Admits
  <2>3. ~(p[x[1]] = x[2] /\ p[x[1] + 1] = n)
    BY <1>1, <1>4, <2>2
  <2> QED BY <2>1, <2>3
<1>7. ASSUME Admits(d, p), ~(p[x[1]] = x[2] /\ p[x[1] + 1] = n) PROVE Admits(new, p)
  <2>1. ASSUME NEW t \in 0..(Last - 1)
        PROVE  /\ p[t + 1] \in new[<<t, p[t]>>].targets
               /\ \A l \in Locs \ {p[t]} : ~new[<<t, l>>].needed
    <3>1. /\ p[t + 1] \in d[<<t, p[t]>>].targets
          /\ \A l \in Locs \ {p[t]} : ~d[<<t, l>>].needed
      BY <1>7 DEF Admits
    <3>2. ~(t = x[1] /\ p[t] = x[2] /\ p[t + 1] = n)
      BY <1>7
    <3> QED BY <1>4, <1>5, <3>1, <3>2
  <2> QED BY <2>1 DEF Admits
<1> QED BY <1>6, <1>7

\* Including it leaves those with the move.
LEMMA WithSplits ==
  ASSUME NEW d \in Domains, NEW x \in Points, x[1] < Last, NEW n \in d[x].targets,
         NEW p \in Paths,
         NEW new, new = [d EXCEPT ![x] = [targets |-> {n}, needed |-> TRUE]]
  PROVE  Admits(new, p) <=> Admits(d, p) /\ p[x[1]] = x[2] /\ p[x[1] + 1] = n
<1>1. x[1] \in 0..(Last - 1) /\ x[2] \in Locs /\ x = <<x[1], x[2]>>
  BY PointFacts, TimesEnd
<1>2. \A y \in Points : /\ new[y].needed <=> (y = x \/ d[y].needed)
                        /\ new[y].targets = IF y = x THEN {n} ELSE d[y].targets
  BY DEF Domains, View
<1>3. ASSUME NEW t \in 0..(Last - 1)
      PROVE  /\ p[t] \in Locs
             /\ \A l \in Locs : /\ new[<<t, l>>].needed <=>
                                     (t = x[1] /\ l = x[2]) \/ d[<<t, l>>].needed
                                /\ new[<<t, l>>].targets =
                                     IF t = x[1] /\ l = x[2] THEN {n} ELSE d[<<t, l>>].targets
  <2>1. p[t] \in Locs /\ \A l \in Locs : <<t, l>> \in Points
    BY PathEdges
  <2>2. \A l \in Locs : <<t, l>> = x <=> t = x[1] /\ l = x[2]
    BY <1>1
  <2> QED BY <1>2, <2>1, <2>2
<1>4. ASSUME Admits(new, p)
      PROVE  Admits(d, p) /\ p[x[1]] = x[2] /\ p[x[1] + 1] = n
  <2>1. p[x[1]] = x[2]
    BY <1>1, <1>3, <1>4 DEF Admits
  <2>2. p[x[1] + 1] = n
    <3>1. p[x[1] + 1] \in new[<<x[1], p[x[1]]>>].targets
      BY <1>1, <1>4 DEF Admits
    <3> QED BY <1>1, <1>3, <2>1, <3>1
  <2>3. ASSUME NEW t \in 0..(Last - 1)
        PROVE  /\ p[t + 1] \in d[<<t, p[t]>>].targets
               /\ \A l \in Locs \ {p[t]} : ~d[<<t, l>>].needed
    <3>1. /\ p[t + 1] \in new[<<t, p[t]>>].targets
          /\ \A l \in Locs \ {p[t]} : ~new[<<t, l>>].needed
      BY <1>4 DEF Admits
    <3>2. CASE t = x[1]
      <4>1. <<t, p[t]>> = x /\ p[t + 1] = n
        BY <1>1, <2>1, <2>2, <3>2
      <4> QED BY <1>3, <3>1, <4>1
    <3>3. CASE t # x[1]
      BY <1>3, <3>1, <3>3
    <3> QED BY <3>2, <3>3
  <2> QED BY <2>1, <2>2, <2>3 DEF Admits
<1>5. ASSUME Admits(d, p), p[x[1]] = x[2], p[x[1] + 1] = n
      PROVE  Admits(new, p)
  <2>1. ASSUME NEW t \in 0..(Last - 1)
        PROVE  /\ p[t + 1] \in new[<<t, p[t]>>].targets
               /\ \A l \in Locs \ {p[t]} : ~new[<<t, l>>].needed
    <3>1. /\ p[t + 1] \in d[<<t, p[t]>>].targets
          /\ \A l \in Locs \ {p[t]} : ~d[<<t, l>>].needed
      BY <1>5 DEF Admits
    <3>2. t = x[1] => p[t] = x[2] /\ p[t + 1] = n
      BY <1>5
    <3> QED BY <1>3, <3>1, <3>2
  <2> QED BY <2>1 DEF Admits
<1> QED BY <1>4, <1>5

\* Propagation of a timeline leaves the others alone.
LEMMA PathStepFrame ==
  ASSUME TypeOK, NEW r \in Roles, PropagatePath(r)
  PROVE  /\ phase = "search" /\ r \in Active /\ demands' = demands
         /\ phase' = phase \/ phase' = "failed"
         /\ \A s \in Roles \ {r} : dom'[s] = dom[s]
<1>1. ASSUME NEW new, NEW kept, Narrow(r, new, kept) PROVE \A s \in Roles \ {r} : dom'[s] = dom[s]
  BY <1>1 DEF Narrow, TypeOK
<1>2. FailSpace => demands' = demands /\ phase' = "failed" /\ dom' = dom
  BY DEF FailSpace
<1>3. ASSUME NEW t \in Times, PropagateRow(r, t)
      PROVE  /\ phase = "search" /\ r \in Active /\ demands' = demands
             /\ phase' = phase \/ phase' = "failed"
             /\ \A s \in Roles \ {r} : dom'[s] = dom[s]
  BY <1>1, <1>2, <1>3 DEF PropagateRow
<1>4. ASSUME NEW x \in Points, SkipHandled(r, x) \/ HandleMove(r, x) \/ HandleEmpty(r, x)
      PROVE  /\ phase = "search" /\ r \in Active /\ demands' = demands
             /\ phase' = phase \/ phase' = "failed"
             /\ \A s \in Roles \ {r} : dom'[s] = dom[s]
  <2>1. CASE SkipHandled(r, x)
    BY <2>1 DEF SkipHandled, IsPathRuns
  <2>2. CASE HandleMove(r, x)
    BY <1>1, <1>2, <2>2 DEF HandleMove, IsPathRuns
  <2>3. CASE HandleEmpty(r, x)
    BY <1>1, <2>3 DEF HandleEmpty, IsPathRuns
  <2> QED BY <1>4, <2>1, <2>2, <2>3
<1>5. CASE IsPathDone(r)
  BY <1>2, <1>5 DEF IsPathDone, IsPathRuns
<1> QED BY <1>3, <1>4, <1>5 DEF PropagatePath


(***************************************************************************)
(* Every step is one of the promise, or changes no plan.                   *)
(***************************************************************************)
\* Nothing changes that the plans depend on.
LEMMA SamePlans ==
  ASSUME TypeOK, TypeOK', UNCHANGED <<demands, phase>>, phase \in {"search", "solved"},
         \A s \in Takers(demands), p \in Paths : Admits(dom'[s], p) <=> Admits(dom[s], p)
  PROVE  PossiblePlans' = PossiblePlans
<1>1. \A f : f \in PossiblePlans <=> /\ f \in [Takers(demands) -> Paths]
                                     /\ \A r \in Takers(demands) : Admits(dom[r], f[r])
                                     /\ RespectsAccess(demands, f)
  BY PlansPossible DEF PlansAdmitted
<1>2. \A f : f \in PossiblePlans' <=> /\ f \in [Takers(demands) -> Paths]
                                      /\ \A r \in Takers(demands) : Admits(dom'[r], f[r])
                                      /\ RespectsAccess(demands, f)
  BY PlansPossibleNext DEF PlansAdmitted
<1>3. \A f : f \in PossiblePlans' <=> f \in PossiblePlans
  BY <1>1, <1>2
<1> QED BY <1>3


\* Without an active role posting fails, and there is no plan.
LEMMA FailPosts ==
  ASSUME TypeOK, TypeOK', FailWithoutRoles
  PROVE  Promise!Post
<1>1. phase = "posting" /\ phase' = "failed" /\ demands' = demands /\ Takers(demands) = {}
  BY ActiveTakes DEF FailWithoutRoles
<1>2. PossiblePlans' = {}
  BY <1>1, PlansPossibleNext DEF PlansAdmitted
<1>3. Promise!Takers(demands) = {}
  BY <1>1, SameReference
<1> QED BY <1>1, <1>2, <1>3 DEF Promise!Post

\* When the propagators are posted the plans are those that are demanded.
LEMMA PostingPosts ==
  ASSUME TypeOK, TypeOK', PostInv, DemandsApart, PostPropagators
  PROVE  Promise!Post
<1>1. /\ phase = "posting" /\ UNCHANGED <<demands, dom>> /\ Active # {}
      /\ posted = Len(requirements)
      /\ phase' = IF \E a \in DOMAIN access : Selected(a) = {} THEN "failed" ELSE "search"
  BY DEF PostPropagators
<1>2. PossiblePlans = [Takers(demands) -> Paths] /\ Active = Takers(demands)
  BY <1>1, PlansPossible, ActiveTakes DEF PlansAdmitted, Plans
<1> DEFINE Demanded == {f \in PossiblePlans : /\ Takers(demands) # {}
                                              /\ MeetsRequirements(demands, f)
                                              /\ RespectsAccess(demands, f)}
<1>3. requirements \in Seq(Requirement) /\ requirements = demands.requirements
      /\ DOMAIN requirements = 1..posted
  BY <1>1, DemandsTyped DEF TypeOK, requirements
<1>4. ASSUME NEW f \in [Takers(demands) -> Paths]
      PROVE  MeetsRequirements(demands, f) <=> \A r \in Takers(demands) : Admits(dom[r], f[r])
  <2>1. \A r \in Takers(demands) :
          Admits(dom[r], f[r]) <=>
            \A i \in 1..posted : r \in requirements[i].roles => Visits(f[r], requirements[i])
    BY <1>1, <1>2 DEF PostInv
  <2> QED BY <1>3, <2>1 DEF MeetsRequirements
<1>5. CASE \E a \in DOMAIN access : Selected(a) = {}
  <2>1. PICK a \in DOMAIN access : Selected(a) = {}
    BY <1>5
  <2>2. access[a].roles \cap Takers(demands) = {} /\ access = demands.access
    BY <2>1, SelectedOwn DEF access
  <2>3. \A f : ~RespectsAccess(demands, f)
    BY <2>2 DEF RespectsAccess
  <2>4. PossiblePlans' = {} /\ phase' = "failed"
    BY <1>1, <1>5, PlansPossibleNext DEF PlansAdmitted
  <2> QED BY <1>1, <2>3, <2>4, SameReference DEF Promise!Post
<1>6. CASE ~ \E a \in DOMAIN access : Selected(a) = {}
  <2>1. phase' = "search"
    BY <1>1, <1>6
  <2>2. \A f : f \in PossiblePlans' <=> /\ f \in [Takers(demands) -> Paths]
                                        /\ \A r \in Takers(demands) : Admits(dom[r], f[r])
                                        /\ RespectsAccess(demands, f)
    BY <1>1, <2>1, PlansPossibleNext DEF PlansAdmitted
  <2>3. \A f : f \in PossiblePlans' <=> f \in Demanded
    BY <1>1, <1>2, <1>4, <2>2
  <2>4. PossiblePlans' = Demanded
    BY <2>3
  <2>5. Demanded = {f \in PossiblePlans : /\ Promise!Takers(demands) # {}
                                          /\ Promise!MeetsRequirements(demands, f)
                                          /\ Promise!RespectsAccess(demands, f)}
    BY SameReference
  <2> HIDE DEF Demanded
  <2> QED BY <1>1, <2>1, <2>4, <2>5 DEF Promise!Post
<1> QED BY <1>5, <1>6

\* Propagation of a timeline keeps the plans, and fails if there is none.
LEMMA PropagationKeeps ==
  ASSUME TypeOK, TypeOK', PathInv, NEW r \in Roles, PropagatePath(r)
  PROVE  Promise!Fail \/ (PossiblePlans' = PossiblePlans /\ UNCHANGED <<demands, phase>>)
<1>1. /\ phase = "search" /\ r \in Takers(demands) /\ demands' = demands
      /\ phase' = phase \/ phase' = "failed"
      /\ \A s \in Roles \ {r} : dom'[s] = dom[s]
  BY PathStepFrame, ActiveTakes
<1>2. /\ AdmittedPaths(r)' = AdmittedPaths(r)
      /\ phase' = "failed" => AdmittedPaths(r) = {}
  BY StepKeepsPaths
<1>3. CASE phase' = "failed"
  <2>1. \A f : f \notin PossiblePlans
    <3>1. \A p \in Paths : ~Admits(dom[r], p)
      BY <1>2, <1>3 DEF AdmittedPaths
    <3> QED BY <1>1, <3>1, PlansPossible DEF PlansAdmitted
  <2>2. PossiblePlans' = {}
    BY <1>3, PlansPossibleNext DEF PlansAdmitted
  <2> QED BY <1>1, <1>3, <2>1, <2>2 DEF Promise!Fail
<1>4. CASE phase' = phase
  <2>1. \A p \in Paths : Admits(dom'[r], p) <=> Admits(dom[r], p)
    BY <1>2 DEF AdmittedPaths
  <2>2. \A s \in Takers(demands), p \in Paths : Admits(dom'[s], p) <=> Admits(dom[s], p)
    BY <1>1, <2>1 DEF Takers
  <2>3. PossiblePlans' = PossiblePlans
    BY <1>1, <1>4, <2>2, SamePlans
  <2> QED BY <1>1, <1>4, <2>3
<1> QED BY <1>1, <1>3, <1>4

\* So does a restriction.
LEMMA RestrictionKeeps ==
  ASSUME DemandsApart, TypeOK, TypeOK', PathInv, AccessInv,
         NEW a \in DOMAIN access, RestrictInEdges(a)
  PROVE  Promise!Fail \/ (PossiblePlans' = PossiblePlans /\ UNCHANGED <<demands, phase>>)
<1>1. /\ phase = "search" /\ UNCHANGED <<demands, dom>>
      /\ phase' = phase \/ phase' = "failed"
  BY DEF RestrictInEdges, FailSpace
<1>2. CASE phase' = "failed"
  <2>1. PossiblePlans = {}
    BY <1>2, RestrictionLosesNone
  <2>2. PossiblePlans' = {}
    BY <1>2, PlansPossibleNext DEF PlansAdmitted
  <2> QED BY <1>1, <1>2, <2>1, <2>2 DEF Promise!Fail
<1>3. CASE phase' = phase
  <2>1. PossiblePlans' = PossiblePlans
    BY <1>1, <1>3, SamePlans
  <2> QED BY <1>1, <1>3, <2>1
<1> QED BY <1>1, <1>2, <1>3

\* A branching splits the plans.
LEMMA BranchDecides ==
  ASSUME TypeOK, TypeOK', PathInv, NEW r \in Roles, NEW x \in Points, NEW n \in Locs,
         Branch(r, x, n)
  PROVE  Promise!Decide
<1>1. /\ phase = "search" /\ UNCHANGED <<demands, phase>> /\ r \in Takers(demands)
      /\ ~Assigned(dom[r][x]) /\ n \in dom[r][x].targets
      /\ Narrow(r, Without(r, x, n), {}) \/ Narrow(r, With(r, x, n), {})
  BY ActiveTakes DEF Branch
<1>2. x[1] < Last /\ x[1] \in 0..(NumTimes - 2) /\ x[2] \in Locs
  <2>1. x[1] # Last
    BY <1>1 DEF PathInv, NoEdgeAtEnd, Assigned
  <2>2. x[1] \in 0..Last /\ x[2] \in Locs /\ NumTimes \in Nat
    BY PointFacts, TimesEnd, SizeAssumption
  <2> QED BY <2>1, <2>2 DEF Last
<1>3. dom[r] \in Domains /\ \A s \in Takers(demands) : s \in Roles
  BY DEF TypeOK, Domains, Takers
<1>4. \A f : f \in PossiblePlans <=> /\ f \in [Takers(demands) -> Paths]
                                     /\ \A s \in Takers(demands) : Admits(dom[s], f[s])
                                     /\ RespectsAccess(demands, f)
  BY <1>1, PlansPossible DEF PlansAdmitted
<1>5. \A f : f \in PossiblePlans' <=> /\ f \in [Takers(demands) -> Paths]
                                      /\ \A s \in Takers(demands) : Admits(dom'[s], f[s])
                                      /\ RespectsAccess(demands, f)
  BY <1>1, PlansPossibleNext DEF PlansAdmitted
<1>6. ASSUME Narrow(r, Without(r, x, n), {})
      PROVE  PossiblePlans' = {f \in PossiblePlans : ~Moves(f, r, x[1], x[2], n)}
  <2>1. \A s \in Roles : dom'[s] = IF s = r THEN Without(r, x, n) ELSE dom[s]
    BY <1>6 DEF Narrow, TypeOK
  <2>2. \A p \in Paths : Admits(Without(r, x, n), p) <=>
                           Admits(dom[r], p) /\ ~(p[x[1]] = x[2] /\ p[x[1] + 1] = n)
    BY <1>2, <1>3, WithoutSplits DEF Without
  <2>3. \A f : f \in PossiblePlans' <=> f \in PossiblePlans /\ ~Moves(f, r, x[1], x[2], n)
    <3> SUFFICES ASSUME NEW f \in [Takers(demands) -> Paths]
                 PROVE  (\A s \in Takers(demands) : Admits(dom'[s], f[s])) <=>
                          /\ \A s \in Takers(demands) : Admits(dom[s], f[s])
                          /\ ~Moves(f, r, x[1], x[2], n)
      BY <1>4, <1>5
    <3>1. Admits(dom'[r], f[r]) <=> Admits(dom[r], f[r]) /\ ~Moves(f, r, x[1], x[2], n)
      BY <1>1, <2>1, <2>2 DEF Moves
    <3>2. \A s \in Takers(demands) : s # r => dom'[s] = dom[s]
      BY <1>3, <2>1
    <3> QED BY <1>1, <3>1, <3>2
  <2> QED BY <2>3
<1>7. ASSUME Narrow(r, With(r, x, n), {})
      PROVE  PossiblePlans' = {f \in PossiblePlans : Moves(f, r, x[1], x[2], n)}
  <2>1. \A s \in Roles : dom'[s] = IF s = r THEN With(r, x, n) ELSE dom[s]
    BY <1>7 DEF Narrow, TypeOK
  <2>2. \A p \in Paths : Admits(With(r, x, n), p) <=>
                           Admits(dom[r], p) /\ p[x[1]] = x[2] /\ p[x[1] + 1] = n
    BY <1>1, <1>2, <1>3, WithSplits DEF With
  <2>3. \A f : f \in PossiblePlans' <=> f \in PossiblePlans /\ Moves(f, r, x[1], x[2], n)
    <3> SUFFICES ASSUME NEW f \in [Takers(demands) -> Paths]
                 PROVE  (\A s \in Takers(demands) : Admits(dom'[s], f[s])) <=>
                          /\ \A s \in Takers(demands) : Admits(dom[s], f[s])
                          /\ Moves(f, r, x[1], x[2], n)
      BY <1>4, <1>5
    <3>1. Admits(dom'[r], f[r]) <=> Admits(dom[r], f[r]) /\ Moves(f, r, x[1], x[2], n)
      BY <1>1, <2>1, <2>2 DEF Moves
    <3>2. \A s \in Takers(demands) : s # r => dom'[s] = dom[s]
      BY <1>3, <2>1
    <3> QED BY <1>1, <3>1, <3>2
  <2> QED BY <2>3
<1>8. /\ \A f, t, l : Promise!Moves(f, r, t, l, n) <=> Moves(f, r, t, l, n)
      /\ Promise!Takers(demands) = Takers(demands) /\ Promise!Locs = Locs
  BY SameReference DEF Promise!Locs, Locs
<1>9. \/ PossiblePlans' = {f \in PossiblePlans : Promise!Moves(f, r, x[1], x[2], n)}
      \/ PossiblePlans' = {f \in PossiblePlans : ~Promise!Moves(f, r, x[1], x[2], n)}
  BY <1>1, <1>6, <1>7, <1>8
<1> QED BY <1>1, <1>2, <1>8, <1>9 DEF Promise!Decide


\* When the search is over the mobile roles have one path each.
LEMMA SolvingFinishes ==
  ASSUME DemandsApart, TypeOK, TypeOK', PathInv, CleanInv, AccessInv, Solve
  PROVE  Promise!Finish
<1>1. /\ phase = "search" /\ phase' = "solved" /\ UNCHANGED <<demands, dom>>
      /\ Quiet /\ AllAssigned(mobile \cap Active)
      /\ mobile = demands.mobile /\ Active = Takers(demands)
  BY ActiveTakes DEF Solve, mobile
<1>2. \A f : f \in PossiblePlans <=> /\ f \in [Takers(demands) -> Paths]
                                     /\ \A r \in Takers(demands) : Admits(dom[r], f[r])
                                     /\ RespectsAccess(demands, f)
  BY <1>1, PlansPossible DEF PlansAdmitted
<1>3. \A f : f \in PossiblePlans' <=> /\ f \in [Takers(demands) -> Paths]
                                      /\ \A r \in Takers(demands) : Admits(dom[r], f[r])
                                      /\ RespectsAccess(demands, f)
  BY <1>1, PlansPossibleNext DEF PlansAdmitted
<1>4. PossiblePlans' = PossiblePlans
  <2>1. \A f : f \in PossiblePlans' <=> f \in PossiblePlans
    BY <1>2, <1>3
  <2> QED BY <2>1
<1>5. ASSUME NEW r \in Takers(demands) \cap demands.mobile
      PROVE  \E p \in Paths : Admits(dom[r], p) /\ \A q \in Paths : Admits(dom[r], q) => q = p
  <2>1. r \in Active /\ \A x \in Points : Assigned(dom[r][x])
    BY <1>1 DEF AllAssigned
  <2> QED BY <1>1, <2>1, OnePath
<1>6. ASSUME NEW f \in PossiblePlans, NEW g \in PossiblePlans,
             NEW r \in Takers(demands) \cap demands.mobile
      PROVE  f[r] = g[r]
  <2>1. /\ f[r] \in Paths /\ Admits(dom[r], f[r])
        /\ g[r] \in Paths /\ Admits(dom[r], g[r])
    BY <1>2
  <2> QED BY <1>5, <2>1
<1>7. ASSUME Takers(demands) \subseteq demands.mobile PROVE PossiblePlans # {}
  <2>1. PICK f : f = [r \in Takers(demands) |-> CHOOSE p \in Paths : Admits(dom[r], p)]
    OBVIOUS
  <2>2. \A r \in Takers(demands) : f[r] \in Paths /\ Admits(dom[r], f[r])
    BY <1>5, <1>7, <2>1
  <2>3. f \in [Takers(demands) -> Paths]
    BY <2>1, <2>2
  <2>4. ASSUME NEW a \in DOMAIN access
        PROVE  LET R == access[a].roles \cap Takers(demands)
                   arrivals == Cardinality(Arrivals(f, R, access[a].loc))
               IN  R # {} /\ access[a].min <= arrivals /\ arrivals <= access[a].max
    <3> DEFINE R == access[a].roles \cap Takers(demands)
    <3>1. /\ Selected(a) = R /\ Selected(a) # {} /\ a \notin accessDue
          /\ access[a].min \in Nat /\ access[a].max \in Nat
      BY <1>1, SelectedOwn DEF AccessInv, Quiet, Access
    <3>2. AllAssigned(Selected(a))
      BY <1>1, <1>7, <3>1 DEF AllAssigned
    <3>3. PICK m, n : /\ m = Cardinality(InEdges(a, rowsCounted[a] \cup rowsDue[a]))
                      /\ n = Cardinality(Arrivals(f, R, access[a].loc))
      OBVIOUS
    <3>4. m \in Nat /\ n \in Nat /\ m = n
      BY <1>1, <2>2, <2>3, <3>2, <3>3, CountOfPlan
    <3>5. ~RestrictionFails(a, m)
      <4>1. /\ rowsDue[a] = {}
            /\ ~RestrictionFails(a, Cardinality(InEdges(a, rowsCounted[a])))
        BY <1>1, <3>1 DEF AccessInv
      <4>2. rowsCounted[a] \cup rowsDue[a] = rowsCounted[a]
        BY <4>1
      <4>3. m = Cardinality(InEdges(a, rowsCounted[a]))
        BY <3>3, <4>2
      <4> QED BY <4>1, <4>3
    <3>6. ~(m > access[a].max) /\ ~(m < access[a].min)
      BY <3>2, <3>5 DEF RestrictionFails
    <3>7. access[a].min <= n /\ n <= access[a].max
      BY <3>1, <3>4, <3>6
    <3> QED BY <3>1, <3>3, <3>7
  <2>5. RespectsAccess(demands, f)
    BY <2>4 DEF RespectsAccess, access
  <2> QED BY <1>2, <2>2, <2>3, <2>5
<1> QED BY <1>1, <1>4, <1>6, <1>7, SameReference DEF Promise!Finish

\* The search starts with all plans.
LEMMA SearchStarts == Init => Promise!Init
<1> SUFFICES ASSUME Init PROVE Promise!Init
  OBVIOUS
<1>1. PossiblePlans = Plans(demands) /\ phase = "posting" /\ demands \in DemandSets
  BY InitTyped, PlansPossible DEF Init, PlansAdmitted
<1> QED BY <1>1, SameReference DEF Promise!Init

\* Every step of the search is a step of the promise, or keeps the plans.
LEMMA StepKeepsPromise ==
  ASSUME DemandsApart, TypeOK, TypeOK', PathInv, CleanInv, PostInv, AccessInv, [Next]_vars
  PROVE  [Promise!Next]_<<demands, PossiblePlans, phase>>
<1> DEFINE Same == PossiblePlans' = PossiblePlans /\ UNCHANGED <<demands, phase>>
<1>1. CASE FailWithoutRoles
  BY <1>1, FailPosts DEF Promise!Next
<1>2. CASE PostPropagators
  BY <1>2, PostingPosts DEF Promise!Next
<1>3. CASE PostRequirement
  <2>1. phase = "posting" /\ UNCHANGED <<demands, phase>>
    BY <1>3 DEF PostRequirement
  <2>2. PossiblePlans = Plans(demands) /\ PossiblePlans' = Plans(demands)
    BY <2>1, PlansPossible, PlansPossibleNext DEF PlansAdmitted
  <2> QED BY <2>1, <2>2
<1>4. ASSUME NEW r \in Roles, PropagatePath(r)
      PROVE  Promise!Next \/ Same
  BY <1>4, PropagationKeeps DEF Promise!Next
<1>5. ASSUME NEW a \in DOMAIN access, RestrictInEdges(a)
      PROVE  Promise!Next \/ Same
  BY <1>5, RestrictionKeeps DEF Promise!Next
<1>6. CASE Decide
  BY <1>6, BranchDecides DEF Decide, Promise!Next
<1>7. CASE Solve
  BY <1>7, SolvingFinishes DEF Promise!Next
<1>8. CASE UNCHANGED vars
  BY <1>8 DEF vars, PossiblePlans, AdmittedPaths, Active, RequirementsOf, requirements
<1> QED
  BY <1>1, <1>2, <1>3, <1>4, <1>5, <1>6, <1>7, <1>8 DEF Next, Posting, Propagate

\* The search for timelines implements its promise when the requirements of a
\* role do not share a time point: what is posted admits exactly the plans that
\* are demanded, propagation in any order loses none of them and fails only if
\* none is left, a branching splits them, and a solution of the timelines of
\* all mobile roles is one plan.
THEOREM SearchKeepsPromise ==
  ASSUME DemandsApart
  PROVE  Spec => KeepsPromise
<1>1. TypeOK /\ TypeOK' /\ PathInv /\ CleanInv /\ PostInv /\ AccessInv /\ [Next]_vars =>
        [Promise!Next]_<<demands, PossiblePlans, phase>>
  BY StepKeepsPromise
<1> QED
  BY <1>1, SearchStarts, TypeCorrect, PathInvariance, CleanInvariance, CountInvariance, PTL
  DEF Spec, KeepsPromise, Promise!Spec
=============================================================================
