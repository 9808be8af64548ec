----------------------------- MODULE TimelineCSP -----------------------------
(***************************************************************************)
(* The timelines of TransportNetwork: postRoleAssignments with the         *)
(* propagators IsPath and InEdgesRestriction, run by Gecode (external) in  *)
(* any order together with its own propagators, and the branching on the   *)
(* timelines of mobile roles.                                              *)
(*                                                                         *)
(* A timeline is a set variable for every location and time point: the     *)
(* locations at the next time point that the role moves to.  Its           *)
(* cardinality is at most 1, so it is given by the upper bound of the set  *)
(* and by whether the set must have an element.                            *)
(***************************************************************************)
EXTENDS TimelinePlans

Last == NumTimes - 1
Points == Times \X Locs

VARIABLES
  demands,      \* the demands on this search
  phase,        \* posting, search, solved or failed
  posted,       \* how many requirements have been posted
  dom,          \* the domain of every set variable
  queue,        \* IsPath: assigned variables to be processed
  waypoint,     \* IsPath: mAssignedTimepoints, the location of a handled row
  running,      \* the role whose IsPath propagator is running, if any
  rowsDue,      \* InEdgesRestriction: mAssignedTimepointIndices
  rowsCounted,  \* InEdgesRestriction: the keys of mAssignedTimepoints
  accessDue     \* the InEdgesRestriction propagators that are scheduled

vars == <<demands, phase, posted, dom, queue, waypoint, running, rowsDue,
          rowsCounted, accessDue>>

Nowhere == -1   \* a row without a waypoint

requirements == demands.requirements
access == demands.access
mobile == demands.mobile

(***************************************************************************)
(* The domain of a set variable, and what is told to it.  A tell that      *)
(* fails leaves the variable as it is (Gecode); whether that fails the     *)
(* space is up to the caller.                                              *)
(***************************************************************************)
View == [targets : SUBSET Locs, needed : BOOLEAN]

Assigned(v) == v.targets = {} \/ (v.needed /\ \E n \in Locs : v.targets = {n})

CannotEmpty(v) == v.needed
Emptied(v) == IF CannotEmpty(v) THEN v ELSE [v EXCEPT !.targets = {}]

CannotClamp(v, S) == v.needed /\ v.targets \cap S = {}
Clamped(v, S) == IF CannotClamp(v, S) THEN v ELSE [v EXCEPT !.targets = @ \cap S]

Needed(v) == IF v.targets = {} THEN v ELSE [v EXCEPT !.needed = TRUE]

(***************************************************************************)
(* postRoleAssignments: base constraints and requirements.                 *)
(***************************************************************************)
RequirementsOf(r) == {i \in DOMAIN requirements : r \in requirements[i].roles}

\* computeActiveRoles: roles that are required more than once.
Active == {r \in Roles : Cardinality(RequirementsOf(r)) > 1}

\* Mutant: the exclusion of the points after the next leaves their first.
BaseViewWide(t) == [targets |-> IF t < Last THEN 0..NumLocs ELSE {}, needed |-> FALSE]

\* Edges lead to the next time point only; at the last there are none.
BaseView(t) == [targets |-> IF t < Last THEN Locs ELSE {}, needed |-> FALSE]

Init ==
  /\ demands \in DemandSets
  /\ phase = "posting"
  /\ posted = 0
  /\ dom = [r \in Roles |-> [x \in Points |-> BaseView(x[1])]]
  /\ queue = [r \in Roles |-> {}]
  /\ waypoint = [r \in Roles |-> [t \in Times |-> Nowhere]]
  /\ running = {}
  /\ rowsDue = [a \in DOMAIN access |-> {}]
  /\ rowsCounted = [a \in DOMAIN access |-> {}]
  /\ accessDue = {}

\* A requirement for an instant: the role is at its location, and so all
\* edges of the previous time point lead there.
AtInstant(d, q) ==
  [x \in Points |->
     IF x[1] = q.from /\ x[2] # q.loc THEN Emptied(d[x])
     ELSE IF x[1] = q.from - 1 THEN Clamped(d[x], {q.loc})
     ELSE d[x]]

\* A requirement for an interval activates the edges between its time points;
\* nothing starts elsewhere where they end.
DuringInterval(d, q) ==
  [x \in Points |->
     IF x[2] = q.loc /\ x[1] \in q.from..(q.to - 1)
       THEN Needed(Clamped(d[x], {q.loc}))
     ELSE IF x[2] # q.loc /\ x[1] \in (q.from + 1)..q.to THEN Emptied(d[x])
     ELSE d[x]]

Activated(d, q) == IF q.from = q.to THEN AtInstant(d, q) ELSE DuringInterval(d, q)

\* No role is active: the space fails.
FailWithoutRoles ==
  /\ phase = "posting" /\ posted = 0
  /\ Active = {}
  /\ phase' = "failed"
  /\ UNCHANGED <<demands, posted, dom, queue, waypoint, running, rowsDue,
                 rowsCounted, accessDue>>

\* The tells of one requirement, for each of its active roles; whether they
\* succeed is not looked at.
PostRequirement ==
  /\ phase = "posting" /\ Active # {} /\ posted < Len(requirements)
  /\ LET q == requirements[posted + 1] IN
       dom' = [r \in Roles |->
                 IF r \in q.roles \cap Active THEN Activated(dom[r], q) ELSE dom[r]]
  /\ posted' = posted + 1
  /\ UNCHANGED <<demands, phase, queue, waypoint, running, rowsDue, rowsCounted,
                 accessDue>>

\* applyAccessConstraints: the timelines that a restriction is posted for
\* accumulate over the models that a location is restricted for.
SameLocation(a) == {b \in DOMAIN access : b <= a /\ access[b].loc = access[a].loc}
Selected(a) == (UNION {access[b].roles : b \in SameLocation(a)}) \cap Active

\* The propagators are posted: IsPath queues what is assigned already, an
\* InEdgesRestriction is scheduled, and fails if it has no timeline.
PostPropagators ==
  /\ phase = "posting" /\ Active # {} /\ posted = Len(requirements)
  /\ queue' = [r \in Roles |-> IF r \in Active THEN {x \in Points : Assigned(dom[r][x])}
                               ELSE {}]
  /\ accessDue' = DOMAIN access
  /\ phase' = IF \E a \in DOMAIN access : Selected(a) = {} THEN "failed" ELSE "search"
  /\ UNCHANGED <<demands, posted, dom, waypoint, running, rowsDue, rowsCounted>>

(***************************************************************************)
(* Advisors: IsPath::advise queues a variable that becomes assigned,       *)
(* InEdgesRestriction::advise a time point when all variables of the       *)
(* selected timelines become assigned there.                               *)
(***************************************************************************)
Fresh(r, new) == {x \in Points : Assigned(new[x]) /\ ~Assigned(dom[r][x])}

CompleteRows(a, r, new) ==
  {t \in Times : \A s \in Selected(a), l \in Locs :
     Assigned(IF s = r THEN new[<<t, l>>] ELSE dom[s][<<t, l>>])}

RowsAdvised(a, r, new) ==
  IF r \in Selected(a) THEN {x[1] : x \in Fresh(r, new)} \cap CompleteRows(a, r, new) ELSE {}

\* Role r's timeline is narrowed to new; kept is what stays in its queue.
Narrow(r, new, kept) ==
  /\ dom' = [dom EXCEPT ![r] = new]
  /\ queue' = [queue EXCEPT ![r] = kept \cup Fresh(r, new)]
  /\ rowsDue' = [a \in DOMAIN access |-> rowsDue[a] \cup RowsAdvised(a, r, new)]
  /\ accessDue' = accessDue \cup {a \in DOMAIN access : RowsAdvised(a, r, new) # {}}

\* A propagator fails: the space is not looked at any more.
FailSpace ==
  /\ phase' = "failed" /\ running' = {}
  /\ UNCHANGED <<demands, posted, dom, queue, waypoint, rowsDue, rowsCounted, accessDue>>

(***************************************************************************)
(* Gecode's propagators for the cardinality of the variables of a time     *)
(* point (external): exactly one has an element, except at the last.       *)
(***************************************************************************)
NeededAt(r, t) == {l \in Locs : dom[r][<<t, l>>].needed}
OpenAt(r, t) == {l \in Locs : dom[r][<<t, l>>].targets # {}}

RowFails(r, t) ==
  \/ OpenAt(r, t) = {}
  \/ \E l, k \in NeededAt(r, t) : l # k

\* The only place left is needed, or all but the needed one are emptied.
RowNarrowed(r, t) ==
  [x \in Points |->
     IF x[1] # t THEN dom[r][x]
     ELSE IF OpenAt(r, t) = {x[2]} THEN Needed(dom[r][x])
     ELSE IF NeededAt(r, t) # {} THEN Emptied(dom[r][x])
     ELSE dom[r][x]]

RowPending(r, t) == RowFails(r, t) \/ RowNarrowed(r, t) # dom[r]

PropagateRow(r, t) ==
  /\ phase = "search" /\ running = {} /\ r \in Active /\ t < Last
  /\ RowPending(r, t)
  /\ IF RowFails(r, t) THEN FailSpace
     ELSE /\ Narrow(r, RowNarrowed(r, t), queue[r])
          /\ UNCHANGED <<demands, phase, posted, waypoint, running, rowsCounted>>

(***************************************************************************)
(* IsPath::propagate: one action is one turn of its loop, which is not     *)
(* interrupted by other propagators.                                       *)
(***************************************************************************)
\* prev > 0: whether the time point before is told of a move from x.
\* (The index of a variable is time * locations + location.)
PredecessorsTold(x) == (x[1] - 1) * NumLocs + x[2] > 0

\* constrainSametimeView and both calls of disableSametimeView, for a move
\* from x to location n: the variables that are told something.
Clamps(x) == {y \in Points : PredecessorsTold(x) /\ y[1] = x[1] - 1}

Empties(x, n) ==
  {y \in Points : (y[1] = x[1] /\ y[2] # x[2]) \/ (y[1] = x[1] + 1 /\ y[2] # n)}

MoveFails(d, x, n) ==
  \/ \E y \in Clamps(x) : CannotClamp(d[y], {x[2]})
  \/ \E y \in Empties(x, n) : CannotEmpty(d[y])

MoveNarrowed(d, x, n) ==
  [y \in Points |->
     IF y \in Clamps(x) THEN Clamped(d[y], {x[2]})
     ELSE IF y \in Empties(x, n) THEN Emptied(d[y])
     ELSE d[y]]

\* excludeTarget: no edge leads to l from time point t; the loop ends at the
\* first variable where that fails.
CannotExclude(v, l) == CannotClamp(v, Locs \ {l})

TargetExcluded(d, t, l) ==
  [y \in Points |->
     IF y[1] = t /\ \A k \in 0..y[2] : ~CannotExclude(d[<<t, k>>], l)
       THEN Clamped(d[y], Locs \ {l})
     ELSE d[y]]

IsPathRuns(r) == phase = "search" /\ r \in Active /\ running \subseteq {r}

\* Mutant: the entry is left in the queue.
SkipHandledForEver(r, x) ==
  /\ IsPathRuns(r) /\ x \in queue[r]
  /\ waypoint[r][x[1]] # Nowhere
  /\ running' = {r}
  /\ UNCHANGED <<demands, phase, posted, dom, queue, waypoint, rowsDue, rowsCounted,
                 accessDue>>

\* The time point has been handled: nothing to do.
SkipHandled(r, x) ==
  /\ IsPathRuns(r) /\ x \in queue[r]
  /\ waypoint[r][x[1]] # Nowhere
  /\ queue' = [queue EXCEPT ![r] = @ \ {x}]
  /\ running' = {r}
  /\ UNCHANGED <<demands, phase, posted, dom, waypoint, rowsDue, rowsCounted, accessDue>>

\* There is a move from x: it is the only one at its time point, and the only
\* one that moves to and from there.
HandleMove(r, x) ==
  /\ IsPathRuns(r) /\ x \in queue[r]
  /\ waypoint[r][x[1]] = Nowhere
  /\ \E n \in Locs :
       /\ dom[r][x].targets = {n}
       /\ IF MoveFails(dom[r], x, n) THEN FailSpace
          ELSE /\ Narrow(r, MoveNarrowed(dom[r], x, n), queue[r] \ {x})
               /\ waypoint' = [waypoint EXCEPT ![r][x[1]] = x[2]]
               /\ running' = {r}
               /\ UNCHANGED <<demands, phase, posted, rowsCounted>>

\* Mutants: the first time point is left out; the last one is not.
ExcludesLate(x) == 1 < x[1] /\ x[1] < Last
ExcludesAtEnd(x) == 0 < x[1]

\* Without a move from x there is none to x, unless x is at the last time point.
Excludes(x) == 0 < x[1] /\ x[1] < Last

\* There is no move from x.
HandleEmpty(r, x) ==
  /\ IsPathRuns(r) /\ x \in queue[r]
  /\ waypoint[r][x[1]] = Nowhere
  /\ dom[r][x].targets = {}
  /\ Narrow(r, IF Excludes(x) THEN TargetExcluded(dom[r], x[1] - 1, x[2]) ELSE dom[r],
            queue[r] \ {x})
  /\ running' = {r}
  /\ UNCHANGED <<demands, phase, posted, waypoint, rowsCounted>>

\* isValidWaypointSequence: no time point without a waypoint between two.
ValidWaypoints(w) ==
  \A t1, t2, t3 \in Times :
    t1 < t2 /\ t2 < t3 /\ w[t1] # Nowhere /\ w[t3] # Nowhere => w[t2] # Nowhere

IsPathDone(r) ==
  /\ IsPathRuns(r) /\ running = {r} /\ queue[r] = {}
  /\ IF (\A x \in Points : Assigned(dom[r][x])) /\ ~ValidWaypoints(waypoint[r])
       THEN FailSpace
       ELSE /\ running' = {}
            /\ UNCHANGED <<demands, phase, posted, dom, queue, waypoint, rowsDue,
                           rowsCounted, accessDue>>

(***************************************************************************)
(* InEdgesRestriction::propagate.                                          *)
(***************************************************************************)
\* The moves into the location; a timeline that was selected for more than
\* one model counts as often.
InEdges(a, rows) ==
  {e \in SameLocation(a) \X Active \X Points :
     /\ e[2] \in access[e[1]].roles /\ e[3][1] \in rows
     /\ e[3][2] # access[a].loc /\ dom[e[2]][e[3]].targets = {access[a].loc}}

\* (Mutant: the maximum itself is too much.)
AllAssigned(R) == \A r \in R, x \in Points : Assigned(dom[r][x])

RestrictionFailsEarly(a, count) ==
  \/ count >= access[a].max
  \/ AllAssigned(Selected(a)) /\ count < access[a].min

RestrictionFails(a, count) ==
  \/ count > access[a].max
  \/ AllAssigned(Selected(a)) /\ count < access[a].min

RestrictInEdges(a) ==
  /\ phase = "search" /\ running = {} /\ a \in accessDue
  /\ LET counted == rowsCounted[a] \cup rowsDue[a] IN
       IF RestrictionFails(a, Cardinality(InEdges(a, counted))) THEN FailSpace
       ELSE /\ rowsCounted' = [rowsCounted EXCEPT ![a] = counted]
            /\ rowsDue' = [rowsDue EXCEPT ![a] = {}]
            /\ accessDue' = accessDue \ {a}
            /\ UNCHANGED <<demands, phase, posted, dom, queue, waypoint, running>>

(***************************************************************************)
(* Branching: when nothing is left to propagate, a value is excluded from  *)
(* or included in an unassigned variable of a mobile role (SET_VAL_RND_EXC)*)
(* in a clone of the space.                                                *)
(***************************************************************************)
Quiet ==
  /\ running = {} /\ accessDue = {}
  /\ \A r \in Active : queue[r] = {} /\ \A t \in 0..(Last - 1) : ~RowPending(r, t)

Without(r, x, n) == [dom[r] EXCEPT ![x].targets = @ \ {n}]
With(r, x, n) == [dom[r] EXCEPT ![x] = [targets |-> {n}, needed |-> TRUE]]

\* The copies of the propagators start with empty queues.
Branch(r, x, n) ==
  /\ phase = "search" /\ Quiet
  /\ r \in mobile \cap Active /\ ~Assigned(dom[r][x]) /\ n \in dom[r][x].targets
  /\ \/ Narrow(r, Without(r, x, n), {})
     \/ Narrow(r, With(r, x, n), {})
  /\ UNCHANGED <<demands, phase, posted, waypoint, running, rowsCounted>>

\* Nothing is left to branch on.
Solve ==
  /\ phase = "search" /\ Quiet /\ AllAssigned(mobile \cap Active)
  /\ phase' = "solved"
  /\ UNCHANGED <<demands, posted, dom, queue, waypoint, running, rowsDue,
                 rowsCounted, accessDue>>

Posting == FailWithoutRoles \/ PostRequirement \/ PostPropagators

PropagatePath(r) ==
  \/ \E t \in Times : PropagateRow(r, t)
  \/ \E x \in Points : SkipHandled(r, x) \/ HandleMove(r, x) \/ HandleEmpty(r, x)
  \/ IsPathDone(r)

Propagate ==
  \/ \E r \in Roles : PropagatePath(r)
  \/ \E a \in DOMAIN access : RestrictInEdges(a)

Decide == \E r \in Roles, x \in Points, n \in Locs : Branch(r, x, n)

Next == Posting \/ Propagate \/ Decide \/ Solve

Spec == Init /\ [][Next]_vars

\* The search runs on until it has found a solution or failed.
FairSpec == Spec /\ WF_vars(Next)

(***************************************************************************)
(* Properties.                                                             *)
(***************************************************************************)
TypeOK ==
  /\ demands \in DemandSets
  /\ phase \in {"posting", "search", "solved", "failed"}
  /\ posted \in 0..Len(requirements)
  /\ dom \in [Roles -> [Points -> View]]
  /\ queue \in [Roles -> SUBSET Points]
  /\ waypoint \in [Roles -> [Times -> Locs \cup {Nowhere}]]
  /\ running \subseteq Roles
  /\ rowsDue \in [DOMAIN access -> SUBSET Times]
  /\ rowsCounted \in [DOMAIN access -> SUBSET Times]
  /\ accessDue \subseteq DOMAIN access

\* A domain admits a path: its moves are possible, and no other is needed.
Admits(d, p) ==
  \A t \in 0..(Last - 1) :
    /\ p[t + 1] \in d[<<t, p[t]>>].targets
    /\ \A l \in Locs \ {p[t]} : ~d[<<t, l>>].needed

AdmittedPaths(r) == {p \in Paths : Admits(dom[r], p)}

\* No propagation on a timeline, in any order, takes a path from it; and if
\* it fails the space, no path was left.
PathsKept ==
  [][\A r \in Roles : PropagatePath(r) =>
       /\ AdmittedPaths(r)' = AdmittedPaths(r)
       /\ phase' = "failed" => AdmittedPaths(r) = {}]_vars

\* The plans that are possible as far as domains and access constraints tell.
PossiblePlans ==
  CASE phase = "posting" -> [Active -> Paths]
    [] phase = "failed" -> {}
    [] OTHER ->
       {f \in [Active -> UNION {AdmittedPaths(r) : r \in Active}] :
          /\ \A r \in Active : Admits(dom[r], f[r])
          /\ RespectsAccess(demands, f)}

Promise == INSTANCE Timelines WITH plans <- PossiblePlans, status <- phase

\* The search implements its promise: the posted constraints admit exactly
\* the plans that are demanded, propagation loses none of them and fails only
\* when none is left, a branching splits them.
KeepsPromise == Promise!Spec

\* When nothing is left to propagate no edge leads to a dead end, so that the
\* search never has to take back a decision on one timeline alone.  (IsPath
\* does not tell the first time point of a move from location 0 at the second.)
NoDeadEnds ==
  phase = "search" /\ Quiet =>
    \A r \in Active, t \in 0..(Last - 2), l \in Locs :
      t > 0 \/ waypoint[r][1] # 0 =>
        \A n \in dom[r][<<t, l>>].targets : dom[r][<<t + 1, n>>].targets # {}

\* What TransportNetwork.cpp says where it posts the requirements: for each
\* of them the interval is activated.
IntervalsActivated ==
  phase = "solved" =>
    \A i \in DOMAIN requirements : \A r \in requirements[i].roles \cap Active :
      \A t \in requirements[i].from..(requirements[i].to - 1) :
        dom[r][<<t, requirements[i].loc>>].targets # {}

\* The search returns: every propagation and every decision narrows.
SearchEnds == <>(phase \in {"solved", "failed"})
=============================================================================
