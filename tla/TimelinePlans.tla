---------------------------- MODULE TimelinePlans ----------------------------
(***************************************************************************)
(* Plans of timelines, and what may be demanded of them: the reference     *)
(* that the search for timelines is held against.                          *)
(***************************************************************************)
EXTENDS Integers, FiniteSets, Sequences

CONSTANTS
  NumTimes,     \* the number of time points
  NumLocs,      \* the number of locations (fluents)
  Roles,        \* the roles of the mission
  DemandSets    \* what may be demanded of a search: its requirements, with
                \* the roles assigned to them, its access constraints, and
                \* which roles are mobile

Times == 0..(NumTimes - 1)
Locs == 0..(NumLocs - 1)

Requirement ==
  {q \in [roles : SUBSET Roles, loc : Locs, from : Times, to : Times] : q.from <= q.to}
Access == [roles : SUBSET Roles, loc : Locs, min : Nat, max : Nat]
Demand == [requirements : Seq(Requirement), access : Seq(Access), mobile : SUBSET Roles]

ASSUME SizeAssumption == NumTimes \in Nat /\ NumTimes > 1 /\ NumLocs \in Nat /\ NumLocs > 0
ASSUME RolesAssumption == IsFiniteSet(Roles)
ASSUME DemandAssumption == DemandSets \subseteq Demand

\* Requirements of a role do not share a time point, and a location is
\* restricted for one model only.  (The stages before keep the requirements of
\* a role from overlapping, but let them touch.)
Apart(d) ==
  /\ \A i, j \in DOMAIN d.requirements :
       i # j /\ d.requirements[i].roles \cap d.requirements[j].roles # {} =>
         \/ d.requirements[i].to < d.requirements[j].from
         \/ d.requirements[j].to < d.requirements[i].from
  /\ \A a, b \in DOMAIN d.access : d.access[a].loc = d.access[b].loc => a = b

\* A path tells for every time point the location that a role is at.
Paths == [Times -> Locs]

\* A role takes part if more than one requirement asks for it.
Takers(d) ==
  {r \in Roles : \E i, j \in DOMAIN d.requirements :
     i # j /\ r \in d.requirements[i].roles \cap d.requirements[j].roles}

Plans(d) == [Takers(d) -> Paths]

Visits(p, q) == \A t \in q.from..q.to : p[t] = q.loc

MeetsRequirements(d, f) ==
  \A i \in DOMAIN d.requirements :
    \A r \in d.requirements[i].roles \cap Takers(d) : Visits(f[r], d.requirements[i])

\* The moves of the roles in R into a location.
Arrivals(f, R, loc) ==
  {x \in R \X (1..(NumTimes - 1)) :
     f[x[1]][x[2]] = loc /\ f[x[1]][x[2] - 1] # loc}

\* There has to be a role that an access constraint is about.
RespectsAccess(d, f) ==
  \A a \in DOMAIN d.access :
    LET R == d.access[a].roles \cap Takers(d)
        arrivals == Cardinality(Arrivals(f, R, d.access[a].loc))
    IN  R # {} /\ d.access[a].min <= arrivals /\ arrivals <= d.access[a].max

\* A role moves from l at t to n.
Moves(f, r, t, l, n) == f[r][t] = l /\ f[r][t + 1] = n
=============================================================================
