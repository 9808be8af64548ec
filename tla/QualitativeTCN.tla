--------------------------- MODULE QualitativeTCN ---------------------------
(***************************************************************************)
(* QualitativeTemporalConstraintNetwork: a directed multigraph over time   *)
(* points whose edges carry a type of the point algebra, built by a client *)
(* and asked for consistency by three algorithms: Gecode's search (the     *)
(* default), incremental path consistency over the set of changed pairs,   *)
(* and the algorithm of van Beek and Manak.  TimePointComparator probes    *)
(* the same graph by adding an edge, checking and removing it again.       *)
(*                                                                         *)
(* One action is one call of the client, or one revision of one triangle   *)
(* of a running check: the sets of pairs and the vertices are ordered by   *)
(* addresses or by the graph library, so every order is possible.          *)
(***************************************************************************)
EXTENDS PointAlgebra, FiniteSets, Sequences

CONSTANTS
  Point,        \* the time points a client may use
  Value,        \* the instants a valuation may map them to
  InputTypes,   \* the types a client adds
  Operations,   \* the calls the client makes, a subset of AllOperations
  MaxAdds       \* bound: how many constraints the client adds

Pair == {p \in Point \X Point : p[1] # p[2]}
Triangle == {t \in Point \X Point \X Point :
               t[1] # t[2] /\ t[1] # t[3] /\ t[2] # t[3]}

\* "parallel": the client adds to a directed pair that has an edge already.
AllOperations ==
  {"parallel", "remove", "greaterThan", "gecode", "incremental", "beekManak"}

ASSUME ValueAssumption == Value \subseteq Int
ASSUME InputTypesAssumption == InputTypes \subseteq Types \ {"empty"}
ASSUME OperationsAssumption == Operations \subseteq AllOperations
ASSUME MaxAddsAssumption == MaxAdds \in Nat

VARIABLES
  vertices,     \* the vertices of the graph
  edge,         \* edge[<<i, j>>]: the types of the parallel edges from i to j
  updated,      \* mUpdatedConstraints
  running,      \* the check in progress, or "idle"
  queue,        \* `edges` of pathConsistency_BeekManak
  current,      \* the pair the running check popped last
  pending,      \* the triangles that are left for it
  answer,       \* what the last finished check or probe returned
  adds,         \* how many constraints the client has added
  asserted,     \* history: the constraints the client added and not removed
  aborted       \* history: an incremental check ended by an exception

graph == <<vertices, edge, updated>>
search == <<running, queue, current, pending>>
client == <<adds, asserted, aborted>>
vars == <<vertices, edge, updated, running, queue, current, pending, answer,
          adds, asserted, aborted>>

NoAnswer == [by |-> "none", pair |-> <<>>, says |-> TRUE]
Answers(by, pair, says) == [by |-> by, pair |-> pair, says |-> says]

(***************************************************************************)
(* Reading the graph.  A directed read takes edgesIJ[0] only, and a read   *)
(* of a pair without edges adds a Universal edge and records the pair as   *)
(* updated: Look(ps) is the graph after the reads ps, Created(ps) are the  *)
(* pairs they add to mUpdatedConstraints.                                  *)
(***************************************************************************)
Back(p) == <<p[2], p[1]>>
Both(i, j) == {<<i, j>>, <<j, i>>}

\* Mutant: the edge that a read creates orders the pair.
LookStrict(ps) == [p \in Pair |-> IF p \in ps /\ edge[p] = <<>> THEN <<"<=">> ELSE edge[p]]

Created(ps) == {p \in ps : edge[p] = <<>>}
Look(ps) == [p \in Pair |-> IF p \in Created(ps) THEN <<"P">> ELSE edge[p]]

Directional(e, p) == e[p][1]
\* Mutant: the edges of the other direction are not read.
OneDirection(e, p) == Directional(e, p)

Bidirectional(e, p) ==
  Intersection(Directional(e, p), Symmetric(Directional(e, Back(p))))

\* setType on edgesIJ[0].
Retype(e, p, t) == [e EXCEPT ![p][1] = t]

(***************************************************************************)
(* compactConstraint: the parallel edges of a pair are removed and their   *)
(* intersection is added again; an Empty intersection throws after the     *)
(* removal, and the exception is caught and dropped.  A pair never has     *)
(* more than two edges: one is left by the compaction, one is added.       *)
(***************************************************************************)
Merged(es) == IF Len(es) = 1 THEN es[1] ELSE Intersection(es[2], es[1])

Compacted(es) ==
  IF es = <<>> \/ Merged(es) = "empty" THEN <<>> ELSE <<Merged(es)>>

\* getEdges lists parallel edges in an order that is the graph library's:
\* a new edge is listed first or last.
WithEdge(es, t) ==
  IF es = <<>> THEN {<<t>>} ELSE {<<es[1], t>>, <<t, es[1]>>}

\* Mutant: the edge added for the probe stays on a pair without edges.
ReaddedWithProbe(es) == {IF es = <<>> THEN <<">">> ELSE es}

\* Edges that were taken out and put back.
Readded(es) == IF Len(es) = 2 THEN {es, <<es[2], es[1]>>} ELSE {es}

Without(es, n) == IF Len(es) = 1 THEN <<>> ELSE <<es[3 - n]>>

(***************************************************************************)
(* Valuations: the reference for every verdict.                            *)
(***************************************************************************)
HoldsAt(v, p, t) == Holds(t, v[p[1]], v[p[2]])

SatisfiesGraph(v, e) ==
  \A p \in Pair : \A n \in 1..Len(e[p]) : HoldsAt(v, p, e[p][n])
SatisfiesClient(v) == \A a \in asserted : HoldsAt(v, a[1], a[2])

Solvable == \E v \in [Point -> Value] : SatisfiesClient(v)

\* Mutant: the domain of a variable is one instant too small.
GecodeShortDomain(e) ==
  \/ Cardinality(vertices) <= 1
  \/ \E v \in [vertices -> 0..(Cardinality(vertices) - 2)] : SatisfiesGraph(v, e)

\* Mutant: two vertices are taken for consistent without a search.
GecodeSkipsTwo(e) ==
  \/ Cardinality(vertices) <= 2
  \/ \E v \in [vertices -> 0..(Cardinality(vertices) - 1)] : SatisfiesGraph(v, e)

\* TemporalConstraintNetworkBase::isConsistent: one integer variable per
\* vertex with domain 0..n-1, one relation per edge, depth-first search.
GecodeConsistent(e) ==
  \/ Cardinality(vertices) <= 1
  \/ \E v \in [vertices -> 0..(Cardinality(vertices) - 1)] : SatisfiesGraph(v, e)

\* The pairs and the triangles of the graph as it is.
Known == {p \in Pair : p[1] \in vertices /\ p[2] \in vertices}
\* Mutant: the third vertex is not looked up.
TriangleOfAnyThird ==
  {t \in Triangle : t[1] \in vertices /\ t[2] \in vertices}

KnownTriangle ==
  {t \in Triangle : t[1] \in vertices /\ t[2] \in vertices /\ t[3] \in vertices}

Init ==
  /\ vertices = {}
  /\ edge = [p \in Pair |-> <<>>]
  /\ updated = {}
  /\ running = "idle"
  /\ queue = {}
  /\ current = <<>>
  /\ pending = {}
  /\ answer = NoAnswer
  /\ adds = 0
  /\ asserted = {}
  /\ aborted = FALSE

(***************************************************************************)
(* The calls of a client.                                                  *)
(***************************************************************************)

\* addQualitativeConstraint: compact, add, record the pair.
AddConstraint(p, t) ==
  /\ running = "idle"
  /\ adds < MaxAdds
  /\ edge[p] = <<>> \/ "parallel" \in Operations
  /\ adds' = adds + 1
  /\ vertices' = vertices \cup {p[1], p[2]}
  /\ \E es \in WithEdge(Compacted(edge[p]), t) : edge' = [edge EXCEPT ![p] = es]
  /\ updated' = updated \cup {p}
  /\ asserted' = asserted \cup {<<p, t>>}
  /\ answer' = NoAnswer
  /\ UNCHANGED <<search, aborted>>

\* removeQualitativeConstraint: one edge goes; what the checks derived from
\* it, and mUpdatedConstraints, stay.
RemoveConstraint(p, n) ==
  /\ "remove" \in Operations
  /\ running = "idle"
  /\ n \in 1..Len(edge[p])
  /\ LET left == Without(edge[p], n)
     IN  /\ edge' = [edge EXCEPT ![p] = left]
         /\ asserted' = {a \in asserted : a[1] # p}
                          \cup {<<p, left[m]>> : m \in 1..Len(left)}
  /\ answer' = NoAnswer
  /\ UNCHANGED <<vertices, updated, search, adds, aborted>>

\* TimePointComparator::greaterThan(i, j): add i > j, check, take every edge
\* of the pair out and put the saved ones back.
GreaterThan(p) ==
  /\ "greaterThan" \in Operations
  /\ running = "idle"
  /\ p \in Known
  /\ \E es \in WithEdge(Compacted(edge[p]), ">") :
        answer' = Answers("greaterThan", p,
                          GecodeConsistent([edge EXCEPT ![p] = es]))
  /\ \E es \in Readded(edge[p]) : edge' = [edge EXCEPT ![p] = es]
  /\ updated' = updated \cup {p}
  /\ UNCHANGED <<vertices, search, client>>

(***************************************************************************)
(* isConsistent, by the algorithm the caller names.                        *)
(***************************************************************************)
CheckGecode ==
  /\ "gecode" \in Operations
  /\ running = "idle"
  /\ answer' = Answers("gecode", <<>>, GecodeConsistent(edge))
  /\ UNCHANGED <<graph, search, client>>

StartIncremental ==
  /\ "incremental" \in Operations
  /\ running = "idle"
  /\ running' = "incremental"
  /\ UNCHANGED <<graph, queue, current, pending, answer, client>>

\* Every pair of vertices once, in the direction the combinations give it.
StartBeekManak ==
  /\ "beekManak" \in Operations
  /\ running = "idle"
  /\ running' = "beekManak"
  /\ \E q \in SUBSET Known :
       /\ \A p \in Known : (p \in q) # (Back(p) \in q)
       /\ queue' = q
  /\ UNCHANGED <<graph, current, pending, answer, client>>

Finish(says) ==
  /\ answer' = Answers(running, <<>>, says)
  /\ running' = "idle"
  /\ pending' = {}
  /\ queue' = {}
  /\ current' = <<>>
  /\ aborted' = (aborted \/ (running = "incremental" /\ ~says))
  /\ UNCHANGED <<vertices, adds, asserted>>

\* The loop goes on with pair p, the triangles ts and the queue q.
Continue(p, ts, q) ==
  /\ current' = p
  /\ pending' = ts
  /\ queue' = q
  /\ UNCHANGED <<vertices, running, answer, client>>

(***************************************************************************)
(* incrementalPathConsistency.  Of a popped pair (i, j) and every third    *)
(* vertex k, first (i, k) is revised by the path over j, then (j, k) by    *)
(* the path over i: the triangle <<i, j, k>> stands for the revision of    *)
(* its first and third vertex by the path over its second.                 *)
(***************************************************************************)
\* Mutant: the popped pair is not erased.
IncrementalPopKeeps(p) ==
  /\ running = "incremental"
  /\ pending = {}
  /\ p \in updated
  /\ Continue(p, {t \in KnownTriangle : {t[1], t[2]} = {p[1], p[2]}}, queue)
  /\ UNCHANGED <<edge, updated>>

IncrementalPop(p) ==
  /\ running = "incremental"
  /\ pending = {}
  /\ p \in updated
  /\ LET pairs == IF Cardinality(vertices) = 2 THEN {p, Back(p)} ELSE {}
     IN  /\ edge' = Look(pairs)
         /\ updated' = (updated \ {p}) \cup Created(pairs)
         /\ IF pairs # {} /\ Bidirectional(Look(pairs), p) = "empty"
            THEN Finish(FALSE)
            ELSE Continue(p,
                          {t \in KnownTriangle : {t[1], t[2]} = {p[1], p[2]}},
                          queue)

\* An exception after the reads ps: isConsistent catches it, the queue stays.
Throw(ps) ==
  /\ edge' = Look(ps)
  /\ updated' = updated \cup Created(ps)
  /\ Finish(FALSE)

\* composition(i,j,k), which throws when (i, j) or (j, k) contradicts its
\* reverse, and revise(i,k), which throws when nothing is left of the type.
IncrementalRevise(t) ==
  LET i == t[1]
      j == t[2]
      k == t[3]
      ik == <<i, k>>
      readIJ == Both(i, j)
      readJK == readIJ \cup Both(j, k)
      readIK == readJK \cup {ik}
      ij == Bidirectional(Look(readIJ), <<i, j>>)
      jk == Bidirectional(Look(readJK), <<j, k>>)
      old == Directional(Look(readIK), ik)
      revised == Intersection(old, Composition(ij, jk))
  IN /\ running = "incremental"
     /\ t \in pending
     /\ <<i, j>> = current \/ <<j, i, k>> \notin pending
     /\ \/ ij = "empty" /\ Throw(readIJ)
        \/ ij # "empty" /\ jk = "empty" /\ Throw(readJK)
        \/ ij # "empty" /\ jk # "empty" /\ revised = "empty" /\ Throw(readIK)
        \/ /\ ij # "empty" /\ jk # "empty" /\ revised # "empty"
           /\ edge' = Retype(Look(readIK), ik, revised)
           /\ updated' = updated \cup Created(readIK)
                           \cup (IF revised = old THEN {} ELSE {ik})
           /\ Continue(current, pending \ {t}, queue)

IncrementalDone ==
  /\ running = "incremental"
  /\ pending = {}
  /\ updated = {}
  /\ Finish(TRUE)
  /\ UNCHANGED <<edge, updated>>

(***************************************************************************)
(* pathConsistency_BeekManak.  Of a popped pair (i, j) and every third     *)
(* vertex k, first (i, k) is narrowed by the path over j, then (k, j) by   *)
(* the path over i.  After either change it is (i, k) that is queued.      *)
(***************************************************************************)
BeekManakPop(p) ==
  /\ running = "beekManak"
  /\ pending = {}
  /\ p \in queue
  /\ Continue(p,
              {t \in KnownTriangle : <<t[1], t[2]>> = p \/ <<t[2], t[3]>> = p},
              queue \ {p})
  /\ UNCHANGED <<edge, updated>>

\* getBidirectionalConstraint: the first edge of both directions takes the
\* intersection of the two, which may be Empty.
Narrow(e, p, t) == [e EXCEPT ![p][1] = t, ![Back(p)][1] = Symmetric(t)]

\* getConstraintType(s,o,t), which narrows the three pairs of the triangle in
\* both directions, and the assignment of what is left of the type of (s, t).
BeekManakRevise(t) ==
  LET so == <<t[1], t[2]>>
      ot == <<t[2], t[3]>>
      st == <<t[1], t[3]>>
      reads == {so, ot, st, Back(so), Back(ot), Back(st)}
      old == Bidirectional(Look(reads), st)
      typeSO == Bidirectional(Look(reads), so)
      typeOT == Bidirectional(Look(reads), ot)
      final == Intersection(old, Composition(typeSO, typeOT))
      first == so = current
  IN /\ running = "beekManak"
     /\ t \in pending
     /\ first \/ <<t[2], t[3], t[1]>> \notin pending
     /\ edge' = Narrow(Narrow(Narrow(Look(reads), so, typeSO), ot, typeOT),
                       st, final)
     /\ updated' = updated \cup Created(reads)
     /\ IF final = "empty"
        THEN Finish(FALSE)
        ELSE Continue(current, pending \ {t},
                      queue \cup (IF final = old THEN {}
                                  ELSE {IF first THEN st ELSE Back(so)}))

BeekManakDone ==
  /\ running = "beekManak"
  /\ pending = {}
  /\ queue = {}
  /\ Finish(TRUE)
  /\ UNCHANGED <<edge, updated>>

CheckStep ==
  \/ \E p \in Pair : IncrementalPop(p) \/ BeekManakPop(p)
  \/ \E t \in Triangle : IncrementalRevise(t) \/ BeekManakRevise(t)
  \/ IncrementalDone
  \/ BeekManakDone

Next ==
  \/ \E p \in Pair, t \in InputTypes : AddConstraint(p, t)
  \/ \E p \in Pair, n \in 1..2 : RemoveConstraint(p, n)
  \/ \E p \in Pair : GreaterThan(p)
  \/ CheckGecode
  \/ StartIncremental
  \/ StartBeekManak
  \/ CheckStep

Spec == Init /\ [][Next]_vars

(***************************************************************************)
(* Properties.                                                             *)
(***************************************************************************)

EdgeLists == {<<>>} \cup {<<t>> : t \in Types} \cup {<<t, u>> : t, u \in Types}

TypeOK ==
  /\ vertices \subseteq Point
  /\ IsFiniteSet(vertices)
  /\ edge \in [Pair -> EdgeLists]
  /\ \A p \in Pair \ Known : edge[p] = <<>>
  /\ updated \subseteq Known
  /\ running \in {"idle", "incremental", "beekManak"}
  /\ queue \subseteq Known
  /\ current \in Known \cup {<<>>}
  /\ pending \subseteq KnownTriangle
  /\ answer \in [by : {"none", "greaterThan", "gecode", "incremental", "beekManak"},
                 pair : Pair \cup {<<>>}, says : BOOLEAN]
  /\ adds \in 0..MaxAdds
  /\ asserted \subseteq Pair \X Types
  /\ aborted \in BOOLEAN

\* No narrowing, lazily added edge or compaction ever excludes a valuation
\* that the client's constraints allow.
KeepsSolutions ==
  \A v \in [Point -> Value] : SatisfiesClient(v) => SatisfiesGraph(v, edge)

\* A check, by whichever algorithm, that returns false is right to: the
\* constraints the client added have no solution.
RefutesOnlyUnsolvable ==
  answer.by \in {"gecode", "incremental", "beekManak"} /\ ~answer.says => ~Solvable

\* incrementalPathConsistency decides: whatever the order of the set of
\* updated pairs, true means that the constraints have a solution, unless an
\* earlier check ended half-way by an exception.
IncrementalAcceptsOnlySolvable ==
  answer.by = "incremental" /\ answer.says /\ ~aborted => Solvable

\* The default algorithm decides, also on a network that other checks and
\* probes have narrowed and extended before.
GecodeAcceptsOnlySolvable ==
  answer.by = "gecode" /\ answer.says => Solvable

\* On three vertices and more the algorithm of van Beek and Manak decides,
\* although it queues (i, k) after it has narrowed (k, j).
BeekManakDecidesTriangles ==
  answer.by = "beekManak" /\ answer.says /\ Cardinality(vertices) >= 3 => Solvable

\* greaterThan(i, j) says whether i > j can be added, not whether it follows.
ProbeAnswersPossibility ==
  answer.by = "greaterThan" =>
    (answer.says <=> \E v \in [Point -> Value] :
                        SatisfiesClient(v) /\ HoldsAt(v, answer.pair, ">"))

(***************************************************************************)
(* Why a check returns: every step of it leaves less work, counted in the  *)
(* primitives the edges allow (a pair without an edge allows one more than *)
(* any), then in the queued pairs, then in the triangles of the popped one.*)
(***************************************************************************)
Open(es) == IF es = <<>> THEN {"<", "=", ">", "no edge"} ELSE Primitives(es[1])

Freedom(e) ==
  Cardinality({pq \in Pair \X {"<", "=", ">", "no edge"} : pq[2] \in Open(e[pq[1]])})

Queued == IF running = "incremental" THEN updated ELSE queue

Work == <<Freedom(edge), Cardinality(Queued), Cardinality(pending)>>

Lower(w, u) ==
  \/ w[1] < u[1]
  \/ w[1] = u[1] /\ w[2] < u[2]
  \/ w[1] = u[1] /\ w[2] = u[2] /\ w[3] < u[3]

\* No step of a check can be repeated for ever: it narrows the graph, or
\* takes a pair from the queue, or a triangle from the popped pair's.
ChecksProgress ==
  [][running # "idle" /\ running' = running => Lower(Work', Work)]_vars
=============================================================================
