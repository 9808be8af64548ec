------------------------ MODULE QualitativeTCNProofs ------------------------
(***************************************************************************)
(* The tables of the point algebra, row by row, and the type correctness   *)
(* of QualitativeTCN, for every set of time points, every bound and every  *)
(* order of the checks: the graph keeps at most two edges per directed     *)
(* pair, and the checks only ever queue pairs and triangles of its         *)
(* vertices.  And what the checks promise as long as no constraint is      *)
(* Distinct and none is removed: they lose no solution of the client's     *)
(* constraints, and refute only what has none.                             *)
(***************************************************************************)
EXTENDS QualitativeTCN, FiniteSetTheorems, TLAPS

(***************************************************************************)
(* The tables of the point algebra are exact: row by row, for all types.   *)
(***************************************************************************)

\* getIntersection answers with the intersection of the sets of primitive
\* orders of its two types.
THEOREM TablesIntersect == IntersectionIsExact
  <1> SUFFICES ASSUME NEW t \in Types, NEW u \in Types
               PROVE  Primitives(Intersection(t, u)) = Primitives(t) \cap Primitives(u)
    BY DEF IntersectionIsExact
  <1> USE DEF Intersection, IntersectionSwitch, Primitives, Types
  <1>1. CASE t \in {"empty", "P"} \/ u \in {"empty", "P"} \/ t = u
    BY <1>1, SMT
  <1>2. CASE t = "<"
    BY <1>2, SMT
  <1>3. CASE t = ">"
    BY <1>3, SMT
  <1>4. CASE t = "="
    BY <1>4, SMT
  <1>5. CASE t = "<="
    BY <1>5, SMT
  <1>6. CASE t = ">="
    BY <1>6, SMT
  <1>7. CASE t = "!="
    BY <1>7, SMT
  <1>8. QED
    BY <1>1, <1>2, <1>3, <1>4, <1>5, <1>6, <1>7

\* getSymmetric commutes with getIntersection: the two reads of a pair by
\* getBidirectionalConstraintType, from either end, agree.
THEOREM ReadsAgree == SymmetricCommutesWithIntersection
  <1> SUFFICES ASSUME NEW t \in Types, NEW u \in Types
               PROVE  Symmetric(Intersection(t, u)) = Intersection(Symmetric(u), Symmetric(t))
    BY DEF SymmetricCommutesWithIntersection
  <1> USE DEF Intersection, IntersectionSwitch, Symmetric, Types
  <1>1. CASE t \in {"empty", "P"} \/ u \in {"empty", "P"} \/ t = u
    <2>1. CASE t = "empty" \/ u = "empty"
      <3>1. Intersection(t, u) = "empty" /\ Symmetric("empty") = "empty"
        BY <2>1
      <3>2. Intersection(Symmetric(u), Symmetric(t)) = "empty"
        <4> HIDE DEF Symmetric
        <4>1. Symmetric(t) = "empty" \/ Symmetric(u) = "empty"
          BY <2>1, <3>1
        <4>2. QED
          BY <4>1
      <3>3. QED
        BY <3>1, <3>2
    <2>2. CASE t = "P"
      BY <2>2, SMT
    <2>3. CASE u = "P"
      BY <2>3, SMT
    <2>4. CASE t = u
      BY <2>4, SMT
    <2>5. QED
      BY <1>1, <2>1, <2>2, <2>3, <2>4
  <1>2. CASE t = "<"
    BY <1>2, SMT
  <1>3. CASE t = ">"
    BY <1>3, SMT
  <1>4. CASE t = "="
    BY <1>4, SMT
  <1>5. CASE t = "<="
    BY <1>5, SMT
  <1>6. CASE t = ">="
    BY <1>6, SMT
  <1>7. CASE t = "!="
    BY <1>7, SMT
  <1>8. QED
    BY <1>1, <1>2, <1>3, <1>4, <1>5, <1>6, <1>7

\* Without Distinct and Empty getComposition answers with the composition of
\* the primitive orders, neither weaker nor stronger.
THEOREM TablesCompose == CompositionIsExact
  <1> SUFFICES ASSUME NEW t \in Types \ {"!=", "empty"}, NEW u \in Types \ {"!=", "empty"},
                      NEW x
               PROVE  x \in Primitives(Composition(t, u)) <=> x \in Distributed(t, u)
    BY DEF CompositionIsExact
  <1>1. x \in Distributed(t, u) <=>
          \E p \in Primitives(t), q \in Primitives(u) : x \in PrimitiveComposition(p, q)
    BY DEF Distributed
  <1> USE DEF Composition, TypeAlgebra, Primitives, Types, PrimitiveComposition
  <1>2. CASE t = "<"
    BY <1>1, <1>2, SMT
  <1>3. CASE t = ">"
    BY <1>1, <1>3, SMT
  <1>4. CASE t = "="
    BY <1>1, <1>4, SMT
  <1>5. CASE t = "<="
    BY <1>1, <1>5, SMT
  <1>6. CASE t = ">="
    BY <1>1, <1>6, SMT
  <1>7. CASE t = "P"
    BY <1>1, <1>7, SMT
  <1>8. QED
    BY <1>2, <1>3, <1>4, <1>5, <1>6, <1>7

\* The list overload of getComposition, which folds from Empty, is the
\* composition of its elements, wherever the list is cut.
THEOREM ListsCompose == CompositionOfListAssociates
  <1> SUFFICES ASSUME NEW t \in Types \ {"!="}, NEW u \in Types \ {"!="}, NEW w \in Types \ {"!="}
               PROVE  CompositionOf3(t, u, w) = Composition(t, Composition(u, w))
    BY DEF CompositionOfListAssociates
  <1>1. CompositionOf3(t, u, w) = Composition(Composition(t, u), w)
    BY SMT DEF CompositionOf3, Composition, Types
  <1> USE DEF Composition, TypeAlgebra, Types
  <1>2. CASE t = "<"
    BY <1>1, <1>2, SMT
  <1>3. CASE t = ">"
    BY <1>1, <1>3, SMT
  <1>4. CASE t = "="
    BY <1>1, <1>4, SMT
  <1>5. CASE t = "<="
    BY <1>1, <1>5, SMT
  <1>6. CASE t = ">="
    BY <1>1, <1>6, SMT
  <1>7. CASE t = "P"
    BY <1>1, <1>7, SMT
  <1>8. CASE t = "empty"
    BY <1>1, <1>8, SMT
  <1>9. QED
    BY <1>2, <1>3, <1>4, <1>5, <1>6, <1>7, <1>8

(***************************************************************************)
(* The tables stay within the types; a pair and its reverse.               *)
(***************************************************************************)

\* A row of the map TypeAlgebra holds types only.
LEMMA RowTyped ==
  ASSUME NEW a \in {"<", "=", ">", ">=", "<="}, NEW b \in Types
  PROVE  TypeAlgebra(a, b) \in Types
  <1>1. CASE a = "<"
    BY <1>1, SMT DEF Types, TypeAlgebra
  <1>2. CASE a = "="
    BY <1>2, SMT DEF Types, TypeAlgebra
  <1>3. CASE a = ">"
    BY <1>3, SMT DEF Types, TypeAlgebra
  <1>4. CASE a = ">="
    BY <1>4, SMT DEF Types, TypeAlgebra
  <1>5. CASE a = "<="
    BY <1>5, SMT DEF Types, TypeAlgebra
  <1>6. QED
    BY <1>1, <1>2, <1>3, <1>4, <1>5

\* The three tables answer with types of the point algebra.
LEMMA TableTypes ==
  ASSUME NEW a \in Types, NEW b \in Types
  PROVE  /\ Intersection(a, b) \in Types
         /\ Composition(a, b) \in Types
         /\ Symmetric(a) \in Types
  <1>1. Intersection(a, b) \in Types
    BY SMT DEF Types, Intersection, IntersectionSwitch
  <1>2. Symmetric(a) \in Types
    BY SMT DEF Types, Symmetric
  <1>3. Composition(a, b) \in Types
    <2>1. a = "P" \/ b = "P" \/ a = b \/ b = "empty" \/ a = "empty" => Composition(a, b) \in Types
      BY SMT DEF Types, Composition
    <2>2. ASSUME a \notin {"P", "empty", "!="}, b \notin {"P", "empty"}, a # b
          PROVE  Composition(a, b) \in Types
      <3>1. TypeAlgebra(a, b) \in Types
        BY <2>2, RowTyped DEF Types
      <3>2. QED
        BY <2>2, <3>1 DEF Composition
    <2>3. ASSUME a = "!=", b \notin {"P", "empty"}, a # b
          PROVE  Composition(a, b) \in Types
      <3>1. TypeAlgebra(b, a) \in Types
        BY <2>3, RowTyped DEF Types
      <3>2. Symmetric(TypeAlgebra(b, a)) \in Types
        BY <3>1, SMT DEF Types, Symmetric
      <3>3. QED
        BY <2>3, <3>2 DEF Composition
    <2>4. QED
      BY <2>1, <2>2, <2>3
  <1>4. QED
    BY <1>1, <1>2, <1>3

\* A pair and its reverse.
LEMMA PairFacts ==
  ASSUME NEW p \in Pair
  PROVE  /\ Back(p) \in Pair
         /\ p = <<p[1], p[2]>>
         /\ Back(Back(p)) = p
         /\ p[1] \in Point /\ p[2] \in Point
         /\ Back(p)[1] = p[2] /\ Back(p)[2] = p[1]
  BY DEF Pair, Back

(***************************************************************************)
(* The edge lists of the graph.                                            *)
(***************************************************************************)
LEMMA ListFacts ==
  ASSUME NEW es \in EdgeLists
  PROVE  /\ Len(es) \in 0..2
         /\ es = <<>> <=> Len(es) = 0
         /\ \A n \in 1..Len(es) : es[n] \in Types
         /\ es # <<>> => 1 \in 1..Len(es)
         /\ Len(es) = 1 => es = <<es[1]>>
         /\ Len(es) = 2 => es = <<es[1], es[2]>>
  BY DEF EdgeLists

\* setType on the first edge of a list.
LEMMA RetypedList ==
  ASSUME NEW es \in EdgeLists, es # <<>>, NEW t \in Types
  PROVE  /\ [es EXCEPT ![1] = t] \in EdgeLists
         /\ [es EXCEPT ![1] = t] # <<>>
         /\ Len([es EXCEPT ![1] = t]) = Len(es)
         /\ [es EXCEPT ![1] = t][1] = t
         /\ \A n \in 2..Len(es) : [es EXCEPT ![1] = t][n] = es[n]
  <1>1. CASE Len(es) = 1
    <2>1. PICK a \in Types : es = <<a>>
      BY <1>1, ListFacts
    <2>2. [es EXCEPT ![1] = t] = <<t>>
      BY <2>1
    <2>3. QED
      BY <2>1, <2>2 DEF EdgeLists
  <1>2. CASE Len(es) = 2
    <2>1. PICK a \in Types, b \in Types : es = <<a, b>>
      BY <1>2, ListFacts
    <2>2. [es EXCEPT ![1] = t] = <<t, b>>
      BY <2>1
    <2>3. QED
      BY <2>1, <2>2 DEF EdgeLists
  <1>3. QED
    BY <1>1, <1>2, ListFacts

Typed(e) == e \in [Pair -> EdgeLists]

\* Reads (getDirectionalConstraint) give every pair they touch an edge, and
\* leave the other pairs alone.
LEMMA LookTyped ==
  ASSUME Typed(edge), NEW ps \in SUBSET Pair
  PROVE  /\ Typed(Look(ps))
         /\ \A p \in ps : Look(ps)[p] # <<>>
         /\ \A p \in Pair \ ps : Look(ps)[p] = edge[p]
         /\ \A p \in Pair : Look(ps)[p] \in {edge[p], <<"P">>}
  BY DEF Typed, Look, Created, EdgeLists, Types

\* setType keeps the graph typed and no pair loses or gains an edge.
LEMMA RetypeTyped ==
  ASSUME NEW e, Typed(e), NEW p \in Pair, e[p] # <<>>, NEW t \in Types
  PROVE  /\ Typed(Retype(e, p, t))
         /\ \A q \in Pair : Retype(e, p, t)[q] = <<>> <=> e[q] = <<>>
  BY RetypedList DEF Typed, Retype

\* getBidirectionalConstraint sets the type of the two directions in turn.
LEMMA NarrowIsRetype ==
  ASSUME NEW e, NEW p, NEW t
  PROVE  Narrow(e, p, t) = Retype(Retype(e, p, t), Back(p), Symmetric(t))
  BY DEF Narrow, Retype

\* Narrowing both directions of a pair keeps the graph typed.
LEMMA NarrowTyped ==
  ASSUME NEW e, Typed(e), NEW p \in Pair, e[p] # <<>>, e[Back(p)] # <<>>,
         NEW t \in Types
  PROVE  /\ Typed(Narrow(e, p, t))
         /\ \A q \in Pair : Narrow(e, p, t)[q] = <<>> <=> e[q] = <<>>
  <1>1. /\ Typed(Retype(e, p, t))
        /\ \A q \in Pair : Retype(e, p, t)[q] = <<>> <=> e[q] = <<>>
    BY RetypeTyped
  <1>2. Back(p) \in Pair /\ Symmetric(t) \in Types
    BY PairFacts, TableTypes
  <1>3. Retype(e, p, t)[Back(p)] # <<>>
    BY <1>1, <1>2
  <1>4. /\ Typed(Retype(Retype(e, p, t), Back(p), Symmetric(t)))
        /\ \A q \in Pair : Retype(Retype(e, p, t), Back(p), Symmetric(t))[q] = <<>>
                            <=> Retype(e, p, t)[q] = <<>>
    BY <1>1, <1>2, <1>3, RetypeTyped
  <1>5. QED
    BY <1>1, <1>4, NarrowIsRetype

\* getBidirectionalConstraintType answers with a type.
LEMMA BidirectionalTyped ==
  ASSUME NEW e, Typed(e), NEW p \in Pair, e[p] # <<>>, e[Back(p)] # <<>>
  PROVE  Bidirectional(e, p) \in Types
  <1>1. e[p][1] \in Types /\ e[Back(p)][1] \in Types
    BY ListFacts, PairFacts DEF Typed
  <1>2. QED
    BY <1>1, TableTypes DEF Bidirectional, Directional

\* compactConstraint leaves at most one edge.
LEMMA CompactedTyped ==
  ASSUME NEW es \in EdgeLists
  PROVE  Compacted(es) = <<>> \/ \E m \in Types : Compacted(es) = <<m>>
  <1>1. es # <<>> => Merged(es) \in Types
    <2>1. CASE Len(es) = 1
      BY <2>1, ListFacts DEF Merged
    <2>2. CASE Len(es) = 2
      BY <2>2, ListFacts, TableTypes DEF Merged
    <2>3. QED
      BY <2>1, <2>2, ListFacts
  <1>2. QED
    BY <1>1 DEF Compacted

\* An edge added to a compacted pair: the new type and at most one other.
LEMMA WithEdgeTyped ==
  ASSUME NEW c, c = <<>> \/ \E m \in Types : c = <<m>>,
         NEW t \in Types, NEW es \in WithEdge(c, t)
  PROVE  /\ es \in EdgeLists
         /\ es # <<>>
         /\ \A n \in 1..Len(es) : es[n] = t \/ (c # <<>> /\ es[n] = c[1])
  <1>1. CASE c = <<>>
    <2>1. es = <<t>>
      BY <1>1 DEF WithEdge
    <2>2. QED
      BY <2>1 DEF EdgeLists
  <1>2. CASE c # <<>>
    <2>1. PICK m \in Types : c = <<m>>
      BY <1>2
    <2>2. es = <<m, t>> \/ es = <<t, m>>
      BY <2>1 DEF WithEdge
    <2>3. QED
      BY <2>1, <2>2 DEF EdgeLists
  <1>3. QED
    BY <1>1, <1>2

\* greaterThan puts the edges back that it took out, in some order.
LEMMA ReaddedTyped ==
  ASSUME NEW es \in EdgeLists, NEW r \in Readded(es)
  PROVE  /\ r \in EdgeLists
         /\ r = <<>> <=> es = <<>>
         /\ \A n \in 1..Len(r) : \E m \in 1..Len(es) : r[n] = es[m]
  <1>1. CASE Len(es) = 2
    <2>1. PICK a \in Types, b \in Types : es = <<a, b>>
      BY <1>1, ListFacts
    <2>2. r = <<a, b>> \/ r = <<b, a>>
      BY <2>1 DEF Readded
    <2>3. QED
      BY <2>1, <2>2 DEF EdgeLists
  <1>2. CASE Len(es) # 2
    BY <1>2 DEF Readded
  <1>3. QED
    BY <1>1, <1>2

\* removeQualitativeConstraint leaves a list of at most one edge.
LEMMA WithoutTyped ==
  ASSUME NEW es \in EdgeLists, NEW n \in 1..Len(es)
  PROVE  Without(es, n) \in EdgeLists
  <1>1. CASE Len(es) = 1
    BY <1>1 DEF Without, EdgeLists
  <1>2. CASE Len(es) = 2
    <2>1. PICK a \in Types, b \in Types : es = <<a, b>>
      BY <1>2, ListFacts
    <2>2. n = 1 \/ n = 2
      BY <1>2
    <2>3. QED
      BY <2>1, <2>2 DEF Without, EdgeLists
  <1>3. QED
    BY <1>1, <1>2, ListFacts

(***************************************************************************)
(* Type correctness, for every input and every operation.                  *)
(***************************************************************************)
GraphOK ==
  /\ Typed(edge)
  /\ \A p \in Pair \ Known : edge[p] = <<>>
  /\ updated \subseteq Known

\* With a pair its reverse is a pair of the graph's vertices.
LEMMA KnownFacts ==
  ASSUME NEW p \in Known
  PROVE  /\ p \in Pair
         /\ Back(p) \in Known
         /\ {p, Back(p)} \in SUBSET Known
  BY PairFacts DEF Known

\* The three pairs of a triangle are pairs of the graph's vertices, in both
\* directions.
LEMMA TriangleFacts ==
  ASSUME NEW t \in KnownTriangle
  PROVE  /\ t[1] \in Point /\ t[2] \in Point /\ t[3] \in Point
         /\ {<<t[1], t[2]>>, <<t[2], t[1]>>, <<t[2], t[3]>>, <<t[3], t[2]>>,
             <<t[1], t[3]>>, <<t[3], t[1]>>} \subseteq Known
         /\ {<<t[1], t[2]>>, <<t[2], t[1]>>, <<t[2], t[3]>>, <<t[3], t[2]>>,
             <<t[1], t[3]>>, <<t[3], t[1]>>} \subseteq Pair
         /\ Back(<<t[1], t[2]>>) = <<t[2], t[1]>>
         /\ Back(<<t[2], t[3]>>) = <<t[3], t[2]>>
         /\ Back(<<t[1], t[3]>>) = <<t[3], t[1]>>
  BY DEF KnownTriangle, Triangle, Known, Pair, Back

\* The reads of known pairs keep the graph within its vertices.
LEMMA LookGraph ==
  ASSUME GraphOK, NEW ps \in SUBSET Known
  PROVE  /\ Typed(Look(ps))
         /\ \A p \in Pair \ Known : Look(ps)[p] = <<>>
         /\ \A p \in ps : Look(ps)[p] # <<>>
         /\ Created(ps) \subseteq Known
  <1>1. ps \in SUBSET Pair
    BY DEF Known
  <1>2. QED
    BY <1>1, LookTyped DEF GraphOK, Created

\* The return of a check keeps the types if its last reads do.
LEMMA FinishTyped ==
  ASSUME TypeOK, NEW says \in BOOLEAN, Finish(says), running # "idle",
         Typed(edge'), \A p \in Pair \ Known : edge'[p] = <<>>,
         updated' \subseteq Known
  PROVE  TypeOK'
  <1>1. Known' = Known /\ KnownTriangle' = KnownTriangle
    BY DEF Finish, Known, KnownTriangle
  <1>2. answer' \in [by : {"none", "greaterThan", "gecode", "incremental", "beekManak"},
                     pair : Pair \cup {<<>>}, says : BOOLEAN]
    BY DEF TypeOK, Finish, Answers
  <1>3. QED
    BY <1>1, <1>2 DEF TypeOK, Finish, Typed

\* The loop of a check keeps the types if its reads and its queue do.
LEMMA ContinueTyped ==
  ASSUME TypeOK, NEW p, NEW ts, NEW q, Continue(p, ts, q),
         p \in Known \cup {<<>>}, ts \subseteq KnownTriangle, q \subseteq Known,
         Typed(edge'), \A r \in Pair \ Known : edge'[r] = <<>>,
         updated' \subseteq Known
  PROVE  TypeOK'
  <1>1. Known' = Known /\ KnownTriangle' = KnownTriangle
    BY DEF Continue, Known, KnownTriangle
  <1>2. QED
    BY <1>1 DEF TypeOK, Continue, Typed, client

\* addQualitativeConstraint keeps the types.
LEMMA AddConstraintTyped ==
  ASSUME TypeOK, NEW p \in Pair, NEW t \in InputTypes, AddConstraint(p, t)
  PROVE  TypeOK'
  <1>1. vertices' = vertices \cup {p[1], p[2]} /\ p[1] \in Point /\ p[2] \in Point
    BY PairFacts DEF AddConstraint
  <1>2. /\ vertices' \subseteq Point
        /\ IsFiniteSet(vertices')
    <2>1. vertices' = (vertices \cup {p[1]}) \cup {p[2]}
      BY <1>1
    <2>2. IsFiniteSet(vertices \cup {p[1]})
      BY FS_AddElement DEF TypeOK
    <2>3. IsFiniteSet((vertices \cup {p[1]}) \cup {p[2]})
      BY <2>2, FS_AddElement
    <2>4. QED
      BY <1>1, <2>1, <2>3 DEF TypeOK
  <1>3. Known \subseteq Known' /\ p \in Known' /\ KnownTriangle \subseteq KnownTriangle'
    BY <1>1 DEF Known, KnownTriangle
  <1>4. PICK es \in WithEdge(Compacted(edge[p]), t) : edge' = [edge EXCEPT ![p] = es]
    BY DEF AddConstraint
  <1>5. es \in EdgeLists
    BY <1>4, CompactedTyped, WithEdgeTyped, InputTypesAssumption DEF TypeOK
  <1>6. /\ edge' \in [Pair -> EdgeLists]
        /\ \A q \in Pair \ Known' : edge'[q] = <<>>
    BY <1>3, <1>4, <1>5 DEF TypeOK
  <1>7. adds' \in 0..MaxAdds
    BY MaxAddsAssumption DEF TypeOK, AddConstraint
  <1>8. asserted' \subseteq Pair \X Types
    BY InputTypesAssumption DEF TypeOK, AddConstraint
  <1>9. QED
    BY <1>2, <1>3, <1>6, <1>7, <1>8 DEF TypeOK, AddConstraint, search, NoAnswer

\* removeQualitativeConstraint keeps the types.
LEMMA RemoveConstraintTyped ==
  ASSUME TypeOK, NEW p \in Pair, NEW n \in 1..2, RemoveConstraint(p, n)
  PROVE  TypeOK'
  <1>1. Known' = Known /\ KnownTriangle' = KnownTriangle
    BY DEF RemoveConstraint, Known, KnownTriangle
  <1>2. n \in 1..Len(edge[p]) /\ edge' = [edge EXCEPT ![p] = Without(edge[p], n)]
    BY DEF RemoveConstraint
  <1>3. edge' \in [Pair -> EdgeLists]
    BY <1>2, WithoutTyped DEF TypeOK
  <1>4. p \in Known
    BY <1>2 DEF TypeOK
  <1>5. \A q \in Pair \ Known : edge'[q] = <<>>
    BY <1>2, <1>4 DEF TypeOK
  <1>6. PICK left : /\ asserted' = {a \in asserted : a[1] # p}
                                     \cup {<<p, left[m]>> : m \in 1..Len(left)}
                    /\ left = Without(edge[p], n)
    BY DEF RemoveConstraint
  <1>7. \A m \in 1..Len(left) : left[m] \in Types
    BY <1>2, <1>6, WithoutTyped, ListFacts DEF TypeOK
  <1>8. asserted' \subseteq Pair \X Types
    BY <1>6, <1>7 DEF TypeOK
  <1>9. QED
    BY <1>1, <1>3, <1>5, <1>8 DEF TypeOK, RemoveConstraint, search, NoAnswer

\* TimePointComparator::greaterThan keeps the types.
LEMMA GreaterThanTyped ==
  ASSUME TypeOK, NEW p \in Pair, GreaterThan(p)
  PROVE  TypeOK'
  <1>1. Known' = Known /\ KnownTriangle' = KnownTriangle
    BY DEF GreaterThan, Known, KnownTriangle
  <1>2. PICK es \in Readded(edge[p]) : edge' = [edge EXCEPT ![p] = es]
    BY DEF GreaterThan
  <1>3. es \in EdgeLists /\ p \in Known
    BY <1>2, ReaddedTyped DEF TypeOK, GreaterThan
  <1>4. edge' \in [Pair -> EdgeLists] /\ \A q \in Pair \ Known : edge'[q] = <<>>
    BY <1>2, <1>3 DEF TypeOK
  <1>5. answer' \in [by : {"none", "greaterThan", "gecode", "incremental", "beekManak"},
                     pair : Pair \cup {<<>>}, says : BOOLEAN]
    BY DEF GreaterThan, Answers, GecodeConsistent
  <1>6. QED
    BY <1>1, <1>3, <1>4, <1>5 DEF TypeOK, GreaterThan, search, client

\* Gecode's check, and the entry of the two others, keep the types.
LEMMA StartTyped ==
  ASSUME TypeOK, CheckGecode \/ StartIncremental \/ StartBeekManak
  PROVE  TypeOK'
  <1>1. Known' = Known /\ KnownTriangle' = KnownTriangle
    BY DEF CheckGecode, StartIncremental, StartBeekManak, Known, KnownTriangle, graph
  <1>2. CASE CheckGecode
    <2>1. answer' \in [by : {"none", "greaterThan", "gecode", "incremental", "beekManak"},
                       pair : Pair \cup {<<>>}, says : BOOLEAN]
      BY <1>2 DEF CheckGecode, Answers, GecodeConsistent
    <2>2. QED
      BY <1>1, <1>2, <2>1 DEF TypeOK, CheckGecode, graph, search, client
  <1>3. CASE StartIncremental
    BY <1>1, <1>3 DEF TypeOK, StartIncremental, graph, client
  <1>4. CASE StartBeekManak
    BY <1>1, <1>4 DEF TypeOK, StartBeekManak, graph, client
  <1>5. QED
    BY <1>2, <1>3, <1>4

\* What the type invariant says of the graph.
LEMMA TypeOKGraph == TypeOK => GraphOK
  BY DEF TypeOK, GraphOK, Typed

\* incrementalPathConsistency, the pop of a pair, keeps the types.
LEMMA IncrementalPopTyped ==
  ASSUME TypeOK, NEW p \in Pair, IncrementalPop(p)
  PROVE  TypeOK'
  <1> DEFINE pairs == IF Cardinality(vertices) = 2 THEN {p, Back(p)} ELSE {}
             ts == {t \in KnownTriangle : {t[1], t[2]} = {p[1], p[2]}}
  <1>1. p \in Known /\ pairs \in SUBSET Known
    BY KnownFacts DEF TypeOK, IncrementalPop
  <1>2. /\ edge' = Look(pairs)
        /\ updated' = (updated \ {p}) \cup Created(pairs)
        /\ Finish(FALSE) \/ Continue(p, ts, queue)
        /\ running # "idle"
    BY DEF IncrementalPop
  <1>3. /\ Typed(edge')
        /\ \A q \in Pair \ Known : edge'[q] = <<>>
        /\ updated' \subseteq Known
    BY <1>1, <1>2, LookGraph, TypeOKGraph DEF TypeOK
  <1>4. CASE Finish(FALSE)
    BY <1>2, <1>3, <1>4, FinishTyped
  <1>5. CASE Continue(p, ts, queue)
    <2>1. p \in Known \cup {<<>>} /\ ts \subseteq KnownTriangle /\ queue \subseteq Known
      BY <1>1 DEF TypeOK
    <2>2. QED
      BY <1>3, <1>5, <2>1, ContinueTyped
  <1>6. QED
    BY <1>2, <1>4, <1>5

\* incrementalPathConsistency, the revision of a triangle, keeps the types,
\* whichever of its three reads throws.
LEMMA IncrementalReviseTyped ==
  ASSUME TypeOK, NEW t \in Triangle, IncrementalRevise(t)
  PROVE  TypeOK'
  <1> DEFINE i == t[1]
             j == t[2]
             k == t[3]
             ik == <<i, k>>
             readIJ == Both(i, j)
             readJK == readIJ \cup Both(j, k)
             readIK == readJK \cup {ik}
             ij == Bidirectional(Look(readIJ), <<i, j>>)
             jk == Bidirectional(Look(readJK), <<j, k>>)
             old == Directional(Look(readIK), ik)
             revised == Intersection(old, Composition(ij, jk))
  <1>1. t \in KnownTriangle /\ running # "idle"
    BY DEF TypeOK, IncrementalRevise
  <1>2. /\ readIJ \in SUBSET Known /\ readJK \in SUBSET Known
        /\ readIK \in SUBSET Known /\ ik \in Known /\ ik \in Pair
    BY <1>1, TriangleFacts DEF Both
  <1>3. ASSUME NEW ps \in SUBSET Known, Throw(ps)
        PROVE  TypeOK'
    BY <1>1, <1>3, LookGraph, TypeOKGraph, FinishTyped DEF Throw, TypeOK
  <1>4. CASE \/ Throw(readIJ) \/ Throw(readJK) \/ Throw(readIK)
    BY <1>2, <1>3, <1>4
  <1>5. CASE /\ edge' = Retype(Look(readIK), ik, revised)
             /\ updated' = updated \cup Created(readIK)
                             \cup (IF revised = old THEN {} ELSE {ik})
             /\ Continue(current, pending \ {t}, queue)
    <2>1. ij \in Types /\ jk \in Types /\ old \in Types
      <3>1. /\ Typed(Look(readIJ)) /\ Typed(Look(readJK)) /\ Typed(Look(readIK))
            /\ Look(readIJ)[<<i, j>>] # <<>> /\ Look(readIJ)[<<j, i>>] # <<>>
            /\ Look(readJK)[<<j, k>>] # <<>> /\ Look(readJK)[<<k, j>>] # <<>>
            /\ Look(readIK)[ik] # <<>>
        <4>1. GraphOK
          BY TypeOKGraph
        <4>2. /\ Typed(Look(readIJ)) /\ \A q \in readIJ : Look(readIJ)[q] # <<>>
          BY <4>1, <1>2, LookGraph
        <4>3. /\ Typed(Look(readJK)) /\ \A q \in readJK : Look(readJK)[q] # <<>>
          BY <4>1, <1>2, LookGraph
        <4>4. /\ Typed(Look(readIK)) /\ \A q \in readIK : Look(readIK)[q] # <<>>
          BY <4>1, <1>2, LookGraph
        <4>5. /\ <<i, j>> \in readIJ /\ <<j, i>> \in readIJ
              /\ <<j, k>> \in readJK /\ <<k, j>> \in readJK /\ ik \in readIK
          BY DEF Both
        <4>6. QED
          BY <4>2, <4>3, <4>4, <4>5
      <3>2. ij \in Types
        BY <1>1, <3>1, TriangleFacts, BidirectionalTyped
      <3>3. jk \in Types
        BY <1>1, <3>1, TriangleFacts, BidirectionalTyped
      <3>4. old \in Types
        BY <1>2, <3>1, ListFacts DEF Typed, Directional
      <3>5. QED
        BY <3>2, <3>3, <3>4
    <2>2. revised \in Types
      BY <2>1, TableTypes
    <2>3. /\ Typed(Look(readIK)) /\ Look(readIK)[ik] # <<>>
          /\ \A q \in Pair \ Known : Look(readIK)[q] = <<>>
          /\ Created(readIK) \subseteq Known
      BY <1>2, LookGraph, TypeOKGraph
    <2>4. Typed(edge') /\ \A q \in Pair \ Known : edge'[q] = <<>>
      <3> HIDE DEF ik, readIJ, readJK, readIK, ij, jk, old, revised
      <3>1. /\ Typed(Retype(Look(readIK), ik, revised))
            /\ \A q \in Pair : Retype(Look(readIK), ik, revised)[q] = <<>>
                                 <=> Look(readIK)[q] = <<>>
        BY <1>2, <2>2, <2>3, RetypeTyped
      <3>2. QED
        BY <1>5, <2>3, <3>1
    <2>5. updated' \subseteq Known
      BY <1>2, <1>5, <2>3 DEF TypeOK
    <2>6. /\ current \in Known \cup {<<>>} /\ pending \ {t} \subseteq KnownTriangle
          /\ queue \subseteq Known
      BY DEF TypeOK
    <2>7. QED
      BY <1>5, <2>4, <2>5, <2>6, ContinueTyped
  <1>6. QED
    BY <1>4, <1>5 DEF IncrementalRevise

\* The regular return of a queue algorithm keeps the types.
LEMMA IncrementalDoneTyped ==
  ASSUME TypeOK, IncrementalDone \/ BeekManakDone
  PROVE  TypeOK'
  <1>1. /\ running # "idle" /\ Finish(TRUE)
        /\ edge' = edge /\ updated' = updated
    BY DEF IncrementalDone, BeekManakDone
  <1>2. Typed(edge') /\ \A p \in Pair \ Known : edge'[p] = <<>>
    BY <1>1, TypeOKGraph DEF GraphOK
  <1>3. updated' \subseteq Known
    BY <1>1 DEF TypeOK
  <1>4. QED
    BY <1>1, <1>2, <1>3, FinishTyped

\* pathConsistency_BeekManak, the pop of a pair, keeps the types.
LEMMA BeekManakPopTyped ==
  ASSUME TypeOK, NEW p \in Pair, BeekManakPop(p)
  PROVE  TypeOK'
  <1> DEFINE ts == {t \in KnownTriangle : <<t[1], t[2]>> = p \/ <<t[2], t[3]>> = p}
  <1>1. /\ Continue(p, ts, queue \ {p})
        /\ edge' = edge /\ updated' = updated /\ p \in queue
    BY DEF BeekManakPop
  <1>2. p \in Known \cup {<<>>} /\ ts \subseteq KnownTriangle /\ queue \ {p} \subseteq Known
    BY <1>1 DEF TypeOK
  <1>3. Typed(edge') /\ \A q \in Pair \ Known : edge'[q] = <<>>
    BY <1>1, TypeOKGraph DEF GraphOK
  <1>4. updated' \subseteq Known
    BY <1>1 DEF TypeOK
  <1>5. QED
    BY <1>1, <1>2, <1>3, <1>4, ContinueTyped

\* What getConstraintType(s,o,t) reads: the six directed pairs of a triangle.
Reads(t) == {<<t[1], t[2]>>, <<t[2], t[3]>>, <<t[1], t[3]>>,
             Back(<<t[1], t[2]>>), Back(<<t[2], t[3]>>), Back(<<t[1], t[3]>>)}

\* After the reads of a triangle its pairs have edges in both directions.
LEMMA ReadsFacts ==
  ASSUME GraphOK, NEW t \in KnownTriangle,
         NEW p \in {<<t[1], t[2]>>, <<t[2], t[3]>>, <<t[1], t[3]>>}
  PROVE  /\ p \in Pair /\ p \in Known /\ Back(p) \in Pair /\ Back(p) \in Known
         /\ Look(Reads(t))[p] # <<>> /\ Look(Reads(t))[Back(p)] # <<>>
         /\ Bidirectional(Look(Reads(t)), p) \in Types
         /\ Typed(Look(Reads(t)))
         /\ \A q \in Pair \ Known : Look(Reads(t))[q] = <<>>
         /\ Created(Reads(t)) \subseteq Known
  <1>1. Reads(t) \in SUBSET Known
    BY TriangleFacts DEF Reads
  <1>2. p \in Reads(t) /\ Back(p) \in Reads(t)
    BY DEF Reads
  <1>3. p \in Pair /\ p \in Known /\ Back(p) \in Pair /\ Back(p) \in Known
    BY <1>1, <1>2, KnownFacts
  <1>4. /\ Look(Reads(t))[p] # <<>> /\ Look(Reads(t))[Back(p)] # <<>>
        /\ Typed(Look(Reads(t)))
        /\ \A q \in Pair \ Known : Look(Reads(t))[q] = <<>>
        /\ Created(Reads(t)) \subseteq Known
    BY <1>1, <1>2, LookGraph
  <1>5. Bidirectional(Look(Reads(t)), p) \in Types
    BY <1>3, <1>4, BidirectionalTyped
  <1>6. QED
    BY <1>3, <1>4, <1>5

\* The graph that getConstraintType(s,o,t) leaves when the edge (s, t) takes
\* the type u: the three pairs of the triangle narrowed one after the other.
Narrowed(t, u) ==
  Narrow(Narrow(Narrow(Look(Reads(t)), <<t[1], t[2]>>,
                       Bidirectional(Look(Reads(t)), <<t[1], t[2]>>)),
                <<t[2], t[3]>>, Bidirectional(Look(Reads(t)), <<t[2], t[3]>>)),
         <<t[1], t[3]>>, u)

\* The graph that getConstraintType leaves is typed.
LEMMA NarrowedTyped ==
  ASSUME GraphOK, NEW t \in KnownTriangle, NEW u \in Types
  PROVE  Typed(Narrowed(t, u)) /\ \A q \in Pair \ Known : Narrowed(t, u)[q] = <<>>
  <1> DEFINE so == <<t[1], t[2]>>
             ot == <<t[2], t[3]>>
             st == <<t[1], t[3]>>
             e0 == Look(Reads(t))
             typeSO == Bidirectional(e0, so)
             typeOT == Bidirectional(e0, ot)
             e1 == Narrow(e0, so, typeSO)
             e2 == Narrow(e1, ot, typeOT)
             e3 == Narrow(e2, st, u)
  <1>1. /\ so \in Pair /\ Back(so) \in Pair /\ ot \in Pair /\ Back(ot) \in Pair
        /\ st \in Pair /\ Back(st) \in Pair
        /\ e0[so] # <<>> /\ e0[Back(so)] # <<>> /\ e0[ot] # <<>> /\ e0[Back(ot)] # <<>>
        /\ e0[st] # <<>> /\ e0[Back(st)] # <<>>
        /\ typeSO \in Types /\ typeOT \in Types /\ Typed(e0)
        /\ \A q \in Pair \ Known : e0[q] = <<>>
    BY ReadsFacts
  <1>2. e3 = Narrowed(t, u)
    BY DEF Narrowed
  <1> HIDE DEF so, ot, st, e0, typeSO, typeOT
  <1>3. Typed(e1) /\ \A q \in Pair : e1[q] = <<>> <=> e0[q] = <<>>
    BY <1>1, NarrowTyped
  <1> HIDE DEF e1
  <1>4. Typed(e2) /\ \A q \in Pair : e2[q] = <<>> <=> e1[q] = <<>>
    BY <1>1, <1>3, NarrowTyped
  <1> HIDE DEF e2
  <1>5. Typed(e3) /\ \A q \in Pair : e3[q] = <<>> <=> e2[q] = <<>>
    BY <1>1, <1>3, <1>4, NarrowTyped
  <1> HIDE DEF e3
  <1>6. QED
    BY <1>1, <1>2, <1>3, <1>4, <1>5

\* A revision of pathConsistency_BeekManak leaves the graph Narrowed, and the
\* rest as Finish or Continue says.
LEMMA BeekManakReviseIsNarrowed ==
  ASSUME TypeOK, NEW t \in Triangle, BeekManakRevise(t)
  PROVE  LET e == Look(Reads(t))
             so == <<t[1], t[2]>>
             st == <<t[1], t[3]>>
             final == Intersection(Bidirectional(e, st),
                                   Composition(Bidirectional(e, so),
                                               Bidirectional(e, <<t[2], t[3]>>)))
         IN  /\ running # "idle"
             /\ t \in KnownTriangle
             /\ final \in Types
             /\ edge' = Narrowed(t, final)
             /\ updated' = updated \cup Created(Reads(t))
             /\ \/ final = "empty" /\ Finish(FALSE)
                \/ \E q \in SUBSET {st, Back(so)} :
                      Continue(current, pending \ {t}, queue \cup q)
  <1> DEFINE e == Look(Reads(t))
             so == <<t[1], t[2]>>
             ot == <<t[2], t[3]>>
             st == <<t[1], t[3]>>
             old == Bidirectional(e, st)
             final == Intersection(old, Composition(Bidirectional(e, so),
                                                    Bidirectional(e, ot)))
             q == IF final = old THEN {} ELSE {IF so = current THEN st ELSE Back(so)}
  <1>1. t \in KnownTriangle /\ running # "idle"
    BY DEF TypeOK, BeekManakRevise
  <1>2. final \in Types
    <2>1. old \in Types /\ Bidirectional(e, so) \in Types /\ Bidirectional(e, ot) \in Types
      BY <1>1, TypeOKGraph, ReadsFacts
    <2>2. QED
      BY <2>1, TableTypes
  <1>3. /\ edge' = Narrowed(t, final)
        /\ updated' = updated \cup Created(Reads(t))
        /\ IF final = "empty" THEN Finish(FALSE)
           ELSE Continue(current, pending \ {t}, queue \cup q)
    BY DEF BeekManakRevise, Narrowed, Reads
  <1>4. q \in SUBSET {st, Back(so)}
    OBVIOUS
  <1> HIDE DEF e, final, q
  <1>5. QED
    BY <1>1, <1>2, <1>3, <1>4 DEF e, final

\* pathConsistency_BeekManak, the revision of a triangle, keeps the types.
LEMMA BeekManakReviseTyped ==
  ASSUME TypeOK, NEW t \in Triangle, BeekManakRevise(t)
  PROVE  TypeOK'
  <1>1. PICK u \in Types :
          /\ running # "idle"
          /\ t \in KnownTriangle
          /\ edge' = Narrowed(t, u)
          /\ updated' = updated \cup Created(Reads(t))
          /\ \/ Finish(FALSE)
             \/ \E q \in SUBSET {<<t[1], t[3]>>, Back(<<t[1], t[2]>>)} :
                   Continue(current, pending \ {t}, queue \cup q)
    BY BeekManakReviseIsNarrowed
  <1>2. Typed(edge') /\ \A q \in Pair \ Known : edge'[q] = <<>>
    BY <1>1, TypeOKGraph, NarrowedTyped
  <1>3. /\ updated' \subseteq Known
        /\ <<t[1], t[3]>> \in Known /\ Back(<<t[1], t[2]>>) \in Known
    BY <1>1, TypeOKGraph, ReadsFacts DEF TypeOK
  <1>4. CASE Finish(FALSE)
    BY <1>1, <1>2, <1>3, <1>4, FinishTyped
  <1>5. ASSUME NEW q \in SUBSET {<<t[1], t[3]>>, Back(<<t[1], t[2]>>)},
               Continue(current, pending \ {t}, queue \cup q)
        PROVE  TypeOK'
    <2>1. /\ current \in Known \cup {<<>>} /\ pending \ {t} \subseteq KnownTriangle
          /\ queue \cup q \subseteq Known
      BY <1>3 DEF TypeOK
    <2>2. QED
      BY <1>2, <1>3, <1>5, <2>1, ContinueTyped
  <1>6. QED
    BY <1>1, <1>4, <1>5

\* TypeOK holds in every reachable state: the graph keeps at most two edges
\* per directed pair, and the checks queue only pairs of the graph's vertices.
THEOREM TypeCorrect == Spec => []TypeOK
  <1>1. Init => TypeOK
    <2> SUFFICES ASSUME Init PROVE TypeOK
      OBVIOUS
    <2>1. IsFiniteSet(vertices)
      BY FS_EmptySet DEF Init
    <2>2. edge \in [Pair -> EdgeLists] /\ \A p \in Pair : edge[p] = <<>>
      BY DEF Init, EdgeLists
    <2>3. answer \in [by : {"none", "greaterThan", "gecode", "incremental", "beekManak"},
                      pair : Pair \cup {<<>>}, says : BOOLEAN]
      BY DEF Init, NoAnswer
    <2>4. adds \in 0..MaxAdds
      BY MaxAddsAssumption DEF Init
    <2>5. /\ vertices = {} /\ updated = {} /\ running = "idle" /\ queue = {}
          /\ current = <<>> /\ pending = {} /\ asserted = {} /\ aborted = FALSE
      BY DEF Init
    <2>6. QED
      BY <2>1, <2>2, <2>3, <2>4, <2>5 DEF TypeOK
  <1>2. TypeOK /\ [Next]_vars => TypeOK'
    <2> SUFFICES ASSUME TypeOK, [Next]_vars PROVE TypeOK'
      OBVIOUS
    <2>1. CASE \E p \in Pair, t \in InputTypes : AddConstraint(p, t)
      BY <2>1, AddConstraintTyped
    <2>2. CASE \E p \in Pair, n \in 1..2 : RemoveConstraint(p, n)
      BY <2>2, RemoveConstraintTyped
    <2>3. CASE \E p \in Pair : GreaterThan(p)
      BY <2>3, GreaterThanTyped
    <2>4. CASE CheckGecode \/ StartIncremental \/ StartBeekManak
      BY <2>4, StartTyped
    <2>5. CASE CheckStep
      BY <2>5, IncrementalPopTyped, BeekManakPopTyped, IncrementalReviseTyped,
         BeekManakReviseTyped, IncrementalDoneTyped DEF CheckStep
    <2>6. CASE UNCHANGED vars
      BY <2>6 DEF TypeOK, vars, Known, KnownTriangle
    <2>7. QED
      BY <2>1, <2>2, <2>3, <2>4, <2>5, <2>6 DEF Next
  <1>3. QED
    BY <1>1, <1>2, PTL DEF Spec


(***************************************************************************)
(* The tables of the point algebra against the order of the integers.      *)
(***************************************************************************)

\* getIntersection says of two instants what both types say of them.
LEMMA IntersectionHolds ==
  ASSUME NEW a \in Types, NEW b \in Types, NEW x \in Int, NEW y \in Int
  PROVE  Holds(Intersection(a, b), x, y) <=> Holds(a, x, y) /\ Holds(b, x, y)
  BY SMT DEF Types, Intersection, IntersectionSwitch, Holds

\* getSymmetric is the type read from the other end.
LEMMA SymmetricHolds ==
  ASSUME NEW a \in Types, NEW x \in Int, NEW y \in Int
  PROVE  Holds(Symmetric(a), y, x) <=> Holds(a, x, y)
  BY SMT DEF Types, Symmetric, Holds

Plain == Types \ {"!="}

\* Without Distinct getComposition covers every path over a third instant.
LEMMA CompositionHolds ==
  ASSUME NEW a \in Plain, NEW b \in Plain,
         NEW x \in Int, NEW y \in Int, NEW z \in Int,
         Holds(a, x, y), Holds(b, y, z)
  PROVE  Holds(Composition(a, b), x, z)
  <1>2. CASE a = "<"
    BY <1>2, SMT DEF Plain, Types, Composition, TypeAlgebra, Holds
  <1>3. CASE a = ">"
    BY <1>3, SMT DEF Plain, Types, Composition, TypeAlgebra, Holds
  <1>4. CASE a = "="
    BY <1>4, SMT DEF Plain, Types, Composition, TypeAlgebra, Holds
  <1>5. CASE a = "<="
    BY <1>5, SMT DEF Plain, Types, Composition, TypeAlgebra, Holds
  <1>6. CASE a = ">="
    BY <1>6, SMT DEF Plain, Types, Composition, TypeAlgebra, Holds
  <1>7. CASE a = "empty"
    BY <1>7, SMT DEF Holds
  <1>8. CASE a = "P"
    BY <1>8, SMT DEF Composition, Holds
  <1>9. QED
    BY <1>2, <1>3, <1>4, <1>5, <1>6, <1>7, <1>8 DEF Plain, Types

\* Without Distinct in the input the tables never produce it.
LEMMA TablesPlain ==
  ASSUME NEW a \in Plain, NEW b \in Plain
  PROVE  /\ Intersection(a, b) \in Plain
         /\ Composition(a, b) \in Plain
         /\ Symmetric(a) \in Plain
  <1>1. Intersection(a, b) \in Plain
    BY SMT DEF Plain, Types, Intersection, IntersectionSwitch
  <1>2. Symmetric(a) \in Plain
    BY SMT DEF Plain, Types, Symmetric
  <1>3. Composition(a, b) \in Plain
    BY SMT DEF Plain, Types, Composition, TypeAlgebra
  <1>4. QED
    BY <1>1, <1>2, <1>3

(***************************************************************************)
(* Entailment: every solution of the client's constraints satisfies type t *)
(* on pair p.                                                              *)
(***************************************************************************)
Entailed(t, p) ==
  /\ t \in Plain
  /\ \A v \in [Point -> Value] : SatisfiesClient(v) => HoldsAt(v, p, t)

\* The edge that a read creates says nothing.
LEMMA EntailedUniversal == \A p \in Pair : Entailed("P", p)
  <1> SUFFICES ASSUME NEW p \in Pair, NEW v \in [Point -> Value]
               PROVE  HoldsAt(v, p, "P")
    BY DEF Entailed, Plain, Types
  <1> v[p[1]] \in Int /\ v[p[2]] \in Int
    BY PairFacts, ValueAssumption
  <1> QED
    BY SMT DEF HoldsAt, Holds

\* The intersection of two entailed types is entailed.
LEMMA EntailedIntersection ==
  ASSUME NEW p \in Pair, NEW a, NEW b, Entailed(a, p), Entailed(b, p)
  PROVE  Entailed(Intersection(a, b), p)
  <1>1. a \in Plain /\ b \in Plain
    BY DEF Entailed
  <1>2. ASSUME NEW v \in [Point -> Value], SatisfiesClient(v)
        PROVE  HoldsAt(v, p, Intersection(a, b))
    <2>1. v[p[1]] \in Int /\ v[p[2]] \in Int
      BY PairFacts, ValueAssumption
    <2>2. HoldsAt(v, p, a) /\ HoldsAt(v, p, b)
      BY <1>2 DEF Entailed
    <2> QED
      BY <1>1, <2>1, <2>2, IntersectionHolds DEF HoldsAt, Plain
  <1> QED
    BY <1>1, <1>2, TablesPlain DEF Entailed

\* An entailed type is entailed from the other end.
LEMMA EntailedSymmetric ==
  ASSUME NEW p \in Pair, NEW a, Entailed(a, p)
  PROVE  Entailed(Symmetric(a), Back(p))
  <1>1. a \in Plain
    BY DEF Entailed
  <1>2. ASSUME NEW v \in [Point -> Value], SatisfiesClient(v)
        PROVE  HoldsAt(v, Back(p), Symmetric(a))
    <2>1. v[p[1]] \in Int /\ v[p[2]] \in Int
      BY PairFacts, ValueAssumption
    <2>2. HoldsAt(v, p, a)
      BY <1>2 DEF Entailed
    <2> QED
      BY <1>1, <2>1, <2>2, SymmetricHolds, PairFacts DEF HoldsAt, Plain
  <1> QED
    BY <1>1, <1>2, TablesPlain DEF Entailed

\* The composition along an entailed path is entailed.
LEMMA EntailedComposition ==
  ASSUME NEW i \in Point, NEW j \in Point, NEW k \in Point, NEW a, NEW b,
         Entailed(a, <<i, j>>), Entailed(b, <<j, k>>)
  PROVE  Entailed(Composition(a, b), <<i, k>>)
  <1>1. a \in Plain /\ b \in Plain
    BY DEF Entailed
  <1>2. ASSUME NEW v \in [Point -> Value], SatisfiesClient(v)
        PROVE  HoldsAt(v, <<i, k>>, Composition(a, b))
    <2>1. v[i] \in Int /\ v[j] \in Int /\ v[k] \in Int
      BY ValueAssumption
    <2>2. HoldsAt(v, <<i, j>>, a) /\ HoldsAt(v, <<j, k>>, b)
      BY <1>2 DEF Entailed
    <2> QED
      BY <1>1, <2>1, <2>2, CompositionHolds DEF HoldsAt
  <1> QED
    BY <1>1, <1>2, TablesPlain DEF Entailed

\* What is Empty and entailed refutes the client's constraints.
LEMMA EntailedEmpty ==
  ASSUME NEW p \in Pair, Entailed("empty", p)
  PROVE  ~Solvable
  <1> SUFFICES ASSUME NEW v \in [Point -> Value], SatisfiesClient(v) PROVE FALSE
    BY DEF Solvable
  <1>1. HoldsAt(v, p, "empty")
    BY DEF Entailed
  <1> QED
    BY <1>1, SMT DEF HoldsAt, Holds

(***************************************************************************)
(* A graph all of whose edges are entailed.                                *)
(***************************************************************************)
AllEntailed(e) ==
  /\ Typed(e)
  /\ \A p \in Pair : \A n \in 1..Len(e[p]) : Entailed(e[p][n], p)

\* A read adds only edges that are entailed.
LEMMA LookEntailed ==
  ASSUME AllEntailed(edge), NEW ps \in SUBSET Pair
  PROVE  AllEntailed(Look(ps))
  <1>1. Typed(Look(ps))
    BY LookTyped DEF AllEntailed
  <1>2. ASSUME NEW p \in Pair, NEW n \in 1..Len(Look(ps)[p])
        PROVE  Entailed(Look(ps)[p][n], p)
    <2>1. CASE Look(ps)[p] = edge[p]
      BY <2>1, <1>2 DEF AllEntailed
    <2>2. CASE Look(ps)[p] = <<"P">>
      BY <2>2, <1>2, EntailedUniversal
    <2>3. QED
      BY <2>1, <2>2, LookTyped DEF AllEntailed
  <1>3. QED
    BY <1>1, <1>2 DEF AllEntailed

\* What getBidirectionalConstraintType reads is entailed.
LEMMA BidirectionalEntailed ==
  ASSUME NEW e, AllEntailed(e), NEW p \in Pair, e[p] # <<>>, e[Back(p)] # <<>>
  PROVE  Entailed(Bidirectional(e, p), p)
  <1>1. Entailed(e[p][1], p) /\ Entailed(e[Back(p)][1], Back(p))
    BY ListFacts, PairFacts DEF AllEntailed, Typed
  <1>2. Entailed(Symmetric(e[Back(p)][1]), p)
    BY <1>1, EntailedSymmetric, PairFacts
  <1>3. QED
    BY <1>1, <1>2, EntailedIntersection DEF Bidirectional, Directional

\* revise may set an edge to a type that is entailed.
LEMMA RetypeEntailed ==
  ASSUME NEW e, AllEntailed(e), NEW p \in Pair, e[p] # <<>>,
         NEW t, Entailed(t, p)
  PROVE  AllEntailed(Retype(e, p, t))
  <1>1. t \in Types
    BY DEF Entailed, Plain
  <1>2. Typed(Retype(e, p, t))
    BY <1>1, RetypeTyped DEF AllEntailed
  <1>3. ASSUME NEW q \in Pair, NEW n \in 1..Len(Retype(e, p, t)[q])
        PROVE  Entailed(Retype(e, p, t)[q][n], q)
    <2>1. CASE q # p
      <3>1. Retype(e, p, t)[q] = e[q]
        BY <2>1 DEF Retype, AllEntailed, Typed
      <3>2. QED
        BY <3>1, <1>3 DEF AllEntailed
    <2>2. CASE q = p
      <3>1. Retype(e, p, t)[q] = [e[p] EXCEPT ![1] = t]
        BY <2>2 DEF Retype, AllEntailed, Typed
      <3>2. e[p] \in EdgeLists
        BY DEF AllEntailed, Typed
      <3>3. CASE n = 1
        BY <3>1, <3>2, <3>3, <2>2, <1>1, RetypedList
      <3>4. CASE n # 1
        <4>1. n \in 2..Len(e[p])
          BY <3>1, <3>2, <3>4, <1>1, <1>3, RetypedList, ListFacts
        <4>2. Retype(e, p, t)[q][n] = e[p][n]
          BY <3>1, <3>2, <4>1, <1>1, RetypedList
        <4>3. QED
          BY <4>1, <4>2, <2>2 DEF AllEntailed
      <3>5. QED
        BY <3>3, <3>4
    <2>3. QED
      BY <2>1, <2>2
  <1>4. QED
    BY <1>2, <1>3 DEF AllEntailed

\* getBidirectionalConstraint may set both directions to a type that is
\* entailed.
LEMMA NarrowEntailed ==
  ASSUME NEW e, AllEntailed(e), NEW p \in Pair, e[p] # <<>>, e[Back(p)] # <<>>,
         NEW t, Entailed(t, p)
  PROVE  AllEntailed(Narrow(e, p, t))
  <1>1. AllEntailed(Retype(e, p, t))
    BY RetypeEntailed
  <1>2. Retype(e, p, t)[Back(p)] # <<>>
    BY RetypeTyped, PairFacts DEF AllEntailed, Entailed, Plain
  <1>3. Entailed(Symmetric(t), Back(p))
    BY EntailedSymmetric
  <1>4. QED
    BY <1>1, <1>2, <1>3, RetypeEntailed, NarrowIsRetype, PairFacts

(***************************************************************************)
(* The inductive invariant: what is on an edge, whether the client put it  *)
(* there, a read created it or a check derived it, is entailed.            *)
(***************************************************************************)
SoundInv == TypeOK /\ AllEntailed(edge)

\* A step that leaves the client's constraints alone leaves entailment alone.
LEMMA SameClient ==
  ASSUME asserted' = asserted, AllEntailed(edge')
  PROVE  AllEntailed(edge)' /\ (Solvable <=> Solvable')
  BY DEF AllEntailed, Typed, Entailed, SatisfiesClient, Solvable

\* compactConstraint leaves the intersection of what was entailed, or nothing.
LEMMA CompactedEntailed ==
  ASSUME AllEntailed(edge), NEW p \in Pair
  PROVE  Compacted(edge[p]) = <<>>
           \/ \E m : Entailed(m, p) /\ Compacted(edge[p]) = <<m>>
  <1>1. edge[p] \in EdgeLists
    BY DEF AllEntailed, Typed
  <1>2. CASE Len(edge[p]) = 1
    <2>1. Entailed(edge[p][1], p)
      BY <1>2 DEF AllEntailed
    <2>2. QED
      BY <1>2, <2>1 DEF Compacted, Merged
  <1>3. CASE Len(edge[p]) = 2
    <2>1. Entailed(edge[p][1], p) /\ Entailed(edge[p][2], p)
      BY <1>3 DEF AllEntailed
    <2>2. Entailed(Merged(edge[p]), p)
      BY <1>3, <2>1, EntailedIntersection DEF Merged
    <2>3. QED
      BY <2>2 DEF Compacted
  <1>4. CASE edge[p] = <<>>
    BY <1>4 DEF Compacted
  <1>5. QED
    BY <1>1, <1>2, <1>3, <1>4, ListFacts

\* Entailment by the constraints A.
EntailedBy(A, t, p) ==
  /\ t \in Plain
  /\ \A v \in [Point -> Value] :
       (\A a \in A : HoldsAt(v, a[1], a[2])) => HoldsAt(v, p, t)

\* addQualitativeConstraint asserts what it adds.
LEMMA AddConstraintEntailed ==
  ASSUME SoundInv, "!=" \notin InputTypes,
         NEW p \in Pair, NEW t \in InputTypes, AddConstraint(p, t)
  PROVE  AllEntailed(edge)'
  <1> DEFINE After(u, q) == EntailedBy(asserted', u, q)
  <1>1. Typed(edge) /\ Typed(edge')
    BY AddConstraintTyped DEF SoundInv, TypeOK, Typed
  <1>2. ASSUME NEW u, NEW q, Entailed(u, q)
        PROVE  After(u, q)
    <2>1. asserted \subseteq asserted'
      BY DEF AddConstraint
    <2>2. QED
      BY <1>2, <2>1 DEF Entailed, EntailedBy, SatisfiesClient
  <1>3. After(t, p)
    <2>1. <<p, t>> \in asserted'
      BY DEF AddConstraint
    <2>2. t \in Plain
      BY InputTypesAssumption DEF Plain
    <2>3. QED
      BY <2>1, <2>2 DEF EntailedBy
  <1>4. PICK es \in WithEdge(Compacted(edge[p]), t) : edge' = [edge EXCEPT ![p] = es]
    BY DEF AddConstraint
  <1> HIDE DEF After
  <1>5. \A n \in 1..Len(es) : After(es[n], p)
    <2>1. CASE Compacted(edge[p]) = <<>>
      <3>1. es = <<t>>
        BY <1>4, <2>1 DEF WithEdge
      <3>2. QED
        BY <1>3, <3>1
    <2>2. ASSUME NEW m, Entailed(m, p), Compacted(edge[p]) = <<m>>
          PROVE  \A n \in 1..Len(es) : After(es[n], p)
      <3>1. After(m, p)
        BY <1>2, <2>2
      <3>2. es = <<m, t>> \/ es = <<t, m>>
        BY <1>4, <2>2 DEF WithEdge
      <3>3. \A n \in 1..Len(es) : es[n] = m \/ es[n] = t
        BY <3>2
      <3>4. QED
        BY <1>3, <3>1, <3>3
    <2>3. QED
      BY <2>1, <2>2, CompactedEntailed DEF SoundInv
  <1>6. ASSUME NEW q \in Pair, NEW n \in 1..Len(edge'[q])
        PROVE  After(edge'[q][n], q)
    <2>1. CASE q = p
      BY <1>1, <1>4, <1>5, <1>6, <2>1 DEF Typed
    <2>2. CASE q # p
      <3>1. edge'[q] = edge[q]
        BY <1>1, <1>4, <2>2 DEF Typed
      <3>2. Entailed(edge[q][n], q)
        BY <3>1, <1>6 DEF SoundInv, AllEntailed
      <3>3. QED
        BY <1>2, <3>1, <3>2
    <2>3. QED
      BY <2>1, <2>2
  <1>7. QED
    BY <1>1, <1>6 DEF After, EntailedBy, AllEntailed, Typed, Entailed, SatisfiesClient

\* greaterThan puts back what it took out.
LEMMA GreaterThanEntailed ==
  ASSUME SoundInv, NEW p \in Pair, GreaterThan(p)
  PROVE  AllEntailed(edge)'
  <1>1. Typed(edge) /\ Typed(edge') /\ asserted' = asserted
    BY GreaterThanTyped DEF SoundInv, TypeOK, Typed, GreaterThan, client
  <1>2. PICK es \in Readded(edge[p]) : edge' = [edge EXCEPT ![p] = es]
    BY DEF GreaterThan
  <1>3. \A n \in 1..Len(es) : Entailed(es[n], p)
    <2>1. CASE es = edge[p]
      BY <2>1 DEF SoundInv, AllEntailed
    <2>2. CASE Len(edge[p]) = 2 /\ es = <<edge[p][2], edge[p][1]>>
      <3>1. Entailed(edge[p][1], p) /\ Entailed(edge[p][2], p)
        BY <2>2 DEF SoundInv, AllEntailed
      <3>2. QED
        BY <2>2, <3>1
    <2>3. QED
      BY <1>2, <2>1, <2>2 DEF Readded
  <1>4. ASSUME NEW q \in Pair, NEW n \in 1..Len(edge'[q])
        PROVE  Entailed(edge'[q][n], q)
    <2>1. CASE q = p
      BY <1>1, <1>2, <1>3, <1>4, <2>1 DEF Typed
    <2>2. CASE q # p
      BY <1>1, <1>2, <1>4, <2>2 DEF SoundInv, AllEntailed, Typed
    <2>3. QED
      BY <2>1, <2>2
  <1>5. AllEntailed(edge')
    BY <1>1, <1>4 DEF AllEntailed
  <1>6. QED
    BY <1>1, <1>5, SameClient

(***************************************************************************)
(* What a check derives is entailed, and Empty is derived only when the    *)
(* client's constraints have no solution.                                  *)
(***************************************************************************)

\* A known pair that was read: its reads are entailed.
LEMMA ReadEntailed ==
  ASSUME SoundInv, NEW ps \in SUBSET Known, NEW p \in Pair, p \in ps
  PROVE  /\ Look(ps)[p] # <<>>
         /\ AllEntailed(Look(ps))
         /\ Entailed(Directional(Look(ps), p), p)
         /\ Back(p) \in ps => Entailed(Bidirectional(Look(ps), p), p)
  <1>1. ps \in SUBSET Pair
    BY DEF Known
  <1>2. AllEntailed(Look(ps))
    BY <1>1, LookEntailed DEF SoundInv
  <1>3. \A q \in ps : Look(ps)[q] # <<>>
    BY <1>1, LookTyped DEF SoundInv, AllEntailed
  <1>4. Entailed(Directional(Look(ps), p), p)
    BY <1>2, <1>3, ListFacts DEF AllEntailed, Typed, Directional
  <1>5. Back(p) \in ps => Entailed(Bidirectional(Look(ps), p), p)
    BY <1>2, <1>3, BidirectionalEntailed
  <1>6. QED
    BY <1>2, <1>3, <1>4, <1>5

\* incrementalPathConsistency, the pop of a pair.
LEMMA IncrementalPopEntailed ==
  ASSUME SoundInv, NEW p \in Pair, IncrementalPop(p)
  PROVE  /\ asserted' = asserted
         /\ AllEntailed(edge')
         /\ answer' = answer \/ ~Solvable
  <1> DEFINE pairs == IF Cardinality(vertices) = 2 THEN {p, Back(p)} ELSE {}
  <1>1. p \in Known /\ pairs \in SUBSET Known /\ pairs \in SUBSET Pair
    BY KnownFacts DEF SoundInv, TypeOK, IncrementalPop, Known
  <1>2. edge' = Look(pairs) /\ asserted' = asserted
    BY DEF IncrementalPop, Finish, Continue, client
  <1>3. AllEntailed(Look(pairs))
    BY <1>1, LookEntailed DEF SoundInv
  <1>4. \/ answer' = answer
        \/ pairs # {} /\ Bidirectional(Look(pairs), p) = "empty"
    <2>1. CASE pairs # {} /\ Bidirectional(Look(pairs), p) = "empty"
      BY <2>1
    <2>2. CASE ~(pairs # {} /\ Bidirectional(Look(pairs), p) = "empty")
      <3>1. Continue(p, {t \in KnownTriangle : {t[1], t[2]} = {p[1], p[2]}}, queue)
        BY <2>2 DEF IncrementalPop
      <3>2. QED
        BY <3>1 DEF Continue
    <2>3. QED
      BY <2>1, <2>2
  <1>5. ASSUME pairs # {}, Bidirectional(Look(pairs), p) = "empty"
        PROVE  ~Solvable
    <2>1. p \in pairs /\ Back(p) \in pairs
      BY <1>5
    <2> HIDE DEF pairs
    <2>2. Entailed("empty", p)
      BY <1>1, <1>5, <2>1, ReadEntailed
    <2>3. QED
      BY <2>2, EntailedEmpty
  <1>6. QED
    BY <1>2, <1>3, <1>4, <1>5

\* incrementalPathConsistency, the revision of a triangle.
LEMMA IncrementalReviseEntailed ==
  ASSUME SoundInv, NEW t \in Triangle, IncrementalRevise(t)
  PROVE  /\ asserted' = asserted
         /\ AllEntailed(edge')
         /\ answer' = answer \/ ~Solvable
  <1> DEFINE i == t[1]
             j == t[2]
             k == t[3]
             ik == <<i, k>>
             readIJ == Both(i, j)
             readJK == readIJ \cup Both(j, k)
             readIK == readJK \cup {ik}
             ij == Bidirectional(Look(readIJ), <<i, j>>)
             jk == Bidirectional(Look(readJK), <<j, k>>)
             old == Directional(Look(readIK), ik)
             revised == Intersection(old, Composition(ij, jk))
  <1>1. t \in KnownTriangle
    BY DEF SoundInv, TypeOK, IncrementalRevise
  <1>2. /\ readIJ \in SUBSET Known /\ readJK \in SUBSET Known /\ readIK \in SUBSET Known
        /\ i \in Point /\ j \in Point /\ k \in Point
        /\ <<i, j>> \in Pair /\ <<j, k>> \in Pair /\ ik \in Pair
        /\ Back(<<i, j>>) = <<j, i>> /\ Back(<<j, k>>) = <<k, j>>
    BY <1>1, TriangleFacts DEF Both
  <1>3. /\ <<i, j>> \in readIJ /\ <<j, i>> \in readIJ
        /\ <<j, k>> \in readJK /\ <<k, j>> \in readJK /\ ik \in readIK
    BY DEF Both
  <1>4. asserted' = asserted
    BY DEF IncrementalRevise, Throw, Finish, Continue, client
  <1>5. \/ ij = "empty" /\ edge' = Look(readIJ)
        \/ jk = "empty" /\ edge' = Look(readJK)
        \/ revised = "empty" /\ edge' = Look(readIK)
        \/ answer' = answer /\ edge' = Retype(Look(readIK), ik, revised)
    BY DEF IncrementalRevise, Throw, Continue
  <1> HIDE DEF readIJ, readJK, readIK
  <1>6. /\ AllEntailed(Look(readIJ)) /\ Entailed(ij, <<i, j>>)
        /\ AllEntailed(Look(readJK)) /\ Entailed(jk, <<j, k>>)
        /\ AllEntailed(Look(readIK)) /\ Entailed(old, ik) /\ Look(readIK)[ik] # <<>>
    BY <1>2, <1>3, ReadEntailed
  <1> HIDE DEF ij, jk, old
  <1>7. Entailed(Composition(ij, jk), ik)
    BY <1>2, <1>6, EntailedComposition
  <1>8. Entailed(revised, ik)
    BY <1>2, <1>6, <1>7, EntailedIntersection
  <1> HIDE DEF revised
  <1>9. AllEntailed(Retype(Look(readIK), ik, revised))
    BY <1>2, <1>6, <1>8, RetypeEntailed
  <1>10. ij = "empty" \/ jk = "empty" \/ revised = "empty" => ~Solvable
    BY <1>2, <1>6, <1>8, EntailedEmpty
  <1> HIDE DEF i, j, k, ik
  <1>11. QED
    BY <1>4, <1>5, <1>6, <1>9, <1>10

\* The graph that getConstraintType leaves.
LEMMA NarrowedEntailed ==
  ASSUME SoundInv, NEW t \in KnownTriangle, NEW u, Entailed(u, <<t[1], t[3]>>)
  PROVE  AllEntailed(Narrowed(t, u))
  <1> DEFINE so == <<t[1], t[2]>>
             ot == <<t[2], t[3]>>
             st == <<t[1], t[3]>>
             e0 == Look(Reads(t))
             typeSO == Bidirectional(e0, so)
             typeOT == Bidirectional(e0, ot)
             e1 == Narrow(e0, so, typeSO)
             e2 == Narrow(e1, ot, typeOT)
             e3 == Narrow(e2, st, u)
  <1>1. GraphOK
    BY TypeOKGraph DEF SoundInv
  <1>2. /\ so \in Pair /\ Back(so) \in Pair /\ ot \in Pair /\ Back(ot) \in Pair
        /\ st \in Pair /\ Back(st) \in Pair
        /\ e0[so] # <<>> /\ e0[Back(so)] # <<>> /\ e0[ot] # <<>> /\ e0[Back(ot)] # <<>>
        /\ e0[st] # <<>> /\ e0[Back(st)] # <<>>
        /\ typeSO \in Types /\ typeOT \in Types
    BY <1>1, ReadsFacts
  <1>3. Reads(t) \in SUBSET Pair
    BY <1>2 DEF Reads
  <1>4. AllEntailed(e0)
    BY <1>3, LookEntailed DEF SoundInv
  <1>5. e3 = Narrowed(t, u) /\ u \in Types /\ Entailed(u, st)
    BY DEF Narrowed, Entailed, Plain
  <1> HIDE DEF so, ot, st, e0
  <1>6. Entailed(typeSO, so) /\ Entailed(typeOT, ot)
    BY <1>2, <1>4, BidirectionalEntailed
  <1> HIDE DEF typeSO, typeOT
  <1>7. AllEntailed(e1) /\ \A q \in Pair : e1[q] = <<>> <=> e0[q] = <<>>
    BY <1>2, <1>4, <1>6, NarrowEntailed, NarrowTyped DEF AllEntailed
  <1> HIDE DEF e1
  <1>8. AllEntailed(e2) /\ \A q \in Pair : e2[q] = <<>> <=> e1[q] = <<>>
    BY <1>2, <1>6, <1>7, NarrowEntailed, NarrowTyped DEF AllEntailed
  <1> HIDE DEF e2
  <1>9. AllEntailed(e3)
    BY <1>2, <1>5, <1>7, <1>8, NarrowEntailed
  <1> HIDE DEF e3
  <1>10. QED
    BY <1>5, <1>9

\* pathConsistency_BeekManak, the revision of a triangle.
LEMMA BeekManakReviseEntailed ==
  ASSUME SoundInv, NEW t \in Triangle, BeekManakRevise(t)
  PROVE  /\ asserted' = asserted
         /\ AllEntailed(edge')
         /\ answer' = answer \/ ~Solvable
  <1> DEFINE e == Look(Reads(t))
             so == <<t[1], t[2]>>
             ot == <<t[2], t[3]>>
             st == <<t[1], t[3]>>
             typeSO == Bidirectional(e, so)
             typeOT == Bidirectional(e, ot)
             old == Bidirectional(e, st)
             final == Intersection(old, Composition(typeSO, typeOT))
  <1>1. /\ t \in KnownTriangle
        /\ edge' = Narrowed(t, final)
        /\ \/ final = "empty"
           \/ answer' = answer
    BY BeekManakReviseIsNarrowed DEF SoundInv, Continue
  <1>2. asserted' = asserted
    BY DEF BeekManakRevise, Finish, Continue, client
  <1>3. GraphOK /\ t[1] \in Point /\ t[2] \in Point /\ t[3] \in Point
    BY <1>1, TypeOKGraph, TriangleFacts DEF SoundInv
  <1>4. /\ so \in Pair /\ ot \in Pair /\ st \in Pair
        /\ so \in Known /\ ot \in Known /\ st \in Known
        /\ Back(so) \in Known /\ Back(ot) \in Known /\ Back(st) \in Known
    BY <1>1, <1>3, ReadsFacts
  <1>5. /\ Reads(t) \in SUBSET Known
        /\ so \in Reads(t) /\ ot \in Reads(t) /\ st \in Reads(t)
        /\ Back(so) \in Reads(t) /\ Back(ot) \in Reads(t) /\ Back(st) \in Reads(t)
    BY <1>4 DEF Reads
  <1>6. Entailed(typeSO, so) /\ Entailed(typeOT, ot) /\ Entailed(old, st)
    BY <1>4, <1>5, ReadEntailed
  <1> HIDE DEF typeSO, typeOT, old
  <1>7. Entailed(final, st)
    <2>1. Entailed(Composition(typeSO, typeOT), st)
      BY <1>3, <1>6, EntailedComposition
    <2>2. QED
      BY <1>4, <1>6, <2>1, EntailedIntersection
  <1> HIDE DEF final
  <1>8. AllEntailed(Narrowed(t, final))
    BY <1>1, <1>7, NarrowedEntailed
  <1>9. QED
    BY <1>1, <1>2, <1>4, <1>7, <1>8, EntailedEmpty

(***************************************************************************)
(* Gecode's domain 0..n-1 is large enough: an instant is replaced by its   *)
(* rank among the instants of the graph's vertices.                        *)
(***************************************************************************)
LEMMA Ranks ==
  ASSUME NEW V, IsFiniteSet(V), NEW w \in [V -> Int]
  PROVE  \E r \in [V -> 0..(Cardinality(V) - 1)] :
           \A x, y \in V : /\ w[x] < w[y] => r[x] < r[y]
                           /\ w[x] = w[y] => r[x] = r[y]
  <1> DEFINE img == {w[x] : x \in V}
             below(x) == {n \in img : n < w[x]}
             r == [x \in V |-> Cardinality(below(x))]
  <1>1. img \subseteq Int
    OBVIOUS
  <1>2. IsFiniteSet(img) /\ Cardinality(img) <= Cardinality(V)
    <2>1. [x \in V |-> w[x]] \in Surjection(V, img)
      BY DEF Surjection
    <2>2. QED
      BY <2>1, FS_Surjection
  <1>3. \A x \in V : w[x] \in img
    OBVIOUS
  <1> HIDE DEF img
  <1>4. Cardinality(V) \in Nat /\ Cardinality(img) \in Nat
    BY <1>2, FS_CardinalityType
  <1>5. ASSUME NEW x \in V
        PROVE  /\ IsFiniteSet(below(x))
               /\ Cardinality(below(x)) \in Nat
               /\ Cardinality(below(x)) < Cardinality(img)
    <2>1. below(x) \in SUBSET img /\ below(x) # img
      BY <1>1, <1>3
    <2>2. QED
      BY <1>2, <1>4, <2>1, FS_Subset, FS_CardinalityType
  <1>6. r \in [V -> 0..(Cardinality(V) - 1)]
    BY <1>2, <1>4, <1>5
  <1>7. ASSUME NEW x \in V, NEW y \in V, w[x] < w[y]
        PROVE  r[x] < r[y]
    <2>1. below(x) \in SUBSET below(y)
      <3>1. w[x] \in Int /\ w[y] \in Int
        BY <1>1, <1>3
      <3>2. ASSUME NEW n \in img, n < w[x]
            PROVE  n < w[y]
        BY <1>1, <1>7, <3>1, <3>2
      <3>3. QED
        BY <3>2
    <2>2. w[x] \in below(y) /\ w[x] \notin below(x)
      BY <1>3, <1>7
    <2>3. below(x) # below(y)
      BY <2>2
    <2>4. Cardinality(below(x)) < Cardinality(below(y))
      <3> HIDE DEF below
      <3>1. IsFiniteSet(below(y)) /\ Cardinality(below(x)) \in Nat /\ Cardinality(below(y)) \in Nat
        BY <1>5
      <3>2. QED
        BY <3>1, <2>1, <2>3, FS_Subset
    <2>5. QED
      BY <2>4
  <1>8. \A x, y \in V : w[x] = w[y] => r[x] = r[y]
    OBVIOUS
  <1>9. QED
    BY <1>6, <1>7, <1>8

\* A type that holds of two instants holds of their ranks.
LEMMA RankHolds ==
  ASSUME NEW t \in Types, NEW x \in Int, NEW y \in Int, NEW m \in Int, NEW n \in Int,
         x < y => m < n, y < x => n < m, x = y => m = n, Holds(t, x, y)
  PROVE  Holds(t, m, n)
  BY SMT DEF Types, Holds

\* Gecode finds an order of the vertices when there are instants at all that
\* satisfy the graph.
LEMMA GecodeFinds ==
  ASSUME TypeOK, NEW e, Typed(e), \A p \in Pair \ Known : e[p] = <<>>,
         NEW v \in [Point -> Value], SatisfiesGraph(v, e)
  PROVE  GecodeConsistent(e)
  <1> DEFINE w == [x \in vertices |-> v[x]]
  <1>1. IsFiniteSet(vertices) /\ vertices \subseteq Point
    BY DEF TypeOK
  <1>2. w \in [vertices -> Int]
    BY <1>1, ValueAssumption
  <1>3. PICK r \in [vertices -> 0..(Cardinality(vertices) - 1)] :
          \A x, y \in vertices : /\ w[x] < w[y] => r[x] < r[y]
                                 /\ w[x] = w[y] => r[x] = r[y]
    BY <1>1, <1>2, Ranks
  <1>4. ASSUME NEW p \in Pair, NEW n \in 1..Len(e[p])
        PROVE  HoldsAt(r, p, e[p][n])
    <2>1. e[p] \in EdgeLists /\ e[p] # <<>>
      BY <1>4 DEF Typed
    <2>2. p[1] \in vertices /\ p[2] \in vertices
      BY <2>1 DEF Known
    <2>3. e[p][n] \in Types /\ HoldsAt(v, p, e[p][n])
      BY <1>4, <2>1, ListFacts DEF SatisfiesGraph
    <2>4. /\ w[p[1]] = v[p[1]] /\ w[p[2]] = v[p[2]]
          /\ v[p[1]] \in Int /\ v[p[2]] \in Int
          /\ r[p[1]] \in Int /\ r[p[2]] \in Int
      BY <1>1, <1>2, <1>3, <2>2
    <2>5. /\ v[p[1]] < v[p[2]] => r[p[1]] < r[p[2]]
          /\ v[p[2]] < v[p[1]] => r[p[2]] < r[p[1]]
          /\ v[p[1]] = v[p[2]] => r[p[1]] = r[p[2]]
      BY <1>3, <2>2, <2>4
    <2> HIDE DEF w
    <2>6. Holds(e[p][n], r[p[1]], r[p[2]])
      BY <2>3, <2>4, <2>5, RankHolds DEF HoldsAt
    <2>7. QED
      BY <2>6 DEF HoldsAt
  <1>5. SatisfiesGraph(r, e)
    BY <1>4 DEF SatisfiesGraph
  <1>6. QED
    BY <1>3, <1>5 DEF GecodeConsistent

\* What Gecode refutes has no solution over any set of instants.
LEMMA GecodeRefutes ==
  ASSUME SoundInv, ~GecodeConsistent(edge)
  PROVE  ~Solvable
  <1> SUFFICES ASSUME NEW v \in [Point -> Value], SatisfiesClient(v)
               PROVE  GecodeConsistent(edge)
    BY DEF Solvable
  <1>1. SatisfiesGraph(v, edge)
    BY DEF SoundInv, AllEntailed, Entailed, SatisfiesGraph
  <1>2. Typed(edge) /\ \A p \in Pair \ Known : edge[p] = <<>>
    BY DEF SoundInv, TypeOK, Typed
  <1>3. QED
    BY <1>1, <1>2, GecodeFinds DEF SoundInv

(***************************************************************************)
(* One step of the system.                                                 *)
(***************************************************************************)

\* A revision or a pop keeps the invariants and refutes only the unsolvable.
LEMMA CheckStepSound ==
  ASSUME SoundInv, RefutesOnlyUnsolvable, CheckStep
  PROVE  AllEntailed(edge)' /\ RefutesOnlyUnsolvable'
  <1>1. /\ asserted' = asserted
        /\ AllEntailed(edge')
        /\ answer' = answer \/ answer'.says = TRUE \/ ~Solvable
    <2>1. ASSUME NEW p \in Pair, IncrementalPop(p)
          PROVE  /\ asserted' = asserted
                 /\ AllEntailed(edge')
                 /\ answer' = answer \/ ~Solvable
      BY <2>1, IncrementalPopEntailed
    <2>2. ASSUME NEW p \in Pair, BeekManakPop(p)
          PROVE  /\ asserted' = asserted
                 /\ AllEntailed(edge')
                 /\ answer' = answer
      BY <2>2 DEF BeekManakPop, Continue, client, SoundInv
    <2>3. ASSUME NEW t \in Triangle, IncrementalRevise(t) \/ BeekManakRevise(t)
          PROVE  /\ asserted' = asserted
                 /\ AllEntailed(edge')
                 /\ answer' = answer \/ ~Solvable
      BY <2>3, IncrementalReviseEntailed, BeekManakReviseEntailed
    <2>4. ASSUME IncrementalDone \/ BeekManakDone
          PROVE  /\ asserted' = asserted
                 /\ AllEntailed(edge')
                 /\ answer'.says = TRUE
      <3>1. edge' = edge /\ Finish(TRUE)
        BY <2>4 DEF IncrementalDone, BeekManakDone
      <3>2. QED
        BY <3>1 DEF Finish, Answers, SoundInv
    <2>5. QED
      BY <2>1, <2>2, <2>3, <2>4 DEF CheckStep
  <1>2. AllEntailed(edge)' /\ (Solvable <=> Solvable')
    BY <1>1, SameClient
  <1>3. RefutesOnlyUnsolvable'
    BY <1>1, <1>2 DEF RefutesOnlyUnsolvable
  <1>4. QED
    BY <1>2, <1>3

\* Every step of the client and of the checks keeps the invariant.
LEMMA NextSound ==
  ASSUME "!=" \notin InputTypes, "remove" \notin Operations,
         SoundInv, RefutesOnlyUnsolvable, [Next]_vars
  PROVE  AllEntailed(edge)' /\ RefutesOnlyUnsolvable'
  <1>1. CASE \E p \in Pair, t \in InputTypes : AddConstraint(p, t)
    <2>1. PICK p \in Pair, t \in InputTypes : AddConstraint(p, t)
      BY <1>1
    <2>2. answer'.by = "none"
      BY <2>1 DEF AddConstraint, NoAnswer
    <2>3. QED
      BY <2>1, <2>2, AddConstraintEntailed DEF RefutesOnlyUnsolvable
  <1>2. CASE \E p \in Pair, n \in 1..2 : RemoveConstraint(p, n)
    BY <1>2 DEF RemoveConstraint
  <1>3. CASE \E p \in Pair : GreaterThan(p)
    <2>1. PICK p \in Pair : GreaterThan(p)
      BY <1>3
    <2>2. answer'.by = "greaterThan"
      BY <2>1 DEF GreaterThan, Answers
    <2>3. QED
      BY <2>1, <2>2, GreaterThanEntailed DEF RefutesOnlyUnsolvable
  <1>4. CASE CheckGecode
    <2>1. /\ edge' = edge /\ asserted' = asserted
          /\ answer'.says = GecodeConsistent(edge)
      BY <1>4 DEF CheckGecode, graph, client, Answers
    <2>2. AllEntailed(edge)' /\ (Solvable <=> Solvable')
      BY <2>1, SameClient DEF SoundInv
    <2>3. QED
      BY <2>1, <2>2, GecodeRefutes DEF RefutesOnlyUnsolvable
  <1>5. CASE StartIncremental \/ StartBeekManak
    <2>1. edge' = edge /\ asserted' = asserted /\ answer' = answer
      BY <1>5 DEF StartIncremental, StartBeekManak, graph, client
    <2>2. AllEntailed(edge)' /\ (Solvable <=> Solvable')
      BY <2>1, SameClient DEF SoundInv
    <2>3. QED
      BY <2>1, <2>2 DEF RefutesOnlyUnsolvable
  <1>6. CASE CheckStep
    BY <1>6, CheckStepSound
  <1>7. CASE UNCHANGED vars
    <2>1. edge' = edge /\ asserted' = asserted /\ answer' = answer
      BY <1>7 DEF vars
    <2>2. AllEntailed(edge)' /\ (Solvable <=> Solvable')
      BY <2>1, SameClient DEF SoundInv
    <2>3. QED
      BY <2>1, <2>2 DEF RefutesOnlyUnsolvable
  <1>8. QED
    BY <1>1, <1>2, <1>3, <1>4, <1>5, <1>6, <1>7 DEF Next

\* The invariant of the soundness theorems holds initially.
LEMMA InitSound == Init => AllEntailed(edge) /\ RefutesOnlyUnsolvable
  BY DEF Init, AllEntailed, Typed, EdgeLists, RefutesOnlyUnsolvable, NoAnswer

\* The checks, the edges that reads create, the compaction of parallel edges
\* and the probes of greaterThan never exclude a solution of the constraints
\* the client added.
THEOREM SolutionsKept ==
  ASSUME "!=" \notin InputTypes, "remove" \notin Operations
  PROVE  Spec => []KeepsSolutions
  <1>1. Spec => [](AllEntailed(edge) /\ RefutesOnlyUnsolvable)
    <2>1. TypeOK /\ AllEntailed(edge) /\ RefutesOnlyUnsolvable /\ [Next]_vars
            => (AllEntailed(edge) /\ RefutesOnlyUnsolvable)'
      BY NextSound DEF SoundInv
    <2>2. QED
      BY InitSound, TypeCorrect, <2>1, PTL DEF Spec
  <1>2. AllEntailed(edge) => KeepsSolutions
    BY DEF AllEntailed, KeepsSolutions, SatisfiesGraph, Entailed
  <1>3. QED
    BY <1>1, <1>2, PTL

\* False, from Gecode's search, from incremental path consistency or from the
\* algorithm of van Beek and Manak, means that no assignment of instants to the
\* time points satisfies the constraints the client added.
THEOREM RefutationsRight ==
  ASSUME "!=" \notin InputTypes, "remove" \notin Operations
  PROVE  Spec => []RefutesOnlyUnsolvable
  <1>1. TypeOK /\ AllEntailed(edge) /\ RefutesOnlyUnsolvable /\ [Next]_vars
          => (AllEntailed(edge) /\ RefutesOnlyUnsolvable)'
    BY NextSound DEF SoundInv
  <1>2. QED
    BY InitSound, TypeCorrect, <1>1, PTL DEF Spec
=============================================================================
