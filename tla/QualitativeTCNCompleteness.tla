--------------------- MODULE QualitativeTCNCompleteness ---------------------
(***************************************************************************)
(* What an accepting check of QualitativeTCN promises, for every set of    *)
(* time points and every bound, as long as no directed pair gets a second  *)
(* edge: the constraints the client added have a solution.  The module     *)
(* QualitativeTCNProofs has the other half, what a refusal promises.       *)
(* And that a check gets anywhere: each of its steps leaves less to do.    *)
(* The algorithm of van Beek and Manak comes last, with an invariant of    *)
(* its own.                                                                *)
(***************************************************************************)
EXTENDS QualitativeTCNProofs

\* There are as many instants as points in any finite set of them: Gecode's
\* domain 0..n-1 is part of the instants a solution is made of.
EnoughInstants ==
  \A S \in SUBSET Point : IsFiniteSet(S) => 0..(Cardinality(S) - 1) \subseteq Value

(***************************************************************************)
(* A type is tighter than another when it allows no other order.           *)
(***************************************************************************)
Tighter(t, u) == Primitives(t) \subseteq Primitives(u)

\* What a type says of two instants its weaker types say, too.
LEMMA TighterHolds ==
  ASSUME NEW t \in Types, NEW u \in Types, Tighter(t, u),
         NEW x \in Int, NEW y \in Int, Holds(t, x, y)
  PROVE  Holds(u, x, y)
  <1>1. /\ x < y => "<" \in Primitives(t)
        /\ x = y => "=" \in Primitives(t)
        /\ x > y => ">" \in Primitives(t)
    BY SMT DEF Holds, Primitives, Types
  <1>2. /\ x < y => "<" \in Primitives(u)
        /\ x = y => "=" \in Primitives(u)
        /\ x > y => ">" \in Primitives(u)
    BY <1>1 DEF Tighter
  <1>3. QED
    BY <1>2, SMT DEF Holds, Primitives, Types

\* An intersection is tighter than both its types.
LEMMA IntersectionTighter ==
  ASSUME NEW t \in Types, NEW u \in Types
  PROVE  Tighter(Intersection(t, u), t) /\ Tighter(Intersection(t, u), u)
  BY TablesIntersect DEF IntersectionIsExact, Tighter

\* getSymmetric turns each primitive order round.
LEMMA SymmetricPrimitives ==
  ASSUME NEW w \in Types
  PROVE  /\ "<" \in Primitives(Symmetric(w)) <=> ">" \in Primitives(w)
         /\ ">" \in Primitives(Symmetric(w)) <=> "<" \in Primitives(w)
         /\ "=" \in Primitives(Symmetric(w)) <=> "=" \in Primitives(w)
         /\ Primitives(w) \subseteq {"<", "=", ">"}
  <1>1. /\ Primitives("empty") = {} /\ Primitives("<") = {"<"}
        /\ Primitives("=") = {"="} /\ Primitives(">") = {">"}
        /\ Primitives("!=") = {"<", ">"} /\ Primitives(">=") = {">", "="}
        /\ Primitives("<=") = {"<", "="} /\ Primitives("P") = {"<", "=", ">"}
    BY SMT DEF Primitives
  <1>2. /\ Symmetric("empty") = "empty" /\ Symmetric("<") = ">"
        /\ Symmetric("=") = "=" /\ Symmetric(">") = "<"
        /\ Symmetric("!=") = "!=" /\ Symmetric(">=") = "<="
        /\ Symmetric("<=") = ">=" /\ Symmetric("P") = "P"
    BY SMT DEF Symmetric
  <1>3. QED
    BY <1>1, <1>2 DEF Types

\* getSymmetric keeps the order of the types, and is its own inverse.
LEMMA SymmetricTighter ==
  ASSUME NEW t \in Types, NEW u \in Types, Tighter(t, Symmetric(u))
  PROVE  Tighter(Symmetric(t), u)
  <1>1. Symmetric(t) \in Types /\ Symmetric(u) \in Types
    BY TableTypes
  <1>2. QED
    BY <1>1, SymmetricPrimitives DEF Tighter

(***************************************************************************)
(* A graph with at most one edge per directed pair, and one that says no   *)
(* less than another.                                                      *)
(***************************************************************************)
Simple(e) == Typed(e) /\ \A p \in Pair : Len(e[p]) <= 1

Tightened(f, e) ==
  /\ Typed(f)
  /\ \A p \in Pair : e[p] = <<>> => Len(f[p]) <= 1
  /\ \A p \in Pair : e[p] # <<>> => /\ f[p] # <<>>
                                   /\ Len(f[p]) = Len(e[p])
                                   /\ Tighter(f[p][1], e[p][1])

LEMMA TightenedTransitive ==
  ASSUME NEW e, NEW f, NEW g, Tightened(f, e), Tightened(g, f)
  PROVE  Tightened(g, e)
  <1>1. ASSUME NEW p \in Pair, e[p] = <<>>
        PROVE  Len(g[p]) <= 1
    BY <1>1 DEF Tightened
  <1>2. QED
    BY <1>1 DEF Tightened, Tighter

LEMMA TightenedReflexive ==
  ASSUME NEW e, Typed(e)
  PROVE  Tightened(e, e)
  <1>1. \A p \in Pair : e[p] = <<>> => Len(e[p]) <= 1
    BY ListFacts DEF Typed
  <1>2. QED
    BY <1>1 DEF Tightened, Tighter

\* Tightening gives no pair a second edge.
LEMMA TightenedSimple ==
  ASSUME NEW e, NEW f, Simple(e), Tightened(f, e)
  PROVE  Simple(f)
  <1>1. \A p \in Pair : Len(f[p]) <= 1
    BY DEF Tightened, Simple
  <1>2. QED
    BY <1>1 DEF Tightened, Simple

\* A read adds edges only where there is none.
LEMMA LookTightened ==
  ASSUME Typed(edge), NEW ps \in SUBSET Pair
  PROVE  Tightened(Look(ps), edge)
  <1>1. Typed(Look(ps))
    BY LookTyped
  <1>2. PICK r : r = <<"P">>
    OBVIOUS
  <1>3. Len(r) = 1
    BY <1>2
  <1>4. ASSUME NEW p \in Pair
        PROVE  /\ edge[p] = <<>> => Len(Look(ps)[p]) <= 1
               /\ edge[p] # <<>> => Look(ps)[p] = edge[p]
    <2>1. Look(ps)[p] = IF p \in Created(ps) THEN r ELSE edge[p]
      BY <1>2 DEF Look
    <2>2. edge[p] = <<>> => Len(edge[p]) <= 1
      BY ListFacts DEF Typed
    <2>3. p \in Created(ps) => edge[p] = <<>>
      BY DEF Created
    <2>4. ASSUME Look(ps)[p] = r
          PROVE  Len(Look(ps)[p]) <= 1
      <3>1. Len(Look(ps)[p]) = 1
        BY <1>3, <2>4, Zenon
      <3>2. QED
        BY <3>1
    <2>5. ASSUME Look(ps)[p] = edge[p], edge[p] = <<>>
          PROVE  Len(Look(ps)[p]) <= 1
      BY <2>2, <2>5
    <2>6. QED
      BY <2>1, <2>3, <2>4, <2>5
  <1>5. QED
    BY <1>1, <1>4 DEF Tightened, Tighter

\* setType with a tighter type.
LEMMA RetypeTightened ==
  ASSUME NEW e, Typed(e), NEW p \in Pair, e[p] # <<>>,
         NEW t \in Types, Tighter(t, e[p][1])
  PROVE  /\ Tightened(Retype(e, p, t), e)
         /\ Retype(e, p, t)[p] # <<>> /\ Retype(e, p, t)[p][1] = t
         /\ \A q \in Pair : q # p => Retype(e, p, t)[q] = e[q]
  <1>1. e[p] \in EdgeLists /\ e \in [Pair -> EdgeLists]
    BY DEF Typed
  <1>2. Retype(e, p, t)[p] = [e[p] EXCEPT ![1] = t]
    BY <1>1 DEF Retype
  <1>3. /\ Retype(e, p, t)[p] # <<>> /\ Retype(e, p, t)[p][1] = t
        /\ Len(Retype(e, p, t)[p]) = Len(e[p])
    BY <1>1, <1>2, RetypedList
  <1>4. \A q \in Pair : q # p => Retype(e, p, t)[q] = e[q]
    BY <1>1 DEF Retype
  <1>5. Typed(Retype(e, p, t))
    BY RetypeTyped
  <1>6. \A q \in Pair : e[q] = <<>> => Len(Retype(e, p, t)[q]) <= 1
    BY <1>4, ListFacts DEF Typed
  <1>7. QED
    BY <1>3, <1>4, <1>5, <1>6 DEF Tightened, Tighter

\* getBidirectionalConstraint sets both directions to their intersection, or
\* to a tighter type, and leaves the other pairs alone.
LEMMA NarrowTightened ==
  ASSUME NEW e, Typed(e), NEW p \in Pair, e[p] # <<>>, e[Back(p)] # <<>>,
         NEW t \in Types, Tighter(t, Bidirectional(e, p))
  PROVE  /\ Tightened(Narrow(e, p, t), e)
         /\ \A q \in Pair \ {p, Back(p)} : Narrow(e, p, t)[q] = e[q]
  <1> DEFINE b == Back(p)
             f == Retype(e, p, t)
  <1>1. b \in Pair /\ b # p
    BY PairFacts DEF Pair, Back
  <1>2. e[p][1] \in Types /\ e[b][1] \in Types
    BY <1>1, ListFacts DEF Typed
  <1>3. Tighter(t, e[p][1]) /\ Tighter(t, Symmetric(e[b][1]))
    BY <1>2, TableTypes, IntersectionTighter DEF Bidirectional, Directional, Tighter
  <1>4. Tighter(Symmetric(t), e[b][1]) /\ Symmetric(t) \in Types
    BY <1>2, <1>3, SymmetricTighter, TableTypes
  <1>5. /\ Tightened(f, e)
        /\ \A q \in Pair : q # p => f[q] = e[q]
    BY <1>3, RetypeTightened
  <1>6. f[b] = e[b] /\ Typed(f)
    BY <1>1, <1>5 DEF Tightened
  <1> HIDE DEF f
  <1>7. /\ Tightened(Retype(f, b, Symmetric(t)), f)
        /\ \A q \in Pair : q # b => Retype(f, b, Symmetric(t))[q] = f[q]
    BY <1>1, <1>4, <1>6, RetypeTightened
  <1>8. Narrow(e, p, t) = Retype(f, b, Symmetric(t))
    BY NarrowIsRetype DEF f
  <1>9. QED
    BY <1>5, <1>7, <1>8, TightenedTransitive

(***************************************************************************)
(* Every step of a check tightens the graph.                               *)
(***************************************************************************)

\* The graph that getConstraintType leaves, when its last type is tighter than
\* what the pair (s, t) had.
LEMMA NarrowedTightened ==
  ASSUME GraphOK, NEW t \in KnownTriangle, NEW u \in Types,
         Tighter(u, Bidirectional(Look(Reads(t)), <<t[1], t[3]>>))
  PROVE  Tightened(Narrowed(t, u), edge)
  <1> DEFINE so == <<t[1], t[2]>>
             ot == <<t[2], t[3]>>
             st == <<t[1], t[3]>>
             e0 == Look(Reads(t))
             typeSO == Bidirectional(e0, so)
             typeOT == Bidirectional(e0, ot)
             e1 == Narrow(e0, so, typeSO)
             e2 == Narrow(e1, ot, typeOT)
             e3 == Narrow(e2, st, u)
  <1>1. /\ so \in Pair /\ Back(so) \in Pair /\ ot \in Pair /\ Back(ot) \in Pair
        /\ st \in Pair /\ Back(st) \in Pair
        /\ e0[so] # <<>> /\ e0[Back(so)] # <<>> /\ e0[ot] # <<>> /\ e0[Back(ot)] # <<>>
        /\ e0[st] # <<>> /\ e0[Back(st)] # <<>>
        /\ typeSO \in Types /\ typeOT \in Types
    BY ReadsFacts
  <1>2. /\ ot \notin {so, Back(so)} /\ Back(ot) \notin {so, Back(so)}
        /\ st \notin {so, Back(so), ot, Back(ot)}
        /\ Back(st) \notin {so, Back(so), ot, Back(ot)}
    BY DEF KnownTriangle, Triangle, Back
  <1>3. Reads(t) \in SUBSET Pair
    BY <1>1 DEF Reads
  <1>4. /\ Typed(edge)
        /\ Typed(e0)
        /\ Tightened(e0, edge)
    <2>1. Typed(edge)
      BY DEF GraphOK
    <2>2. QED
      BY <1>3, <2>1, LookTightened, LookTyped
  <1>5. e3 = Narrowed(t, u) /\ Tighter(u, Bidirectional(e0, st))
    BY DEF Narrowed
  <1> HIDE DEF so, ot, st, e0
  <1>6. /\ Tightened(e1, e0)
        /\ \A q \in Pair \ {so, Back(so)} : e1[q] = e0[q]
    BY <1>1, <1>4, NarrowTightened DEF Tighter
  <1> HIDE DEF e1
  <1>7. /\ Typed(e1) /\ e1[ot] = e0[ot] /\ e1[Back(ot)] = e0[Back(ot)]
        /\ typeOT = Bidirectional(e1, ot)
    BY <1>1, <1>2, <1>6 DEF Tightened, Bidirectional, Directional
  <1> HIDE DEF typeSO, typeOT
  <1>8. /\ Tightened(e2, e1)
        /\ \A q \in Pair \ {ot, Back(ot)} : e2[q] = e1[q]
    BY <1>1, <1>7, NarrowTightened DEF Tighter
  <1> HIDE DEF e2
  <1>9. /\ Typed(e2) /\ e2[st] = e0[st] /\ e2[Back(st)] = e0[Back(st)]
        /\ Bidirectional(e0, st) = Bidirectional(e2, st)
    BY <1>1, <1>2, <1>6, <1>8 DEF Tightened, Bidirectional, Directional
  <1>10. Tightened(e3, e2)
    BY <1>1, <1>5, <1>9, NarrowTightened
  <1> HIDE DEF e3
  <1>11. QED
    BY <1>4, <1>5, <1>6, <1>8, <1>10, TightenedTransitive

\* incrementalPathConsistency, the pop of a pair.
LEMMA IncrementalPopTightens ==
  ASSUME TypeOK, NEW p \in Pair, IncrementalPop(p)
  PROVE  /\ Tightened(edge', edge)
         /\ asserted' = asserted
         /\ answer' = answer \/ ~answer'.says
  <1> DEFINE pairs == IF Cardinality(vertices) = 2 THEN {p, Back(p)} ELSE {}
  <1>1. pairs \in SUBSET Pair
    BY PairFacts
  <1>2. /\ edge' = Look(pairs) /\ asserted' = asserted
        /\ Finish(FALSE) \/ answer' = answer
    BY DEF IncrementalPop, Finish, Continue, client
  <1> HIDE DEF pairs
  <1>3. Finish(FALSE) => ~answer'.says
    BY DEF Finish, Answers
  <1>4. Typed(edge)
    BY TypeOKGraph DEF GraphOK
  <1>5. QED
    BY <1>1, <1>2, <1>3, <1>4, LookTightened

\* incrementalPathConsistency, the revision of a triangle.
LEMMA IncrementalReviseTightens ==
  ASSUME TypeOK, NEW t \in Triangle, IncrementalRevise(t)
  PROVE  /\ Tightened(edge', edge)
         /\ asserted' = asserted
         /\ answer' = answer \/ ~answer'.says
  <1> DEFINE i == t[1]
             j == t[2]
             k == t[3]
             ik == <<i, k>>
             readIJ == Both(i, j)
             readJK == readIJ \cup Both(j, k)
             readIK == readJK \cup {ik}
             ij == Bidirectional(Look(readIJ), <<i, j>>)
             jk == Bidirectional(Look(readJK), <<j, k>>)
             old == Directional(Look(readIK), ik)
             revised == Intersection(old, Composition(ij, jk))
  <1>1. t \in KnownTriangle /\ GraphOK /\ Typed(edge)
    BY TypeOKGraph DEF TypeOK, IncrementalRevise, GraphOK
  <1>2. /\ readIJ \in SUBSET Pair /\ readJK \in SUBSET Pair /\ readIK \in SUBSET Pair
        /\ <<i, j>> \in Pair /\ <<j, k>> \in Pair /\ ik \in Pair
        /\ Back(<<i, j>>) = <<j, i>> /\ Back(<<j, k>>) = <<k, j>>
    BY <1>1, TriangleFacts DEF Both
  <1>3. /\ <<i, j>> \in readIJ /\ <<j, i>> \in readIJ
        /\ <<j, k>> \in readJK /\ <<k, j>> \in readJK /\ ik \in readIK
    BY DEF Both
  <1>4. /\ asserted' = asserted
        /\ answer' = answer \/ Finish(FALSE)
    BY DEF IncrementalRevise, Throw, Finish, Continue, client
  <1>5. \/ edge' = Look(readIJ)
        \/ edge' = Look(readJK)
        \/ edge' = Look(readIK)
        \/ edge' = Retype(Look(readIK), ik, revised)
    BY DEF IncrementalRevise, Throw
  <1> HIDE DEF readIJ, readJK, readIK
  <1>6. /\ Tightened(Look(readIJ), edge) /\ Tightened(Look(readJK), edge)
        /\ Tightened(Look(readIK), edge)
    BY <1>1, <1>2, LookTightened
  <1>7. /\ Typed(Look(readIJ)) /\ Typed(Look(readJK)) /\ Typed(Look(readIK))
        /\ Look(readIJ)[<<i, j>>] # <<>> /\ Look(readIJ)[<<j, i>>] # <<>>
        /\ Look(readJK)[<<j, k>>] # <<>> /\ Look(readJK)[<<k, j>>] # <<>>
        /\ Look(readIK)[ik] # <<>>
    BY <1>1, <1>2, <1>3, LookTyped
  <1>8. ij \in Types /\ jk \in Types
    BY <1>2, <1>7, BidirectionalTyped
  <1>9. old \in Types
    BY <1>2, <1>7, ListFacts DEF Typed, Directional
  <1> HIDE DEF ij, jk
  <1>10. Composition(ij, jk) \in Types
    BY <1>8, TableTypes
  <1>11. revised \in Types /\ Tighter(revised, Look(readIK)[ik][1])
    BY <1>9, <1>10, TableTypes, IntersectionTighter DEF Directional
  <1> HIDE DEF revised, ik
  <1>12. Tightened(Retype(Look(readIK), ik, revised), Look(readIK))
    BY <1>2, <1>6, <1>7, <1>11, RetypeTightened DEF Tightened
  <1>13. Finish(FALSE) => ~answer'.says
    BY DEF Finish, Answers
  <1>14. Tightened(Retype(Look(readIK), ik, revised), edge)
    BY <1>6, <1>12, TightenedTransitive
  <1>15. Tightened(edge', edge)
    BY <1>5, <1>6, <1>14
  <1>16. QED
    BY <1>4, <1>13, <1>15

\* pathConsistency_BeekManak, the revision of a triangle.
LEMMA BeekManakReviseTightens ==
  ASSUME TypeOK, NEW t \in Triangle, BeekManakRevise(t)
  PROVE  /\ Tightened(edge', edge)
         /\ asserted' = asserted
         /\ answer' = answer \/ ~answer'.says
  <1> DEFINE e == Look(Reads(t))
             old == Bidirectional(e, <<t[1], t[3]>>)
             typeSO == Bidirectional(e, <<t[1], t[2]>>)
             typeOT == Bidirectional(e, <<t[2], t[3]>>)
             final == Intersection(old, Composition(typeSO, typeOT))
  <1>1. /\ t \in KnownTriangle
        /\ final \in Types
        /\ edge' = Narrowed(t, final)
        /\ Finish(FALSE) \/ answer' = answer
    BY BeekManakReviseIsNarrowed DEF Continue
  <1>2. asserted' = asserted
    BY DEF BeekManakRevise, Finish, Continue, client
  <1>3. GraphOK
    BY TypeOKGraph
  <1>4. old \in Types /\ typeSO \in Types /\ typeOT \in Types
    BY <1>1, <1>3, ReadsFacts
  <1>5. Composition(typeSO, typeOT) \in Types
    BY <1>4, TableTypes
  <1>6. Tighter(final, old)
    BY <1>4, <1>5, IntersectionTighter
  <1> HIDE DEF final
  <1>7. Tightened(Narrowed(t, final), edge)
    BY <1>1, <1>3, <1>6, NarrowedTightened
  <1>8. Finish(FALSE) => ~answer'.says
    BY DEF Finish, Answers
  <1>9. QED
    BY <1>1, <1>2, <1>7, <1>8

\* A step of a check leaves the client's constraints alone and tightens the
\* graph; only the end of an emptied queue answers true.
LEMMA CheckStepTightens ==
  ASSUME TypeOK, CheckStep
  PROVE  /\ Tightened(edge', edge)
         /\ asserted' = asserted
         /\ answer' = answer \/ ~answer'.says \/ IncrementalDone \/ BeekManakDone
  <1>1. ASSUME NEW p \in Pair, IncrementalPop(p)
        PROVE  /\ Tightened(edge', edge)
               /\ asserted' = asserted
               /\ answer' = answer \/ ~answer'.says
    BY <1>1, IncrementalPopTightens
  <1>2. ASSUME NEW t \in Triangle, IncrementalRevise(t) \/ BeekManakRevise(t)
        PROVE  /\ Tightened(edge', edge)
               /\ asserted' = asserted
               /\ answer' = answer \/ ~answer'.says
    BY <1>2, IncrementalReviseTightens, BeekManakReviseTightens
  <1>3. ASSUME NEW p \in Pair, BeekManakPop(p)
        PROVE  edge' = edge /\ asserted' = asserted /\ answer' = answer
    BY <1>3 DEF BeekManakPop, Continue, client
  <1>4. ASSUME IncrementalDone \/ BeekManakDone
        PROVE  edge' = edge /\ asserted' = asserted
    BY <1>4 DEF IncrementalDone, BeekManakDone, Finish
  <1>5. Tightened(edge, edge)
    BY TypeOKGraph, TightenedReflexive DEF GraphOK
  <1>6. QED
    BY <1>1, <1>2, <1>3, <1>4, <1>5 DEF CheckStep

\* A check signs the answer it returns.
LEMMA CheckStepAnswers ==
  ASSUME CheckStep
  PROVE  answer' = answer \/ answer'.by = running
  <1>1. ASSUME NEW says, Finish(says) PROVE answer'.by = running
    BY <1>1 DEF Finish, Answers
  <1>2. ASSUME NEW p \in Pair, IncrementalPop(p) \/ BeekManakPop(p)
        PROVE  answer' = answer \/ answer'.by = running
    BY <1>1, <1>2 DEF IncrementalPop, BeekManakPop, Continue
  <1>3. ASSUME NEW t \in Triangle, IncrementalRevise(t)
        PROVE  answer' = answer \/ answer'.by = running
    <2>1. answer' = answer \/ Finish(FALSE)
      BY <1>3 DEF IncrementalRevise, Throw, Continue
    <2>2. QED
      BY <1>1, <2>1
  <1>4. ASSUME NEW t \in Triangle, BeekManakRevise(t)
        PROVE  answer' = answer \/ answer'.by = running
    <2>1. answer' = answer \/ Finish(FALSE)
      BY <1>4 DEF BeekManakRevise, Continue
    <2>2. QED
      BY <1>1, <2>1
  <1>5. CASE IncrementalDone \/ BeekManakDone
    BY <1>1, <1>5 DEF IncrementalDone, BeekManakDone
  <1>6. QED
    BY <1>2, <1>3, <1>4, <1>5 DEF CheckStep

(***************************************************************************)
(* The inductive invariant: every constraint the client added is on its    *)
(* edge, as it was added or tighter.                                       *)
(***************************************************************************)
Carries(e) ==
  \A x \in asserted : e[x[1]] # <<>> /\ Tighter(e[x[1]][1], x[2])

CarriedInv == TypeOK /\ Simple(edge) /\ Carries(edge)

\* A tighter graph carries what the looser one did.
LEMMA TightenedCarries ==
  ASSUME CarriedInv, Tightened(edge', edge), asserted' = asserted
  PROVE  Simple(edge') /\ Carries(edge)'
  <1>1. \A x \in asserted : x[1] \in Pair
    BY DEF CarriedInv, TypeOK
  <1>2. Simple(edge')
    BY TightenedSimple DEF CarriedInv
  <1>3. QED
    BY <1>1, <1>2 DEF CarriedInv, Carries, Tightened, Tighter

\* addQualitativeConstraint on a pair without an edge.
LEMMA AddConstraintCarries ==
  ASSUME CarriedInv, "parallel" \notin Operations,
         NEW p \in Pair, NEW t \in InputTypes, AddConstraint(p, t)
  PROVE  Simple(edge') /\ Carries(edge)'
  <1>1. /\ edge[p] = <<>>
        /\ asserted' = asserted \cup {<<p, t>>}
        /\ edge' = [edge EXCEPT ![p] = <<t>>]
    <2>1. edge[p] = <<>>
      BY DEF AddConstraint
    <2>2. Compacted(edge[p]) = <<>>
      BY <2>1 DEF Compacted
    <2>3. WithEdge(Compacted(edge[p]), t) = {<<t>>}
      BY <2>2 DEF WithEdge
    <2>4. QED
      BY <2>1, <2>3 DEF AddConstraint
  <1>2. Typed(edge) /\ t \in Types
    BY InputTypesAssumption DEF CarriedInv, Simple
  <1>3. /\ edge'[p] = <<t>> /\ \A q \in Pair \ {p} : edge'[q] = edge[q]
        /\ Typed(edge')
    BY <1>1, <1>2 DEF Typed, EdgeLists
  <1>4. PICK r : r = <<t>>
    OBVIOUS
  <1>5. Len(r) <= 1 /\ r # <<>> /\ r[1] = t
    BY <1>4
  <1>6. Simple(edge')
    BY <1>3, <1>4, <1>5 DEF CarriedInv, Simple
  <1>7. ASSUME NEW x \in asserted'
        PROVE  edge'[x[1]] # <<>> /\ Tighter(edge'[x[1]][1], x[2])
    <2>1. CASE x \in asserted
      <3>1. x[1] \in Pair /\ edge[x[1]] # <<>> /\ Tighter(edge[x[1]][1], x[2])
        BY <2>1 DEF CarriedInv, TypeOK, Carries
      <3>2. x[1] # p
        BY <1>1, <3>1
      <3>3. QED
        BY <1>3, <3>1, <3>2
    <2>2. CASE x = <<p, t>>
      BY <1>3, <1>4, <1>5, <2>2 DEF Tighter
    <2>3. QED
      BY <1>1, <1>7, <2>1, <2>2
  <1>8. QED
    BY <1>6, <1>7 DEF Carries

\* removeQualitativeConstraint takes the only edge of the pair.
LEMMA RemoveConstraintCarries ==
  ASSUME CarriedInv, NEW p \in Pair, NEW n \in 1..2, RemoveConstraint(p, n)
  PROVE  Simple(edge') /\ Carries(edge)'
  <1>1. edge[p] \in EdgeLists /\ Len(edge[p]) <= 1 /\ Typed(edge)
    BY DEF CarriedInv, Simple, Typed
  <1>2. Len(edge[p]) = 1
    BY <1>1, ListFacts DEF RemoveConstraint
  <1>3. Without(edge[p], n) = <<>>
    BY <1>2 DEF Without
  <1>4. /\ edge' = [edge EXCEPT ![p] = <<>>]
        /\ asserted' = {x \in asserted : x[1] # p}
                          \cup {<<p, Without(edge[p], n)[m]>> : m \in 1..Len(Without(edge[p], n))}
    BY <1>3 DEF RemoveConstraint
  <1>5. asserted' = {x \in asserted : x[1] # p}
    BY <1>3, <1>4
  <1>6. /\ edge'[p] = <<>> /\ \A q \in Pair \ {p} : edge'[q] = edge[q]
        /\ Typed(edge')
    BY <1>1, <1>4 DEF Typed, EdgeLists
  <1>7. Simple(edge')
    <2>1. \A q \in Pair \ {p} : Len(edge'[q]) <= 1
      BY <1>6 DEF CarriedInv, Simple
    <2>2. Len(edge'[p]) <= 1
      BY <1>6
    <2>3. QED
      BY <1>6, <2>1, <2>2 DEF Simple
  <1>8. Carries(edge)'
    BY <1>5, <1>6 DEF CarriedInv, TypeOK, Carries
  <1>9. QED
    BY <1>7, <1>8

\* greaterThan puts the only edge of the pair back.
LEMMA GreaterThanSame ==
  ASSUME Simple(edge), NEW p \in Pair, GreaterThan(p)
  PROVE  edge' = edge /\ asserted' = asserted
  <1>1. edge[p] \in EdgeLists /\ Len(edge[p]) <= 1 /\ edge \in [Pair -> EdgeLists]
    BY DEF Simple, Typed
  <1>2. Readded(edge[p]) = {edge[p]}
    BY <1>1, ListFacts DEF Readded
  <1>3. QED
    BY <1>1, <1>2 DEF GreaterThan, client

(***************************************************************************)
(* An order of the vertices that satisfies the graph is part of a solution *)
(* of the client's constraints.                                            *)
(***************************************************************************)
LEMMA OrderExtends ==
  ASSUME CarriedInv, EnoughInstants,
         NEW v \in [vertices -> Value], SatisfiesGraph(v, edge)
  PROVE  \E w \in [Point -> Value] :
           SatisfiesClient(w) /\ \A x \in vertices : w[x] = v[x]
  <1> DEFINE w == [x \in Point |-> IF x \in vertices THEN v[x] ELSE 0]
  <1>1. \A x \in Point : 0 \in Value
    <2> SUFFICES ASSUME NEW x \in Point PROVE 0 \in Value
      OBVIOUS
    <2>1. {x} \in SUBSET Point /\ IsFiniteSet({x}) /\ Cardinality({x}) = 1
      BY FS_Singleton
    <2>2. 0..(Cardinality({x}) - 1) \subseteq Value
      BY <2>1 DEF EnoughInstants
    <2>3. QED
      BY <2>1, <2>2
  <1>2. w \in [Point -> Value]
    BY <1>1
  <1>3. vertices \subseteq Point
    BY DEF CarriedInv, TypeOK
  <1>4. \A x \in vertices : w[x] = v[x]
    BY <1>3
  <1> HIDE DEF w
  <1>5. ASSUME NEW x \in asserted
        PROVE  HoldsAt(w, x[1], x[2])
    <2>1. /\ x[1] \in Pair /\ x[2] \in Types
          /\ edge[x[1]] # <<>> /\ Tighter(edge[x[1]][1], x[2])
      BY DEF CarriedInv, TypeOK, Carries
    <2>2. x[1] \in Known
      BY <2>1 DEF CarriedInv, TypeOK
    <2>3. /\ x[1][1] \in vertices /\ x[1][2] \in vertices
      BY <2>2 DEF Known
    <2>4. edge[x[1]] \in EdgeLists
      BY <2>1 DEF CarriedInv, TypeOK
    <2>5. edge[x[1]][1] \in Types /\ 1 \in 1..Len(edge[x[1]])
      BY <2>1, <2>4, ListFacts
    <2>6. HoldsAt(v, x[1], edge[x[1]][1])
      BY <2>1, <2>5 DEF SatisfiesGraph
    <2>7. v[x[1][1]] \in Int /\ v[x[1][2]] \in Int
      BY <2>3, ValueAssumption
    <2>8. Holds(x[2], v[x[1][1]], v[x[1][2]])
      BY <2>1, <2>5, <2>6, <2>7, TighterHolds DEF HoldsAt
    <2>9. QED
      BY <1>4, <2>3, <2>8 DEF HoldsAt
  <1>6. QED
    BY <1>2, <1>4, <1>5 DEF SatisfiesClient

\* The domain of a Gecode variable is a set of instants.
LEMMA DomainIsValues ==
  ASSUME TypeOK, EnoughInstants
  PROVE  0..(Cardinality(vertices) - 1) \subseteq Value
  BY DEF TypeOK, EnoughInstants

\* Two time points are not in a graph of one vertex.
LEMMA TwoVertices ==
  ASSUME TypeOK, NEW p \in Known
  PROVE  Cardinality(vertices) >= 2
  <1>1. p[1] \in vertices /\ p[2] \in vertices /\ p[1] # p[2]
    BY DEF Known, Pair
  <1>2. Cardinality({p[1]} \cup {p[2]}) = 2
    <2>1. IsFiniteSet({p[1]}) /\ Cardinality({p[1]}) = 1 /\ p[2] \notin {p[1]}
      BY <1>1, FS_Singleton
    <2>2. Cardinality({p[1]} \cup {p[2]}) = Cardinality({p[1]}) + 1
      BY <2>1, FS_AddElement
    <2>3. QED
      BY <2>1, <2>2
  <1>3. {p[1]} \cup {p[2]} \in SUBSET vertices
    BY <1>1
  <1>4. IsFiniteSet(vertices) /\ Cardinality(vertices) \in Nat
    BY FS_CardinalityType DEF TypeOK
  <1>5. QED
    BY <1>2, <1>3, <1>4, FS_Subset

\* What Gecode accepts has a solution.
LEMMA GecodeAccepts ==
  ASSUME CarriedInv, EnoughInstants, GecodeConsistent(edge)
  PROVE  Solvable
  <1>1. ASSUME NEW v \in [vertices -> Value], SatisfiesGraph(v, edge)
        PROVE  Solvable
    BY <1>1, OrderExtends DEF Solvable
  <1>2. CASE Cardinality(vertices) <= 1
    <2>1. Known = {}
      <3>1. Cardinality(vertices) \in Nat
        BY FS_CardinalityType DEF CarriedInv, TypeOK
      <3>2. QED
        BY <1>2, <3>1, TwoVertices DEF CarriedInv
    <2>2. \A p \in Pair : edge[p] = <<>>
      BY <2>1 DEF CarriedInv, TypeOK
    <2>3. \A v : SatisfiesGraph(v, edge)
      BY <2>2 DEF SatisfiesGraph
    <2>4. \A x \in vertices : 0 \in Value
      <3> SUFFICES ASSUME NEW x \in vertices PROVE 0 \in Value
        OBVIOUS
      <3>1. {x} \in SUBSET Point /\ IsFiniteSet({x}) /\ Cardinality({x}) = 1
        BY FS_Singleton DEF CarriedInv, TypeOK
      <3>2. QED
        BY <3>1 DEF EnoughInstants
    <2>5. [x \in vertices |-> 0] \in [vertices -> Value]
      BY <2>4
    <2>6. QED
      BY <1>1, <2>3, <2>5
  <1>3. CASE \E v \in [vertices -> 0..(Cardinality(vertices) - 1)] : SatisfiesGraph(v, edge)
    <2>1. PICK v \in [vertices -> 0..(Cardinality(vertices) - 1)] : SatisfiesGraph(v, edge)
      BY <1>3
    <2>2. v \in [vertices -> Value]
      BY DomainIsValues DEF CarriedInv
    <2>3. QED
      BY <1>1, <2>1, <2>2
  <1>4. QED
    BY <1>2, <1>3 DEF GecodeConsistent

(***************************************************************************)
(* The steps of the client and of the checks keep the invariant.           *)
(***************************************************************************)
LEMMA NextCarries ==
  ASSUME CarriedInv, "parallel" \notin Operations, [Next]_vars
  PROVE  Simple(edge)' /\ Carries(edge)'
  <1>1. CASE \E p \in Pair, t \in InputTypes : AddConstraint(p, t)
    BY <1>1, AddConstraintCarries DEF Simple, Typed
  <1>2. CASE \E p \in Pair, n \in 1..2 : RemoveConstraint(p, n)
    BY <1>2, RemoveConstraintCarries DEF Simple, Typed
  <1>3. ASSUME Tightened(edge', edge), asserted' = asserted
        PROVE  Simple(edge)' /\ Carries(edge)'
    BY <1>3, TightenedCarries DEF Simple, Typed
  <1>4. ASSUME edge' = edge, asserted' = asserted
        PROVE  Simple(edge)' /\ Carries(edge)'
    <2>1. Tightened(edge, edge)
      BY TightenedReflexive DEF CarriedInv, Simple
    <2>2. Tightened(edge', edge)
      BY <1>4, <2>1
    <2>3. QED
      BY <1>3, <1>4, <2>2
  <1>5. CASE \E p \in Pair : GreaterThan(p)
    BY <1>4, <1>5, GreaterThanSame DEF CarriedInv
  <1>6. CASE CheckGecode \/ StartIncremental \/ StartBeekManak \/ UNCHANGED vars
    BY <1>4, <1>6 DEF CheckGecode, StartIncremental, StartBeekManak, graph, client, vars
  <1>7. CASE CheckStep
    BY <1>3, <1>7, CheckStepTightens DEF CarriedInv
  <1>8. QED
    BY <1>1, <1>2, <1>5, <1>6, <1>7 DEF Next

LEMMA InitCarries == Init => Simple(edge) /\ Carries(edge)
  BY DEF Init, Simple, Typed, EdgeLists, Carries

\* Every constraint the client added stays on its edge, as it was added or
\* tighter, whatever is probed, checked or removed in between.
LEMMA AlwaysCarries ==
  ASSUME "parallel" \notin Operations
  PROVE  Spec => []CarriedInv
  <1>1. TypeOK /\ Simple(edge) /\ Carries(edge) /\ [Next]_vars
          => (Simple(edge) /\ Carries(edge))'
    BY NextCarries DEF CarriedInv
  <1>2. CarriedInv <=> TypeOK /\ Simple(edge) /\ Carries(edge)
    BY DEF CarriedInv
  <1>3. QED
    BY InitCarries, TypeCorrect, <1>1, <1>2, PTL DEF Spec

\* True from the default algorithm means that the constraints have a solution,
\* on every network that probes, checks and removals have left behind, with
\* Distinct or without, as long as no directed pair has two edges.
THEOREM GecodeDecides ==
  ASSUME "parallel" \notin Operations, EnoughInstants
  PROVE  Spec => []GecodeAcceptsOnlySolvable
  <1>1. Init => GecodeAcceptsOnlySolvable
    BY DEF Init, NoAnswer, GecodeAcceptsOnlySolvable
  <1>2. CarriedInv /\ GecodeAcceptsOnlySolvable /\ [Next]_vars
          => GecodeAcceptsOnlySolvable'
    <2> SUFFICES ASSUME CarriedInv, GecodeAcceptsOnlySolvable, [Next]_vars
                 PROVE  GecodeAcceptsOnlySolvable'
      OBVIOUS
    <2>1. asserted' = asserted => (Solvable <=> Solvable')
      BY DEF Solvable, SatisfiesClient
    <2>2. ASSUME answer' = answer, asserted' = asserted
          PROVE  GecodeAcceptsOnlySolvable'
      BY <2>1, <2>2 DEF GecodeAcceptsOnlySolvable
    <2>3. ASSUME answer'.by # "gecode" \/ ~answer'.says
          PROVE  GecodeAcceptsOnlySolvable'
      BY <2>3 DEF GecodeAcceptsOnlySolvable
    <2>4. CASE CheckGecode
      <3>1. asserted' = asserted /\ answer'.says = GecodeConsistent(edge)
        BY <2>4 DEF CheckGecode, client, Answers
      <3>2. QED
        BY <2>1, <3>1, GecodeAccepts DEF GecodeAcceptsOnlySolvable
    <2>5. CASE \/ \E p \in Pair, t \in InputTypes : AddConstraint(p, t)
               \/ \E p \in Pair, n \in 1..2 : RemoveConstraint(p, n)
               \/ \E p \in Pair : GreaterThan(p)
      <3>1. answer'.by \in {"none", "greaterThan"}
        <4>1. ASSUME NEW p \in Pair, NEW t \in InputTypes, AddConstraint(p, t)
              PROVE  answer'.by = "none"
          BY <4>1 DEF AddConstraint, NoAnswer
        <4>2. ASSUME NEW p \in Pair, NEW n \in 1..2, RemoveConstraint(p, n)
              PROVE  answer'.by = "none"
          BY <4>2 DEF RemoveConstraint, NoAnswer
        <4>3. ASSUME NEW p \in Pair, GreaterThan(p)
              PROVE  answer'.by = "greaterThan"
          BY <4>3 DEF GreaterThan, Answers
        <4>4. QED
          BY <2>5, <4>1, <4>2, <4>3
      <3>2. QED
        BY <2>3, <3>1
    <2>6. CASE StartIncremental \/ StartBeekManak \/ UNCHANGED vars
      BY <2>2, <2>6 DEF StartIncremental, StartBeekManak, client, vars
    <2>7. CASE CheckStep
      <3>1. CASE answer' = answer
        BY <2>2, <2>7, <3>1, CheckStepTightens DEF CarriedInv
      <3>2. CASE IncrementalDone \/ BeekManakDone
        BY <2>3, <3>2 DEF IncrementalDone, BeekManakDone, Finish, Answers
      <3>3. QED
        BY <2>3, <2>7, <3>1, <3>2, CheckStepTightens DEF CarriedInv
    <2>8. QED
      BY <2>4, <2>5, <2>6, <2>7 DEF Next
  <1>3. QED
    BY <1>1, <1>2, AlwaysCarries, PTL DEF Spec

(***************************************************************************)
(* A probe.  Without the algorithm of van Beek and Manak no edge is Empty, *)
(* so that the compaction before a probe loses nothing.                    *)
(***************************************************************************)
NoEmpty(e) == \A p \in Pair : e[p] # <<>> => e[p][1] # "empty"

ProbeInv ==
  /\ CarriedInv
  /\ AllEntailed(edge)
  /\ NoEmpty(edge)
  /\ running # "beekManak"

\* A read creates a Universal edge.
LEMMA LookNoEmpty ==
  ASSUME NoEmpty(edge), Typed(edge), NEW ps \in SUBSET Pair
  PROVE  NoEmpty(Look(ps))
  <1>1. PICK r : r = <<"P">>
    OBVIOUS
  <1>2. r[1] # "empty"
    BY <1>1
  <1>3. \A p \in Pair : Look(ps)[p] = edge[p] \/ Look(ps)[p] = r
    BY <1>1, LookTyped
  <1>4. QED
    BY <1>2, <1>3 DEF NoEmpty

\* The pop and the revision of incrementalPathConsistency never leave Empty.
LEMMA IncrementalNoEmpty ==
  ASSUME TypeOK, Simple(edge), NoEmpty(edge),
         \/ \E p \in Pair : IncrementalPop(p)
         \/ \E t \in Triangle : IncrementalRevise(t)
  PROVE  NoEmpty(edge')
  <1>1. ASSUME NEW ps \in SUBSET Pair PROVE NoEmpty(Look(ps))
    BY LookNoEmpty DEF Simple
  <1>2. ASSUME NEW p \in Pair, IncrementalPop(p)
        PROVE  NoEmpty(edge')
    <2>1. {p, Back(p)} \in SUBSET Pair /\ {} \in SUBSET Pair
      BY PairFacts
    <2>2. edge' = Look({p, Back(p)}) \/ edge' = Look({})
      BY <1>2 DEF IncrementalPop
    <2>3. QED
      BY <1>1, <2>1, <2>2
  <1>3. ASSUME NEW t \in Triangle, IncrementalRevise(t)
        PROVE  NoEmpty(edge')
    <2> DEFINE ik == <<t[1], t[3]>>
               readIJ == Both(t[1], t[2])
               readJK == readIJ \cup Both(t[2], t[3])
               readIK == readJK \cup {ik}
               ij == Bidirectional(Look(readIJ), <<t[1], t[2]>>)
               jk == Bidirectional(Look(readJK), <<t[2], t[3]>>)
               revised == Intersection(Directional(Look(readIK), ik), Composition(ij, jk))
    <2>1. t \in KnownTriangle
      BY <1>3 DEF TypeOK, IncrementalRevise
    <2>2. /\ readIJ \in SUBSET Pair /\ readJK \in SUBSET Pair /\ readIK \in SUBSET Pair
          /\ ik \in Pair
      BY <2>1, TriangleFacts DEF Both
    <2>3. \/ edge' = Look(readIJ)
          \/ edge' = Look(readJK)
          \/ edge' = Look(readIK)
          \/ edge' = Retype(Look(readIK), ik, revised) /\ revised # "empty"
      BY <1>3 DEF IncrementalRevise, Throw
    <2>4. /\ NoEmpty(Look(readIJ)) /\ NoEmpty(Look(readJK)) /\ NoEmpty(Look(readIK))
          /\ Simple(Look(readIK))
      <3>1. Typed(edge)
        BY DEF Simple
      <3>2. Tightened(Look(readIK), edge)
        BY <2>2, <3>1, LookTightened
      <3>3. Simple(Look(readIK))
        BY <3>2, TightenedSimple
      <3>4. QED
        BY <1>1, <2>2, <3>3
    <2>5. Look(readIK)[ik] # <<>>
      BY <2>2, LookTyped DEF Simple
    <2> HIDE DEF readIJ, readJK, readIK, ik, revised
    <2>6. ASSUME revised # "empty"
          PROVE  NoEmpty(Retype(Look(readIK), ik, revised))
      <3> DEFINE e == Look(readIK)
      <3>1. Typed(e) /\ e[ik] \in EdgeLists /\ e[ik] # <<>> /\ Len(e[ik]) <= 1 /\ NoEmpty(e)
        BY <2>2, <2>4, <2>5 DEF Simple, Typed
      <3> HIDE DEF e
      <3>2. e[ik] = <<e[ik][1]>>
        BY <3>1, ListFacts
      <3>3. PICK a : e[ik] = <<a>>
        BY <3>2
      <3>4. [e[ik] EXCEPT ![1] = revised] = <<revised>>
        BY <3>3
      <3>5. ASSUME NEW q \in Pair
            PROVE  Retype(e, ik, revised)[q] = IF q = ik THEN <<revised>> ELSE e[q]
        BY <2>2, <3>1, <3>4 DEF Retype, Typed
      <3>6. PICK r : r = <<revised>>
        OBVIOUS
      <3>7. r[1] # "empty"
        BY <2>6, <3>6
      <3>8. QED
        BY <3>1, <3>5, <3>6, <3>7 DEF NoEmpty, e
    <2>7. QED
      BY <2>3, <2>4, <2>6
  <1>4. QED
    BY <1>2, <1>3

\* With no Empty edge and no parallel ones, the graph that greaterThan asks
\* Gecode about says what the graph says, and i > j.
LEMMA ProbedGraph ==
  ASSUME TypeOK, Simple(edge), NoEmpty(edge), NEW p \in Known,
         NEW es \in WithEdge(Compacted(edge[p]), ">"), NEW v
  PROVE  /\ Typed([edge EXCEPT ![p] = es])
         /\ \A q \in Pair \ Known : [edge EXCEPT ![p] = es][q] = <<>>
         /\ SatisfiesGraph(v, [edge EXCEPT ![p] = es])
              <=> SatisfiesGraph(v, edge) /\ HoldsAt(v, p, ">")
  <1> DEFINE e == [edge EXCEPT ![p] = es]
  <1>1. /\ edge \in [Pair -> EdgeLists] /\ p \in Pair
        /\ edge[p] \in EdgeLists /\ Len(edge[p]) <= 1
    BY DEF Simple, Typed, Known
  <1>2. \/ edge[p] = <<>> /\ es = <<">">>
        \/ \E m \in Types : /\ edge[p] = <<m>>
                            /\ es \in {<<m, ">">>, <<">", m>>}
    <2>1. CASE edge[p] = <<>>
      <3>1. Compacted(edge[p]) = <<>>
        BY <2>1 DEF Compacted
      <3>2. QED
        BY <2>1, <3>1 DEF WithEdge
    <2>2. CASE edge[p] # <<>>
      <3>1. /\ Len(edge[p]) = 1 /\ edge[p][1] \in Types /\ edge[p][1] # "empty"
            /\ edge[p] = <<edge[p][1]>>
        BY <1>1, <2>2, ListFacts DEF NoEmpty
      <3>2. PICK m \in Types : m = edge[p][1] /\ m # "empty" /\ edge[p] = <<m>>
        BY <3>1
      <3>3. Compacted(edge[p]) = <<m>>
        BY <2>2, <3>1, <3>2 DEF Compacted, Merged
      <3>4. es \in {<<m, ">">>, <<">", m>>}
        BY <3>3 DEF WithEdge
      <3>5. QED
        BY <3>2, <3>4
    <2>3. QED
      BY <2>1, <2>2
  <1>3. es \in EdgeLists
    BY <1>2 DEF EdgeLists, Types
  <1>4. /\ e[p] = es /\ \A q \in Pair \ {p} : e[q] = edge[q]
        /\ Typed(e)
    BY <1>1, <1>3 DEF Typed
  <1>5. (\A n \in 1..Len(es) : HoldsAt(v, p, es[n]))
          <=> (\A n \in 1..Len(edge[p]) : HoldsAt(v, p, edge[p][n])) /\ HoldsAt(v, p, ">")
    <2>1. CASE edge[p] = <<>> /\ es = <<">">>
      <3>1. Len(es) = 1 /\ es[1] = ">" /\ Len(edge[p]) = 0
        BY <2>1
      <3>2. QED
        BY <3>1
    <2>2. ASSUME NEW m \in Types, edge[p] = <<m>>, es \in {<<m, ">">>, <<">", m>>}
          PROVE  <1>5!1 <=> <1>5!2
      <3>1. /\ Len(edge[p]) = 1 /\ edge[p][1] = m /\ Len(es) = 2
            /\ (es[1] = m /\ es[2] = ">") \/ (es[1] = ">" /\ es[2] = m)
        BY <2>2
      <3>2. QED
        BY <3>1
    <2>3. QED
      BY <1>2, <2>1, <2>2
  <1> HIDE DEF e
  <1>6. \A q \in Pair \ Known : e[q] = <<>>
    BY <1>4 DEF TypeOK
  <1>7. SatisfiesGraph(v, e) <=> SatisfiesGraph(v, edge) /\ HoldsAt(v, p, ">")
    <2> DEFINE At(f, q) == \A n \in 1..Len(f[q]) : HoldsAt(v, q, f[q][n])
    <2>1. SatisfiesGraph(v, e) <=> \A q \in Pair : At(e, q)
      BY DEF SatisfiesGraph
    <2>2. SatisfiesGraph(v, edge) <=> \A q \in Pair : At(edge, q)
      BY DEF SatisfiesGraph
    <2>3. \A q \in Pair \ {p} : At(e, q) <=> At(edge, q)
      BY <1>4
    <2>4. At(e, p) <=> At(edge, p) /\ HoldsAt(v, p, ">")
      BY <1>4, <1>5
    <2> HIDE DEF At
    <2>5. QED
      BY <1>1, <2>1, <2>2, <2>3, <2>4
  <1>8. QED
    BY <1>4, <1>6, <1>7 DEF e

\* The answer of a probe: i > j can be added to the client's constraints.
LEMMA ProbeAnswers ==
  ASSUME ProbeInv, EnoughInstants, NEW p \in Known,
         NEW es \in WithEdge(Compacted(edge[p]), ">")
  PROVE  GecodeConsistent([edge EXCEPT ![p] = es])
           <=> \E v \in [Point -> Value] : SatisfiesClient(v) /\ HoldsAt(v, p, ">")
  <1> DEFINE e == [edge EXCEPT ![p] = es]
  <1>1. /\ Typed(e) /\ \A q \in Pair \ Known : e[q] = <<>>
        /\ \A v : SatisfiesGraph(v, e) <=> SatisfiesGraph(v, edge) /\ HoldsAt(v, p, ">")
    BY ProbedGraph DEF ProbeInv, CarriedInv
  <1>2. TypeOK /\ Cardinality(vertices) >= 2 /\ Cardinality(vertices) \in Nat
    BY TwoVertices, FS_CardinalityType DEF ProbeInv, CarriedInv, TypeOK
  <1> HIDE DEF e
  <1>3. ASSUME NEW v \in [Point -> Value], SatisfiesClient(v), HoldsAt(v, p, ">")
        PROVE  GecodeConsistent(e)
    <2>1. SatisfiesGraph(v, edge)
      BY <1>3 DEF ProbeInv, AllEntailed, Entailed, SatisfiesGraph
    <2>2. SatisfiesGraph(v, e)
      BY <1>1, <1>3, <2>1
    <2>3. QED
      BY <1>1, <1>2, <2>2, GecodeFinds
  <1>4. ASSUME GecodeConsistent(e)
        PROVE  \E v \in [Point -> Value] : SatisfiesClient(v) /\ HoldsAt(v, p, ">")
    <2>1. PICK v \in [vertices -> 0..(Cardinality(vertices) - 1)] : SatisfiesGraph(v, e)
      BY <1>2, <1>4 DEF GecodeConsistent
    <2>2. v \in [vertices -> Value] /\ SatisfiesGraph(v, edge) /\ HoldsAt(v, p, ">")
      BY <1>1, <1>2, <2>1, DomainIsValues
    <2>3. PICK w \in [Point -> Value] :
            SatisfiesClient(w) /\ \A x \in vertices : w[x] = v[x]
      BY <2>2, OrderExtends DEF ProbeInv
    <2>4. HoldsAt(w, p, ">")
      BY <2>2, <2>3 DEF HoldsAt, Known
    <2>5. QED
      BY <2>3, <2>4
  <1>5. QED
    BY <1>3, <1>4 DEF e

\* The calls of the client and incrementalPathConsistency keep the invariant.
LEMMA NextProbeInv ==
  ASSUME ProbeInv, {"parallel", "remove", "beekManak"} \cap Operations = {}, [Next]_vars
  PROVE  NoEmpty(edge)' /\ (running # "beekManak")'
  <1>1. CASE \E p \in Pair, t \in InputTypes : AddConstraint(p, t)
    <2>1. PICK p \in Pair, t \in InputTypes : AddConstraint(p, t)
      BY <1>1
    <2>2. edge[p] = <<>> /\ t # "empty" /\ edge \in [Pair -> EdgeLists]
      BY <2>1, InputTypesAssumption DEF AddConstraint, ProbeInv, CarriedInv, TypeOK
    <2>3. Compacted(edge[p]) = <<>>
      BY <2>2 DEF Compacted
    <2>4. edge' = [edge EXCEPT ![p] = <<t>>] /\ running' = running
      BY <2>1, <2>3 DEF AddConstraint, WithEdge, search
    <2>5. PICK r : r = <<t>>
      OBVIOUS
    <2>6. r[1] # "empty"
      BY <2>2, <2>5
    <2>7. \A q \in Pair : edge'[q] = edge[q] \/ edge'[q] = r
      BY <2>2, <2>4, <2>5
    <2>8. QED
      BY <2>4, <2>6, <2>7 DEF ProbeInv, NoEmpty
  <1>2. CASE \E p \in Pair, n \in 1..2 : RemoveConstraint(p, n)
    BY <1>2 DEF RemoveConstraint
  <1>3. CASE \E p \in Pair : GreaterThan(p)
    <2>1. edge' = edge /\ running' = running
      BY <1>3, GreaterThanSame DEF GreaterThan, search, ProbeInv, CarriedInv
    <2>2. QED
      BY <2>1 DEF ProbeInv, NoEmpty
  <1>4. CASE CheckGecode \/ StartIncremental \/ UNCHANGED vars
    <2>1. edge' = edge /\ running' \in {running, "incremental"}
      BY <1>4 DEF CheckGecode, StartIncremental, graph, search, vars
    <2>2. QED
      BY <2>1 DEF ProbeInv, NoEmpty
  <1>5. CASE StartBeekManak
    BY <1>5 DEF StartBeekManak
  <1>6. CASE CheckStep
    <2>1. CASE \/ \E p \in Pair : IncrementalPop(p)
               \/ \E t \in Triangle : IncrementalRevise(t)
      <3>1. NoEmpty(edge')
        BY <2>1, IncrementalNoEmpty DEF ProbeInv, CarriedInv
      <3>2. running' \in {running, "idle"}
        BY <2>1 DEF IncrementalPop, IncrementalRevise, Throw, Finish, Continue
      <3>3. QED
        BY <3>1, <3>2 DEF ProbeInv, NoEmpty
    <2>2. CASE IncrementalDone
      <3>1. edge' = edge /\ running' = "idle"
        BY <2>2 DEF IncrementalDone, Finish
      <3>2. QED
        BY <3>1 DEF ProbeInv, NoEmpty
    <2>3. CASE \/ \E p \in Pair : BeekManakPop(p)
               \/ \E t \in Triangle : BeekManakRevise(t)
               \/ BeekManakDone
      BY <2>3 DEF BeekManakPop, BeekManakRevise, BeekManakDone, ProbeInv
    <2>4. QED
      BY <1>6, <2>1, <2>2, <2>3 DEF CheckStep
  <1>7. QED
    BY <1>1, <1>2, <1>3, <1>4, <1>5, <1>6 DEF Next

\* The invariant of the probes holds in every reachable state.
LEMMA AlwaysProbeInv ==
  ASSUME "!=" \notin InputTypes, {"parallel", "remove", "beekManak"} \cap Operations = {}
  PROVE  Spec => []ProbeInv
  <1>1. Init => AllEntailed(edge) /\ RefutesOnlyUnsolvable /\ NoEmpty(edge) /\ running # "beekManak"
    BY InitSound DEF Init, NoEmpty
  <1>2. /\ CarriedInv /\ AllEntailed(edge) /\ RefutesOnlyUnsolvable
        /\ NoEmpty(edge) /\ running # "beekManak" /\ [Next]_vars
        => (AllEntailed(edge) /\ RefutesOnlyUnsolvable /\ NoEmpty(edge) /\ running # "beekManak")'
    BY NextSound, NextProbeInv DEF SoundInv, CarriedInv, ProbeInv
  <1>3. ProbeInv <=> /\ CarriedInv /\ AllEntailed(edge)
                     /\ NoEmpty(edge) /\ running # "beekManak"
    BY DEF ProbeInv
  <1>4. Spec => []CarriedInv
    BY AlwaysCarries
  <1>5. QED
    BY <1>1, <1>2, <1>3, <1>4, PTL DEF Spec

\* greaterThan answers whether i > j can be added to the constraints, on every
\* network that incremental checks and other probes have left behind: true if
\* and only if some solution of the constraints has i after j.
THEOREM ProbesDecidePossibility ==
  ASSUME "!=" \notin InputTypes, EnoughInstants,
         {"parallel", "remove", "beekManak"} \cap Operations = {}
  PROVE  Spec => []ProbeAnswersPossibility
  <1>1. Init => ProbeAnswersPossibility
    BY DEF Init, NoAnswer, ProbeAnswersPossibility
  <1>2. ProbeInv /\ ProbeAnswersPossibility /\ [Next]_vars => ProbeAnswersPossibility'
    <2> SUFFICES ASSUME ProbeInv, ProbeAnswersPossibility, [Next]_vars
                 PROVE  ProbeAnswersPossibility'
      OBVIOUS
    <2>1. ASSUME answer' = answer, asserted' = asserted
          PROVE  ProbeAnswersPossibility'
      BY <2>1 DEF ProbeAnswersPossibility, SatisfiesClient
    <2>2. ASSUME answer'.by # "greaterThan"
          PROVE  ProbeAnswersPossibility'
      BY <2>2 DEF ProbeAnswersPossibility
    <2>3. CASE \E p \in Pair : GreaterThan(p)
      <3>1. PICK p \in Pair : GreaterThan(p)
        BY <2>3
      <3>2. PICK es \in WithEdge(Compacted(edge[p]), ">") :
              answer' = Answers("greaterThan", p, GecodeConsistent([edge EXCEPT ![p] = es]))
        BY <3>1 DEF GreaterThan
      <3>3. /\ p \in Known /\ asserted' = asserted
            /\ answer'.pair = p
            /\ answer'.says = GecodeConsistent([edge EXCEPT ![p] = es])
        BY <3>1, <3>2 DEF GreaterThan, client, Answers
      <3>4. answer'.says <=> \E v \in [Point -> Value] : SatisfiesClient(v) /\ HoldsAt(v, p, ">")
        BY <3>3, ProbeAnswers
      <3>5. QED
        BY <3>3, <3>4 DEF ProbeAnswersPossibility, SatisfiesClient
    <2>4. CASE \E p \in Pair, t \in InputTypes : AddConstraint(p, t)
      BY <2>2, <2>4 DEF AddConstraint, NoAnswer
    <2>5. CASE \E p \in Pair, n \in 1..2 : RemoveConstraint(p, n)
      BY <2>5 DEF RemoveConstraint
    <2>6. CASE CheckGecode
      BY <2>2, <2>6 DEF CheckGecode, Answers
    <2>7. CASE StartIncremental \/ StartBeekManak \/ UNCHANGED vars
      BY <2>1, <2>7 DEF StartIncremental, StartBeekManak, client, vars
    <2>8. CASE CheckStep
      <3>1. asserted' = asserted
        BY <2>8, CheckStepTightens DEF ProbeInv, CarriedInv
      <3>2. answer' = answer \/ answer'.by = running
        BY <2>8, CheckStepAnswers
      <3>3. running # "greaterThan"
        BY DEF ProbeInv, CarriedInv, TypeOK
      <3>4. QED
        BY <2>1, <2>2, <3>1, <3>2, <3>3
    <2>9. QED
      BY <2>3, <2>4, <2>5, <2>6, <2>7, <2>8 DEF Next
  <1>3. QED
    BY <1>1, <1>2, AlwaysProbeInv, PTL DEF Spec

(***************************************************************************)
(* Path consistency.  What the two directions of a pair say together, and  *)
(* the triangles whose first and third vertex agree with the path over     *)
(* their second.                                                           *)
(***************************************************************************)
TypeAt(e, p) == IF e[p] = <<>> THEN "P" ELSE e[p][1]
Between(e, p) == Intersection(TypeAt(e, p), Symmetric(TypeAt(e, Back(p))))

Follows(e, t) ==
  Tighter(Between(e, <<t[1], t[3]>>),
          Composition(Between(e, <<t[1], t[2]>>), Between(e, <<t[2], t[3]>>)))

PlainGraph(e) == \A p \in Pair : TypeAt(e, p) \in Plain

\* getSymmetric undoes itself, and turns a path round.
LEMMA SymmetricTwice ==
  ASSUME NEW a \in Types
  PROVE  Symmetric(Symmetric(a)) = a
  BY SMT DEF Types, Symmetric

LEMMA CompositionSymmetric ==
  ASSUME NEW a \in Plain, NEW b \in Plain
  PROVE  Symmetric(Composition(a, b)) = Composition(Symmetric(b), Symmetric(a))
  <1>1. PICK c, d : c = Symmetric(a) /\ d = Symmetric(b)
    OBVIOUS
  <1>2. /\ a \in {"<", ">", "=", "<=", ">=", "empty", "P"}
        /\ b \in {"<", ">", "=", "<=", ">=", "empty", "P"}
    BY DEF Plain, Types
  <1>3. /\ b = "<" => d = ">"
        /\ b = ">" => d = "<"
        /\ b = "<=" => d = ">="
        /\ b = ">=" => d = "<="
        /\ b \in {"=", "empty", "P"} => d = b
    BY <1>1, SMT DEF Symmetric
  <1>4. /\ Symmetric("<") = ">" /\ Symmetric(">") = "<"
        /\ Symmetric("<=") = ">=" /\ Symmetric(">=") = "<="
        /\ Symmetric("=") = "=" /\ Symmetric("P") = "P" /\ Symmetric("empty") = "empty"
    BY SMT DEF Symmetric
  <1>5. CASE a = "<"
    <2>1. c = ">"
      BY <1>1, <1>4, <1>5
    <2>2. PICK e, f : e = Composition(a, b) /\ f = Composition(d, c)
      OBVIOUS
    <2>3. f = Symmetric(e)
      BY <1>2, <1>3, <1>4, <1>5, <2>1, <2>2, SMT DEF Composition, TypeAlgebra
    <2>4. QED
      BY <1>1, <2>2, <2>3
  <1>6. CASE a = ">"
    <2>1. c = "<"
      BY <1>1, <1>4, <1>6
    <2>2. PICK e, f : e = Composition(a, b) /\ f = Composition(d, c)
      OBVIOUS
    <2>3. f = Symmetric(e)
      BY <1>2, <1>3, <1>4, <1>6, <2>1, <2>2, SMT DEF Composition, TypeAlgebra
    <2>4. QED
      BY <1>1, <2>2, <2>3
  <1>7. CASE a = "="
    <2>1. c = "="
      BY <1>1, <1>4, <1>7
    <2>2. PICK e, f : e = Composition(a, b) /\ f = Composition(d, c)
      OBVIOUS
    <2>3. f = Symmetric(e)
      BY <1>2, <1>3, <1>4, <1>7, <2>1, <2>2, SMT DEF Composition, TypeAlgebra
    <2>4. QED
      BY <1>1, <2>2, <2>3
  <1>8. CASE a = "<="
    <2>1. c = ">="
      BY <1>1, <1>4, <1>8
    <2>2. PICK e, f : e = Composition(a, b) /\ f = Composition(d, c)
      OBVIOUS
    <2>3. f = Symmetric(e)
      BY <1>2, <1>3, <1>4, <1>8, <2>1, <2>2, SMT DEF Composition, TypeAlgebra
    <2>4. QED
      BY <1>1, <2>2, <2>3
  <1>9. CASE a = ">="
    <2>1. c = "<="
      BY <1>1, <1>4, <1>9
    <2>2. PICK e, f : e = Composition(a, b) /\ f = Composition(d, c)
      OBVIOUS
    <2>3. f = Symmetric(e)
      BY <1>2, <1>3, <1>4, <1>9, <2>1, <2>2, SMT DEF Composition, TypeAlgebra
    <2>4. QED
      BY <1>1, <2>2, <2>3
  <1>10. CASE a = "empty"
    <2>1. c = "empty"
      BY <1>1, <1>4, <1>10
    <2>2. PICK e, f : e = Composition(a, b) /\ f = Composition(d, c)
      OBVIOUS
    <2>3. f = Symmetric(e)
      BY <1>2, <1>3, <1>4, <1>10, <2>1, <2>2, SMT DEF Composition, TypeAlgebra
    <2>4. QED
      BY <1>1, <2>2, <2>3
  <1>11. CASE a = "P"
    <2>1. c = "P"
      BY <1>1, <1>4, <1>11
    <2>2. PICK e, f : e = Composition(a, b) /\ f = Composition(d, c)
      OBVIOUS
    <2>3. f = Symmetric(e)
      BY <1>2, <1>3, <1>4, <1>11, <2>1, <2>2, SMT DEF Composition, TypeAlgebra
    <2>4. QED
      BY <1>1, <2>2, <2>3
  <1>12. QED
    BY <1>2, <1>5, <1>6, <1>7, <1>8, <1>9, <1>10, <1>11

\* A pair read from its other end.
LEMMA BetweenFacts ==
  ASSUME NEW e, PlainGraph(e), NEW p \in Pair
  PROVE  /\ Between(e, p) \in Plain
         /\ Between(e, Back(p)) = Symmetric(Between(e, p))
         /\ Tighter(Between(e, p), TypeAt(e, p))
         /\ Between(e, p) = "empty" <=> Between(e, Back(p)) = "empty"
  <1> DEFINE a == TypeAt(e, p)
             b == TypeAt(e, Back(p))
  <1>1. /\ Back(p) \in Pair /\ Back(Back(p)) = p
        /\ a \in Plain /\ b \in Plain /\ a \in Types /\ b \in Types
    BY PairFacts DEF PlainGraph, Plain
  <1>2. /\ Between(e, p) = Intersection(a, Symmetric(b))
        /\ Between(e, Back(p)) = Intersection(b, Symmetric(a))
    BY <1>1 DEF Between
  <1> HIDE DEF a, b
  <1>3. Symmetric(b) \in Plain /\ Symmetric(b) \in Types
    BY <1>1, TablesPlain, TableTypes
  <1>4. Symmetric(Intersection(a, Symmetric(b))) = Intersection(Symmetric(Symmetric(b)), Symmetric(a))
    BY <1>1, <1>3, ReadsAgree DEF SymmetricCommutesWithIntersection
  <1>5. Between(e, p) \in Plain
    BY <1>1, <1>2, <1>3, TablesPlain
  <1>6. Between(e, Back(p)) = Symmetric(Between(e, p))
    BY <1>1, <1>2, <1>4, SymmetricTwice
  <1>7. Tighter(Between(e, p), a)
    BY <1>1, <1>2, <1>3, IntersectionTighter
  <1>8. \A u \in Types : u = "empty" <=> Symmetric(u) = "empty"
    BY SMT DEF Types, Symmetric
  <1>9. QED
    BY <1>5, <1>6, <1>7, <1>8 DEF Plain, a

\* A triangle and its reversal follow together.
LEMMA FollowsReversed ==
  ASSUME NEW e, PlainGraph(e), NEW t \in Triangle, Follows(e, t)
  PROVE  Follows(e, <<t[3], t[2], t[1]>>)
  <1> DEFINE ij == Between(e, <<t[1], t[2]>>)
             jk == Between(e, <<t[2], t[3]>>)
             ik == Between(e, <<t[1], t[3]>>)
             ji == Between(e, <<t[2], t[1]>>)
             kj == Between(e, <<t[3], t[2]>>)
             ki == Between(e, <<t[3], t[1]>>)
  <1>1. /\ <<t[1], t[2]>> \in Pair /\ <<t[2], t[3]>> \in Pair /\ <<t[1], t[3]>> \in Pair
        /\ Back(<<t[1], t[2]>>) = <<t[2], t[1]>>
        /\ Back(<<t[2], t[3]>>) = <<t[3], t[2]>>
        /\ Back(<<t[1], t[3]>>) = <<t[3], t[1]>>
    BY DEF Triangle, Pair, Back
  <1>2. /\ ij \in Plain /\ jk \in Plain /\ ik \in Plain
        /\ ji = Symmetric(ij) /\ kj = Symmetric(jk) /\ ki = Symmetric(ik)
    BY <1>1, BetweenFacts
  <1>3. Tighter(ik, Composition(ij, jk))
    BY DEF Follows
  <1>4. Follows(e, <<t[3], t[2], t[1]>>) <=> Tighter(ki, Composition(kj, ji))
    BY DEF Follows
  <1> HIDE DEF ij, jk, ik, ji, kj, ki
  <1>5. Composition(kj, ji) = Symmetric(Composition(ij, jk))
    BY <1>2, CompositionSymmetric
  <1>6. /\ Composition(ij, jk) \in Types /\ ik \in Types
        /\ Symmetric(Composition(ij, jk)) \in Types
        /\ Symmetric(Symmetric(Composition(ij, jk))) = Composition(ij, jk)
    BY <1>2, TablesPlain, TableTypes, SymmetricTwice DEF Plain
  <1>7. Tighter(Symmetric(ik), Symmetric(Composition(ij, jk)))
    BY <1>3, <1>6, SymmetricTighter
  <1>8. QED
    BY <1>2, <1>4, <1>5, <1>7

(***************************************************************************)
(* A graph in which every triangle follows and no pair is Empty has an     *)
(* order: a vertex takes the number of vertices before or at it.           *)
(***************************************************************************)
Before == {"<", "<=", "="}

\* A path of befores leads to a before.
LEMMA BeforeComposes ==
  ASSUME NEW a \in Before, NEW b \in Before, NEW c \in Plain \ {"empty"},
         Tighter(c, Composition(a, b))
  PROVE  c \in Before
  <1>1. Composition(a, b) \in Before
    BY SMT DEF Before, Composition, TypeAlgebra
  <1>2. ">" \notin Primitives(Composition(a, b))
    BY <1>1, SMT DEF Before, Primitives
  <1>3. ">" \notin Primitives(c)
    BY <1>2 DEF Tighter
  <1>4. c \in {">", ">=", "P"} => ">" \in Primitives(c)
    BY SMT DEF Primitives
  <1>5. QED
    BY <1>3, <1>4 DEF Plain, Types, Before

\* What a pair says holds of two numbers that respect the befores both ways.
LEMMA BeforeHolds ==
  ASSUME NEW a \in Plain \ {"empty"}, NEW x \in Int, NEW y \in Int,
         a \in Before => x <= y, a = "<" => x < y,
         Symmetric(a) \in Before => y <= x, Symmetric(a) = "<" => y < x
  PROVE  Holds(a, x, y)
  BY SMT DEF Plain, Types, Before, Symmetric, Holds

LEMMA ClosedHasOrder ==
  ASSUME TypeOK, Simple(edge), PlainGraph(edge),
         \A p \in Pair : Between(edge, p) # "empty",
         \A t \in Triangle : Follows(edge, t)
  PROVE  \E v \in [vertices -> 0..(Cardinality(vertices) - 1)] : SatisfiesGraph(v, edge)
  <1> DEFINE below(i) == {k \in vertices : k = i \/ Between(edge, <<k, i>>) \in Before}
             v == [i \in vertices |-> Cardinality(below(i)) - 1]
  <1>1. vertices \subseteq Point /\ IsFiniteSet(vertices) /\ Cardinality(vertices) \in Nat
    BY FS_CardinalityType DEF TypeOK
  <1>2. ASSUME NEW i \in vertices
        PROVE  /\ IsFiniteSet(below(i)) /\ Cardinality(below(i)) \in Nat
               /\ Cardinality(below(i)) >= 1
               /\ Cardinality(below(i)) <= Cardinality(vertices)
    <2>1. below(i) \in SUBSET vertices /\ {i} \in SUBSET below(i)
      OBVIOUS
    <2> HIDE DEF below
    <2>2. /\ IsFiniteSet(below(i)) /\ Cardinality(below(i)) \in Nat
          /\ Cardinality(below(i)) <= Cardinality(vertices)
      BY <1>1, <2>1, FS_Subset, FS_CardinalityType
    <2>3. Cardinality({i}) <= Cardinality(below(i)) /\ Cardinality({i}) = 1
      BY <2>1, <2>2, FS_Subset, FS_Singleton
    <2>4. QED
      BY <2>2, <2>3
  <1>3. ASSUME NEW i \in vertices, NEW k \in vertices, i # k,
               Between(edge, <<i, k>>) \in Before
        PROVE  /\ below(i) \in SUBSET below(k)
               /\ v[i] <= v[k]
               /\ Between(edge, <<i, k>>) = "<" => v[i] < v[k]
    <2>1. /\ <<i, k>> \in Pair /\ <<k, i>> \in Pair /\ Back(<<i, k>>) = <<k, i>>
      BY <1>1, <1>3 DEF Pair, Back
    <2>2. ASSUME NEW x \in below(i)
          PROVE  x \in below(k)
      <3>1. CASE x = i
        BY <1>3, <3>1
      <3>2. CASE x = k
        BY <3>2
      <3>3. CASE x # i /\ x # k
        <4>1. x \in vertices /\ Between(edge, <<x, i>>) \in Before
          BY <3>3
        <4>2. /\ <<x, i, k>> \in Triangle /\ <<x, k>> \in Pair
              /\ <<x, i, k>>[1] = x /\ <<x, i, k>>[2] = i /\ <<x, i, k>>[3] = k
          BY <1>1, <1>3, <3>3, <4>1 DEF Triangle, Pair
        <4>3. Tighter(Between(edge, <<x, k>>),
                      Composition(Between(edge, <<x, i>>), Between(edge, <<i, k>>)))
          BY <4>2 DEF Follows
        <4>4. Between(edge, <<x, k>>) \in Plain \ {"empty"}
          BY <4>2, BetweenFacts
        <4>5. Between(edge, <<x, k>>) \in Before
          BY <1>3, <4>1, <4>3, <4>4, BeforeComposes
        <4>6. QED
          BY <4>1, <4>5
      <3>4. QED
        BY <3>1, <3>2, <3>3
    <2>3. below(i) \in SUBSET below(k)
      BY <2>2
    <2>4. ASSUME Between(edge, <<i, k>>) = "<"
          PROVE  below(i) # below(k)
      <3>1. Between(edge, <<k, i>>) = Symmetric("<")
        BY <2>1, <2>4, BetweenFacts
      <3>2. Symmetric("<") = ">" /\ ">" \notin Before
        BY SMT DEF Symmetric, Before
      <3>3. k \notin below(i) /\ k \in below(k)
        BY <1>3, <3>1, <3>2
      <3>4. QED
        BY <3>3
    <2> HIDE DEF below
    <2>5. Cardinality(below(i)) <= Cardinality(below(k))
      BY <1>2, <2>3, FS_Subset
    <2>6. below(i) # below(k) => Cardinality(below(i)) < Cardinality(below(k))
      <3>1. Cardinality(below(i)) = Cardinality(below(k)) => below(i) = below(k)
        BY <1>2, <2>3, FS_Subset
      <3>2. Cardinality(below(i)) \in Nat /\ Cardinality(below(k)) \in Nat
        BY <1>2
      <3>3. QED
        BY <2>5, <3>1, <3>2
    <2>7. /\ v[i] = Cardinality(below(i)) - 1 /\ v[k] = Cardinality(below(k)) - 1
          /\ Cardinality(below(i)) \in Nat /\ Cardinality(below(k)) \in Nat
      BY <1>2
    <2> HIDE DEF v
    <2>8. QED
      BY <2>3, <2>4, <2>5, <2>6, <2>7
  <1> HIDE DEF below
  <1>4. v \in [vertices -> 0..(Cardinality(vertices) - 1)]
    BY <1>1, <1>2
  <1> HIDE DEF v
  <1>5. ASSUME NEW p \in Pair, NEW n \in 1..Len(edge[p])
        PROVE  HoldsAt(v, p, edge[p][n])
    <2>1. /\ edge[p] \in EdgeLists /\ Len(edge[p]) <= 1 /\ edge[p] # <<>>
      BY <1>5 DEF Simple, Typed
    <2>2. n = 1 /\ edge[p][1] \in Types /\ TypeAt(edge, p) = edge[p][1]
      BY <1>5, <2>1, ListFacts DEF TypeAt
    <2>3. /\ p[1] \in vertices /\ p[2] \in vertices /\ p[1] # p[2]
          /\ p = <<p[1], p[2]>> /\ Back(p) = <<p[2], p[1]>>
      BY <2>1, PairFacts DEF TypeOK, Known, Pair, Back
    <2>4. /\ Between(edge, p) \in Plain \ {"empty"}
          /\ Between(edge, <<p[2], p[1]>>) = Symmetric(Between(edge, p))
          /\ Tighter(Between(edge, p), edge[p][1])
      BY <2>2, <2>3, BetweenFacts
    <2>5. v[p[1]] \in Int /\ v[p[2]] \in Int
      BY <1>1, <1>4, <2>3
    <2>6. /\ Between(edge, p) \in Before => v[p[1]] <= v[p[2]]
          /\ Between(edge, p) = "<" => v[p[1]] < v[p[2]]
      <3>1. "<" \in Before
        BY DEF Before
      <3>2. QED
        BY <1>3, <2>3, <3>1
    <2>7. /\ Symmetric(Between(edge, p)) \in Before => v[p[2]] <= v[p[1]]
          /\ Symmetric(Between(edge, p)) = "<" => v[p[2]] < v[p[1]]
      <3>1. "<" \in Before
        BY DEF Before
      <3>2. QED
        BY <1>3, <2>3, <2>4, <3>1
    <2>8. Holds(Between(edge, p), v[p[1]], v[p[2]])
      BY <2>4, <2>5, <2>6, <2>7, BeforeHolds
    <2>9. Holds(edge[p][1], v[p[1]], v[p[2]])
      BY <2>2, <2>4, <2>5, <2>8, TighterHolds DEF Plain
    <2>10. QED
      BY <2>2, <2>9 DEF HoldsAt
  <1>6. QED
    BY <1>4, <1>5 DEF SatisfiesGraph

(***************************************************************************)
(* What incrementalPathConsistency still owes: a triangle that does not    *)
(* follow yet has a queued leg or is to be revised, from one end or the    *)
(* other, and a pair that is Empty will be read again.  An exception ends  *)
(* the debt: the queue is left as it is.                                   *)
(***************************************************************************)
QueuedPair(p) == p \in updated \/ Back(p) \in updated
Reversed(t) == <<t[3], t[2], t[1]>>
Legs(t) == {<<t[1], t[2]>>, <<t[2], t[3]>>}

Due(t) ==
  (\E q \in Legs(t) : QueuedPair(q)) \/ t \in pending \/ Reversed(t) \in pending
PairDue(p) == QueuedPair(p) \/ \E t \in pending : <<t[1], t[2]>> \in {p, Back(p)}

Closing ==
  /\ \A t \in Triangle : Follows(edge, t) \/ Due(t)
  /\ \A p \in Pair : Between(edge, p) # "empty" \/ PairDue(p)

IncrementalInv == ProbeInv /\ (aborted \/ Closing)

\* Every edge is of a plain type when it is entailed.
LEMMA EntailedPlain ==
  ASSUME NEW e, AllEntailed(e)
  PROVE  PlainGraph(e)
  <1> SUFFICES ASSUME NEW p \in Pair PROVE TypeAt(e, p) \in Plain
    BY DEF PlainGraph
  <1>1. CASE e[p] = <<>>
    BY <1>1 DEF TypeAt, Plain, Types
  <1>2. CASE e[p] # <<>>
    BY <1>2, ListFacts DEF TypeAt, AllEntailed, Typed, Entailed
  <1>3. QED
    BY <1>1, <1>2

\* A read changes nothing that is read.
LEMMA LookBetween ==
  ASSUME Typed(edge), NEW ps \in SUBSET Pair, NEW p \in Pair
  PROVE  /\ TypeAt(Look(ps), p) = TypeAt(edge, p)
         /\ Between(Look(ps), p) = Between(edge, p)
  <1>1. \A q \in Pair : TypeAt(Look(ps), q) = TypeAt(edge, q)
    <2> SUFFICES ASSUME NEW q \in Pair
                 PROVE  TypeAt(Look(ps), q) = TypeAt(edge, q)
      OBVIOUS
    <2>1. PICK r : r = <<"P">>
      OBVIOUS
    <2>2. r # <<>> /\ r[1] = "P"
      BY <2>1
    <2>3. Look(ps)[q] = IF q \in Created(ps) THEN r ELSE edge[q]
      BY <2>1 DEF Look
    <2>4. QED
      BY <2>2, <2>3 DEF TypeAt, Created
  <1>2. QED
    BY <1>1, PairFacts DEF Between

\* getBidirectionalConstraintType reads what the two directions say together.
LEMMA BidirectionalBetween ==
  ASSUME Typed(edge), NEW ps \in SUBSET Pair, NEW p \in Pair, p \in ps, Back(p) \in ps
  PROVE  Bidirectional(Look(ps), p) = Between(edge, p)
  <1>1. Look(ps)[p] # <<>> /\ Look(ps)[Back(p)] # <<>> /\ Back(p) \in Pair
    BY LookTyped, PairFacts
  <1>2. Bidirectional(Look(ps), p) = Between(Look(ps), p)
    BY <1>1 DEF Bidirectional, Directional, Between, TypeAt
  <1>3. QED
    BY <1>2, LookBetween

\* The three pairs of a triangle, with or without vertices of the graph.
LEMMA TrianglePairs ==
  ASSUME NEW t \in Triangle
  PROVE  /\ <<t[1], t[2]>> \in Pair /\ <<t[2], t[3]>> \in Pair /\ <<t[1], t[3]>> \in Pair
         /\ Back(<<t[1], t[2]>>) = <<t[2], t[1]>>
         /\ Back(<<t[2], t[3]>>) = <<t[3], t[2]>>
         /\ Back(<<t[1], t[3]>>) = <<t[3], t[1]>>
         /\ Reversed(t) \in Triangle
         /\ Reversed(Reversed(t)) = t
         /\ t = <<t[1], t[2], t[3]>>
  BY DEF Triangle, Pair, Back, Reversed

\* A triangle with a vertex that is not in the graph follows.
LEMMA UnknownFollows ==
  ASSUME TypeOK, NEW t \in Triangle, t \notin KnownTriangle
  PROVE  Follows(edge, t)
  <1>1. \A p \in Pair : p \notin Known => Between(edge, p) = "P"
    <2> SUFFICES ASSUME NEW p \in Pair, p \notin Known
                 PROVE  Between(edge, p) = "P"
      OBVIOUS
    <2>1. Back(p) \in Pair /\ Back(p) \notin Known
      BY PairFacts, KnownFacts
    <2>2. edge[p] = <<>> /\ edge[Back(p)] = <<>>
      BY <2>1 DEF TypeOK
    <2>3. Symmetric("P") = "P" /\ Intersection("P", "P") = "P"
      BY SMT DEF Symmetric, Intersection
    <2>4. QED
      BY <2>2, <2>3 DEF Between, TypeAt
  <1>2. <<t[1], t[2]>> \notin Known \/ <<t[2], t[3]>> \notin Known
    BY DEF Known, KnownTriangle, Triangle, Pair
  <1>3. Composition(Between(edge, <<t[1], t[2]>>), Between(edge, <<t[2], t[3]>>)) = "P"
    BY <1>1, <1>2, TrianglePairs DEF Composition
  <1>4. Between(edge, <<t[1], t[3]>>) \in Types
    <2>1. \A p \in Pair : TypeAt(edge, p) \in Types
      BY ListFacts DEF TypeOK, TypeAt, Types
    <2>2. PICK p \in Pair : p = <<t[1], t[3]>>
      BY TrianglePairs
    <2>3. TypeAt(edge, p) \in Types /\ Symmetric(TypeAt(edge, Back(p))) \in Types
      BY <2>1, PairFacts, TableTypes
    <2>4. QED
      BY <2>2, <2>3, TableTypes DEF Between
  <1>5. \A u \in Types : Tighter(u, "P")
    <2> SUFFICES ASSUME NEW u \in Types PROVE Tighter(u, "P")
      OBVIOUS
    <2>1. Primitives("P") = {"<", "=", ">"}
      BY SMT DEF Primitives
    <2>2. QED
      BY <2>1, SymmetricPrimitives DEF Tighter
  <1>6. QED
    BY <1>3, <1>4, <1>5 DEF Follows

\* The debt of a graph that says the same, and owes no less.
LEMMA SameDebt ==
  ASSUME Closing,
         \A p \in Pair : Between(edge', p) = Between(edge, p),
         updated \subseteq updated', pending' = pending
  PROVE  Closing'
  <1>1. \A t \in Triangle : (Follows(edge, t) <=> Follows(edge', t)) /\ (Due(t) => Due(t)')
    BY TrianglePairs DEF Follows, Due, QueuedPair
  <1>2. \A p \in Pair : PairDue(p) => PairDue(p)'
    BY DEF PairDue, QueuedPair
  <1>3. QED
    BY <1>1, <1>2 DEF Closing, Follows

\* addQualitativeConstraint queues the pair it narrows.
LEMMA AddConstraintCloses ==
  ASSUME IncrementalInv, "!=" \notin InputTypes, Closing,
         NEW p \in Pair, NEW t \in InputTypes, AddConstraint(p, t), edge[p] = <<>>
  PROVE  Closing'
  <1>1. /\ Typed(edge) /\ PlainGraph(edge) /\ t \in Plain
    BY EntailedPlain, InputTypesAssumption DEF IncrementalInv, ProbeInv, AllEntailed, Plain
  <1>2. /\ edge' = [edge EXCEPT ![p] = <<t>>]
        /\ updated' = updated \cup {p} /\ pending' = pending
    <2>1. Compacted(edge[p]) = <<>>
      BY DEF Compacted
    <2>2. WithEdge(Compacted(edge[p]), t) = {<<t>>}
      BY <2>1 DEF WithEdge
    <2>3. QED
      BY <2>2 DEF AddConstraint, search
  <1>3. /\ TypeAt(edge, p) = "P"
        /\ TypeAt(edge', p) = t
        /\ \A q \in Pair \ {p} : TypeAt(edge', q) = TypeAt(edge, q)
    <2>1. PICK r : r = <<t>>
      OBVIOUS
    <2>2. r # <<>> /\ r[1] = t
      BY <2>1
    <2>3. \A q \in Pair : edge'[q] = IF q = p THEN r ELSE edge[q]
      BY <1>1, <1>2, <2>1 DEF Typed
    <2>4. QED
      BY <2>2, <2>3 DEF TypeAt
  <1>4. \A q \in Pair \ {p, Back(p)} : Between(edge', q) = Between(edge, q)
    BY <1>3, PairFacts DEF Between
  <1>5. \A q \in {p, Back(p)} : Tighter(Between(edge', q), Between(edge, q))
    <2>1. PlainGraph(edge')
      BY <1>1, <1>3 DEF PlainGraph
    <2>2. TypeAt(edge, Back(p)) = TypeAt(edge', Back(p)) /\ Back(p) \in Pair
      <3>1. Back(p) # p
        BY DEF Pair, Back
      <3>2. QED
        BY <1>3, <3>1, PairFacts
    <2>3. Between(edge, p) = Symmetric(TypeAt(edge', Back(p)))
      <3>1. \A u : Intersection("P", u) = u
        BY SMT DEF Intersection
      <3>2. QED
        BY <1>3, <2>2, <3>1 DEF Between
    <2>4. Tighter(Between(edge', p), Between(edge, p))
      <3>1. /\ TypeAt(edge', p) \in Types /\ TypeAt(edge', Back(p)) \in Types
        BY <2>1, <2>2 DEF PlainGraph, Plain
      <3>2. QED
        BY <2>3, <3>1, TableTypes, IntersectionTighter DEF Between
    <2>5. /\ Between(edge, p) \in Types /\ Between(edge', p) \in Types
          /\ Between(edge, Back(p)) = Symmetric(Between(edge, p))
          /\ Between(edge', Back(p)) = Symmetric(Between(edge', p))
      BY <1>1, <2>1, BetweenFacts DEF Plain
    <2>6. Tighter(Between(edge', Back(p)), Between(edge, Back(p)))
      <3>1. Tighter(Between(edge', p), Symmetric(Symmetric(Between(edge, p))))
        BY <2>4, <2>5, SymmetricTwice
      <3>2. QED
        BY <2>5, <3>1, SymmetricTighter, TableTypes
    <2>7. QED
      BY <2>4, <2>6
  <1>6. QueuedPair(p)' /\ QueuedPair(Back(p))'
    BY <1>2, PairFacts DEF QueuedPair
  <1>7. ASSUME NEW s \in Triangle
        PROVE  Follows(edge', s) \/ Due(s)'
    <2>1. Due(s) => Due(s)'
      BY <1>2 DEF Due, QueuedPair
    <2>2. CASE Legs(s) \cap {p, Back(p)} # {}
      BY <1>6, <2>2 DEF Due
    <2>3. CASE Legs(s) \cap {p, Back(p)} = {} /\ Follows(edge, s)
      <3>1. /\ Between(edge', <<s[1], s[2]>>) = Between(edge, <<s[1], s[2]>>)
            /\ Between(edge', <<s[2], s[3]>>) = Between(edge, <<s[2], s[3]>>)
        BY <1>4, <2>3, TrianglePairs DEF Legs
      <3>2. Tighter(Between(edge', <<s[1], s[3]>>), Between(edge, <<s[1], s[3]>>))
        BY <1>4, <1>5, TrianglePairs DEF Tighter
      <3>3. QED
        BY <2>3, <3>1, <3>2 DEF Follows, Tighter
    <2>4. QED
      BY <2>1, <2>2, <2>3 DEF Closing
  <1>8. ASSUME NEW q \in Pair
        PROVE  Between(edge', q) # "empty" \/ PairDue(q)'
    <2>1. PairDue(q) => PairDue(q)'
      BY <1>2 DEF PairDue, QueuedPair
    <2>2. QED
      BY <1>4, <1>6, <2>1 DEF Closing, PairDue
  <1>9. QED
    BY <1>7, <1>8 DEF Closing, Follows, Between, TypeAt, Back

\* A third vertex for a pair of a graph that has more than two.
LEMMA ThirdVertex ==
  ASSUME TypeOK, NEW p \in Known, Cardinality(vertices) # 2
  PROVE  \E k \in vertices : <<p[1], p[2], k>> \in KnownTriangle
  <1>1. p[1] \in vertices /\ p[2] \in vertices /\ p[1] # p[2] /\ vertices \subseteq Point
    BY DEF Known, Pair, TypeOK
  <1>2. IsFiniteSet({p[1]} \cup {p[2]}) /\ Cardinality({p[1]} \cup {p[2]}) = 2
    <2>1. IsFiniteSet({p[1]}) /\ Cardinality({p[1]}) = 1 /\ p[2] \notin {p[1]}
      BY <1>1, FS_Singleton
    <2>2. /\ IsFiniteSet({p[1]} \cup {p[2]})
          /\ Cardinality({p[1]} \cup {p[2]}) = Cardinality({p[1]}) + 1
      BY <2>1, FS_AddElement
    <2>3. QED
      BY <2>1, <2>2
  <1>3. vertices # {p[1]} \cup {p[2]}
    BY <1>2
  <1>4. PICK k \in vertices : k # p[1] /\ k # p[2]
    BY <1>1, <1>3
  <1>5. <<p[1], p[2], k>> \in KnownTriangle
    BY <1>1, <1>4 DEF KnownTriangle, Triangle
  <1>6. QED
    BY <1>5

\* incrementalPathConsistency, the pop of a pair: its triangles are now the
\* ones to be revised, and without a third vertex the pair is read at once.
LEMMA IncrementalPopCloses ==
  ASSUME IncrementalInv, Closing, NEW p \in Pair, IncrementalPop(p)
  PROVE  aborted' \/ Closing'
  <1> DEFINE pairs == IF Cardinality(vertices) = 2 THEN {p, Back(p)} ELSE {}
             ts == {t \in KnownTriangle : {t[1], t[2]} = {p[1], p[2]}}
  <1>1. /\ running = "incremental" /\ pending = {}
        /\ edge' = Look(pairs)
        /\ updated' = (updated \ {p}) \cup Created(pairs)
        /\ \/ Finish(FALSE)
           \/ ~(pairs # {} /\ Bidirectional(Look(pairs), p) = "empty") /\ pending' = ts
    BY DEF IncrementalPop, Continue
  <1>2. CASE Finish(FALSE)
    BY <1>1, <1>2 DEF Finish
  <1>3. CASE ~(pairs # {} /\ Bidirectional(Look(pairs), p) = "empty") /\ pending' = ts
    <2>1. /\ Typed(edge) /\ PlainGraph(edge) /\ TypeOK
          /\ p \in Known /\ pairs \in SUBSET Pair /\ Back(p) \in Pair /\ Back(Back(p)) = p
      BY EntailedPlain, PairFacts
         DEF IncrementalInv, ProbeInv, AllEntailed, CarriedInv, TypeOK, IncrementalPop
    <2>2. \A q \in Pair : Between(edge', q) = Between(edge, q)
      BY <1>1, <2>1, LookBetween
    <2>3. \A q \in Pair \ {p, Back(p)} : QueuedPair(q) => QueuedPair(q)'
      BY <1>1, <2>1, PairFacts DEF QueuedPair
    <2>4. ASSUME NEW s \in Triangle
          PROVE  Follows(edge', s) \/ Due(s)'
      <3>1. Follows(edge', s) <=> Follows(edge, s)
        BY <2>2, TrianglePairs DEF Follows
      <3>2. CASE Due(s) /\ s \in KnownTriangle
        <4>1. PICK q \in Legs(s) : QueuedPair(q)
          BY <1>1, <3>2 DEF Due
        <4>2. CASE q \notin {p, Back(p)}
          BY <2>3, <4>1, <4>2, TrianglePairs DEF Due, Legs
        <4>3. CASE q \in {p, Back(p)}
          <5>1. {q[1], q[2]} = {p[1], p[2]}
            BY <4>3, PairFacts
          <5>2. CASE q = <<s[1], s[2]>>
            BY <1>3, <3>2, <5>1, <5>2 DEF Due
          <5>3. CASE q = <<s[2], s[3]>>
            <6>1. Reversed(s) \in KnownTriangle
              BY <3>2 DEF KnownTriangle, Triangle, Reversed
            <6>2. Reversed(s)[1] = s[3] /\ Reversed(s)[2] = s[2]
              BY DEF Reversed
            <6>3. Reversed(s) \in ts
              BY <5>1, <5>3, <6>1, <6>2
            <6>4. QED
              BY <1>3, <6>3 DEF Due
          <5>4. QED
            BY <4>1, <5>2, <5>3 DEF Legs
        <4>4. QED
          BY <4>2, <4>3
      <3>3. QED
        BY <2>1, <3>1, <3>2, UnknownFollows DEF Closing
    <2>5. ASSUME NEW q \in Pair
          PROVE  Between(edge', q) # "empty" \/ PairDue(q)'
      <3>1. CASE q \notin {p, Back(p)}
        BY <1>1, <2>2, <2>3, <3>1 DEF Closing, PairDue
      <3>2. CASE q \in {p, Back(p)} /\ Cardinality(vertices) = 2
        <4>1. Bidirectional(Look(pairs), p) = Between(edge, p) /\ pairs # {}
          BY <2>1, <3>2, BidirectionalBetween
        <4>2. Between(edge, p) # "empty" /\ Between(edge, Back(p)) # "empty"
          BY <1>3, <2>1, <4>1, BetweenFacts
        <4>3. QED
          BY <2>2, <3>2, <4>2
      <3>3. CASE q \in {p, Back(p)} /\ Cardinality(vertices) # 2
        <4>1. PICK k \in vertices : <<p[1], p[2], k>> \in KnownTriangle
          BY <2>1, <3>3, ThirdVertex
        <4>2. <<p[1], p[2], k>>[1] = p[1] /\ <<p[1], p[2], k>>[2] = p[2]
          OBVIOUS
        <4>3. <<p[1], p[2], k>> \in pending'
          BY <1>3, <4>1, <4>2
        <4>4. p = <<p[1], p[2]>> /\ p \in {q, Back(q)}
          BY <2>1, <3>3, PairFacts
        <4>5. QED
          BY <4>2, <4>3, <4>4 DEF PairDue
      <3>4. QED
        BY <3>1, <3>2, <3>3
    <2>6. QED
      BY <2>4, <2>5 DEF Closing, Follows, Between, TypeAt, Back
  <1>4. QED
    BY <1>1, <1>2, <1>3

\* incrementalPathConsistency, the revision of a triangle: it follows from
\* then on, and a pair that was narrowed is queued.
LEMMA IncrementalReviseCloses ==
  ASSUME IncrementalInv, Closing, NEW t \in Triangle, IncrementalRevise(t)
  PROVE  aborted' \/ Closing'
  <1> DEFINE i == t[1]
             j == t[2]
             k == t[3]
             ik == <<i, k>>
             readIJ == Both(i, j)
             readJK == readIJ \cup Both(j, k)
             readIK == readJK \cup {ik}
             ij == Bidirectional(Look(readIJ), <<i, j>>)
             jk == Bidirectional(Look(readJK), <<j, k>>)
             old == Directional(Look(readIK), ik)
             revised == Intersection(old, Composition(ij, jk))
  <1>1. CASE Throw(readIJ) \/ Throw(readJK) \/ Throw(readIK)
    BY <1>1 DEF Throw, Finish, IncrementalRevise
  <1>2. CASE /\ ij # "empty" /\ jk # "empty" /\ revised # "empty"
             /\ edge' = Retype(Look(readIK), ik, revised)
             /\ updated' = updated \cup Created(readIK)
                             \cup (IF revised = old THEN {} ELSE {ik})
             /\ Continue(current, pending \ {t}, queue)
    <2>1. /\ Typed(edge) /\ PlainGraph(edge) /\ TypeOK /\ Simple(edge)
      BY EntailedPlain DEF IncrementalInv, ProbeInv, AllEntailed, CarriedInv
    <2>2. /\ <<i, j>> \in Pair /\ <<j, k>> \in Pair /\ ik \in Pair
          /\ <<j, i>> \in Pair /\ <<k, j>> \in Pair /\ <<k, i>> \in Pair
          /\ Back(<<i, j>>) = <<j, i>> /\ Back(<<j, k>>) = <<k, j>> /\ Back(ik) = <<k, i>>
          /\ readIJ \in SUBSET Pair /\ readJK \in SUBSET Pair /\ readIK \in SUBSET Pair
      BY TrianglePairs, PairFacts DEF Both
    <2>3. /\ ij = Between(edge, <<i, j>>) /\ jk = Between(edge, <<j, k>>)
          /\ ij \in Plain /\ jk \in Plain
      <3>1. /\ <<i, j>> \in readIJ /\ <<j, i>> \in readIJ
            /\ <<j, k>> \in readJK /\ <<k, j>> \in readJK
        BY DEF Both
      <3>2. ij = Between(edge, <<i, j>>) /\ jk = Between(edge, <<j, k>>)
        BY <2>1, <2>2, <3>1, BidirectionalBetween
      <3>3. QED
        BY <2>1, <2>2, <3>2, BetweenFacts
    <2>4. /\ Look(readIK)[ik] # <<>> /\ Simple(Look(readIK))
          /\ old = TypeAt(edge, ik) /\ old = Look(readIK)[ik][1] /\ old \in Plain
      <3>1. Look(readIK)[ik] # <<>> /\ Simple(Look(readIK))
        <4>1. ik \in readIK
          OBVIOUS
        <4> HIDE DEF readIK
        <4>2. Tightened(Look(readIK), edge)
          BY <2>1, <2>2, LookTightened
        <4>3. Simple(Look(readIK))
          BY <2>1, <4>2, TightenedSimple
        <4>4. Look(readIK)[ik] # <<>>
          BY <2>1, <2>2, <4>1, LookTyped
        <4>5. QED
          BY <4>3, <4>4
      <3>2. old = Look(readIK)[ik][1] /\ old = TypeAt(Look(readIK), ik)
        BY <3>1 DEF Directional, TypeAt
      <3>3. TypeAt(Look(readIK), ik) = TypeAt(edge, ik)
        BY <2>1, <2>2, LookBetween
      <3>4. QED
        BY <2>1, <2>2, <3>1, <3>2, <3>3 DEF PlainGraph
    <2> HIDE DEF ij, jk, old, readIJ, readJK, readIK
    <2>5. /\ revised \in Plain /\ revised \in Types
          /\ Tighter(revised, old) /\ Tighter(revised, Composition(ij, jk))
      <3>1. Composition(ij, jk) \in Plain
        BY <2>3, TablesPlain
      <3>2. QED
        BY <2>4, <3>1, TablesPlain, IntersectionTighter DEF Plain
    <2> HIDE DEF revised
    <2>6. /\ TypeAt(edge', ik) = revised
          /\ \A q \in Pair \ {ik} : TypeAt(edge', q) = TypeAt(edge, q)
      <3>1. Typed(Look(readIK)) /\ Tighter(revised, Look(readIK)[ik][1])
        BY <2>4, <2>5 DEF Simple
      <3>2. /\ Retype(Look(readIK), ik, revised)[ik] # <<>>
            /\ Retype(Look(readIK), ik, revised)[ik][1] = revised
            /\ \A q \in Pair : q # ik =>
                  Retype(Look(readIK), ik, revised)[q] = Look(readIK)[q]
        <4> DEFINE e == Look(readIK)
        <4>1. /\ Typed(e) /\ ik \in Pair /\ e[ik] # <<>>
              /\ revised \in Types /\ Tighter(revised, e[ik][1])
          BY <2>2, <2>4, <2>5, <3>1
        <4> HIDE DEF e, ik
        <4>2. QED
          BY <4>1, RetypeTightened DEF e
      <3>3. edge'[ik] # <<>> /\ edge'[ik][1] = revised
        BY <1>2, <3>2
      <3>4. \A q \in Pair \ {ik} : edge'[q] = Look(readIK)[q]
        BY <1>2, <3>2
      <3>5. \A q \in Pair : TypeAt(Look(readIK), q) = TypeAt(edge, q)
        BY <2>1, <2>2, LookBetween
      <3>6. \A q \in Pair \ {ik} : TypeAt(edge', q) = TypeAt(Look(readIK), q)
        BY <3>4 DEF TypeAt
      <3>7. QED
        BY <3>3, <3>4, <3>5, <3>6 DEF TypeAt
    <2>7. PlainGraph(edge')
      BY <2>1, <2>5, <2>6 DEF PlainGraph
    <2>8. \A q \in Pair \ {ik, <<k, i>>} : Between(edge', q) = Between(edge, q)
      BY <2>2, <2>6, PairFacts DEF Between
    <2>9. revised = old => \A q \in Pair : Between(edge', q) = Between(edge, q)
      <3> SUFFICES ASSUME revised = old, NEW q \in Pair
                   PROVE  Between(edge', q) = Between(edge, q)
        OBVIOUS
      <3>1. \A s \in Pair : TypeAt(edge', s) = TypeAt(edge, s)
        BY <2>4, <2>6
      <3>2. QED
        BY <3>1, PairFacts DEF Between
    <2>10. Tighter(Between(edge', ik), Composition(ij, jk))
      BY <2>2, <2>5, <2>6, <2>7, BetweenFacts DEF Tighter
    <2>11. \A q \in {ik, <<k, i>>} : Tighter(Between(edge', q), Between(edge, q))
      <3> DEFINE ki == TypeAt(edge, <<k, i>>)
      <3>1. ki \in Types /\ Symmetric(ki) \in Types /\ old \in Types
        BY <2>1, <2>2, <2>4, TableTypes DEF PlainGraph, Plain
      <3>2. <<k, i>> # ik
        BY <2>2 DEF Pair
      <3>3. /\ Between(edge, ik) = Intersection(old, Symmetric(ki))
            /\ Between(edge', ik) = Intersection(revised, Symmetric(ki))
        BY <2>2, <2>4, <2>6, <3>2 DEF Between
      <3> HIDE DEF ki
      <3>4. Tighter(Between(edge', ik), Between(edge, ik))
        BY <2>5, <3>1, <3>3, TablesIntersect DEF IntersectionIsExact, Tighter
      <3>5. /\ Between(edge, ik) \in Types /\ Between(edge', ik) \in Types
            /\ Between(edge, <<k, i>>) = Symmetric(Between(edge, ik))
            /\ Between(edge', <<k, i>>) = Symmetric(Between(edge', ik))
        BY <2>1, <2>2, <2>7, BetweenFacts DEF Plain
      <3>6. Tighter(Between(edge', ik), Symmetric(Symmetric(Between(edge, ik))))
        BY <3>4, <3>5, SymmetricTwice
      <3>7. Tighter(Between(edge', <<k, i>>), Between(edge, <<k, i>>))
        BY <3>5, <3>6, SymmetricTighter, TableTypes
      <3>8. QED
        BY <3>4, <3>7
    <2>12. \A q \in Pair : /\ QueuedPair(q) => QueuedPair(q)'
                           /\ revised # old /\ q \in {ik, <<k, i>>} => QueuedPair(q)'
      <3>1. updated \subseteq updated' /\ (revised # old => ik \in updated')
        BY <1>2
      <3>2. Back(ik) = <<k, i>> /\ Back(<<k, i>>) = ik
        BY <2>2, PairFacts
      <3> HIDE DEF ik
      <3>3. QED
        BY <3>1, <3>2 DEF QueuedPair
    <2>13. pending' = pending \ {t}
      BY <1>2 DEF Continue
    <2>14. Follows(edge', t) /\ Follows(edge', Reversed(t))
      <3>1. <<i, j>> \notin {ik, <<k, i>>} /\ <<j, k>> \notin {ik, <<k, i>>}
        BY DEF Triangle
      <3>2. Follows(edge', t)
        BY <2>2, <2>3, <2>8, <2>10, <3>1 DEF Follows
      <3>3. QED
        BY <2>7, <3>2, FollowsReversed DEF Reversed
    <2> HIDE DEF i, j, k, ik
    <2>15. ASSUME NEW s \in Triangle
           PROVE  Follows(edge', s) \/ Due(s)'
      <3>1. CASE s = t \/ Reversed(s) = t
        BY <2>14, <3>1, TrianglePairs
      <3>2. CASE s # t /\ Reversed(s) # t /\ Due(s)
        BY <2>12, <2>13, <3>2, TrianglePairs DEF Due, Legs
      <3>3. CASE Follows(edge, s) /\ (revised = old \/ Legs(s) \cap {ik, <<k, i>>} = {})
        <4>1. /\ Between(edge', <<s[1], s[2]>>) = Between(edge, <<s[1], s[2]>>)
              /\ Between(edge', <<s[2], s[3]>>) = Between(edge, <<s[2], s[3]>>)
          BY <2>8, <2>9, <3>3, TrianglePairs DEF Legs
        <4>2. Tighter(Between(edge', <<s[1], s[3]>>), Between(edge, <<s[1], s[3]>>))
          BY <2>8, <2>11, TrianglePairs DEF Tighter
        <4>3. QED
          BY <3>3, <4>1, <4>2 DEF Follows, Tighter
      <3>4. CASE revised # old /\ Legs(s) \cap {ik, <<k, i>>} # {}
        BY <2>2, <2>12, <3>4, TrianglePairs DEF Due, Legs
      <3>5. QED
        BY <3>1, <3>2, <3>3, <3>4 DEF Closing
    <2>16. ASSUME NEW q \in Pair
           PROVE  Between(edge', q) # "empty" \/ PairDue(q)'
      <3>1. CASE revised # old /\ q \in {ik, <<k, i>>}
        BY <2>12, <3>1 DEF PairDue
      <3>2. CASE revised = old \/ q \notin {ik, <<k, i>>}
        <4>1. Between(edge', q) = Between(edge, q)
          BY <2>8, <2>9, <3>2
        <4>2. CASE QueuedPair(q)
          BY <2>12, <4>2 DEF PairDue
        <4>3. ASSUME NEW s \in pending, <<s[1], s[2]>> \in {q, Back(q)}, s # t
              PROVE  PairDue(q)'
          BY <2>13, <4>3 DEF PairDue
        <4>4. CASE <<t[1], t[2]>> \in {q, Back(q)}
          <5>1. q \in {<<i, j>>, Back(<<i, j>>)} /\ Between(edge, <<i, j>>) # "empty"
            BY <1>2, <2>3, <4>4, PairFacts DEF i, j
          <5>2. Between(edge, q) # "empty"
            BY <2>1, <2>2, <5>1, BetweenFacts
          <5>3. QED
            BY <4>1, <5>2
        <4>5. QED
          BY <4>1, <4>2, <4>3, <4>4 DEF Closing, PairDue
      <3>3. QED
        BY <3>1, <3>2
    <2>17. QED
      BY <2>15, <2>16 DEF Closing, Follows, Between, TypeAt, Back
  <1>3. QED
    BY <1>1, <1>2 DEF IncrementalRevise

\* The exception is not forgotten.
LEMMA AbortedStays ==
  ASSUME aborted, [Next]_vars
  PROVE  aborted'
  <1>1. CASE CheckStep
    BY <1>1 DEF CheckStep, IncrementalPop, IncrementalRevise, IncrementalDone,
       BeekManakPop, BeekManakRevise, BeekManakDone, Throw, Finish, Continue, client
  <1>2. CASE ~CheckStep
    BY <1>2 DEF Next, AddConstraint, RemoveConstraint, GreaterThan, CheckGecode,
       StartIncremental, StartBeekManak, client, vars
  <1>3. QED
    BY <1>1, <1>2

\* The calls of the client and the steps of the check keep the invariant.
LEMMA NextCloses ==
  ASSUME IncrementalInv, "!=" \notin InputTypes,
         {"parallel", "remove", "beekManak"} \cap Operations = {}, [Next]_vars
  PROVE  (aborted \/ Closing)'
  <1>1. CASE aborted
    <2>1. aborted'
      BY <1>1, AbortedStays
    <2>2. QED
      BY <2>1
  <1>2. CASE Closing
    <2>1. ASSUME edge' = edge, updated \subseteq updated', pending' = pending
          PROVE  Closing'
      BY <1>2, <2>1, SameDebt
    <2>2. CASE \E p \in Pair, t \in InputTypes : AddConstraint(p, t)
      <3>1. PICK p \in Pair, t \in InputTypes : AddConstraint(p, t)
        BY <2>2
      <3>2. edge[p] = <<>>
        BY <3>1 DEF AddConstraint
      <3>3. QED
        BY <1>2, <3>1, <3>2, AddConstraintCloses
    <2>3. CASE \E p \in Pair, n \in 1..2 : RemoveConstraint(p, n)
      BY <2>3 DEF RemoveConstraint
    <2>4. CASE \E p \in Pair : GreaterThan(p)
      <3>1. edge' = edge /\ updated \subseteq updated' /\ pending' = pending
        BY <2>4, GreaterThanSame
           DEF GreaterThan, search, IncrementalInv, ProbeInv, CarriedInv
      <3>2. QED
        BY <2>1, <3>1
    <2>5. CASE CheckGecode \/ StartIncremental \/ StartBeekManak \/ UNCHANGED vars
      BY <2>1, <2>5 DEF CheckGecode, StartIncremental, StartBeekManak, graph, search, vars
    <2>6. CASE \E p \in Pair : IncrementalPop(p)
      BY <1>2, <2>6, IncrementalPopCloses
    <2>7. CASE \E t \in Triangle : IncrementalRevise(t)
      BY <1>2, <2>7, IncrementalReviseCloses
    <2>8. CASE IncrementalDone
      BY <2>1, <2>8 DEF IncrementalDone, Finish
    <2>9. CASE \/ \E p \in Pair : BeekManakPop(p)
               \/ \E t \in Triangle : BeekManakRevise(t)
               \/ BeekManakDone
      BY <2>9 DEF BeekManakPop, BeekManakRevise, BeekManakDone, IncrementalInv, ProbeInv
    <2>10. QED
      BY <2>2, <2>3, <2>4, <2>5, <2>6, <2>7, <2>8, <2>9 DEF Next, CheckStep
  <1>3. QED
    BY <1>1, <1>2 DEF IncrementalInv

\* A graph that says nothing owes nothing.
LEMMA InitCloses == Init => aborted \/ Closing
  <1> SUFFICES ASSUME Init PROVE Closing
    OBVIOUS
  <1>1. \A p \in Pair : Between(edge, p) = "P"
    <2> SUFFICES ASSUME NEW p \in Pair PROVE Between(edge, p) = "P"
      OBVIOUS
    <2>1. edge[p] = <<>> /\ edge[Back(p)] = <<>>
      BY PairFacts DEF Init
    <2>2. Symmetric("P") = "P" /\ Intersection("P", "P") = "P"
      BY SMT DEF Symmetric, Intersection
    <2>3. QED
      BY <2>1, <2>2 DEF Between, TypeAt
  <1>2. Composition("P", "P") = "P"
    BY DEF Composition
  <1>3. \A t \in Triangle : Follows(edge, t)
    BY <1>1, <1>2, TrianglePairs DEF Follows, Tighter
  <1>4. QED
    BY <1>1, <1>3 DEF Closing

LEMMA AlwaysCloses ==
  ASSUME "!=" \notin InputTypes, {"parallel", "remove", "beekManak"} \cap Operations = {}
  PROVE  Spec => []IncrementalInv
  <1>1. ProbeInv /\ (aborted \/ Closing) /\ [Next]_vars => (aborted \/ Closing)'
    BY NextCloses DEF IncrementalInv
  <1>2. IncrementalInv <=> ProbeInv /\ (aborted \/ Closing)
    BY DEF IncrementalInv
  <1>3. Spec => []ProbeInv
    BY AlwaysProbeInv
  <1>4. QED
    BY InitCloses, <1>1, <1>2, <1>3, PTL DEF Spec

\* True from incremental path consistency means that the constraints have a
\* solution, in whatever order the queue of updated pairs and the vertices are
\* visited, on every network that earlier checks and probes have narrowed, as
\* long as no check before it ended by an exception.
THEOREM IncrementalDecides ==
  ASSUME "!=" \notin InputTypes, EnoughInstants,
         {"parallel", "remove", "beekManak"} \cap Operations = {}
  PROVE  Spec => []IncrementalAcceptsOnlySolvable
  <1>1. Init => IncrementalAcceptsOnlySolvable
    BY DEF Init, NoAnswer, IncrementalAcceptsOnlySolvable
  <1>2. IncrementalInv /\ IncrementalAcceptsOnlySolvable /\ [Next]_vars
          => IncrementalAcceptsOnlySolvable'
    <2> SUFFICES ASSUME IncrementalInv, IncrementalAcceptsOnlySolvable, [Next]_vars
                 PROVE  IncrementalAcceptsOnlySolvable'
      OBVIOUS
    <2>1. asserted' = asserted => (Solvable <=> Solvable')
      BY DEF Solvable, SatisfiesClient
    <2>2. ASSUME answer' = answer, asserted' = asserted, aborted => aborted'
          PROVE  IncrementalAcceptsOnlySolvable'
      BY <2>1, <2>2 DEF IncrementalAcceptsOnlySolvable
    <2>3. ASSUME answer'.by # "incremental" \/ ~answer'.says
          PROVE  IncrementalAcceptsOnlySolvable'
      BY <2>3 DEF IncrementalAcceptsOnlySolvable
    <2>4. CASE IncrementalDone
      <3>1. /\ pending = {} /\ updated = {} /\ asserted' = asserted
            /\ aborted => aborted'
        BY <2>4 DEF IncrementalDone, Finish
      <3>2. CASE aborted
        BY <3>1, <3>2 DEF IncrementalAcceptsOnlySolvable
      <3>3. CASE Closing
        <4>1. /\ \A p \in Pair : Between(edge, p) # "empty"
              /\ \A t \in Triangle : Follows(edge, t)
          BY <3>1, <3>3 DEF Closing, Due, PairDue, QueuedPair
        <4>2. TypeOK /\ Simple(edge) /\ PlainGraph(edge) /\ CarriedInv
          BY EntailedPlain DEF IncrementalInv, ProbeInv, CarriedInv
        <4>3. PICK v \in [vertices -> 0..(Cardinality(vertices) - 1)] : SatisfiesGraph(v, edge)
          BY <4>1, <4>2, ClosedHasOrder
        <4>4. Solvable
          BY <4>2, <4>3, GecodeAccepts DEF GecodeConsistent
        <4>5. QED
          BY <2>1, <3>1, <4>4 DEF IncrementalAcceptsOnlySolvable
      <3>4. QED
        BY <3>2, <3>3 DEF IncrementalInv
    <2>5. CASE \E p \in Pair, t \in InputTypes : AddConstraint(p, t)
      BY <2>3, <2>5 DEF AddConstraint, NoAnswer
    <2>6. CASE \E p \in Pair, n \in 1..2 : RemoveConstraint(p, n)
      BY <2>6 DEF RemoveConstraint
    <2>7. CASE \E p \in Pair : GreaterThan(p)
      <3>1. answer'.by = "greaterThan"
        BY <2>7 DEF GreaterThan, Answers
      <3>2. QED
        BY <2>3, <3>1
    <2>8. CASE CheckGecode
      BY <2>3, <2>8 DEF CheckGecode, Answers
    <2>9. CASE StartIncremental \/ StartBeekManak \/ UNCHANGED vars
      BY <2>2, <2>9 DEF StartIncremental, StartBeekManak, client, vars
    <2>10. CASE CheckStep
      <3>1. /\ asserted' = asserted
            /\ answer' = answer \/ ~answer'.says \/ IncrementalDone \/ BeekManakDone
        BY <2>10, CheckStepTightens DEF IncrementalInv, ProbeInv, CarriedInv
      <3>2. ~BeekManakDone
        BY DEF BeekManakDone, IncrementalInv, ProbeInv
      <3>3. CASE answer' = answer
        BY <2>2, <3>1, <3>3, AbortedStays
      <3>4. QED
        BY <2>3, <2>4, <3>1, <3>2, <3>3
    <2>11. QED
      BY <2>4, <2>5, <2>6, <2>7, <2>8, <2>9, <2>10 DEF Next
  <1>3. QED
    BY <1>1, <1>2, AlwaysCloses, PTL DEF Spec
(***************************************************************************)
(* Every step of a check leaves less work: the checks return, and parallel *)
(* edges do not change that.                                               *)
(***************************************************************************)

\* Two graphs with the same pairs and the same first types.
SameTypes(f, e) ==
  \A p \in Pair : /\ f[p] = <<>> <=> e[p] = <<>>
                  /\ e[p] # <<>> => f[p][1] = e[p][1]

\* A type is given by the primitive orders it allows.
LEMMA PrimitivesDistinguish ==
  ASSUME NEW t \in Types, NEW u \in Types
  PROVE  /\ Primitives(t) = Primitives(u) => t = u
         /\ "no edge" \notin Primitives(t)
         /\ Primitives(t) \subseteq {"<", "=", ">", "no edge"}
  <1>1. ASSUME NEW w \in Types
        PROVE  /\ Primitives(w) \subseteq {"<", "=", ">"}
               /\ "<" \in Primitives(w) <=> w \in {"<", "!=", "<=", "P"}
               /\ "=" \in Primitives(w) <=> w \in {"=", ">=", "<=", "P"}
               /\ ">" \in Primitives(w) <=> w \in {">", "!=", ">=", "P"}
    BY SMT DEF Types, Primitives
  <1>2. "no edge" \notin {"<", "=", ">"}
    OBVIOUS
  <1>3. ASSUME Primitives(t) = Primitives(u)
        PROVE  t = u
    <2>1. /\ t \in {"<", "!=", "<=", "P"} <=> u \in {"<", "!=", "<=", "P"}
          /\ t \in {"=", ">=", "<=", "P"} <=> u \in {"=", ">=", "<=", "P"}
          /\ t \in {">", "!=", ">=", "P"} <=> u \in {">", "!=", ">=", "P"}
      BY <1>1, <1>3
    <2>2. QED
      BY <2>1, SMT DEF Types
  <1>4. QED
    BY <1>1, <1>2, <1>3

\* What a pair allows shrinks in a tighter graph, and strictly so unless the
\* pair keeps its type.
LEMMA OpenShrinks ==
  ASSUME NEW e, NEW f, Typed(e), Tightened(f, e), NEW p \in Pair
  PROVE  /\ Open(f[p]) \subseteq Open(e[p])
         /\ Open(e[p]) \subseteq Open(f[p])
              => /\ f[p] = <<>> <=> e[p] = <<>>
                 /\ e[p] # <<>> => f[p][1] = e[p][1]
  <1>1. /\ e[p] # <<>> => e[p][1] \in Types
        /\ f[p] # <<>> => f[p][1] \in Types
    BY ListFacts DEF Typed, Tightened
  <1>2. CASE e[p] = <<>>
    <2>1. Open(e[p]) = {"<", "=", ">", "no edge"}
      BY <1>2 DEF Open
    <2>2. CASE f[p] = <<>>
      BY <1>2, <2>2
    <2>3. CASE f[p] # <<>>
      <3>1. Open(f[p]) = Primitives(f[p][1])
        BY <2>3 DEF Open
      <3> DEFINE t == f[p][1]
      <3>2. t \in Types /\ Open(f[p]) = Primitives(t)
        BY <1>1, <2>3, <3>1
      <3> HIDE DEF t
      <3>3. "no edge" \notin Open(f[p]) /\ Open(f[p]) \subseteq Open(e[p])
        BY <2>1, <3>2, PrimitivesDistinguish
      <3>4. QED
        BY <2>1, <3>3
    <2>4. QED
      BY <2>2, <2>3
  <1>3. CASE e[p] # <<>>
    <2>1. f[p] # <<>> /\ Primitives(f[p][1]) \subseteq Primitives(e[p][1])
      BY <1>3 DEF Tightened, Tighter
    <2>2. Open(e[p]) = Primitives(e[p][1]) /\ Open(f[p]) = Primitives(f[p][1])
      BY <1>3, <2>1 DEF Open
    <2>3. Open(e[p]) \subseteq Open(f[p]) => f[p][1] = e[p][1]
      <3> DEFINE t == f[p][1]
                 u == e[p][1]
      <3>1. t \in Types /\ u \in Types /\ Primitives(t) \subseteq Primitives(u)
        BY <1>1, <1>3, <2>1
      <3> HIDE DEF t, u
      <3>2. Primitives(t) = Primitives(u) => t = u
        BY <3>1, PrimitivesDistinguish
      <3>3. Primitives(u) \subseteq Primitives(t) => Primitives(t) = Primitives(u)
        BY <3>1
      <3>4. QED
        BY <2>2, <3>2, <3>3 DEF t, u
    <2>4. QED
      BY <1>3, <2>1, <2>2, <2>3
  <1>4. QED
    BY <1>2, <1>3

\* The pairs and the triangles of finitely many points.
LEMMA FinitePairs ==
  ASSUME IsFiniteSet(Point)
  PROVE  IsFiniteSet(Pair) /\ IsFiniteSet(Triangle)
  <1>1. IsFiniteSet(Point \X Point)
    BY FS_Product
  <1>2. IsFiniteSet(Pair)
    BY <1>1, FS_Subset DEF Pair
  <1> DEFINE S == (Point \X Point) \X Point
             T == Point \X Point \X Point
             f == [a \in S |-> <<a[1][1], a[1][2], a[2]>>]
  <1>3. IsFiniteSet(S)
    BY <1>1, FS_Product
  <1>4. f \in Surjection(S, T)
    <2>1. f \in [S -> T]
      OBVIOUS
    <2>2. ASSUME NEW t \in T
          PROVE  \E a \in S : f[a] = t
      <3> DEFINE a == <<<<t[1], t[2]>>, t[3]>>
      <3>1. a \in S /\ t = <<t[1], t[2], t[3]>>
        OBVIOUS
      <3>2. f[a] = <<t[1], t[2], t[3]>>
        BY <3>1
      <3>3. QED
        BY <3>1, <3>2
    <2>3. QED
      BY <2>1, <2>2 DEF Surjection
  <1> HIDE DEF S, f
  <1>5. IsFiniteSet(T)
    BY <1>3, <1>4, FS_Surjection
  <1>6. IsFiniteSet(Triangle)
    BY <1>5, FS_Subset DEF Triangle
  <1>7. QED
    BY <1>2, <1>6

\* The freedom of a graph falls when it is tightened, unless no type changes.
LEMMA FreedomFalls ==
  ASSUME IsFiniteSet(Point), NEW e, NEW f, Typed(e), Tightened(f, e)
  PROVE  /\ Freedom(e) \in Nat /\ Freedom(f) \in Nat
         /\ Freedom(f) < Freedom(e) \/ (Freedom(f) = Freedom(e) /\ SameTypes(f, e))
  <1> DEFINE orders == {"<", "=", ">", "no edge"}
             all == Pair \X orders
             E == {pq \in all : pq[2] \in Open(e[pq[1]])}
             F == {pq \in all : pq[2] \in Open(f[pq[1]])}
  <1>1. IsFiniteSet(all)
    <2>1. IsFiniteSet({}) /\ IsFiniteSet({"<"}) /\ IsFiniteSet({"<"} \cup {"="})
      BY FS_EmptySet, FS_Singleton, FS_AddElement
    <2>2. IsFiniteSet(({"<"} \cup {"="}) \cup {">"})
      BY <2>1, FS_AddElement
    <2>3. IsFiniteSet((({"<"} \cup {"="}) \cup {">"}) \cup {"no edge"})
      BY <2>2, FS_AddElement
    <2>4. orders = (({"<"} \cup {"="}) \cup {">"}) \cup {"no edge"}
      OBVIOUS
    <2>5. IsFiniteSet(orders)
      BY <2>3, <2>4
    <2> HIDE DEF orders
    <2>6. QED
      BY <2>5, FinitePairs, FS_Product
  <1>2. E \in SUBSET all
    OBVIOUS
  <1>3. Freedom(e) = Cardinality(E) /\ Freedom(f) = Cardinality(F)
    BY DEF Freedom
  <1>4. IsFiniteSet(E) /\ Cardinality(E) \in Nat
    BY <1>1, <1>2, FS_Subset, FS_CardinalityType
  <1>5. F \in SUBSET E
    <2>1. \A p \in Pair : Open(f[p]) \subseteq Open(e[p])
      BY OpenShrinks
    <2>2. QED
      BY <2>1
  <1>6. /\ IsFiniteSet(F) /\ Cardinality(F) \in Nat
        /\ Cardinality(F) <= Cardinality(E)
        /\ Cardinality(E) = Cardinality(F) => E = F
    <2> HIDE DEF E, F
    <2>1. QED
      BY <1>4, <1>5, FS_Subset, FS_CardinalityType
  <1>7. ASSUME E = F
        PROVE  SameTypes(f, e)
    <2> SUFFICES ASSUME NEW p \in Pair
                 PROVE  /\ f[p] = <<>> <=> e[p] = <<>>
                        /\ e[p] # <<>> => f[p][1] = e[p][1]
      BY DEF SameTypes
    <2>1. Open(e[p]) \subseteq orders
      <3>1. e[p] # <<>> => e[p][1] \in Types
        BY ListFacts DEF Typed
      <3>2. QED
        BY <3>1, PrimitivesDistinguish DEF Open
    <2>2. ASSUME NEW x \in Open(e[p])
          PROVE  x \in Open(f[p])
      <3>1. <<p, x>> \in E
        BY <2>1
      <3>2. <<p, x>> \in F
        BY <1>7, <3>1
      <3>3. QED
        BY <3>2
    <2>3. QED
      BY <2>2, OpenShrinks
  <1> HIDE DEF E, F
  <1>8. QED
    BY <1>3, <1>4, <1>6, <1>7

\* A read that creates an edge changes what the graph says; a tightening that
\* changes nothing reads only edges that are there.
LEMMA SameCreatesNothing ==
  ASSUME Typed(edge), NEW ps \in SUBSET Pair, NEW f, SameTypes(f, edge),
         \A p \in Pair : Look(ps)[p] # <<>> => f[p] # <<>>
  PROVE  Created(ps) = {} /\ \A p \in Pair : Look(ps)[p] = edge[p]
  <1>1. \A p \in ps : Look(ps)[p] # <<>>
    BY LookTyped
  <1>2. \A p \in ps : edge[p] # <<>>
    BY <1>1 DEF SameTypes
  <1>3. Created(ps) = {}
    BY <1>2 DEF Created
  <1>4. QED
    BY <1>3 DEF Look

\* What getConstraintType leaves of the pair (s, t).
LEMMA NarrowedAt ==
  ASSUME GraphOK, NEW t \in KnownTriangle, NEW u \in Types
  PROVE  LET st == <<t[1], t[3]>>
         IN  /\ Narrowed(t, u)[st][1] = u
             /\ Narrowed(t, u)[Back(st)][1] = Symmetric(u)
             /\ \A q \in Pair : Narrowed(t, u)[q] = <<>> <=> Look(Reads(t))[q] = <<>>
  <1> DEFINE so == <<t[1], t[2]>>
             ot == <<t[2], t[3]>>
             st == <<t[1], t[3]>>
             e0 == Look(Reads(t))
             typeSO == Bidirectional(e0, so)
             typeOT == Bidirectional(e0, ot)
             e1 == Narrow(e0, so, typeSO)
             e2 == Narrow(e1, ot, typeOT)
             e3 == Narrow(e2, st, u)
  <1>1. /\ so \in Pair /\ Back(so) \in Pair /\ ot \in Pair /\ Back(ot) \in Pair
        /\ st \in Pair /\ Back(st) \in Pair
        /\ e0[so] # <<>> /\ e0[Back(so)] # <<>> /\ e0[ot] # <<>> /\ e0[Back(ot)] # <<>>
        /\ e0[st] # <<>> /\ e0[Back(st)] # <<>>
        /\ typeSO \in Types /\ typeOT \in Types /\ Typed(e0)
    BY ReadsFacts
  <1>2. e3 = Narrowed(t, u)
    BY DEF Narrowed
  <1>3. Back(st) # st
    BY <1>1, PairFacts DEF Pair, Back
  <1> HIDE DEF so, ot, st, e0, typeSO, typeOT
  <1>4. Typed(e1) /\ \A q \in Pair : e1[q] = <<>> <=> e0[q] = <<>>
    BY <1>1, NarrowTyped
  <1> HIDE DEF e1
  <1>5. Typed(e2) /\ \A q \in Pair : e2[q] = <<>> <=> e1[q] = <<>>
    BY <1>1, <1>4, NarrowTyped
  <1> HIDE DEF e2
  <1>6. \A q \in Pair : e3[q] = <<>> <=> e2[q] = <<>>
    BY <1>1, <1>4, <1>5, NarrowTyped
  <1>7. /\ e2 \in [Pair -> EdgeLists] /\ e2[st] \in EdgeLists /\ e2[st] # <<>>
        /\ e2[Back(st)] \in EdgeLists /\ e2[Back(st)] # <<>>
    BY <1>1, <1>4, <1>5 DEF Typed
  <1>8. /\ e3[st] = [e2[st] EXCEPT ![1] = u]
        /\ e3[Back(st)] = [e2[Back(st)] EXCEPT ![1] = Symmetric(u)]
    BY <1>1, <1>3, <1>7 DEF Narrow
  <1>9. Symmetric(u) \in Types
    BY TableTypes
  <1>10. e3[st][1] = u /\ e3[Back(st)][1] = Symmetric(u)
    BY <1>7, <1>8, <1>9, RetypedList
  <1>11. QED
    BY <1>2, <1>4, <1>5, <1>6, <1>10 DEF st, e0

(***************************************************************************)
(* The steps that leave a check running, one by one.                       *)
(***************************************************************************)
Finite == IsFiniteSet(updated) /\ IsFiniteSet(queue) /\ IsFiniteSet(pending)

LEMMA FiniteWork ==
  ASSUME IsFiniteSet(Point), TypeOK
  PROVE  Finite
  <1>1. updated \in SUBSET Pair /\ queue \in SUBSET Pair /\ pending \in SUBSET Triangle
    BY DEF TypeOK, Known, KnownTriangle
  <1>2. QED
    BY <1>1, FinitePairs, FS_Subset DEF Finite

\* To take an element out of a finite set is to have one less.
LEMMA OneLess ==
  ASSUME NEW S, IsFiniteSet(S), NEW x \in S
  PROVE  /\ Cardinality(S) \in Nat /\ Cardinality(S \ {x}) \in Nat
         /\ Cardinality(S \ {x}) < Cardinality(S)
  <1>1. Cardinality(S \ {x}) = Cardinality(S) - 1 /\ IsFiniteSet(S \ {x})
    BY FS_RemoveElement
  <1>2. Cardinality(S) \in Nat /\ Cardinality(S \ {x}) \in Nat
    BY <1>1, FS_CardinalityType
  <1>3. QED
    BY <1>1, <1>2

\* Less work in the graph, in the queue or among the triangles.
Less ==
  \/ ~SameTypes(edge', edge)
  \/ Cardinality(Queued)' < Cardinality(Queued)
  \/ Cardinality(Queued)' = Cardinality(Queued) /\ Cardinality(pending)' < Cardinality(pending)

LEMMA IncrementalPopLess ==
  ASSUME TypeOK, Finite, NEW p \in Pair, IncrementalPop(p),
         running # "idle", running' = running
  PROVE  Less
  <1> DEFINE pairs == IF Cardinality(vertices) = 2 THEN {p, Back(p)} ELSE {}
  <1>1. /\ pairs \in SUBSET Pair
        /\ running = "incremental" /\ p \in updated
        /\ edge' = Look(pairs)
        /\ updated' = (updated \ {p}) \cup Created(pairs)
    BY PairFacts DEF IncrementalPop
  <1> HIDE DEF pairs
  <1>2. ASSUME SameTypes(edge', edge)
        PROVE  Cardinality(Queued)' < Cardinality(Queued)
    <2>1. Typed(edge)
      BY TypeOKGraph DEF GraphOK
    <2>2. Created(pairs) = {}
      BY <1>1, <1>2, <2>1, SameCreatesNothing
    <2>3. updated' = updated \ {p}
      BY <1>1, <2>2
    <2>4. Cardinality(updated') < Cardinality(updated)
      BY <1>1, <2>3, OneLess DEF Finite
    <2>5. QED
      BY <1>1, <2>4 DEF Queued
  <1>3. QED
    BY <1>2 DEF Less

LEMMA BeekManakPopLess ==
  ASSUME Finite, NEW p \in Pair, BeekManakPop(p), running' = running
  PROVE  Less
  <1>1. running = "beekManak" /\ p \in queue /\ queue' = queue \ {p}
    BY DEF BeekManakPop, Continue
  <1>2. Cardinality(queue') < Cardinality(queue)
    BY <1>1, OneLess DEF Finite
  <1>3. QED
    BY <1>1, <1>2 DEF Less, Queued

LEMMA IncrementalReviseLess ==
  ASSUME TypeOK, Finite, NEW t \in Triangle, IncrementalRevise(t),
         running # "idle", running' = running
  PROVE  Less
  <1> DEFINE i == t[1]
             j == t[2]
             k == t[3]
             ik == <<i, k>>
             readIJ == Both(i, j)
             readJK == readIJ \cup Both(j, k)
             readIK == readJK \cup {ik}
             ij == Bidirectional(Look(readIJ), <<i, j>>)
             jk == Bidirectional(Look(readJK), <<j, k>>)
             old == Directional(Look(readIK), ik)
             revised == Intersection(old, Composition(ij, jk))
  <1>1. t \in KnownTriangle /\ Typed(edge) /\ t \in pending /\ running = "incremental"
    BY TypeOKGraph DEF TypeOK, IncrementalRevise, GraphOK
  <1>2. /\ readIJ \in SUBSET Pair /\ readJK \in SUBSET Pair /\ readIK \in SUBSET Pair
        /\ <<i, j>> \in Pair /\ <<j, k>> \in Pair /\ ik \in Pair
        /\ Back(<<i, j>>) = <<j, i>> /\ Back(<<j, k>>) = <<k, j>>
    BY <1>1, TriangleFacts DEF Both
  <1>3. /\ <<i, j>> \in readIJ /\ <<j, i>> \in readIJ
        /\ <<j, k>> \in readJK /\ <<k, j>> \in readJK /\ ik \in readIK
    BY DEF Both
  <1>4. ~Finish(FALSE)
    BY DEF Finish
  <1>5. /\ edge' = Retype(Look(readIK), ik, revised)
        /\ updated' = updated \cup Created(readIK) \cup (IF revised = old THEN {} ELSE {ik})
        /\ pending' = pending \ {t}
    BY <1>4 DEF IncrementalRevise, Throw, Continue
  <1> HIDE DEF readIJ, readJK, readIK
  <1>6. /\ Typed(Look(readIJ)) /\ Typed(Look(readJK)) /\ Typed(Look(readIK))
        /\ Look(readIJ)[<<i, j>>] # <<>> /\ Look(readIJ)[<<j, i>>] # <<>>
        /\ Look(readJK)[<<j, k>>] # <<>> /\ Look(readJK)[<<k, j>>] # <<>>
        /\ Look(readIK)[ik] # <<>>
    BY <1>1, <1>2, <1>3, LookTyped
  <1>7. ij \in Types /\ jk \in Types
    BY <1>2, <1>6, BidirectionalTyped
  <1>8. old \in Types
    BY <1>2, <1>6, ListFacts DEF Typed, Directional
  <1> HIDE DEF ij, jk
  <1>9. revised \in Types
    BY <1>7, <1>8, TableTypes
  <1> HIDE DEF revised
  <1>10. ASSUME SameTypes(edge', edge)
         PROVE  Cardinality(Queued)' = Cardinality(Queued) /\ Cardinality(pending)' < Cardinality(pending)
    <2> DEFINE e == Look(readIK)
    <2>1. Typed(e) /\ ik \in Pair /\ e[ik] # <<>>
      BY <1>2, <1>6
    <2>2. edge' = Retype(e, ik, revised) /\ old = e[ik][1]
      BY <1>5 DEF Directional
    <2>3. \A q \in Pair : Look(readIK)[q] = e[q]
      OBVIOUS
    <2> HIDE DEF e, ik
    <2>4. \A q \in Pair : edge'[q] = <<>> <=> e[q] = <<>>
      BY <1>9, <2>1, <2>2, RetypeTyped
    <2>5. Created(readIK) = {} /\ \A q \in Pair : e[q] = edge[q]
      BY <1>1, <1>2, <1>10, <2>3, <2>4, SameCreatesNothing
    <2>6. e[ik] \in EdgeLists /\ edge'[ik] = [e[ik] EXCEPT ![1] = revised]
      BY <2>1, <2>2 DEF Typed, Retype
    <2>7. edge'[ik][1] = revised
      BY <1>9, <2>1, <2>6, RetypedList
    <2>8. edge'[ik][1] = edge[ik][1] /\ edge[ik] = e[ik]
      BY <1>10, <2>1, <2>5 DEF SameTypes
    <2>9. revised = old
      BY <2>2, <2>7, <2>8
    <2>10. updated' = updated
      BY <1>5, <2>5, <2>9
    <2>11. Cardinality(pending') < Cardinality(pending)
      BY <1>1, <1>5, OneLess DEF Finite
    <2>12. QED
      BY <1>1, <2>10, <2>11 DEF Queued
  <1>11. QED
    BY <1>10 DEF Less

LEMMA BeekManakReviseLess ==
  ASSUME TypeOK, Finite, NEW t \in Triangle, BeekManakRevise(t),
         running # "idle", running' = running
  PROVE  Less
  <1> DEFINE e == Look(Reads(t))
             st == <<t[1], t[3]>>
             so == <<t[1], t[2]>>
             ot == <<t[2], t[3]>>
             old == Bidirectional(e, st)
             typeSO == Bidirectional(e, so)
             typeOT == Bidirectional(e, ot)
             final == Intersection(old, Composition(typeSO, typeOT))
             more == IF final = old THEN {} ELSE {IF so = current THEN st ELSE Back(so)}
  <1>1. /\ t \in KnownTriangle /\ t \in pending /\ running = "beekManak"
        /\ GraphOK /\ Typed(edge)
    BY TypeOKGraph DEF TypeOK, BeekManakRevise, GraphOK
  <1>2. ~Finish(FALSE)
    BY DEF Finish
  <1>3. /\ final \in Types
        /\ edge' = Narrowed(t, final)
    BY BeekManakReviseIsNarrowed
  <1>4. IF final = "empty" THEN Finish(FALSE)
        ELSE Continue(current, pending \ {t}, queue \cup more)
    BY DEF BeekManakRevise, Reads
  <1>5. queue' = queue \cup more /\ pending' = pending \ {t}
    <2> HIDE DEF final, more
    <2>1. QED
      BY <1>2, <1>4 DEF Continue
  <1>6. /\ st \in Pair /\ Back(st) \in Pair /\ e[st] # <<>> /\ e[Back(st)] # <<>>
        /\ Reads(t) \in SUBSET Pair
    BY <1>1, ReadsFacts DEF Reads
  <1>7. /\ edge'[st][1] = final /\ edge'[Back(st)][1] = Symmetric(final)
        /\ \A q \in Pair : edge'[q] = <<>> <=> e[q] = <<>>
    <2> HIDE DEF final
    <2>1. QED
      BY <1>1, <1>3, NarrowedAt
  <1>8. old = Intersection(e[st][1], Symmetric(e[Back(st)][1]))
    BY DEF Bidirectional, Directional
  <1>9. more = IF final = old THEN {} ELSE {IF so = current THEN st ELSE Back(so)}
    OBVIOUS
  <1> HIDE DEF e, st, old, final, more
  <1>10. ASSUME SameTypes(edge', edge)
         PROVE  Cardinality(Queued)' = Cardinality(Queued) /\ Cardinality(pending)' < Cardinality(pending)
    <2>1. \A q \in Pair : e[q] = edge[q]
      BY <1>1, <1>6, <1>7, <1>10, SameCreatesNothing DEF e
    <2>2. edge[st][1] = final /\ edge[Back(st)][1] = Symmetric(final)
      BY <1>6, <1>7, <1>10, <2>1 DEF SameTypes
    <2>3. old = Intersection(final, Symmetric(Symmetric(final)))
      BY <1>6, <1>8, <2>1, <2>2
    <2>4. Intersection(final, Symmetric(Symmetric(final))) = final
      BY <1>3, SMT DEF Types, Symmetric, Intersection, IntersectionSwitch
    <2>5. queue' = queue
      BY <1>5, <1>9, <2>3, <2>4
    <2>6. Cardinality(pending') < Cardinality(pending)
      BY <1>1, <1>5, OneLess DEF Finite
    <2>7. QED
      BY <1>1, <2>5, <2>6 DEF Queued
  <1>11. QED
    BY <1>10 DEF Less

\* A step of a check that does not end it leaves less work, whatever the order
\* in which the pairs are taken from the queue: it narrows the graph, or takes
\* a pair from the queue, or a triangle from the popped pair's.
THEOREM ChecksReturn ==
  ASSUME IsFiniteSet(Point)
  PROVE  Spec => ChecksProgress
  <1>1. ASSUME TypeOK, [Next]_vars
        PROVE  [running # "idle" /\ running' = running => Lower(Work', Work)]_vars
    <2> SUFFICES ASSUME Next, running # "idle", running' = running
                 PROVE  Lower(Work', Work)
      BY <1>1
    <2>1. CheckStep
      <3>1. ~StartIncremental /\ ~StartBeekManak /\ ~CheckGecode
        BY DEF StartIncremental, StartBeekManak, CheckGecode
      <3>2. ASSUME NEW p \in Pair
            PROVE  /\ \A t \in InputTypes : ~AddConstraint(p, t)
                   /\ \A n \in 1..2 : ~RemoveConstraint(p, n)
                   /\ ~GreaterThan(p)
        BY DEF AddConstraint, RemoveConstraint, GreaterThan
      <3>3. QED
        BY <3>1, <3>2 DEF Next
    <2>2. Finite
      BY <1>1, FiniteWork
    <2>3. Less
      <3>1. ~IncrementalDone /\ ~BeekManakDone
        BY DEF IncrementalDone, BeekManakDone, Finish
      <3>2. ASSUME NEW p \in Pair, IncrementalPop(p) PROVE Less
        BY <1>1, <2>2, <3>2, IncrementalPopLess
      <3>3. ASSUME NEW p \in Pair, BeekManakPop(p) PROVE Less
        BY <2>2, <3>3, BeekManakPopLess
      <3>4. ASSUME NEW t \in Triangle, IncrementalRevise(t) PROVE Less
        BY <1>1, <2>2, <3>4, IncrementalReviseLess
      <3>5. ASSUME NEW t \in Triangle, BeekManakRevise(t) PROVE Less
        BY <1>1, <2>2, <3>5, BeekManakReviseLess
      <3>6. QED
        BY <2>1, <3>1, <3>2, <3>3, <3>4, <3>5 DEF CheckStep
    <2>4. Tightened(edge', edge) /\ Typed(edge)
      BY <1>1, <2>1, CheckStepTightens, TypeOKGraph DEF GraphOK
    <2>5. Freedom(edge') < Freedom(edge)
            \/ (Freedom(edge') = Freedom(edge) /\ SameTypes(edge', edge))
      BY <2>4, FreedomFalls
    <2> DEFINE F == Freedom(edge)
               G == Freedom(edge')
               Q == Cardinality(Queued)
               R == Cardinality(Queued)'
               P == Cardinality(pending)
               O == Cardinality(pending)'
    <2>6. Work = <<F, Q, P>> /\ Work' = <<G, R, O>>
      BY DEF Work
    <2>7. Lower(<<G, R, O>>, <<F, Q, P>>)
      <3>1. G < F \/ (G = F /\ (R < Q \/ (R = Q /\ O < P)))
        BY <2>3, <2>5 DEF Less
      <3> HIDE DEF F, G, Q, R, P, O
      <3>2. QED
        BY <3>1 DEF Lower
    <2>8. QED
      BY <2>6, <2>7
  <1>2. QED
    BY <1>1, TypeCorrect, PTL DEF Spec, ChecksProgress

(***************************************************************************)
(* The algorithm of van Beek and Manak.  First the algebra: the types that *)
(* something satisfies, their order, and the compositions of paths.        *)
(***************************************************************************)
Solid == Plain \ {"empty"}

\* An intersection is the weakest type that is tighter than both.
LEMMA MeetsTighter ==
  ASSUME NEW a \in Types, NEW b \in Types, NEW f \in Types,
         Tighter(f, a), Tighter(f, b)
  PROVE  Tighter(f, Intersection(a, b))
  BY TablesIntersect DEF IntersectionIsExact, Tighter

\* The order of the types is an order.
LEMMA TighterTransitive ==
  ASSUME NEW a, NEW b, NEW c, Tighter(a, b), Tighter(b, c)
  PROVE  Tighter(a, c)
  BY DEF Tighter

\* Nothing but Empty is tighter than Empty.
LEMMA SolidAbove ==
  ASSUME NEW a \in Solid, NEW b \in Plain, Tighter(a, b)
  PROVE  b \in Solid
  <1>1. Primitives("empty") = {}
    BY SMT DEF Primitives
  <1>2. Primitives(a) # {}
    BY <1>1, PrimitivesDistinguish DEF Solid, Plain, Types
  <1>3. QED
    BY <1>1, <1>2 DEF Tighter, Solid

\* A path of types that are not Empty is not Empty.
LEMMA SolidComposes ==
  ASSUME NEW a \in Solid, NEW b \in Solid
  PROVE  Composition(a, b) \in Solid
  BY SMT DEF Solid, Plain, Types, Composition, TypeAlgebra

\* A path over tighter types is tighter.
LEMMA CompositionMonotone ==
  ASSUME NEW a \in Solid, NEW b \in Solid, NEW c \in Solid, NEW d \in Solid,
         Tighter(a, c), Tighter(b, d)
  PROVE  Tighter(Composition(a, b), Composition(c, d))
  <1>1. /\ Primitives(Composition(a, b)) = Distributed(a, b)
        /\ Primitives(Composition(c, d)) = Distributed(c, d)
    BY TablesCompose DEF CompositionIsExact, Solid, Plain
  <1>2. Distributed(a, b) \subseteq Distributed(c, d)
    BY DEF Distributed, Tighter
  <1>3. QED
    BY <1>1, <1>2 DEF Tighter

\* A path over two vertices can be cut at either.
LEMMA CompositionAssociates ==
  ASSUME NEW a \in Solid, NEW b \in Solid, NEW c \in Solid
  PROVE  Composition(a, Composition(b, c)) = Composition(Composition(a, b), c)
  <1>1. Composition("empty", a) = a
    BY SMT DEF Composition, Solid
  <1>2. QED
    BY <1>1, ListsCompose DEF CompositionOfListAssociates, CompositionOf3, Solid, Plain

\* Of two types that can hold together one is the tighter, or they are <= and >=.
LEMMA MeetCases ==
  ASSUME NEW a \in Solid, NEW b \in Solid, Intersection(a, b) # "empty"
  PROVE  \/ Intersection(a, b) = a
         \/ Intersection(a, b) = b
         \/ /\ Intersection(a, b) = "="
            /\ (a = "<=" /\ b = ">=") \/ (a = ">=" /\ b = "<=")
  <1> USE DEF Solid, Plain, Types, Intersection, IntersectionSwitch
  <1>1. CASE a = "<"
    BY <1>1, SMT
  <1>2. CASE a = ">"
    BY <1>2, SMT
  <1>3. CASE a = "="
    BY <1>3, SMT
  <1>4. CASE a = "<="
    BY <1>4, SMT
  <1>5. CASE a = ">="
    BY <1>5, SMT
  <1>6. CASE a = "P"
    BY <1>6, SMT
  <1>7. QED
    BY <1>1, <1>2, <1>3, <1>4, <1>5, <1>6

\* The composition with = changes nothing.
LEMMA EqualNeutral ==
  ASSUME NEW a \in Solid
  PROVE  Composition("=", a) = a /\ Composition(a, "=") = a
  BY SMT DEF Solid, Plain, Types, Composition, TypeAlgebra

\* The composition with a type distributes over an intersection that is not
\* Empty: it would not over an Empty one.
LEMMA CompositionDistributes ==
  ASSUME NEW a \in Solid, NEW b \in Solid, NEW c \in Solid, NEW f \in Types,
         Intersection(a, b) # "empty",
         Tighter(f, Composition(a, c)), Tighter(f, Composition(b, c))
  PROVE  Tighter(f, Composition(Intersection(a, b), c))
  <1>1. CASE Intersection(a, b) \in {a, b}
    BY <1>1
  <1>2. CASE /\ Intersection(a, b) = "="
             /\ (a = "<=" /\ b = ">=") \/ (a = ">=" /\ b = "<=")
    <2>1. Composition("=", c) = c
      BY EqualNeutral
    <2>2. /\ Tighter(f, Composition("<=", c))
          /\ Tighter(f, Composition(">=", c))
      BY <1>2
    <2>3. \/ Composition("<=", c) = c
          \/ Composition(">=", c) = c
          \/ c = "=" /\ Composition("<=", c) = "<=" /\ Composition(">=", c) = ">="
      BY SMT DEF Solid, Plain, Types, Composition, TypeAlgebra
    <2>4. Intersection("<=", ">=") = "="
      BY SMT DEF Intersection, IntersectionSwitch
    <2>5. Tighter(f, c)
      BY <2>2, <2>3, <2>4, MeetsTighter DEF Types
    <2>6. QED
      BY <1>2, <2>1, <2>5
  <1>3. QED
    BY <1>1, <1>2, MeetCases

\* There and back is at least where one was.
LEMMA ThereAndBack ==
  ASSUME NEW a \in Solid, NEW b \in Solid
  PROVE  Tighter(a, Composition(Composition(a, b), Symmetric(b)))
  <1>1. Symmetric(b) \in Solid
    BY SMT DEF Solid, Plain, Types, Symmetric
  <1>2. Tighter("=", Composition(b, Symmetric(b)))
    <2>1. Composition(b, Symmetric(b)) \in {"=", "P"}
      <3>1. /\ Symmetric("<") = ">" /\ Symmetric(">") = "<" /\ Symmetric("=") = "="
            /\ Symmetric("<=") = ">=" /\ Symmetric(">=") = "<=" /\ Symmetric("P") = "P"
        BY SMT DEF Symmetric
      <3>2. /\ Composition("<", ">") = "P" /\ Composition(">", "<") = "P"
            /\ Composition("<=", ">=") = "P" /\ Composition(">=", "<=") = "P"
            /\ Composition("=", "=") = "=" /\ Composition("P", "P") = "P"
        BY SMT DEF Composition, TypeAlgebra
      <3>3. QED
        BY <3>1, <3>2 DEF Solid, Plain, Types
    <2>2. "=" \in Primitives("P") /\ Primitives("=") = {"="}
      BY SMT DEF Primitives
    <2>3. QED
      BY <2>1, <2>2 DEF Tighter
  <1>3. "=" \in Solid /\ Composition(b, Symmetric(b)) \in Solid
    BY <1>1, SolidComposes DEF Solid, Plain, Types
  <1>4. Tighter(Composition(a, "="), Composition(a, Composition(b, Symmetric(b))))
    BY <1>2, <1>3, CompositionMonotone DEF Tighter
  <1>5. QED
    BY <1>1, <1>4, EqualNeutral, CompositionAssociates

(***************************************************************************)
(* What the graph says, as a function of the pairs, and what narrowing one *)
(* pair by the path over a third vertex does to the other triangles.       *)
(***************************************************************************)
\* What a graph without an Empty pair says of its pairs, read from both ends.
Networks ==
  {R \in [Pair -> Solid] : \A p \in Pair : R[Back(p)] = Symmetric(R[p])}

\* F says no less than R of any pair.
Below(F, R) == \A p \in Pair : Tighter(F[p], R[p])

\* R's path over the second vertex of t allows all that F says of its ends.
Allows(R, F, t) ==
  Tighter(F[<<t[1], t[3]>>], Composition(R[<<t[1], t[2]>>], R[<<t[2], t[3]>>]))

\* A network at a pair of points.
LEMMA NetworkAt ==
  ASSUME NEW R \in Networks, NEW i \in Point, NEW j \in Point, i # j
  PROVE  /\ <<i, j>> \in Pair /\ R[<<i, j>>] \in Solid
         /\ R[<<j, i>>] = Symmetric(R[<<i, j>>])
  <1>1. <<i, j>> \in Pair /\ Back(<<i, j>>) = <<j, i>>
    BY DEF Pair, Back
  <1>2. QED
    BY <1>1 DEF Networks

\* A triangle and its reversal allow the same.
LEMMA AllowsReversed ==
  ASSUME NEW R \in Networks, NEW F \in Networks, NEW t \in Triangle, Allows(R, F, t)
  PROVE  Allows(R, F, Reversed(t))
  <1> DEFINE ij == R[<<t[1], t[2]>>]
             jk == R[<<t[2], t[3]>>]
             ik == F[<<t[1], t[3]>>]
             ji == R[<<t[2], t[1]>>]
             kj == R[<<t[3], t[2]>>]
             ki == F[<<t[3], t[1]>>]
  <1>1. /\ t[1] \in Point /\ t[2] \in Point /\ t[3] \in Point
        /\ t[1] # t[2] /\ t[2] # t[3] /\ t[1] # t[3]
    BY DEF Triangle
  <1>2. /\ ij \in Solid /\ jk \in Solid /\ ik \in Solid
        /\ ji = Symmetric(ij) /\ kj = Symmetric(jk) /\ ki = Symmetric(ik)
    BY <1>1, NetworkAt
  <1>3. Tighter(ik, Composition(ij, jk))
    BY DEF Allows
  <1>4. Allows(R, F, Reversed(t)) <=> Tighter(ki, Composition(kj, ji))
    BY DEF Allows, Reversed
  <1> HIDE DEF ij, jk, ik, ji, kj, ki
  <1>5. Composition(kj, ji) = Symmetric(Composition(ij, jk))
    BY <1>2, CompositionSymmetric DEF Solid
  <1>6. /\ Composition(ij, jk) \in Types /\ ik \in Types
        /\ Symmetric(Composition(ij, jk)) \in Types
        /\ Symmetric(Symmetric(Composition(ij, jk))) = Composition(ij, jk)
    BY <1>2, TablesPlain, TableTypes, SymmetricTwice DEF Plain, Solid
  <1>7. Tighter(Symmetric(ik), Symmetric(Composition(ij, jk)))
    BY <1>3, <1>6, SymmetricTighter
  <1>8. QED
    BY <1>2, <1>4, <1>5, <1>7

\* A path over two vertices.
LEMMA Chain ==
  ASSUME NEW a \in Solid, NEW b \in Solid, NEW c \in Solid, NEW f \in Solid, NEW g \in Solid,
         Tighter(f, Composition(a, g)), Tighter(g, Composition(b, c))
  PROVE  Tighter(f, Composition(Composition(a, b), c))
  <1>1. Composition(b, c) \in Solid
    BY SolidComposes
  <1>2. Tighter(a, a)
    BY DEF Tighter
  <1>3. Tighter(Composition(a, g), Composition(a, Composition(b, c)))
    BY <1>1, <1>2, CompositionMonotone
  <1>4. Composition(a, Composition(b, c)) = Composition(Composition(a, b), c)
    BY CompositionAssociates
  <1>5. QED
    BY <1>3, <1>4, TighterTransitive

\* A path over two vertices of F is one of a network that F is below.
LEMMA ChainBelow ==
  ASSUME NEW S \in Networks, NEW F \in Networks, Below(F, S),
         NEW w \in Point, NEW x \in Point, NEW y \in Point, NEW z \in Point,
         Allows(F, F, <<w, x, z>>), Allows(F, F, <<x, y, z>>),
         w # x /\ w # y /\ w # z /\ x # y /\ x # z /\ y # z
  PROVE  Tighter(F[<<w, z>>],
                 Composition(Composition(S[<<w, x>>], S[<<x, y>>]), S[<<y, z>>]))
  <1> DEFINE wz == F[<<w, z>>]
             xz == F[<<x, z>>]
             wx == F[<<w, x>>]
             xy == F[<<x, y>>]
             yz == F[<<y, z>>]
             a == S[<<w, x>>]
             b == S[<<x, y>>]
             c == S[<<y, z>>]
  <1>1. /\ wz \in Solid /\ xz \in Solid /\ wx \in Solid /\ xy \in Solid /\ yz \in Solid
        /\ a \in Solid /\ b \in Solid /\ c \in Solid
        /\ Tighter(wx, a) /\ Tighter(xy, b) /\ Tighter(yz, c)
    BY NetworkAt DEF Below
  <1>2. Tighter(wz, Composition(wx, xz)) /\ Tighter(xz, Composition(xy, yz))
    BY DEF Allows
  <1> HIDE DEF wz, xz, wx, xy, yz, a, b, c
  <1>3. Tighter(wz, Composition(Composition(wx, xy), yz))
    BY <1>1, <1>2, Chain
  <1>4. Tighter(Composition(wx, xy), Composition(a, b))
    BY <1>1, CompositionMonotone
  <1>5. Composition(wx, xy) \in Solid /\ Composition(a, b) \in Solid
    BY <1>1, SolidComposes
  <1>6. Tighter(Composition(Composition(wx, xy), yz), Composition(Composition(a, b), c))
    BY <1>1, <1>4, <1>5, CompositionMonotone
  <1>7. Tighter(wz, Composition(Composition(a, b), c))
    BY <1>3, <1>6, TighterTransitive
  <1>8. QED
    BY <1>7 DEF wz, a, b, c

\* S is R with the pair (k, j) narrowed by the path over i.
NarrowedBy(S, R, k, i, j) ==
  /\ S[<<k, j>>] = Intersection(R[<<k, j>>], Composition(R[<<k, i>>], R[<<i, j>>]))
  /\ \A p \in Pair \ Both(k, j) : S[p] = R[p]

\* A network narrowed at a pair, seen from the other end.
LEMMA NarrowedBack ==
  ASSUME NEW S \in Networks, NEW R \in Networks,
         NEW i \in Point, NEW j \in Point, NEW k \in Point, i # j, i # k, j # k,
         NarrowedBy(S, R, k, i, j)
  PROVE  /\ S[<<j, k>>] = Intersection(Composition(R[<<j, i>>], R[<<i, k>>]), R[<<j, k>>])
         /\ Below(S, R)
  <1> DEFINE kj == R[<<k, j>>]
             ki == R[<<k, i>>]
             ij == R[<<i, j>>]
  <1>1. /\ kj \in Solid /\ ki \in Solid /\ ij \in Solid
        /\ R[<<j, k>>] = Symmetric(kj) /\ R[<<i, k>>] = Symmetric(ki)
        /\ R[<<j, i>>] = Symmetric(ij)
        /\ S[<<j, k>>] = Symmetric(S[<<k, j>>])
        /\ S[<<j, k>>] \in Solid /\ S[<<k, j>>] \in Solid
    BY NetworkAt
  <1>2. S[<<k, j>>] = Intersection(kj, Composition(ki, ij))
    BY DEF NarrowedBy
  <1>3. \A p \in Pair \ Both(k, j) : S[p] = R[p]
    BY DEF NarrowedBy
  <1> HIDE DEF kj, ki, ij
  <1>4. Composition(ki, ij) \in Solid
    BY <1>1, SolidComposes
  <1>5. S[<<j, k>>] = Intersection(Symmetric(Composition(ki, ij)), Symmetric(kj))
    BY <1>1, <1>2, <1>4, ReadsAgree DEF SymmetricCommutesWithIntersection, Solid, Plain
  <1>6. Symmetric(Composition(ki, ij)) = Composition(Symmetric(ij), Symmetric(ki))
    BY <1>1, CompositionSymmetric DEF Solid
  <1>7. Tighter(S[<<k, j>>], kj)
    BY <1>1, <1>2, <1>4, IntersectionTighter DEF Solid, Plain
  <1>8. Tighter(S[<<j, k>>], Symmetric(kj))
    <2>1. Symmetric(kj) \in Types /\ Symmetric(Composition(ki, ij)) \in Types
      BY <1>1, <1>4, TableTypes DEF Solid, Plain
    <2>2. QED
      BY <1>5, <2>1, IntersectionTighter
  <1>9. Below(S, R)
    <2> SUFFICES ASSUME NEW p \in Pair PROVE Tighter(S[p], R[p])
      BY DEF Below
    <2>1. CASE p \in Both(k, j)
      BY <1>1, <1>7, <1>8, <2>1 DEF Both, kj
    <2>2. CASE p \notin Both(k, j)
      BY <1>3, <2>2 DEF Tighter
    <2>3. QED
      BY <2>1, <2>2
  <1>10. QED
    BY <1>1, <1>5, <1>6, <1>9

\* The legs of other pairs keep what they say.
LEMMA NarrowedElsewhere ==
  ASSUME NEW S, NEW R, NEW i, NEW j, NEW k, NarrowedBy(S, R, k, i, j),
         NEW x \in Point, NEW y \in Point, x # y, <<x, y>> \notin Both(k, j)
  PROVE  S[<<x, y>>] = R[<<x, y>>]
  <1>1. <<x, y>> \in Pair \ Both(k, j)
    BY DEF Pair
  <1>2. QED
    BY <1>1 DEF NarrowedBy

\* A path that leaves k over the narrowed pair (k, j) still allows what it
\* allowed, since F reaches l from k over i and j, too.
LEMMA LeavesOverNarrowed ==
  ASSUME NEW R \in Networks, NEW S \in Networks, NEW F \in Networks, Below(F, S),
         NEW i \in Point, NEW j \in Point, NEW k \in Point, i # j, i # k, j # k,
         NarrowedBy(S, R, k, i, j),
         NEW l \in Point, l # k, l # j,
         l = i \/ (Allows(F, F, <<k, i, l>>) /\ Allows(F, F, <<i, j, l>>)),
         Allows(R, F, <<k, j, l>>)
  PROVE  Allows(S, F, <<k, j, l>>)
  <1> DEFINE kj == R[<<k, j>>]
             ki == R[<<k, i>>]
             ij == R[<<i, j>>]
             jl == R[<<j, l>>]
             kl == F[<<k, l>>]
  <1>1. /\ kj \in Solid /\ ki \in Solid /\ ij \in Solid /\ jl \in Solid /\ kl \in Solid
        /\ S[<<k, j>>] \in Solid
    BY NetworkAt
  <1>2. /\ S[<<k, i>>] = ki /\ S[<<i, j>>] = ij /\ S[<<j, l>>] = jl /\ S[<<j, i>>] = R[<<j, i>>]
    BY NarrowedElsewhere DEF Both
  <1>3. S[<<k, j>>] = Intersection(kj, Composition(ki, ij))
    BY DEF NarrowedBy
  <1>4. Tighter(kl, Composition(Composition(ki, ij), jl))
    <2>1. CASE l = i
      <3>1. Tighter(kl, ki)
        <4>1. <<k, i>> \in Pair
          BY DEF Pair
        <4>2. QED
          BY <1>2, <2>1, <4>1 DEF Below
      <3>2. jl = Symmetric(ij)
        BY <2>1, NetworkAt
      <3>3. Tighter(ki, Composition(Composition(ki, ij), Symmetric(ij)))
        BY <1>1, ThereAndBack
      <3>4. QED
        BY <3>1, <3>2, <3>3, TighterTransitive
    <2>2. CASE l # i
      <3>1. Allows(F, F, <<k, i, l>>) /\ Allows(F, F, <<i, j, l>>)
        BY <2>2
      <3>2. Tighter(F[<<k, l>>],
                    Composition(Composition(S[<<k, i>>], S[<<i, j>>]), S[<<j, l>>]))
        BY <2>2, <3>1, ChainBelow
      <3>3. QED
        BY <1>2, <3>2
    <2>3. QED
      BY <2>1, <2>2
  <1>5. Tighter(kl, Composition(kj, jl))
    BY DEF Allows
  <1>6. Allows(S, F, <<k, j, l>>) <=> Tighter(kl, Composition(S[<<k, j>>], jl))
    BY <1>2 DEF Allows
  <1> HIDE DEF kj, ki, ij, jl, kl
  <1>7. Composition(ki, ij) \in Solid
    BY <1>1, SolidComposes
  <1>8. Intersection(kj, Composition(ki, ij)) # "empty"
    BY <1>1, <1>3 DEF Solid
  <1>9. kl \in Types
    BY <1>1 DEF Solid, Plain
  <1>10. Tighter(kl, Composition(Intersection(kj, Composition(ki, ij)), jl))
    BY <1>1, <1>4, <1>5, <1>7, <1>8, <1>9, CompositionDistributes
  <1>11. QED
    BY <1>3, <1>6, <1>10

\* And so does a path that leaves j over it: F reaches l from j over i and k.
LEMMA LeavesOverNarrowedBack ==
  ASSUME NEW R \in Networks, NEW S \in Networks, NEW F \in Networks, Below(F, S),
         NEW i \in Point, NEW j \in Point, NEW k \in Point, i # j, i # k, j # k,
         NarrowedBy(S, R, k, i, j),
         NEW l \in Point, l # i, l # k, l # j,
         Allows(F, F, <<j, i, l>>), Allows(F, F, <<i, k, l>>),
         Allows(R, F, <<j, k, l>>)
  PROVE  Allows(S, F, <<j, k, l>>)
  <1> DEFINE jk == R[<<j, k>>]
             ji == R[<<j, i>>]
             ik == R[<<i, k>>]
             kl == R[<<k, l>>]
             jl == F[<<j, l>>]
  <1>1. /\ jk \in Solid /\ ji \in Solid /\ ik \in Solid /\ kl \in Solid /\ jl \in Solid
        /\ S[<<j, k>>] \in Solid
    BY NetworkAt
  <1>2. S[<<j, i>>] = ji /\ S[<<i, k>>] = ik /\ S[<<k, l>>] = kl
    BY NarrowedElsewhere DEF Both
  <1>3. S[<<j, k>>] = Intersection(Composition(ji, ik), jk)
    BY NarrowedBack
  <1>4. Tighter(F[<<j, l>>],
                Composition(Composition(S[<<j, i>>], S[<<i, k>>]), S[<<k, l>>]))
    BY ChainBelow
  <1>5. Tighter(jl, Composition(Composition(ji, ik), kl))
    BY <1>2, <1>4
  <1>6. Tighter(jl, Composition(jk, kl))
    BY DEF Allows
  <1>7. Allows(S, F, <<j, k, l>>) <=> Tighter(jl, Composition(S[<<j, k>>], kl))
    BY <1>2 DEF Allows
  <1> HIDE DEF jk, ji, ik, kl, jl
  <1>8. Composition(ji, ik) \in Solid
    BY <1>1, SolidComposes
  <1>9. Intersection(Composition(ji, ik), jk) # "empty"
    BY <1>1, <1>3 DEF Solid
  <1>10. jl \in Types
    BY <1>1 DEF Solid, Plain
  <1>11. Tighter(jl, Composition(Intersection(Composition(ji, ik), jk), kl))
    BY <1>1, <1>5, <1>6, <1>8, <1>9, <1>10, CompositionDistributes
  <1>12. QED
    BY <1>3, <1>7, <1>11

\* What is left of a pair is what the path that narrowed it allows.
LEMMA NarrowedAllows ==
  ASSUME NEW R \in Networks, NEW S \in Networks,
         NEW i \in Point, NEW j \in Point, NEW k \in Point, i # j, i # k, j # k,
         NarrowedBy(S, R, k, i, j)
  PROVE  Allows(S, S, <<k, i, j>>)
  <1> DEFINE kj == R[<<k, j>>]
             ki == R[<<k, i>>]
             ij == R[<<i, j>>]
  <1>1. kj \in Solid /\ ki \in Solid /\ ij \in Solid
    BY NetworkAt
  <1>2. S[<<k, i>>] = ki /\ S[<<i, j>>] = ij
    BY NarrowedElsewhere DEF Both
  <1>3. S[<<k, j>>] = Intersection(kj, Composition(ki, ij))
    BY DEF NarrowedBy
  <1>4. Composition(ki, ij) \in Types /\ kj \in Types
    BY <1>1, SolidComposes DEF Solid, Plain
  <1>5. Tighter(Intersection(kj, Composition(ki, ij)), Composition(ki, ij))
    BY <1>4, IntersectionTighter
  <1>6. QED
    BY <1>2, <1>3, <1>5 DEF Allows

\* What a network says of a triangle, any network below it says, too.
LEMMA BelowAllows ==
  ASSUME NEW S \in Networks, NEW F \in Networks, Below(F, S), NEW t \in Triangle,
         Allows(S, S, t)
  PROVE  Allows(S, F, t)
  <1>1. Tighter(F[<<t[1], t[3]>>], S[<<t[1], t[3]>>])
    BY TrianglePairs DEF Below
  <1>2. QED
    BY <1>1, TighterTransitive DEF Allows

(***************************************************************************)
(* What a revision of pathConsistency_BeekManak does to what the graph says. *)
(***************************************************************************)
\* Narrowing a pair sets what its two directions say together, and what no
\* other pair says.
LEMMA NarrowSays ==
  ASSUME NEW e, Typed(e), PlainGraph(e), NEW p \in Pair, e[p] # <<>>, e[Back(p)] # <<>>,
         NEW u \in Plain
  PROVE  /\ Typed(Narrow(e, p, u)) /\ PlainGraph(Narrow(e, p, u))
         /\ \A q \in Pair : Narrow(e, p, u)[q] = <<>> <=> e[q] = <<>>
         /\ Between(Narrow(e, p, u), p) = u
         /\ \A q \in Pair \ {p, Back(p)} : Between(Narrow(e, p, u), q) = Between(e, q)
  <1> DEFINE f == Narrow(e, p, u)
  <1>1. u \in Types /\ Symmetric(u) \in Types /\ Symmetric(u) \in Plain
    BY TableTypes, TablesPlain DEF Plain
  <1>2. /\ Back(p) \in Pair /\ Back(p) # p /\ Back(Back(p)) = p
        /\ \A q \in Pair : Back(q) \in Pair /\ Back(Back(q)) = q
    BY PairFacts DEF Pair, Back
  <1>3. Typed(f) /\ \A q \in Pair : f[q] = <<>> <=> e[q] = <<>>
    BY <1>1, NarrowTyped
  <1>4. /\ e \in [Pair -> EdgeLists] /\ e[p] \in EdgeLists /\ e[Back(p)] \in EdgeLists
    BY <1>2 DEF Typed
  <1>5. /\ f[p] = [e[p] EXCEPT ![1] = u]
        /\ f[Back(p)] = [e[Back(p)] EXCEPT ![1] = Symmetric(u)]
        /\ \A q \in Pair \ {p, Back(p)} : f[q] = e[q]
    BY <1>2, <1>4 DEF Narrow
  <1>6. f[p][1] = u /\ f[Back(p)][1] = Symmetric(u)
    BY <1>1, <1>4, <1>5, RetypedList
  <1>7. f[p] # <<>> /\ f[Back(p)] # <<>>
    BY <1>2, <1>3
  <1> HIDE DEF f
  <1>8. /\ TypeAt(f, p) = u /\ TypeAt(f, Back(p)) = Symmetric(u)
        /\ \A q \in Pair \ {p, Back(p)} : TypeAt(f, q) = TypeAt(e, q)
    BY <1>5, <1>6, <1>7 DEF TypeAt
  <1>9. PlainGraph(f)
    BY <1>1, <1>8 DEF PlainGraph
  <1>10. Between(f, p) = u
    <2>1. Intersection(u, u) = u
      BY DEF Intersection
    <2>2. Symmetric(Symmetric(u)) = u
      BY <1>1, SymmetricTwice
    <2>3. QED
      BY <1>8, <2>1, <2>2 DEF Between
  <1>11. ASSUME NEW q \in Pair \ {p, Back(p)}
         PROVE  Between(f, q) = Between(e, q)
    <2>1. Back(q) \in Pair \ {p, Back(p)}
      BY <1>2
    <2>2. QED
      BY <1>8, <2>1 DEF Between
  <1>12. QED
    BY <1>3, <1>9, <1>10, <1>11 DEF f

\* Narrowing a pair to what it says changes nothing that is said.
LEMMA NarrowSaysNothing ==
  ASSUME NEW e, Typed(e), PlainGraph(e), NEW p \in Pair, e[p] # <<>>, e[Back(p)] # <<>>,
         NEW u, u = Between(e, p)
  PROVE  /\ Typed(Narrow(e, p, u)) /\ PlainGraph(Narrow(e, p, u))
         /\ \A q \in Pair : Narrow(e, p, u)[q] = <<>> <=> e[q] = <<>>
         /\ \A q \in Pair : Between(Narrow(e, p, u), q) = Between(e, q)
  <1> DEFINE f == Narrow(e, p, u)
  <1>1. u \in Plain /\ Between(e, Back(p)) = Symmetric(u)
    BY BetweenFacts
  <1>2. /\ Typed(f) /\ PlainGraph(f)
        /\ \A q \in Pair : f[q] = <<>> <=> e[q] = <<>>
        /\ Between(f, p) = u
        /\ \A q \in Pair \ {p, Back(p)} : Between(f, q) = Between(e, q)
    BY <1>1, NarrowSays
  <1> HIDE DEF f
  <1>3. Between(f, Back(p)) = Symmetric(u)
    BY <1>2, BetweenFacts
  <1>4. \A q \in Pair : Between(f, q) = Between(e, q)
    BY <1>1, <1>2, <1>3
  <1>5. QED
    BY <1>2, <1>4 DEF f

\* Reads keep the graph plain.
LEMMA LookPlain ==
  ASSUME Typed(edge), PlainGraph(edge), NEW ps \in SUBSET Pair
  PROVE  PlainGraph(Look(ps))
  BY LookBetween DEF PlainGraph

\* The graph getConstraintType leaves says what the graph before it said, but
\* for the pair (s, t).
LEMMA NarrowedSays ==
  ASSUME GraphOK, PlainGraph(edge), NEW t \in KnownTriangle, NEW u \in Plain
  PROVE  /\ PlainGraph(Narrowed(t, u))
         /\ Between(Narrowed(t, u), <<t[1], t[3]>>) = u
         /\ \A q \in Pair \ Both(t[1], t[3]) : Between(Narrowed(t, u), q) = Between(edge, q)
  <1> DEFINE so == <<t[1], t[2]>>
             ot == <<t[2], t[3]>>
             st == <<t[1], t[3]>>
             e0 == Look(Reads(t))
             typeSO == Bidirectional(e0, so)
             typeOT == Bidirectional(e0, ot)
             e1 == Narrow(e0, so, typeSO)
             e2 == Narrow(e1, ot, typeOT)
             e3 == Narrow(e2, st, u)
  <1>1. /\ so \in Pair /\ Back(so) \in Pair /\ ot \in Pair /\ Back(ot) \in Pair
        /\ st \in Pair /\ Back(st) \in Pair
        /\ e0[so] # <<>> /\ e0[Back(so)] # <<>> /\ e0[ot] # <<>> /\ e0[Back(ot)] # <<>>
        /\ e0[st] # <<>> /\ e0[Back(st)] # <<>> /\ Typed(e0)
    BY ReadsFacts
  <1>2. Reads(t) \in SUBSET Pair /\ so \in Reads(t) /\ Back(so) \in Reads(t)
        /\ ot \in Reads(t) /\ Back(ot) \in Reads(t)
    BY <1>1 DEF Reads
  <1>3. Typed(edge)
    BY DEF GraphOK
  <1>4. /\ PlainGraph(e0)
        /\ \A q \in Pair : Between(e0, q) = Between(edge, q)
        /\ typeSO = Between(edge, so) /\ typeOT = Between(edge, ot)
    BY <1>1, <1>2, <1>3, LookPlain, LookBetween, BidirectionalBetween
  <1>5. {st, Back(st)} = Both(t[1], t[3])
    BY DEF Both, Back
  <1>6. e3 = Narrowed(t, u)
    BY DEF Narrowed
  <1> HIDE DEF so, ot, st, e0, typeSO, typeOT
  <1>7. /\ Typed(e1) /\ PlainGraph(e1)
        /\ \A q \in Pair : e1[q] = <<>> <=> e0[q] = <<>>
        /\ \A q \in Pair : Between(e1, q) = Between(e0, q)
    BY <1>1, <1>4, NarrowSaysNothing
  <1> HIDE DEF e1
  <1>8. /\ Typed(e2) /\ PlainGraph(e2)
        /\ \A q \in Pair : e2[q] = <<>> <=> e1[q] = <<>>
        /\ \A q \in Pair : Between(e2, q) = Between(e1, q)
    <2>1. e1[ot] # <<>> /\ e1[Back(ot)] # <<>> /\ typeOT = Between(e1, ot)
      BY <1>1, <1>4, <1>7
    <2>2. QED
      BY <1>1, <1>7, <2>1, NarrowSaysNothing
  <1> HIDE DEF e2
  <1>9. /\ PlainGraph(e3) /\ Between(e3, st) = u
        /\ \A q \in Pair \ {st, Back(st)} : Between(e3, q) = Between(e2, q)
    <2>1. e2[st] # <<>> /\ e2[Back(st)] # <<>>
      BY <1>1, <1>7, <1>8
    <2>2. QED
      BY <1>1, <1>8, <2>1, NarrowSays
  <1> HIDE DEF e3
  <1>10. QED
    BY <1>4, <1>5, <1>6, <1>7, <1>8, <1>9 DEF st

(***************************************************************************)
(* The inductive invariant.  A revision weakens paths that other triangles *)
(* follow, and (k, j) is not queued when it is narrowed, so that which     *)
(* triangles follow now says little about the end.  The invariant speaks of *)
(* every graph F that the check may still end with, and says that all      *)
(* triangles follow in it.  It is kept because a revision only takes graphs *)
(* away: what F must satisfy after it F had to satisfy before it.          *)
(***************************************************************************)
\* What the graph says of every pair.
Says(e) == [p \in Pair |-> Between(e, p)]
Said == Says(edge)

\* The triangles that a popped pair stands for, and those that are revised
\* before the queue is empty.
Stands(t, p) == <<t[1], t[2]>> = p \/ <<t[2], t[3]>> = p
Awaited(t) == t \in pending \/ \E p \in queue : Stands(t, p)

\* F is a graph that the check may end with: below what is said now, and every
\* triangle that allows F now, or is awaited, follows in F.
Settles(F) ==
  /\ Below(F, Said)
  /\ \A t \in KnownTriangle : Allows(Said, F, t) \/ Awaited(t) => Allows(F, F, t)

\* Every triangle follows in a graph that the check may end with.
Settling ==
  \A F \in Networks : Settles(F) => \A t \in KnownTriangle : Allows(F, F, t)

\* The popped pair: its revised triangles still follow, after the revision of
\* the other one over the same vertex, too.
Popped ==
  /\ \A t \in pending : Stands(t, current)
  /\ \A t \in pending : <<t[1], t[2]>> = current => <<t[3], t[1], t[2]>> \in pending
  /\ Said \in Networks =>
       \A t \in KnownTriangle :
         Stands(t, current) /\ t \notin pending => Allows(Said, Said, t)

\* A pair is Empty only before it is narrowed for the first time.
Checked ==
  Cardinality(vertices) >= 3 =>
    \A p \in Known : \/ Between(edge, p) # "empty"
                     \/ \E t \in KnownTriangle : Awaited(t) /\ <<t[1], t[3]>> \in {p, Back(p)}

\* Between the checks no pair is popped and no triangle is left.
Resting == running = "idle" => pending = {} /\ current = <<>>
Working == running = "beekManak" => Settling /\ Popped /\ Checked

BeekManakInv == CarriedInv /\ PlainGraph(edge) /\ Resting /\ Working

\* What is said makes a network when no pair is Empty.
LEMMA SaysNetwork ==
  ASSUME NEW e, PlainGraph(e), \A p \in Pair : Between(e, p) # "empty"
  PROVE  Says(e) \in Networks
  <1>1. \A p \in Pair : Back(p) \in Pair
    BY PairFacts
  <1>2. QED
    BY <1>1, BetweenFacts DEF Says, Networks, Solid

\* A graph above a network has no Empty pair.
LEMMA SaysAbove ==
  ASSUME NEW e, PlainGraph(e), NEW F \in Networks, Below(F, Says(e))
  PROVE  Says(e) \in Networks
  <1>1. \A p \in Pair : F[p] \in Solid /\ Between(e, p) \in Plain /\ Tighter(F[p], Between(e, p))
    BY BetweenFacts DEF Networks, Below, Says
  <1>2. \A p \in Pair : Between(e, p) \in Solid
    BY <1>1, SolidAbove
  <1>3. QED
    BY <1>2, SaysNetwork DEF Solid

\* A revision that does not end the check: what it does to what is said, and
\* what it queues.
Revised(t) ==
  LET st == <<t[1], t[3]>>
      so == <<t[1], t[2]>>
      final == Intersection(Between(edge, st),
                            Composition(Between(edge, so), Between(edge, <<t[2], t[3]>>)))
  IN  /\ final # "empty"
      /\ Between(edge', st) = final
      /\ \A p \in Pair \ Both(t[1], t[3]) : Between(edge', p) = Between(edge, p)
      /\ pending' = pending \ {t}
      /\ queue' = queue \cup (IF final = Between(edge, st) THEN {}
                              ELSE {IF so = current THEN st ELSE Back(so)})
      /\ UNCHANGED <<vertices, running, current>>

\* Every revision does that, unless it ends the check.
LEMMA BeekManakReviseSays ==
  ASSUME CarriedInv, PlainGraph(edge), NEW t \in Triangle, BeekManakRevise(t)
  PROVE  /\ t \in KnownTriangle /\ t \in pending
         /\ <<t[1], t[2]>> = current \/ <<t[2], t[3], t[1]>> \notin pending
         /\ PlainGraph(edge')
         /\ Finish(FALSE) \/ Revised(t)
  <1> DEFINE e == Look(Reads(t))
             so == <<t[1], t[2]>>
             ot == <<t[2], t[3]>>
             st == <<t[1], t[3]>>
             old == Bidirectional(e, st)
             typeSO == Bidirectional(e, so)
             typeOT == Bidirectional(e, ot)
             final == Intersection(old, Composition(typeSO, typeOT))
             more == IF final = old THEN {} ELSE {IF so = current THEN st ELSE Back(so)}
  <1>1. /\ t \in KnownTriangle /\ t \in pending /\ GraphOK /\ Typed(edge)
        /\ so = current \/ <<t[2], t[3], t[1]>> \notin pending
    BY TypeOKGraph DEF TypeOK, BeekManakRevise, GraphOK, CarriedInv
  <1>2. edge' = Narrowed(t, final)
    BY BeekManakReviseIsNarrowed DEF CarriedInv
  <1>3. IF final = "empty" THEN Finish(FALSE)
        ELSE Continue(current, pending \ {t}, queue \cup more)
    BY DEF BeekManakRevise, Reads
  <1>4. /\ so \in Pair /\ ot \in Pair /\ st \in Pair /\ Reads(t) \in SUBSET Pair
        /\ so \in Reads(t) /\ Back(so) \in Reads(t) /\ ot \in Reads(t)
        /\ Back(ot) \in Reads(t) /\ st \in Reads(t) /\ Back(st) \in Reads(t)
    BY <1>1, ReadsFacts DEF Reads
  <1>5. /\ old = Between(edge, st) /\ typeSO = Between(edge, so) /\ typeOT = Between(edge, ot)
    BY <1>1, <1>4, BidirectionalBetween
  <1>6. final \in Plain
    <2>1. old \in Plain /\ typeSO \in Plain /\ typeOT \in Plain
      BY <1>4, <1>5, BetweenFacts
    <2> HIDE DEF old, typeSO, typeOT
    <2>2. QED
      BY <2>1, TablesPlain
  <1>7. more = IF final = old THEN {} ELSE {IF so = current THEN st ELSE Back(so)}
    OBVIOUS
  <1>8. final = Intersection(Between(edge, st), Composition(Between(edge, so), Between(edge, ot)))
    BY <1>5
  <1> HIDE DEF final, more, old, typeSO, typeOT, e
  <1>9. /\ PlainGraph(edge') /\ Between(edge', st) = final
        /\ \A q \in Pair \ Both(t[1], t[3]) : Between(edge', q) = Between(edge, q)
    BY <1>1, <1>2, <1>6, NarrowedSays
  <1>10. CASE final = "empty"
    BY <1>1, <1>3, <1>9, <1>10
  <1>11. CASE final # "empty"
    <2>1. Continue(current, pending \ {t}, queue \cup more)
      BY <1>3, <1>11
    <2>2. Revised(t)
      BY <1>5, <1>7, <1>8, <1>9, <1>11, <2>1 DEF Revised, Continue
    <2>3. QED
      BY <1>1, <1>9, <2>2
  <1>12. QED
    BY <1>10, <1>11

(***************************************************************************)
(* The steps keep the invariant.                                           *)
(***************************************************************************)
\* A revision is a narrowing of what is said by the path over its second
\* vertex, or leaves what is said alone.
LEMMA RevisedNarrows ==
  ASSUME PlainGraph(edge), PlainGraph(edge'), NEW t \in Triangle, Revised(t)
  PROVE  /\ NarrowedBy(Said', Said, t[1], t[2], t[3])
         /\ Said' = Said \/ (IF <<t[1], t[2]>> = current THEN <<t[1], t[3]>>
                             ELSE <<t[2], t[1]>>) \in queue'
         /\ Said' \in Networks => Said \in Networks /\ Below(Said', Said)
  <1> DEFINE st == <<t[1], t[3]>>
             old == Between(edge, st)
             path == Composition(Between(edge, <<t[1], t[2]>>), Between(edge, <<t[2], t[3]>>))
             new == Between(edge', st)
             f == edge'
  <1>1. /\ st \in Pair /\ Back(st) \in Pair /\ <<t[1], t[2]>> \in Pair /\ <<t[2], t[3]>> \in Pair
        /\ Both(t[1], t[3]) = {st, Back(st)} /\ Back(<<t[1], t[2]>>) = <<t[2], t[1]>>
    BY TrianglePairs, PairFacts DEF Both, Back
  <1>2. /\ new = Intersection(old, path)
        /\ \A p \in Pair \ {st, Back(st)} : Between(f, p) = Between(edge, p)
        /\ queue' = queue \cup (IF new = old THEN {}
                                ELSE {IF <<t[1], t[2]>> = current THEN st ELSE <<t[2], t[1]>>})
    BY <1>1 DEF Revised
  <1>3. /\ Said' = [p \in Pair |-> Between(f, p)]
        /\ Said = [p \in Pair |-> Between(edge, p)]
    BY DEF Said, Says
  <1>4. old \in Plain /\ path \in Plain /\ new \in Plain
    <2>1. old \in Plain /\ Between(edge, <<t[1], t[2]>>) \in Plain
          /\ Between(edge, <<t[2], t[3]>>) \in Plain
      BY <1>1, BetweenFacts
    <2>2. QED
      BY <1>2, <2>1, TablesPlain
  <1>5. Between(f, Back(st)) = Symmetric(new) /\ Between(edge, Back(st)) = Symmetric(old)
    BY <1>1, BetweenFacts
  <1>6. NarrowedBy(Said', Said, t[1], t[2], t[3])
    <2>1. Said'[st] = new /\ Said[st] = old
          /\ Composition(Said[<<t[1], t[2]>>], Said[<<t[2], t[3]>>]) = path
      BY <1>1, <1>3
    <2>2. \A p \in Pair \ {st, Back(st)} : Said'[p] = Said[p]
      BY <1>2, <1>3
    <2> HIDE DEF path, old, new
    <2>3. QED
      BY <1>1, <1>2, <2>1, <2>2 DEF NarrowedBy
  <1>7. ASSUME new = old
        PROVE  Said' = Said
    <2>1. \A p \in Pair : Between(f, p) = Between(edge, p)
      BY <1>2, <1>5, <1>7
    <2>2. QED
      BY <1>3, <2>1
  <1>8. ASSUME Said' \in Networks
        PROVE  Said \in Networks /\ Below(Said', Said)
    <2>1. Tighter(new, old)
      BY <1>2, <1>4, IntersectionTighter DEF Plain
    <2>2. Tighter(Symmetric(new), Symmetric(old))
      <3>1. new \in Types /\ Symmetric(old) \in Types /\ Symmetric(Symmetric(old)) = old
        BY <1>4, TableTypes, SymmetricTwice DEF Plain
      <3>2. QED
        BY <2>1, <3>1, SymmetricTighter
    <2>3. \A p \in Pair : Tighter(Between(f, p), Between(edge, p))
      <3>1. \A p \in Pair \ {st, Back(st)} : Tighter(Between(f, p), Between(edge, p))
        BY <1>2 DEF Tighter
      <3>2. QED
        BY <1>5, <2>1, <2>2, <3>1
    <2>4. Below(Said', Said)
      BY <1>3, <2>3 DEF Below
    <2>5. Said \in Networks
      BY <1>8, <2>4, SaysAbove DEF Said
    <2>6. QED
      BY <2>4, <2>5
  <1>9. Said' = Said \/ (IF <<t[1], t[2]>> = current THEN st ELSE <<t[2], t[1]>>) \in queue'
    BY <1>2, <1>7
  <1>10. QED
    BY <1>6, <1>8, <1>9

\* A triangle without the narrowed pair follows as before.
LEMMA Unaffected ==
  ASSUME NEW S, NEW R, NEW F, NEW i, NEW j, NEW k, NarrowedBy(S, R, k, i, j), NEW t \in Triangle,
         <<t[1], t[2]>> \notin Both(k, j), <<t[2], t[3]>> \notin Both(k, j)
  PROVE  /\ Allows(R, F, t) <=> Allows(S, F, t)
         /\ <<t[1], t[3]>> \notin Both(k, j) => (Allows(R, R, t) <=> Allows(S, S, t))
  <1>1. /\ <<t[1], t[2]>> \in Pair /\ <<t[2], t[3]>> \in Pair /\ <<t[1], t[3]>> \in Pair
    BY TrianglePairs
  <1>2. QED
    BY <1>1 DEF NarrowedBy, Allows

\* The three vertices of a triangle.
LEMMA TriangleParts ==
  ASSUME NEW t \in Triangle
  PROVE  \E x, y, z \in Point : t = <<x, y, z>> /\ x # y /\ x # z /\ y # z
  BY DEF Triangle

\* What was revised for the popped pair still follows.
LEMMA RevisePopped ==
  ASSUME PlainGraph(edge), PlainGraph(edge'), Popped, pending \subseteq KnownTriangle,
         NEW t \in KnownTriangle, t \in pending, <<t[1], t[2]>> = current \/ <<t[2], t[3], t[1]>> \notin pending,
         Revised(t)
  PROVE  Popped'
  <1>1. /\ pending' = pending \ {t} /\ current' = current /\ vertices' = vertices
        /\ KnownTriangle' = KnownTriangle
    BY DEF Revised, KnownTriangle
  <1>2. PICK k \in Point, i \in Point, j \in Point :
          t = <<k, i, j>> /\ k # i /\ k # j /\ i # j
    BY TriangleParts DEF KnownTriangle
  <1>3. t \in Triangle
    BY DEF KnownTriangle
  <1>4. /\ NarrowedBy(Said', Said, k, i, j)
        /\ Said' \in Networks => Said \in Networks /\ Below(Said', Said)
    BY <1>2, <1>3, RevisedNarrows
  <1>5. Stands(t, current)
    BY DEF Popped
  <1>6. ASSUME NEW u \in pending', <<u[1], u[2]>> = current
        PROVE  <<u[3], u[1], u[2]>> \in pending'
    <2>1. u \in pending /\ <<u[3], u[1], u[2]>> \in pending
      BY <1>1, <1>6 DEF Popped
    <2>2. ASSUME <<u[3], u[1], u[2]>> = t
          PROVE  FALSE
      <3>1. u[3] = k /\ u[1] = i /\ u[2] = j
        BY <1>2, <2>2
      <3>2. u = <<u[1], u[2], u[3]>>
        BY <2>1 DEF KnownTriangle, Triangle
      <3>3. QED
        BY <1>2, <1>6, <2>1, <3>1, <3>2
    <2>3. QED
      BY <1>1, <2>1, <2>2
  <1>7. ASSUME Said' \in Networks, NEW u \in KnownTriangle, Stands(u, current), u \notin pending'
        PROVE  Allows(Said', Said', u)
    <2>1. Said \in Networks /\ Below(Said', Said)
      BY <1>4, <1>7
    <2>2. CASE u = t
      BY <1>2, <1>4, <1>7, <2>1, <2>2, NarrowedAllows
    <2>3. CASE u # t
      <3>1. u \notin pending /\ Allows(Said, Said, u) /\ u \in Triangle
        BY <1>1, <1>7, <2>1, <2>3 DEF Popped, KnownTriangle
      <3>2. PICK x \in Point, y \in Point, z \in Point :
              u = <<x, y, z>> /\ x # y /\ x # z /\ y # z
        BY <3>1, TriangleParts
      <3>3. CASE <<x, y>> \notin Both(k, j) /\ <<y, z>> \notin Both(k, j) /\ <<x, z>> \notin Both(k, j)
        BY <1>4, <3>1, <3>2, <3>3, Unaffected
      <3>4. CASE <<k, i>> = current
        <4>1. <<j, k, i>> \in pending
          BY <1>2, <3>4 DEF Popped
        <4>2. (x = k /\ y = i) \/ (y = k /\ z = i)
          BY <1>7, <3>2, <3>4 DEF Stands
        <4>3. QED
          BY <1>2, <2>3, <3>1, <3>2, <3>3, <4>1, <4>2 DEF Both
      <3>5. CASE <<i, j>> = current
        <4>1. (x = i /\ y = j) \/ (y = i /\ z = j)
          BY <1>7, <3>2, <3>5 DEF Stands
        <4>2. u = <<i, j, k>> \/ (u # <<i, j, k>> /\ <<x, y>> \notin Both(k, j)
                 /\ <<y, z>> \notin Both(k, j) /\ <<x, z>> \notin Both(k, j))
          BY <1>2, <2>3, <3>2, <4>1 DEF Both
        <4>3. CASE u = <<i, j, k>>
          <5>1. <<k, j, i>> \in Triangle /\ Reversed(u) = <<k, j, i>>
                /\ Reversed(<<k, j, i>>) = u
            BY <1>2, <4>3 DEF Reversed, Triangle
          <5>2. Allows(Said, Said, <<k, j, i>>)
            BY <2>1, <3>1, <5>1, AllowsReversed
          <5>3. Allows(Said, Said', <<k, j, i>>)
            BY <2>1, <5>1, <5>2, <1>7, BelowAllows
          <5>4. Below(Said', Said')
            BY DEF Below, Tighter
          <5>5. Allows(Said', Said', <<k, j, i>>)
            BY <1>2, <1>4, <1>7, <2>1, <5>3, <5>4, LeavesOverNarrowed
          <5>6. QED
            BY <1>7, <5>1, <5>5, AllowsReversed
        <4>4. QED
          BY <3>3, <4>2, <4>3
      <3>6. QED
        BY <1>2, <1>5, <3>4, <3>5 DEF Stands
    <2>4. QED
      BY <2>2, <2>3
  <1>8. \A u \in pending' : Stands(u, current)
    BY <1>1 DEF Popped
  <1>9. QED
    BY <1>1, <1>6, <1>7, <1>8 DEF Popped, Stands

\* A revision keeps the promise: a graph that the check may end with after it
\* is one that the check could end with before it.
LEMMA ReviseSettles ==
  ASSUME PlainGraph(edge), PlainGraph(edge'), Settling, Popped, Popped',
         NEW t \in KnownTriangle, Stands(t, current), Revised(t)
  PROVE  Settling'
  <1>1. /\ pending' = pending \ {t} /\ current' = current /\ vertices' = vertices
        /\ KnownTriangle' = KnownTriangle /\ queue \subseteq queue'
    BY DEF Revised, KnownTriangle
  <1>2. PICK k \in Point, i \in Point, j \in Point :
          t = <<k, i, j>> /\ k # i /\ k # j /\ i # j
    BY TriangleParts DEF KnownTriangle
  <1>3. t \in Triangle /\ k \in vertices /\ i \in vertices /\ j \in vertices
    BY <1>2 DEF KnownTriangle
  <1> DEFINE R == Said
             S == Said'
             awaited(u) == u \in pending' \/ \E p \in queue' : Stands(u, p)
  <1>4. /\ NarrowedBy(S, R, k, i, j)
        /\ S = R \/ (IF <<k, i>> = current THEN <<k, j>> ELSE <<i, k>>) \in queue'
        /\ S \in Networks => R \in Networks /\ Below(S, R)
    BY <1>2, <1>3, RevisedNarrows
  <1>5. SUFFICES ASSUME NEW F \in Networks, Below(F, S),
                        \A u \in KnownTriangle : Allows(S, F, u) \/ awaited(u) => Allows(F, F, u)
                 PROVE  \A u \in KnownTriangle : Allows(F, F, u)
    BY <1>1 DEF Settling, Settles, Awaited, Stands
  <1>6. S \in Networks /\ R \in Networks /\ Below(S, R)
    <2>1. S = Says(edge')
      BY DEF Said
    <2>2. S \in Networks
      BY <1>5, <2>1, SaysAbove
    <2>3. QED
      BY <1>4, <2>2
  <1>7. Below(F, R)
    BY <1>5, <1>6, TighterTransitive DEF Below
  <1>8. KnownTriangle \subseteq Triangle
        /\ \A u \in KnownTriangle : Reversed(u) \in KnownTriangle /\ Reversed(Reversed(u)) = u
    BY DEF KnownTriangle, Triangle, Reversed
  <1>9. ASSUME NEW u \in KnownTriangle, Allows(F, F, Reversed(u))
        PROVE  Allows(F, F, u)
    BY <1>8, <1>9, AllowsReversed
  <1>10. ASSUME NEW u \in KnownTriangle, Stands(u, current)
         PROVE  Allows(F, F, u)
    <2>1. CASE u \in pending'
      BY <1>5, <2>1
    <2>2. CASE u \notin pending'
      <3>1. Allows(S, S, u)
        BY <1>1, <1>6, <1>10, <2>2 DEF Popped, Stands
      <3>2. Allows(S, F, u)
        BY <1>5, <1>6, <1>8, <3>1, BelowAllows
      <3>3. QED
        BY <1>5, <3>2
    <2>3. QED
      BY <2>1, <2>2
  <1>11. ASSUME NEW u \in KnownTriangle, Awaited(u)
         PROVE  Allows(F, F, u)
    <2>1. u = t \/ awaited(u)
      BY <1>1, <1>11 DEF Awaited
    <2>2. QED
      BY <1>5, <1>10, <2>1
  <1> DEFINE q == IF <<k, i>> = current THEN <<k, j>> ELSE <<i, k>>
  <1>12. ASSUME NEW u \in KnownTriangle, q \in queue', Stands(u, q) \/ Stands(Reversed(u), q)
         PROVE  Allows(F, F, u)
    <2>1. CASE Stands(u, q)
      BY <1>5, <1>12, <2>1
    <2>2. CASE Stands(Reversed(u), q)
      <3>1. awaited(Reversed(u))
        BY <1>12, <2>2
      <3>2. Allows(F, F, Reversed(u))
        BY <1>5, <1>8, <3>1
      <3>3. QED
        BY <1>9, <3>2
    <2>3. QED
      BY <1>12, <2>1, <2>2
  <1> HIDE DEF R, S, awaited, q
  <1>13. ASSUME NEW w \in KnownTriangle, <<w[1], w[2]>> \in Both(k, j), Allows(R, F, w),
                S # R
         PROVE  Allows(F, F, w)
    <2>1. PICK l \in Point : l \in vertices /\ l # k /\ l # j /\ w \in {<<k, j, l>>, <<j, k, l>>}
      BY <1>13 DEF KnownTriangle, Triangle, Both
    <2>2. q \in queue'
      BY <1>4, <1>13 DEF q
    <2>3. CASE <<k, i>> = current
      <3>1. q = <<k, j>>
        BY <2>3 DEF q
      <3>2. Stands(w, q) \/ Stands(Reversed(w), q)
        BY <2>1, <3>1 DEF Stands, Reversed
      <3>3. QED
        BY <1>12, <2>2, <3>2
    <2>4. CASE <<k, i>> # current
      <3>1. q = <<i, k>> /\ <<i, j>> = current
        BY <1>2, <2>4 DEF q, Stands
      <3>2. CASE w = <<k, j, l>>
        <4>1. l = i \/ (Allows(F, F, <<k, i, l>>) /\ Allows(F, F, <<i, j, l>>))
          <5> SUFFICES ASSUME l # i
                       PROVE  Allows(F, F, <<k, i, l>>) /\ Allows(F, F, <<i, j, l>>)
            OBVIOUS
          <5>1. <<k, i, l>> \in KnownTriangle /\ <<i, j, l>> \in KnownTriangle
            BY <1>2, <1>3, <2>1 DEF KnownTriangle, Triangle
          <5>2. Stands(Reversed(<<k, i, l>>), q) /\ Stands(<<i, j, l>>, current)
            BY <3>1 DEF Stands, Reversed
          <5>3. QED
            BY <1>10, <1>12, <2>2, <5>1, <5>2
        <4>2. Allows(S, F, <<k, j, l>>)
          BY <1>2, <1>4, <1>5, <1>6, <1>13, <2>1, <3>2, <4>1, LeavesOverNarrowed
        <4>3. QED
          BY <1>5, <3>2, <4>2
      <3>3. CASE w = <<j, k, l>> /\ l = i
        <4>1. Stands(Reversed(w), q)
          BY <3>1, <3>3 DEF Stands, Reversed
        <4>2. QED
          BY <1>12, <2>2, <4>1
      <3>4. CASE w = <<j, k, l>> /\ l # i
        <4>1. <<j, i, l>> \in KnownTriangle /\ <<l, i, j>> \in KnownTriangle
              /\ <<i, k, l>> \in KnownTriangle /\ Reversed(<<j, i, l>>) = <<l, i, j>>
          BY <1>2, <1>3, <2>1, <3>4 DEF KnownTriangle, Triangle, Reversed
        <4>2. Stands(<<l, i, j>>, current) /\ Stands(<<i, k, l>>, q)
          BY <3>1 DEF Stands
        <4>3. Allows(F, F, <<j, i, l>>)
          BY <1>9, <1>10, <4>1, <4>2
        <4>4. Allows(F, F, <<i, k, l>>)
          BY <1>12, <2>2, <4>1, <4>2
        <4>5. Allows(S, F, <<j, k, l>>)
          BY <1>2, <1>4, <1>5, <1>6, <1>13, <2>1, <3>4, <4>3, <4>4, LeavesOverNarrowedBack
        <4>6. QED
          BY <1>5, <3>4, <4>5
      <3>5. QED
        BY <2>1, <3>2, <3>3, <3>4
    <2>5. QED
      BY <2>3, <2>4
  <1>14. ASSUME NEW u \in KnownTriangle, Allows(R, F, u)
         PROVE  Allows(F, F, u)
    <2>1. u \in Triangle
      BY <1>8
    <2>2. CASE S = R
      BY <1>5, <1>14, <2>2
    <2>3. CASE <<u[1], u[2]>> \notin Both(k, j) /\ <<u[2], u[3]>> \notin Both(k, j)
      <3>1. Allows(S, F, u)
        BY <1>4, <1>14, <2>1, <2>3, Unaffected
      <3>2. QED
        BY <1>5, <3>1
    <2>4. CASE S # R /\ <<u[1], u[2]>> \in Both(k, j)
      BY <1>13, <1>14, <2>4
    <2>5. CASE S # R /\ <<u[2], u[3]>> \in Both(k, j)
      <3>1. Allows(R, F, Reversed(u))
        BY <1>6, <1>14, <2>1, AllowsReversed
      <3>2. <<Reversed(u)[1], Reversed(u)[2]>> \in Both(k, j)
        BY <2>5 DEF Reversed, Both
      <3>3. Allows(F, F, Reversed(u))
        BY <1>8, <1>13, <2>5, <3>1, <3>2
      <3>4. QED
        BY <1>9, <3>3
    <2>6. QED
      BY <2>2, <2>3, <2>4, <2>5
  <1>15. Settles(F)
    BY <1>7, <1>11, <1>14 DEF Settles, R
  <1>16. QED
    BY <1>15 DEF Settling

\* incrementalPathConsistency does not produce Distinct.
LEMMA IncrementalRevisePlain ==
  ASSUME TypeOK, PlainGraph(edge), NEW t \in Triangle, IncrementalRevise(t)
  PROVE  PlainGraph(edge')
  <1> DEFINE i == t[1]
             j == t[2]
             k == t[3]
             ik == <<i, k>>
             readIJ == Both(i, j)
             readJK == readIJ \cup Both(j, k)
             readIK == readJK \cup {ik}
             ij == Bidirectional(Look(readIJ), <<i, j>>)
             jk == Bidirectional(Look(readJK), <<j, k>>)
             old == Directional(Look(readIK), ik)
             revised == Intersection(old, Composition(ij, jk))
  <1>1. t \in KnownTriangle /\ Typed(edge)
    BY TypeOKGraph DEF TypeOK, IncrementalRevise, GraphOK
  <1>2. /\ readIJ \in SUBSET Pair /\ readJK \in SUBSET Pair /\ readIK \in SUBSET Pair
        /\ <<i, j>> \in Pair /\ <<j, k>> \in Pair /\ ik \in Pair
        /\ Back(<<i, j>>) = <<j, i>> /\ Back(<<j, k>>) = <<k, j>>
    BY <1>1, TriangleFacts DEF Both
  <1>3. /\ <<i, j>> \in readIJ /\ <<j, i>> \in readIJ
        /\ <<j, k>> \in readJK /\ <<k, j>> \in readJK /\ ik \in readIK
    BY DEF Both
  <1>4. \/ edge' \in {Look(readIJ), Look(readJK), Look(readIK)}
        \/ edge' = Retype(Look(readIK), ik, revised)
    BY DEF IncrementalRevise, Throw
  <1> HIDE DEF readIJ, readJK, readIK
  <1>5. PlainGraph(Look(readIJ)) /\ PlainGraph(Look(readJK)) /\ PlainGraph(Look(readIK))
    BY <1>1, <1>2, LookPlain
  <1>6. ij \in Plain /\ jk \in Plain
    BY <1>1, <1>2, <1>3, BidirectionalBetween, BetweenFacts
  <1>7. Typed(Look(readIK)) /\ Look(readIK)[ik] # <<>>
    BY <1>1, <1>2, <1>3, LookTyped
  <1>8. old = TypeAt(Look(readIK), ik)
    BY <1>7 DEF Directional, TypeAt
  <1>9. revised \in Plain
    <2>1. old \in Plain
      BY <1>2, <1>5, <1>8 DEF PlainGraph
    <2> HIDE DEF ij, jk, old
    <2>2. QED
      BY <1>6, <2>1, TablesPlain
  <1> HIDE DEF ij, jk, old, revised
  <1>10. PlainGraph(Retype(Look(readIK), ik, revised))
    <2> DEFINE e == Look(readIK)
               f == Retype(e, ik, revised)
    <2>1. revised \in Types
      BY <1>9 DEF Plain
    <2>2. e \in [Pair -> EdgeLists] /\ e[ik] \in EdgeLists /\ e[ik] # <<>>
      BY <1>2, <1>7 DEF Typed
    <2>3. f[ik] = [e[ik] EXCEPT ![1] = revised] /\ \A q \in Pair \ {ik} : f[q] = e[q]
      BY <1>2, <2>2 DEF Retype
    <2>4. f[ik][1] = revised /\ f[ik] # <<>>
      BY <2>1, <2>2, <2>3, RetypedList
    <2> HIDE DEF e, f
    <2>5. TypeAt(f, ik) = revised /\ \A q \in Pair \ {ik} : TypeAt(f, q) = TypeAt(e, q)
      BY <2>3, <2>4 DEF TypeAt
    <2>6. PlainGraph(f)
      BY <1>5, <1>9, <2>5 DEF PlainGraph, e
    <2>7. QED
      BY <2>6 DEF e, f
  <1>11. QED
    BY <1>4, <1>5, <1>10

\* PlainGraph is kept by every step, the removal of an edge included.
LEMMA NextPlain ==
  ASSUME CarriedInv, PlainGraph(edge), "!=" \notin InputTypes,
         "parallel" \notin Operations, [Next]_vars
  PROVE  PlainGraph(edge')
  <1>1. Typed(edge)
    BY DEF CarriedInv, Simple
  <1>2. ASSUME NEW p \in Pair, NEW t \in InputTypes, AddConstraint(p, t)
        PROVE  PlainGraph(edge')
    <2>1. edge[p] = <<>>
      BY <1>2 DEF AddConstraint
    <2>2. Compacted(edge[p]) = <<>>
      BY <2>1 DEF Compacted
    <2>3. WithEdge(Compacted(edge[p]), t) = {<<t>>}
      BY <2>2 DEF WithEdge
    <2>4. PICK r : r = <<t>>
      OBVIOUS
    <2>5. r # <<>> /\ r[1] = t
      BY <2>4
    <2>6. edge' = [edge EXCEPT ![p] = r]
      BY <1>2, <2>3, <2>4 DEF AddConstraint
    <2>7. t \in Plain
      BY InputTypesAssumption, <1>2 DEF Plain
    <2>8. TypeAt(edge', p) = t /\ \A q \in Pair \ {p} : TypeAt(edge', q) = TypeAt(edge, q)
      BY <1>1, <2>5, <2>6 DEF TypeAt, Typed
    <2>9. QED
      BY <2>7, <2>8 DEF PlainGraph
  <1>3. ASSUME NEW p \in Pair, NEW n \in 1..2, RemoveConstraint(p, n)
        PROVE  PlainGraph(edge')
    <2>1. edge[p] \in EdgeLists /\ Len(edge[p]) <= 1
      BY DEF CarriedInv, Simple, Typed
    <2>2. Len(edge[p]) = 1
      BY <1>3, <2>1, ListFacts DEF RemoveConstraint
    <2>3. edge' = [edge EXCEPT ![p] = <<>>]
      BY <1>3, <2>2 DEF RemoveConstraint, Without
    <2>4. TypeAt(edge', p) = "P" /\ \A q \in Pair \ {p} : TypeAt(edge', q) = TypeAt(edge, q)
      BY <1>1, <2>3 DEF TypeAt, Typed
    <2>5. QED
      BY <2>4 DEF PlainGraph, Plain, Types
  <1>4. ASSUME edge' = edge
        PROVE  PlainGraph(edge')
    BY <1>4
  <1>5. ASSUME NEW p \in Pair, GreaterThan(p)
        PROVE  PlainGraph(edge')
    BY <1>4, <1>5, GreaterThanSame DEF CarriedInv
  <1>6. ASSUME NEW p \in Pair, IncrementalPop(p)
        PROVE  PlainGraph(edge')
    <2>1. PICK ps \in SUBSET Pair : edge' = Look(ps)
      <3>1. PICK ps : ps = (IF Cardinality(vertices) = 2 THEN {p, Back(p)} ELSE {})
        OBVIOUS
      <3>2. edge' = Look(ps)
        BY <1>6, <3>1 DEF IncrementalPop
      <3>3. ps \in SUBSET Pair
        BY <3>1, PairFacts
      <3>4. QED
        BY <3>2, <3>3
    <2>2. QED
      BY <1>1, <2>1, LookPlain
  <1>7. ASSUME NEW t \in Triangle, IncrementalRevise(t)
        PROVE  PlainGraph(edge')
    BY <1>7, IncrementalRevisePlain DEF CarriedInv
  <1>8. ASSUME NEW t \in Triangle, BeekManakRevise(t)
        PROVE  PlainGraph(edge')
    BY <1>8, BeekManakReviseSays
  <1>9. CASE CheckGecode \/ StartIncremental \/ StartBeekManak \/ UNCHANGED vars
    BY <1>4, <1>9 DEF CheckGecode, StartIncremental, StartBeekManak, graph, vars
  <1>10. CASE IncrementalDone \/ BeekManakDone \/ \E p \in Pair : BeekManakPop(p)
    BY <1>4, <1>10 DEF IncrementalDone, BeekManakDone, BeekManakPop
  <1>11. QED
    BY <1>2, <1>3, <1>5, <1>6, <1>7, <1>8, <1>9, <1>10 DEF Next, CheckStep

\* A narrowed pair is not Empty, the others are what they were.
LEMMA ReviseChecked ==
  ASSUME PlainGraph(edge), PlainGraph(edge'), Checked, NEW t \in KnownTriangle, Revised(t)
  PROVE  Checked'
  <1> DEFINE st == <<t[1], t[3]>>
             f == edge'
  <1>1. /\ vertices' = vertices /\ KnownTriangle' = KnownTriangle /\ Known' = Known
        /\ pending' = pending \ {t} /\ queue \subseteq queue'
        /\ f = edge'
    BY DEF Revised, KnownTriangle, Known
  <1>2. /\ st \in Pair /\ Both(t[1], t[3]) = {st, Back(st)}
    BY TriangleFacts DEF Both, Back
  <1>3. /\ Between(f, st) # "empty"
        /\ \A p \in Pair \ {st, Back(st)} : Between(f, p) = Between(edge, p)
    BY <1>2 DEF Revised
  <1>4. Between(f, Back(st)) # "empty"
    BY <1>2, <1>3, BetweenFacts
  <1> HIDE DEF f
  <1>5. SUFFICES ASSUME Cardinality(vertices) >= 3, NEW p \in Known, Between(f, p) = "empty"
                 PROVE  \E u \in KnownTriangle :
                          /\ u \in pending' \/ \E q \in queue' : Stands(u, q)
                          /\ <<u[1], u[3]>> \in {p, Back(p)}
    BY <1>1 DEF Checked, Awaited, Stands, Back
  <1>6. p \notin {st, Back(st)} /\ p \in Pair
    BY <1>3, <1>4, <1>5, KnownFacts
  <1>7. Between(edge, p) = "empty"
    BY <1>3, <1>5, <1>6
  <1>8. PICK u \in KnownTriangle : Awaited(u) /\ <<u[1], u[3]>> \in {p, Back(p)}
    BY <1>5, <1>7 DEF Checked
  <1>9. u # t
    BY <1>6, <1>8, PairFacts DEF Back
  <1>10. QED
    BY <1>1, <1>8, <1>9 DEF Awaited

\* pathConsistency_BeekManak begins with every pair of vertices.
LEMMA StartSettles ==
  ASSUME BeekManakInv, StartBeekManak
  PROVE  (Settling /\ Popped /\ Checked)'
  <1>1. /\ pending = {} /\ current = <<>> /\ pending' = pending /\ current' = current
        /\ edge' = edge /\ vertices' = vertices
        /\ KnownTriangle' = KnownTriangle /\ Known' = Known /\ Said' = Said
        /\ \A p \in Known : (p \in queue') # (Back(p) \in queue')
    BY DEF BeekManakInv, Resting, StartBeekManak, graph, KnownTriangle, Known, Said
  <1>2. ASSUME NEW u \in KnownTriangle
        PROVE  /\ Reversed(u) \in KnownTriangle /\ u \in Triangle
               /\ Reversed(Reversed(u)) = u
               /\ \/ \E p \in queue' : Stands(u, p)
                  \/ \E p \in queue' : Stands(Reversed(u), p)
    <2>1. <<u[1], u[2]>> \in Known /\ Back(<<u[1], u[2]>>) = <<u[2], u[1]>>
      BY TriangleFacts
    <2>2. <<u[1], u[2]>> \in queue' \/ <<u[2], u[1]>> \in queue'
      BY <1>1, <2>1
    <2>3. Stands(u, <<u[1], u[2]>>) /\ Stands(Reversed(u), <<u[2], u[1]>>)
      BY DEF Stands, Reversed
    <2>4. Reversed(u) \in KnownTriangle /\ u \in Triangle /\ Reversed(Reversed(u)) = u
      BY DEF KnownTriangle, Triangle, Reversed
    <2>5. QED
      BY <2>2, <2>3, <2>4
  <1>3. Settling'
    <2> SUFFICES ASSUME NEW F \in Networks, NEW u \in KnownTriangle,
                        \A w \in KnownTriangle :
                          (\E p \in queue' : Stands(w, p)) => Allows(F, F, w)
                 PROVE  Allows(F, F, u)
      BY <1>1 DEF Settling, Settles, Awaited, Stands
    <2>1. Allows(F, F, u) \/ Allows(F, F, Reversed(u))
      BY <1>2
    <2>2. QED
      BY <1>2, <2>1, AllowsReversed
  <1>4. Popped'
    <2>1. \A u : ~Stands(u, <<>>)
      BY DEF Stands
    <2>2. QED
      BY <1>1, <2>1 DEF Popped, Stands
  <1>5. Checked'
    <2> SUFFICES ASSUME Cardinality(vertices) >= 3, NEW p \in Known
                 PROVE  \E u \in KnownTriangle :
                          /\ \E q \in queue' : Stands(u, q)
                          /\ <<u[1], u[3]>> \in {p, Back(p)}
      BY <1>1 DEF Checked, Awaited, Stands, Back
    <2>1. PICK k \in vertices : <<p[1], p[2], k>> \in KnownTriangle
      BY ThirdVertex DEF BeekManakInv, CarriedInv
    <2>2. <<p[1], k, p[2]>> \in KnownTriangle /\ p \in Pair
      BY <2>1 DEF KnownTriangle, Triangle, Known
    <2>3. p = <<p[1], p[2]>> /\ Back(p) = <<p[2], p[1]>>
      BY <2>2 DEF Pair, Back
    <2> DEFINE u == <<p[1], k, p[2]>>
    <2>4. <<u[1], u[3]>> = p /\ <<Reversed(u)[1], Reversed(u)[3]>> = Back(p)
      BY <2>3 DEF Reversed
    <2> HIDE DEF u
    <2>5. QED
      BY <1>2, <2>2, <2>4 DEF u
  <1>6. QED
    BY <1>3, <1>4, <1>5

\* The pop of a pair awaits the same triangles.
LEMMA BeekManakPopSettles ==
  ASSUME Settling, Checked, NEW p \in Pair, BeekManakPop(p)
  PROVE  (Settling /\ Popped /\ Checked)'
  <1>1. /\ pending = {} /\ p \in queue /\ current' = p /\ queue' = queue \ {p}
        /\ pending' = {t \in KnownTriangle : Stands(t, p)}
        /\ vertices' = vertices /\ edge' = edge
        /\ KnownTriangle' = KnownTriangle /\ Known' = Known /\ Said' = Said
    BY DEF BeekManakPop, Continue, KnownTriangle, Known, Said, Stands
  <1>2. \A u \in KnownTriangle :
          Awaited(u) <=> u \in pending' \/ \E q \in queue' : Stands(u, q)
    BY <1>1 DEF Awaited
  <1>3. Settling'
    BY <1>1, <1>2 DEF Settling, Settles, Awaited, Stands
  <1>4. Checked'
    BY <1>1, <1>2 DEF Checked, Awaited, Stands, Back
  <1>5. Popped'
    <2>1. ASSUME NEW u \in pending', <<u[1], u[2]>> = p
          PROVE  <<u[3], u[1], u[2]>> \in pending'
      BY <1>1, <2>1 DEF KnownTriangle, Triangle, Stands
    <2>2. QED
      BY <1>1, <2>1 DEF Popped, Stands
  <1>6. QED
    BY <1>3, <1>4, <1>5

\* The invariant is inductive.
LEMMA NextBeekManak ==
  ASSUME BeekManakInv, "!=" \notin InputTypes, "parallel" \notin Operations, [Next]_vars
  PROVE  /\ PlainGraph(edge)'
         /\ Resting'
         /\ Working'
  <1>1. PlainGraph(edge')
    BY NextPlain DEF BeekManakInv
  <1>2. PlainGraph(edge)'
    BY <1>1 DEF PlainGraph, TypeAt
  <1> SUFFICES Resting' /\ Working'
    BY <1>2
  <1>3. ASSUME NEW says, Finish(says)
        PROVE  Resting' /\ Working'
    BY <1>3 DEF Finish, Resting, Working
  <1>4. ASSUME running = "idle", running' = running, UNCHANGED <<pending, current>>
        PROVE  Resting' /\ Working'
    BY <1>4 DEF BeekManakInv, Resting, Working
  <1>5. ASSUME running = "incremental", running' = running
        PROVE  Resting' /\ Working'
    BY <1>5 DEF Resting, Working
  <1>6. CASE \/ \E p \in Pair, t \in InputTypes : AddConstraint(p, t)
             \/ \E p \in Pair, n \in 1..2 : RemoveConstraint(p, n)
             \/ \E p \in Pair : GreaterThan(p)
             \/ CheckGecode
    BY <1>4, <1>6 DEF AddConstraint, RemoveConstraint, GreaterThan, CheckGecode, search
  <1>7. CASE StartIncremental
    BY <1>7 DEF StartIncremental, Resting, Working
  <1>8. CASE StartBeekManak
    BY <1>8, StartSettles DEF StartBeekManak, Resting, Working
  <1>9. CASE \/ \E p \in Pair : IncrementalPop(p)
             \/ \E t \in Triangle : IncrementalRevise(t)
             \/ IncrementalDone \/ BeekManakDone
    <2>1. ASSUME NEW p \in Pair, IncrementalPop(p)
          PROVE  running = "incremental" /\ (Finish(FALSE) \/ running' = running)
      BY <2>1 DEF IncrementalPop, Continue
    <2>2. ASSUME NEW t \in Triangle, IncrementalRevise(t)
          PROVE  running = "incremental" /\ (Finish(FALSE) \/ running' = running)
      BY <2>2 DEF IncrementalRevise, Throw, Continue
    <2>3. IncrementalDone \/ BeekManakDone => Finish(TRUE)
      BY DEF IncrementalDone, BeekManakDone
    <2>4. QED
      BY <1>3, <1>5, <1>9, <2>1, <2>2, <2>3
  <1>10. ASSUME NEW p \in Pair, BeekManakPop(p)
         PROVE  Resting' /\ Working'
    <2>1. running = "beekManak" /\ running' = running
      BY <1>10 DEF BeekManakPop, Continue
    <2>2. (Settling /\ Popped /\ Checked)'
      BY <1>10, <2>1, BeekManakPopSettles DEF BeekManakInv, Working
    <2>3. QED
      BY <2>1, <2>2 DEF Resting, Working
  <1>11. ASSUME NEW t \in Triangle, BeekManakRevise(t)
         PROVE  Resting' /\ Working'
    <2>1. /\ running = "beekManak" /\ CarriedInv /\ PlainGraph(edge)
          /\ Settling /\ Popped /\ Checked /\ pending \subseteq KnownTriangle
      BY <1>11 DEF BeekManakRevise, BeekManakInv, Working, CarriedInv, TypeOK
    <2>2. /\ t \in KnownTriangle /\ t \in pending
          /\ <<t[1], t[2]>> = current \/ <<t[2], t[3], t[1]>> \notin pending
          /\ Finish(FALSE) \/ Revised(t)
      BY <1>11, <2>1, BeekManakReviseSays
    <2>3. CASE Finish(FALSE)
      BY <1>3, <2>3
    <2>4. CASE Revised(t)
      <3>1. Popped'
        BY <1>1, <2>1, <2>2, <2>4, RevisePopped
      <3>2. Stands(t, current)
        BY <2>1, <2>2 DEF Popped
      <3>3. Settling'
        BY <1>1, <2>1, <2>2, <2>4, <3>1, <3>2, ReviseSettles
      <3>4. Checked'
        BY <1>1, <2>1, <2>2, <2>4, ReviseChecked
      <3>5. running' = running
        BY <2>4 DEF Revised
      <3>6. QED
        BY <2>1, <3>1, <3>3, <3>4, <3>5 DEF Resting, Working
    <2>5. QED
      BY <2>2, <2>3, <2>4
  <1>12. CASE UNCHANGED vars
    <2>1. /\ edge' = edge /\ vertices' = vertices /\ running' = running /\ queue' = queue
          /\ pending' = pending /\ current' = current
      BY <1>12 DEF vars
    <2>2. KnownTriangle' = KnownTriangle /\ Known' = Known /\ Said' = Said
      BY <2>1 DEF KnownTriangle, Known, Said
    <2>3. /\ Settling => Settling'
          /\ Popped => Popped'
          /\ Checked => Checked'
      BY <2>1, <2>2 DEF Settling, Settles, Awaited, Stands, Popped, Checked, Back
    <2>4. QED
      BY <2>1, <2>3 DEF BeekManakInv, Resting, Working
  <1>13. QED
    BY <1>6, <1>7, <1>8, <1>9, <1>10, <1>11, <1>12 DEF Next, CheckStep

\* It holds of an empty graph.
LEMMA InitBeekManak ==
  ASSUME Init
  PROVE  /\ PlainGraph(edge)
         /\ Resting
         /\ Working
  BY DEF Init, PlainGraph, TypeAt, Plain, Types, Resting, Working

\* So it always holds.
LEMMA AlwaysBeekManak ==
  ASSUME "!=" \notin InputTypes, "parallel" \notin Operations
  PROVE  Spec => []BeekManakInv
  <1> DEFINE inv == PlainGraph(edge) /\ Resting /\ Working
  <1>1. Init => inv
    BY InitBeekManak
  <1>2. CarriedInv /\ inv /\ [Next]_vars => inv'
    BY NextBeekManak DEF BeekManakInv
  <1>3. BeekManakInv <=> CarriedInv /\ inv
    BY DEF BeekManakInv
  <1>4. Spec => []CarriedInv
    BY AlwaysCarries
  <1> HIDE DEF inv
  <1>5. QED
    BY <1>1, <1>2, <1>3, <1>4, PTL DEF Spec

\* When nothing is queued and nothing is pending, what is said is a graph that
\* the check may end with: the one it does.
LEMMA SettledSolves ==
  ASSUME BeekManakInv, EnoughInstants, running = "beekManak", queue = {}, pending = {},
         Cardinality(vertices) >= 3
  PROVE  Solvable
  <1>1. TypeOK /\ Simple(edge) /\ PlainGraph(edge) /\ CarriedInv /\ Settling /\ Checked
    BY DEF BeekManakInv, Working, CarriedInv
  <1>2. \A u : ~Awaited(u)
    BY DEF Awaited
  <1>3. \A p \in Pair : Between(edge, p) # "empty"
    <2> SUFFICES ASSUME NEW p \in Pair PROVE Between(edge, p) # "empty"
      OBVIOUS
    <2>1. CASE p \in Known
      BY <1>1, <1>2, <2>1 DEF Checked
    <2>2. CASE p \notin Known
      <3>1. Back(p) \in Pair /\ Back(p) \notin Known
        BY <2>2, PairFacts, KnownFacts
      <3>2. edge[p] = <<>> /\ edge[Back(p)] = <<>>
        BY <1>1, <2>2, <3>1 DEF TypeOK
      <3>3. Intersection("P", Symmetric("P")) = "P"
        BY SMT DEF Symmetric, Intersection
      <3>4. QED
        BY <3>2, <3>3 DEF Between, TypeAt
    <2>3. QED
      BY <2>1, <2>2
  <1>4. Said \in Networks
    BY <1>1, <1>3, SaysNetwork DEF Said
  <1>5. Settles(Said)
    BY <1>2 DEF Settles, Below, Tighter
  <1>6. \A t \in KnownTriangle : Allows(Said, Said, t)
    BY <1>1, <1>4, <1>5 DEF Settling
  <1>7. ASSUME NEW t \in Triangle
        PROVE  Follows(edge, t)
    <2>1. CASE t \in KnownTriangle
      BY <1>6, <2>1, TrianglePairs DEF Allows, Said, Says, Follows
    <2>2. CASE t \notin KnownTriangle
      BY <1>1, <2>2, UnknownFollows
    <2>3. QED
      BY <2>1, <2>2
  <1>8. PICK v \in [vertices -> 0..(Cardinality(vertices) - 1)] : SatisfiesGraph(v, edge)
    BY <1>1, <1>3, <1>7, ClosedHasOrder
  <1>9. QED
    BY <1>1, <1>8, GecodeAccepts DEF GecodeConsistent

\* True from the algorithm of van Beek and Manak means that the constraints
\* have a solution, on any three time points and more, in whatever order the
\* pairs and the vertices are visited and whatever checks and removals came
\* before, although (k, j) is narrowed after (i, k) and it is (i, k) that is
\* queued for both: nothing a later revision needs is lost with (k, j).
THEOREM BeekManakDecides ==
  ASSUME "!=" \notin InputTypes, "parallel" \notin Operations, EnoughInstants
  PROVE  Spec => []BeekManakDecidesTriangles
  <1>1. Init => BeekManakDecidesTriangles
    BY DEF Init, NoAnswer, BeekManakDecidesTriangles
  <1>2. BeekManakInv /\ BeekManakDecidesTriangles /\ [Next]_vars
          => BeekManakDecidesTriangles'
    <2> SUFFICES ASSUME BeekManakInv, BeekManakDecidesTriangles, [Next]_vars
                 PROVE  BeekManakDecidesTriangles'
      OBVIOUS
    <2>1. asserted' = asserted => (Solvable <=> Solvable')
      BY DEF Solvable, SatisfiesClient
    <2>2. ASSUME answer' = answer, asserted' = asserted, vertices' = vertices
          PROVE  BeekManakDecidesTriangles'
      BY <2>1, <2>2 DEF BeekManakDecidesTriangles
    <2>3. ASSUME answer'.by # "beekManak" \/ ~answer'.says
          PROVE  BeekManakDecidesTriangles'
      BY <2>3 DEF BeekManakDecidesTriangles
    <2>4. CASE BeekManakDone
      <3>1. /\ running = "beekManak" /\ queue = {} /\ pending = {}
            /\ asserted' = asserted /\ vertices' = vertices
        BY <2>4 DEF BeekManakDone, Finish
      <3>2. Cardinality(vertices) >= 3 => Solvable
        BY <3>1, SettledSolves
      <3>3. QED
        BY <2>1, <3>1, <3>2 DEF BeekManakDecidesTriangles
    <2>5. CASE \/ \E p \in Pair, t \in InputTypes : AddConstraint(p, t)
               \/ \E p \in Pair, n \in 1..2 : RemoveConstraint(p, n)
      BY <2>3, <2>5 DEF AddConstraint, RemoveConstraint, NoAnswer
    <2>6. CASE CheckGecode \/ \E p \in Pair : GreaterThan(p)
      <3>1. ASSUME NEW p \in Pair, GreaterThan(p) PROVE answer'.by = "greaterThan"
        BY <3>1 DEF GreaterThan, Answers
      <3>2. CheckGecode => answer'.by = "gecode"
        BY DEF CheckGecode, Answers
      <3>3. QED
        BY <2>3, <2>6, <3>1, <3>2
    <2>7. CASE StartIncremental \/ StartBeekManak \/ UNCHANGED vars
      BY <2>2, <2>7 DEF StartIncremental, StartBeekManak, graph, client, vars
    <2>8. CASE CheckStep
      <3>1. TypeOK
        BY DEF BeekManakInv, CarriedInv
      <3>2. /\ asserted' = asserted
            /\ answer' = answer \/ ~answer'.says \/ IncrementalDone \/ BeekManakDone
        BY <2>8, <3>1, CheckStepTightens
      <3>3. vertices' = vertices
        <4>1. ASSUME NEW t \in Triangle, IncrementalRevise(t) PROVE vertices' = vertices
          BY <4>1 DEF IncrementalRevise, Throw, Continue, Finish
        <4>2. ASSUME NEW t \in Triangle, BeekManakRevise(t) PROVE vertices' = vertices
          BY <4>2 DEF BeekManakRevise, Continue, Finish
        <4>3. ASSUME NEW p \in Pair, IncrementalPop(p) \/ BeekManakPop(p)
              PROVE  vertices' = vertices
          BY <4>3 DEF IncrementalPop, BeekManakPop, Continue, Finish
        <4>4. QED
          BY <2>8, <4>1, <4>2, <4>3 DEF CheckStep, IncrementalDone, BeekManakDone, Finish
      <3>4. CASE IncrementalDone
        BY <2>3, <3>4 DEF IncrementalDone, Finish, Answers
      <3>5. QED
        BY <2>2, <2>3, <2>4, <3>2, <3>3, <3>4
    <2>9. QED
      BY <2>4, <2>5, <2>6, <2>7, <2>8 DEF Next
  <1>3. QED
    BY <1>1, <1>2, AlwaysBeekManak, PTL DEF Spec
=============================================================================
