------------------------- MODULE MissionFilesProofs -------------------------
(***************************************************************************)
(* Theorems about MissionFiles.                                            *)
(***************************************************************************)
EXTENDS MissionFiles, FiniteSetTheorems, SequenceTheorems, WellFoundedInduction, TLAPS

(***************************************************************************)
(* Numbers and sequences.                                                  *)
(***************************************************************************)

NatOrder == OpToRel(<, Nat)

LEMMA LeastNatural ==
  ASSUME NEW T, T \subseteq Nat, T # {}
  PROVE  \E m \in T : \A y \in T : m <= y
  <1>1. \A x, y \in Nat : x < y => <<x, y>> \in NatOrder
    BY DEF NatOrder, OpToRel
  <1>2. IsWellFoundedOn(NatOrder, Nat)
    BY NatLessThanWellFounded, Zenon DEF NatOrder
  <1>3. PICK m \in T : \A y \in T : ~ (<<y, m>> \in NatOrder)
    BY <1>2, WFMin, Zenon
  <1>4. ASSUME NEW y \in T PROVE m <= y
    <2>1. y \in Nat /\ m \in Nat
      OBVIOUS
    <2>2. ~ (y < m)
      BY <1>1, <1>3, <2>1
    <2> QED
      BY <2>1, <2>2
  <1> QED
    BY <1>4

\* A number in six digits is one already.
LEMMA SixDigitsFacts ==
  ASSUME NEW x \in Nat
  PROVE  /\ SixDigits(x) \in Nat
         /\ SixDigits(SixDigits(x)) = SixDigits(x)
         /\ \A y \in Nat : x <= y /\ y <= Inf => SixDigits(x) <= SixDigits(y)
         /\ x <= Inf => SixDigits(x) <= Inf
  BY InfAssumption DEF SixDigits

LEMMA ConcatHas ==
  ASSUME NEW V, NEW s \in Seq(V), NEW t \in Seq(V)
  PROVE  /\ s \o t \in Seq(V)
         /\ ToSet(s \o t) = ToSet(s) \cup ToSet(t)
         /\ IsInjective(s) /\ IsInjective(t) /\ ToSet(s) \cap ToSet(t) = {} => IsInjective(s \o t)
  <1>1. /\ s \o t \in Seq(V) /\ Len(s \o t) = Len(s) + Len(t)
        /\ Len(s) \in Nat /\ Len(t) \in Nat
        /\ DOMAIN s = 1..Len(s) /\ DOMAIN t = 1..Len(t) /\ DOMAIN (s \o t) = 1..(Len(s) + Len(t))
        /\ \A i \in 1 .. Len(s) + Len(t) : (s \o t)[i] = IF i <= Len(s) THEN s[i] ELSE t[i - Len(s)]
    BY ConcatProperties, LenProperties
  <1>2. PICK u : u = s \o t
    OBVIOUS
  <1>3. ToSet(u) = ToSet(s) \cup ToSet(t)
    <2>1. ASSUME NEW i \in DOMAIN s PROVE s[i] \in ToSet(u)
      BY <1>1, <1>2 DEF ToSet
    <2>2. ASSUME NEW i \in DOMAIN t PROVE t[i] \in ToSet(u)
      <3>1. i + Len(s) \in 1 .. Len(s) + Len(t) /\ ~ (i + Len(s) <= Len(s)) /\ i + Len(s) - Len(s) = i
        BY <1>1
      <3>2. u[i + Len(s)] = t[i]
        BY <1>1, <1>2, <3>1
      <3> QED
        BY <1>1, <1>2, <3>1, <3>2 DEF ToSet
    <2>3. ASSUME NEW i \in DOMAIN u PROVE u[i] \in ToSet(s) \cup ToSet(t)
      BY <1>1, <1>2 DEF ToSet
    <2> QED
      BY <2>1, <2>2, <2>3 DEF ToSet
  <1>4. ASSUME IsInjective(s), IsInjective(t), ToSet(s) \cap ToSet(t) = {} PROVE IsInjective(u)
    <2> SUFFICES ASSUME NEW i \in DOMAIN u, NEW j \in DOMAIN u, u[i] = u[j] PROVE i = j
      BY DEF IsInjective
    <2>1. i \in Int /\ j \in Int
      BY <1>1, <1>2
    <2>2. CASE i <= Len(s)
      <3>1. i \in DOMAIN s /\ u[i] = s[i] /\ u[i] \in ToSet(s)
        BY <1>1, <1>2, <2>2 DEF ToSet
      <3>2. CASE j <= Len(s)
        BY <1>1, <1>2, <1>4, <3>1, <3>2 DEF IsInjective
      <3>3. CASE ~ (j <= Len(s))
        <4>1. u[j] \in ToSet(t)
          BY <1>1, <1>2, <3>3 DEF ToSet
        <4> QED
          BY <1>4, <3>1, <4>1
      <3> QED
        BY <3>2, <3>3
    <2>3. CASE ~ (i <= Len(s))
      <3>1. i - Len(s) \in DOMAIN t /\ u[i] = t[i - Len(s)] /\ u[i] \in ToSet(t)
        BY <1>1, <1>2, <2>3 DEF ToSet
      <3>2. CASE j <= Len(s)
        <4>1. u[j] \in ToSet(s)
          BY <1>1, <1>2, <3>2 DEF ToSet
        <4> QED
          BY <1>4, <3>1, <4>1
      <3>3. CASE ~ (j <= Len(s))
        <4>1. j - Len(s) \in DOMAIN t /\ u[j] = t[j - Len(s)]
          BY <1>1, <1>2, <3>3
        <4>2. i - Len(s) = j - Len(s)
          BY <1>4, <3>1, <4>1 DEF IsInjective
        <4> QED
          BY <1>1, <2>1, <4>2
      <3> QED
        BY <3>2, <3>3
    <2> QED
      BY <2>2, <2>3
  <1> QED
    BY <1>1, <1>2, <1>3, <1>4

LEMMA ConcatIs ==
  ASSUME NEW V, NEW s \in Seq(V), NEW t \in Seq(V), NEW u, u = s \o t
  PROVE  /\ Len(u) = Len(s) + Len(t) /\ Len(u) \in Nat /\ DOMAIN u = 1..Len(u)
         /\ \A i \in 1..Len(s) : u[i] = s[i]
         /\ \A i \in 1..Len(t) : u[Len(s) + i] = t[i]
  <1>1. /\ u \in Seq(V) /\ Len(u) = Len(s) + Len(t)
        /\ Len(s) \in Nat /\ Len(t) \in Nat
        /\ \A i \in 1 .. Len(s) + Len(t) : u[i] = IF i <= Len(s) THEN s[i] ELSE t[i - Len(s)]
    BY ConcatProperties, LenProperties
  <1>3. Len(u) \in Nat /\ DOMAIN u = 1..Len(u)
    BY <1>1, LenProperties
  <1>4. ASSUME NEW i \in 1..Len(t) PROVE u[Len(s) + i] = t[i]
    <2>1. Len(s) + i \in 1 .. Len(s) + Len(t) /\ ~ (Len(s) + i <= Len(s)) /\ Len(s) + i - Len(s) = i
      BY <1>1
    <2> QED
      BY <1>1, <2>1
  <1> QED
    BY <1>1, <1>3, <1>4

\* The recursion of FlattenSeq has a solution: it goes back to the first sequence.
Flat(ss, n, g) == g = [i \in 1..n |-> IF i = 1 THEN ss[i] ELSE g[i - 1] \o ss[i]]

LEMMA FlatExists ==
  ASSUME NEW ss, NEW n \in Nat
  PROVE  \E g : Flat(ss, n, g)
  <1> DEFINE T == {k \in Nat : ~ \E g : Flat(ss, k, g)}
  <1>1. SUFFICES ASSUME T # {} PROVE FALSE
    OBVIOUS
  <1>2. PICK k \in T : \A j \in T : k <= j
    BY <1>1, LeastNatural
  <1>3. k \in Nat /\ ~ \E g : Flat(ss, k, g)
    BY <1>2
  <1> HIDE DEF T
  <1>4. CASE k = 0
    <2>1. Flat(ss, 0, [i \in 1..0 |-> 0])
      BY DEF Flat
    <2> QED
      BY <1>3, <1>4, <2>1
  <1>5. CASE k > 0
    <2>1. k - 1 \in Nat /\ k - 1 \notin T
      BY <1>2, <1>3, <1>5
    <2>2. PICK h : Flat(ss, k - 1, h)
      BY <2>1 DEF T
    <2> DEFINE g == [i \in 1..k |-> IF i = k THEN (IF k = 1 THEN ss[k] ELSE h[k - 1] \o ss[k]) ELSE h[i]]
    <2>3. ASSUME NEW i \in 1..k PROVE g[i] = IF i = 1 THEN ss[i] ELSE g[i - 1] \o ss[i]
      <3>1. CASE i = k
        BY <1>3, <3>1
      <3>2. CASE i # k
        <4>1. i \in 1..(k - 1) /\ g[i] = h[i] /\ (i # 1 => g[i - 1] = h[i - 1])
          BY <1>3, <3>2
        <4>2. h[i] = IF i = 1 THEN ss[i] ELSE h[i - 1] \o ss[i]
          BY <2>2, <4>1 DEF Flat
        <4> QED
          BY <4>1, <4>2
      <3> QED
        BY <3>1, <3>2
    <2>4. g = [i \in 1..k |-> g[i]]
      OBVIOUS
    <2> HIDE DEF g
    <2>5. Flat(ss, k, g)
      BY <2>3, <2>4 DEF Flat
    <2> QED
      BY <1>3, <2>5
  <1> QED
    BY <1>3, <1>4, <1>5

LEMMA FlattenIs ==
  ASSUME NEW V, NEW ss \in Seq(Seq(V))
  PROVE  \/ ss = <<>> /\ FlattenSeq(ss) = <<>>
         \/ \E g : /\ Len(ss) \in Nat /\ Len(ss) > 0 /\ FlattenSeq(ss) = g[Len(ss)]
                   /\ \A i \in 1..Len(ss) : g[i] = IF i = 1 THEN ss[i] ELSE g[i - 1] \o ss[i]
  <1>1. Len(ss) \in Nat /\ (Len(ss) = 0 => ss = <<>>)
    BY EmptySeq, LenProperties
  <1>2. CASE Len(ss) = 0
    BY <1>1, <1>2 DEF FlattenSeq
  <1>3. CASE Len(ss) # 0
    <2> DEFINE g == CHOOSE h : Flat(ss, Len(ss), h)
    <2>1. FlattenSeq(ss) = g[Len(ss)]
      BY <1>3, Zenon DEF FlattenSeq, Flat
    <2>2. Flat(ss, Len(ss), g)
      BY <1>1, FlatExists
    <2> HIDE DEF g
    <2>3. \A i \in 1..Len(ss) : g[i] = IF i = 1 THEN ss[i] ELSE g[i - 1] \o ss[i]
      BY <2>2 DEF Flat
    <2> QED
      BY <1>1, <1>3, <2>1, <2>3
  <1> QED
    BY <1>2, <1>3

\* A flat list has what its parts have, and repeats nothing if they have nothing in
\* common and repeat nothing.
LEMMA Flattened ==
  ASSUME NEW V, NEW ss \in Seq(Seq(V))
  PROVE  /\ FlattenSeq(ss) \in Seq(V)
         /\ \A v : v \in ToSet(FlattenSeq(ss)) <=> \E n \in DOMAIN ss : v \in ToSet(ss[n])
         /\ (/\ \A n \in DOMAIN ss : IsInjective(ss[n])
             /\ \A m, n \in DOMAIN ss : m # n => ToSet(ss[m]) \cap ToSet(ss[n]) = {})
            => IsInjective(FlattenSeq(ss))
  <1>0. DOMAIN ss = 1..Len(ss) /\ \A n \in 1..Len(ss) : ss[n] \in Seq(V)
    BY LenProperties, ElementOfSeq
  <1>1. CASE ss = <<>> /\ FlattenSeq(ss) = <<>>
    <2>1. <<>> \in Seq(V) /\ DOMAIN <<>> = {}
      OBVIOUS
    <2> QED
      BY <1>1, <2>1 DEF ToSet, IsInjective
  <1>2. ASSUME NEW g, Len(ss) \in Nat, Len(ss) > 0, FlattenSeq(ss) = g[Len(ss)],
               \A i \in 1..Len(ss) : g[i] = IF i = 1 THEN ss[i] ELSE g[i - 1] \o ss[i]
        PROVE  /\ FlattenSeq(ss) \in Seq(V)
               /\ \A v : v \in ToSet(FlattenSeq(ss)) <=> \E n \in DOMAIN ss : v \in ToSet(ss[n])
               /\ (/\ \A n \in DOMAIN ss : IsInjective(ss[n])
                   /\ \A m, n \in DOMAIN ss : m # n => ToSet(ss[m]) \cap ToSet(ss[n]) = {})
                  => IsInjective(FlattenSeq(ss))
    <2> DEFINE Apart == /\ \A n \in DOMAIN ss : IsInjective(ss[n])
                        /\ \A m, n \in DOMAIN ss : m # n => ToSet(ss[m]) \cap ToSet(ss[n]) = {}
               Good(k) == /\ g[k] \in Seq(V)
                          /\ \A v : v \in ToSet(g[k]) <=> \E n \in 1..k : v \in ToSet(ss[n])
                          /\ Apart => IsInjective(g[k])
               T == {k \in 1..Len(ss) : ~ Good(k)}
    <2>1. T = {}
      <3> SUFFICES ASSUME T # {} PROVE FALSE
        OBVIOUS
      <3>1. T \subseteq Nat
        BY <1>2
      <3>2. PICK k \in T : \A j \in T : k <= j
        BY <3>1, LeastNatural
      <3>3. k \in 1..Len(ss) /\ ~ Good(k)
        BY <3>2
      <3>4. g[k] = IF k = 1 THEN ss[k] ELSE g[k - 1] \o ss[k]
        BY <1>2, <3>3
      <3>5. CASE k = 1
        <4>1. g[k] = ss[1] /\ ss[1] \in Seq(V) /\ 1 \in DOMAIN ss
          BY <1>0, <1>2, <3>4, <3>5
        <4>2. \A n \in 1..k : n = 1
          BY <3>5
        <4>3. 1 \in 1..k
          BY <3>5
        <4>4. Good(k)
          BY <4>1, <4>2, <4>3
        <4> QED
          BY <3>3, <4>4
      <3>6. CASE k # 1
        <4>1. k - 1 \in 1..Len(ss) /\ k \in DOMAIN ss /\ \A n \in 1..k : n = k \/ n \in 1..(k - 1)
          BY <1>0, <1>2, <3>3, <3>6
        <4>2. k - 1 \notin T
          <5>1. ~ (k <= k - 1)
            BY <3>3
          <5> QED
            BY <3>2, <5>1
        <4>3. Good(k - 1)
          BY <4>1, <4>2
        <4>4. g[k] = g[k - 1] \o ss[k] /\ ss[k] \in Seq(V)
          BY <1>0, <3>3, <3>4, <3>6
        <4>5. g[k] \in Seq(V) /\ ToSet(g[k]) = ToSet(g[k - 1]) \cup ToSet(ss[k])
          BY <4>3, <4>4, ConcatHas
        <4>6. ASSUME Apart PROVE IsInjective(g[k])
          <5>1. ToSet(g[k - 1]) \cap ToSet(ss[k]) = {}
            <6> SUFFICES ASSUME NEW v, v \in ToSet(g[k - 1]), v \in ToSet(ss[k]) PROVE FALSE
              OBVIOUS
            <6>1. PICK n \in 1..(k - 1) : v \in ToSet(ss[n])
              BY <4>3
            <6>2. n \in DOMAIN ss /\ n # k
              BY <1>0, <1>2, <3>3, <6>1
            <6> QED
              BY <4>1, <4>6, <6>1, <6>2
          <5> QED
            BY <4>1, <4>3, <4>4, <4>6, <5>1, ConcatHas
        <4>7. \A v : v \in ToSet(g[k]) <=> \E n \in 1..k : v \in ToSet(ss[n])
          <5>1. k \in 1..k /\ 1..(k - 1) \subseteq 1..k
            BY <3>3, <1>2
          <5> QED
            BY <4>1, <4>3, <4>5, <5>1
        <4>8. Good(k)
          BY <4>5, <4>6, <4>7
        <4> QED
          BY <3>3, <4>8
      <3> QED
        BY <3>5, <3>6
    <2>2. Good(Len(ss))
      <3>1. Len(ss) \in 1..Len(ss)
        BY <1>2
      <3> QED
        BY <2>1, <3>1
    <2> QED
      BY <1>0, <1>2, <2>2
  <1> QED
    BY <1>1, <1>2, FlattenIs

\* In a flat list the first member of a part comes before the others.
LEMMA FlattenedFirst ==
  ASSUME NEW V, NEW ss \in Seq(Seq(V))
  PROVE  \A i \in DOMAIN FlattenSeq(ss) :
           \E n \in DOMAIN ss : \E j \in 1..i :
             FlattenSeq(ss)[i] \in ToSet(ss[n]) /\ FlattenSeq(ss)[j] = ss[n][1]
  <1>0. DOMAIN ss = 1..Len(ss) /\ Len(ss) \in Nat /\ \A n \in 1..Len(ss) : ss[n] \in Seq(V)
    BY LenProperties, ElementOfSeq
  <1> DEFINE Fine(s) == \A i \in DOMAIN s : \E n \in DOMAIN ss : \E j \in 1..i :
                          s[i] \in ToSet(ss[n]) /\ s[j] = ss[n][1]
  <1>1. CASE ss = <<>> /\ FlattenSeq(ss) = <<>>
    BY <1>1
  <1>2. ASSUME NEW g, Len(ss) \in Nat, Len(ss) > 0, FlattenSeq(ss) = g[Len(ss)],
               \A i \in 1..Len(ss) : g[i] = IF i = 1 THEN ss[i] ELSE g[i - 1] \o ss[i]
        PROVE  Fine(FlattenSeq(ss))
    <2> DEFINE T == {k \in 1..Len(ss) : ~ (g[k] \in Seq(V) /\ Fine(g[k]))}
    <2>1. T = {}
      <3> SUFFICES ASSUME T # {} PROVE FALSE
        OBVIOUS
      <3>1. T \subseteq Nat
        BY <1>2
      <3>2. PICK k \in T : \A j \in T : k <= j
        BY <3>1, LeastNatural
      <3>3. k \in 1..Len(ss) /\ ~ (g[k] \in Seq(V) /\ Fine(g[k])) /\ k \in DOMAIN ss
        BY <1>0, <3>2
      <3>4. g[k] = IF k = 1 THEN ss[k] ELSE g[k - 1] \o ss[k]
        BY <1>2, <3>3
      <3>5. PICK t : t = ss[k]
        OBVIOUS
      <3>6. t \in Seq(V) /\ Len(t) \in Nat /\ DOMAIN t = 1..Len(t)
        BY <1>0, <3>3, <3>5, LenProperties
      <3>7. CASE k = 1
        <4>1. g[k] = t
          BY <3>4, <3>5, <3>7
        <4>2. ASSUME NEW i \in DOMAIN t
              PROVE  \E n \in DOMAIN ss : \E j \in 1..i : t[i] \in ToSet(ss[n]) /\ t[j] = ss[n][1]
          <5>1. 1 \in 1..i
            BY <3>6
          <5>2. t[i] \in ToSet(t)
            BY DEF ToSet
          <5> QED
            BY <3>3, <3>5, <5>1, <5>2
        <4> QED
          BY <3>3, <3>6, <4>1, <4>2
      <3>8. CASE k # 1
        <4>1. k - 1 \in 1..Len(ss) /\ ~ (k <= k - 1)
          BY <3>3, <3>8
        <4>2. k - 1 \notin T
          BY <3>2, <4>1
        <4>3. PICK u : u = g[k - 1]
          OBVIOUS
        <4>4. u \in Seq(V) /\ Fine(u)
          BY <4>1, <4>2, <4>3
        <4>5. PICK w : w = u \o t
          OBVIOUS
        <4>6. g[k] = w
          BY <3>4, <3>5, <3>8, <4>3, <4>5
        <4>7. /\ w \in Seq(V) /\ Len(w) = Len(u) + Len(t) /\ Len(u) \in Nat
              /\ DOMAIN u = 1..Len(u) /\ DOMAIN w = 1..(Len(u) + Len(t))
              /\ \A i \in 1 .. Len(u) + Len(t) : w[i] = IF i <= Len(u) THEN u[i] ELSE t[i - Len(u)]
          BY <3>6, <4>4, <4>5, ConcatProperties, LenProperties
        <4>8. ASSUME NEW i \in DOMAIN w
              PROVE  \E n \in DOMAIN ss : \E j \in 1..i : w[i] \in ToSet(ss[n]) /\ w[j] = ss[n][1]
          <5>1. CASE i <= Len(u)
            <6>1. i \in DOMAIN u /\ w[i] = u[i] /\ \A j \in 1..i : w[j] = u[j]
              BY <3>6, <4>7, <5>1
            <6> QED
              BY <4>4, <6>1
          <5>2. CASE ~ (i <= Len(u))
            <6>1. /\ i - Len(u) \in DOMAIN t /\ w[i] = t[i - Len(u)]
                  /\ Len(u) + 1 \in 1..i /\ w[Len(u) + 1] = t[1]
              <7>1. i \in Nat /\ i - Len(u) \in 1..Len(t) /\ Len(u) + 1 <= i
                BY <3>6, <4>7, <5>2
              <7>2. Len(u) + 1 \in 1 .. Len(u) + Len(t) /\ ~ (Len(u) + 1 <= Len(u)) /\ Len(u) + 1 - Len(u) = 1
                BY <3>6, <4>7, <7>1
              <7>3. w[Len(u) + 1] = t[1]
                BY <4>7, <7>2
              <7>4. w[i] = t[i - Len(u)]
                BY <4>7, <5>2
              <7> QED
                BY <3>6, <4>7, <7>1, <7>3, <7>4
            <6>2. w[i] \in ToSet(t)
              BY <6>1 DEF ToSet
            <6> QED
              BY <3>3, <3>5, <6>1, <6>2
          <5> QED
            BY <5>1, <5>2
        <4> QED
          BY <3>3, <4>6, <4>7, <4>8
      <3> QED
        BY <3>7, <3>8
    <2>2. Len(ss) \in 1..Len(ss)
      BY <1>2
    <2> QED
      BY <1>2, <2>1, <2>2
  <1> QED
    BY <1>1, <1>2, FlattenIs

LEMMA AppendHas ==
  ASSUME NEW V, NEW s \in Seq(V), NEW e \in V
  PROVE  /\ Append(s, e) \in Seq(V)
         /\ Len(s) \in Nat /\ DOMAIN s = 1..Len(s) /\ DOMAIN Append(s, e) = 1..(Len(s) + 1)
         /\ Append(s, e)[Len(s) + 1] = e /\ \A n \in DOMAIN s : Append(s, e)[n] = s[n]
         /\ ToSet(Append(s, e)) = ToSet(s) \cup {e}
         /\ IsInjective(s) /\ e \notin ToSet(s) => IsInjective(Append(s, e))
  <1>1. Len(s) \in Nat /\ DOMAIN s = 1..Len(s)
    BY LenProperties
  <1>2. PICK t : t = Append(s, e)
    OBVIOUS
  <1>3. t \in Seq(V) /\ Len(t) = Len(s) + 1
    BY <1>2
  <1>4. DOMAIN t = 1..(Len(s) + 1)
    BY <1>3, LenProperties
  <1>5. t[Len(s) + 1] = e /\ \A n \in 1..Len(s) : t[n] = s[n]
    BY <1>1, <1>2
  <1>6. \A n \in DOMAIN t : n = Len(s) + 1 \/ n \in DOMAIN s
    BY <1>1, <1>4
  <1>7. Len(s) + 1 \in DOMAIN t /\ DOMAIN s \subseteq DOMAIN t
    BY <1>1, <1>4
  <1>8. ToSet(t) = ToSet(s) \cup {e}
    BY <1>1, <1>5, <1>6, <1>7 DEF ToSet
  <1>9. IsInjective(s) /\ e \notin ToSet(s) => IsInjective(t)
    BY <1>1, <1>5, <1>6 DEF ToSet, IsInjective
  <1> QED
    BY <1>1, <1>2, <1>3, <1>4, <1>5, <1>8, <1>9

LEMMA MakeSeq ==
  ASSUME NEW V, NEW n \in Nat, NEW s, s = [i \in 1..n |-> s[i]], \A i \in 1..n : s[i] \in V
  PROVE  s \in Seq(V) /\ Len(s) = n /\ DOMAIN s = 1..n
  <1>1. s \in [1..n -> V] /\ DOMAIN s = 1..n
    OBVIOUS
  <1>2. s \in Seq(V)
    BY <1>1, SeqDef
  <1> QED
    BY <1>1, <1>2, LenProperties

LEMMA ShortSeqs ==
  ASSUME NEW V, NEW v \in V
  PROVE  /\ <<>> \in Seq(V) /\ ToSet(<<>>) = {} /\ IsInjective(<<>>)
         /\ <<v>> \in Seq(V) /\ ToSet(<<v>>) = {v} /\ IsInjective(<<v>>)
  <1>1. DOMAIN <<>> = {} /\ DOMAIN <<v>> = {1} /\ <<v>>[1] = v
    OBVIOUS
  <1>2. ToSet(<<>>) = {} /\ ToSet(<<v>>) = {v}
    BY <1>1 DEF ToSet
  <1>3. IsInjective(<<>>) /\ IsInjective(<<v>>)
    BY <1>1 DEF IsInjective
  <1> QED
    BY <1>2, <1>3

LEMMA PairSeq ==
  ASSUME NEW V, NEW v \in V, NEW w \in V, v # w
  PROVE  <<v, w>> \in Seq(V) /\ ToSet(<<v, w>>) = {v, w} /\ IsInjective(<<v, w>>)
  <1>1. DOMAIN <<v, w>> = {1, 2} /\ <<v, w>>[1] = v /\ <<v, w>>[2] = w
    OBVIOUS
  <1>2. ToSet(<<v, w>>) = {v, w}
    BY <1>1 DEF ToSet
  <1>3. IsInjective(<<v, w>>)
    BY <1>1 DEF IsInjective
  <1> QED
    BY <1>2, <1>3

\* SetToSeq lists a finite set, each member once.
LEMMA SetListed ==
  ASSUME NEW S, IsFiniteSet(S)
  PROVE  SetToSeq(S) \in Seq(S) /\ ToSet(SetToSeq(S)) = S /\ IsInjective(SetToSeq(S))
  <1>1. Cardinality(S) \in Nat /\ \E f \in [1..Cardinality(S) -> S] : IsInjective(f)
    BY FS_CardinalityType DEF ExistsBijection, Bijection, Injection
  <1> DEFINE f == SetToSeq(S)
  <1>2. f \in [1..Cardinality(S) -> S] /\ IsInjective(f)
    BY <1>1 DEF SetToSeq
  <1> HIDE DEF f
  <1>3. f \in Seq(S) /\ DOMAIN f = 1..Cardinality(S)
    BY <1>1, <1>2
  <1>4. ToSet(f) = S
    <2>1. f \in Injection(1..Cardinality(S), S)
      BY <1>2 DEF Injection
    <2>2. Cardinality(1..Cardinality(S)) = Cardinality(S)
      BY <1>1, FS_Interval
    <2>3. f \in Surjection(1..Cardinality(S), S)
      BY <2>1, <2>2, FS_Injection
    <2> QED
      BY <1>2, <1>3, <2>3 DEF Surjection, ToSet
  <1> QED
    BY <1>2, <1>3, <1>4 DEF f

LEMMA MaxOf ==
  ASSUME NEW S, S \subseteq 0..Inf, S # {}
  PROVE  Max(S) \in S /\ Max(S) \in 0..Inf /\ \A y \in S : y <= Max(S)
  <1> DEFINE T == {Inf - x : x \in S}
  <1>0. Inf \in Nat /\ \A x \in 0..Inf : Inf - x \in Nat
    BY InfAssumption
  <1>1. T \subseteq Nat /\ T # {}
    BY <1>0
  <1>2. PICK k \in T : \A j \in T : k <= j
    BY <1>1, LeastNatural, Zenon
  <1>3. PICK x \in S : k = Inf - x
    BY <1>2
  <1>4. \A y \in S : x >= y
    <2> SUFFICES ASSUME NEW y \in S PROVE x >= y
      OBVIOUS
    <2>1. Inf - x <= Inf - y
      BY <1>2, <1>3
    <2> QED
      BY <2>1, InfAssumption
  <1>5. Max(S) \in S /\ \A y \in S : Max(S) >= y
    BY <1>4 DEF Max
  <1> QED
    BY <1>5, InfAssumption

LEMMA MinOf ==
  ASSUME NEW S, S \subseteq Nat, S # {}
  PROVE  Min(S) \in S /\ Min(S) \in Nat /\ \A y \in S : Min(S) <= y
  <1>1. \E x \in S : \A y \in S : x <= y
    BY LeastNatural
  <1>2. Min(S) \in S /\ \A y \in S : Min(S) <= y
    BY <1>1 DEF Min
  <1> QED
    BY <1>2

(***************************************************************************)
(* What a mission is, whoever built it.                                    *)
(***************************************************************************)
AnyCondition ==
  [location : Location, interval : Intervals, model : Model \cup Function,
   type : {"min", "max"}, card : 0..Inf]

AnyPlace == Location \X (Intervals \cup {FullMission})

InOrder(b) == b[1] <= b[2] /\ b[2] <= Inf

AnyOrder == [kind : {"order"}, from : Point, to : Point, type : Types]
AnyDuration ==
  {c \in [kind : {"duration"}, from : Point, to : Point, bounds : Seq(Nat \X Nat)] :
     c.bounds # <<>> /\ \A b \in ToSet(c.bounds) : InOrder(b)}
AnyModel ==
  {c \in [kind : {"model"}, model : Model, refs : Seq(AnyPlace)] : c.refs # <<>>}
AnyConstraint == AnyOrder \cup AnyDuration \cup AnyModel

AnyMission ==
  [pool : Pools, locations : SUBSET Location, conditions : Seq(AnyCondition),
   constraints : Seq(AnyConstraint), implicit : SUBSET AnyConstraint]

Extended(x) == x.interval[1] # x.interval[2]
Implied(x) == Order(x.interval[1], x.interval[2], "<")

\* A constraint refers to locations that the mission knows.
Located(m, c) ==
  c.kind = "model" => \A p \in ToSet(c.refs) : p[2] = FullMission => p[1] \in m.locations

\* A mission repeats no condition and no constraint, has what its conditions imply, and
\* knows as implicit only what they imply.
MissionInv(m) ==
  /\ m \in AnyMission
  /\ IsInjective(m.conditions)
  /\ \A i, j \in DOMAIN m.constraints :
       Identity(m.constraints[i]) = Identity(m.constraints[j]) => i = j
  /\ m.implicit \subseteq ToSet(m.constraints)
  /\ \A c \in m.implicit : \E x \in ToSet(m.conditions) : Extended(x) /\ c = Implied(x)
  /\ \A x \in ToSet(m.conditions) : Extended(x) => Implied(x) \in ToSet(m.constraints)
  /\ \A x \in ToSet(m.conditions) : x.location \in m.locations
  /\ \A c \in ToSet(m.constraints) : Located(m, c)

\* Constraints are the same to the code if they are equal, or durations of a pair.
LEMMA IdentityIs ==
  ASSUME NEW c \in AnyConstraint, NEW d \in AnyConstraint
  PROVE  Identity(c) = Identity(d) <=>
           \/ c = d
           \/ c.kind = "duration" /\ d.kind = "duration" /\ c.from = d.from /\ c.to = d.to
  <1>1. CASE c.kind = "duration" /\ d.kind = "duration"
    <2>1. /\ c = [kind |-> "duration", from |-> c.from, to |-> c.to, bounds |-> c.bounds]
          /\ d = [kind |-> "duration", from |-> d.from, to |-> d.to, bounds |-> d.bounds]
      BY <1>1 DEF AnyConstraint, AnyOrder, AnyDuration, AnyModel
    <2> QED
      BY <1>1, <2>1 DEF Identity
  <1>2. CASE c.kind = "duration" /\ d.kind # "duration"
    <2>1. Identity(c).kind = "duration" /\ Identity(d).kind # "duration"
      BY <1>2 DEF Identity, AnyConstraint, AnyOrder, AnyDuration, AnyModel
    <2> QED
      BY <1>2, <2>1
  <1>3. CASE c.kind # "duration" /\ d.kind = "duration"
    <2>1. Identity(d).kind = "duration" /\ Identity(c).kind # "duration"
      BY <1>3 DEF Identity, AnyConstraint, AnyOrder, AnyDuration, AnyModel
    <2> QED
      BY <1>3, <2>1
  <1>4. CASE c.kind # "duration" /\ d.kind # "duration"
    BY <1>4 DEF Identity
  <1> QED
    BY <1>1, <1>2, <1>3, <1>4

LEMMA MissionParts ==
  ASSUME NEW m, m \in AnyMission
  PROVE  /\ m.pool \in Pools /\ m.locations \subseteq Location /\ m.conditions \in Seq(AnyCondition)
         /\ m.constraints \in Seq(AnyConstraint) /\ m.implicit \subseteq AnyConstraint
         /\ ToSet(m.conditions) \subseteq AnyCondition /\ ToSet(m.constraints) \subseteq AnyConstraint
         /\ m = [pool |-> m.pool, locations |-> m.locations, conditions |-> m.conditions,
                 constraints |-> m.constraints, implicit |-> m.implicit]
  <1>1. /\ m.pool \in Pools /\ m.locations \subseteq Location /\ m.conditions \in Seq(AnyCondition)
        /\ m.constraints \in Seq(AnyConstraint) /\ m.implicit \subseteq AnyConstraint
        /\ m = [pool |-> m.pool, locations |-> m.locations, conditions |-> m.conditions,
                constraints |-> m.constraints, implicit |-> m.implicit]
    BY DEF AnyMission
  <1>2. ToSet(m.conditions) \subseteq AnyCondition
    BY <1>1, LenProperties, ElementOfSeq DEF ToSet
  <1>3. ToSet(m.constraints) \subseteq AnyConstraint
    BY <1>1, LenProperties, ElementOfSeq DEF ToSet
  <1> QED
    BY <1>1, <1>2, <1>3

\* A constraint but a duration is there only if it is there itself.
LEMMA HasItself ==
  ASSUME NEW m, m \in AnyMission, NEW c \in AnyConstraint, c.kind # "duration"
  PROVE  HasConstraint(m, c) <=> c \in ToSet(m.constraints)
  BY MissionParts, IdentityIs DEF HasConstraint

LEMMA ImpliedIsOrder ==
  ASSUME NEW x \in AnyCondition
  PROVE  /\ Implied(x) \in AnyOrder /\ Implied(x) \in AnyConstraint /\ Implied(x).kind = "order"
         /\ Place(x) \in Location \X Intervals
  BY IntervalsAssumption DEF AnyCondition, Implied, Order, AnyOrder, AnyConstraint, Types, Place

\* A mission made of its parts.
Parts(p, l, cs, ks, im) ==
  [pool |-> p, locations |-> l, conditions |-> cs, constraints |-> ks, implicit |-> im]

LEMMA PartsTyped ==
  ASSUME NEW p \in Pools, NEW l, l \subseteq Location, NEW cs \in Seq(AnyCondition),
         NEW ks \in Seq(AnyConstraint), NEW im, im \subseteq AnyConstraint
  PROVE  /\ Parts(p, l, cs, ks, im) \in AnyMission
         /\ Parts(p, l, cs, ks, im).pool = p /\ Parts(p, l, cs, ks, im).locations = l
         /\ Parts(p, l, cs, ks, im).conditions = cs /\ Parts(p, l, cs, ks, im).constraints = ks
         /\ Parts(p, l, cs, ks, im).implicit = im
  BY DEF Parts, AnyMission

LEMMA PartsExcept ==
  ASSUME NEW m, m \in AnyMission, NEW x
  PROVE  /\ [m EXCEPT !.implicit = x] = Parts(m.pool, m.locations, m.conditions, m.constraints, x)
         /\ [m EXCEPT !.locations = x] = Parts(m.pool, x, m.conditions, m.constraints, m.implicit)
         /\ [m EXCEPT !.pool = x] = Parts(x, m.locations, m.conditions, m.constraints, m.implicit)
         /\ m = Parts(m.pool, m.locations, m.conditions, m.constraints, m.implicit)
  <1>1. PICK p, l, cs, ks, im : m = [pool |-> p, locations |-> l, conditions |-> cs, constraints |-> ks, implicit |-> im]
    BY MissionParts
  <1>2. [m EXCEPT !.implicit = x] = Parts(p, l, cs, ks, x)
    BY <1>1 DEF Parts
  <1>3. [m EXCEPT !.locations = x] = Parts(p, x, cs, ks, im)
    BY <1>1 DEF Parts
  <1>4. [m EXCEPT !.pool = x] = Parts(x, l, cs, ks, im)
    BY <1>1 DEF Parts
  <1>5. m.pool = p /\ m.locations = l /\ m.conditions = cs /\ m.constraints = ks /\ m.implicit = im
    BY <1>1
  <1> QED
    BY <1>1, <1>2, <1>3, <1>4, <1>5 DEF Parts

LEMMA PartsExceptTwo ==
  ASSUME NEW m, m \in AnyMission, NEW x, NEW y
  PROVE  /\ [m EXCEPT !.constraints = x, !.implicit = y] =
              Parts(m.pool, m.locations, m.conditions, x, y)
         /\ [m EXCEPT !.locations = x, !.conditions = y] =
              Parts(m.pool, x, y, m.constraints, m.implicit)
  <1>1. PICK p, l, cs, ks, im : m = [pool |-> p, locations |-> l, conditions |-> cs, constraints |-> ks, implicit |-> im]
    BY MissionParts
  <1>2. [m EXCEPT !.constraints = x, !.implicit = y] = Parts(p, l, cs, x, y)
    <2>1. [m EXCEPT !.constraints = x] = Parts(p, l, cs, x, im)
      BY <1>1 DEF Parts
    <2>2. [Parts(p, l, cs, x, im) EXCEPT !.implicit = y] = Parts(p, l, cs, x, y)
      BY DEF Parts
    <2> QED
      BY <2>1, <2>2, Zenon
  <1>3. [m EXCEPT !.locations = x, !.conditions = y] = Parts(p, x, y, ks, im)
    <2>1. [m EXCEPT !.locations = x] = Parts(p, x, cs, ks, im)
      BY <1>1 DEF Parts
    <2>2. [Parts(p, x, cs, ks, im) EXCEPT !.conditions = y] = Parts(p, x, y, ks, im)
      BY DEF Parts
    <2> QED
      BY <2>1, <2>2, Zenon
  <1>4. m.pool = p /\ m.locations = l /\ m.conditions = cs /\ m.constraints = ks /\ m.implicit = im
    BY <1>1
  <1> QED
    BY <1>2, <1>3, <1>4

LEMMA AddConstraintIs ==
  ASSUME NEW m, m \in AnyMission, NEW c
  PROVE  /\ HasConstraint(m, c) =>
              /\ AddConstraint(m, c, FALSE) =
                   Parts(m.pool, m.locations, m.conditions, m.constraints, m.implicit \ {c})
              /\ AddConstraint(m, c, TRUE) = m
         /\ ~ HasConstraint(m, c) =>
              /\ AddConstraint(m, c, FALSE) =
                   Parts(m.pool, m.locations, m.conditions, Append(m.constraints, c), m.implicit)
              /\ AddConstraint(m, c, TRUE) =
                   Parts(m.pool, m.locations, m.conditions, Append(m.constraints, c), m.implicit \cup {c})
  <1>0. ASSUME NEW x
        PROVE  [m EXCEPT !.implicit = x] =
                 Parts(m.pool, m.locations, m.conditions, m.constraints, x)
    BY PartsExcept, Zenon
  <1>1. /\ [m EXCEPT !.implicit = m.implicit] = m
        /\ [m EXCEPT !.implicit = m.implicit \ {c}] =
             Parts(m.pool, m.locations, m.conditions, m.constraints, m.implicit \ {c})
    BY <1>0, PartsExcept, Zenon
  <1>2. ASSUME NEW s, NEW y
        PROVE  [m EXCEPT !.constraints = s, !.implicit = y] =
                 Parts(m.pool, m.locations, m.conditions, s, y)
    <2>1. PICK p, l, cs, ks, im : m = [pool |-> p, locations |-> l, conditions |-> cs, constraints |-> ks, implicit |-> im]
      BY MissionParts
    <2>2. [m EXCEPT !.constraints = s] = Parts(p, l, cs, s, im)
      BY <2>1 DEF Parts
    <2>3. [Parts(p, l, cs, s, im) EXCEPT !.implicit = y] = Parts(p, l, cs, s, y)
      BY DEF Parts
    <2>4. m.pool = p /\ m.locations = l /\ m.conditions = cs
      BY <2>1
    <2>5. [m EXCEPT !.constraints = s, !.implicit = y] = [[m EXCEPT !.constraints = s] EXCEPT !.implicit = y]
      BY Zenon
    <2> QED
      BY <2>2, <2>3, <2>4, <2>5, Zenon
  <1>3. CASE HasConstraint(m, c)
    BY <1>1, <1>3, Zenon DEF AddConstraint
  <1>4. CASE ~ HasConstraint(m, c)
    BY <1>2, <1>4, Zenon DEF AddConstraint
  <1> QED
    BY <1>3, <1>4

\* What is not there yet keeps the constraints distinct.
LEMMA AppendDistinct ==
  ASSUME NEW m, m \in AnyMission, NEW c \in AnyConstraint, ~ HasConstraint(m, c),
         \A i, j \in DOMAIN m.constraints : Identity(m.constraints[i]) = Identity(m.constraints[j]) => i = j
  PROVE  /\ Append(m.constraints, c) \in Seq(AnyConstraint)
         /\ ToSet(Append(m.constraints, c)) = ToSet(m.constraints) \cup {c}
         /\ LET s == Append(m.constraints, c)
            IN \A i, j \in DOMAIN s : Identity(s[i]) = Identity(s[j]) => i = j
  <1>1. m.constraints \in Seq(AnyConstraint)
    BY MissionParts
  <1>2. PICK s : s = Append(m.constraints, c)
    OBVIOUS
  <1>3. PICK n : n = Len(m.constraints) + 1
    OBVIOUS
  <1>4. /\ s \in Seq(AnyConstraint) /\ ToSet(s) = ToSet(m.constraints) \cup {c}
        /\ DOMAIN m.constraints = 1..Len(m.constraints) /\ DOMAIN s = 1..n /\ n \in Nat
        /\ s[n] = c /\ \A i \in DOMAIN m.constraints : s[i] = m.constraints[i]
    BY <1>1, <1>2, <1>3, AppendHas
  <1>5. \A i \in DOMAIN s : i = n \/ i \in DOMAIN m.constraints
    BY <1>3, <1>4
  <1>6. \A i \in DOMAIN m.constraints : Identity(m.constraints[i]) # Identity(c)
    BY DEF HasConstraint, ToSet
  <1>7. ASSUME NEW i \in DOMAIN s, NEW j \in DOMAIN s, Identity(s[i]) = Identity(s[j]) PROVE i = j
    BY <1>4, <1>5, <1>6, <1>7
  <1> QED
    BY <1>2, <1>4, <1>7

LEMMA AddConstraintKeeps ==
  ASSUME NEW m, MissionInv(m), NEW c \in AnyConstraint, Located(m, c)
  PROVE  MissionInv(AddConstraint(m, c, FALSE))
  <1>0. m \in AnyMission
    BY DEF MissionInv
  <1>1. CASE HasConstraint(m, c)
    <2>1. AddConstraint(m, c, FALSE) =
            Parts(m.pool, m.locations, m.conditions, m.constraints, m.implicit \ {c})
      BY <1>0, <1>1, AddConstraintIs
    <2>2. PICK n : n = AddConstraint(m, c, FALSE)
      OBVIOUS
    <2>3. /\ n \in AnyMission /\ n.conditions = m.conditions /\ n.constraints = m.constraints
          /\ n.locations = m.locations /\ n.implicit = m.implicit \ {c}
      <3>1. m.implicit \ {c} \subseteq AnyConstraint
        BY <1>0, MissionParts
      <3>2. n = Parts(m.pool, m.locations, m.conditions, m.constraints, m.implicit \ {c})
        BY <2>1, <2>2, Zenon
      <3> QED
        BY <1>0, <3>1, <3>2, MissionParts, PartsTyped
    <2>4. MissionInv(n)
      BY <2>3 DEF MissionInv, Located
    <2> QED
      BY <2>2, <2>4
  <1>2. CASE ~ HasConstraint(m, c)
    <2>1. AddConstraint(m, c, FALSE) =
            Parts(m.pool, m.locations, m.conditions, Append(m.constraints, c), m.implicit)
      BY <1>0, <1>2, AddConstraintIs
    <2>2. PICK n : n = AddConstraint(m, c, FALSE)
      OBVIOUS
    <2>3. PICK s : s = Append(m.constraints, c)
      OBVIOUS
    <2>4. /\ s \in Seq(AnyConstraint) /\ ToSet(s) = ToSet(m.constraints) \cup {c}
          /\ \A i, j \in DOMAIN s : Identity(s[i]) = Identity(s[j]) => i = j
      BY <1>0, <1>2, <2>3, AppendDistinct DEF MissionInv
    <2>5. /\ n \in AnyMission /\ n.conditions = m.conditions /\ n.constraints = s
          /\ n.locations = m.locations /\ n.implicit = m.implicit
      <3>1. /\ m.pool \in Pools /\ m.locations \subseteq Location
            /\ m.conditions \in Seq(AnyCondition) /\ m.implicit \subseteq AnyConstraint
        BY <1>0, MissionParts
      <3>2. n = Parts(m.pool, m.locations, m.conditions, s, m.implicit)
        BY <2>1, <2>2, <2>3, Zenon
      <3> QED
        BY <2>4, <3>1, <3>2, PartsTyped
    <2>6. MissionInv(n)
      BY <2>4, <2>5 DEF MissionInv, Located
    <2> QED
      BY <2>2, <2>6
  <1> QED
    BY <1>1, <1>2

LEMMA AddConditionIs ==
  ASSUME NEW m, m \in AnyMission, NEW c \in AnyCondition
  PROVE  \E with \in AnyMission :
           /\ with.pool = m.pool /\ with.constraints = m.constraints /\ with.implicit = m.implicit
           /\ with.locations = m.locations \cup {c.location}
           /\ with.conditions = Append(m.conditions, c)
           /\ AddCondition(m, c) = IF Extended(c) THEN AddConstraint(with, Implied(c), TRUE) ELSE with
  <1> DEFINE with == [m EXCEPT !.locations = @ \cup {c.location}, !.conditions = Append(@, c)]
  <1>1. Append(m.conditions, c) \in Seq(AnyCondition) /\ c.location \in Location
    BY MissionParts, AppendHas DEF AnyCondition
  <1>2. /\ with \in AnyMission
        /\ with.pool = m.pool /\ with.constraints = m.constraints /\ with.implicit = m.implicit
        /\ with.locations = m.locations \cup {c.location}
        /\ with.conditions = Append(m.conditions, c)
    <2>1. with = Parts(m.pool, m.locations \cup {c.location}, Append(m.conditions, c),
                       m.constraints, m.implicit)
      BY PartsExceptTwo, Zenon
    <2>2. m.locations \cup {c.location} \subseteq Location
      BY <1>1, MissionParts
    <2> HIDE DEF with
    <2> QED
      BY <1>1, <2>1, <2>2, MissionParts DEF Parts, AnyMission
  <1>3. AddCondition(m, c) = IF Extended(c) THEN AddConstraint(with, Implied(c), TRUE) ELSE with
    BY DEF AddCondition, Extended, Implied
  <1> HIDE DEF with
  <1> QED
    BY <1>2, <1>3

LEMMA AddConditionKeeps ==
  ASSUME NEW m, MissionInv(m), NEW c \in AnyCondition, c \notin ToSet(m.conditions)
  PROVE  /\ MissionInv(AddCondition(m, c))
         /\ AddCondition(m, c).pool = m.pool
         /\ AddCondition(m, c).locations = m.locations \cup {c.location}
         /\ AddCondition(m, c).conditions = Append(m.conditions, c)
         /\ ToSet(AddCondition(m, c).constraints) =
              ToSet(m.constraints) \cup (IF Extended(c) THEN {Implied(c)} ELSE {})
         /\ AddCondition(m, c).implicit =
              m.implicit \cup (IF Extended(c) THEN {Implied(c)} \ ToSet(m.constraints) ELSE {})
  <1>0. m \in AnyMission
    BY DEF MissionInv
  <1>1. PICK with \in AnyMission :
          /\ with.pool = m.pool /\ with.constraints = m.constraints /\ with.implicit = m.implicit
          /\ with.locations = m.locations \cup {c.location}
          /\ with.conditions = Append(m.conditions, c)
          /\ AddCondition(m, c) = IF Extended(c) THEN AddConstraint(with, Implied(c), TRUE) ELSE with
    BY <1>0, AddConditionIs
  <1>2. /\ ToSet(with.conditions) = ToSet(m.conditions) \cup {c}
        /\ IsInjective(with.conditions)
    BY <1>0, <1>1, AppendHas, MissionParts DEF MissionInv
  <1>3. PICK n : n = AddCondition(m, c)
    OBVIOUS
  <1>4. CASE ~ Extended(c)
    <2>1. n = with
      BY <1>1, <1>3, <1>4
    <2>2. MissionInv(n)
      BY <1>1, <1>2, <1>4, <2>1 DEF MissionInv, Located
    <2> QED
      BY <1>1, <1>3, <1>4, <2>1, <2>2
  <1>5. CASE Extended(c) /\ Implied(c) \in ToSet(m.constraints)
    <2>1. HasConstraint(with, Implied(c))
      BY <1>1, <1>5 DEF HasConstraint
    <2>2. n = with
      BY <1>1, <1>3, <1>5, <2>1, AddConstraintIs
    <2>3. MissionInv(n)
      BY <1>1, <1>2, <1>5, <2>2 DEF MissionInv, Located
    <2> QED
      BY <1>1, <1>3, <1>5, <2>2, <2>3
  <1>6. CASE Extended(c) /\ Implied(c) \notin ToSet(m.constraints)
    <2>0. PICK o : o = Implied(c)
      OBVIOUS
    <2>1. o \in AnyConstraint /\ o.kind = "order"
      BY <2>0, ImpliedIsOrder
    <2>2. ~ HasConstraint(with, o)
      BY <1>1, <1>6, <2>0, <2>1, HasItself
    <2>3. n = Parts(with.pool, with.locations, with.conditions, Append(with.constraints, o), with.implicit \cup {o})
      BY <1>1, <1>3, <1>6, <2>0, <2>2, AddConstraintIs
    <2>4. PICK s : s = Append(with.constraints, o)
      OBVIOUS
    <2>5. /\ s \in Seq(AnyConstraint) /\ ToSet(s) = ToSet(m.constraints) \cup {o}
          /\ \A i, j \in DOMAIN s : Identity(s[i]) = Identity(s[j]) => i = j
      <3>1. \A i, j \in DOMAIN with.constraints :
              Identity(with.constraints[i]) = Identity(with.constraints[j]) => i = j
        BY <1>1 DEF MissionInv
      <3>2. /\ Append(with.constraints, o) \in Seq(AnyConstraint)
            /\ ToSet(Append(with.constraints, o)) = ToSet(with.constraints) \cup {o}
            /\ LET k == Append(with.constraints, o)
               IN \A i, j \in DOMAIN k : Identity(k[i]) = Identity(k[j]) => i = j
        BY <2>1, <2>2, <3>1, AppendDistinct
      <3> QED
        BY <1>1, <2>4, <3>2
    <2>6. /\ n \in AnyMission /\ n.conditions = with.conditions /\ n.constraints = s
          /\ n.locations = with.locations /\ n.pool = with.pool /\ n.implicit = with.implicit \cup {o}
      <3>1. with.implicit \cup {o} \subseteq AnyConstraint
        BY <2>1, MissionParts
      <3> QED
        BY <2>3, <2>4, <2>5, <3>1, MissionParts DEF Parts, AnyMission
    <2>7. MissionInv(n)
      <3>1. /\ IsInjective(n.conditions)
            /\ \A i, j \in DOMAIN n.constraints : Identity(n.constraints[i]) = Identity(n.constraints[j]) => i = j
        BY <1>2, <2>5, <2>6
      <3>2. \A x \in ToSet(n.conditions) : x = c \/ x \in ToSet(m.conditions)
        BY <1>2, <2>6
      <3>3. n.implicit = m.implicit \cup {o} /\ ToSet(n.constraints) = ToSet(m.constraints) \cup {o}
        BY <1>1, <2>5, <2>6
      <3>4. \A d \in n.implicit : \E x \in ToSet(n.conditions) : Extended(x) /\ d = Implied(x)
        BY <1>2, <1>6, <2>0, <2>6, <3>3 DEF MissionInv
      <3>5. \A x \in ToSet(n.conditions) :
              (Extended(x) => Implied(x) \in ToSet(n.constraints)) /\ x.location \in n.locations
        BY <1>1, <2>0, <2>6, <3>2, <3>3 DEF MissionInv
      <3>6. \A d \in ToSet(n.constraints) : Located(n, d)
        BY <1>1, <2>1, <2>6, <3>3 DEF MissionInv, Located
      <3>7. n.implicit \subseteq ToSet(n.constraints)
        BY <3>3 DEF MissionInv
      <3> QED
        BY <2>6, <3>1, <3>4, <3>5, <3>6, <3>7 DEF MissionInv
    <2> QED
      BY <1>1, <1>3, <1>6, <2>0, <2>5, <2>6, <2>7
  <1> QED
    BY <1>4, <1>5, <1>6

(***************************************************************************)
(* What is written.                                                        *)
(***************************************************************************)

\* A mission lists the places of its conditions, each once.
LEMMA PlacesAre ==
  ASSUME NEW m, m \in AnyMission
  PROVE  /\ Places(m) \in Seq(Location \X Intervals)
         /\ ToSet(Places(m)) = {Place(c) : c \in ToSet(m.conditions)}
         /\ IsInjective(Places(m))
  <1> DEFINE V == Location \X Intervals
             Known(n) == \E k \in 1..(n - 1) : Place(m.conditions[k]) = Place(m.conditions[n])
  <1>1. PICK ss : ss = [n \in DOMAIN m.conditions |->
                          IF Known(n) THEN <<>> ELSE <<Place(m.conditions[n])>>]
    OBVIOUS
  <1>2. Places(m) = FlattenSeq(ss)
    BY <1>1 DEF Places
  <1>3. /\ Len(m.conditions) \in Nat /\ DOMAIN m.conditions = 1..Len(m.conditions)
        /\ \A n \in DOMAIN m.conditions :
             m.conditions[n] \in AnyCondition /\ m.conditions[n] \in ToSet(m.conditions)
    BY MissionParts, LenProperties, ElementOfSeq DEF ToSet
  <1>4. \A n \in DOMAIN m.conditions : Place(m.conditions[n]) \in V
    BY <1>3, ImpliedIsOrder
  <1>5. \A n \in DOMAIN m.conditions : ss[n] \in Seq(V)
    <2>1. <<>> \in Seq(V) /\ \A o \in V : <<o>> \in Seq(V)
      <3> HIDE DEF V, Known
      <3> QED
        OBVIOUS
    <2> HIDE DEF V, Known
    <2>2. \A n \in DOMAIN m.conditions :
            ss[n] = <<>> \/ ss[n] = <<Place(m.conditions[n])>>
      BY <1>1
    <2> QED
      BY <1>4, <2>1, <2>2
  <1>6. ss \in Seq(Seq(V)) /\ DOMAIN ss = DOMAIN m.conditions
    <2>1. ss = [n \in 1..Len(m.conditions) |-> ss[n]]
      BY <1>1, <1>3
    <2>2. \A n \in 1..Len(m.conditions) : ss[n] \in Seq(V)
      BY <1>3, <1>5
    <2> HIDE DEF V, Known
    <2>3. ss \in Seq(Seq(V)) /\ DOMAIN ss = 1..Len(m.conditions)
      BY <1>3, <2>1, <2>2, MakeSeq
    <2> QED
      BY <1>3, <2>3 DEF V
  <1>7. \A n \in DOMAIN ss :
          ToSet(ss[n]) = IF Known(n) THEN {} ELSE {Place(m.conditions[n])}
    BY <1>1, <1>4, <1>6, ShortSeqs
  <1>8. \A n \in DOMAIN ss : IsInjective(ss[n])
    BY <1>1, <1>6 DEF IsInjective
  <1>9. ASSUME NEW i \in DOMAIN ss, NEW j \in DOMAIN ss, i # j
        PROVE  ToSet(ss[i]) \cap ToSet(ss[j]) = {}
    <2> SUFFICES ASSUME NEW v, v \in ToSet(ss[i]), v \in ToSet(ss[j]) PROVE FALSE
      OBVIOUS
    <2>1. ~ Known(i) /\ ~ Known(j) /\ Place(m.conditions[i]) = Place(m.conditions[j])
      BY <1>7
    <2>2. i \in 1..(j - 1) \/ j \in 1..(i - 1)
      BY <1>3, <1>6, <1>9
    <2> QED
      BY <2>1, <2>2
  <1>10. ASSUME NEW n \in DOMAIN m.conditions
         PROVE  \E k \in DOMAIN ss : Place(m.conditions[n]) \in ToSet(ss[k])
    <2> DEFINE T == {k \in 1..Len(m.conditions) : Place(m.conditions[k]) = Place(m.conditions[n])}
    <2>1. T \subseteq Nat /\ n \in T
      BY <1>3
    <2>2. PICK k \in T : \A j \in T : k <= j
      BY <2>1, LeastNatural
    <2>3. k \in 1..Len(m.conditions) /\ Place(m.conditions[k]) = Place(m.conditions[n])
      BY <2>2
    <2>4. ~ Known(k)
      <3> SUFFICES ASSUME NEW j \in 1..(k - 1), Place(m.conditions[j]) = Place(m.conditions[k]) PROVE FALSE
        OBVIOUS
      <3>1. j \in T /\ ~ (k <= j)
        BY <1>3, <2>3
      <3> QED
        BY <2>2, <3>1
    <2> QED
      BY <1>3, <1>6, <1>7, <2>3, <2>4
  <1> HIDE DEF Known, V
  <1>11. /\ FlattenSeq(ss) \in Seq(V)
         /\ \A v : v \in ToSet(FlattenSeq(ss)) <=> \E n \in DOMAIN ss : v \in ToSet(ss[n])
         /\ IsInjective(FlattenSeq(ss))
    BY <1>6, <1>8, <1>9, Flattened
  <1>12. ToSet(FlattenSeq(ss)) = {Place(c) : c \in ToSet(m.conditions)}
    <2>1. ASSUME NEW v \in ToSet(FlattenSeq(ss)) PROVE v \in {Place(c) : c \in ToSet(m.conditions)}
      <3>1. PICK n \in DOMAIN ss : v \in ToSet(ss[n])
        BY <1>11
      <3> QED
        BY <1>3, <1>6, <1>7, <3>1
    <2>2. ASSUME NEW c \in ToSet(m.conditions) PROVE Place(c) \in ToSet(FlattenSeq(ss))
      <3>1. PICK n \in DOMAIN m.conditions : c = m.conditions[n]
        BY DEF ToSet
      <3> QED
        BY <1>10, <1>11, <3>1
    <2> QED
      BY <2>1, <2>2
  <1> QED
    BY <1>2, <1>11, <1>12 DEF V

\* Requirements bound the agents of each model by what pool and numbers allow.
IsRequirement(m, p, q) ==
  /\ q = [place |-> p, min |-> q.min, max |-> q.max, functions |-> q.functions]
  /\ q.place = p
  /\ q.min = [r \in Model |-> q.min[r]] /\ q.max = [r \in Model |-> q.max[r]]
  /\ \A r \in Model : /\ q.min[r] = Max({0} \cup Cards(m, p, r, "min"))
                      /\ q.max[r] = Min({m.pool[r]} \cup Cards(m, p, r, "max"))
                      /\ q.min[r] \in 0..Inf /\ q.max[r] \in 0..Inf
                      /\ m.pool[r] \in Nat /\ m.pool[r] < Inf
                      /\ q.max[r] <= m.pool[r]
  /\ q.functions \subseteq Function
  /\ q.functions = {c.model : c \in {d \in ToSet(m.conditions) : Place(d) = p}} \cap Function

LEMMA RequirementIs ==
  ASSUME NEW m, m \in AnyMission, NEW p, NEW q, q = Requirement(m, p)
  PROVE  IsRequirement(m, p, q)
  <1>2. /\ q.place = p
        /\ q.min = [r \in Model |-> Max({0} \cup Cards(m, p, r, "min"))]
        /\ q.max = [r \in Model |-> Min({m.pool[r]} \cup Cards(m, p, r, "max"))]
        /\ q.functions = {c.model : c \in {d \in ToSet(m.conditions) : Place(d) = p}} \cap Function
        /\ q = [place |-> p, min |-> q.min, max |-> q.max, functions |-> q.functions]
    BY DEF Requirement
  <1>3. \A r, t : Cards(m, p, r, t) \subseteq 0..Inf
    BY MissionParts DEF Cards, AnyCondition
  <1>4. ASSUME NEW r \in Model
        PROVE  /\ q.min[r] = Max({0} \cup Cards(m, p, r, "min"))
               /\ q.max[r] = Min({m.pool[r]} \cup Cards(m, p, r, "max"))
               /\ q.min[r] \in 0..Inf /\ q.max[r] \in 0..Inf
               /\ m.pool[r] \in Nat /\ m.pool[r] < Inf
               /\ q.max[r] <= m.pool[r]
    <2>1. m.pool[r] \in Nat /\ m.pool[r] < Inf
      BY MissionParts, PoolsAssumption
    <2>2. q.min[r] = Max({0} \cup Cards(m, p, r, "min")) /\ q.max[r] = Min({m.pool[r]} \cup Cards(m, p, r, "max"))
      BY <1>2
    <2>3. {0} \cup Cards(m, p, r, "min") \subseteq 0..Inf
      BY <1>3, InfAssumption
    <2>4. {m.pool[r]} \cup Cards(m, p, r, "max") \subseteq Nat
      BY <1>3, <2>1
    <2>5. Max({0} \cup Cards(m, p, r, "min")) \in 0..Inf
      BY <2>3, MaxOf
    <2>6. /\ Min({m.pool[r]} \cup Cards(m, p, r, "max")) \in Nat
          /\ Min({m.pool[r]} \cup Cards(m, p, r, "max")) <= m.pool[r]
      BY <2>4, MinOf
    <2> QED
      BY <2>1, <2>2, <2>5, <2>6, InfAssumption
  <1>5. q.min = [r \in Model |-> q.min[r]] /\ q.max = [r \in Model |-> q.max[r]]
    BY <1>2
  <1> QED
    BY <1>2, <1>4, <1>5 DEF IsRequirement

LEMMA FiniteImage ==
  ASSUME NEW S, IsFiniteSet(S), NEW f, f = [x \in S |-> f[x]]
  PROVE  IsFiniteSet({f[x] : x \in S})
  <1> DEFINE T == {f[x] : x \in S}
  <1>1. f \in [S -> T] /\ \A t \in T : \E x \in S : f[x] = t
    OBVIOUS
  <1>2. f \in Surjection(S, T)
    BY <1>1 DEF Surjection
  <1> QED
    BY <1>2, FS_Surjection

AnyResource == [model : Model \cup Function, min : 0..Inf, max : 0..Inf]

\* How a requirement restricts a model is written, and that it has a functionality.
ResourceOf(m, q, r) ==
  [model |-> r, min |-> q.min[r], max |-> IF q.max[r] < m.pool[r] THEN q.max[r] ELSE Inf]
FunctionOf(f) == [model |-> f, min |-> 1, max |-> Inf]
ResourceSet(m, q) ==
  {ResourceOf(m, q, r) : r \in Restricted(m, q)} \cup {FunctionOf(f) : f \in q.functions}

LEMMA ResourcesAre ==
  ASSUME NEW m, m \in AnyMission, NEW p
  PROVE  LET q == Requirement(m, p)
         IN /\ Resources(m, q) \in Seq(AnyResource)
            /\ ToSet(Resources(m, q)) = ResourceSet(m, q)
            /\ IsInjective(Resources(m, q))
            /\ \A s, t \in ResourceSet(m, q) : s.model = t.model => s = t
  <1>1. PICK q : q = Requirement(m, p)
    OBVIOUS
  <1>2. /\ \A r \in Model : q.min[r] \in 0..Inf /\ q.max[r] \in 0..Inf
        /\ q.functions \subseteq Function
    <2>1. IsRequirement(m, p, q)
      BY <1>1, RequirementIs
    <2> QED
      BY <2>1 DEF IsRequirement
  <1> DEFINE R == {ResourceOf(m, q, r) : r \in Restricted(m, q)}
             F == {FunctionOf(f) : f \in q.functions}
  <1>3. Resources(m, q) = SetToSeq(R) \o SetToSeq(F)
    BY DEF Resources, ResourceOf, FunctionOf
  <1>4. R \subseteq AnyResource /\ F \subseteq AnyResource
    BY <1>2, InfAssumption DEF AnyResource, ResourceOf, FunctionOf, Restricted
  <1>5. IsFiniteSet(R) /\ IsFiniteSet(F)
    <2>1. IsFiniteSet(Restricted(m, q)) /\ IsFiniteSet(q.functions)
      BY <1>2, FS_Subset, ResourceAssumption DEF Restricted
    <2>2. PICK g : g = [r \in Restricted(m, q) |-> ResourceOf(m, q, r)]
      OBVIOUS
    <2>3. PICK h : h = [f \in q.functions |-> FunctionOf(f)]
      OBVIOUS
    <2>4. R = {g[r] : r \in Restricted(m, q)} /\ g = [r \in Restricted(m, q) |-> g[r]]
      BY <2>2
    <2>5. F = {h[f] : f \in q.functions} /\ h = [f \in q.functions |-> h[f]]
      BY <2>3
    <2>6. IsFiniteSet({g[r] : r \in Restricted(m, q)}) /\ IsFiniteSet({h[f] : f \in q.functions})
      BY <2>1, <2>4, <2>5, FiniteImage
    <2> QED
      BY <2>4, <2>5, <2>6
  <1>6. \A s \in R : s.model \in Model /\ s = ResourceOf(m, q, s.model)
    BY DEF ResourceOf, Restricted
  <1>7. \A s \in F : s.model \in Function /\ s = FunctionOf(s.model)
    BY <1>2 DEF FunctionOf
  <1>8. \A s, t \in R \cup F : s.model = t.model => s = t
    BY <1>6, <1>7, ResourceAssumption
  <1>9. R \cap F = {}
    BY <1>6, <1>7, ResourceAssumption
  <1> HIDE DEF R, F
  <1>10. /\ SetToSeq(R) \in Seq(R) /\ ToSet(SetToSeq(R)) = R /\ IsInjective(SetToSeq(R))
         /\ SetToSeq(F) \in Seq(F) /\ ToSet(SetToSeq(F)) = F /\ IsInjective(SetToSeq(F))
    BY <1>5, SetListed
  <1>11. SetToSeq(R) \in Seq(AnyResource) /\ SetToSeq(F) \in Seq(AnyResource)
    BY <1>4, <1>10
  <1>12. /\ Resources(m, q) \in Seq(AnyResource)
         /\ ToSet(Resources(m, q)) = R \cup F
         /\ IsInjective(Resources(m, q))
    BY <1>3, <1>9, <1>10, <1>11, ConcatHas
  <1>13. R \cup F = ResourceSet(m, q)
    BY DEF R, F, ResourceSet
  <1> QED
    BY <1>1, <1>8, <1>12, <1>13

\* A requirement demands something if something is written for it.
LEMMA DemandIsWritten ==
  ASSUME NEW m, m \in AnyMission, NEW p
  PROVE  LET q == Requirement(m, p)
         IN Resources(m, q) # <<>> <=> Restricted(m, q) # {} \/ q.functions # {}
  <1>1. PICK s : s = Resources(m, Requirement(m, p))
    OBVIOUS
  <1>2. s \in Seq(AnyResource) /\ ToSet(s) = ResourceSet(m, Requirement(m, p))
    BY <1>1, ResourcesAre
  <1>3. s = <<>> <=> ToSet(s) = {}
    <2>1. s = <<>> <=> Len(s) = 0
      BY <1>2, EmptySeq
    <2>2. Len(s) \in Nat /\ DOMAIN s = 1..Len(s)
      BY <1>2, LenProperties
    <2>3. Len(s) = 0 <=> DOMAIN s = {}
      BY <2>2
    <2> QED
      BY <2>1, <2>3 DEF ToSet
  <1> QED
    BY <1>1, <1>2, <1>3 DEF ResourceSet

AnyTemporal == AnyOrder \cup AnyDuration

LEMMA DurationIs ==
  ASSUME NEW i \in Point, NEW j \in Point, NEW bs \in Seq(Nat \X Nat), bs # <<>>,
         \A b \in ToSet(bs) : InOrder(b)
  PROVE  [kind |-> "duration", from |-> i, to |-> j, bounds |-> bs] \in AnyDuration
  <1>1. PICK c : c = [kind |-> "duration", from |-> i, to |-> j, bounds |-> bs]
    OBVIOUS
  <1>2. c \in [kind : {"duration"}, from : Point, to : Point, bounds : Seq(Nat \X Nat)]
    BY <1>1
  <1>3. c.bounds = bs
    BY <1>1
  <1> HIDE DEF InOrder
  <1> QED
    BY <1>1, <1>2, <1>3 DEF AnyDuration

LEMMA ModelIs ==
  ASSUME NEW r \in Model, NEW refs \in Seq(AnyPlace), refs # <<>>
  PROVE  [kind |-> "model", model |-> r, refs |-> refs] \in AnyModel
  BY DEF AnyModel

\* The elements of an order or a duration: all the same to the code.
LEMMA ElementsAre ==
  ASSUME NEW c \in AnyTemporal
  PROVE  /\ Elements(c) \in Seq(AnyTemporal)
         /\ AsRead(c) \in ToSet(Elements(c)) /\ AsRead(c) = Elements(c)[1]
         /\ \A e \in ToSet(Elements(c)) :
              /\ e \in AnyTemporal /\ Identity(e) = Identity(c) /\ e.kind = c.kind
              /\ e.kind = "duration" => e.bounds[1][1] <= e.bounds[1][2]
              /\ e.kind = "order" => e = c
  <1>1. CASE c \in AnyOrder
    <2>1. c.kind = "order" /\ c.kind # "duration" /\ c \in AnyTemporal
      BY <1>1 DEF AnyOrder, AnyTemporal
    <2>2. Elements(c) = <<c>> /\ AsRead(c) = c
      BY <2>1 DEF Elements, AsRead
    <2>3. <<c>> \in Seq(AnyTemporal) /\ ToSet(<<c>>) = {c} /\ <<c>>[1] = c
      BY <2>1, ShortSeqs
    <2>4. PICK s : s = Elements(c)
      OBVIOUS
    <2>5. s \in Seq(AnyTemporal) /\ ToSet(s) = {c} /\ s[1] = c
      BY <2>2, <2>3, <2>4
    <2> QED
      BY <2>1, <2>2, <2>4, <2>5
  <1>2. CASE c \in AnyDuration
    <2>1. /\ c.kind = "duration" /\ c.from \in Point /\ c.to \in Point
          /\ c.bounds \in Seq(Nat \X Nat) /\ c.bounds # <<>>
          /\ \A b \in ToSet(c.bounds) : InOrder(b)
          /\ c = [kind |-> "duration", from |-> c.from, to |-> c.to, bounds |-> c.bounds]
      BY <1>2 DEF AnyDuration
    <2> DEFINE Rounded(n) == <<SixDigits(c.bounds[n][1]), SixDigits(c.bounds[n][2])>>
    <2>2. PICK s : s = Elements(c)
      OBVIOUS
    <2>3. /\ Len(c.bounds) \in Nat /\ DOMAIN c.bounds = 1..Len(c.bounds) /\ 1 \in DOMAIN c.bounds
          /\ \A n \in DOMAIN c.bounds : c.bounds[n] \in Nat \X Nat /\ InOrder(c.bounds[n])
      <3>1. Len(c.bounds) \in Nat /\ DOMAIN c.bounds = 1..Len(c.bounds) /\ Len(c.bounds) # 0
        BY <2>1, LenProperties, EmptySeq
      <3> QED
        BY <2>1, <3>1, ElementOfSeq DEF ToSet
    <2>4. s = [n \in DOMAIN c.bounds |-> [c EXCEPT !.bounds = << Rounded(n) >>]]
      BY <2>1, <2>2 DEF Elements
    <2>5. \A n \in DOMAIN c.bounds :
            s[n] = [kind |-> "duration", from |-> c.from, to |-> c.to, bounds |-> << Rounded(n) >>]
      BY <2>1, <2>4
    <2>6. ASSUME NEW n \in DOMAIN c.bounds
          PROVE  Rounded(n) \in Nat \X Nat /\ InOrder(Rounded(n)) /\ Rounded(n)[1] <= Rounded(n)[2]
      <3>1. PICK x \in Nat, y \in Nat : c.bounds[n] = <<x, y>>
        BY <2>3
      <3>2. x <= y /\ y <= Inf
        BY <2>3, <3>1 DEF InOrder
      <3>3. /\ SixDigits(x) \in Nat /\ SixDigits(y) \in Nat
            /\ SixDigits(x) <= SixDigits(y) /\ SixDigits(y) <= Inf
        BY <3>2, SixDigitsFacts
      <3> QED
        BY <3>1, <3>3 DEF InOrder
    <2> HIDE DEF Rounded
    <2>7. ASSUME NEW n \in DOMAIN c.bounds
          PROVE  /\ s[n] \in AnyDuration /\ s[n].kind = "duration" /\ Identity(s[n]) = Identity(c)
                 /\ s[n].bounds[1][1] <= s[n].bounds[1][2]
      <3>1. PICK r : r = Rounded(n)
        OBVIOUS
      <3>2. r \in Nat \X Nat /\ InOrder(r) /\ r[1] <= r[2]
        BY <2>6, <3>1
      <3>3. <<r>> \in Seq(Nat \X Nat) /\ ToSet(<<r>>) = {r} /\ <<r>> # <<>> /\ <<r>>[1] = r
        BY <3>2, ShortSeqs
      <3>4. s[n] = [kind |-> "duration", from |-> c.from, to |-> c.to, bounds |-> <<r>>]
        BY <2>5, <3>1
      <3>5. s[n] \in AnyDuration /\ s[n].bounds = <<r>> /\ s[n].kind = "duration"
        <4>1. PICK b : b = <<r>>
          OBVIOUS
        <4>2. b \in Seq(Nat \X Nat) /\ b # <<>> /\ \A x \in ToSet(b) : InOrder(x)
          BY <3>2, <3>3, <4>1
        <4>3. s[n] = [kind |-> "duration", from |-> c.from, to |-> c.to, bounds |-> b]
          BY <3>4, <4>1
        <4>4. [kind |-> "duration", from |-> c.from, to |-> c.to, bounds |-> b] \in AnyDuration
          <5>1. c.from \in Point /\ c.to \in Point
            BY <2>1
          <5> QED
            BY <4>2, <5>1, DurationIs
        <4>5. s[n].bounds = b /\ s[n].kind = "duration"
          BY <4>3
        <4> QED
          BY <4>1, <4>3, <4>4, <4>5
      <3>6. Identity(s[n]) = Identity(c)
        <4>1. Identity(c) = [kind |-> "duration", from |-> c.from, to |-> c.to, bounds |-> <<>>]
          BY <2>1 DEF Identity
        <4>2. PICK b : b = <<r>>
          OBVIOUS
        <4>3. s[n] = [kind |-> "duration", from |-> c.from, to |-> c.to, bounds |-> b]
          BY <3>4, <4>2
        <4>4. Identity(s[n]) = [kind |-> "duration", from |-> c.from, to |-> c.to, bounds |-> <<>>]
          BY <4>3 DEF Identity
        <4> QED
          BY <4>1, <4>4
      <3> QED
        BY <3>2, <3>3, <3>5, <3>6
    <2>8. s = [n \in 1..Len(c.bounds) |-> s[n]] /\ \A n \in 1..Len(c.bounds) : s[n] \in AnyTemporal
      BY <2>3, <2>4, <2>7 DEF AnyTemporal
    <2>9. s \in Seq(AnyTemporal) /\ DOMAIN s = DOMAIN c.bounds
      BY <2>3, <2>8, MakeSeq
    <2>10. AsRead(c) = s[1]
      BY <2>1, <2>2 DEF AsRead
    <2>11. ASSUME NEW e \in ToSet(s)
           PROVE  /\ e \in AnyTemporal /\ Identity(e) = Identity(c) /\ e.kind = c.kind
                  /\ e.kind = "duration" /\ e.bounds[1][1] <= e.bounds[1][2]
      <3>1. PICK n \in DOMAIN c.bounds : e = s[n]
        BY <2>9 DEF ToSet
      <3> QED
        BY <2>1, <2>7, <3>1 DEF AnyTemporal
    <2>12. s[1] \in ToSet(s)
      BY <2>3, <2>9 DEF ToSet
    <2>13. AsRead(c) \in ToSet(s) /\ AsRead(c) = s[1] /\ s \in Seq(AnyTemporal)
      BY <2>9, <2>10, <2>12
    <2> QED
      BY <2>2, <2>11, <2>13
  <1> QED
    BY <1>1, <1>2 DEF AnyTemporal

\* The constraints that a mission does not imply.
Explicit(m) == {c \in ToSet(m.constraints) \ m.implicit : c.kind # "model"}
ModelOnly(m) == {c \in ToSet(m.constraints) : c.kind = "model"}

\* The elements of the explicit orders and durations, and of each the first one first.
LEMMA TemporalElementsAre ==
  ASSUME NEW m, m \in AnyMission
  PROVE  /\ TemporalElements(m) \in Seq(AnyTemporal)
         /\ \A e : e \in ToSet(TemporalElements(m)) <=> \E c \in Explicit(m) : e \in ToSet(Elements(c))
         /\ \A i \in DOMAIN TemporalElements(m) : \E c \in Explicit(m) : \E j \in 1..i :
              TemporalElements(m)[i] \in ToSet(Elements(c)) /\ TemporalElements(m)[j] = AsRead(c)
         /\ Explicit(m) \subseteq AnyTemporal
  <1> DEFINE Left(c) == c.kind = "model" \/ c \in m.implicit
  <1>1. PICK ss : ss = [n \in DOMAIN m.constraints |->
                          IF Left(m.constraints[n]) THEN <<>> ELSE Elements(m.constraints[n])]
    OBVIOUS
  <1>2. TemporalElements(m) = FlattenSeq(ss)
    BY <1>1 DEF TemporalElements
  <1>3. /\ Len(m.constraints) \in Nat /\ DOMAIN m.constraints = 1..Len(m.constraints)
        /\ \A n \in DOMAIN m.constraints :
             m.constraints[n] \in AnyConstraint /\ m.constraints[n] \in ToSet(m.constraints)
    BY MissionParts, LenProperties, ElementOfSeq DEF ToSet
  <1>4. \A c \in AnyConstraint : ~ Left(c) => c \in AnyTemporal
    BY DEF AnyConstraint, AnyModel, AnyTemporal
  <1>5. \A n \in DOMAIN m.constraints :
          ~ Left(m.constraints[n]) <=> m.constraints[n] \in Explicit(m)
    BY <1>3 DEF Explicit
  <1>6. Explicit(m) \subseteq AnyTemporal
    BY <1>4, MissionParts DEF Explicit
  <1> HIDE DEF Left
  <1>7. \A n \in DOMAIN m.constraints : ss[n] \in Seq(AnyTemporal)
    <2>1. \A c \in AnyTemporal : Elements(c) \in Seq(AnyTemporal)
      BY ElementsAre
    <2> QED
      BY <1>1, <1>3, <1>4, <2>1
  <1>8. ss \in Seq(Seq(AnyTemporal)) /\ DOMAIN ss = DOMAIN m.constraints
    <2>1. ss = [n \in 1..Len(m.constraints) |-> ss[n]]
      BY <1>1, <1>3
    <2>2. \A n \in 1..Len(m.constraints) : ss[n] \in Seq(AnyTemporal)
      BY <1>3, <1>7
    <2> QED
      BY <1>3, <2>1, <2>2, MakeSeq
  <1>9. /\ FlattenSeq(ss) \in Seq(AnyTemporal)
        /\ \A v : v \in ToSet(FlattenSeq(ss)) <=> \E n \in DOMAIN ss : v \in ToSet(ss[n])
    BY <1>8, Flattened
  <1>10. ASSUME NEW n \in DOMAIN ss, NEW e \in ToSet(ss[n])
         PROVE  m.constraints[n] \in Explicit(m) /\ ss[n] = Elements(m.constraints[n])
    <2>1. ToSet(<<>>) = {}
      BY DEF ToSet
    <2>2. ~ Left(m.constraints[n])
      BY <1>1, <1>8, <2>1
    <2> QED
      BY <1>1, <1>5, <1>8, <2>2
  <1>11. ASSUME NEW c \in Explicit(m)
         PROVE  \E n \in DOMAIN ss : ss[n] = Elements(c)
    <2>1. PICK n \in DOMAIN m.constraints : c = m.constraints[n]
      BY DEF Explicit, ToSet
    <2> QED
      BY <1>1, <1>5, <1>8, <2>1
  <1>12. \A e : e \in ToSet(FlattenSeq(ss)) <=> \E c \in Explicit(m) : e \in ToSet(Elements(c))
    BY <1>9, <1>10, <1>11
  <1>13. ASSUME NEW i \in DOMAIN FlattenSeq(ss)
         PROVE  \E c \in Explicit(m) : \E j \in 1..i :
                  FlattenSeq(ss)[i] \in ToSet(Elements(c)) /\ FlattenSeq(ss)[j] = AsRead(c)
    <2>1. PICK n \in DOMAIN ss, j \in 1..i :
            FlattenSeq(ss)[i] \in ToSet(ss[n]) /\ FlattenSeq(ss)[j] = ss[n][1]
      BY <1>8, FlattenedFirst
    <2>2. m.constraints[n] \in Explicit(m) /\ ss[n] = Elements(m.constraints[n])
      BY <1>10, <2>1
    <2>3. AsRead(m.constraints[n]) = ss[n][1]
      BY <1>6, <2>2, ElementsAre
    <2> QED
      BY <2>1, <2>2, <2>3
  <1> QED
    BY <1>2, <1>6, <1>9, <1>12, <1>13

\* A model constraint as it is written, with what its places are written as.
WrittenModel(m, c, stray) ==
  [kind |-> "model", model |-> c.model,
   refs |-> [k \in DOMAIN c.refs |-> Reference(Places(m), c.refs[k], stray)]]

LEMMA ModelElementsAre ==
  ASSUME NEW m, m \in AnyMission, NEW stray
  PROVE  LET V == {WrittenModel(m, c, stray) : c \in ModelOnly(m)}
         IN ModelElements(m, stray) \in Seq(V) /\ ToSet(ModelElements(m, stray)) = V
  <1> DEFINE V == {WrittenModel(m, c, stray) : c \in ModelOnly(m)}
             Refs(c) == [k \in DOMAIN c.refs |-> Reference(Places(m), c.refs[k], stray)]
             Changed(c) == [c EXCEPT !.refs = Refs(c)]
  <1>1. PICK ss : ss = [n \in DOMAIN m.constraints |->
                          IF m.constraints[n].kind = "model" THEN << Changed(m.constraints[n]) >> ELSE <<>>]
    OBVIOUS
  <1>2. ModelElements(m, stray) = FlattenSeq(ss)
    BY <1>1 DEF ModelElements
  <1>3. /\ Len(m.constraints) \in Nat /\ DOMAIN m.constraints = 1..Len(m.constraints)
        /\ \A n \in DOMAIN m.constraints :
             m.constraints[n] \in AnyConstraint /\ m.constraints[n] \in ToSet(m.constraints)
    BY MissionParts, LenProperties, ElementOfSeq DEF ToSet
  <1>4. ASSUME NEW c \in ModelOnly(m) PROVE Changed(c) = WrittenModel(m, c, stray)
    <2>1. c \in AnyModel
      BY MissionParts DEF ModelOnly, AnyConstraint, AnyOrder, AnyDuration
    <2>2. c = [kind |-> "model", model |-> c.model, refs |-> c.refs]
      BY <2>1 DEF AnyModel
    <2>3. PICK r : r = Refs(c)
      OBVIOUS
    <2>4. [c EXCEPT !.refs = r] = [kind |-> "model", model |-> c.model, refs |-> r]
      BY <2>2
    <2> QED
      BY <2>3, <2>4 DEF WrittenModel
  <1>5. \A n \in DOMAIN m.constraints :
          m.constraints[n].kind = "model" <=> m.constraints[n] \in ModelOnly(m)
    BY <1>3 DEF ModelOnly
  <1> HIDE DEF Changed, Refs
  <1>6. DOMAIN ss = DOMAIN m.constraints
    BY <1>1
  <1>7. \A n \in DOMAIN m.constraints :
          ss[n] = IF m.constraints[n].kind = "model" THEN << WrittenModel(m, m.constraints[n], stray) >> ELSE <<>>
    BY <1>1, <1>4, <1>5
  <1>8. ASSUME NEW n \in DOMAIN m.constraints
        PROVE  /\ ss[n] \in Seq(V)
               /\ ToSet(ss[n]) = IF m.constraints[n] \in ModelOnly(m)
                                 THEN {WrittenModel(m, m.constraints[n], stray)} ELSE {}
    <2>1. CASE m.constraints[n] \in ModelOnly(m)
      <3>1. PICK w \in V : w = WrittenModel(m, m.constraints[n], stray)
        BY <2>1
      <3>2. ss[n] = <<w>>
        BY <1>5, <1>7, <2>1, <3>1
      <3>3. <<w>> \in Seq(V) /\ ToSet(<<w>>) = {w}
        <4> HIDE DEF V
        <4> QED
          BY <3>1, ShortSeqs
      <3> HIDE DEF V
      <3> QED
        BY <2>1, <3>1, <3>2, <3>3
    <2>2. CASE m.constraints[n] \notin ModelOnly(m)
      <3>1. ss[n] = <<>>
        BY <1>5, <1>7, <2>2
      <3>2. <<>> \in Seq(V) /\ ToSet(<<>>) = {}
        BY DEF ToSet
      <3> QED
        BY <2>2, <3>1, <3>2
    <2> QED
      BY <2>1, <2>2
  <1>9. \A w \in V : \E n \in DOMAIN m.constraints :
          m.constraints[n] \in ModelOnly(m) /\ w = WrittenModel(m, m.constraints[n], stray)
    BY DEF ModelOnly, ToSet
  <1> HIDE DEF V
  <1>10. ss \in Seq(Seq(V))
    <2>1. ss = [n \in 1..Len(m.constraints) |-> ss[n]]
      BY <1>1, <1>3
    <2>2. \A n \in 1..Len(m.constraints) : ss[n] \in Seq(V)
      BY <1>3, <1>8
    <2> QED
      BY <1>3, <2>1, <2>2, MakeSeq
  <1>11. /\ FlattenSeq(ss) \in Seq(V)
         /\ \A v : v \in ToSet(FlattenSeq(ss)) <=> \E n \in DOMAIN ss : v \in ToSet(ss[n])
    BY <1>10, Flattened
  <1>12. ToSet(FlattenSeq(ss)) = V
    <2>1. ASSUME NEW v \in ToSet(FlattenSeq(ss)) PROVE v \in V
      <3>1. PICK n \in DOMAIN ss : v \in ToSet(ss[n])
        BY <1>11
      <3> QED
        BY <1>6, <1>8, <3>1 DEF V
    <2>2. ASSUME NEW v \in V PROVE v \in ToSet(FlattenSeq(ss))
      BY <1>6, <1>8, <1>9, <1>11
    <2> QED
      BY <2>1, <2>2
  <1> QED
    BY <1>2, <1>11, <1>12 DEF V

LEMMA WrittenIs ==
  ASSUME NEW m, m \in AnyMission, NEW positions, NEW stray,
         NEW f, f = Written(m, positions, stray), NEW ps, ps = Places(m)
  PROVE  /\ f.pool = m.pool /\ DOMAIN f.constants = m.locations
         /\ \A l \in m.locations : f.constants[l] = SixDigits(positions[l])
         /\ f.temporal = TemporalElements(m) /\ f.model = ModelElements(m, stray)
         /\ DOMAIN f.requirements = DOMAIN ps
         /\ \A n \in DOMAIN ps :
              /\ f.requirements[n].id = n - 1 /\ f.requirements[n].place = ps[n]
              /\ f.requirements[n].resources = Resources(m, Requirement(m, ps[n]))
         /\ f # NoFile
  <1>1. /\ f.pool = m.pool /\ f.constants = [l \in m.locations |-> SixDigits(positions[l])]
        /\ f.temporal = TemporalElements(m) /\ f.model = ModelElements(m, stray)
        /\ f.requirements = [n \in DOMAIN ps |->
                               [id |-> n - 1, place |-> ps[n],
                                resources |-> Resources(m, Requirement(m, ps[n]))]]
    BY DEF Written
  <1>2. f # NoFile
    <2>1. "model" \in DOMAIN f /\ DOMAIN NoFile = {"pool"}
      BY DEF Written, NoFile
    <2> QED
      BY <2>1
  <1> QED
    BY <1>1, <1>2

(***************************************************************************)
(* What is read.                                                           *)
(***************************************************************************)

\* The conditions that a resource of a requirement becomes.
MinCondition(p, s) ==
  [location |-> p[1], interval |-> p[2], model |-> s.model, type |-> "min", card |-> s.min]
MaxCondition(p, s) ==
  [location |-> p[1], interval |-> p[2], model |-> s.model, type |-> "max", card |-> s.max]

LEMMA ConditionsOfIs ==
  ASSUME NEW q, NEW p \in Location \X Intervals, q.place = p, NEW s \in AnyResource
  PROVE  /\ ConditionsOf(q, s) \in Seq(AnyCondition)
         /\ ToSet(ConditionsOf(q, s)) = {MinCondition(p, s), MaxCondition(p, s)}
         /\ IsInjective(ConditionsOf(q, s))
  <1>1. ConditionsOf(q, s) = <<MinCondition(p, s), MaxCondition(p, s)>>
    BY DEF ConditionsOf, MinCondition, MaxCondition
  <1>2. /\ MinCondition(p, s) \in AnyCondition /\ MaxCondition(p, s) \in AnyCondition
        /\ MinCondition(p, s) # MaxCondition(p, s)
    BY DEF MinCondition, MaxCondition, AnyCondition, AnyResource
  <1>3. PICK x \in AnyCondition, y \in AnyCondition : x = MinCondition(p, s) /\ y = MaxCondition(p, s) /\ x # y
    BY <1>2
  <1>4. <<x, y>> \in Seq(AnyCondition) /\ ToSet(<<x, y>>) = {x, y} /\ IsInjective(<<x, y>>)
    <2>1. x # y
      BY <1>3
    <2> QED
      BY <2>1, PairSeq
  <1> QED
    BY <1>1, <1>3, <1>4

\* Those of a requirement.
LEMMA RequirementConditions ==
  ASSUME NEW m, m \in AnyMission, NEW p \in Location \X Intervals, NEW q, q.place = p,
         q.resources = Resources(m, Requirement(m, p))
  PROVE  LET cs == FlattenSeq([k \in DOMAIN q.resources |-> ConditionsOf(q, q.resources[k])])
             R == ResourceSet(m, Requirement(m, p))
         IN /\ cs \in Seq(AnyCondition) /\ IsInjective(cs)
            /\ \A x : x \in ToSet(cs) <=> \E s \in R : x = MinCondition(p, s) \/ x = MaxCondition(p, s)
  <1>1. PICK rs : rs = q.resources
    OBVIOUS
  <1>2. PICK R : R = ResourceSet(m, Requirement(m, p))
    OBVIOUS
  <1>3. /\ rs \in Seq(AnyResource) /\ ToSet(rs) = R /\ IsInjective(rs)
        /\ \A s, t \in R : s.model = t.model => s = t
    BY <1>1, <1>2, ResourcesAre
  <1>4. /\ Len(rs) \in Nat /\ DOMAIN rs = 1..Len(rs)
        /\ \A k \in DOMAIN rs : rs[k] \in AnyResource /\ rs[k] \in R
    BY <1>3, LenProperties, ElementOfSeq DEF ToSet
  <1>5. PICK ss : ss = [k \in DOMAIN rs |-> ConditionsOf(q, rs[k])]
    OBVIOUS
  <1>6. /\ DOMAIN ss = 1..Len(rs)
        /\ \A k \in DOMAIN rs : /\ ss[k] \in Seq(AnyCondition) /\ IsInjective(ss[k])
                                /\ ToSet(ss[k]) = {MinCondition(p, rs[k]), MaxCondition(p, rs[k])}
    BY <1>4, <1>5, ConditionsOfIs
  <1>7. ss \in Seq(Seq(AnyCondition))
    <2>1. ss = [k \in 1..Len(rs) |-> ss[k]]
      BY <1>4, <1>5
    <2> QED
      BY <1>4, <1>6, <2>1, MakeSeq
  <1>8. ASSUME NEW i \in DOMAIN ss, NEW j \in DOMAIN ss, i # j
        PROVE  ToSet(ss[i]) \cap ToSet(ss[j]) = {}
    <2>1. rs[i].model # rs[j].model
      BY <1>3, <1>4, <1>6, <1>8 DEF IsInjective
    <2>2. \A x \in ToSet(ss[i]) : x.model = rs[i].model
      BY <1>4, <1>6 DEF MinCondition, MaxCondition
    <2>3. \A x \in ToSet(ss[j]) : x.model = rs[j].model
      BY <1>4, <1>6 DEF MinCondition, MaxCondition
    <2> QED
      BY <2>1, <2>2, <2>3
  <1>9. /\ FlattenSeq(ss) \in Seq(AnyCondition)
        /\ \A v : v \in ToSet(FlattenSeq(ss)) <=> \E n \in DOMAIN ss : v \in ToSet(ss[n])
        /\ IsInjective(FlattenSeq(ss))
    BY <1>4, <1>6, <1>7, <1>8, Flattened
  <1>10. ASSUME NEW x
         PROVE  x \in ToSet(FlattenSeq(ss)) <=> \E s \in R : x = MinCondition(p, s) \/ x = MaxCondition(p, s)
    <2>1. \A s \in R : \E n \in DOMAIN rs : s = rs[n]
      BY <1>3 DEF ToSet
    <2> QED
      BY <1>4, <1>6, <1>9, <2>1
  <1> QED
    BY <1>1, <1>2, <1>5, <1>9, <1>10

LEMMA ReadConditionsAre ==
  ASSUME NEW m, m \in AnyMission, NEW positions, NEW stray
  PROVE  LET cs == ReadConditions(Written(m, positions, stray))
         IN /\ cs \in Seq(AnyCondition) /\ IsInjective(cs)
            /\ \A x : x \in ToSet(cs) <=>
                 \E p \in ToSet(Places(m)) : \E s \in ResourceSet(m, Requirement(m, p)) :
                   x = MinCondition(p, s) \/ x = MaxCondition(p, s)
  <1>1. PICK f : f = Written(m, positions, stray)
    OBVIOUS
  <1>2. PICK ps : ps = Places(m)
    OBVIOUS
  <1>3. /\ ps \in Seq(Location \X Intervals) /\ IsInjective(ps)
        /\ Len(ps) \in Nat /\ DOMAIN ps = 1..Len(ps)
        /\ \A n \in DOMAIN ps : ps[n] \in Location \X Intervals /\ ps[n] \in ToSet(ps)
    BY <1>2, PlacesAre, LenProperties, ElementOfSeq DEF ToSet
  <1> DEFINE Part(q) == FlattenSeq([k \in DOMAIN q.resources |-> ConditionsOf(q, q.resources[k])])
  <1>4. PICK ss : ss = [n \in DOMAIN f.requirements |-> Part(f.requirements[n])]
    OBVIOUS
  <1>5. ReadConditions(f) = FlattenSeq(ss)
    BY <1>4 DEF ReadConditions
  <1>6. /\ DOMAIN f.requirements = DOMAIN ps
        /\ \A n \in DOMAIN ps : /\ f.requirements[n].place = ps[n]
                                /\ f.requirements[n].resources = Resources(m, Requirement(m, ps[n]))
    BY <1>1, <1>2, WrittenIs
  <1>7. ASSUME NEW n \in DOMAIN ps
        PROVE  /\ ss[n] \in Seq(AnyCondition) /\ IsInjective(ss[n])
               /\ \A x : x \in ToSet(ss[n]) <=> \E s \in ResourceSet(m, Requirement(m, ps[n])) :
                           x = MinCondition(ps[n], s) \/ x = MaxCondition(ps[n], s)
    <2>1. PICK q : q = f.requirements[n]
      OBVIOUS
    <2>2. PICK p \in Location \X Intervals : p = ps[n]
      BY <1>3
    <2>3. q.place = p /\ q.resources = Resources(m, Requirement(m, p))
      BY <1>6, <2>1, <2>2
    <2>4. ss[n] = Part(q)
      BY <1>4, <1>6, <2>1
    <2>5. /\ Part(q) \in Seq(AnyCondition) /\ IsInjective(Part(q))
          /\ \A x : x \in ToSet(Part(q)) <=> \E s \in ResourceSet(m, Requirement(m, p)) :
                      x = MinCondition(p, s) \/ x = MaxCondition(p, s)
      BY <2>3, RequirementConditions
    <2> HIDE DEF Part
    <2> QED
      BY <2>2, <2>4, <2>5
  <1>8. DOMAIN ss = DOMAIN ps
    BY <1>4, <1>6
  <1> HIDE DEF Part
  <1>9. ss \in Seq(Seq(AnyCondition))
    <2>1. ss = [n \in 1..Len(ps) |-> ss[n]]
      BY <1>3, <1>4, <1>6
    <2>2. \A n \in 1..Len(ps) : ss[n] \in Seq(AnyCondition)
      BY <1>3, <1>7
    <2> QED
      BY <1>3, <2>1, <2>2, MakeSeq
  <1>10. ASSUME NEW i \in DOMAIN ss, NEW j \in DOMAIN ss, i # j
         PROVE  ToSet(ss[i]) \cap ToSet(ss[j]) = {}
    <2>1. ps[i] # ps[j]
      BY <1>3, <1>8, <1>10 DEF IsInjective
    <2>2. \A x \in ToSet(ss[i]) : x.location = ps[i][1] /\ x.interval = ps[i][2]
      BY <1>7, <1>8 DEF MinCondition, MaxCondition
    <2>3. \A x \in ToSet(ss[j]) : x.location = ps[j][1] /\ x.interval = ps[j][2]
      BY <1>7, <1>8 DEF MinCondition, MaxCondition
    <2>4. ps[i][1] # ps[j][1] \/ ps[i][2] # ps[j][2]
      BY <1>3, <1>8, <2>1
    <2> QED
      BY <2>2, <2>3, <2>4
  <1>11. /\ FlattenSeq(ss) \in Seq(AnyCondition)
         /\ \A v : v \in ToSet(FlattenSeq(ss)) <=> \E n \in DOMAIN ss : v \in ToSet(ss[n])
         /\ IsInjective(FlattenSeq(ss))
    BY <1>7, <1>8, <1>9, <1>10, Flattened
  <1>12. ASSUME NEW x
         PROVE  x \in ToSet(FlattenSeq(ss)) <=>
                  \E p \in ToSet(ps) : \E s \in ResourceSet(m, Requirement(m, p)) :
                    x = MinCondition(p, s) \/ x = MaxCondition(p, s)
    <2>1. \A p \in ToSet(ps) : \E n \in DOMAIN ps : p = ps[n]
      BY DEF ToSet
    <2> QED
      BY <1>3, <1>7, <1>8, <1>11, <2>1
  <1> QED
    BY <1>1, <1>2, <1>5, <1>11, <1>12

\* What a place is written as means that place, if there is a requirement for it, and
\* another place of a requirement otherwise.
LEMMA ReferredIs ==
  ASSUME NEW m, m \in AnyMission, NEW positions, NEW stray, NEW p \in AnyPlace,
         p[2] = FullMission => p[1] \in m.locations
  PROVE  LET found == Referred(Written(m, positions, stray), Reference(Places(m), p, stray))
         IN /\ p[2] = FullMission \/ p \in ToSet(Places(m)) => found = {p}
            /\ \A o \in found : o \in AnyPlace /\ (o[2] = FullMission => o[1] \in m.locations)
  <1>1. PICK f : f = Written(m, positions, stray)
    OBVIOUS
  <1>2. PICK ps : ps = Places(m)
    OBVIOUS
  <1>3. /\ ps \in Seq(Location \X Intervals) /\ IsInjective(ps)
        /\ Len(ps) \in Nat /\ DOMAIN ps = 1..Len(ps)
        /\ \A n \in DOMAIN ps : ps[n] \in Location \X Intervals /\ ps[n] \in ToSet(ps)
    BY <1>2, PlacesAre, LenProperties, ElementOfSeq DEF ToSet
  <1>4. /\ DOMAIN f.requirements = DOMAIN ps /\ DOMAIN f.constants = m.locations
        /\ \A n \in DOMAIN ps : f.requirements[n].place = ps[n] /\ f.requirements[n].id = n - 1
    BY <1>1, <1>2, WrittenIs
  <1>5. \A o \in Location \X Intervals : o \in AnyPlace /\ o[2] # FullMission
    <2>1. \A i \in Intervals : i # FullMission
      <3>1. \A i \in Intervals : \E x \in Point, y \in Point : i = <<x, y>>
        BY IntervalsAssumption
      <3>2. \A x, y : <<x, y>> # <<>>
        OBVIOUS
      <3> QED
        BY <3>1, <3>2 DEF FullMission
    <2> QED
      BY <2>1 DEF AnyPlace
  <1>6. CASE p[2] = FullMission
    <2>1. Reference(ps, p, stray) = <<"location", p[1]>>
      <3>1. p \notin ToSet(ps)
        <4>1. \A o \in ToSet(ps) : o \in Location \X Intervals
          BY <1>3 DEF ToSet
        <4> QED
          BY <1>5, <1>6, <4>1
      <3> QED
        BY <1>6, <3>1 DEF Reference
    <2>2. <<"location", p[1]>>[1] = "location" /\ <<"location", p[1]>>[2] = p[1]
      OBVIOUS
    <2>3. Referred(f, <<"location", p[1]>>) = {<<l, FullMission>> : l \in {p[1]} \cap DOMAIN f.constants}
      BY <2>2 DEF Referred
    <2>4. {p[1]} \cap DOMAIN f.constants = {p[1]}
      BY <1>4, <1>6
    <2>5. <<p[1], FullMission>> = p
      BY <1>6 DEF AnyPlace
    <2>6. Referred(f, <<"location", p[1]>>) = {p}
      BY <2>3, <2>4, <2>5
    <2> QED
      BY <1>1, <1>2, <2>1, <2>6
  <1>7. ASSUME NEW n, Reference(ps, p, stray) = <<"id", n>>
        PROVE  Referred(f, <<"id", n>>) = {ps[k] : k \in {j \in DOMAIN ps : j - 1 = n}}
    <2>1. Referred(f, <<"id", n>>) = {q.place : q \in {r \in ToSet(f.requirements) : r.id = n}}
      BY DEF Referred
    <2> QED
      BY <1>4, <2>1 DEF ToSet
  <1>8. CASE p[2] # FullMission /\ p \in ToSet(ps)
    <2> DEFINE N == CHOOSE k \in 1..Len(ps) : ps[k] = p
    <2>1. N \in DOMAIN ps /\ ps[N] = p
      BY <1>3, <1>8 DEF ToSet
    <2>2. Reference(ps, p, stray) = <<"id", N - 1>>
      BY <1>8 DEF Reference
    <2> HIDE DEF N
    <2>3. {j \in DOMAIN ps : j - 1 = N - 1} = {N}
      BY <1>3, <2>1
    <2>4. Referred(f, <<"id", N - 1>>) = {p}
      BY <1>7, <2>1, <2>2, <2>3
    <2> QED
      BY <1>1, <1>2, <1>8, <2>2, <2>4
  <1>9. CASE p[2] # FullMission /\ p \notin ToSet(ps)
    <2>1. Reference(ps, p, stray) = <<"id", stray>>
      BY <1>9 DEF Reference
    <2>2. Referred(f, <<"id", stray>>) = {ps[k] : k \in {j \in DOMAIN ps : j - 1 = stray}}
      BY <1>7, <2>1
    <2>3. \A o \in Referred(f, <<"id", stray>>) : o \in Location \X Intervals
      BY <1>3, <2>2
    <2> QED
      BY <1>1, <1>2, <1>5, <1>9, <2>1, <2>3
  <1> QED
    BY <1>6, <1>8, <1>9

\* A model constraint as it is read, with what its references mean.
ReadModel(f, w) ==
  [kind |-> "model", model |-> w.model,
   refs |-> [k \in DOMAIN w.refs |-> CHOOSE p \in Referred(f, w.refs[k]) : TRUE]]

\* The references of a file mean something.
Resolved(f) == \A c \in ToSet(f.model) : \A ref \in ToSet(c.refs) : Referred(f, ref) # {}

LEMMA ModelOnlyIs ==
  ASSUME NEW m, MissionInv(m), NEW c \in ModelOnly(m)
  PROVE  /\ c \in AnyModel /\ c = [kind |-> "model", model |-> c.model, refs |-> c.refs]
         /\ c.model \in Model /\ c.refs \in Seq(AnyPlace) /\ c.refs # <<>>
         /\ Len(c.refs) \in Nat /\ DOMAIN c.refs = 1..Len(c.refs) /\ Len(c.refs) # 0
         /\ \A k \in DOMAIN c.refs :
              /\ c.refs[k] \in AnyPlace /\ c.refs[k] \in ToSet(c.refs)
              /\ c.refs[k][2] = FullMission => c.refs[k][1] \in m.locations
         /\ c \notin m.implicit
  <1>1. m \in AnyMission /\ c \in ToSet(m.constraints) /\ c.kind = "model"
    BY DEF MissionInv, ModelOnly
  <1>2. c \in AnyModel
    BY <1>1, MissionParts DEF AnyConstraint, AnyOrder, AnyDuration
  <1>3. /\ c = [kind |-> "model", model |-> c.model, refs |-> c.refs]
        /\ c.model \in Model /\ c.refs \in Seq(AnyPlace) /\ c.refs # <<>>
    BY <1>2 DEF AnyModel
  <1>4. Len(c.refs) \in Nat /\ DOMAIN c.refs = 1..Len(c.refs) /\ Len(c.refs) # 0
    BY <1>3, LenProperties, EmptySeq
  <1>5. \A k \in DOMAIN c.refs : c.refs[k] \in AnyPlace /\ c.refs[k] \in ToSet(c.refs)
    BY <1>3, <1>4, ElementOfSeq DEF ToSet
  <1>6. \A p \in ToSet(c.refs) : p[2] = FullMission => p[1] \in m.locations
    BY <1>1 DEF MissionInv, Located
  <1>7. c \notin m.implicit
    BY <1>1 DEF MissionInv, Implied, Order
  <1> QED
    BY <1>2, <1>3, <1>4, <1>5, <1>6, <1>7

\* A model constraint is read as it was if its places had requirements, and as one about
\* the places of other requirements otherwise.
LEMMA RereadIs ==
  ASSUME NEW m, MissionInv(m), NEW positions, NEW stray, NEW f, f = Written(m, positions, stray),
         NEW c \in ModelOnly(m), NEW w, w = WrittenModel(m, c, stray)
  PROVE  /\ (\A ref \in ToSet(w.refs) : Referred(f, ref) # {}) =>
              ReadModel(f, w) \in AnyModel /\ Located(m, ReadModel(f, w))
         /\ WellReferenced(m) =>
              ReadModel(f, w) = c /\ \A ref \in ToSet(w.refs) : Referred(f, ref) # {}
         /\ w.refs # <<>>
  <1>0. m \in AnyMission
    BY DEF MissionInv
  <1>1. /\ c \in AnyModel /\ c = [kind |-> "model", model |-> c.model, refs |-> c.refs]
        /\ c.model \in Model /\ c.refs \in Seq(AnyPlace) /\ c.refs # <<>>
        /\ Len(c.refs) \in Nat /\ DOMAIN c.refs = 1..Len(c.refs) /\ Len(c.refs) # 0
        /\ \A k \in DOMAIN c.refs :
             /\ c.refs[k] \in AnyPlace /\ c.refs[k] \in ToSet(c.refs)
             /\ c.refs[k][2] = FullMission => c.refs[k][1] \in m.locations
    BY ModelOnlyIs
  <1>2. /\ w.model = c.model /\ DOMAIN w.refs = DOMAIN c.refs
        /\ \A k \in DOMAIN c.refs : w.refs[k] = Reference(Places(m), c.refs[k], stray)
    BY DEF WrittenModel
  <1>3. ASSUME NEW k \in DOMAIN c.refs
        PROVE  /\ c.refs[k][2] = FullMission \/ c.refs[k] \in ToSet(Places(m)) =>
                    Referred(f, w.refs[k]) = {c.refs[k]}
               /\ \A o \in Referred(f, w.refs[k]) :
                    o \in AnyPlace /\ (o[2] = FullMission => o[1] \in m.locations)
    BY <1>0, <1>1, <1>2, ReferredIs
  <1>4. PICK r : r = [k \in DOMAIN w.refs |-> CHOOSE p \in Referred(f, w.refs[k]) : TRUE]
    OBVIOUS
  <1>5. ReadModel(f, w) = [kind |-> "model", model |-> c.model, refs |-> r]
    BY <1>2, <1>4 DEF ReadModel
  <1>6. r = [k \in 1..Len(c.refs) |-> r[k]] /\ DOMAIN r = 1..Len(c.refs)
    BY <1>1, <1>2, <1>4
  <1>7. ASSUME \A ref \in ToSet(w.refs) : Referred(f, ref) # {}
        PROVE  ReadModel(f, w) \in AnyModel /\ Located(m, ReadModel(f, w))
    <2>1. \A k \in 1..Len(c.refs) : r[k] \in Referred(f, w.refs[k])
      BY <1>1, <1>2, <1>4, <1>7 DEF ToSet
    <2>2. \A k \in 1..Len(c.refs) : r[k] \in AnyPlace /\ (r[k][2] = FullMission => r[k][1] \in m.locations)
      BY <1>1, <1>3, <2>1
    <2>3. r \in Seq(AnyPlace) /\ Len(r) = Len(c.refs)
      BY <1>1, <1>6, <2>2, MakeSeq
    <2>4. r # <<>>
      BY <1>1, <2>3, EmptySeq
    <2>5. [kind |-> "model", model |-> c.model, refs |-> r] \in AnyModel
      BY <1>1, <2>3, <2>4, ModelIs
    <2>6. \A p \in ToSet(r) : p[2] = FullMission => p[1] \in m.locations
      BY <1>6, <2>2 DEF ToSet
    <2>7. ReadModel(f, w).refs = r
      BY <1>5
    <2> QED
      BY <1>5, <2>5, <2>6, <2>7 DEF Located
  <1>8. ASSUME WellReferenced(m)
        PROVE  ReadModel(f, w) = c /\ \A ref \in ToSet(w.refs) : Referred(f, ref) # {}
    <2>1. \A k \in DOMAIN c.refs : c.refs[k][2] = FullMission \/ c.refs[k] \in ToSet(Places(m))
      BY <1>1, <1>8 DEF WellReferenced, ModelOnly
    <2>2. \A k \in DOMAIN c.refs : Referred(f, w.refs[k]) = {c.refs[k]}
      BY <1>3, <2>1
    <2>3. \A k \in DOMAIN c.refs : r[k] = c.refs[k]
      BY <1>2, <1>4, <2>2
    <2>4. c.refs = [k \in 1..Len(c.refs) |-> c.refs[k]]
      BY <1>1
    <2>5. r = c.refs
      BY <1>1, <1>6, <2>3, <2>4
    <2>6. \A ref \in ToSet(w.refs) : Referred(f, ref) # {}
      BY <1>2, <2>2 DEF ToSet
    <2> QED
      BY <1>1, <1>5, <2>5, <2>6
  <1>9. w.refs # <<>>
    <2>1. DOMAIN <<>> = {} /\ 1 \in DOMAIN w.refs
      BY <1>1, <1>2
    <2> QED
      BY <2>1
  <1> QED
    BY <1>7, <1>8, <1>9

\* The constraints that are read: n model constraints, and the orders and durations.
ConstraintsRead(m, ks, t, n) ==
  /\ ks \in Seq(AnyConstraint) /\ Len(ks) \in Nat /\ DOMAIN ks = 1..Len(ks)
  /\ \A c \in ToSet(ks) : Located(m, c)
  /\ Len(t) \in Nat /\ DOMAIN t = 1..Len(t) /\ Len(ks) = n + Len(t)
  /\ \A i \in 1..n : ks[i].kind = "model"
  /\ \A i \in 1..Len(t) : ks[n + i] = t[i]
  /\ WellReferenced(m) => {ks[i] : i \in 1..n} = ModelOnly(m)

LEMMA ReadConstraintsAre ==
  ASSUME NEW m, MissionInv(m), NEW positions, NEW stray, NEW f, f = Written(m, positions, stray),
         NEW ks, ks = ReadConstraints(f), NEW t, t = f.temporal
  PROVE  /\ WellReferenced(m) => Resolved(f)
         /\ \A c \in ToSet(f.model) : c.refs # <<>>
         /\ Resolved(f) =>
              \E n \in Nat : ConstraintsRead(m, ks, t, n)
  <1>0. m \in AnyMission
    BY DEF MissionInv
  <1> DEFINE V == {WrittenModel(m, c, stray) : c \in ModelOnly(m)}
  <1>1. /\ f.model \in Seq(V) /\ ToSet(f.model) = V
        /\ t \in Seq(AnyTemporal) /\ t = TemporalElements(m)
    <2>1. f.model = ModelElements(m, stray) /\ t = TemporalElements(m)
      BY <1>0, WrittenIs
    <2> QED
      BY <1>0, <2>1, ModelElementsAre, TemporalElementsAre
  <1>2. WellReferenced(m) => Resolved(f)
    BY <1>1, RereadIs DEF Resolved
  <1>3. \A c \in ToSet(f.model) : c.refs # <<>>
    BY <1>1, RereadIs
  <1>4. ASSUME Resolved(f)
        PROVE  \E n \in Nat : ConstraintsRead(m, ks, t, n)
    <2>1. PICK n : n = Len(f.model)
      OBVIOUS
    <2>2. n \in Nat /\ DOMAIN f.model = 1..n /\ \A i \in 1..n : f.model[i] \in ToSet(f.model)
      BY <1>1, <2>1, LenProperties DEF ToSet
    <2> DEFINE Reread(w) == [w EXCEPT !.refs = [k \in DOMAIN @ |-> CHOOSE p \in Referred(f, @[k]) : TRUE]]
    <2>3. PICK s : s = [i \in DOMAIN f.model |-> Reread(f.model[i])]
      OBVIOUS
    <2>4. ks = s \o t
      BY <2>3 DEF ReadConstraints
    <2>5. ASSUME NEW w \in V PROVE Reread(w) = ReadModel(f, w)
      <3>1. w = [kind |-> "model", model |-> w.model, refs |-> w.refs]
        BY DEF WrittenModel
      <3>2. PICK r : r = [k \in DOMAIN w.refs |-> CHOOSE p \in Referred(f, w.refs[k]) : TRUE]
        OBVIOUS
      <3>3. Reread(w) = [w EXCEPT !.refs = r]
        BY <3>2
      <3>4. [w EXCEPT !.refs = r] = [kind |-> "model", model |-> w.model, refs |-> r]
        BY <3>1
      <3> QED
        BY <3>2, <3>3, <3>4 DEF ReadModel
    <2> HIDE DEF Reread
    <2>6. \A i \in 1..n : s[i] = ReadModel(f, f.model[i])
      BY <1>1, <2>2, <2>3, <2>5
    <2>7. ASSUME NEW w \in V
          PROVE  /\ ReadModel(f, w) \in AnyModel /\ Located(m, ReadModel(f, w)) /\ ReadModel(f, w).kind = "model"
                 /\ WellReferenced(m) => \A c \in ModelOnly(m) : w = WrittenModel(m, c, stray) => ReadModel(f, w) = c
      <3>1. \A ref \in ToSet(w.refs) : Referred(f, ref) # {}
        BY <1>1, <1>4 DEF Resolved
      <3>2. ReadModel(f, w).kind = "model"
        BY DEF ReadModel
      <3> QED
        BY <3>1, <3>2, RereadIs
    <2>8. \A i \in 1..n : s[i] \in AnyConstraint /\ Located(m, s[i]) /\ s[i].kind = "model"
      BY <1>1, <2>2, <2>6, <2>7 DEF AnyConstraint
    <2>9. s \in Seq(AnyConstraint) /\ Len(s) = n /\ DOMAIN s = 1..n
      <3>1. s = [i \in 1..n |-> s[i]]
        BY <2>2, <2>3
      <3> QED
        BY <2>2, <2>8, <3>1, MakeSeq
    <2>10. t \in Seq(AnyConstraint) /\ Len(t) \in Nat /\ DOMAIN t = 1..Len(t)
      <3>1. Seq(AnyTemporal) \subseteq Seq(AnyConstraint)
        BY DEF AnyConstraint, AnyTemporal
      <3> QED
        BY <1>1, <3>1, LenProperties
    <2>12. /\ ks \in Seq(AnyConstraint) /\ Len(ks) = n + Len(t) /\ Len(ks) \in Nat /\ DOMAIN ks = 1..Len(ks)
           /\ \A i \in 1..n : ks[i] = s[i]
           /\ \A i \in 1..Len(t) : ks[n + i] = t[i]
           /\ ToSet(ks) = ToSet(s) \cup ToSet(t)
      <3>1. s \in Seq(AnyConstraint) /\ t \in Seq(AnyConstraint) /\ Len(s) = n
        BY <2>9, <2>10
      <3>2. ks \in Seq(AnyConstraint) /\ ToSet(ks) = ToSet(s) \cup ToSet(t)
        BY <2>4, <3>1, ConcatHas
      <3>3. /\ Len(ks) = Len(s) + Len(t) /\ Len(ks) \in Nat /\ DOMAIN ks = 1..Len(ks)
            /\ \A i \in 1..Len(s) : ks[i] = s[i]
            /\ \A i \in 1..Len(t) : ks[Len(s) + i] = t[i]
        <4>1. Len(ks) = Len(s) + Len(t) /\ Len(ks) \in Nat /\ DOMAIN ks = 1..Len(ks)
          <5>1. Len(ks) = Len(s) + Len(t)
            BY <2>4, <3>1, ConcatProperties
          <5> QED
            BY <3>2, <5>1, LenProperties
        <4>2. \A i \in 1..Len(s) : ks[i] = s[i]
          BY <2>4, <3>1, ConcatIs
        <4>3. \A i \in 1..Len(t) : ks[Len(s) + i] = t[i]
          BY <2>4, <3>1, ConcatIs
        <4> QED
          BY <4>1, <4>2, <4>3
      <3> QED
        BY <3>1, <3>2, <3>3
    <2>13. \A i \in 1..n : ks[i] = s[i] /\ ks[i].kind = "model"
      BY <2>8, <2>12
    <2>15. \A c \in ToSet(ks) : Located(m, c)
      <3>1. \A c \in ToSet(s) : Located(m, c)
        BY <2>8, <2>9 DEF ToSet
      <3>2. \A c \in ToSet(t) : c \in AnyTemporal
        BY <1>1, <2>10, ElementOfSeq DEF ToSet
      <3>3. \A c \in ToSet(t) : Located(m, c)
        BY <3>2 DEF Located, AnyTemporal, AnyOrder, AnyDuration
      <3> QED
        BY <2>12, <3>1, <3>3
    <2>16. ASSUME WellReferenced(m) PROVE {ks[i] : i \in 1..n} = ModelOnly(m)
      <3>1. ASSUME NEW i \in 1..n PROVE ks[i] \in ModelOnly(m)
        <4>1. PICK c \in ModelOnly(m) : f.model[i] = WrittenModel(m, c, stray)
          BY <1>1, <2>2
        <4> QED
          BY <1>1, <2>2, <2>6, <2>7, <2>13, <2>16, <4>1
      <3>2. ASSUME NEW c \in ModelOnly(m) PROVE \E i \in 1..n : ks[i] = c
        <4>1. WrittenModel(m, c, stray) \in V
          OBVIOUS
        <4>2. PICK i \in 1..n : f.model[i] = WrittenModel(m, c, stray)
          <5>1. PICK i \in DOMAIN f.model : f.model[i] = WrittenModel(m, c, stray)
            BY <1>1, <4>1 DEF ToSet
          <5> QED
            BY <2>2, <5>1
        <4> QED
          BY <2>6, <2>7, <2>13, <2>16, <4>1, <4>2
      <3> QED
        BY <3>1, <3>2
    <2> QED
      BY <2>2, <2>10, <2>12, <2>13, <2>15, <2>16 DEF ConstraintsRead
  <1> QED
    BY <1>2, <1>3, <1>4

\* The constraints that are not the same to the code as one before them.
Fresh(ks) ==
  {ks[i] : i \in {j \in DOMAIN ks : \A h \in 1..(j - 1) : Identity(ks[h]) # Identity(ks[j])}}

\* Each constraint has a fresh one that is the same to the code.
LEMMA FreshSame ==
  ASSUME NEW V, NEW ks \in Seq(V), NEW i \in DOMAIN ks
  PROVE  \E j \in DOMAIN ks : j <= i /\ Identity(ks[j]) = Identity(ks[i]) /\ ks[j] \in Fresh(ks)
  <1> DEFINE T == {j \in DOMAIN ks : Identity(ks[j]) = Identity(ks[i])}
  <1>1. DOMAIN ks = 1..Len(ks) /\ Len(ks) \in Nat
    BY LenProperties
  <1>2. T \subseteq Nat /\ i \in T
    BY <1>1
  <1>3. PICK j \in T : \A h \in T : j <= h
    BY <1>2, LeastNatural
  <1>4. j \in DOMAIN ks /\ Identity(ks[j]) = Identity(ks[i]) /\ j <= i
    BY <1>2, <1>3
  <1>5. ASSUME NEW h \in 1..(j - 1) PROVE Identity(ks[h]) # Identity(ks[j])
    <2>1. h \in DOMAIN ks /\ ~ (j <= h)
      BY <1>1, <1>4
    <2> QED
      BY <1>3, <1>4, <2>1
  <1> QED
    BY <1>4, <1>5 DEF Fresh

\* What is read afresh is what a mission has explicitly, each duration as its first
\* interval.
LEMMA FreshAre ==
  ASSUME NEW m, MissionInv(m), WellReferenced(m), NEW positions, NEW stray,
         NEW f, f = Written(m, positions, stray), NEW ks, ks = ReadConstraints(f)
  PROVE  /\ Fresh(ks) = {AsRead(c) : c \in ToSet(m.constraints) \ m.implicit}
         /\ \A c \in ToSet(ks) : c.kind = "order" => c \in Explicit(m)
         /\ \A c \in Explicit(m) : c.kind = "order" => c \in ToSet(ks)
  <1>0. m \in AnyMission
    BY DEF MissionInv
  <1>1. PICK t : t = f.temporal
    OBVIOUS
  <1>2. PICK n \in Nat :
          /\ ks \in Seq(AnyConstraint) /\ Len(ks) \in Nat /\ DOMAIN ks = 1..Len(ks)
          /\ Len(t) \in Nat /\ DOMAIN t = 1..Len(t) /\ Len(ks) = n + Len(t)
          /\ \A i \in 1..n : ks[i].kind = "model"
          /\ \A i \in 1..Len(t) : ks[n + i] = t[i]
          /\ {ks[i] : i \in 1..n} = ModelOnly(m)
    <2>1. PICK n \in Nat : ConstraintsRead(m, ks, t, n)
      BY <1>1, ReadConstraintsAre
    <2> QED
      BY <2>1 DEF ConstraintsRead
  <1>3. /\ \A e : e \in ToSet(t) <=> \E c \in Explicit(m) : e \in ToSet(Elements(c))
        /\ \A i \in DOMAIN t : \E c \in Explicit(m) : \E j \in 1..i :
             t[i] \in ToSet(Elements(c)) /\ t[j] = AsRead(c)
        /\ Explicit(m) \subseteq AnyTemporal
    <2>1. t = TemporalElements(m)
      BY <1>0, <1>1, WrittenIs
    <2> QED
      BY <1>0, <2>1, TemporalElementsAre
  <1>4. \A i \in DOMAIN ks : i \in 1..n \/ \E j \in DOMAIN t : i = n + j
    <2>1. ASSUME NEW i \in DOMAIN ks, i \notin 1..n PROVE \E j \in DOMAIN t : i = n + j
      <3>1. i - n \in DOMAIN t /\ i = n + (i - n)
        BY <1>2, <2>1
      <3> QED
        BY <3>1
    <2> QED
      BY <2>1
  <1>5. \A j \in DOMAIN t : n + j \in DOMAIN ks /\ ks[n + j] = t[j]
    BY <1>2
  <1>6. ASSUME NEW c \in ToSet(m.constraints) \ m.implicit
        PROVE  AsRead(c) \in ToSet(ks) /\ Identity(AsRead(c)) = Identity(c)
    <2>1. CASE c.kind = "model"
      <3>1. c \in ModelOnly(m) /\ AsRead(c) = c
        BY <2>1 DEF ModelOnly, AsRead
      <3>2. PICK i \in 1..n : ks[i] = c
        BY <1>2, <3>1
      <3>3. i \in DOMAIN ks
        BY <1>2
      <3> QED
        BY <3>1, <3>2, <3>3 DEF ToSet
    <2>2. CASE c.kind # "model"
      <3>1. c \in Explicit(m)
        BY <2>2 DEF Explicit
      <3>2. AsRead(c) \in ToSet(Elements(c)) /\ Identity(AsRead(c)) = Identity(c)
        BY <1>3, <3>1, ElementsAre
      <3>3. AsRead(c) \in ToSet(t)
        BY <1>3, <3>1, <3>2
      <3> QED
        BY <1>5, <3>2, <3>3 DEF ToSet
    <2> QED
      BY <2>1, <2>2
  <1>7. ASSUME NEW i \in DOMAIN ks, \A h \in 1..(i - 1) : Identity(ks[h]) # Identity(ks[i])
        PROVE  \E c \in ToSet(m.constraints) \ m.implicit : ks[i] = AsRead(c)
    <2>1. CASE i \in 1..n
      <3>1. ks[i] \in ModelOnly(m)
        BY <1>2, <2>1
      <3>2. ks[i] \notin m.implicit
        BY <3>1, ModelOnlyIs
      <3>3. AsRead(ks[i]) = ks[i] /\ ks[i] \in ToSet(m.constraints)
        BY <3>1 DEF AsRead, ModelOnly
      <3> QED
        BY <3>2, <3>3
    <2>2. CASE i \notin 1..n
      <3>1. PICK k \in DOMAIN t : i = n + k
        BY <1>4, <2>2
      <3>2. PICK c \in Explicit(m), j \in 1..k : t[k] \in ToSet(Elements(c)) /\ t[j] = AsRead(c)
        BY <1>3
      <3>3. Identity(t[k]) = Identity(c) /\ Identity(t[j]) = Identity(c)
        BY <1>3, <3>2, ElementsAre
      <3>4. j \in DOMAIN t
        BY <1>2
      <3>5. Identity(ks[n + j]) = Identity(ks[i])
        BY <1>5, <3>1, <3>3, <3>4
      <3>6. n + j \notin 1..(i - 1)
        BY <1>7, <3>5
      <3>7. j = k
        BY <1>2, <3>1, <3>6
      <3>8. ks[i] = AsRead(c)
        BY <1>5, <3>1, <3>2, <3>7
      <3> QED
        BY <3>8 DEF Explicit
    <2> QED
      BY <2>1, <2>2
  <1>8. Fresh(ks) \subseteq {AsRead(c) : c \in ToSet(m.constraints) \ m.implicit}
    BY <1>7 DEF Fresh
  <1>9. ASSUME NEW c \in ToSet(m.constraints) \ m.implicit PROVE AsRead(c) \in Fresh(ks)
    <2>1. PICK i \in DOMAIN ks : AsRead(c) = ks[i]
      BY <1>6 DEF ToSet
    <2>2. PICK j \in DOMAIN ks : Identity(ks[j]) = Identity(ks[i]) /\ ks[j] \in Fresh(ks)
      BY <1>2, FreshSame
    <2>3. PICK d \in ToSet(m.constraints) \ m.implicit : ks[j] = AsRead(d)
      BY <1>8, <2>2
    <2>4. Identity(d) = Identity(c)
      BY <1>6, <2>1, <2>2, <2>3
    <2>5. d = c
      BY <2>4 DEF MissionInv, ToSet
    <2> QED
      BY <2>2, <2>3, <2>5
  <1>10. ASSUME NEW c \in ToSet(ks), c.kind = "order" PROVE c \in Explicit(m)
    <2>1. PICK i \in DOMAIN ks : c = ks[i]
      BY DEF ToSet
    <2>2. PICK k \in DOMAIN t : c = t[k]
      BY <1>2, <1>4, <1>5, <1>10, <2>1
    <2>3. PICK d \in Explicit(m) : c \in ToSet(Elements(d))
      BY <1>3, <2>2 DEF ToSet
    <2> QED
      BY <1>3, <1>10, <2>3, ElementsAre
  <1>11. ASSUME NEW c \in Explicit(m), c.kind = "order" PROVE c \in ToSet(ks)
    <2>1. c \in ToSet(m.constraints) \ m.implicit /\ AsRead(c) = c
      BY <1>11 DEF Explicit, AsRead
    <2> QED
      BY <1>6, <2>1
  <1> QED
    BY <1>8, <1>9, <1>10, <1>11

\* The missions that the reader goes through.
Reading(start, cs, ks, n, g) ==
  g = [k \in 0..n |->
         CASE k = 0 -> start
           [] k \in 1..Len(cs) -> AddCondition(g[k - 1], cs[k])
           [] OTHER -> AddConstraint(g[k - 1], ks[k - Len(cs)], FALSE)]

LEMMA ReadingExists ==
  ASSUME NEW start, NEW cs, NEW ks, NEW n \in Nat
  PROVE  \E g : Reading(start, cs, ks, n, g)
  <1> DEFINE T == {k \in Nat : ~ \E g : Reading(start, cs, ks, k, g)}
             Step(k, h) == CASE k = 0 -> start
                             [] k \in 1..Len(cs) -> AddCondition(h[k - 1], cs[k])
                             [] OTHER -> AddConstraint(h[k - 1], ks[k - Len(cs)], FALSE)
  <1>0. \A k, h : Reading(start, cs, ks, k, h) <=> h = [j \in 0..k |-> Step(j, h)]
    BY Zenon DEF Reading
  <1>1. SUFFICES ASSUME T # {} PROVE FALSE
    OBVIOUS
  <1>2. PICK k \in T : \A j \in T : k <= j
    BY <1>1, LeastNatural
  <1>3. k \in Nat /\ ~ \E g : Reading(start, cs, ks, k, g)
    BY <1>2
  <1>4. \A h, g, j : (j # 0 => h[j - 1] = g[j - 1]) => Step(j, h) = Step(j, g)
    <2>1. ASSUME NEW h, NEW g, NEW j, j # 0, h[j - 1] = g[j - 1] PROVE Step(j, h) = Step(j, g)
      BY <2>1, Zenon
    <2>2. ASSUME NEW h, NEW g, NEW j, j = 0 PROVE Step(j, h) = Step(j, g)
      <3>1. 0 \notin 1..Len(cs)
        OBVIOUS
      <3>2. Step(0, h) = start /\ Step(0, g) = start
        BY <3>1
      <3> QED
        BY <2>2, <3>2
    <2> QED
      BY <2>1, <2>2
  <1> HIDE DEF T, Step
  <1>5. CASE k = 0
    <2> DEFINE g == [j \in 0..0 |-> Step(0, <<>>)]
    <2>1. g = [j \in 0..0 |-> Step(j, g)]
      BY <1>4
    <2> HIDE DEF g
    <2> QED
      BY <1>0, <1>3, <1>5, <2>1
  <1>6. CASE k > 0
    <2>1. k - 1 \in Nat /\ k - 1 \notin T
      BY <1>2, <1>3, <1>6
    <2>2. PICK h : h = [j \in 0..(k - 1) |-> Step(j, h)]
      BY <1>0, <2>1 DEF T
    <2> DEFINE g == [j \in 0..k |-> IF j = k THEN Step(k, h) ELSE h[j]]
    <2>3. ASSUME NEW j \in 0..k PROVE g[j] = Step(j, g)
      <3>1. CASE j = k
        <4>1. h[j - 1] = g[j - 1]
          BY <1>3, <1>6, <3>1
        <4>2. g[j] = Step(j, h)
          BY <1>3, <3>1
        <4> QED
          BY <1>4, <4>1, <4>2
      <3>2. CASE j # k
        <4>1. j \in 0..(k - 1) /\ g[j] = h[j] /\ (j # 0 => h[j - 1] = g[j - 1])
          BY <1>3, <3>2
        <4>2. h[j] = Step(j, h)
          BY <2>2, <4>1
        <4> QED
          BY <1>4, <4>1, <4>2
      <3> QED
        BY <3>1, <3>2
    <2>4. g = [j \in 0..k |-> g[j]]
      OBVIOUS
    <2> HIDE DEF g
    <2>5. g = [j \in 0..k |-> Step(j, g)]
      BY <2>3, <2>4
    <2> QED
      BY <1>0, <1>3, <2>5
  <1> QED
    BY <1>3, <1>5, <1>6

\* A mission n with what a mission m has and an explicit constraint.
WithConstraint(m, c, n) ==
  /\ n.pool = m.pool /\ n.locations = m.locations /\ n.conditions = m.conditions
  /\ HasConstraint(m, c) => n.constraints = m.constraints /\ n.implicit = m.implicit \ {c}
  /\ ~ HasConstraint(m, c) =>
       ToSet(n.constraints) = ToSet(m.constraints) \cup {c} /\ n.implicit = m.implicit

LEMMA AddConstraintHas ==
  ASSUME NEW m, m \in AnyMission, NEW c \in AnyConstraint, NEW n, n = AddConstraint(m, c, FALSE)
  PROVE  WithConstraint(m, c, n)
  <1>1. CASE HasConstraint(m, c)
    <2>1. n = Parts(m.pool, m.locations, m.conditions, m.constraints, m.implicit \ {c})
      BY <1>1, AddConstraintIs
    <2>2. /\ n.pool = m.pool /\ n.locations = m.locations /\ n.conditions = m.conditions
          /\ n.constraints = m.constraints /\ n.implicit = m.implicit \ {c}
      BY ONLY <2>1 DEF Parts
    <2> QED
      BY <1>1, <2>2, Zenon DEF WithConstraint
  <1>2. CASE ~ HasConstraint(m, c)
    <2>1. n = Parts(m.pool, m.locations, m.conditions, Append(m.constraints, c), m.implicit)
      BY <1>2, AddConstraintIs
    <2>2. ToSet(Append(m.constraints, c)) = ToSet(m.constraints) \cup {c}
      BY MissionParts, AppendHas
    <2>3. /\ n.pool = m.pool /\ n.locations = m.locations /\ n.conditions = m.conditions
          /\ n.constraints = Append(m.constraints, c) /\ n.implicit = m.implicit
      BY ONLY <2>1 DEF Parts
    <2> QED
      BY <1>2, <2>2, <2>3, Zenon DEF WithConstraint
  <1> QED
    BY <1>1, <1>2

\* What the first k conditions imply.
ImpliedTo(cs, k) == {Implied(cs[i]) : i \in {j \in 1..k : Extended(cs[j])}}

\* A mission at locations L with the first k of the conditions.
ConditionsDone(pool, L, cs, k, m) ==
  /\ MissionInv(m) /\ m.pool = pool /\ m.locations = L
  /\ Len(m.conditions) = k /\ \A i \in 1..k : m.conditions[i] = cs[i]
  /\ ToSet(m.constraints) = ImpliedTo(cs, k) /\ m.implicit = ImpliedTo(cs, k)

LEMMA ConditionStep ==
  ASSUME NEW pool, NEW L, NEW cs \in Seq(AnyCondition), IsInjective(cs), NEW k \in 1..Len(cs),
         NEW m, ConditionsDone(pool, L, cs, k - 1, m), cs[k].location \in L
  PROVE  ConditionsDone(pool, L, cs, k, AddCondition(m, cs[k]))
  <1>1. Len(cs) \in Nat /\ DOMAIN cs = 1..Len(cs) /\ cs[k] \in AnyCondition
    BY LenProperties, ElementOfSeq
  <1>2. /\ MissionInv(m) /\ m.pool = pool /\ m.locations = L
        /\ Len(m.conditions) = k - 1 /\ \A i \in 1..(k - 1) : m.conditions[i] = cs[i]
        /\ ToSet(m.constraints) = ImpliedTo(cs, k - 1) /\ m.implicit = ImpliedTo(cs, k - 1)
    BY DEF ConditionsDone
  <1>3. PICK s \in Seq(AnyCondition) : s = m.conditions
    BY <1>2, MissionParts DEF MissionInv
  <1>4. PICK c \in AnyCondition : c = cs[k]
    BY <1>1
  <1>5. c \notin ToSet(s)
    <2>1. DOMAIN s = 1..(k - 1)
      BY <1>2, <1>3, LenProperties
    <2>2. \A i \in 1..(k - 1) : s[i] = cs[i] /\ i \in DOMAIN cs /\ i # k
      BY <1>1, <1>2, <1>3
    <2> QED
      BY <1>1, <1>4, <2>1, <2>2 DEF ToSet, IsInjective
  <1>6. PICK n : n = AddCondition(m, c)
    OBVIOUS
  <1>7. /\ MissionInv(n) /\ n.pool = m.pool
        /\ n.locations = m.locations \cup {c.location}
        /\ n.conditions = Append(m.conditions, c)
        /\ ToSet(n.constraints) = ToSet(m.constraints) \cup (IF Extended(c) THEN {Implied(c)} ELSE {})
        /\ n.implicit = m.implicit \cup (IF Extended(c) THEN {Implied(c)} \ ToSet(m.constraints) ELSE {})
    BY <1>2, <1>3, <1>5, <1>6, AddConditionKeeps
  <1>8. n.locations = L /\ n.pool = pool
    BY <1>2, <1>4, <1>7
  <1>9. Len(n.conditions) = k /\ \A i \in 1..k : n.conditions[i] = cs[i]
    <2>1. PICK t : t = Append(s, c)
      OBVIOUS
    <2>2. t \in Seq(AnyCondition) /\ DOMAIN s = 1..Len(s) /\ DOMAIN t = 1..(Len(s) + 1)
          /\ t[Len(s) + 1] = c /\ \A i \in DOMAIN s : t[i] = s[i]
      BY <2>1, AppendHas
    <2>3. Len(s) = k - 1 /\ Len(s) + 1 = k
      BY <1>1, <1>2, <1>3
    <2>4. Len(t) = k
      BY <1>1, <2>2, <2>3, LenProperties
    <2>5. \A i \in 1..k : i = k \/ i \in 1..(k - 1)
      BY <1>1
    <2>6. \A i \in 1..k : t[i] = cs[i]
      BY <1>2, <1>3, <1>4, <2>2, <2>3, <2>5
    <2> QED
      BY <1>3, <1>7, <2>1, <2>4, <2>6
  <1>10. ImpliedTo(cs, k) = ImpliedTo(cs, k - 1) \cup (IF Extended(c) THEN {Implied(c)} ELSE {})
    <2>1. \A i : i \in 1..k <=> i = k \/ i \in 1..(k - 1)
      BY <1>1
    <2> QED
      BY <1>4, <2>1 DEF ImpliedTo
  <1>11. ToSet(n.constraints) = ImpliedTo(cs, k) /\ n.implicit = ImpliedTo(cs, k)
    BY <1>2, <1>7, <1>10
  <1> QED
    BY <1>4, <1>6, <1>7, <1>8, <1>9, <1>11 DEF ConditionsDone

FreshTo(ks, k) ==
  {ks[i] : i \in {j \in 1..k : \A h \in 1..(j - 1) : Identity(ks[h]) # Identity(ks[j])}}

\* A mission with all conditions, which imply the orders in I, and with the first k of
\* the constraints.
ConstraintsDone(pool, L, cs, ks, I, k, m) ==
  /\ MissionInv(m) /\ m.pool = pool /\ m.locations = L /\ m.conditions = cs
  /\ ToSet(m.constraints) = I \cup FreshTo(ks, k)
  /\ m.implicit = I \ {ks[i] : i \in 1..k}

LEMMA ConstraintStep ==
  ASSUME NEW pool, NEW L, NEW cs, NEW ks \in Seq(AnyConstraint), NEW k \in 1..Len(ks),
         NEW I, I \subseteq AnyConstraint, \A o \in I : o.kind = "order",
         NEW m, ConstraintsDone(pool, L, cs, ks, I, k - 1, m), Located(m, ks[k])
  PROVE  ConstraintsDone(pool, L, cs, ks, I, k, AddConstraint(m, ks[k], FALSE))
  <1>1. Len(ks) \in Nat /\ DOMAIN ks = 1..Len(ks) /\ \A i \in 1..Len(ks) : ks[i] \in AnyConstraint
    BY LenProperties, ElementOfSeq
  <1>2. PICK c \in AnyConstraint : c = ks[k]
    BY <1>1
  <1>3. /\ MissionInv(m) /\ m \in AnyMission /\ m.pool = pool /\ m.locations = L /\ m.conditions = cs
        /\ ToSet(m.constraints) = I \cup FreshTo(ks, k - 1)
        /\ m.implicit = I \ {ks[i] : i \in 1..(k - 1)}
    BY DEF ConstraintsDone, MissionInv
  <1>4. PICK n : n = AddConstraint(m, c, FALSE)
    OBVIOUS
  <1>5. MissionInv(n)
    BY <1>2, <1>3, <1>4, AddConstraintKeeps
  <1>6. /\ n.pool = pool /\ n.locations = L /\ n.conditions = cs
        /\ HasConstraint(m, c) => n.constraints = m.constraints /\ n.implicit = m.implicit \ {c}
        /\ ~ HasConstraint(m, c) =>
             ToSet(n.constraints) = ToSet(m.constraints) \cup {c} /\ n.implicit = m.implicit
    <2>1. WithConstraint(m, c, n)
      BY <1>3, <1>4, AddConstraintHas, Zenon
    <2> QED
      BY <1>3, <2>1, Zenon DEF WithConstraint
  <1>7. \A i : i \in 1..k <=> i = k \/ i \in 1..(k - 1)
    BY <1>1
  <1> DEFINE New == \A h \in 1..(k - 1) : Identity(ks[h]) # Identity(c)
  <1>8. FreshTo(ks, k) = FreshTo(ks, k - 1) \cup (IF New THEN {c} ELSE {})
    BY <1>2, <1>7 DEF FreshTo
  <1>9. {ks[i] : i \in 1..k} = {ks[i] : i \in 1..(k - 1)} \cup {c}
    BY <1>2, <1>7
  <1>10. HasConstraint(m, c) <=> c \in I \/ ~ New
    <2>1. ASSUME c \in I PROVE HasConstraint(m, c)
      BY <1>3, <2>1 DEF HasConstraint
    <2>2. ASSUME NEW h \in 1..(k - 1), Identity(ks[h]) = Identity(c) PROVE HasConstraint(m, c)
      <3>1. h \in DOMAIN ks
        BY <1>1
      <3>2. PICK j \in DOMAIN ks : j <= h /\ Identity(ks[j]) = Identity(ks[h]) /\
              \A x \in 1..(j - 1) : Identity(ks[x]) # Identity(ks[j])
        <4> DEFINE T == {j \in 1..Len(ks) : Identity(ks[j]) = Identity(ks[h])}
        <4>1. T \subseteq Nat /\ h \in T
          BY <1>1, <3>1
        <4>2. PICK j \in T : \A x \in T : j <= x
          BY <4>1, LeastNatural
        <4>3. j \in 1..Len(ks) /\ Identity(ks[j]) = Identity(ks[h]) /\ j <= h
          BY <4>1, <4>2
        <4>4. ASSUME NEW x \in 1..(j - 1) PROVE Identity(ks[x]) # Identity(ks[j])
          <5>1. x \in 1..Len(ks) /\ ~ (j <= x)
            BY <1>1, <4>3
          <5> QED
            BY <4>2, <4>3, <5>1
        <4> QED
          BY <1>1, <4>3, <4>4
      <3>3. j \in 1..(k - 1)
        BY <1>1, <3>2
      <3>4. ks[j] \in FreshTo(ks, k - 1)
        BY <3>2, <3>3 DEF FreshTo
      <3> QED
        BY <1>3, <2>2, <3>2, <3>4 DEF HasConstraint
    <2>3. ASSUME HasConstraint(m, c), New PROVE c \in I
      <3>1. PICK d \in I \cup FreshTo(ks, k - 1) : Identity(d) = Identity(c)
        BY <1>3, <2>3 DEF HasConstraint
      <3>2. d \notin FreshTo(ks, k - 1)
        BY <2>3, <3>1 DEF FreshTo
      <3>3. d \in I /\ d.kind = "order"
        BY <3>1, <3>2
      <3> QED
        BY <3>1, <3>3, IdentityIs
    <2> QED
      BY <2>1, <2>2, <2>3
  <1> HIDE DEF New
  <1>11. ToSet(n.constraints) = I \cup FreshTo(ks, k)
    BY <1>3, <1>6, <1>8, <1>10
  <1>12. n.implicit = I \ {ks[i] : i \in 1..k}
    BY <1>3, <1>6, <1>9, <1>10
  <1> QED
    BY <1>2, <1>4, <1>5, <1>6, <1>11, <1>12 DEF ConstraintsDone

\* A mission m read at locations L with conditions cs and constraints ks.
IsRead(pool, L, cs, ks, m) ==
  ConstraintsDone(pool, L, cs, ks, ImpliedTo(cs, Len(cs)), Len(ks), m)

LEMMA ReadIs ==
  ASSUME NEW f, f.pool \in Pools, NEW L, L \subseteq Location, L = DOMAIN f.constants,
         NEW cs \in Seq(AnyCondition), cs = ReadConditions(f), IsInjective(cs),
         NEW ks \in Seq(AnyConstraint), ks = ReadConstraints(f),
         \A x \in ToSet(cs) : x.location \in L,
         \A c \in ToSet(ks) : c.kind = "model" => \A p \in ToSet(c.refs) : p[2] = FullMission => p[1] \in L
  PROVE  IsRead(f.pool, L, cs, ks, Read(f))
  <1>1. PICK start : start = [NewMission(f.pool) EXCEPT !.locations = L]
    OBVIOUS
  <1>2. PICK N : N = Len(cs) + Len(ks)
    OBVIOUS
  <1>3. /\ Len(cs) \in Nat /\ Len(ks) \in Nat /\ N \in Nat
        /\ DOMAIN cs = 1..Len(cs) /\ DOMAIN ks = 1..Len(ks)
        /\ \A i \in 1..Len(ks) : ks[i] \in AnyConstraint /\ ks[i] \in ToSet(ks)
        /\ \A i \in 1..Len(cs) : cs[i] \in AnyCondition /\ cs[i] \in ToSet(cs)
    BY <1>2, LenProperties, ElementOfSeq DEF ToSet
  <1> DEFINE g == CHOOSE h : Reading([NewMission(f.pool) EXCEPT !.locations = DOMAIN f.constants],
                                     ReadConditions(f), ReadConstraints(f),
                                     Len(ReadConditions(f)) + Len(ReadConstraints(f)), h)
  <1>4. Read(f) = g[N]
    <2>1. Read(f) = g[Len(ReadConditions(f)) + Len(ReadConstraints(f))]
      BY Zenon DEF Read, Reading
    <2> QED
      BY <1>2, <2>1, Zenon
  <1>5. Reading(start, cs, ks, N, g)
    <2>1. Len(ReadConditions(f)) + Len(ReadConstraints(f)) \in Nat
      BY <1>3
    <2>2. Reading([NewMission(f.pool) EXCEPT !.locations = DOMAIN f.constants],
                  ReadConditions(f), ReadConstraints(f),
                  Len(ReadConditions(f)) + Len(ReadConstraints(f)), g)
      BY <2>1, ReadingExists, Zenon
    <2> QED
      BY <1>1, <1>2, <2>2, Zenon
  <1> HIDE DEF g
  <1>6. g[0] = start
    <2>1. 0 \in 0..N /\ 0 \notin 1..Len(cs)
      BY <1>3
    <2>2. g[0] = CASE 0 = 0 -> start
                   [] 0 \in 1..Len(cs) -> AddCondition(g[0 - 1], cs[0])
                   [] OTHER -> AddConstraint(g[0 - 1], ks[0 - Len(cs)], FALSE)
      BY <1>5, <2>1, Zenon DEF Reading
    <2> QED
      BY <2>1, <2>2
  <1>7. ASSUME NEW k \in 1..Len(cs) PROVE g[k] = AddCondition(g[k - 1], cs[k])
    <2>1. k \in 0..N /\ k # 0
      BY <1>2, <1>3
    <2>2. g[k] = CASE k = 0 -> start
                   [] k \in 1..Len(cs) -> AddCondition(g[k - 1], cs[k])
                   [] OTHER -> AddConstraint(g[k - 1], ks[k - Len(cs)], FALSE)
      BY <1>5, <2>1, Zenon DEF Reading
    <2> QED
      BY <2>1, <2>2
  <1>8. ASSUME NEW k \in 1..Len(ks) PROVE g[Len(cs) + k] = AddConstraint(g[Len(cs) + (k - 1)], ks[k], FALSE)
    <2>1. PICK j : j = Len(cs) + k
      OBVIOUS
    <2>2. j \in 0..N /\ j # 0 /\ j \notin 1..Len(cs) /\ j - Len(cs) = k /\ j - 1 = Len(cs) + (k - 1)
      BY <1>2, <1>3, <2>1
    <2>3. g[j] = CASE j = 0 -> start
                   [] j \in 1..Len(cs) -> AddCondition(g[j - 1], cs[j])
                   [] OTHER -> AddConstraint(g[j - 1], ks[j - Len(cs)], FALSE)
      BY <1>5, <2>2, Zenon DEF Reading
    <2>4. g[j] = AddConstraint(g[j - 1], ks[j - Len(cs)], FALSE)
      BY <2>2, <2>3, Zenon
    <2> QED
      BY <2>1, <2>2, <2>4, Zenon
  <1> DEFINE C(k) == ConditionsDone(f.pool, L, cs, k, g[k])
             K(k) == ConstraintsDone(f.pool, L, cs, ks, ImpliedTo(cs, Len(cs)), k, g[Len(cs) + k])
  <1>9. C(0)
    <2>1. start = Parts(f.pool, L, <<>>, <<>>, {})
      BY <1>1 DEF NewMission, Parts
    <2>2. /\ start \in AnyMission /\ start.pool = f.pool /\ start.locations = L
          /\ start.conditions = <<>> /\ start.constraints = <<>> /\ start.implicit = {}
      BY <2>1 DEF Parts, AnyMission
    <2>3. DOMAIN <<>> = {} /\ ToSet(<<>>) = {} /\ IsInjective(<<>>) /\ Len(<<>>) = 0
      BY DEF ToSet, IsInjective
    <2>4. MissionInv(start)
      BY <2>2, <2>3 DEF MissionInv
    <2>5. ImpliedTo(cs, 0) = {}
      BY DEF ImpliedTo
    <2>6. Len(start.conditions) = 0 /\ (\A i \in 1..0 : start.conditions[i] = cs[i])
          /\ ToSet(start.constraints) = {}
      BY <2>2, <2>3
    <2>7. ConditionsDone(f.pool, L, cs, 0, start)
      BY <2>2, <2>4, <2>5, <2>6, Zenon DEF ConditionsDone
    <2> QED
      BY <1>6, <2>7, Zenon
  <1>10. ASSUME NEW k \in 1..Len(cs), C(k - 1) PROVE C(k)
    BY <1>3, <1>7, <1>10, ConditionStep
  <1> HIDE DEF C
  <1>11. C(Len(cs))
    <2> DEFINE T == {k \in 0..Len(cs) : ~ C(k)}
    <2>1. SUFFICES ASSUME T # {} PROVE FALSE
      BY <1>3
    <2>2. T \subseteq Nat
      BY <1>3
    <2>3. PICK k \in T : \A j \in T : k <= j
      BY <2>1, <2>2, LeastNatural
    <2>4. k \in 1..Len(cs) /\ k - 1 \in 0..Len(cs) /\ ~ (k <= k - 1)
      BY <1>3, <1>9, <2>3
    <2> QED
      BY <1>10, <2>3, <2>4
  <1>12. ImpliedTo(cs, Len(cs)) \subseteq AnyConstraint /\ \A o \in ImpliedTo(cs, Len(cs)) : o.kind = "order"
    BY <1>3, ImpliedIsOrder DEF ImpliedTo
  <1>13. K(0)
    <2>1. PICK m : m = g[Len(cs)]
      OBVIOUS
    <2>2. ConditionsDone(f.pool, L, cs, Len(cs), m)
      BY <1>11, <2>1 DEF C
    <2>3. FreshTo(ks, 0) = {} /\ {ks[i] : i \in 1..0} = {}
      BY DEF FreshTo
    <2>4. m.conditions = cs
      <3>1. PICK s \in Seq(AnyCondition) : s = m.conditions
        BY <2>2, MissionParts DEF ConditionsDone, MissionInv
      <3>2. Len(s) = Len(cs) /\ \A i \in 1..Len(cs) : s[i] = cs[i]
        BY <2>2, <3>1 DEF ConditionsDone
      <3> QED
        BY <3>1, <3>2, SeqEqual
    <2>5. Len(cs) + 0 = Len(cs)
      BY <1>3
    <2>6. ConstraintsDone(f.pool, L, cs, ks, ImpliedTo(cs, Len(cs)), 0, m)
      BY <2>2, <2>3, <2>4 DEF ConditionsDone, ConstraintsDone
    <2> QED
      BY <2>1, <2>5, <2>6
  <1>14. ASSUME NEW k \in 1..Len(ks), K(k - 1) PROVE K(k)
    <2>1. PICK m : m = g[Len(cs) + (k - 1)]
      OBVIOUS
    <2>2. ConstraintsDone(f.pool, L, cs, ks, ImpliedTo(cs, Len(cs)), k - 1, m)
      BY <1>14, <2>1, Zenon
    <2>3. Located(m, ks[k])
      BY <1>3, <2>2 DEF Located, ConstraintsDone
    <2>4. ConstraintsDone(f.pool, L, cs, ks, ImpliedTo(cs, Len(cs)), k, AddConstraint(m, ks[k], FALSE))
      BY <1>12, <2>2, <2>3, ConstraintStep, Zenon
    <2>5. g[Len(cs) + k] = AddConstraint(m, ks[k], FALSE)
      BY <1>8, <2>1, Zenon
    <2> QED
      BY <2>4, <2>5, Zenon
  <1> HIDE DEF K
  <1>15. K(Len(ks))
    <2> DEFINE T == {k \in 0..Len(ks) : ~ K(k)}
    <2>1. SUFFICES ASSUME T # {} PROVE FALSE
      BY <1>3
    <2>2. T \subseteq Nat
      BY <1>3
    <2>3. PICK k \in T : \A j \in T : k <= j
      BY <2>1, <2>2, LeastNatural
    <2>4. k \in 1..Len(ks) /\ k - 1 \in 0..Len(ks) /\ ~ (k <= k - 1)
      BY <1>3, <1>13, <2>3
    <2> QED
      BY <1>14, <2>3, <2>4
  <1> QED
    BY <1>2, <1>4, <1>15, Zenon DEF K, IsRead

\* What is read from a file that a mission was written to.
LEMMA FileRead ==
  ASSUME NEW m, MissionInv(m), NEW positions, NEW stray, NEW f, f = Written(m, positions, stray),
         Resolved(f)
  PROVE  IsRead(m.pool, m.locations, ReadConditions(f), ReadConstraints(f), Read(f))
  <1>0. m \in AnyMission
    BY DEF MissionInv
  <1>1. f.pool = m.pool /\ DOMAIN f.constants = m.locations
    BY <1>0, WrittenIs
  <1>2. m.pool \in Pools /\ m.locations \subseteq Location
    BY <1>0, MissionParts
  <1>3. PICK cs : cs = ReadConditions(f)
    OBVIOUS
  <1>4. PICK ks : ks = ReadConstraints(f)
    OBVIOUS
  <1>5. /\ cs \in Seq(AnyCondition) /\ IsInjective(cs)
        /\ \A x : x \in ToSet(cs) <=>
             \E p \in ToSet(Places(m)) : \E s \in ResourceSet(m, Requirement(m, p)) :
               x = MinCondition(p, s) \/ x = MaxCondition(p, s)
    BY <1>0, <1>3, ReadConditionsAre
  <1>6. ASSUME NEW x \in ToSet(cs) PROVE x.location \in m.locations
    <2>1. PICK p \in ToSet(Places(m)) : \E s : x = MinCondition(p, s) \/ x = MaxCondition(p, s)
      BY <1>5
    <2>2. PICK c \in ToSet(m.conditions) : p = Place(c)
      BY <1>0, <2>1, PlacesAre
    <2>3. x.location = c.location
      BY <2>1, <2>2 DEF Place, MinCondition, MaxCondition
    <2> QED
      BY <2>3 DEF MissionInv
  <1>7. PICK n \in Nat : ConstraintsRead(m, ks, f.temporal, n)
    BY <1>4, ReadConstraintsAre
  <1>8. ks \in Seq(AnyConstraint) /\ \A c \in ToSet(ks) : Located(m, c)
    BY <1>7 DEF ConstraintsRead
  <1>9. \A c \in ToSet(ks) : c.kind = "model" =>
          \A p \in ToSet(c.refs) : p[2] = FullMission => p[1] \in m.locations
    BY <1>8 DEF Located
  <1>10. IsRead(f.pool, m.locations, cs, ks, Read(f))
    BY <1>1, <1>2, <1>3, <1>4, <1>5, <1>6, <1>8, <1>9, ReadIs
  <1> QED
    BY <1>1, <1>3, <1>4, <1>10

\* The conditions of a place that are read, by what its requirement demands.
LEMMA ReadOfPlace ==
  ASSUME NEW m, m \in AnyMission, NEW positions, NEW stray,
         NEW cs, cs = ReadConditions(Written(m, positions, stray)),
         NEW p \in ToSet(Places(m)), NEW x
  PROVE  x \in ToSet(cs) /\ Place(x) = p <=>
           \E s \in ResourceSet(m, Requirement(m, p)) : x = MinCondition(p, s) \/ x = MaxCondition(p, s)
  <1>1. \A o \in ToSet(Places(m)) : o = <<o[1], o[2]>>
    <2>1. \A o \in ToSet(Places(m)) : \E c \in ToSet(m.conditions) : o = Place(c)
      BY PlacesAre
    <2> QED
      BY <2>1 DEF Place
  <1>2. \A o, s : Place(MinCondition(o, s)) = <<o[1], o[2]>> /\ Place(MaxCondition(o, s)) = <<o[1], o[2]>>
    BY DEF Place, MinCondition, MaxCondition
  <1>3. x \in ToSet(cs) <=>
          \E o \in ToSet(Places(m)) : \E s \in ResourceSet(m, Requirement(m, o)) :
            x = MinCondition(o, s) \/ x = MaxCondition(o, s)
    BY ReadConditionsAre
  <1> QED
    BY <1>1, <1>2, <1>3

LEMMA CardsRead ==
  ASSUME NEW m, m \in AnyMission, NEW positions, NEW stray,
         NEW n, n.conditions = ReadConditions(Written(m, positions, stray)),
         NEW p \in ToSet(Places(m)), NEW q, q = Requirement(m, p), NEW r \in Model
  PROVE  /\ Cards(n, p, r, "min") = IF r \in Restricted(m, q) THEN {q.min[r]} ELSE {}
         /\ Cards(n, p, r, "max") =
              IF r \in Restricted(m, q) THEN {IF q.max[r] < m.pool[r] THEN q.max[r] ELSE Inf} ELSE {}
  <1>1. q.functions \subseteq Function
    BY RequirementIs DEF IsRequirement
  <1>2. \A x : x \in ToSet(n.conditions) /\ Place(x) = p <=>
          \E s \in ResourceSet(m, q) : x = MinCondition(p, s) \/ x = MaxCondition(p, s)
    BY ReadOfPlace
  <1>3. \A s : s \in ResourceSet(m, q) /\ s.model = r <=> r \in Restricted(m, q) /\ s = ResourceOf(m, q, r)
    <2>1. ASSUME NEW s \in ResourceSet(m, q), s.model = r
          PROVE  r \in Restricted(m, q) /\ s = ResourceOf(m, q, r)
      <3>1. ~ \E f \in q.functions : s = FunctionOf(f)
        BY <1>1, <2>1, ResourceAssumption DEF FunctionOf
      <3>2. PICK o \in Restricted(m, q) : s = ResourceOf(m, q, o)
        BY <3>1 DEF ResourceSet
      <3> QED
        BY <2>1, <3>2 DEF ResourceOf
    <2>2. ASSUME r \in Restricted(m, q)
          PROVE  ResourceOf(m, q, r) \in ResourceSet(m, q) /\ ResourceOf(m, q, r).model = r
      BY <2>2 DEF ResourceSet, ResourceOf
    <2> QED
      BY <2>1, <2>2
  <1>4. ASSUME NEW k
        PROVE  k \in Cards(n, p, r, "min") <=> r \in Restricted(m, q) /\ k = q.min[r]
    <2>1. k \in Cards(n, p, r, "min") <=>
            \E x \in ToSet(n.conditions) : Place(x) = p /\ x.model = r /\ x.type = "min" /\ k = x.card
      BY DEF Cards
    <2>2. k \in Cards(n, p, r, "min") <=> \E s \in ResourceSet(m, q) : s.model = r /\ k = s.min
      <3>1. \A s : /\ MinCondition(p, s).model = s.model /\ MinCondition(p, s).type = "min"
                   /\ MinCondition(p, s).card = s.min /\ MaxCondition(p, s).type # "min"
        BY DEF MinCondition, MaxCondition
      <3>2. ASSUME NEW x \in ToSet(n.conditions), Place(x) = p, x.model = r, x.type = "min", k = x.card
            PROVE  \E s \in ResourceSet(m, q) : s.model = r /\ k = s.min
        <4>1. PICK s \in ResourceSet(m, q) : x = MinCondition(p, s) \/ x = MaxCondition(p, s)
          BY <1>2, <3>2
        <4>2. x = MinCondition(p, s)
          BY <3>1, <3>2, <4>1
        <4> QED
          BY <3>1, <3>2, <4>2
      <3>3. ASSUME NEW s \in ResourceSet(m, q), s.model = r, k = s.min
            PROVE  \E x \in ToSet(n.conditions) : Place(x) = p /\ x.model = r /\ x.type = "min" /\ k = x.card
        <4>1. PICK x : x = MinCondition(p, s)
          OBVIOUS
        <4>2. x \in ToSet(n.conditions) /\ Place(x) = p
          BY <1>2, <4>1
        <4> QED
          BY <3>1, <3>3, <4>1, <4>2
      <3> QED
        BY <2>1, <3>2, <3>3
    <2>3. ResourceOf(m, q, r).min = q.min[r]
      BY DEF ResourceOf
    <2> QED
      BY <1>3, <2>2, <2>3
  <1>5. ASSUME NEW k
        PROVE  k \in Cards(n, p, r, "max") <=>
                 r \in Restricted(m, q) /\ k = IF q.max[r] < m.pool[r] THEN q.max[r] ELSE Inf
    <2>1. k \in Cards(n, p, r, "max") <=>
            \E x \in ToSet(n.conditions) : Place(x) = p /\ x.model = r /\ x.type = "max" /\ k = x.card
      BY DEF Cards
    <2>2. k \in Cards(n, p, r, "max") <=> \E s \in ResourceSet(m, q) : s.model = r /\ k = s.max
      <3>1. \A s : /\ MaxCondition(p, s).model = s.model /\ MaxCondition(p, s).type = "max"
                   /\ MaxCondition(p, s).card = s.max /\ MinCondition(p, s).type # "max"
        BY DEF MinCondition, MaxCondition
      <3>2. ASSUME NEW x \in ToSet(n.conditions), Place(x) = p, x.model = r, x.type = "max", k = x.card
            PROVE  \E s \in ResourceSet(m, q) : s.model = r /\ k = s.max
        <4>1. PICK s \in ResourceSet(m, q) : x = MinCondition(p, s) \/ x = MaxCondition(p, s)
          BY <1>2, <3>2
        <4>2. x = MaxCondition(p, s)
          BY <3>1, <3>2, <4>1
        <4> QED
          BY <3>1, <3>2, <4>2
      <3>3. ASSUME NEW s \in ResourceSet(m, q), s.model = r, k = s.max
            PROVE  \E x \in ToSet(n.conditions) : Place(x) = p /\ x.model = r /\ x.type = "max" /\ k = x.card
        <4>1. PICK x : x = MaxCondition(p, s)
          OBVIOUS
        <4>2. x \in ToSet(n.conditions) /\ Place(x) = p
          BY <1>2, <4>1
        <4> QED
          BY <3>1, <3>3, <4>1, <4>2
      <3> QED
        BY <2>1, <3>2, <3>3
    <2>3. ResourceOf(m, q, r).max = IF q.max[r] < m.pool[r] THEN q.max[r] ELSE Inf
      BY DEF ResourceOf
    <2> QED
      BY <1>3, <2>2, <2>3
  <1> QED
    BY <1>4, <1>5

\* A requirement comes back as it was.
LEMMA RequirementRead ==
  ASSUME NEW m, m \in AnyMission, NEW positions, NEW stray,
         NEW n, n \in AnyMission, n.conditions = ReadConditions(Written(m, positions, stray)), n.pool = m.pool,
         NEW p \in ToSet(Places(m))
  PROVE  Requirement(n, p) = Requirement(m, p)
  <1>1. PICK q : q = Requirement(m, p)
    OBVIOUS
  <1>2. PICK o : o = Requirement(n, p)
    OBVIOUS
  <1>3. /\ q = [place |-> p, min |-> q.min, max |-> q.max, functions |-> q.functions]
        /\ q.min = [r \in Model |-> q.min[r]] /\ q.max = [r \in Model |-> q.max[r]]
        /\ \A r \in Model : /\ q.min[r] \in 0..Inf /\ q.max[r] \in 0..Inf
                            /\ m.pool[r] \in Nat /\ m.pool[r] < Inf
                            /\ q.max[r] <= m.pool[r]
        /\ q.functions \subseteq Function
    <2>1. IsRequirement(m, p, q)
      BY <1>1, RequirementIs
    <2> QED
      BY <2>1 DEF IsRequirement
  <1>4. /\ o = [place |-> p, min |-> o.min, max |-> o.max, functions |-> o.functions]
        /\ o.min = [r \in Model |-> o.min[r]] /\ o.max = [r \in Model |-> o.max[r]]
        /\ \A r \in Model : /\ o.min[r] = Max({0} \cup Cards(n, p, r, "min"))
                            /\ o.max[r] = Min({m.pool[r]} \cup Cards(n, p, r, "max"))
        /\ o.functions = {c.model : c \in {d \in ToSet(n.conditions) : Place(d) = p}} \cap Function
    <2>1. IsRequirement(n, p, o)
      BY <1>2, RequirementIs
    <2> QED
      BY <2>1 DEF IsRequirement
  <1>5. ASSUME NEW r \in Model PROVE o.min[r] = q.min[r] /\ o.max[r] = q.max[r]
    <2>1. /\ Cards(n, p, r, "min") = IF r \in Restricted(m, q) THEN {q.min[r]} ELSE {}
          /\ Cards(n, p, r, "max") =
               IF r \in Restricted(m, q) THEN {IF q.max[r] < m.pool[r] THEN q.max[r] ELSE Inf} ELSE {}
      BY <1>1, CardsRead
    <2>2. r \in Restricted(m, q) <=> q.min[r] > 0 \/ q.max[r] < m.pool[r]
      BY DEF Restricted
    <2>3. o.min[r] = q.min[r]
      <3>1. {0} \cup Cards(n, p, r, "min") = {0, q.min[r]}
        BY <1>3, <2>1, <2>2
      <3>2. {0, q.min[r]} \subseteq 0..Inf
        BY <1>3, InfAssumption
      <3>3. Max({0, q.min[r]}) \in {0, q.min[r]} /\ \A y \in {0, q.min[r]} : y <= Max({0, q.min[r]})
        BY <3>2, MaxOf
      <3>4. q.min[r] \in Nat
        BY <1>3
      <3>5. Max({0, q.min[r]}) = q.min[r]
        BY <3>3, <3>4
      <3>6. o.min[r] = Max({0} \cup Cards(n, p, r, "min"))
        BY <1>4
      <3> QED
        BY <3>1, <3>5, <3>6, Zenon
    <2>4. o.max[r] = q.max[r]
      <3>1. PICK S : S = {m.pool[r]} \cup Cards(n, p, r, "max")
        OBVIOUS
      <3>2. S \subseteq Nat /\ q.max[r] \in S /\ \A y \in S : q.max[r] <= y
        BY <1>3, <2>1, <2>2, <3>1, InfAssumption
      <3>3. Min(S) \in S /\ Min(S) \in Nat /\ \A y \in S : Min(S) <= y
        BY <3>2, MinOf
      <3>4. Min(S) = q.max[r]
        BY <1>3, <3>2, <3>3
      <3> QED
        BY <1>4, <3>1, <3>4
    <2> QED
      BY <2>3, <2>4
  <1>6. o.functions = q.functions
    <2>1. \A x : x \in ToSet(n.conditions) /\ Place(x) = p <=>
            \E s \in ResourceSet(m, q) : x = MinCondition(p, s) \/ x = MaxCondition(p, s)
      BY <1>1, ReadOfPlace
    <2>2. \A s : MinCondition(p, s).model = s.model /\ MaxCondition(p, s).model = s.model
      BY DEF MinCondition, MaxCondition
    <2>3. {c.model : c \in {d \in ToSet(n.conditions) : Place(d) = p}} = {s.model : s \in ResourceSet(m, q)}
      BY <2>1, <2>2
    <2>4. ASSUME NEW s \in ResourceSet(m, q), s.model \in Function PROVE s.model \in q.functions
      <3>1. ~ \E r \in Restricted(m, q) : s = ResourceOf(m, q, r)
        BY <2>4, ResourceAssumption DEF ResourceOf, Restricted
      <3> QED
        BY <3>1 DEF ResourceSet, FunctionOf
    <2>5. ASSUME NEW f \in q.functions PROVE f \in Function /\ \E s \in ResourceSet(m, q) : s.model = f
      <3>1. FunctionOf(f) \in ResourceSet(m, q)
        BY DEF ResourceSet
      <3>2. FunctionOf(f).model = f
        BY DEF FunctionOf
      <3> QED
        BY <1>3, <3>1, <3>2
    <2> QED
      BY <1>4, <2>3, <2>4, <2>5
  <1>7. o.min = q.min /\ o.max = q.max
    BY <1>3, <1>4, <1>5
  <1> QED
    BY <1>1, <1>2, <1>3, <1>4, <1>6, <1>7

LEMMA DemandsRead ==
  ASSUME NEW m, m \in AnyMission, NEW positions, NEW stray,
         NEW n, n \in AnyMission, n.conditions = ReadConditions(Written(m, positions, stray)), n.pool = m.pool
  PROVE  /\ Demands(n) = Demands(m)
         /\ \A p : p \in ToSet(Places(n)) <=>
              p \in ToSet(Places(m)) /\ ResourceSet(m, Requirement(m, p)) # {}
  <1>1. \A q : Restricted(n, q) = Restricted(m, q)
    BY DEF Restricted
  <1>2. \A q : ResourceSet(m, q) # {} <=> Restricted(m, q) # {} \/ q.functions # {}
    BY DEF ResourceSet
  <1>3. ASSUME NEW p
        PROVE  p \in ToSet(Places(n)) <=>
                 p \in ToSet(Places(m)) /\ ResourceSet(m, Requirement(m, p)) # {}
    <2>1. p \in ToSet(Places(n)) <=> \E x \in ToSet(n.conditions) : Place(x) = p
      BY PlacesAre
    <2>2. ASSUME NEW x \in ToSet(n.conditions), Place(x) = p PROVE p \in ToSet(Places(m))
      <3>1. PICK o \in ToSet(Places(m)) : \E s \in ResourceSet(m, Requirement(m, o)) :
              x = MinCondition(o, s) \/ x = MaxCondition(o, s)
        BY ReadConditionsAre
      <3>2. PICK c : o = Place(c)
        BY PlacesAre
      <3>3. p = o
        BY <2>2, <3>1, <3>2 DEF Place, MinCondition, MaxCondition
      <3> QED
        BY <3>3
    <2>3. ASSUME p \in ToSet(Places(m))
          PROVE  (\E x \in ToSet(n.conditions) : Place(x) = p) <=> ResourceSet(m, Requirement(m, p)) # {}
      <3>1. \A x : x \in ToSet(n.conditions) /\ Place(x) = p <=>
              \E s \in ResourceSet(m, Requirement(m, p)) : x = MinCondition(p, s) \/ x = MaxCondition(p, s)
        BY <2>3, ReadOfPlace
      <3> QED
        BY <3>1
    <2> QED
      BY <2>1, <2>2, <2>3
  <1>4. \A p \in ToSet(Places(m)) : Requirement(n, p) = Requirement(m, p)
    BY RequirementRead
  <1> QED
    BY <1>1, <1>2, <1>3, <1>4 DEF Demands

\* Before and after, the same places imply the same orders.
LEMMA ImpliedIs ==
  ASSUME NEW m, MissionInv(m), NEW positions, NEW stray,
         NEW n, n \in AnyMission, n.conditions = ReadConditions(Written(m, positions, stray)), n.pool = m.pool,
         NEW I, I = ImpliedTo(n.conditions, Len(n.conditions))
  PROVE  /\ I \subseteq ToSet(m.constraints) /\ \A o \in I : o.kind = "order"
         /\ Kept(m) = (ToSet(m.constraints) \ m.implicit) \cup (m.implicit \cap I)
  <1>0. m \in AnyMission
    BY DEF MissionInv
  <1>1. PICK cs \in Seq(AnyCondition) : cs = n.conditions
    BY MissionParts
  <1>2. Len(cs) \in Nat /\ DOMAIN cs = 1..Len(cs) /\ ToSet(cs) \subseteq AnyCondition
    BY <1>1, LenProperties, MissionParts
  <1> DEFINE OrderOf(p) == Order(p[2][1], p[2][2], "<")
  <1>3. \A x : Implied(x) = OrderOf(Place(x)) /\ (Extended(x) <=> Place(x)[2][1] # Place(x)[2][2])
    BY DEF Implied, Extended, Place
  <1>4. \A o : o \in I <=> \E p \in ToSet(Places(n)) : p[2][1] # p[2][2] /\ o = OrderOf(p)
    <2>1. \A o : o \in I <=> \E x \in ToSet(cs) : Extended(x) /\ o = Implied(x)
      BY <1>1, <1>2 DEF ImpliedTo, ToSet
    <2>2. ToSet(Places(n)) = {Place(x) : x \in ToSet(cs)}
      BY <1>1, PlacesAre
    <2> HIDE DEF OrderOf
    <2> QED
      BY <1>3, <2>1, <2>2
  <1>5. \A p : p \in ToSet(Places(n)) <=> p \in ToSet(Places(m)) /\ ResourceSet(m, Requirement(m, p)) # {}
    BY <1>0, DemandsRead
  <1>6. \A q : ResourceSet(m, q) # {} <=> Restricted(m, q) # {} \/ q.functions # {}
    BY DEF ResourceSet
  <1>7. \A p : Requirement(m, p).place = p
    BY DEF Requirement
  <1> DEFINE Named == {Order(q.place[2][1], q.place[2][2], "<") : q \in Demands(m)}
  <1>8. \A o : o \in Named <=> \E p \in ToSet(Places(n)) : o = OrderOf(p)
    <2>1. \A o : o \in Named <=> \E q \in Demands(m) : o = OrderOf(q.place)
      OBVIOUS
    <2>2. \A q : q \in Demands(m) <=> \E p \in ToSet(Places(m)) :
            q = Requirement(m, p) /\ (Restricted(m, q) # {} \/ q.functions # {})
      BY DEF Demands
    <2> HIDE DEF OrderOf, Named
    <2> QED
      BY <1>5, <1>6, <1>7, <2>1, <2>2
  <1>9. m.implicit \cap Named = m.implicit \cap I
    <2>1. I \subseteq Named
      BY <1>4, <1>8
    <2>2. ASSUME NEW o \in m.implicit, o \in Named PROVE o \in I
      <3>1. PICK x \in ToSet(m.conditions) : Extended(x) /\ o = Implied(x)
        BY DEF MissionInv
      <3>2. o.from # o.to
        BY <3>1 DEF Extended, Implied, Order
      <3>3. PICK p \in ToSet(Places(n)) : o = OrderOf(p)
        BY <1>8, <2>2
      <3>4. p[2][1] # p[2][2]
        BY <3>2, <3>3 DEF Order
      <3> QED
        BY <1>4, <3>3, <3>4
    <2> QED
      BY <2>1, <2>2
  <1>10. ASSUME NEW o \in I PROVE o \in ToSet(m.constraints) /\ o.kind = "order"
    <2>1. PICK p \in ToSet(Places(n)) : p[2][1] # p[2][2] /\ o = OrderOf(p)
      BY <1>4
    <2>2. PICK x \in ToSet(m.conditions) : p = Place(x)
      BY <1>0, <1>5, <2>1, PlacesAre
    <2>3. Extended(x) /\ o = Implied(x)
      BY <1>3, <2>1, <2>2
    <2>4. o.kind = "order"
      BY <2>1 DEF Order
    <2> QED
      BY <2>3, <2>4 DEF MissionInv
  <1>11. Kept(m) = (ToSet(m.constraints) \ m.implicit) \cup (m.implicit \cap Named)
    BY DEF Kept
  <1> HIDE DEF Named, OrderOf
  <1> QED
    BY <1>9, <1>10, <1>11

\* The constraints that come back are those that are kept, and as implicit as they were.
LEMMA ConstraintsBack ==
  ASSUME NEW m, MissionInv(m), WellReferenced(m), NEW positions, NEW stray,
         NEW f, f = Written(m, positions, stray), NEW n, n = Read(f)
  PROVE  /\ ToSet(n.constraints) = {AsRead(c) : c \in Kept(m)}
         /\ n.implicit = m.implicit \cap Kept(m)
  <1>0. m \in AnyMission
    BY DEF MissionInv
  <1>1. PICK cs : cs = ReadConditions(f)
    OBVIOUS
  <1>2. PICK ks : ks = ReadConstraints(f)
    OBVIOUS
  <1>3. Resolved(f)
    BY ReadConstraintsAre
  <1>4. IsRead(m.pool, m.locations, cs, ks, n)
    BY <1>1, <1>2, <1>3, FileRead
  <1>5. PICK I : I = ImpliedTo(cs, Len(cs))
    OBVIOUS
  <1>6. /\ MissionInv(n) /\ n \in AnyMission /\ n.pool = m.pool /\ n.conditions = cs
        /\ ToSet(n.constraints) = I \cup FreshTo(ks, Len(ks))
        /\ n.implicit = I \ {ks[i] : i \in 1..Len(ks)}
    BY <1>4, <1>5 DEF IsRead, ConstraintsDone, MissionInv
  <1>7. /\ I \subseteq ToSet(m.constraints) /\ \A o \in I : o.kind = "order"
        /\ Kept(m) = (ToSet(m.constraints) \ m.implicit) \cup (m.implicit \cap I)
    BY <1>1, <1>5, <1>6, ImpliedIs
  <1>8. PICK k \in Nat : ConstraintsRead(m, ks, f.temporal, k)
    BY <1>2, <1>3, ReadConstraintsAre
  <1>9. DOMAIN ks = 1..Len(ks)
    BY <1>8 DEF ConstraintsRead
  <1>10. FreshTo(ks, Len(ks)) = Fresh(ks) /\ {ks[i] : i \in 1..Len(ks)} = ToSet(ks)
    BY <1>9 DEF Fresh, FreshTo, ToSet
  <1>11. /\ Fresh(ks) = {AsRead(c) : c \in ToSet(m.constraints) \ m.implicit}
         /\ \A c \in ToSet(ks) : c.kind = "order" => c \in Explicit(m)
         /\ \A c \in Explicit(m) : c.kind = "order" => c \in ToSet(ks)
    BY <1>2, FreshAre
  <1>12. \A o \in I : AsRead(o) = o
    BY <1>7 DEF AsRead
  <1>13. ToSet(n.constraints) = {AsRead(c) : c \in Kept(m)}
    <2>1. ToSet(n.constraints) = I \cup {AsRead(c) : c \in ToSet(m.constraints) \ m.implicit}
      BY <1>6, <1>10, <1>11
    <2> QED
      BY <1>7, <1>12, <2>1
  <1>14. \A o \in I : o \in ToSet(ks) <=> o \notin m.implicit
    BY <1>7, <1>11 DEF Explicit
  <1>15. n.implicit = m.implicit \cap Kept(m)
    BY <1>6, <1>7, <1>10, <1>14
  <1> QED
    BY <1>13, <1>15

\* Orders that go well together still do when some of them are gone.
LEMMA ConsistentBack ==
  ASSUME NEW m, MissionInv(m), WellReferenced(m), Consistent(m), NEW positions, NEW stray,
         NEW f, f = Written(m, positions, stray)
  PROVE  Consistent(Read(f))
  <1>1. PICK n : n = Read(f)
    OBVIOUS
  <1>2. ToSet(n.constraints) = {AsRead(c) : c \in Kept(m)}
    BY <1>1, ConstraintsBack
  <1>3. Kept(m) \subseteq ToSet(m.constraints)
    BY DEF Kept, MissionInv
  <1>4. ASSUME NEW c \in ToSet(n.constraints), c.kind = "order" PROVE c \in ToSet(m.constraints)
    <2>1. PICK d \in Kept(m) : c = AsRead(d)
      BY <1>2
    <2>2. d \in AnyConstraint /\ d \in ToSet(m.constraints)
      BY <1>3, MissionParts DEF MissionInv
    <2>3. d.kind # "duration"
      <3>1. SUFFICES ASSUME d.kind = "duration" PROVE FALSE
        OBVIOUS
      <3>2. d \in AnyTemporal
        BY <2>2, <3>1 DEF AnyConstraint, AnyModel, AnyTemporal
      <3>3. AsRead(d).kind = "duration"
        BY <3>1, <3>2, ElementsAre
      <3> QED
        BY <1>4, <2>1, <3>3
    <2> QED
      BY <2>1, <2>2, <2>3 DEF AsRead
  <1>5. Consistent(n)
    BY <1>4 DEF Consistent
  <1> QED
    BY <1>1, <1>5

\* A file can be read unless it has no conditions, the pool is empty, or a reference
\* means nothing.
LEMMA ReadableIs ==
  ASSUME NEW m, MissionInv(m), WellReferenced(m), Consistent(m), NEW positions, NEW stray,
         NEW f, f = Written(m, positions, stray)
  PROVE  Readable(f, Read(f)) <=> Demands(m) # {} /\ \E r \in Model : m.pool[r] > 0
  <1>0. m \in AnyMission
    BY DEF MissionInv
  <1>1. PICK ps : ps = Places(m)
    OBVIOUS
  <1>2. /\ f.pool = m.pool /\ DOMAIN f.constants = m.locations /\ f.temporal = TemporalElements(m)
        /\ DOMAIN f.requirements = DOMAIN ps
        /\ \A n \in DOMAIN ps : f.requirements[n].place = ps[n]
    BY <1>0, <1>1, WrittenIs
  <1>3. \A q \in ToSet(f.requirements) : q.place[1] \in DOMAIN f.constants
    <2>1. ASSUME NEW n \in DOMAIN ps PROVE ps[n][1] \in m.locations
      <3>1. ps[n] \in ToSet(ps)
        BY DEF ToSet
      <3>2. PICK c \in ToSet(m.conditions) : ps[n] = Place(c)
        BY <1>0, <1>1, <3>1, PlacesAre
      <3> QED
        BY <3>2 DEF MissionInv, Place
    <2> QED
      BY <1>2, <2>1 DEF ToSet
  <1>4. /\ \A c \in ToSet(f.model) : \A ref \in ToSet(c.refs) : Referred(f, ref) # {}
        /\ \A c \in ToSet(f.model) : c.refs # <<>>
    BY ReadConstraintsAre DEF Resolved
  <1>5. \A c \in ToSet(f.temporal) : c.kind = "duration" => c.bounds[1][1] <= c.bounds[1][2]
    <2>1. /\ \A e : e \in ToSet(f.temporal) <=> \E c \in Explicit(m) : e \in ToSet(Elements(c))
          /\ Explicit(m) \subseteq AnyTemporal
      BY <1>0, <1>2, TemporalElementsAre
    <2> QED
      BY <2>1, ElementsAre
  <1>6. Consistent(Read(f))
    BY ConsistentBack
  <1>7. PICK cs : cs = ReadConditions(f)
    OBVIOUS
  <1>8. /\ cs \in Seq(AnyCondition) /\ IsInjective(cs)
        /\ \A x : x \in ToSet(cs) <=>
             \E p \in ToSet(Places(m)) : \E s \in ResourceSet(m, Requirement(m, p)) :
               x = MinCondition(p, s) \/ x = MaxCondition(p, s)
    BY <1>0, <1>7, ReadConditionsAre
  <1>9. cs # <<>> <=> ToSet(cs) # {}
    <2>1. cs = <<>> <=> Len(cs) = 0
      BY <1>8, EmptySeq
    <2>2. Len(cs) \in Nat /\ DOMAIN cs = 1..Len(cs)
      BY <1>8, LenProperties
    <2>3. Len(cs) = 0 <=> DOMAIN cs = {}
      BY <2>2
    <2> QED
      BY <2>1, <2>3 DEF ToSet
  <1>10. cs # <<>> <=> \E p \in ToSet(Places(m)) : ResourceSet(m, Requirement(m, p)) # {}
    BY <1>8, <1>9
  <1>11. Demands(m) # {} <=> \E p \in ToSet(Places(m)) : ResourceSet(m, Requirement(m, p)) # {}
    <2>1. \A q : ResourceSet(m, q) # {} <=> Restricted(m, q) # {} \/ q.functions # {}
      BY DEF ResourceSet
    <2>2. \A q : q \in Demands(m) <=> \E p \in ToSet(Places(m)) :
            q = Requirement(m, p) /\ (Restricted(m, q) # {} \/ q.functions # {})
      BY DEF Demands
    <2> QED
      BY <2>1, <2>2
  <1>12. (LET k == ReadConditions(f) IN k # <<>> /\ IsInjective(k)) <=> Demands(m) # {}
    BY <1>7, <1>8, <1>10, <1>11
  <1>13. (\E r \in Model : f.pool[r] > 0) <=> \E r \in Model : m.pool[r] > 0
    BY <1>2
  <1> QED
    BY <1>3, <1>4, <1>5, <1>6, <1>12, <1>13, Zenon DEF Readable

(***************************************************************************)
(* The inductive invariant.                                                *)
(***************************************************************************)
Coordinates == Position \cup {SixDigits(p) : p \in Position}

\* The file is what was written of the mission that was saved.
SavedFile ==
  /\ MissionInv(saved.mission) /\ Consistent(saved.mission)
  /\ \E stray : file = Written(saved.mission, saved.positions, stray)
  /\ \A l \in saved.mission.locations : saved.positions[l] \in Coordinates

\* A location that the process does not have from its client has the position of a file
\* in six digits, and that of the last file if it is in there.
Positions ==
  \A l \in Location \ created :
    registry[l] # Nowhere =>
      /\ file # NoFile
      /\ registry[l] = SixDigits(registry[l])
      /\ l \in saved.mission.locations => registry[l] = SixDigits(saved.positions[l])

Loaded == file # NoFile /\ Readable(file, Read(file)) /\ mission = Read(file)
Refused == file # NoFile /\ ~ Readable(file, Read(file))

RegistryOK ==
  /\ registry \in [Location -> Coordinates \cup {Nowhere}]
  /\ created \subseteq {l \in Location : registry[l] # Nowhere}

MissionOK == MissionInv(mission) /\ \A l \in mission.locations : registry[l] # Nowhere

Inv ==
  /\ RegistryOK
  /\ MissionOK
  /\ last \in {"none", "saved", "not saved", "loaded", "refused"}
  /\ edits \in 0..MaxEdits
  /\ file # NoFile => SavedFile
  /\ Positions
  /\ last = "loaded" => Loaded
  /\ last = "refused" => Refused

LEMMA CoordinatesAre ==
  ASSUME NEW x \in Coordinates
  PROVE  x \in Nat /\ x # Nowhere /\ SixDigits(x) \in Coordinates
                   /\ SixDigits(SixDigits(x)) = SixDigits(x)
  <1>1. \A p \in Position : p \in Nat
    BY PositionAssumption
  <1>2. CASE x \in Position
    BY <1>1, <1>2, SixDigitsFacts DEF Coordinates, Nowhere
  <1>3. CASE x \notin Position
    <2>1. PICK p \in Position : x = SixDigits(p)
      BY <1>3 DEF Coordinates
    <2>2. p \in Nat
      BY <1>1
    <2>3. SixDigits(p) \in Nat /\ SixDigits(SixDigits(p)) = SixDigits(p)
      BY <2>2, SixDigitsFacts
    <2> QED
      BY <2>1, <2>3 DEF Nowhere
  <1> QED
    BY <1>2, <1>3

LEMMA NewMissionIs ==
  ASSUME NEW pool \in Pools
  PROVE  /\ MissionInv(NewMission(pool)) /\ NewMission(pool).locations = {}
         /\ NewMission(pool).pool = pool
  <1>1. PICK m : m = NewMission(pool)
    OBVIOUS
  <1>2. m = Parts(pool, {}, <<>>, <<>>, {})
    BY <1>1 DEF NewMission, Parts
  <1>3. /\ m \in AnyMission /\ m.pool = pool /\ m.locations = {}
        /\ m.conditions = <<>> /\ m.constraints = <<>> /\ m.implicit = {}
    BY <1>2 DEF Parts, AnyMission
  <1>4. DOMAIN <<>> = {} /\ ToSet(<<>>) = {} /\ IsInjective(<<>>)
    BY DEF ToSet, IsInjective
  <1>5. MissionInv(m)
    BY <1>3, <1>4 DEF MissionInv
  <1> QED
    BY <1>1, <1>3, <1>5

LEMMA InitInv == Init => Inv
  <1> SUFFICES ASSUME Init PROVE Inv
    OBVIOUS
  <1>1. PICK pool \in Pools : mission = NewMission(pool)
    BY DEF Init
  <1>2. MissionInv(mission) /\ mission.locations = {}
    BY <1>1, NewMissionIs
  <1> QED
    BY <1>2, MaxEditsAssumption DEF Init, Inv, RegistryOK, MissionOK, Positions

\* An edit keeps the invariant if it keeps what a mission is.
LEMMA EditInv ==
  ASSUME Inv, NEW m, MissionInv(m), \A l \in m.locations : registry[l] # Nowhere, Edit(m)
  PROVE  Inv'
  <1>1. /\ edits < MaxEdits /\ edits' = edits + 1 /\ mission' = m /\ last' = "none"
        /\ registry' = registry /\ file' = file /\ saved' = saved /\ created' = created
    BY DEF Edit
  <1>2. RegistryOK' /\ Positions' /\ (file' # NoFile => SavedFile')
    BY <1>1 DEF Inv, RegistryOK, Positions, SavedFile
  <1>3. MissionOK'
    BY <1>1 DEF MissionOK
  <1>4. edits' \in 0..MaxEdits
    <2>1. edits \in 0..MaxEdits
      BY DEF Inv
    <2> QED
      BY <1>1, <2>1, MaxEditsAssumption
  <1> QED
    BY <1>1, <1>2, <1>3, <1>4 DEF Inv

LEMMA CreateLocationInv ==
  ASSUME Inv, NEW l \in Location, NEW p \in Position, CreateLocation(l, p)
  PROVE  Inv'
  <1>1. /\ registry[l] = Nowhere /\ registry' = [registry EXCEPT ![l] = p]
        /\ created' = created \cup {l}
        /\ mission' = mission /\ file' = file /\ last' = last /\ edits' = edits /\ saved' = saved
    BY DEF CreateLocation
  <1>2. registry \in [Location -> Coordinates \cup {Nowhere}] /\ created \subseteq {k \in Location : registry[k] # Nowhere}
    BY DEF Inv, RegistryOK
  <1>3. p \in Coordinates /\ p # Nowhere
    BY CoordinatesAre DEF Coordinates
  <1>4. /\ registry' \in [Location -> Coordinates \cup {Nowhere}]
        /\ \A k \in Location : registry'[k] = IF k = l THEN p ELSE registry[k]
    BY <1>1, <1>2, <1>3
  <1>5. RegistryOK'
    BY <1>1, <1>2, <1>3, <1>4 DEF RegistryOK
  <1>6. MissionOK'
    <2>1. mission.locations \subseteq Location
      BY MissionParts DEF Inv, MissionOK, MissionInv
    <2> QED
      BY <1>1, <1>3, <1>4, <2>1 DEF Inv, MissionOK
  <1>7. Positions'
    BY <1>1, <1>4 DEF Inv, Positions
  <1>8. (file' # NoFile => SavedFile') /\ (last' = "loaded" => Loaded') /\ (last' = "refused" => Refused')
    BY <1>1 DEF Inv, SavedFile, Loaded, Refused
  <1> QED
    BY <1>1, <1>5, <1>6, <1>7, <1>8 DEF Inv

LEMMA AddRequirementInv ==
  ASSUME Inv, NEW c \in Conditions, AddRequirement(c)
  PROVE  Inv'
  <1>1. MissionInv(mission) /\ mission \in AnyMission /\ \A l \in mission.locations : registry[l] # Nowhere
    BY DEF Inv, MissionOK, MissionInv
  <1>2. c \in AnyCondition
    <2>1. \A n \in Amount : n \in 0..Inf
      BY AmountAssumption, InfAssumption
    <2>2. 1 \in 0..Inf
      BY InfAssumption
    <2> QED
      BY <2>1, <2>2 DEF Conditions, AnyCondition
  <1>3. registry[c.location] # Nowhere
    BY DEF AddRequirement
  <1>4. CASE c \in ToSet(mission.conditions)
    <2>1. c.location \in mission.locations
      BY <1>1, <1>4 DEF MissionInv
    <2>2. [mission EXCEPT !.locations = @ \cup {c.location}] = mission
      <3>1. mission.locations \cup {c.location} = mission.locations
        BY <2>1
      <3>2. [mission EXCEPT !.locations = mission.locations] = mission
        <4>1. [mission EXCEPT !.locations = mission.locations]
                = Parts(mission.pool, mission.locations, mission.conditions,
                        mission.constraints, mission.implicit)
          BY <1>1, PartsExcept, Zenon
        <4>2. mission = Parts(mission.pool, mission.locations, mission.conditions,
                              mission.constraints, mission.implicit)
          BY <1>1, PartsExcept, Zenon
        <4> QED
          BY <4>1, <4>2, Zenon
      <3> QED
        BY <3>1, <3>2
    <2>3. Edit(mission)
      BY <1>4, <2>2 DEF AddRequirement
    <2> QED
      BY <1>1, <2>3, EditInv
  <1>5. CASE c \notin ToSet(mission.conditions)
    <2>1. Edit(AddCondition(mission, c))
      BY <1>5 DEF AddRequirement
    <2>2. /\ MissionInv(AddCondition(mission, c))
          /\ AddCondition(mission, c).locations = mission.locations \cup {c.location}
      BY <1>1, <1>2, <1>5, AddConditionKeeps
    <2> QED
      BY <1>1, <1>3, <2>1, <2>2, EditInv
  <1> QED
    BY <1>4, <1>5

LEMMA AddExplicitInv ==
  ASSUME Inv, NEW c \in AnyConstraint, Located(mission, c), Edit(AddConstraint(mission, c, FALSE))
  PROVE  Inv'
  <1>1. MissionInv(mission) /\ mission \in AnyMission /\ \A l \in mission.locations : registry[l] # Nowhere
    BY DEF Inv, MissionOK, MissionInv
  <1>2. PICK n : n = AddConstraint(mission, c, FALSE)
    OBVIOUS
  <1>3. MissionInv(n)
    BY <1>1, <1>2, AddConstraintKeeps
  <1>4. WithConstraint(mission, c, n)
    BY <1>1, <1>2, AddConstraintHas, Zenon
  <1>5. n.locations = mission.locations
    BY <1>4 DEF WithConstraint
  <1>6. Edit(n)
    BY <1>2, Zenon
  <1> QED
    BY <1>1, <1>3, <1>5, <1>6, EditInv

LEMMA AddOrderInv ==
  ASSUME Inv, NEW o \in Orders, AddOrder(o)
  PROVE  Inv'
  <1>1. PICK c : c = Order(o[1], o[2], o[3])
    OBVIOUS
  <1>2. c \in AnyConstraint /\ c.kind = "order"
    BY <1>1, OrdersAssumption DEF Order, AnyOrder, AnyConstraint
  <1>3. Located(mission, c)
    BY <1>2 DEF Located
  <1>4. Edit(AddConstraint(mission, c, FALSE))
    BY <1>1, Zenon DEF AddOrder
  <1> QED
    BY <1>2, <1>3, <1>4, AddExplicitInv

LEMMA AddDurationInv ==
  ASSUME Inv, NEW d \in Durations, AddDuration(d)
  PROVE  Inv'
  <1>1. PICK c : c = [kind |-> "duration", from |-> d[1], to |-> d[2], bounds |-> d[3]]
    OBVIOUS
  <1>2. /\ d[1] \in Point /\ d[2] \in Point /\ d[3] \in Seq(Nat \X Nat) /\ d[3] # <<>>
        /\ \A b \in ToSet(d[3]) : InOrder(b)
    BY DurationsAssumption DEF InOrder
  <1>3. c \in AnyConstraint /\ c.kind = "duration"
    BY <1>1, <1>2, DurationIs DEF AnyConstraint
  <1>4. Located(mission, c)
    BY <1>3 DEF Located
  <1>5. Edit(AddConstraint(mission, c, FALSE))
    BY <1>1, Zenon DEF AddDuration
  <1> QED
    BY <1>3, <1>4, <1>5, AddExplicitInv

LEMMA AddModelConstraintInv ==
  ASSUME Inv, NEW r \in Model, NEW refs \in References, AddModelConstraint(r, refs)
  PROVE  Inv'
  <1>0. mission \in AnyMission
    BY DEF Inv, MissionOK, MissionInv
  <1>1. PICK c : c = [kind |-> "model", model |-> r, refs |-> refs]
    OBVIOUS
  <1>2. refs \in Seq(AnyPlace) /\ refs # <<>>
    BY ReferencesAssumption DEF AnyPlace, FullMission
  <1>3. c \in AnyConstraint /\ c.refs = refs
    BY <1>1, <1>2, ModelIs DEF AnyConstraint
  <1>4. ASSUME NEW p \in ToSet(refs), p[2] = FullMission PROVE p[1] \in mission.locations
    <2>1. p \in ToSet(Places(mission)) \cup (mission.locations \X {FullMission})
      BY DEF AddModelConstraint
    <2>2. p \notin ToSet(Places(mission))
      <3>1. SUFFICES ASSUME p \in ToSet(Places(mission)) PROVE FALSE
        OBVIOUS
      <3>2. PICK x \in ToSet(mission.conditions) : p = Place(x)
        BY <1>0, <3>1, PlacesAre
      <3>3. x.interval \in Intervals
        <4>1. x \in AnyCondition
          BY <1>0, MissionParts
        <4> QED
          BY <4>1 DEF AnyCondition
      <3>4. \E i, j : x.interval = <<i, j>>
        BY <3>3, IntervalsAssumption
      <3>5. \A i, j : <<i, j>> # <<>>
        OBVIOUS
      <3> QED
        BY <1>4, <3>2, <3>4, <3>5 DEF Place, FullMission
    <2> QED
      BY <2>1, <2>2
  <1>5. Located(mission, c)
    BY <1>3, <1>4 DEF Located
  <1>6. Edit(AddConstraint(mission, c, FALSE))
    BY <1>1, Zenon DEF AddModelConstraint
  <1> QED
    BY <1>3, <1>5, <1>6, AddExplicitInv

LEMMA SetAvailableResourcesInv ==
  ASSUME Inv, NEW pool \in Pools, SetAvailableResources(pool)
  PROVE  Inv'
  <1>1. MissionInv(mission) /\ mission \in AnyMission /\ \A l \in mission.locations : registry[l] # Nowhere
    BY DEF Inv, MissionOK, MissionInv
  <1>2. PICK n : n = [mission EXCEPT !.pool = pool]
    OBVIOUS
  <1>3. n = Parts(pool, mission.locations, mission.conditions, mission.constraints, mission.implicit)
    BY <1>1, <1>2, PartsExcept, Zenon
  <1>4. /\ n \in AnyMission /\ n.locations = mission.locations /\ n.conditions = mission.conditions
        /\ n.constraints = mission.constraints /\ n.implicit = mission.implicit
    BY <1>1, <1>3, MissionParts, PartsTyped
  <1>5. MissionInv(n)
    BY <1>1, <1>4 DEF MissionInv, Located
  <1>6. Edit(n)
    BY <1>2, Zenon DEF SetAvailableResources
  <1> QED
    BY <1>1, <1>4, <1>5, <1>6, EditInv

LEMMA SaveInv ==
  ASSUME Inv, NEW stray, Save(stray)
  PROVE  Inv'
  <1>1. /\ registry' = registry /\ mission' = mission /\ edits' = edits /\ created' = created
    BY DEF Save
  <1>2. MissionInv(mission) /\ mission \in AnyMission /\ \A l \in mission.locations : registry[l] # Nowhere
    BY DEF Inv, MissionOK, MissionInv
  <1>3. RegistryOK' /\ MissionOK' /\ edits' \in 0..MaxEdits
    BY <1>1 DEF Inv, RegistryOK, MissionOK
  <1>4. CASE ~ Consistent(mission)
    <2>1. last' = "not saved" /\ file' = file /\ saved' = saved
      BY <1>4 DEF Save
    <2>2. (file' # NoFile => SavedFile') /\ Positions'
      BY <1>1, <2>1 DEF Inv, SavedFile, Positions
    <2> QED
      BY <1>3, <2>1, <2>2 DEF Inv
  <1>5. CASE Consistent(mission)
    <2>1. /\ saved' = [mission |-> mission, positions |-> Restrict(registry, mission.locations)]
          /\ file' = Written(mission, registry, stray) /\ last' = "saved"
      BY <1>5 DEF Save
    <2>2. saved'.mission = mission /\ \A l \in mission.locations : saved'.positions[l] = registry[l]
      BY <2>1 DEF Restrict
    <2>3. /\ registry \in [Location -> Coordinates \cup {Nowhere}]
          /\ mission.locations \subseteq Location
      BY <1>2, MissionParts DEF Inv, RegistryOK
    <2>4. \A l \in mission.locations : saved'.positions[l] \in Coordinates
      BY <1>2, <2>2, <2>3
    <2>5. file' = Written(saved'.mission, saved'.positions, stray)
      <3>1. PICK positions : positions = saved'.positions
        OBVIOUS
      <3>2. [l \in mission.locations |-> SixDigits(registry[l])]
              = [l \in mission.locations |-> SixDigits(positions[l])]
        BY <2>2, <3>1
      <3>3. Written(mission, registry, stray) = Written(mission, positions, stray)
        BY <3>2, Zenon DEF Written
      <3> QED
        BY <2>1, <2>2, <3>1, <3>3
    <2>6. SavedFile'
      BY <1>2, <1>5, <2>2, <2>4, <2>5 DEF SavedFile
    <2>7. file' # NoFile
      BY <1>2, <2>1, WrittenIs
    <2>8. Positions'
      <3>1. ASSUME NEW l \in Location \ created, registry[l] # Nowhere
            PROVE  registry[l] = SixDigits(registry[l])
        BY <3>1 DEF Inv, Positions
      <3> QED
        BY <1>1, <2>2, <2>7, <3>1 DEF Positions
    <2> QED
      BY <1>3, <2>1, <2>6, <2>8 DEF Inv
  <1> QED
    BY <1>4, <1>5

\* What a load puts into the registry is what the file knows.
LEMMA LoadInv ==
  ASSUME Inv, Load
  PROVE  Inv'
  <1>1. /\ file # NoFile /\ file' = file /\ edits' = edits /\ saved' = saved /\ created' = created
        /\ registry' = [l \in Location |->
                          IF registry[l] = Nowhere /\ l \in DOMAIN file.constants
                          THEN file.constants[l] ELSE registry[l]]
    BY DEF Load
  <1>2. /\ MissionInv(saved.mission) /\ Consistent(saved.mission)
        /\ \A l \in saved.mission.locations : saved.positions[l] \in Coordinates
    BY <1>1 DEF Inv, SavedFile
  <1>3. PICK stray : file = Written(saved.mission, saved.positions, stray)
    BY <1>1 DEF Inv, SavedFile
  <1>4. saved.mission \in AnyMission /\ saved.mission.locations \subseteq Location
    BY <1>2, MissionParts DEF MissionInv
  <1>5. /\ DOMAIN file.constants = saved.mission.locations
        /\ \A l \in saved.mission.locations : file.constants[l] = SixDigits(saved.positions[l])
    BY <1>3, <1>4, WrittenIs
  <1>6. \A l \in saved.mission.locations :
          /\ file.constants[l] \in Coordinates /\ file.constants[l] # Nowhere
          /\ SixDigits(file.constants[l]) = file.constants[l]
    BY <1>2, <1>5, CoordinatesAre
  <1>7. /\ registry \in [Location -> Coordinates \cup {Nowhere}]
        /\ created \subseteq {l \in Location : registry[l] # Nowhere}
    BY DEF Inv, RegistryOK
  <1>8. \A l \in Location :
          registry'[l] = IF registry[l] = Nowhere /\ l \in saved.mission.locations
                         THEN file.constants[l] ELSE registry[l]
    BY <1>1, <1>5
  <1>9. \A l \in Location : /\ registry[l] # Nowhere => registry'[l] = registry[l]
                            /\ l \in saved.mission.locations => registry'[l] # Nowhere
    BY <1>6, <1>8
  <1>10. RegistryOK'
    <2>1. \A l \in Location : registry'[l] \in Coordinates \cup {Nowhere}
      BY <1>6, <1>7, <1>8
    <2>2. registry' \in [Location -> Coordinates \cup {Nowhere}]
      BY <1>1, <2>1
    <2>3. created' \subseteq {l \in Location : registry'[l] # Nowhere}
      BY <1>1, <1>7, <1>9
    <2> QED
      BY <2>2, <2>3 DEF RegistryOK
  <1>11. Positions'
    <2>1. ASSUME NEW l \in Location \ created', registry'[l] # Nowhere
          PROVE  /\ registry'[l] = SixDigits(registry'[l])
                 /\ l \in saved.mission.locations => registry'[l] = SixDigits(saved.positions[l])
      <3>1. CASE registry[l] # Nowhere
        <4>1. /\ registry[l] = SixDigits(registry[l])
              /\ l \in saved.mission.locations => registry[l] = SixDigits(saved.positions[l])
          BY <1>1, <2>1, <3>1 DEF Inv, Positions
        <4> QED
          BY <1>9, <2>1, <3>1, <4>1
      <3>2. CASE registry[l] = Nowhere
        <4>1. l \in saved.mission.locations /\ registry'[l] = file.constants[l]
          BY <1>8, <2>1, <3>2
        <4> QED
          BY <1>5, <1>6, <4>1
      <3> QED
        BY <3>1, <3>2
    <2> QED
      BY <1>1, <2>1 DEF Positions
  <1>12. file' # NoFile => SavedFile'
    BY <1>1 DEF Inv, SavedFile
  <1>13. edits' \in 0..MaxEdits
    BY <1>1 DEF Inv
  <1>14. CASE Readable(file, Read(file))
    <2>1. mission' = Read(file) /\ last' = "loaded"
      BY <1>14 DEF Load
    <2>2. Resolved(file)
      BY <1>14, Zenon DEF Readable, Resolved
    <2>3. IsRead(saved.mission.pool, saved.mission.locations, ReadConditions(file),
                 ReadConstraints(file), Read(file))
      BY <1>2, <1>3, <2>2, FileRead
    <2>4. MissionInv(Read(file)) /\ Read(file).locations = saved.mission.locations
      BY <2>3, Zenon DEF IsRead, ConstraintsDone
    <2>5. MissionOK'
      BY <1>4, <1>9, <2>1, <2>4 DEF MissionOK
    <2>6. Loaded'
      BY <1>1, <1>14, <2>1 DEF Loaded
    <2> QED
      BY <1>10, <1>11, <1>12, <1>13, <2>1, <2>5, <2>6 DEF Inv
  <1>15. CASE ~ Readable(file, Read(file))
    <2>1. mission' = mission /\ last' = "refused"
      BY <1>15 DEF Load
    <2>2. MissionOK'
      <3>1. MissionInv(mission) /\ \A l \in mission.locations : registry[l] # Nowhere
        BY DEF Inv, MissionOK
      <3>2. mission.locations \subseteq Location
        BY <3>1, MissionParts DEF MissionInv
      <3> QED
        BY <1>9, <2>1, <3>1, <3>2 DEF MissionOK
    <2>3. Refused'
      BY <1>1, <1>15 DEF Refused
    <2> QED
      BY <1>10, <1>11, <1>12, <1>13, <2>1, <2>2, <2>3 DEF Inv
  <1> QED
    BY <1>14, <1>15

LEMMA RestartInv ==
  ASSUME Inv, Restart
  PROVE  Inv'
  <1>1. /\ file' = file /\ edits' = edits /\ saved' = saved /\ created' = {} /\ last' = "none"
        /\ registry' = [l \in Location |-> Nowhere] /\ mission' = NewMission(mission.pool)
    BY DEF Restart
  <1>2. mission \in AnyMission
    BY DEF Inv, MissionOK, MissionInv
  <1>3. mission.pool \in Pools
    BY <1>2, MissionParts
  <1>4. MissionInv(mission') /\ mission'.locations = {}
    BY <1>1, <1>3, NewMissionIs
  <1>5. RegistryOK' /\ MissionOK' /\ Positions'
    BY <1>1, <1>4 DEF RegistryOK, MissionOK, Positions
  <1>6. (file' # NoFile => SavedFile') /\ edits' \in 0..MaxEdits
    BY <1>1 DEF Inv, SavedFile
  <1> QED
    BY <1>1, <1>5, <1>6 DEF Inv

LEMMA NextInv == Inv /\ [Next]_vars => Inv'
  <1> SUFFICES ASSUME Inv, [Next]_vars PROVE Inv'
    OBVIOUS
  <1>1. ASSUME NEW l \in Location, NEW p \in Position, CreateLocation(l, p) PROVE Inv'
    BY <1>1, CreateLocationInv
  <1>2. ASSUME NEW c \in Conditions, AddRequirement(c) PROVE Inv'
    BY <1>2, AddRequirementInv
  <1>3. ASSUME NEW o \in Orders, AddOrder(o) PROVE Inv'
    BY <1>3, AddOrderInv
  <1>4. ASSUME NEW d \in Durations, AddDuration(d) PROVE Inv'
    BY <1>4, AddDurationInv
  <1>5. ASSUME NEW r \in Model, NEW refs \in References, AddModelConstraint(r, refs) PROVE Inv'
    BY <1>5, AddModelConstraintInv
  <1>6. ASSUME NEW pool \in Pools, SetAvailableResources(pool) PROVE Inv'
    BY <1>6, SetAvailableResourcesInv
  <1>7. ASSUME NEW stray, Save(stray) PROVE Inv'
    BY <1>7, SaveInv
  <1>8. CASE Load
    BY <1>8, LoadInv
  <1>9. CASE Restart
    BY <1>9, RestartInv
  <1>10. CASE UNCHANGED vars
    <2>1. /\ registry' = registry /\ mission' = mission /\ file' = file /\ last' = last
          /\ edits' = edits /\ saved' = saved /\ created' = created
      BY <1>10 DEF vars
    <2> QED
      BY <2>1 DEF Inv, RegistryOK, MissionOK, SavedFile, Positions, Loaded, Refused
  <1> QED
    BY <1>1, <1>2, <1>3, <1>4, <1>5, <1>6, <1>7, <1>8, <1>9, <1>10 DEF Next

\* At any time a mission repeats nothing and has what its requirements imply, the file
\* is what was written of the saved mission, and the registry has positions of the client
\* or of files: whatever was edited, saved, loaded and restarted before.
THEOREM Invariant == Spec => []Inv
  <1>1. Init => Inv
    BY InitInv
  <1>2. Inv /\ [Next]_vars => Inv'
    BY NextInv
  <1> QED
    BY <1>1, <1>2, PTL DEF Spec

\* TypeOK: conditions and constraints of a mission differ in what the code compares.
THEOREM TypeCorrect == Spec => []TypeOK
  <1>1. Inv => TypeOK
    <2> SUFFICES ASSUME Inv PROVE TypeOK
      OBVIOUS
    <2>1. /\ registry \in [Location -> Coordinates \cup {Nowhere}]
          /\ created \subseteq {l \in Location : registry[l] # Nowhere}
      BY DEF Inv, RegistryOK
    <2>2. MissionInv(mission) /\ mission \in AnyMission /\ \A l \in mission.locations : registry[l] # Nowhere
      BY DEF Inv, MissionOK, MissionInv
    <2>3. /\ mission.pool \in Pools /\ mission.locations \subseteq Location
          /\ mission.constraints \in Seq(AnyConstraint)
          /\ ToSet(mission.conditions) \subseteq AnyCondition
      BY <2>2, MissionParts
    <2>4. \A c \in ToSet(mission.conditions) : c.location \in mission.locations /\ c.interval \in Intervals
      BY <2>2, <2>3 DEF MissionInv, AnyCondition
    <2>5. IsInjective(mission.conditions) /\ mission.implicit \subseteq ToSet(mission.constraints)
      BY <2>2 DEF MissionInv
    <2>6. registry \in [Location -> Position \cup {SixDigits(p) : p \in Position} \cup {Nowhere}]
      BY <2>1 DEF Coordinates
    <2>7. /\ mission.locations \subseteq {l \in Location : registry[l] # Nowhere}
          /\ last \in {"none", "saved", "not saved", "loaded", "refused"} /\ edits \in 0..MaxEdits
      BY <2>2, <2>3 DEF Inv
    <2>8. \A m, n \in 1..Len(mission.constraints) :
            LET c == mission.constraints[m]
                d == mission.constraints[n]
            IN m # n /\ c.kind = d.kind =>
                 CASE c.kind = "model" -> c # d
                   [] c.kind = "duration" -> <<c.from, c.to>> # <<d.from, d.to>>
                   [] c.kind = "order" -> <<c.from, c.to, c.type>> # <<d.from, d.to, d.type>>
      <3> TAKE i, j \in 1..Len(mission.constraints)
      <3>1. PICK c : c = mission.constraints[i]
        OBVIOUS
      <3>2. PICK d : d = mission.constraints[j]
        OBVIOUS
      <3>3. i # j /\ c.kind = d.kind =>
              CASE c.kind = "model" -> c # d
                [] c.kind = "duration" -> <<c.from, c.to>> # <<d.from, d.to>>
                [] c.kind = "order" -> <<c.from, c.to, c.type>> # <<d.from, d.to, d.type>>
        <4> SUFFICES ASSUME i # j, c.kind = d.kind
                     PROVE  CASE c.kind = "model" -> c # d
                              [] c.kind = "duration" -> <<c.from, c.to>> # <<d.from, d.to>>
                              [] c.kind = "order" -> <<c.from, c.to, c.type>> # <<d.from, d.to, d.type>>
          OBVIOUS
        <4>1. DOMAIN mission.constraints = 1..Len(mission.constraints)
          BY <2>3, LenProperties
        <4>2. c \in AnyConstraint /\ d \in AnyConstraint
          BY <2>3, <3>1, <3>2
        <4>3. Identity(c) # Identity(d)
          BY <2>2, <3>1, <3>2, <4>1 DEF MissionInv
        <4>4. c # d /\ ~ (c.kind = "duration" /\ c.from = d.from /\ c.to = d.to)
          BY <4>2, <4>3, IdentityIs
        <4>5. CASE c.kind = "model"
          BY <4>4, <4>5
        <4>6. CASE c.kind = "duration"
          BY <4>4, <4>6
        <4>7. CASE c.kind = "order"
          <5>1. c \in AnyOrder /\ d \in AnyOrder
            BY <4>2, <4>7 DEF AnyConstraint, AnyDuration, AnyModel
          <5>2. /\ c = [kind |-> "order", from |-> c.from, to |-> c.to, type |-> c.type]
                /\ d = [kind |-> "order", from |-> d.from, to |-> d.to, type |-> d.type]
            BY <5>1 DEF AnyOrder
          <5>3. <<c.from, c.to, c.type>> # <<d.from, d.to, d.type>>
            BY <4>4, <5>2
          <5> QED
            BY <4>7, <5>3
        <4>8. c.kind = "model" \/ c.kind = "duration" \/ c.kind = "order"
          BY <4>2 DEF AnyConstraint, AnyOrder, AnyDuration, AnyModel
        <4> QED
          BY <4>5, <4>6, <4>7, <4>8
      <3> QED
        BY <3>1, <3>2, <3>3, Zenon
    <2> QED
      BY <2>1, <2>3, <2>4, <2>5, <2>6, <2>7, <2>8, Zenon DEF TypeOK
  <1> QED
    BY <1>1, Invariant, PTL

\* SavedFilesLoad: the reader takes what the writer wrote of a mission whose references
\* resolve, exactly if the mission demanded something and had resources.
THEOREM SavedFilesAreReadable == Spec => []SavedFilesLoad
  <1>1. Inv => SavedFilesLoad
    <2> SUFFICES ASSUME Inv, last \in {"loaded", "refused"}, WellReferenced(saved.mission)
                 PROVE  last = "loaded" <=> /\ Demands(saved.mission) # {}
                                            /\ \E r \in Model : saved.mission.pool[r] > 0
      BY DEF SavedFilesLoad
    <2>1. file # NoFile /\ (last = "loaded" <=> Readable(file, Read(file)))
      BY DEF Inv, Loaded, Refused
    <2>2. MissionInv(saved.mission) /\ Consistent(saved.mission)
      BY <2>1 DEF Inv, SavedFile
    <2>3. PICK stray : file = Written(saved.mission, saved.positions, stray)
      BY <2>1 DEF Inv, SavedFile
    <2>4. Readable(file, Read(file)) <=>
            /\ Demands(saved.mission) # {}
            /\ \E r \in Model : saved.mission.pool[r] > 0
      BY <2>2, <2>3, ReadableIs
    <2> QED
      BY <2>1, <2>4
  <1> QED
    BY <1>1, Invariant, PTL

\* LoadRestores: a mission that is loaded demands what the saved one did of the same
\* resources at the same locations, and has its constraints that remain, the implied ones
\* as implied.
THEOREM FilesRestore == Spec => []LoadRestores
  <1>1. Inv => LoadRestores
    <2> SUFFICES ASSUME Inv, last = "loaded" PROVE LoadRestores
      BY DEF LoadRestores, RequirementsSurvive, ConstraintsSurvive
    <2>1. file # NoFile /\ Readable(file, Read(file)) /\ mission = Read(file)
      BY DEF Inv, Loaded
    <2>2. MissionInv(saved.mission) /\ saved.mission \in AnyMission
      BY <2>1 DEF Inv, SavedFile, MissionInv
    <2>3. PICK stray : file = Written(saved.mission, saved.positions, stray)
      BY <2>1 DEF Inv, SavedFile
    <2>4. Resolved(file)
      BY <2>1, Zenon DEF Readable, Resolved
    <2>5. IsRead(saved.mission.pool, saved.mission.locations, ReadConditions(file),
                 ReadConstraints(file), mission)
      BY <2>1, <2>2, <2>3, <2>4, FileRead
    <2>6. /\ MissionInv(mission) /\ mission.pool = saved.mission.pool
          /\ mission.locations = saved.mission.locations
          /\ mission.conditions = ReadConditions(file)
      BY <2>5, Zenon DEF IsRead, ConstraintsDone
    <2>7. mission \in AnyMission /\ mission.locations \subseteq Location
      BY <2>6, MissionParts DEF MissionInv
    <2>8. Demands(mission) = Demands(saved.mission)
      BY <2>2, <2>3, <2>6, <2>7, DemandsRead
    <2>9. \A l \in mission.locations \ created : registry[l] = SixDigits(saved.positions[l])
      <3>1. \A l \in mission.locations : registry[l] # Nowhere
        BY DEF Inv, MissionOK
      <3>2. Positions
        BY DEF Inv
      <3> QED
        BY <2>6, <2>7, <3>1, <3>2 DEF Positions
    <2>10. RequirementsSurvive
      BY <2>6, <2>8, <2>9 DEF RequirementsSurvive
    <2>11. ConstraintsSurvive
      <3>1. SUFFICES ASSUME WellReferenced(saved.mission)
                     PROVE  /\ ToSet(mission.constraints) = {AsRead(c) : c \in Kept(saved.mission)}
                            /\ mission.implicit = saved.mission.implicit \cap Kept(saved.mission)
        BY DEF ConstraintsSurvive
      <3> QED
        BY <2>1, <2>2, <2>3, <3>1, ConstraintsBack
    <2> QED
      BY <2>10, <2>11 DEF LoadRestores
  <1> QED
    BY <1>1, Invariant, PTL

=============================================================================
