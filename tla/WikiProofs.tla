------------------------------ MODULE WikiProofs ------------------------------
(***************************************************************************)
(* Theorems of Wiki for every set of entities, directories, slugs and      *)
(* calls, every cap and every number of changes.                           *)
(***************************************************************************)
EXTENDS Wiki, FiniteSetTheorems, WellFoundedInduction, TLAPS

-----------------------------------------------------------------------------
(* Numbers, and strict orders on finite sets. *)

LEMMA LeastOf ==
    ASSUME NEW S \in SUBSET Nat, S # {}
    PROVE  \E n \in S : \A m \in S : n <= m
<1>1. PICK n \in S : \A m \in S : <<m, n>> \notin OpToRel(<, Nat)
  BY NatLessThanWellFounded, WFMin
<1>2. ASSUME NEW m \in S PROVE n <= m
  <2>1. <<m, n>> \in Nat \X Nat /\ <<m, n>>[1] = m /\ <<m, n>>[2] = n
    OBVIOUS
  <2>2. ~(m < n)
    BY <1>1, <2>1 DEF OpToRel
  <2> QED
    BY <2>1, <2>2
<1> QED
  BY <1>2

\* The largest of a bounded set of numbers, as FiniteSetsExt chooses it.
LEMMA MaxOf ==
    ASSUME NEW S \in SUBSET Nat, S # {}, NEW n \in Nat, \A s \in S : s <= n
    PROVE  Max(S) \in S /\ \A y \in S : Max(S) >= y
<1> DEFINE T == {n - s : s \in S}
<1>1. T \in SUBSET Nat /\ T # {}
  <2>1. \A s \in S : n - s \in Nat
    OBVIOUS
  <2> QED
    BY <2>1
<1>2. PICK m \in T : \A y \in T : m <= y
  BY <1>1, LeastOf
<1>3. PICK s \in S : m = n - s
  BY <1>2
<1>4. ASSUME NEW y \in S PROVE s >= y
  <2>1. n - y \in T
    OBVIOUS
  <2> QED
    BY <1>2, <1>3, <2>1
<1> QED
  BY <1>4 DEF Max

\* Natural induction, with the numbers that fail as a set.
LEMMA LeastFailure ==
    ASSUME NEW S \in SUBSET Nat, 0 \notin S,
           \A n \in Nat : n \notin S => n + 1 \notin S
    PROVE  S = {}
<1>1. SUFFICES ASSUME S # {} PROVE FALSE
  OBVIOUS
<1>2. PICK n \in S : \A m \in S : n <= m
  BY <1>1, LeastOf
<1>3. n - 1 \in Nat /\ n - 1 \notin S
  BY <1>2
<1> QED
  BY <1>2, <1>3

\* before: the pairs of a relation that orders S strictly and totally.
StrictOrder(before, S) ==
    /\ \A x \in S : <<x, x>> \notin before
    /\ \A x, y, z \in S : <<x, y>> \in before /\ <<y, z>> \in before => <<x, z>> \in before
    /\ \A x, y \in S : x # y => <<x, y>> \in before \/ <<y, x>> \in before

\* A finite set can be put in the order: its elements, by how many are before
\* each.
LEMMA Arranged ==
    ASSUME NEW S, IsFiniteSet(S), NEW before, StrictOrder(before, S)
    PROVE  \E s \in [1 .. Cardinality(S) -> S] :
              /\ \A x \in S : \E i \in 1 .. Cardinality(S) : s[i] = x
              /\ \A i, j \in 1 .. Cardinality(S) :
                    i < j => <<s[i], s[j]>> \in before
<1> DEFINE n == Cardinality(S)
           ahead(x) == {y \in S : <<y, x>> \in before}
           rank == [x \in S |-> Cardinality(ahead(x)) + 1]
<1>1. n \in Nat
  BY FS_CardinalityType
<1>2. \A x \in S : /\ IsFiniteSet(ahead(x)) /\ Cardinality(ahead(x)) \in Nat
                   /\ Cardinality(ahead(x)) < n
  <2> TAKE x \in S
  <2>1. ahead(x) \in SUBSET S /\ x \notin ahead(x)
    BY DEF StrictOrder
  <2>2. IsFiniteSet(ahead(x)) /\ Cardinality(ahead(x)) <= n
        /\ (n = Cardinality(ahead(x)) => S = ahead(x))
    BY <2>1, FS_Subset
  <2>3. Cardinality(ahead(x)) \in Nat
    BY <2>2, FS_CardinalityType
  <2> QED
    BY <1>1, <2>1, <2>2, <2>3
<1>3. ASSUME NEW x \in S, NEW y \in S, <<x, y>> \in before
      PROVE  rank[x] < rank[y]
  <2>1. ahead(x) \subseteq ahead(y) /\ x \in ahead(y) /\ x \notin ahead(x)
    BY <1>3 DEF StrictOrder
  <2>2. Cardinality(ahead(x)) <= Cardinality(ahead(y))
        /\ (Cardinality(ahead(y)) = Cardinality(ahead(x)) => ahead(y) = ahead(x))
    <3>1. ahead(x) \in SUBSET ahead(y) /\ IsFiniteSet(ahead(y))
      BY <1>2, <2>1
    <3> QED
      BY <3>1, FS_Subset
  <2>3. Cardinality(ahead(x)) \in Nat /\ Cardinality(ahead(y)) \in Nat
    BY <1>2
  <2>4. Cardinality(ahead(x)) < Cardinality(ahead(y))
    <3> HIDE DEF ahead
    <3> QED
      BY <2>1, <2>2, <2>3
  <2> QED
    BY <2>3, <2>4
<1>4. rank \in [S -> 1 .. n]
  <2>1. \A x \in S : Cardinality(ahead(x)) + 1 \in 1 .. n
    <3> HIDE DEF ahead, n
    <3> QED
      BY <1>1, <1>2
  <2> QED
    BY <2>1
<1>5. \A x, y \in S : rank[x] = rank[y] => x = y
  <2> SUFFICES ASSUME NEW x \in S, NEW y \in S, rank[x] = rank[y], x # y PROVE FALSE
    OBVIOUS
  <2>1. <<x, y>> \in before \/ <<y, x>> \in before
    BY DEF StrictOrder
  <2>2. rank[x] \in 1 .. n /\ rank[y] \in 1 .. n
    BY <1>4
  <2> QED
    BY <1>3, <2>1, <2>2
<1> HIDE DEF rank
<1>6. rank \in Injection(S, 1 .. n) /\ IsFiniteSet(1 .. n) /\ Cardinality(1 .. n) = n
  <2>1. IsInjective(rank)
    BY <1>4, <1>5 DEF IsInjective
  <2>2. IsFiniteSet(1 .. n) /\ Cardinality(1 .. n) = n
    <3> HIDE DEF n
    <3> QED
      BY <1>1, FS_Interval
  <2> QED
    BY <1>4, <2>1, <2>2 DEF Injection
<1>7. rank \in Surjection(S, 1 .. n)
  <2>1. PICK T : T = 1 .. n
    OBVIOUS
  <2> QED
    BY <1>6, <2>1, FS_Injection
<1>8. \A i \in 1 .. n : \E x \in S : rank[x] = i
  BY <1>7 DEF Surjection
<1> DEFINE s == [i \in 1 .. n |-> CHOOSE x \in S : rank[x] = i]
<1>9. \A i \in 1 .. n : s[i] \in S /\ rank[s[i]] = i
  BY <1>8
<1>10. s \in [1 .. n -> S]
  BY <1>9
<1> HIDE DEF s
<1>11. \A x \in S : \E i \in 1 .. n : s[i] = x
  BY <1>4, <1>5, <1>9
<1>12. ASSUME NEW i \in 1 .. n, NEW j \in 1 .. n, i < j
       PROVE  <<s[i], s[j]>> \in before
  <2>1. s[i] \in S /\ s[j] \in S /\ rank[s[i]] = i /\ rank[s[j]] = j /\ s[i] # s[j]
    BY <1>9, <1>12
  <2>2. CASE <<s[j], s[i]>> \in before
    BY <1>3, <1>12, <2>1, <2>2
  <2> QED
    BY <2>1, <2>2 DEF StrictOrder
<1> QED
  BY <1>10, <1>11, <1>12

-----------------------------------------------------------------------------
(* The directories. *)

LEMMA DirFacts ==
    /\ IsFiniteSet(Dir)
    /\ \A d \in Dir : \E i \in DOMAIN Dirs : Dirs[i] = d
    /\ \A i, j \in DOMAIN Dirs : Dirs[i] = Dirs[j] => i = j
    /\ DOMAIN Dirs \subseteq Nat
<1>1. Dirs \in Seq(Dir) /\ DOMAIN Dirs = 1 .. Len(Dirs) /\ Len(Dirs) \in Nat
  BY WikiAssumption
<1>2. \A d \in Dir : \E i \in DOMAIN Dirs : Dirs[i] = d
  BY DEF Dir, Range
<1>3. Dirs \in Surjection(1 .. Len(Dirs), Dir) /\ IsFiniteSet(1 .. Len(Dirs))
  BY <1>1, <1>2, FS_Interval DEF Surjection
<1>4. IsFiniteSet(Dir)
  BY <1>3, FS_Surjection
<1> QED
  BY <1>1, <1>2, <1>4, WikiAssumption DEF IsInjective

LEMMA InOrderIsStrict ==
    /\ \A d \in Dir : ~InOrder(d, d)
    /\ \A d, e, f \in Dir : InOrder(d, e) /\ InOrder(e, f) => InOrder(d, f)
    /\ \A d, e \in Dir : d # e => InOrder(d, e) \/ InOrder(e, d)
<1>1. \A d \in Dir : ~InOrder(d, d)
  BY DirFacts DEF InOrder
<1>2. ASSUME NEW d \in Dir, NEW e \in Dir, NEW f \in Dir, InOrder(d, e), InOrder(e, f)
      PROVE  InOrder(d, f)
  <2>1. PICK i, j \in DOMAIN Dirs : i < j /\ Dirs[i] = d /\ Dirs[j] = e
    BY <1>2 DEF InOrder
  <2>2. PICK k, l \in DOMAIN Dirs : k < l /\ Dirs[k] = e /\ Dirs[l] = f
    BY <1>2 DEF InOrder
  <2>3. j = k /\ i \in Nat /\ j \in Nat /\ l \in Nat
    BY <2>1, <2>2, DirFacts
  <2> QED
    BY <2>1, <2>2, <2>3 DEF InOrder
<1>3. ASSUME NEW d \in Dir, NEW e \in Dir, d # e
      PROVE  InOrder(d, e) \/ InOrder(e, d)
  <2>1. PICK i, j \in DOMAIN Dirs : Dirs[i] = d /\ Dirs[j] = e
    BY DirFacts
  <2>2. i \in Nat /\ j \in Nat /\ i # j
    BY <1>3, <2>1, DirFacts
  <2> QED
    BY <2>1, <2>2 DEF InOrder
<1> QED
  BY <1>1, <1>2, <1>3

\* A larger number is before a smaller one; between equals the name decides.
LEMMA ScoreOrders ==
    ASSUME NEW S \in SUBSET Dir, NEW score \in [S -> Nat], NEW before,
           \A d, e \in S : <<d, e>> \in before <=>
              (score[d] > score[e] \/ (score[d] = score[e] /\ InOrder(d, e)))
    PROVE  StrictOrder(before, S)
<1>1. \A d \in S : <<d, d>> \notin before
  BY InOrderIsStrict
<1>2. ASSUME NEW d \in S, NEW e \in S, NEW f \in S, <<d, e>> \in before, <<e, f>> \in before
      PROVE  <<d, f>> \in before
  <2>1. score[d] \in Nat /\ score[e] \in Nat /\ score[f] \in Nat
    OBVIOUS
  <2>2. InOrder(d, e) /\ InOrder(e, f) => InOrder(d, f)
    BY InOrderIsStrict
  <2> QED
    BY <1>2, <2>1, <2>2
<1>3. ASSUME NEW d \in S, NEW e \in S, d # e
      PROVE  <<d, e>> \in before \/ <<e, d>> \in before
  <2>1. score[d] \in Nat /\ score[e] \in Nat
    OBVIOUS
  <2>2. InOrder(d, e) \/ InOrder(e, d)
    BY <1>3, InOrderIsStrict
  <2> QED
    BY <2>1, <2>2
<1> QED
  BY <1>1, <1>2, <1>3 DEF StrictOrder

-----------------------------------------------------------------------------
(* Buckets. *)

\* Every entity is in one bucket.
Divides(buckets, entities) ==
    /\ buckets \in [Dir -> SUBSET entities]
    /\ \A e \in entities : \E d \in Dir : e \in buckets[d]
    /\ \A d, o \in Dir : \A e \in entities : e \in buckets[d] /\ e \in buckets[o] => d = o

LEMMA BucketsAreFinite ==
    ASSUME NEW entities, IsFiniteSet(entities), NEW buckets \in [Dir -> SUBSET entities]
    PROVE  /\ \A d \in Dir : IsFiniteSet(buckets[d]) /\ Cardinality(buckets[d]) \in Nat
           /\ IsFiniteSet(Full(buckets)) /\ Full(buckets) \subseteq Dir
<1>1. ASSUME NEW d \in Dir
      PROVE  IsFiniteSet(buckets[d]) /\ Cardinality(buckets[d]) \in Nat
  <2>1. PICK b \in SUBSET entities : b = buckets[d]
    OBVIOUS
  <2> QED
    BY <2>1, FS_Subset, FS_CardinalityType
<1>2. Full(buckets) \in SUBSET Dir
  BY DEF Full
<1>3. IsFiniteSet(Full(buckets))
  BY <1>2, DirFacts, FS_Subset
<1> QED
  BY <1>1, <1>2, <1>3

\* The sort is over a strict total order, so it chooses a sequence of all the
\* directories.
LEMMA BySizeSorts ==
    ASSUME NEW entities, IsFiniteSet(entities), NEW buckets \in [Dir -> SUBSET entities],
           NEW dirs \in SUBSET Dir
    PROVE  /\ BySize(dirs, buckets) \in [1 .. Cardinality(dirs) -> dirs]
           /\ Cardinality(dirs) \in Nat
           /\ Len(BySize(dirs, buckets)) = Cardinality(dirs)
           /\ \A i, j \in 1 .. Cardinality(dirs) :
                 BySize(dirs, buckets)[i] = BySize(dirs, buckets)[j] => i = j
           /\ \A d \in dirs : \E i \in 1 .. Cardinality(dirs) : BySize(dirs, buckets)[i] = d
<1> DEFINE n == Cardinality(dirs)
           size == [d \in dirs |-> Cardinality(buckets[d])]
           before == {p \in dirs \X dirs : Larger(buckets, p[1], p[2])}
<1>1. IsFiniteSet(dirs) /\ n \in Nat
  BY DirFacts, FS_Subset, FS_CardinalityType
<1>2. size \in [dirs -> Nat]
  BY BucketsAreFinite
<1>3. \A d, e \in dirs :
         <<d, e>> \in before <=> size[d] > size[e] \/ (size[d] = size[e] /\ InOrder(d, e))
  BY DEF Larger
<1> HIDE DEF size, before
<1>4. StrictOrder(before, dirs)
  BY <1>2, <1>3, ScoreOrders
<1>5. PICK s \in [1 .. n -> dirs] :
         /\ \A x \in dirs : \E i \in 1 .. n : s[i] = x
         /\ \A i, j \in 1 .. n : i < j => <<s[i], s[j]>> \in before
  BY <1>1, <1>4, Arranged
<1> HIDE DEF n
<1>6. \A i, j \in 1 .. n : i # j => s[i] # s[j]
  <2> SUFFICES ASSUME NEW i \in 1 .. n, NEW j \in 1 .. n, i < j PROVE s[i] # s[j]
    BY <1>1
  <2>1. <<s[i], s[j]>> \in before
    BY <1>5
  <2> QED
    BY <1>4, <2>1 DEF StrictOrder
<1>7. \A i \in 1 .. n - 1 : Larger(buckets, s[i], s[i + 1])
  <2> TAKE i \in 1 .. n - 1
  <2>1. i \in 1 .. n /\ i + 1 \in 1 .. n /\ i < i + 1
    BY <1>1
  <2>2. <<s[i], s[i + 1]>> \in before
    BY <1>5, <2>1
  <2> QED
    BY <2>2 DEF before
<1>8. s \in SetToSeqs(dirs)
  BY <1>5, <1>6 DEF SetToSeqs, n
<1> DEFINE t == BySize(dirs, buckets)
<1>9. t \in SetToSeqs(dirs)
  BY <1>7, <1>8 DEF BySize, n
<1>10. t \in [1 .. n -> dirs] /\ \A i, j \in 1 .. n : i # j => t[i] # t[j]
  BY <1>9 DEF SetToSeqs, n
<1> HIDE DEF t
<1>11. \A d \in dirs : \E i \in 1 .. n : t[i] = d
  <2>1. PICK T : T = 1 .. n
    OBVIOUS
  <2>2. t \in Injection(T, dirs) /\ Cardinality(T) = n
    <3>1. IsInjective(t)
      BY <1>10 DEF IsInjective
    <3>2. Cardinality(T) = n
      BY <1>1, <2>1, FS_Interval
    <3> QED
      BY <1>10, <2>1, <3>1, <3>2 DEF Injection
  <2>3. t \in Surjection(T, dirs)
    BY <1>1, <2>2, FS_Injection DEF n
  <2> QED
    BY <2>1, <2>3 DEF Surjection
<1>12. Len(t) = n
  BY <1>1, <1>10
<1> QED
  BY <1>1, <1>10, <1>11, <1>12 DEF n, t

\* Whatever the relationships, a small directory's neighbor is another one.
LEMMA NeighborIsAnother ==
    ASSUME NEW cross \in [Dir -> [Dir -> Nat]], NEW buckets, NEW d \in Dir \ {Misc}
    PROVE  BestLargeNeighbor(buckets, cross, d) \in Dir \ {d}
<1> DEFINE near == {e \in Dir \ {Misc, d} : cross[d][e] > 0 /\ Large(buckets, e)}
           g == [e \in near |-> cross[d][e]]
           best(e) == \A o \in near \ {e} :
                         \/ cross[d][e] > cross[d][o]
                         \/ (cross[d][e] = cross[d][o] /\ InOrder(e, o))
           before == {p \in near \X near :
                         \/ cross[d][p[1]] > cross[d][p[2]]
                         \/ (cross[d][p[1]] = cross[d][p[2]] /\ InOrder(p[1], p[2]))}
<1>1. Misc \in Dir \ {d}
  BY WikiAssumption
<1>2. near \in SUBSET Dir /\ near \subseteq Dir \ {d}
  OBVIOUS
<1>3. \A e, o \in near : <<e, o>> \in before <=>
         (g[e] > g[o] \/ (g[e] = g[o] /\ InOrder(e, o)))
  OBVIOUS
<1>4. BestLargeNeighbor(buckets, cross, d) = IF near = {} THEN Misc ELSE CHOOSE e \in near : best(e)
  BY DEF BestLargeNeighbor
<1>5. g \in [near -> Nat]
  OBVIOUS
<1> HIDE DEF near, g, before, best
<1>6. StrictOrder(before, near)
  BY <1>2, <1>3, <1>5, ScoreOrders
<1>7. IsFiniteSet(near)
  BY <1>2, DirFacts, FS_Subset
<1>8. CASE near # {}
  <2> DEFINE n == Cardinality(near)
  <2>1. PICK s \in [1 .. n -> near] :
           /\ \A x \in near : \E i \in 1 .. n : s[i] = x
           /\ \A i, j \in 1 .. n : i < j => <<s[i], s[j]>> \in before
    BY <1>6, <1>7, Arranged
  <2>2. n \in Nat /\ 1 \in 1 .. n
    BY <1>7, <1>8, FS_CardinalityType, FS_EmptySet
  <2> HIDE DEF n
  <2>3. s[1] \in near
    BY <2>1, <2>2
  <2>4. ASSUME NEW o \in near \ {s[1]} PROVE <<s[1], o>> \in before
    <3>1. PICK i \in 1 .. n : s[i] = o
      BY <2>1
    <3>2. 1 < i
      BY <2>2, <2>4, <3>1
    <3> QED
      BY <2>1, <2>2, <3>1, <3>2
  <2>5. best(s[1])
    BY <1>3, <2>3, <2>4 DEF g, best
  <2> QED
    BY <1>2, <1>4, <1>8, <2>3, <2>5
<1> QED
  BY <1>1, <1>4, <1>8

LEMMA MergeDivides ==
    ASSUME NEW entities, NEW buckets, Divides(buckets, entities),
           NEW d \in Dir, NEW to \in Dir \ {d}
    PROVE  /\ Divides(MergeBucket(buckets, d, to), entities)
           /\ MergeBucket(buckets, d, to)[d] = {}
           /\ \A o \in Dir \ {to} : buckets[o] = {} => MergeBucket(buckets, d, to)[o] = {}
<1> DEFINE merged == MergeBucket(buckets, d, to)
<1>1. buckets \in [Dir -> SUBSET entities]
  BY DEF Divides
<1>2. merged = [o \in Dir |-> IF o = d THEN {} ELSE IF o = to THEN buckets[o] \cup buckets[d]
                              ELSE buckets[o]]
  BY <1>1 DEF MergeBucket
<1> HIDE DEF merged
<1>3. merged \in [Dir -> SUBSET entities]
  BY <1>1, <1>2
<1>4. merged[d] = {} /\ merged[to] = buckets[to] \cup buckets[d]
  BY <1>2
<1>5. \A o \in Dir \ {d, to} : merged[o] = buckets[o]
  BY <1>2
<1>6. ASSUME NEW e \in entities PROVE \E o \in Dir : e \in merged[o]
  <2>1. PICK o \in Dir : e \in buckets[o]
    BY DEF Divides
  <2> QED
    BY <1>4, <1>5, <2>1
<1>7. ASSUME NEW o \in Dir, NEW p \in Dir, NEW e \in entities, e \in merged[o], e \in merged[p]
      PROVE  o = p
  BY <1>4, <1>5, <1>7 DEF Divides
<1>8. Divides(merged, entities)
  BY <1>3, <1>6, <1>7 DEF Divides
<1> QED
  BY <1>4, <1>5, <1>8 DEF merged

-----------------------------------------------------------------------------
(* The passes over the directories: each is a sequence of buckets, one after *)
(* every directory.                                                          *)

\* f starts with first, and goes from each element to the next by its step.
Follows(f, first, step, n) ==
    f[0] = first /\ \A i \in 1 .. n : f[i] = step[i][f[i - 1]]

\* The recursive functions of the passes exist.
LEMMA PassExists ==
    ASSUME NEW D, NEW n \in Nat, NEW first \in D, NEW step \in [1 .. n -> [D -> D]]
    PROVE  \E f \in [0 .. n -> D] : Follows(f, first, step, n)
<1> DEFINE upTo(f, m) == f[0] = first /\ \A i \in 1 .. m : f[i] = step[i][f[i - 1]]
           S == {m \in 0 .. n : ~\E f \in [0 .. m -> D] : upTo(f, m)}
<1>1. S = {}
  <2>1. 0 \notin S
    <3>1. [i \in 0 .. 0 |-> first] \in [0 .. 0 -> D] /\ upTo([i \in 0 .. 0 |-> first], 0)
      OBVIOUS
    <3> QED
      BY <3>1
  <2>2. ASSUME NEW m \in Nat, m \notin S PROVE m + 1 \notin S
    <3> SUFFICES ASSUME m + 1 \in 0 .. n PROVE \E f \in [0 .. m + 1 -> D] : upTo(f, m + 1)
      OBVIOUS
    <3>1. PICK f \in [0 .. m -> D] : upTo(f, m)
      BY <2>2
    <3>2. m \in 0 .. m /\ m + 1 \in 1 .. n /\ f[m] \in D
      BY <3>1
    <3>3. PICK next \in D : next = step[m + 1][f[m]]
      BY <3>2
    <3> DEFINE h == [i \in 0 .. m + 1 |-> IF i = m + 1 THEN next ELSE f[i]]
    <3>4. h \in [0 .. m + 1 -> D]
      BY <3>1
    <3>5. h[m + 1] = next /\ \A i \in 0 .. m : h[i] = f[i]
      OBVIOUS
    <3> HIDE DEF h
    <3>6. h[0] = first
      BY <3>1, <3>5
    <3>7. ASSUME NEW i \in 1 .. m + 1 PROVE h[i] = step[i][h[i - 1]]
      <4>1. CASE i = m + 1
        <5>1. i - 1 = m
          BY <4>1
        <5> QED
          BY <3>2, <3>3, <3>5, <4>1, <5>1
      <4>2. CASE i # m + 1
        <5>1. i \in 1 .. m /\ i \in 0 .. m /\ i - 1 \in 0 .. m
          BY <4>2
        <5>2. f[i] = step[i][f[i - 1]] /\ h[i] = f[i] /\ h[i - 1] = f[i - 1]
          BY <3>1, <3>5, <5>1
        <5> QED
          BY <5>2
      <4> QED
        BY <4>1, <4>2
    <3> QED
      BY <3>4, <3>6, <3>7
  <2>3. S \subseteq Nat
    OBVIOUS
  <2> HIDE DEF S
  <2> QED
    BY <2>1, <2>2, <2>3, LeastFailure
<1>2. \E f \in [0 .. n -> D] : upTo(f, n)
  <2>1. n \in 0 .. n
    OBVIOUS
  <2> QED
    BY <1>1, <2>1
<1> QED
  BY <1>2 DEF Follows

\* What every step keeps, all the elements have.
LEMMA PassKeeps ==
    ASSUME NEW D, NEW n \in Nat, NEW step \in [1 .. n -> [D -> D]], NEW f, f[0] \in D,
           \A i \in 1 .. n : f[i - 1] \in D => f[i] = step[i][f[i - 1]]
    PROVE  \A m \in 0 .. n : f[m] \in D
<1> DEFINE U == {m \in 0 .. n : f[m] \notin D}
<1>1. 0 \notin U
  OBVIOUS
<1>2. ASSUME NEW m \in Nat, m \notin U PROVE m + 1 \notin U
  <2> SUFFICES ASSUME m + 1 \in 0 .. n PROVE f[m + 1] \in D
    OBVIOUS
  <2>1. m \in 0 .. n /\ m + 1 \in 1 .. n /\ (m + 1) - 1 = m
    OBVIOUS
  <2>2. f[m] \in D
    BY <1>2, <2>1
  <2>3. f[m + 1] = step[m + 1][f[m]]
    BY <2>1, <2>2
  <2> QED
    BY <2>1, <2>2, <2>3
<1>3. U \subseteq Nat
  OBVIOUS
<1>4. U = {}
  <2> HIDE DEF U
  <2> QED
    BY <1>1, <1>2, <1>3, LeastFailure
<1> QED
  BY <1>4

\* Buckets that divide the entities.
Division(entities) == {b \in [Dir -> SUBSET entities] : Divides(b, entities)}

LEMMA InDivision ==
    ASSUME NEW entities, NEW buckets
    PROVE  buckets \in Division(entities) <=> Divides(buckets, entities)
BY DEF Division, Divides

\* One directory's turn in FoldSmall and in CapTopics.
FoldStep(before, cross, d) ==
    IF d = Misc \/ Large(before, d) THEN before
    ELSE MergeBucket(before, d, BestLargeNeighbor(before, cross, d))

CapStep(before, i, d) ==
    IF i <= MaxTopics \/ d = Misc THEN before ELSE MergeBucket(before, d, Misc)

IsFold(after, buckets, cross, keys) ==
    after = [i \in 0 .. Len(keys) |->
                IF i = 0 THEN buckets ELSE FoldStep(after[i - 1], cross, keys[i])]

IsCap(after, buckets, keys) ==
    after = [i \in 0 .. Len(keys) |->
                IF i = 0 THEN buckets ELSE CapStep(after[i - 1], i, keys[i])]

LEMMA FoldStepDivides ==
    ASSUME NEW entities, NEW before, Divides(before, entities),
           NEW cross \in [Dir -> [Dir -> Nat]], NEW d \in Dir
    PROVE  Divides(FoldStep(before, cross, d), entities)
<1>1. CASE d = Misc \/ Large(before, d)
  BY <1>1 DEF FoldStep
<1>2. CASE ~(d = Misc \/ Large(before, d))
  <2>1. BestLargeNeighbor(before, cross, d) \in Dir \ {d}
    BY <1>2, NeighborIsAnother
  <2> QED
    BY <1>2, <2>1, MergeDivides DEF FoldStep
<1> QED
  BY <1>1, <1>2

LEMMA CapStepDivides ==
    ASSUME NEW entities, NEW before, Divides(before, entities), NEW i \in Nat, NEW d \in Dir
    PROVE  /\ Divides(CapStep(before, i, d), entities)
           /\ i > MaxTopics /\ d # Misc => CapStep(before, i, d)[d] = {}
           /\ \A o \in Dir \ {Misc} : before[o] = {} => CapStep(before, i, d)[o] = {}
<1>1. MaxTopics \in Nat /\ Misc \in Dir
  BY WikiAssumption
<1>2. CASE i <= MaxTopics \/ d = Misc
  BY <1>1, <1>2 DEF CapStep
<1>3. CASE ~(i <= MaxTopics \/ d = Misc)
  <2>1. Misc \in Dir \ {d}
    BY <1>1, <1>3
  <2> QED
    BY <1>3, <2>1, MergeDivides DEF CapStep
<1> QED
  BY <1>2, <1>3

\* The sequence of the directories that are passed over.
LEMMA KeysFacts ==
    ASSUME NEW entities, IsFiniteSet(entities), NEW buckets, Divides(buckets, entities)
    PROVE  \E n \in Nat :
              /\ SortedKeysBySize(buckets) \in [1 .. n -> Dir]
              /\ Len(SortedKeysBySize(buckets)) = n
              /\ \A d \in Full(buckets) : \E i \in 1 .. n : SortedKeysBySize(buckets)[i] = d
<1>1. buckets \in [Dir -> SUBSET entities] /\ Full(buckets) \in SUBSET Dir
  BY DEF Divides, Full
<1>2. PICK n : n = Cardinality(Full(buckets))
  OBVIOUS
<1>3. /\ SortedKeysBySize(buckets) \in [1 .. n -> Full(buckets)]
      /\ n \in Nat
      /\ Len(SortedKeysBySize(buckets)) = n
      /\ \A d \in Full(buckets) : \E i \in 1 .. n : SortedKeysBySize(buckets)[i] = d
  BY <1>1, <1>2, BySizeSorts DEF SortedKeysBySize
<1>4. SortedKeysBySize(buckets) \in [1 .. n -> Dir]
  BY <1>1, <1>3
<1> QED
  BY <1>3, <1>4

LEMMA FoldSmallDivides ==
    ASSUME NEW entities, IsFiniteSet(entities), NEW buckets, Divides(buckets, entities),
           NEW cross \in [Dir -> [Dir -> Nat]]
    PROVE  Divides(FoldSmall(buckets, cross), entities)
<1> DEFINE keys == SortedKeysBySize(buckets)
           D == Division(entities)
<1>1. PICK n \in Nat : keys \in [1 .. n -> Dir] /\ Len(keys) = n
  BY KeysFacts
<1>2. FoldSmall(buckets, cross) =
          (CHOOSE after : IsFold(after, buckets, cross, keys))[Len(keys)]
  BY DEF FoldSmall, IsFold, FoldStep
<1> HIDE DEF keys
<1> DEFINE step == [i \in 1 .. n |-> [b \in D |-> FoldStep(b, cross, keys[i])]]
<1>3. \A i \in 1 .. n : \A b \in D : FoldStep(b, cross, keys[i]) \in D
  BY <1>1, InDivision, FoldStepDivides
<1>4. step \in [1 .. n -> [D -> D]]
  BY <1>3
<1>5. \A i \in 1 .. n : \A b \in D : step[i][b] = FoldStep(b, cross, keys[i])
  OBVIOUS
<1>6. buckets \in D
  BY InDivision
<1> HIDE DEF step, D
<1>7. PICK f \in [0 .. n -> D] : f[0] = buckets /\ \A i \in 1 .. n : f[i] = step[i][f[i - 1]]
  <2>1. PICK E, b, g : E = D /\ b = buckets /\ g = step
    OBVIOUS
  <2>2. b \in E /\ g \in [1 .. n -> [E -> E]]
    BY <1>4, <1>6, <2>1
  <2>3. \E f \in [0 .. n -> E] : Follows(f, b, g, n)
    BY <2>2, PassExists
  <2> QED
    BY <2>1, <2>3 DEF Follows
<1>8. IsFold(f, buckets, cross, keys)
  <2>1. ASSUME NEW i \in 0 .. n
        PROVE  f[i] = IF i = 0 THEN buckets ELSE FoldStep(f[i - 1], cross, keys[i])
    <3>1. CASE i = 0
      BY <1>7, <3>1
    <3>2. CASE i # 0
      <4>1. i \in 1 .. n /\ i - 1 \in 0 .. n
        BY <3>2
      <4> QED
        BY <1>5, <1>7, <3>2, <4>1
    <3> QED
      BY <3>1, <3>2
  <2>2. f = [i \in 0 .. n |-> f[i]]
    BY <1>7
  <2>3. [i \in 0 .. n |-> f[i]]
        = [i \in 0 .. n |-> IF i = 0 THEN buckets ELSE FoldStep(f[i - 1], cross, keys[i])]
    BY <2>1
  <2> QED
    BY <1>1, <2>2, <2>3 DEF IsFold
<1> DEFINE after == CHOOSE g : IsFold(g, buckets, cross, keys)
<1>9. IsFold(after, buckets, cross, keys)
  BY <1>8
<1> HIDE DEF after
<1>10. after[0] = buckets
       /\ \A i \in 1 .. n : after[i] = FoldStep(after[i - 1], cross, keys[i])
  <2> DEFINE at(i) == IF i = 0 THEN buckets ELSE FoldStep(after[i - 1], cross, keys[i])
  <2>1. after = [i \in 0 .. n |-> at(i)]
    BY <1>1, <1>9 DEF IsFold
  <2>2. \A i \in 0 .. n : after[i] = at(i)
    <3> HIDE DEF at
    <3> QED
      BY <2>1
  <2>3. 0 \in 0 .. n /\ \A i \in 1 .. n : i \in 0 .. n /\ i # 0
    OBVIOUS
  <2> QED
    BY <2>2, <2>3
<1>11. \A m \in 0 .. n : after[m] \in D
  <2>1. after[0] \in D
        /\ \A i \in 1 .. n : after[i - 1] \in D => after[i] = step[i][after[i - 1]]
    BY <1>5, <1>6, <1>10
  <2> QED
    BY <1>4, <2>1, PassKeeps
<1>12. after[n] \in D /\ FoldSmall(buckets, cross) = after[n]
  BY <1>1, <1>2, <1>11 DEF after
<1> QED
  BY <1>12, InDivision DEF D

\* What CapTopics leaves beside Misc is among the first MaxTopics directories.
LEMMA CapTopicsDivides ==
    ASSUME NEW entities, IsFiniteSet(entities), NEW buckets, Divides(buckets, entities)
    PROVE  /\ Divides(CapTopics(buckets), entities)
           /\ Cardinality(Full(CapTopics(buckets)) \ {Misc}) <= MaxTopics
<1> DEFINE keys == SortedKeysBySize(buckets)
           D == Division(entities)
<1>1. PICK n \in Nat : keys \in [1 .. n -> Dir] /\ Len(keys) = n
                       /\ \A d \in Full(buckets) : \E i \in 1 .. n : keys[i] = d
  BY KeysFacts
<1>2. CapTopics(buckets) = (CHOOSE after : IsCap(after, buckets, keys))[Len(keys)]
  BY DEF CapTopics, IsCap, CapStep
<1> HIDE DEF keys
<1> DEFINE step == [i \in 1 .. n |-> [b \in D |-> CapStep(b, i, keys[i])]]
<1>3. ASSUME NEW i \in 1 .. n, NEW b \in D PROVE CapStep(b, i, keys[i]) \in D
  <2>1. i \in Nat /\ keys[i] \in Dir /\ Divides(b, entities)
    BY <1>1, InDivision
  <2> QED
    BY <2>1, InDivision, CapStepDivides
<1>4. step \in [1 .. n -> [D -> D]]
  BY <1>3
<1>5. \A i \in 1 .. n : \A b \in D : step[i][b] = CapStep(b, i, keys[i])
  OBVIOUS
<1>6. buckets \in D
  BY InDivision
<1> HIDE DEF step, D
<1>7. PICK f \in [0 .. n -> D] : f[0] = buckets /\ \A i \in 1 .. n : f[i] = step[i][f[i - 1]]
  <2>1. PICK E, b, g : E = D /\ b = buckets /\ g = step
    OBVIOUS
  <2>2. b \in E /\ g \in [1 .. n -> [E -> E]]
    BY <1>4, <1>6, <2>1
  <2>3. \E f \in [0 .. n -> E] : Follows(f, b, g, n)
    BY <2>2, PassExists
  <2> QED
    BY <2>1, <2>3 DEF Follows
<1>8. IsCap(f, buckets, keys)
  <2>1. ASSUME NEW i \in 0 .. n
        PROVE  f[i] = IF i = 0 THEN buckets ELSE CapStep(f[i - 1], i, keys[i])
    <3>1. CASE i = 0
      BY <1>7, <3>1
    <3>2. CASE i # 0
      <4>1. i \in 1 .. n /\ i - 1 \in 0 .. n
        BY <3>2
      <4> QED
        BY <1>5, <1>7, <3>2, <4>1
    <3> QED
      BY <3>1, <3>2
  <2>2. f = [i \in 0 .. n |-> f[i]]
    BY <1>7
  <2>3. [i \in 0 .. n |-> f[i]]
        = [i \in 0 .. n |-> IF i = 0 THEN buckets ELSE CapStep(f[i - 1], i, keys[i])]
    BY <2>1
  <2> QED
    BY <1>1, <2>2, <2>3 DEF IsCap
<1> DEFINE after == CHOOSE g : IsCap(g, buckets, keys)
<1>9. IsCap(after, buckets, keys)
  BY <1>8
<1> HIDE DEF after
<1>10. after[0] = buckets
       /\ \A i \in 1 .. n : after[i] = CapStep(after[i - 1], i, keys[i])
  <2> DEFINE at(i) == IF i = 0 THEN buckets ELSE CapStep(after[i - 1], i, keys[i])
  <2>1. after = [i \in 0 .. n |-> at(i)]
    BY <1>1, <1>9 DEF IsCap
  <2>2. \A i \in 0 .. n : after[i] = at(i)
    <3> HIDE DEF at
    <3> QED
      BY <2>1
  <2>3. 0 \in 0 .. n /\ \A i \in 1 .. n : i \in 0 .. n /\ i # 0
    OBVIOUS
  <2> QED
    BY <2>2, <2>3
<1>11. \A m \in 0 .. n : after[m] \in D
  <2>1. after[0] \in D
        /\ \A i \in 1 .. n : after[i - 1] \in D => after[i] = step[i][after[i - 1]]
    BY <1>5, <1>6, <1>10
  <2> QED
    BY <1>4, <2>1, PassKeeps
<1> DEFINE over(m, d) == d \notin Full(buckets) \/ \E j \in 1 .. m : j > MaxTopics /\ keys[j] = d
           S == {m \in 0 .. n : \E d \in Dir \ {Misc} : over(m, d) /\ after[m][d] # {}}
<1>12. S = {}
  <2>1. 0 \notin S
    BY <1>10 DEF Full
  <2>2. ASSUME NEW m \in Nat, m \notin S PROVE m + 1 \notin S
    <3> SUFFICES ASSUME m + 1 \in 0 .. n, NEW d \in Dir \ {Misc}, over(m + 1, d)
                 PROVE  after[m + 1][d] = {}
      OBVIOUS
    <3>1. m \in 0 .. n /\ m + 1 \in 1 .. n /\ (m + 1) - 1 = m /\ keys[m + 1] \in Dir
      BY <1>1
    <3>2. Divides(after[m], entities) /\ after[m + 1] = CapStep(after[m], m + 1, keys[m + 1])
      BY <1>10, <1>11, <3>1, InDivision DEF D
    <3>3. CASE over(m, d)
      <4>1. after[m][d] = {}
        BY <2>2, <3>1, <3>3
      <4> QED
        BY <3>1, <3>2, <4>1, CapStepDivides
    <3>4. CASE ~over(m, d)
      <4>1. m + 1 > MaxTopics /\ keys[m + 1] = d
        <5>1. PICK j \in 1 .. m + 1 : j > MaxTopics /\ keys[j] = d
          BY <3>4
        <5>2. j = m + 1
          BY <3>4, <5>1
        <5> QED
          BY <5>1, <5>2
      <4> QED
        BY <3>1, <3>2, <4>1, CapStepDivides
    <3> QED
      BY <3>3, <3>4
  <2>3. S \subseteq Nat
    OBVIOUS
  <2> HIDE DEF S
  <2> QED
    BY <2>1, <2>2, <2>3, LeastFailure
<1> DEFINE capped == after[n]
<1>13. Divides(capped, entities) /\ CapTopics(buckets) = capped
  BY <1>1, <1>2, <1>11, InDivision DEF after, D
<1>14. \A d \in Full(capped) \ {Misc} :
          \E i \in 1 .. n : i <= MaxTopics /\ keys[i] = d
  <2> TAKE d \in Full(capped) \ {Misc}
  <2>1. d \in Dir \ {Misc} /\ capped[d] # {}
    BY DEF Full
  <2>2. ~over(n, d)
    BY <1>12, <2>1
  <2>3. PICK i \in 1 .. n : keys[i] = d
    BY <1>1, <2>2
  <2>4. i <= MaxTopics
    BY <2>2, <2>3, WikiAssumption
  <2> QED
    BY <2>3, <2>4
<1>15. Cardinality(Full(capped) \ {Misc}) <= MaxTopics
  <2> DEFINE first == {i \in 1 .. n : i <= MaxTopics /\ keys[i] \in Full(capped) \ {Misc}}
             rest == Full(capped) \ {Misc}
             place == [i \in first |-> keys[i]]
  <2>1. MaxTopics \in Nat /\ MaxTopics \in Int /\ 1 \in Int
    BY WikiAssumption
  <2>2. first \in SUBSET (1 .. MaxTopics)
    BY <2>1
  <2>3. IsFiniteSet(1 .. MaxTopics) /\ Cardinality(1 .. MaxTopics) = MaxTopics
    BY <2>1, FS_Interval
  <2>4. place \in Surjection(first, rest)
    <3>1. \A d \in rest : \E i \in first : place[i] = d
      BY <1>14
    <3>2. place \in [first -> rest]
      OBVIOUS
    <3> HIDE DEF place, rest, first
    <3> QED
      BY <3>1, <3>2 DEF Surjection
  <2> HIDE DEF place, rest, first
  <2>5. IsFiniteSet(first) /\ Cardinality(first) <= MaxTopics
    <3>1. PICK T, U : T = 1 .. MaxTopics /\ U = first
      OBVIOUS
    <3>2. U \in SUBSET T /\ IsFiniteSet(T) /\ Cardinality(T) = MaxTopics
      BY <2>2, <2>3, <3>1
    <3>3. IsFiniteSet(U) /\ Cardinality(U) <= Cardinality(T)
      BY <3>2, FS_Subset
    <3> QED
      BY <3>1, <3>2, <3>3
  <2>6. IsFiniteSet(rest) /\ Cardinality(rest) <= Cardinality(first)
    BY <2>4, <2>5, FS_Surjection
  <2>7. Cardinality(first) \in Nat /\ Cardinality(rest) \in Nat
    BY <2>5, <2>6, FS_CardinalityType
  <2>8. Cardinality(rest) <= MaxTopics
    BY <2>1, <2>5, <2>6, <2>7
  <2> QED
    BY <2>8 DEF rest
<1> QED
  BY <1>13, <1>15

-----------------------------------------------------------------------------
(* Segment. *)

TopicRecord == [dir : Dir, id : TopicIDs, entities : SUBSET Entities]

\* Every entity is in one of the topics.
Covers(topics, entities) ==
    \A e \in entities : \E i \in 1 .. Len(topics) :
        \A j \in 1 .. Len(topics) : e \in topics[j].entities <=> j = i

LEMMA EntitiesAreFinite ==
    /\ \A S \in SUBSET Entities : IsFiniteSet(S)
    /\ \A R \in SUBSET MayRelate : IsFiniteSet(R)
<1>1. IsFiniteSet(Entities) /\ MayRelate \in SUBSET (Entities \X Entities)
  BY WikiAssumption
<1>2. IsFiniteSet(Entities \X Entities)
  BY <1>1, FS_Product
<1>3. IsFiniteSet(MayRelate)
  BY <1>1, <1>2, FS_Subset
<1> QED
  BY <1>1, <1>3, FS_Subset

LEMMA CrossCounts ==
    ASSUME NEW entities, NEW relations \in SUBSET MayRelate
    PROVE  Cross(entities, relations) \in [Dir -> [Dir -> Nat]]
<1> DEFINE between(d, e) == {r \in relations :
               /\ r[1] \in entities /\ r[2] \in entities /\ d # e
               /\ {d, e} = {dirOf[r[1]], dirOf[r[2]]}}
<1>1. ASSUME NEW d \in Dir, NEW e \in Dir PROVE Cardinality(between(d, e)) \in Nat
  <2>1. PICK S : S = between(d, e)
    OBVIOUS
  <2>2. S \in SUBSET MayRelate
    BY <2>1
  <2> QED
    BY <2>1, <2>2, EntitiesAreFinite, FS_CardinalityType
<1>2. Cross(entities, relations) = [d \in Dir |-> [e \in Dir |-> Cardinality(between(d, e))]]
  BY DEF Cross
<1> HIDE DEF between
<1> QED
  BY <1>1, <1>2

\* The topics are the full buckets, each once, and no more than the cap and
\* Misc.
LEMMA SegmentCovers ==
    ASSUME dirOf \in [Entities -> Dir], NEW entities \in SUBSET Entities,
           NEW relations \in SUBSET MayRelate
    PROVE  /\ Segment(entities, relations) \in Seq(TopicRecord)
           /\ Len(Segment(entities, relations)) <= MaxTopics + 1
           /\ Covers(Segment(entities, relations), entities)
<1> DEFINE skeleton == [d \in Dir |-> {e \in entities : dirOf[e] = d}]
           buckets == CapTopics(FoldSmall(skeleton, Cross(entities, relations)))
           rest == Full(buckets) \ {Misc}
           keys == BySize(rest, buckets)
           dirs == IF buckets[Misc] = {} THEN keys ELSE Append(keys, Misc)
           topics == [i \in DOMAIN dirs |->
               [dir |-> dirs[i], id |-> SlugOf[dirs[i]], entities |-> buckets[dirs[i]]]]
<1>1. Segment(entities, relations) = topics
  BY DEF Segment
<1>2. IsFiniteSet(entities) /\ Misc \in Dir /\ MaxTopics \in Nat
  BY EntitiesAreFinite, WikiAssumption
<1>3. Divides(skeleton, entities)
  <2>1. skeleton \in [Dir -> SUBSET entities]
    OBVIOUS
  <2>2. \A e \in entities : dirOf[e] \in Dir
    OBVIOUS
  <2> QED
    BY <2>1, <2>2 DEF Divides
<1> HIDE DEF skeleton
<1>4. /\ Divides(buckets, entities)
      /\ Cardinality(rest) <= MaxTopics
  <2>1. PICK cross \in [Dir -> [Dir -> Nat]] : cross = Cross(entities, relations)
    BY CrossCounts
  <2>2. PICK folded : folded = FoldSmall(skeleton, cross)
    OBVIOUS
  <2>3. Divides(folded, entities)
    BY <1>2, <1>3, <2>2, FoldSmallDivides
  <2> QED
    BY <1>2, <2>1, <2>2, <2>3, CapTopicsDivides
<1> HIDE DEF buckets
<1>5. buckets \in [Dir -> SUBSET entities] /\ rest \in SUBSET Dir
  BY <1>4 DEF Divides, Full
<1>6. PICK n \in Nat :
         /\ n <= MaxTopics
         /\ keys \in [1 .. n -> rest]
         /\ Len(keys) = n
         /\ \A i, j \in 1 .. n : keys[i] = keys[j] => i = j
         /\ \A d \in rest : \E i \in 1 .. n : keys[i] = d
  <2>1. PICK b, S : b = buckets /\ S = rest
    OBVIOUS
  <2>2. b \in [Dir -> SUBSET entities] /\ S \in SUBSET Dir
    BY <1>5, <2>1
  <2>3. /\ BySize(S, b) \in [1 .. Cardinality(S) -> S]
        /\ Cardinality(S) \in Nat
        /\ Len(BySize(S, b)) = Cardinality(S)
        /\ \A i, j \in 1 .. Cardinality(S) : BySize(S, b)[i] = BySize(S, b)[j] => i = j
        /\ \A d \in S : \E i \in 1 .. Cardinality(S) : BySize(S, b)[i] = d
    BY <1>2, <2>2, BySizeSorts
  <2>4. PICK m : m = Cardinality(S)
    OBVIOUS
  <2>5. keys = BySize(S, b) /\ rest = S /\ m <= MaxTopics
    BY <1>4, <2>1, <2>4
  <2> HIDE DEF keys, rest
  <2> QED
    BY <2>3, <2>4, <2>5
<1> HIDE DEF keys
<1>7. PICK k \in Nat :
         /\ k <= MaxTopics + 1
         /\ dirs \in [1 .. k -> Dir]
         /\ Len(dirs) = k
         /\ \A i, j \in 1 .. k : dirs[i] = dirs[j] => i = j
         /\ \A d \in Full(buckets) : \E i \in 1 .. k : dirs[i] = d
  <2>1. CASE buckets[Misc] = {}
    <3>1. Misc \notin Full(buckets) /\ dirs = keys
      BY <2>1 DEF Full
    <3>2. rest = Full(buckets)
      BY <3>1
    <3>3. keys \in [1 .. n -> Dir]
      BY <1>5, <1>6
    <3> QED
      BY <1>2, <1>6, <3>1, <3>2, <3>3
  <2>2. CASE buckets[Misc] # {}
    <3>1. keys \in Seq(Dir) /\ DOMAIN keys = 1 .. n
      BY <1>5, <1>6
    <3>2. dirs = Append(keys, Misc)
      BY <2>2
    <3> HIDE DEF dirs
    <3>3. /\ dirs \in Seq(Dir) /\ Len(dirs) = n + 1
          /\ \A i \in 1 .. n : dirs[i] = keys[i]
          /\ dirs[n + 1] = Misc
      BY <1>2, <1>6, <3>1, <3>2
    <3>4. \A i \in 1 .. n : dirs[i] \in rest /\ dirs[i] # Misc
      BY <1>6, <3>3
    <3>5. ASSUME NEW i \in 1 .. n + 1, NEW j \in 1 .. n + 1, dirs[i] = dirs[j] PROVE i = j
      <4>1. CASE i = n + 1 \/ j = n + 1
        BY <3>3, <3>4, <3>5, <4>1
      <4>2. CASE i \in 1 .. n /\ j \in 1 .. n
        BY <1>6, <3>3, <3>5, <4>2
      <4> QED
        BY <4>1, <4>2
    <3>6. \A d \in Full(buckets) : \E i \in 1 .. n + 1 : dirs[i] = d
      <4> TAKE d \in Full(buckets)
      <4>1. CASE d = Misc
        BY <3>3, <4>1
      <4>2. CASE d # Misc
        <5>1. PICK i \in 1 .. n : keys[i] = d
          BY <1>6, <4>2
        <5>2. i \in 1 .. n + 1
          OBVIOUS
        <5> QED
          BY <3>3, <5>1, <5>2
      <4> QED
        BY <4>1, <4>2
    <3>7. dirs \in [1 .. n + 1 -> Dir]
      BY <3>3
    <3>8. n + 1 \in Nat /\ n + 1 <= MaxTopics + 1
      BY <1>2, <1>6
    <3> QED
      BY <3>3, <3>5, <3>6, <3>7, <3>8
  <2> QED
    BY <2>1, <2>2
<1> HIDE DEF dirs, rest
<1>8. \A i \in 1 .. k : [dir |-> dirs[i], id |-> SlugOf[dirs[i]], entities |-> buckets[dirs[i]]]
                        \in TopicRecord
  BY <1>5, <1>7 DEF TopicRecord, TopicIDs
<1>9. topics \in [1 .. k -> TopicRecord]
  BY <1>7, <1>8
<1>10. topics \in Seq(TopicRecord) /\ Len(topics) = k
  <2> HIDE DEF topics
  <2> QED
    BY <1>9
<1>11. \A i \in 1 .. k : topics[i].entities = buckets[dirs[i]]
  BY <1>7
<1> HIDE DEF topics
<1>12. ASSUME NEW e \in entities
       PROVE  \E i \in 1 .. k : \A j \in 1 .. k : e \in topics[j].entities <=> j = i
  <2>1. PICK d \in Dir : e \in buckets[d]
    BY <1>4 DEF Divides
  <2>2. d \in Full(buckets)
    BY <2>1 DEF Full
  <2>3. PICK i \in 1 .. k : dirs[i] = d
    BY <1>7, <2>2
  <2>4. ASSUME NEW j \in 1 .. k PROVE e \in topics[j].entities <=> j = i
    <3>1. dirs[j] \in Dir
      BY <1>7
    <3>2. e \in buckets[dirs[j]] <=> dirs[j] = d
      BY <1>4, <2>1, <3>1 DEF Divides
    <3> QED
      BY <1>7, <1>11, <2>3, <3>2
  <2> QED
    BY <2>4
<1> QED
  BY <1>1, <1>7, <1>10, <1>12 DEF Covers

-----------------------------------------------------------------------------
(* The invariant. *)

Page ==
    [dir : Dir, hash : SUBSET (Entities \X (0 .. MaxMoves + 1)), shown : SUBSET MayRelate,
     outline : BOOLEAN, cached : BOOLEAN]

\* A page as savePage writes it.
Saved == {p \in Page : ~p.outline /\ ~p.cached}

Stages == {"idle", "listing", "topic", "asking", "saving", "answered"}

CallRecord ==
    [at : Stages, entities : SUBSET Entities, versions : [Entities -> 0 .. MaxMoves + 1],
     relations : SUBSET MayRelate, topics : Seq(TopicRecord), i : Nat \ {0},
     pages : [TopicIDs -> {NoPage} \cup Page]]

Types ==
    /\ dirOf \in Layouts
    /\ live \subseteq Entities
    /\ version \in [Entities -> 1 .. moves + 1]
    /\ related \subseteq MayRelate
    /\ moves \in 0 .. MaxMoves /\ crashes \in 0 .. MaxCrashes
    /\ file \in [TopicIDs -> {NoPage, Broken} \cup Saved]
    /\ call \in [Calls -> CallRecord]

\* Once there are topics, they cover what was listed, and the turn is that of
\* one of them or, at the end, past the last.
InTurn(c) ==
    /\ c.at \in {"idle", "listing"} => c.topics = << >> /\ c.i = 1
    /\ c.at \notin {"idle", "listing"} =>
          Covers(c.topics, c.entities) /\ Len(c.topics) <= MaxTopics + 1
    /\ c.at \in {"topic", "asking", "saving"} => c.i <= Len(c.topics)
    /\ c.at = "answered" => c.i = Len(c.topics) + 1

\* What the page of topic t in call c has to be.
Describes(page, c, t) ==
    /\ page.hash = Hash(t.entities, c.versions)
    /\ IF page.outline THEN page.shown = {} /\ ~page.cached
       ELSE \/ page.cached
            \/ page.shown = {x \in c.relations : x[1] \in t.entities /\ x[2] \in c.entities}

\* The page of each topic before the turn describes it, unless a later topic
\* with the same slug took its place.
Placed(c) ==
    \A j \in 1 .. c.i - 1 :
        (\A k \in j + 1 .. c.i - 1 : c.topics[k].id # c.topics[j].id)
        => Describes(c.pages[c.topics[j].id], c, c.topics[j])

\* DescribedOnce speaks of answers only: a call's earlier pages have to stay
\* true of its listing while the graph and the files change.
IInv == Types /\ \A r \in Calls : InTurn(call[r]) /\ Placed(call[r])

-----------------------------------------------------------------------------
(* One call's step. *)

LEMMA CallFields ==
    ASSUME NEW c \in CallRecord
    PROVE  /\ c.at \in Stages /\ c.entities \in SUBSET Entities
           /\ c.versions \in [Entities -> 0 .. MaxMoves + 1]
           /\ c.relations \in SUBSET MayRelate /\ c.topics \in Seq(TopicRecord)
           /\ c.i \in Nat \ {0} /\ c.pages \in [TopicIDs -> {NoPage} \cup Page]
BY DEF CallRecord

LEMMA IdleIsFine == Idle \in CallRecord /\ InTurn(Idle) /\ Placed(Idle)
<1>1. /\ Idle.at = "idle" /\ Idle.topics = << >> /\ Idle.i = 1
  BY DEF Idle
<1>2. Idle \in CallRecord
  <2>1. [e \in Entities |-> 0] \in [Entities -> 0 .. MaxMoves + 1]
    BY WikiAssumption
  <2>2. [t \in TopicIDs |-> NoPage] \in [TopicIDs -> {NoPage} \cup Page]
    OBVIOUS
  <2>3. << >> \in Seq(TopicRecord) /\ {} \in SUBSET Entities /\ {} \in SUBSET MayRelate
        /\ "idle" \in Stages /\ 1 \in Nat \ {0}
    BY DEF Stages
  <2> QED
    BY <2>1, <2>2, <2>3 DEF Idle, CallRecord
<1>3. 1 .. Idle.i - 1 = {}
  BY <1>1
<1> QED
  BY <1>1, <1>2, <1>3 DEF InTurn, Placed

\* Every page says which entities it describes at which versions.
LEMMA HashIsTyped ==
    ASSUME NEW versions \in [Entities -> 0 .. MaxMoves + 1], NEW S \in SUBSET Entities
    PROVE  Hash(S, versions) \in SUBSET (Entities \X (0 .. MaxMoves + 1))
BY DEF Hash

LEMMA TopicFacts ==
    ASSUME NEW r \in Calls, call[r] \in CallRecord, InTurn(call[r]),
           call[r].at \in {"topic", "asking", "saving"}
    PROVE  /\ call[r].i \in 1 .. Len(call[r].topics)
           /\ Topic(r) \in TopicRecord
           /\ Topic(r).dir \in Dir /\ Topic(r).id \in TopicIDs
           /\ Topic(r).entities \in SUBSET Entities
<1>1. call[r].topics \in Seq(TopicRecord) /\ call[r].i \in Nat \ {0}
  BY CallFields
<1>2. call[r].i <= Len(call[r].topics)
  BY DEF InTurn
<1>3. call[r].i \in 1 .. Len(call[r].topics)
  BY <1>1, <1>2
<1>4. Topic(r) \in TopicRecord
  BY <1>1, <1>3 DEF Topic
<1> QED
  BY <1>3, <1>4 DEF TopicRecord

LEMMA FreshDescribes ==
    ASSUME NEW r \in Calls, call[r] \in CallRecord, InTurn(call[r]),
           call[r].at \in {"topic", "asking", "saving"}
    PROVE  Fresh(r) \in Saved /\ Describes(Fresh(r), call[r], Topic(r))
<1>1. Topic(r).dir \in Dir /\ Topic(r).entities \in SUBSET Entities
  BY TopicFacts
<1>2. Hash(Topic(r).entities, call[r].versions) \in SUBSET (Entities \X (0 .. MaxMoves + 1))
  <2>1. call[r].versions \in [Entities -> 0 .. MaxMoves + 1]
    BY CallFields
  <2> QED
    BY <1>1, <2>1, HashIsTyped
<1>3. Shown(r, Topic(r)) \in SUBSET MayRelate
  <2>1. call[r].relations \in SUBSET MayRelate
    BY CallFields
  <2> QED
    BY <2>1 DEF Shown
<1>4. Fresh(r) \in Page
  BY <1>1, <1>2, <1>3 DEF Fresh, Page
<1>5. /\ Fresh(r).hash = Hash(Topic(r).entities, call[r].versions)
      /\ Fresh(r).shown = Shown(r, Topic(r)) /\ Fresh(r).outline = FALSE /\ Fresh(r).cached = FALSE
  BY DEF Fresh
<1> QED
  BY <1>4, <1>5 DEF Saved, Describes, Shown

LEMMA OutlineDescribes ==
    ASSUME NEW r \in Calls, call[r] \in CallRecord, InTurn(call[r]),
           call[r].at \in {"topic", "asking", "saving"}
    PROVE  Outline(r) \in Page /\ Describes(Outline(r), call[r], Topic(r))
<1>1. PICK p \in Page : p = Fresh(r) /\ ~p.cached /\ Describes(p, call[r], Topic(r))
  BY FreshDescribes DEF Saved
<1>2. PICK q : q = [p EXCEPT !.shown = {}, !.outline = TRUE]
  OBVIOUS
<1>3. /\ q \in Page
      /\ q.hash = p.hash /\ q.shown = {} /\ q.outline = TRUE /\ q.cached = p.cached
  BY <1>2 DEF Page
<1>4. q = Outline(r)
  BY <1>1, <1>2 DEF Outline
<1> QED
  BY <1>1, <1>3, <1>4 DEF Describes

\* The turn passes on: what was placed before stays, unless the new page takes
\* its place.
LEMMA PlaceKeeps ==
    ASSUME NEW r \in Calls, call \in [Calls -> CallRecord],
           \A q \in Calls : InTurn(call[q]) /\ Placed(call[q]),
           call[r].at \in {"topic", "asking", "saving"},
           NEW page \in Page, Describes(page, call[r], Topic(r)), Place(r, page)
    PROVE  /\ call' \in [Calls -> CallRecord]
           /\ \A q \in Calls : InTurn(call'[q]) /\ Placed(call'[q])
<1>1. PICK c \in CallRecord : c = call[r]
  OBVIOUS
<1>2. /\ c.i \in 1 .. Len(c.topics) /\ Topic(r) = c.topics[c.i]
      /\ Topic(r).id \in TopicIDs /\ call[r].topics = c.topics
  <2>1. call[r] \in CallRecord
    OBVIOUS
  <2> QED
    BY <1>1, <2>1, TopicFacts DEF Topic
<1>3. PICK id \in TopicIDs : id = Topic(r).id
  BY <1>2
<1>4. PICK pages : pages = [c.pages EXCEPT ![id] = page]
  OBVIOUS
<1>5. PICK at : at = IF c.i = Len(c.topics) THEN "answered" ELSE "topic"
  OBVIOUS
<1>6. PICK n : n = c.i + 1
  OBVIOUS
<1>7. PICK d : d = [[[c EXCEPT !.pages = pages] EXCEPT !.i = n] EXCEPT !.at = at]
  OBVIOUS
<1>8. call' = [call EXCEPT ![r] = d]
  BY <1>1, <1>3, <1>4, <1>5, <1>6, <1>7 DEF Place
<1>9. pages \in [TopicIDs -> {NoPage} \cup Page] /\ at \in Stages /\ n \in Nat \ {0}
      /\ c.topics \in Seq(TopicRecord)
  <2>1. c.pages \in [TopicIDs -> {NoPage} \cup Page] /\ c.i \in Nat /\ c.topics \in Seq(TopicRecord)
    BY CallFields
  <2> QED
    BY <1>4, <1>5, <1>6, <2>1 DEF Stages
<1>10. d \in CallRecord
  BY <1>7, <1>9 DEF CallRecord
<1>11. /\ d.pages = pages /\ d.i = n /\ d.at = at /\ d.topics = c.topics
       /\ d.entities = c.entities /\ d.versions = c.versions /\ d.relations = c.relations
  BY <1>7 DEF CallRecord
<1>12. InTurn(d)
  <2>1. InTurn(c) /\ c.at \in {"topic", "asking", "saving"}
    BY <1>1
  <2>2. Covers(c.topics, c.entities) /\ Len(c.topics) <= MaxTopics + 1
    BY <2>1 DEF InTurn
  <2>3. c.i \in Nat /\ Len(c.topics) \in Nat
    BY <1>2, <1>9
  <2> QED
    BY <1>2, <1>5, <1>6, <1>11, <2>2, <2>3 DEF InTurn
<1>13. Placed(d)
  <2> SUFFICES ASSUME NEW j \in 1 .. d.i - 1,
                      \A k \in j + 1 .. d.i - 1 : d.topics[k].id # d.topics[j].id
               PROVE  Describes(d.pages[d.topics[j].id], d, d.topics[j])
    BY DEF Placed
  <2>1. c.i \in Nat /\ d.i - 1 = c.i /\ Len(c.topics) \in Nat
    BY <1>2, <1>6, <1>9, <1>11
  <2>2. j \in Nat /\ j \in 1 .. c.i /\ j \in 1 .. Len(c.topics)
    BY <1>2, <2>1
  <2>3. c.topics[j].id \in TopicIDs
    <3>1. c.topics[j] \in TopicRecord
      BY <1>9, <2>2
    <3> QED
      BY <3>1 DEF TopicRecord
  <2>4. c.pages \in [TopicIDs -> {NoPage} \cup Page]
    BY CallFields
  <2>5. Describes(d.pages[c.topics[j].id], c, c.topics[j])
    <3>1. CASE j = c.i
      <4>1. d.pages[c.topics[j].id] = page
        BY <1>2, <1>3, <1>4, <1>11, <2>4, <3>1
      <4> QED
        BY <1>1, <1>2, <3>1, <4>1
    <3>2. CASE j # c.i
      <4>1. c.i \in j + 1 .. d.i - 1
        BY <2>1, <2>2, <3>2
      <4>2. c.topics[j].id # id
        BY <1>2, <1>3, <1>11, <4>1
      <4>3. d.pages[c.topics[j].id] = c.pages[c.topics[j].id]
        BY <1>4, <1>11, <2>3, <2>4, <4>2
      <4>4. j \in 1 .. c.i - 1 /\ \A k \in j + 1 .. c.i - 1 : k \in j + 1 .. d.i - 1
        BY <2>1, <2>2, <3>2
      <4>5. Placed(c)
        BY <1>1
      <4>6. Describes(c.pages[c.topics[j].id], c, c.topics[j])
        BY <1>11, <4>4, <4>5 DEF Placed
      <4> QED
        BY <4>3, <4>6
    <3> QED
      BY <3>1, <3>2
  <2> QED
    BY <1>11, <2>5 DEF Describes
<1> QED
  BY <1>8, <1>10, <1>12, <1>13

-----------------------------------------------------------------------------
(* Every step. *)

LEMMA InitIInv == Init => IInv
<1> SUFFICES ASSUME Init PROVE IInv
  OBVIOUS
<1>1. call = [r \in Calls |-> Idle]
  BY DEF Init
<1>2. call \in [Calls -> CallRecord] /\ \A r \in Calls : InTurn(call[r]) /\ Placed(call[r])
  BY <1>1, IdleIsFine
<1>3. /\ dirOf \in Layouts /\ live \subseteq Entities /\ related \subseteq MayRelate
      /\ moves \in 0 .. MaxMoves /\ crashes \in 0 .. MaxCrashes
      /\ version \in [Entities -> 1 .. moves + 1]
      /\ file \in [TopicIDs -> {NoPage, Broken} \cup Saved]
  BY WikiAssumption DEF Init
<1> QED
  BY <1>2, <1>3 DEF IInv, Types

\* A step of one call that replaces its record and leaves the graph alone.
LEMMA CallChanges ==
    ASSUME IInv, NEW r \in Calls, NEW d \in CallRecord, InTurn(d), Placed(d),
           call' = [call EXCEPT ![r] = d],
           file' \in [TopicIDs -> {NoPage, Broken} \cup Saved],
           UNCHANGED <<graph, moves, crashes>>
    PROVE  IInv'
<1>1. call' \in [Calls -> CallRecord] /\ \A q \in Calls : InTurn(call'[q]) /\ Placed(call'[q])
  BY DEF IInv, Types
<1> QED
  BY <1>1 DEF IInv, Types, graph

\* The turn passes on, with a page that describes the topic.
LEMMA PageIsPlaced ==
    ASSUME IInv, NEW r \in Calls, call[r].at \in {"topic", "asking", "saving"},
           NEW page \in Page, Describes(page, call[r], Topic(r)), Place(r, page),
           file' \in [TopicIDs -> {NoPage, Broken} \cup Saved],
           UNCHANGED <<graph, moves, crashes>>
    PROVE  IInv'
<1>1. call' \in [Calls -> CallRecord] /\ \A q \in Calls : InTurn(call'[q]) /\ Placed(call'[q])
  BY PlaceKeeps DEF IInv, Types
<1> QED
  BY <1>1 DEF IInv, Types, graph

LEMMA NextKeepsIInv == IInv /\ [Next]_vars => IInv'
<1> SUFFICES ASSUME IInv, [Next]_vars PROVE IInv'
  OBVIOUS
<1>1. ASSUME NEW r \in Calls, ListEntities(r) PROVE IInv'
  <2>1. PICK c \in CallRecord : c = call[r]
    BY DEF IInv, Types
  <2>2. PICK versions : versions = [e \in Entities |-> IF e \in live THEN version[e] ELSE 0]
    OBVIOUS
  <2>3. versions \in [Entities -> 0 .. MaxMoves + 1]
    <3>1. version \in [Entities -> 1 .. moves + 1] /\ moves \in 0 .. MaxMoves /\ MaxMoves \in Nat
      BY WikiAssumption DEF IInv, Types
    <3>2. \A e \in Entities : version[e] \in 0 .. MaxMoves + 1 /\ 0 \in 0 .. MaxMoves + 1
      BY <3>1
    <3> QED
      BY <2>2, <3>2
  <2>4. PICK d : d = [[[c EXCEPT !.at = "listing"] EXCEPT !.entities = live] EXCEPT !.versions = versions]
    OBVIOUS
  <2>5. call' = [call EXCEPT ![r] = d]
    BY <1>1, <2>1, <2>2, <2>4 DEF ListEntities
  <2>6. live \in SUBSET Entities /\ "listing" \in Stages /\ c.at = "idle"
    BY <1>1, <2>1 DEF IInv, Types, Stages, ListEntities
  <2>7. d \in CallRecord
    BY <2>3, <2>4, <2>6 DEF CallRecord
  <2>8. d.at = "listing" /\ d.i = c.i /\ d.topics = c.topics
    BY <2>4 DEF CallRecord
  <2>9. c.topics = << >> /\ c.i = 1
    BY <2>1, <2>6 DEF IInv, InTurn
  <2>10. InTurn(d)
    BY <2>8, <2>9 DEF InTurn
  <2>11. Placed(d)
    <3>1. 1 .. d.i - 1 = {}
      BY <2>8, <2>9
    <3> QED
      BY <3>1 DEF Placed
  <2>12. file' \in [TopicIDs -> {NoPage, Broken} \cup Saved] /\ UNCHANGED <<graph, moves, crashes>>
    BY <1>1 DEF ListEntities, IInv, Types
  <2> QED
    BY <2>5, <2>7, <2>10, <2>11, <2>12, CallChanges
<1>2. ASSUME NEW r \in Calls, ListRelationships(r) PROVE IInv'
  <2>1. PICK c \in CallRecord : c = call[r]
    BY DEF IInv, Types
  <2>2. PICK topics : topics = Segment(c.entities, related)
    OBVIOUS
  <2>3. /\ topics \in Seq(TopicRecord) /\ Len(topics) <= MaxTopics + 1
        /\ Covers(topics, c.entities)
    <3>1. dirOf \in [Entities -> Dir] /\ related \in SUBSET MayRelate
      BY WikiAssumption DEF IInv, Types
    <3>2. PICK S \in SUBSET Entities, R \in SUBSET MayRelate : S = c.entities /\ R = related
      BY <3>1, CallFields
    <3> QED
      BY <2>2, <3>1, <3>2, SegmentCovers
  <2>4. PICK at : at = IF topics = << >> THEN "answered" ELSE "topic"
    OBVIOUS
  <2>5. PICK d : d = [[[c EXCEPT !.relations = related] EXCEPT !.topics = topics] EXCEPT !.at = at]
    OBVIOUS
  <2>6. call' = [call EXCEPT ![r] = d]
    BY <1>2, <2>1, <2>2, <2>4, <2>5 DEF ListRelationships
  <2>7. related \in SUBSET MayRelate /\ at \in Stages /\ c.at = "listing"
    BY <1>2, <2>1, <2>4 DEF IInv, Types, Stages, ListRelationships
  <2>8. d \in CallRecord
    BY <2>3, <2>5, <2>7 DEF CallRecord
  <2>9. d.at = at /\ d.i = c.i /\ d.topics = topics /\ d.entities = c.entities
    BY <2>5 DEF CallRecord
  <2>10. c.i = 1
    BY <2>1, <2>7 DEF IInv, InTurn
  <2>11. InTurn(d)
    <3>1. CASE topics = << >>
      <4>1. at = "answered" /\ Len(topics) = 0
        BY <2>4, <3>1
      <4> QED
        BY <2>3, <2>9, <2>10, <4>1 DEF InTurn
    <3>2. CASE topics # << >>
      <4>1. at = "topic" /\ Len(topics) \in Nat /\ Len(topics) # 0
        BY <2>3, <2>4, <3>2
      <4> QED
        BY <2>3, <2>9, <2>10, <4>1 DEF InTurn
    <3> QED
      BY <3>1, <3>2
  <2>12. Placed(d)
    <3>1. 1 .. d.i - 1 = {}
      BY <2>9, <2>10
    <3> QED
      BY <3>1 DEF Placed
  <2>13. file' \in [TopicIDs -> {NoPage, Broken} \cup Saved] /\ UNCHANGED <<graph, moves, crashes>>
    BY <1>2 DEF ListRelationships, IInv, Types
  <2> QED
    BY <2>6, <2>8, <2>11, <2>12, <2>13, CallChanges
<1>3. ASSUME NEW r \in Calls, Reuse(r) PROVE IInv'
  <2>1. call[r] \in CallRecord /\ InTurn(call[r]) /\ call[r].at \in {"topic", "asking", "saving"}
    BY <1>3 DEF IInv, Types, Reuse
  <2>2. Topic(r).id \in TopicIDs
    BY <2>1, TopicFacts
  <2>3. Cached(r) \in Saved /\ Cached(r).hash = Fresh(r).hash
    BY <1>3, <2>2 DEF IInv, Types, Reuse, Hit, Cached
  <2>4. PICK p \in Page : p = Cached(r)
    BY <2>3 DEF Saved
  <2>5. PICK page : page = [p EXCEPT !.cached = TRUE]
    OBVIOUS
  <2>6. page \in Page /\ page.hash = p.hash /\ page.outline = p.outline /\ page.cached = TRUE
    BY <2>5 DEF Page
  <2>7. Describes(page, call[r], Topic(r))
    <3>1. Describes(Fresh(r), call[r], Topic(r))
      BY <2>1, FreshDescribes
    <3> QED
      BY <2>3, <2>4, <2>6, <3>1 DEF Describes, Saved
  <2>8. Place(r, page)
    BY <1>3, <2>4, <2>5 DEF Reuse
  <2>9. file' \in [TopicIDs -> {NoPage, Broken} \cup Saved] /\ UNCHANGED <<graph, moves, crashes>>
    BY <1>3 DEF Reuse, IInv, Types
  <2> QED
    BY <2>1, <2>6, <2>7, <2>8, <2>9, PageIsPlaced
<1>4. ASSUME NEW r \in Calls, NEW next \in {"asking", "saving"},
             call[r].at \in {"topic", "asking"}, call' = [call EXCEPT ![r].at = next],
             file' \in [TopicIDs -> {NoPage, Broken} \cup Saved],
             UNCHANGED <<graph, moves, crashes>>
      PROVE  IInv'
  <2>1. PICK c \in CallRecord : c = call[r]
    BY DEF IInv, Types
  <2>2. PICK d : d = [c EXCEPT !.at = next]
    OBVIOUS
  <2>3. d \in CallRecord
    BY <2>2 DEF CallRecord, Stages
  <2>4. /\ d.at = next /\ d.i = c.i /\ d.topics = c.topics /\ d.entities = c.entities
        /\ d.pages = c.pages /\ d.versions = c.versions /\ d.relations = c.relations
    BY <2>2 DEF CallRecord
  <2>5. InTurn(c) /\ Placed(c) /\ c.at \in {"topic", "asking"}
    BY <1>4, <2>1 DEF IInv
  <2>6. InTurn(d)
    BY <2>4, <2>5 DEF InTurn
  <2>7. Placed(d)
    BY <2>4, <2>5 DEF Placed, Describes
  <2>8. call' = [call EXCEPT ![r] = d]
    BY <1>4, <2>1, <2>2
  <2> QED
    BY <1>4, <2>3, <2>6, <2>7, <2>8, CallChanges
<1>5. ASSUME NEW r \in Calls, AskModel(r) PROVE IInv'
  <2>1. file' \in [TopicIDs -> {NoPage, Broken} \cup Saved]
    BY <1>5 DEF AskModel, IInv, Types
  <2> QED
    BY <1>4, <1>5, <2>1 DEF AskModel
<1>6. ASSUME NEW r \in Calls, ModelFails(r) PROVE IInv'
  <2>1. call[r] \in CallRecord /\ InTurn(call[r]) /\ call[r].at \in {"topic", "asking", "saving"}
    BY <1>6 DEF IInv, Types, ModelFails
  <2>2. PICK page \in Page : page = Outline(r) /\ Describes(page, call[r], Topic(r))
    BY <2>1, OutlineDescribes
  <2>3. file' \in [TopicIDs -> {NoPage, Broken} \cup Saved] /\ UNCHANGED <<graph, moves, crashes>>
    BY <1>6 DEF ModelFails, IInv, Types
  <2>4. Place(r, page)
    BY <1>6, <2>2 DEF ModelFails
  <2> QED
    BY <2>1, <2>2, <2>3, <2>4, PageIsPlaced
<1>7. ASSUME NEW r \in Calls, BeginSave(r) PROVE IInv'
  <2>1. file' \in [TopicIDs -> {NoPage, Broken} \cup Saved]
    BY <1>7 DEF BeginSave, IInv, Types
  <2> QED
    BY <1>4, <1>7, <2>1 DEF BeginSave
<1>8. ASSUME NEW r \in Calls, EndSave(r) PROVE IInv'
  <2>1. call[r] \in CallRecord /\ InTurn(call[r]) /\ call[r].at \in {"topic", "asking", "saving"}
    BY <1>8 DEF IInv, Types, EndSave
  <2>2. PICK page \in Saved : page = Fresh(r) /\ Describes(page, call[r], Topic(r))
    BY <2>1, FreshDescribes
  <2>3. page \in Page
    BY DEF Saved
  <2>4. file' \in [TopicIDs -> {NoPage, Broken} \cup Saved]
    <3>1. file \in [TopicIDs -> {NoPage, Broken} \cup Saved]
      BY DEF IInv, Types
    <3>2. file' = file \/ file' = [file EXCEPT ![Topic(r).id] = page]
          \/ file' = [file EXCEPT ![Topic(r).id] = Broken]
      BY <1>8, <2>2 DEF EndSave
    <3> QED
      BY <3>1, <3>2
  <2>5. UNCHANGED <<graph, moves, crashes>> /\ Place(r, page)
    BY <1>8, <2>2 DEF EndSave
  <2> QED
    BY <2>1, <2>2, <2>3, <2>4, <2>5, PageIsPlaced
<1>9. ASSUME NEW r \in Calls, End(r) PROVE IInv'
  <2>1. file' \in [TopicIDs -> {NoPage, Broken} \cup Saved] /\ UNCHANGED <<graph, moves, crashes>>
    BY <1>9 DEF End, IInv, Types
  <2>2. call' = [call EXCEPT ![r] = Idle]
    BY <1>9 DEF End
  <2> QED
    BY <2>1, <2>2, IdleIsFine, CallChanges
<1>10. CASE Crash
  <2>1. call' = [r \in Calls |-> Idle]
    BY <1>10 DEF Crash
  <2>2. call' \in [Calls -> CallRecord] /\ \A q \in Calls : InTurn(call'[q]) /\ Placed(call'[q])
    BY <2>1, IdleIsFine
  <2>3. crashes' \in 0 .. MaxCrashes
    BY <1>10, WikiAssumption DEF Crash, IInv, Types
  <2> QED
    BY <1>10, <2>2, <2>3 DEF Crash, IInv, Types, graph
<1>11. ASSUME NEW e \in Movable, Update(e) PROVE IInv'
  <2>1. /\ version \in [Entities -> 1 .. moves + 1] /\ moves \in 0 .. MaxMoves
        /\ MaxMoves \in Nat /\ e \in Entities /\ moves < MaxMoves /\ moves' = moves + 1
        /\ version' = [version EXCEPT ![e] = @ + 1]
    BY <1>11, WikiAssumption DEF Update, IInv, Types
  <2>2. moves' \in 0 .. MaxMoves
    BY <2>1
  <2>3. version' \in [Entities -> 1 .. moves' + 1]
    <3>1. \A o \in Entities : version[o] \in 1 .. moves' + 1 /\ version[o] + 1 \in 1 .. moves' + 1
      BY <2>1
    <3> QED
      BY <2>1, <3>1
  <2>4. live' \subseteq Entities
    BY <1>11, <2>1 DEF Update, IInv, Types
  <2>5. UNCHANGED <<dirOf, related, crashes, file, call>>
    BY <1>11 DEF Update
  <2> QED
    BY <2>2, <2>3, <2>4, <2>5 DEF IInv, Types
<1>12. ASSUME NEW x \in MayRelate, Relate(x) PROVE IInv'
  <2>1. /\ version \in [Entities -> 1 .. moves + 1] /\ moves \in 0 .. MaxMoves
        /\ MaxMoves \in Nat /\ moves < MaxMoves /\ moves' = moves + 1
    BY <1>12, WikiAssumption DEF Relate, IInv, Types
  <2>2. moves' \in 0 .. MaxMoves
    BY <2>1
  <2>3. UNCHANGED <<dirOf, live, version, crashes, file, call>>
    BY <1>12 DEF Relate
  <2>4. version' \in [Entities -> 1 .. moves' + 1]
    <3>1. \A o \in Entities : version[o] \in 1 .. moves' + 1
      BY <2>1
    <3> QED
      BY <2>1, <2>3, <3>1
  <2>5. related' \subseteq MayRelate
    BY <1>12 DEF Relate, IInv, Types
  <2> QED
    BY <2>2, <2>3, <2>4, <2>5 DEF IInv, Types
<1>13. CASE UNCHANGED vars
  BY <1>13 DEF vars, graph, IInv, Types
<1> QED
  BY <1>1, <1>2, <1>3, <1>5, <1>6, <1>7, <1>8, <1>9, <1>10, <1>11, <1>12, <1>13 DEF Next

-----------------------------------------------------------------------------
(* What follows. *)

LEMMA PagesAreTyped == \A p \in Page : IsPage(p)
BY DEF Page, IsPage

LEMMA IInvGivesTypes == IInv => TypeOK
<1> SUFFICES ASSUME IInv PROVE TypeOK
  OBVIOUS
<1>1. /\ dirOf \in Layouts /\ live \subseteq Entities /\ related \subseteq MayRelate
      /\ moves \in 0 .. MaxMoves /\ crashes \in 0 .. MaxCrashes
  BY DEF IInv, Types
<1>2. version \in [Entities -> 1 .. MaxMoves + 1]
  <2>1. version \in [Entities -> 1 .. moves + 1] /\ moves \in 0 .. MaxMoves /\ MaxMoves \in Nat
    BY WikiAssumption DEF IInv, Types
  <2>2. \A e \in Entities : version[e] \in 1 .. MaxMoves + 1
    BY <2>1
  <2> QED
    BY <2>1, <2>2
<1>3. ASSUME NEW t \in TopicIDs
      PROVE  \/ file[t] \in {NoPage, Broken}
             \/ IsPage(file[t]) /\ ~file[t].outline /\ ~file[t].cached
  <2>1. file[t] \in {NoPage, Broken} \/ file[t] \in Saved
    BY DEF IInv, Types
  <2> QED
    BY <2>1, PagesAreTyped DEF Saved
<1>4. ASSUME NEW r \in Calls
      PROVE  /\ call[r].at \in {"idle", "listing", "topic", "asking", "saving", "answered"}
             /\ call[r].entities \subseteq Entities /\ call[r].relations \subseteq MayRelate
             /\ Len(call[r].topics) <= MaxTopics + 1
             /\ call[r].at \in {"topic", "asking", "saving"} => call[r].i \in DOMAIN call[r].topics
             /\ \A t \in TopicIDs : call[r].pages[t] = NoPage \/ IsPage(call[r].pages[t])
  <2>1. PICK c \in CallRecord : c = call[r] /\ InTurn(c)
    BY DEF IInv, Types
  <2>2. /\ c.at \in Stages /\ c.entities \in SUBSET Entities /\ c.relations \in SUBSET MayRelate
        /\ c.topics \in Seq(TopicRecord) /\ c.i \in Nat \ {0}
        /\ c.pages \in [TopicIDs -> {NoPage} \cup Page]
    BY CallFields
  <2>3. Len(c.topics) <= MaxTopics + 1
    <3>1. CASE c.at \in {"idle", "listing"}
      <4>1. Len(c.topics) = 0
        BY <2>1, <3>1 DEF InTurn
      <4> QED
        BY <4>1, WikiAssumption
    <3>2. CASE c.at \notin {"idle", "listing"}
      BY <2>1, <3>2 DEF InTurn
    <3> QED
      BY <3>1, <3>2
  <2>4. c.at \in {"topic", "asking", "saving"} => c.i \in DOMAIN c.topics
    BY <2>1, <2>2 DEF InTurn
  <2>5. \A t \in TopicIDs : c.pages[t] = NoPage \/ IsPage(c.pages[t])
    BY <2>2, PagesAreTyped
  <2> QED
    BY <2>1, <2>2, <2>3, <2>4, <2>5 DEF Stages
<1> QED
  BY <1>1, <1>2, <1>3, <1>4 DEF TypeOK

LEMMA IInvGivesDescription == IInv => DescribedOnce
<1> SUFFICES ASSUME IInv, NEW r \in Calls, call[r].at = "answered", NEW e \in call[r].entities
             PROVE  \E i \in DOMAIN call[r].topics :
                       LET t == call[r].topics[i]
                           page == call[r].pages[t.id]
                       IN  /\ {j \in DOMAIN call[r].topics : e \in call[r].topics[j].entities} = {i}
                           /\ i = Max(Namesakes(r, i)) =>
                                 /\ page.hash = Hash(t.entities, call[r].versions)
                                 /\ IF page.outline THEN page.shown = {} /\ ~page.cached
                                    ELSE page.cached \/ page.shown = Shown(r, t)
  BY DEF DescribedOnce
<1>1. PICK c \in CallRecord : c = call[r] /\ InTurn(c) /\ Placed(c)
  BY DEF IInv, Types
<1>2. c.topics \in Seq(TopicRecord)
  BY CallFields
<1>3. PICK n \in Nat : n = Len(c.topics) /\ DOMAIN c.topics = 1 .. n
  BY <1>2
<1>4. Covers(c.topics, c.entities) /\ c.i = n + 1
  BY <1>1, <1>3 DEF InTurn
<1>5. PICK i \in 1 .. n : \A j \in 1 .. n : e \in c.topics[j].entities <=> j = i
  BY <1>1, <1>3, <1>4 DEF Covers
<1>6. {j \in DOMAIN c.topics : e \in c.topics[j].entities} = {i}
  BY <1>3, <1>5
<1>7. ASSUME i = Max(Namesakes(r, i))
      PROVE  Describes(c.pages[c.topics[i].id], c, c.topics[i])
  <2>1. Namesakes(r, i) = {j \in 1 .. n : c.topics[j].id = c.topics[i].id}
    BY <1>1, <1>3 DEF Namesakes
  <2>2. PICK S : S = Namesakes(r, i)
    OBVIOUS
  <2>3. S \in SUBSET Nat /\ S # {} /\ \A j \in S : j <= n
    BY <2>1, <2>2
  <2>4. \A j \in S : i >= j
    BY <1>7, <2>2, <2>3, MaxOf
  <2>5. i \in 1 .. c.i - 1 /\ c.i - 1 = n
    BY <1>4
  <2>6. \A k \in i + 1 .. c.i - 1 : c.topics[k].id # c.topics[i].id
    <3> TAKE k \in i + 1 .. c.i - 1
    <3>1. k \in 1 .. n /\ k > i
      BY <2>5
    <3>2. k \notin S
      BY <2>4, <3>1
    <3> QED
      BY <2>1, <2>2, <3>1, <3>2
  <2> QED
    BY <1>1, <2>5, <2>6 DEF Placed
<1> QED
  BY <1>1, <1>3, <1>6, <1>7 DEF Describes, Shown

-----------------------------------------------------------------------------
(* The theorems. *)

LEMMA InductiveInvariant == Spec => []IInv
BY InitIInv, NextKeepsIInv, PTL DEF Spec

\* Calls, pages and files keep their types, whatever Segment makes of a
\* listing: never more topics than the cap and Misc, and in its turn a call is
\* always at one of them.
THEOREM WikiTypeCorrect == Spec => []TypeOK
BY InductiveInvariant, IInvGivesTypes, PTL

\* An answer of Generate describes each entity that it listed in one topic,
\* on a page written for just the versions listed, for any number of calls,
\* changes, crashes and files cut short in between.
THEOREM DescribedOnceHolds == Spec => []DescribedOnce
BY InductiveInvariant, IInvGivesDescription, PTL

==============================================================================
