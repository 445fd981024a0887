---------------------------- MODULE PipelineProofs ----------------------------
(***************************************************************************)
(* Theorems of Pipeline for any ids, names and batches, any number of      *)
(* handlers, and any limit of a listing.                                   *)
(***************************************************************************)
EXTENDS Pipeline, FiniteSetTheorems, SequenceTheorems, WellFoundedInduction, TLAPS

\* Maps from some of S to T.
Partial(S, T) == UNION {[D -> T] : D \in SUBSET S}

\* What a handler's state is made of.
PipeState ==
    [at : Steps \cup Answered \cup {"idle"},
     batch : Batches \cup {None},
     todo : Seq(EntIDs),
     idMap : Partial(EntIDs, EntIDs),
     checked : SUBSET RelIDs,
     accepted : SUBSET RelIDs,
     listed : Partial(IDs, Row)]

\* The pipeline's own writes start from version 1, and only count up.
Counted(g) == IsGraph(g) /\ \A id \in IDs : g[id] # NoRow => g[id].version >= 1

\* A row that g2 has in place of one of g's is of a later version.
Advances(g, g2) ==
    \A id \in IDs : g[id] # NoRow =>
        g2[id] # NoRow /\ (g2[id] = g[id] \/ g2[id].version > g[id].version)

\* A listing is of rows that storage has or had: a later version tells.
Fresh(h) ==
    \A id \in DOMAIN pipe[h].listed :
        /\ graph[id] # NoRow
        /\ pipe[h].listed[id].version >= 1
        /\ \/ pipe[h].listed[id] = graph[id]
           \/ pipe[h].listed[id].version < graph[id].version

\* What a handler has found out stays true: records resolve to entities of
\* the registry, and so do the ends of accepted relationships.
Sound(h) ==
    /\ pipe[h].at \in Steps => pipe[h].batch \in Batches
    /\ pipe[h].at \in {"byID", "byName", "insert"} => Len(pipe[h].todo) > 0
    /\ IsFiniteSet(DOMAIN pipe[h].idMap)
    /\ \A id \in DOMAIN pipe[h].idMap : Known(pipe[h].idMap[id])
    /\ IsFiniteSet(pipe[h].accepted)
    /\ pipe[h].accepted \subseteq pipe[h].checked
    /\ \A r \in pipe[h].accepted : Known(r[1]) /\ Known(r[2])
    /\ Fresh(h)

\* A name is registered for an id that has it.
Registered ==
    /\ registry \in [Names -> EntIDs \cup {None}]
    /\ \A n \in Names : registry[n] # None => NameOf[registry[n]] = n

IInv ==
    /\ Registered
    /\ Counted(graph)
    /\ received \in Nat /\ deletes \in Nat
    /\ pipe \in [Handlers -> PipeState]
    /\ \A d \in EntIDs : graph[d] # NoRow => Known(d)
    /\ \A h \in Handlers : Sound(h)

-----------------------------------------------------------------------------
(* Maps and sequences. *)

LEMMA PartialIs ==
    ASSUME NEW S, NEW T
    PROVE  /\ \A f \in Partial(S, T) : DOMAIN f \subseteq S /\ \A x \in DOMAIN f : f[x] \in T
           /\ \A D \in SUBSET S : \A f \in [D -> T] : f \in Partial(S, T)
<1>1. ASSUME NEW f \in Partial(S, T)
      PROVE  DOMAIN f \subseteq S /\ \A x \in DOMAIN f : f[x] \in T
  <2>1. PICK D \in SUBSET S : f \in [D -> T]
    BY DEF Partial
  <2> QED
    BY <2>1
<1>2. ASSUME NEW D \in SUBSET S, NEW f \in [D -> T]
      PROVE  f \in Partial(S, T)
  <2>1. [D -> T] \in {[E -> T] : E \in SUBSET S}
    OBVIOUS
  <2> QED
    BY <2>1 DEF Partial
<1> QED
  BY <1>1, <1>2

\* One partial map over another.
LEMMA OverIs ==
    ASSUME NEW S, NEW T, NEW f \in Partial(S, T), NEW g \in Partial(S, T)
    PROVE  /\ Over(f, g) \in Partial(S, T)
           /\ DOMAIN Over(f, g) = DOMAIN f \cup DOMAIN g
           /\ \A x \in DOMAIN f : Over(f, g)[x] = f[x]
           /\ \A x \in DOMAIN g \ DOMAIN f : Over(f, g)[x] = g[x]
<1> DEFINE D == DOMAIN f \cup DOMAIN g
<1>1. D \in SUBSET S
  BY PartialIs
<1>2. \A x \in D : (IF x \in DOMAIN f THEN f[x] ELSE g[x]) \in T
  BY PartialIs
<1>3. Over(f, g) \in [D -> T]
  BY <1>2 DEF Over
<1>4. Over(f, g) \in Partial(S, T)
  BY <1>1, <1>3, PartialIs
<1> QED
  BY <1>4 DEF Over

\* A property of natural numbers that holds of 0, and of each number that
\* comes after one it holds of, holds of all: where it fails, S, there is a
\* least one.
LEMMA LeastFailure ==
    ASSUME NEW S \in SUBSET Nat, 0 \notin S,
           \A n \in Nat : n \notin S => n + 1 \notin S
    PROVE  S = {}
<1>1. SUFFICES ASSUME S # {} PROVE FALSE
  OBVIOUS
<1>2. PICK n \in S : \A m \in S : <<m, n>> \notin OpToRel(<, Nat)
  BY <1>1, NatLessThanWellFounded, WFMin
<1>3. n \in Nat /\ n # 0 /\ n - 1 \in Nat
  OBVIOUS
<1>4. n - 1 \in S
  BY <1>3
<1>5. <<n - 1, n>> \in OpToRel(<, Nat)
  BY <1>3 DEF OpToRel
<1> QED
  BY <1>2, <1>4, <1>5

\* SetToSeq lists a finite set, each member once.
LEMMA SetToSeqLists ==
    ASSUME NEW S, IsFiniteSet(S)
    PROVE  /\ SetToSeq(S) \in Seq(S)
           /\ \A x \in S : \E n \in 1 .. Len(SetToSeq(S)) : SetToSeq(S)[n] = x
           /\ \A m, n \in 1 .. Len(SetToSeq(S)) :
                 SetToSeq(S)[m] = SetToSeq(S)[n] => m = n
<1> DEFINE c == Cardinality(S)
           q == SetToSeq(S)
<1>1. c \in Nat /\ ExistsBijection(1 .. c, S)
  BY FS_CardinalityType
<1>2. \E f \in [1 .. c -> S] : IsInjective(f)
  BY <1>1 DEF ExistsBijection, Bijection, Injection
<1>3. q \in [1 .. c -> S] /\ IsInjective(q)
  BY <1>2 DEF SetToSeq
<1> HIDE DEF q
<1>4. q \in Injection(1 .. c, S)
  BY <1>3 DEF Injection
<1>5. IsFiniteSet(1 .. c) /\ Cardinality(1 .. c) = c
  BY <1>1, FS_Interval
<1>6. q \in Surjection(1 .. c, S)
  BY <1>4, <1>5, FS_Injection
<1> HIDE DEF c
<1>7. Len(q) = c /\ q \in Seq(S)
  BY <1>1, <1>3
<1>8. \A x \in S : \E n \in 1 .. c : q[n] = x
  BY <1>6 DEF Surjection
<1>9. \A m, n \in 1 .. c : q[m] = q[n] => m = n
  BY <1>3 DEF IsInjective
<1> QED
  BY <1>7, <1>8, <1>9 DEF q

\* The image of a finite set is finite; here for a map.
LEMMA FiniteImage ==
    ASSUME NEW f, IsFiniteSet(DOMAIN f)
    PROVE  IsFiniteSet({f[x] : x \in DOMAIN f})
<1> DEFINE T == {f[x] : x \in DOMAIN f}
           g == [x \in DOMAIN f |-> f[x]]
<1>1. g \in [DOMAIN f -> T]
  OBVIOUS
<1>2. \A t \in T : \E x \in DOMAIN f : g[x] = t
  OBVIOUS
<1>3. g \in Surjection(DOMAIN f, T)
  BY <1>1, <1>2 DEF Surjection
<1> QED
  BY <1>3, FS_Surjection

-----------------------------------------------------------------------------
(* One transaction of storage. *)

EntityMutation == [id : EntIDs, version : Nat, data : Data \cup {BadData}]
RelationshipMutation ==
    [id : RelIDs, version : Nat, data : Data \cup {BadData}, from : EntIDs, to : EntIDs]
Mutation == EntityMutation \cup RelationshipMutation

\* What a transaction is given: mutations, each of a row of its own.
Disjoint(ms) ==
    /\ ms \in Seq(Mutation)
    /\ \A m, n \in 1 .. Len(ms) : ms[m].id = ms[n].id => m = n

\* f is what the first k mutations have come to.
IsTransaction(f, g, ms, k) ==
    f = [n \in 0 .. k |-> IF n = 0 THEN [rows |-> g, verdict |-> "success"]
                          ELSE ApplyOne(f[n - 1], ms[n])]

LEMMA TransactionExists ==
    ASSUME NEW g, NEW ms, NEW k \in Nat
    PROVE  \E f : IsTransaction(f, g, ms, k)
<1> DEFINE S == {n \in Nat : ~\E f : IsTransaction(f, g, ms, n)}
           start == [rows |-> g, verdict |-> "success"]
<1>1. 0 \notin S
  <2>1. IsTransaction([n \in 0 .. 0 |-> start], g, ms, 0)
    BY DEF IsTransaction
  <2> QED
    BY <2>1
<1>2. ASSUME NEW n \in Nat, n \notin S
      PROVE  n + 1 \notin S
  <2>1. PICK f : IsTransaction(f, g, ms, n)
    BY <1>2
  <2> DEFINE e == [m \in 0 .. n + 1 |-> IF m = n + 1 THEN ApplyOne(f[n], ms[n + 1]) ELSE f[m]]
  <2>2. \A m \in 0 .. n : e[m] = f[m]
    OBVIOUS
  <2>3. e[n + 1] = ApplyOne(e[n], ms[n + 1])
    OBVIOUS
  <2>4. f[0] = start /\ \A m \in 1 .. n : f[m] = ApplyOne(f[m - 1], ms[m])
    BY <2>1 DEF IsTransaction
  <2>5. \A m \in 1 .. n : m - 1 \in 0 .. n
    OBVIOUS
  <2>6. ASSUME NEW m \in 0 .. n + 1
        PROVE  e[m] = IF m = 0 THEN start ELSE ApplyOne(e[m - 1], ms[m])
    <3> HIDE DEF e, start
    <3>1. CASE m = 0
      BY <3>1, <2>2, <2>4
    <3>2. CASE m = n + 1
      BY <3>2, <2>3
    <3>3. CASE m \in 1 .. n
      BY <3>3, <2>2, <2>4, <2>5
    <3> QED
      BY <3>1, <3>2, <3>3
  <2>7. e = [m \in 0 .. n + 1 |-> e[m]]
    OBVIOUS
  <2>8. IsTransaction(e, g, ms, n + 1)
    <3> HIDE DEF e
    <3> QED
      BY <2>6, <2>7 DEF IsTransaction
  <2> QED
    BY <2>8
<1> HIDE DEF S
<1>3. S = {}
  BY <1>1, <1>2, LeastFailure DEF S
<1> QED
  BY <1>3 DEF S

LEMMA ApplyAllIsTransaction ==
    ASSUME NEW g, NEW ms, Len(ms) \in Nat
    PROVE  \E f : IsTransaction(f, g, ms, Len(ms)) /\ ApplyAll(g, ms) = f[Len(ms)]
<1> DEFINE after == CHOOSE f : IsTransaction(f, g, ms, Len(ms))
<1>1. IsTransaction(after, g, ms, Len(ms))
  BY TransactionExists
<1>2. ApplyAll(g, ms) = after[Len(ms)]
  BY DEF ApplyAll, IsTransaction
<1> QED
  BY <1>1, <1>2

\* The row an upsert writes: new rows start from 1, or from the version that
\* was supplied, and a stored row is followed by a later version of it.
LEMMA UpsertedRowIs ==
    ASSUME NEW g, Counted(g), NEW m \in Mutation, m.data # BadData
    PROVE  /\ UpsertedRow(g, m).data = m.data
           /\ UpsertedRow(g, m).version >= 1
           /\ g[m.id] # NoRow => UpsertedRow(g, m).version > g[m.id].version
           /\ m.id \in EntIDs => UpsertedRow(g, m) \in EntRow
           /\ m.id \in RelIDs => UpsertedRow(g, m) \in RelRow
<1>1. PICK v \in Nat : m.version = v
  BY DEF Mutation, EntityMutation, RelationshipMutation
<1>2. m.id \in IDs /\ m.data \in Data
  BY DEF Mutation, EntityMutation, RelationshipMutation, IDs
<1>3. g[m.id] # NoRow => g[m.id].version \in Int /\ g[m.id].version >= 1
  BY <1>2 DEF Counted, IsGraph, Row, EntRow, RelRow
<1>4. /\ NextVersion(g, m) \in Int /\ NextVersion(g, m) >= 1
      /\ g[m.id] # NoRow => NextVersion(g, m) > g[m.id].version
  BY <1>1, <1>3 DEF NextVersion
<1>5. PICK w \in Int : w = NextVersion(g, m)
  BY <1>4
<1>6. CASE m.id \in RelIDs
  <2>1. m \in RelationshipMutation /\ m.id \notin EntIDs
    BY <1>6, RowsAssumption DEF Mutation, EntityMutation
  <2>2. m.from \in EntIDs /\ m.to \in EntIDs
    BY <2>1 DEF RelationshipMutation
  <2>3. UpsertedRow(g, m) = [version |-> w, active |-> TRUE, data |-> m.data,
                             from |-> m.from, to |-> m.to]
    BY <1>5, <1>6 DEF UpsertedRow, RelationshipUpsertRow
  <2>4. UpsertedRow(g, m) \in RelRow
    BY <1>2, <2>2, <2>3 DEF RelRow
  <2> QED
    BY <1>4, <1>5, <2>1, <2>3, <2>4
<1>7. CASE m.id \notin RelIDs
  <2>1. UpsertedRow(g, m) = [version |-> w, active |-> TRUE, data |-> m.data]
    BY <1>5, <1>7 DEF UpsertedRow, EntityUpsertRow
  <2>2. UpsertedRow(g, m) \in EntRow
    BY <1>2, <2>1 DEF EntRow
  <2> QED
    BY <1>4, <1>5, <1>7, <2>1, <2>2
<1> QED
  BY <1>6, <1>7

Verdicts == {"success", "invalid", "unknown", "conflict"}

\* What the first k mutations have made of g: only rows that they name have
\* changed, each to a later version of it, and in the absence of a conflict;
\* and as long as all is well every one of them is there.
Then(g, ms, k, s) ==
    /\ s \in [rows : [IDs -> Row \cup {NoRow}], verdict : Verdicts]
    /\ Counted(s.rows)
    /\ Advances(g, s.rows)
    /\ \A id \in IDs : (\A j \in 1 .. k : ms[j].id # id) => s.rows[id] = g[id]
    /\ \A id \in IDs : s.rows[id] # g[id] =>
          \E j \in 1 .. k : ms[j].id = id /\ ~VersionConflict(g, ms[j])
    /\ s.verdict = "success" =>
          \A j \in 1 .. k : /\ s.rows[ms[j].id] # NoRow
                            /\ s.rows[ms[j].id].data = ms[j].data

\* A refusal is of one of the mutations, after those before it.
Refused(g, ms, k, s) ==
    s.verdict # "success" =>
        \E j \in 1 .. k : \E t :
            /\ Then(g, ms, j - 1, t) /\ t.verdict = "success"
            /\ Verdict(t.rows, ms[j]) = s.verdict

LEMMA ThenGoesOn ==
    ASSUME NEW g, Counted(g), NEW ms, Disjoint(ms), Len(ms) \in Nat,
           NEW k \in 1 .. Len(ms), NEW s, Then(g, ms, k - 1, s)
    PROVE  Then(g, ms, k, ApplyOne(s, ms[k]))
<1> DEFINE m == ms[k]
           row == UpsertedRow(s.rows, m)
           t == ApplyOne(s, m)
<1>1. m \in Mutation /\ k \in Nat /\ k - 1 \in Nat
  BY DEF Disjoint
<1>2. m.id \in IDs
  BY <1>1 DEF Mutation, EntityMutation, RelationshipMutation, IDs
<1>3. \A j \in 1 .. k : j \in 1 .. k - 1 \/ j = k
  BY <1>1
<1>4. \A j \in 1 .. k - 1 : j \in 1 .. k /\ j \in 1 .. Len(ms) /\ j # k
  BY <1>1
<1>5. s.rows[m.id] = g[m.id]
  <2>1. \A j \in 1 .. k - 1 : ms[j].id # m.id
    BY <1>4 DEF Disjoint
  <2> QED
    BY <1>2, <2>1 DEF Then
<1>6. s \in [rows : [IDs -> Row \cup {NoRow}], verdict : Verdicts] /\ Counted(s.rows)
  BY DEF Then
<1>7. Verdict(s.rows, m) \in Verdicts
  BY DEF Verdict, Verdicts
<1>8. CASE s.verdict # "success" \/ Verdict(s.rows, m) # "success"
  <2>1. PICK v \in Verdicts \ {"success"} : t = [s EXCEPT !.verdict = v]
    BY <1>6, <1>7, <1>8 DEF ApplyOne
  <2>2. /\ t \in [rows : [IDs -> Row \cup {NoRow}], verdict : Verdicts]
        /\ t.rows = s.rows /\ t.verdict # "success"
    BY <1>6, <2>1
  <2> HIDE DEF t, m
  <2> QED
    BY <1>4, <2>2 DEF Then, t, m
<1>9. CASE s.verdict = "success" /\ Verdict(s.rows, m) = "success"
  <2>1. m.data # BadData /\ ~VersionConflict(s.rows, m)
    BY <1>9 DEF Verdict
  <2>2. ~VersionConflict(g, m)
    BY <1>5, <2>1 DEF VersionConflict
  <2>3. /\ row.data = m.data /\ row.version >= 1
        /\ s.rows[m.id] # NoRow => row.version > s.rows[m.id].version
        /\ m.id \in EntIDs => row \in EntRow
        /\ m.id \in RelIDs => row \in RelRow
    BY <1>1, <1>6, <2>1, UpsertedRowIs
  <2>4. row \in Row /\ row # NoRow
    BY <1>2, <2>3, RowsAssumption DEF IDs, Row
  <2>5. CASE NoChange(s.rows, m.id, row)
    <3>1. t = s
      BY <1>9, <2>5 DEF ApplyOne
    <3>2. s.rows[m.id] # NoRow /\ s.rows[m.id].data = m.data
      <4>1. PICK e : e = [row EXCEPT !.version = s.rows[m.id].version]
        OBVIOUS
      <4>2. e.data = row.data
        BY <2>4, <4>1 DEF Row, EntRow, RelRow
      <4>3. e = s.rows[m.id] /\ s.rows[m.id] # NoRow
        BY <2>5, <4>1 DEF NoChange
      <4> QED
        BY <2>3, <4>2, <4>3
    <3>3. \A j \in 1 .. k - 1 : s.rows[ms[j].id] # NoRow /\ s.rows[ms[j].id].data = ms[j].data
      BY <1>9 DEF Then
    <3>4. \A j \in 1 .. k : s.rows[ms[j].id] # NoRow /\ s.rows[ms[j].id].data = ms[j].data
      BY <1>3, <3>2, <3>3
    <3>5. /\ Advances(g, s.rows)
          /\ \A id \in IDs : (\A j \in 1 .. k - 1 : ms[j].id # id) => s.rows[id] = g[id]
          /\ \A id \in IDs : s.rows[id] # g[id] =>
                \E j \in 1 .. k - 1 : ms[j].id = id /\ ~VersionConflict(g, ms[j])
      BY DEF Then
    <3> HIDE DEF row
    <3>6. Then(g, ms, k, s)
      BY <1>4, <1>6, <3>4, <3>5 DEF Then
    <3> QED
      BY <3>1, <3>6
  <2>6. CASE ~NoChange(s.rows, m.id, row)
    <3>1. t = [s EXCEPT !.rows[m.id] = row]
      BY <1>9, <2>6 DEF ApplyOne
    <3> HIDE DEF t, row
    <3>2. /\ t.rows[m.id] = row
          /\ \A id \in IDs : id # m.id => t.rows[id] = s.rows[id]
          /\ t.verdict = s.verdict
          /\ t \in [rows : [IDs -> Row \cup {NoRow}], verdict : Verdicts]
      <4>1. PICK r \in [IDs -> Row \cup {NoRow}] : r = [s.rows EXCEPT ![m.id] = row]
        BY <1>2, <1>6, <2>4
      <4>2. t = [s EXCEPT !.rows = r]
        BY <3>1, <4>1
      <4>3. t.rows = r /\ t.verdict = s.verdict
            /\ t \in [rows : [IDs -> Row \cup {NoRow}], verdict : Verdicts]
        BY <1>6, <4>2
      <4> QED
        BY <1>2, <1>6, <4>1, <4>3
    <3> HIDE DEF m
    <3>3. Counted(t.rows)
      <4>1. IsGraph(t.rows)
        BY <1>6, <2>3, <3>2 DEF Counted, IsGraph, IDs
      <4> QED
        BY <1>6, <2>3, <3>2, <4>1 DEF Counted
    <3>4. Advances(g, t.rows)
      BY <1>5, <2>3, <2>4, <3>2 DEF Advances, Then
    <3>5. \A id \in IDs : (\A j \in 1 .. k : ms[j].id # id) => t.rows[id] = g[id]
      <4> SUFFICES ASSUME NEW id \in IDs, \A j \in 1 .. k : ms[j].id # id
                   PROVE  t.rows[id] = g[id]
        OBVIOUS
      <4>1. id # m.id
        BY DEF m
      <4>2. s.rows[id] = g[id]
        BY <1>4 DEF Then
      <4> QED
        BY <3>2, <4>1, <4>2
    <3>6. \A id \in IDs : t.rows[id] # g[id] =>
              \E j \in 1 .. k : ms[j].id = id /\ ~VersionConflict(g, ms[j])
      <4> SUFFICES ASSUME NEW id \in IDs, t.rows[id] # g[id]
                   PROVE  \E j \in 1 .. k : ms[j].id = id /\ ~VersionConflict(g, ms[j])
        OBVIOUS
      <4>1. CASE id = m.id
        BY <1>1, <2>2, <4>1 DEF m
      <4>2. CASE id # m.id
        <5>1. s.rows[id] # g[id]
          BY <3>2, <4>2
        <5> QED
          BY <1>4, <5>1 DEF Then
      <4> QED
        BY <4>1, <4>2
    <3>7. \A j \in 1 .. k : t.rows[ms[j].id] # NoRow /\ t.rows[ms[j].id].data = ms[j].data
      <4> SUFFICES ASSUME NEW j \in 1 .. k
                   PROVE  t.rows[ms[j].id] # NoRow /\ t.rows[ms[j].id].data = ms[j].data
        OBVIOUS
      <4>1. CASE j = k
        BY <2>3, <2>4, <3>2, <4>1 DEF m
      <4>2. CASE j # k
        <5>1. j \in 1 .. k - 1
          BY <1>3, <4>2
        <5>2. ms[j].id # m.id /\ ms[j] \in Mutation
          BY <1>4, <5>1 DEF Disjoint, m
        <5>3. ms[j].id \in IDs
          BY <5>2 DEF Mutation, EntityMutation, RelationshipMutation, IDs
        <5>4. s.rows[ms[j].id] # NoRow /\ s.rows[ms[j].id].data = ms[j].data
          BY <1>9, <5>1 DEF Then
        <5> QED
          BY <3>2, <5>2, <5>3, <5>4
      <4> QED
        BY <4>1, <4>2
    <3>8. Then(g, ms, k, t)
      BY <3>2, <3>3, <3>4, <3>5, <3>6, <3>7 DEF Then
    <3> QED
      BY <3>8 DEF t, m
  <2> QED
    BY <2>5, <2>6
<1> QED
  BY <1>8, <1>9

LEMMA RefusedGoesOn ==
    ASSUME NEW g, NEW ms, NEW k \in Nat \ {0}, NEW s,
           Then(g, ms, k - 1, s), Refused(g, ms, k - 1, s)
    PROVE  Refused(g, ms, k, ApplyOne(s, ms[k]))
<1> DEFINE t == ApplyOne(s, ms[k])
<1>1. \A j \in 1 .. k - 1 : j \in 1 .. k
  OBVIOUS
<1>2. s \in [rows : [IDs -> Row \cup {NoRow}], verdict : Verdicts]
  BY DEF Then
<1>3. CASE s.verdict # "success"
  <2>1. t = s
    BY <1>2, <1>3 DEF ApplyOne
  <2>2. PICK j \in 1 .. k - 1 : \E u :
            /\ Then(g, ms, j - 1, u) /\ u.verdict = "success"
            /\ Verdict(u.rows, ms[j]) = s.verdict
    BY <1>3 DEF Refused
  <2> HIDE DEF t
  <2>3. Refused(g, ms, k, t)
    BY <1>1, <2>1, <2>2 DEF Refused
  <2> QED
    BY <2>3 DEF t
<1>4. CASE s.verdict = "success" /\ Verdict(s.rows, ms[k]) # "success"
  <2>1. t = [s EXCEPT !.verdict = Verdict(s.rows, ms[k])]
    BY <1>4 DEF ApplyOne
  <2>2. t.verdict = Verdict(s.rows, ms[k])
    BY <1>2, <2>1
  <2> HIDE DEF t
  <2>3. Refused(g, ms, k, t)
    BY <1>4, <2>2 DEF Refused
  <2> QED
    BY <2>3 DEF t
<1>5. CASE s.verdict = "success" /\ Verdict(s.rows, ms[k]) = "success"
  <2>1. t.verdict = "success"
    BY <1>2, <1>5 DEF ApplyOne
  <2> HIDE DEF t
  <2>2. Refused(g, ms, k, t)
    BY <2>1 DEF Refused
  <2> QED
    BY <2>2 DEF t
<1> QED
  BY <1>3, <1>4, <1>5

\* What a whole transaction makes of the rows.
LEMMA ApplyAllIs ==
    ASSUME NEW g, Counted(g), NEW ms, Disjoint(ms)
    PROVE  /\ Then(g, ms, Len(ms), ApplyAll(g, ms))
           /\ Refused(g, ms, Len(ms), ApplyAll(g, ms))
<1>1. Len(ms) \in Nat
  BY DEF Disjoint
<1>2. PICK f : IsTransaction(f, g, ms, Len(ms)) /\ ApplyAll(g, ms) = f[Len(ms)]
  BY <1>1, ApplyAllIsTransaction
<1>3. /\ f[0] = [rows |-> g, verdict |-> "success"]
      /\ \A n \in 1 .. Len(ms) : f[n] = ApplyOne(f[n - 1], ms[n])
  BY <1>1, <1>2 DEF IsTransaction
<1> DEFINE S == {n \in Nat : n <= Len(ms) /\ ~(Then(g, ms, n, f[n]) /\ Refused(g, ms, n, f[n]))}
<1>4. 0 \notin S
  <2>1. f[0].rows = g /\ f[0].verdict = "success"
    BY <1>3
  <2>2. f[0] \in [rows : [IDs -> Row \cup {NoRow}], verdict : Verdicts]
    BY <1>3 DEF Verdicts, Counted, IsGraph
  <2>3. Advances(g, g)
    BY DEF Advances
  <2>4. Then(g, ms, 0, f[0])
    BY <2>1, <2>2, <2>3 DEF Then
  <2>5. Refused(g, ms, 0, f[0])
    BY <2>1 DEF Refused
  <2> QED
    BY <2>4, <2>5
<1>5. ASSUME NEW n \in Nat, n \notin S
      PROVE  n + 1 \notin S
  <2>1. SUFFICES ASSUME n + 1 <= Len(ms)
                 PROVE  Then(g, ms, n + 1, f[n + 1]) /\ Refused(g, ms, n + 1, f[n + 1])
    OBVIOUS
  <2>2. Then(g, ms, n, f[n]) /\ Refused(g, ms, n, f[n])
    BY <1>1, <1>5, <2>1
  <2>3. PICK k \in 1 .. Len(ms) : k = n + 1 /\ k - 1 = n /\ k \in Nat \ {0}
    BY <1>1, <2>1
  <2>4. f[k] = ApplyOne(f[k - 1], ms[k])
    BY <1>3
  <2>5. Then(g, ms, k - 1, f[k - 1]) /\ Refused(g, ms, k - 1, f[k - 1])
    BY <2>2, <2>3
  <2>6. Then(g, ms, k, ApplyOne(f[k - 1], ms[k]))
    BY <1>1, <2>5, ThenGoesOn
  <2>7. Refused(g, ms, k, ApplyOne(f[k - 1], ms[k]))
    BY <2>3, <2>5, RefusedGoesOn
  <2> QED
    BY <2>3, <2>4, <2>6, <2>7
<1>6. Len(ms) \notin S
  <2> HIDE DEF S
  <2>1. S \subseteq Nat
    BY DEF S
  <2>2. S = {}
    BY <1>4, <1>5, <2>1, LeastFailure
  <2> QED
    BY <2>2
<1> QED
  BY <1>1, <1>2, <1>6

-----------------------------------------------------------------------------
(* The delta of one batch. *)

LEMMA BatchIs ==
    ASSUME NEW b \in Batches
    PROVE  /\ b.ids \in Seq(EntIDs) /\ Len(b.ids) > 0
           /\ b.relationships \subseteq EntIDs \X EntIDs
           /\ b.data \in Data /\ b.data # BadData
BY PipelineAssumption, RowsAssumption DEF Batch

\* What a handler's state looks like.
LEMMA PipeIs ==
    ASSUME pipe \in [Handlers -> PipeState], NEW h \in Handlers
    PROVE  /\ pipe[h].at \in Steps \cup Answered \cup {"idle"}
           /\ pipe[h].todo \in Seq(EntIDs)
           /\ pipe[h].idMap \in Partial(EntIDs, EntIDs)
           /\ DOMAIN pipe[h].idMap \subseteq EntIDs
           /\ \A i \in DOMAIN pipe[h].idMap : pipe[h].idMap[i] \in EntIDs
           /\ pipe[h].checked \subseteq RelIDs
           /\ pipe[h].accepted \subseteq RelIDs
           /\ pipe[h].listed \in Partial(IDs, Row)
           /\ DOMAIN pipe[h].listed \subseteq IDs
           /\ \A i \in DOMAIN pipe[h].listed : pipe[h].listed[i] \in Row
<1>1. pipe[h] \in PipeState
  OBVIOUS
<1>2. /\ pipe[h].at \in Steps \cup Answered \cup {"idle"}
      /\ pipe[h].todo \in Seq(EntIDs)
      /\ pipe[h].idMap \in Partial(EntIDs, EntIDs)
      /\ pipe[h].checked \subseteq RelIDs
      /\ pipe[h].accepted \subseteq RelIDs
      /\ pipe[h].listed \in Partial(IDs, Row)
  BY <1>1 DEF PipeState
<1> QED
  BY <1>2, PartialIs

\* The batch's entities are finitely many, and registered.
LEMMA ValidIs ==
    ASSUME IInv, NEW h \in Handlers
    PROVE  /\ Valid(h) \subseteq EntIDs /\ IsFiniteSet(Valid(h))
           /\ \A id \in Valid(h) : Known(id)
<1> DEFINE f == pipe[h].idMap
<1>1. IsFiniteSet(DOMAIN f) /\ \A i \in DOMAIN f : Known(f[i])
  BY DEF IInv, Sound
<1>2. IsFiniteSet({f[i] : i \in DOMAIN f})
  BY <1>1, FiniteImage
<1>3. Valid(h) \in SUBSET {f[i] : i \in DOMAIN f}
  BY DEF Valid
<1>4. IsFiniteSet(Valid(h))
  <2> HIDE DEF f
  <2> QED
    BY <1>2, <1>3, FS_Subset
<1>5. Valid(h) \subseteq EntIDs
  BY <1>3, PipeIs DEF IInv
<1> QED
  BY <1>1, <1>3, <1>4, <1>5

LEMMA BaseVersionIs ==
    ASSUME IInv, NEW h \in Handlers, NEW id
    PROVE  /\ BaseVersion(h, id) \in Nat
           /\ BaseVersion(h, id) # 0 =>
                 id \in DOMAIN pipe[h].listed /\ BaseVersion(h, id) = pipe[h].listed[id].version
           /\ id \in DOMAIN pipe[h].listed =>
                 BaseVersion(h, id) = pipe[h].listed[id].version /\ BaseVersion(h, id) # 0
<1>1. CASE id \in DOMAIN pipe[h].listed
  <2>1. pipe[h].listed[id].version >= 1
    BY <1>1 DEF IInv, Sound, Fresh
  <2>2. pipe[h].listed[id] \in Row
    BY <1>1, PipeIs DEF IInv
  <2>3. pipe[h].listed[id].version \in Int
    BY <2>2 DEF Row, EntRow, RelRow
  <2>4. BaseVersion(h, id) = pipe[h].listed[id].version
    BY <1>1 DEF BaseVersion, Listed
  <2> QED
    BY <1>1, <2>1, <2>3, <2>4
<1>2. CASE id \notin DOMAIN pipe[h].listed
  BY <1>2 DEF BaseVersion, Listed
<1> QED
  BY <1>1, <1>2

\* The two parts of the delta: what each mutation of an entity, and of a
\* relationship, says.
LEMMA EntityMutationsAre ==
    ASSUME IInv, NEW h \in Handlers, pipe[h].at \in Steps
    PROVE  /\ IsFiniteSet(EntityMutations(h))
           /\ EntityMutations(h) \subseteq EntityMutation
           /\ \A m \in EntityMutations(h) :
                 /\ m.id \in Valid(h) /\ Differs(h, m.id)
                 /\ m.version = BaseVersion(h, m.id)
                 /\ m.data = IF NameOf[m.id] = Long THEN BadData ELSE pipe[h].batch.data
           /\ \A m, n \in EntityMutations(h) : m.id = n.id => m = n
           /\ \A id \in Valid(h) : Differs(h, id) => \E m \in EntityMutations(h) : m.id = id
<1> DEFINE A == {id \in Valid(h) : Differs(h, id)}
           mutation(id) == [id |-> id, version |-> BaseVersion(h, id),
                 data |-> IF NameOf[id] = Long THEN BadData ELSE pipe[h].batch.data]
           f == [id \in A |-> mutation(id)]
<1>1. EntityMutations(h) = {mutation(id) : id \in A}
  BY DEF EntityMutations
<1>2. IsFiniteSet(EntityMutations(h))
  <2>1. A \in SUBSET Valid(h)
    OBVIOUS
  <2>2. IsFiniteSet(DOMAIN f)
    BY <2>1, ValidIs, FS_Subset
  <2>3. IsFiniteSet({f[id] : id \in DOMAIN f})
    BY <2>2, FiniteImage
  <2>4. {f[id] : id \in DOMAIN f} = {mutation(id) : id \in A}
    OBVIOUS
  <2> QED
    BY <1>1, <2>3, <2>4
<1>3. \A id \in A : mutation(id) \in EntityMutation
  <2> SUFFICES ASSUME NEW id \in A PROVE mutation(id) \in EntityMutation
    OBVIOUS
  <2>1. id \in EntIDs
    BY ValidIs
  <2>2. BaseVersion(h, id) \in Nat
    BY BaseVersionIs
  <2>3. pipe[h].batch.data \in Data
    BY BatchIs DEF IInv, Sound
  <2>4. (IF NameOf[id] = Long THEN BadData ELSE pipe[h].batch.data) \in Data \cup {BadData}
    BY <2>3
  <2> QED
    BY <2>1, <2>2, <2>4 DEF EntityMutation
<1>4. \A id \in A : /\ mutation(id).id = id
                    /\ mutation(id).version = BaseVersion(h, id)
                    /\ mutation(id).data = IF NameOf[id] = Long THEN BadData ELSE pipe[h].batch.data
  OBVIOUS
<1>5. \A id \in A : id \in Valid(h) /\ Differs(h, id)
  OBVIOUS
<1>6. \A id \in Valid(h) : Differs(h, id) => id \in A
  OBVIOUS
<1> HIDE DEF A, mutation
<1> QED
  BY <1>1, <1>2, <1>3, <1>4, <1>5, <1>6

LEMMA RelationshipMutationsAre ==
    ASSUME IInv, NEW h \in Handlers, pipe[h].at \in Steps
    PROVE  /\ IsFiniteSet(RelationshipMutations(h))
           /\ RelationshipMutations(h) \subseteq RelationshipMutation
           /\ \A m \in RelationshipMutations(h) :
                 /\ m.id \in pipe[h].accepted /\ Differs(h, m.id)
                 /\ m.version = BaseVersion(h, m.id)
                 /\ m.data = pipe[h].batch.data
                 /\ m.from = m.id[1] /\ m.to = m.id[2]
           /\ \A m, n \in RelationshipMutations(h) : m.id = n.id => m = n
           /\ \A r \in pipe[h].accepted :
                 Differs(h, r) => \E m \in RelationshipMutations(h) : m.id = r
<1> DEFINE A == {r \in pipe[h].accepted : Differs(h, r)}
           mutation(r) == [id |-> r, version |-> BaseVersion(h, r),
                           data |-> pipe[h].batch.data, from |-> r[1], to |-> r[2]]
           f == [r \in A |-> mutation(r)]
<1>1. RelationshipMutations(h) = {mutation(r) : r \in A}
  BY DEF RelationshipMutations
<1>2. IsFiniteSet(RelationshipMutations(h))
  <2>1. A \in SUBSET pipe[h].accepted /\ IsFiniteSet(pipe[h].accepted)
    BY DEF IInv, Sound
  <2>2. IsFiniteSet(DOMAIN f)
    BY <2>1, FS_Subset
  <2>3. IsFiniteSet({f[r] : r \in DOMAIN f})
    BY <2>2, FiniteImage
  <2>4. {f[r] : r \in DOMAIN f} = {mutation(r) : r \in A}
    OBVIOUS
  <2> QED
    BY <1>1, <2>3, <2>4
<1>3. \A r \in A : mutation(r) \in RelationshipMutation
  <2> SUFFICES ASSUME NEW r \in A PROVE mutation(r) \in RelationshipMutation
    OBVIOUS
  <2>1. r \in RelIDs
    BY PipeIs DEF IInv
  <2>2. r[1] \in EntIDs /\ r[2] \in EntIDs
    BY <2>1, PipelineAssumption
  <2>3. BaseVersion(h, r) \in Nat
    BY BaseVersionIs
  <2>4. pipe[h].batch.data \in Data \cup {BadData}
    BY BatchIs DEF IInv, Sound
  <2> QED
    BY <2>1, <2>2, <2>3, <2>4 DEF RelationshipMutation
<1>4. \A r \in A : /\ mutation(r).id = r
                   /\ mutation(r).version = BaseVersion(h, r)
                   /\ mutation(r).data = pipe[h].batch.data
                   /\ mutation(r).from = r[1] /\ mutation(r).to = r[2]
  OBVIOUS
<1>5. \A r \in A : r \in pipe[h].accepted /\ Differs(h, r)
  OBVIOUS
<1>6. \A r \in pipe[h].accepted : Differs(h, r) => r \in A
  OBVIOUS
<1> HIDE DEF A, mutation
<1> QED
  BY <1>1, <1>2, <1>3, <1>4, <1>5, <1>6

\* The mutations are those two, entities first, and each of a row of its own.
LEMMA MutationsAre ==
    ASSUME IInv, NEW h \in Handlers, pipe[h].at \in Steps
    PROVE  /\ Disjoint(Mutations(h))
           /\ \A n \in 1 .. Len(Mutations(h)) :
                 \/ Mutations(h)[n] \in EntityMutations(h)
                 \/ /\ Mutations(h)[n] \in RelationshipMutations(h)
                    /\ \A m \in EntityMutations(h) :
                          \E i \in 1 .. n - 1 : Mutations(h)[i] = m
           /\ \A m \in EntityMutations(h) \cup RelationshipMutations(h) :
                 \E n \in 1 .. Len(Mutations(h)) : Mutations(h)[n] = m
<1> DEFINE E == EntityMutations(h)
           R == RelationshipMutations(h)
           p == SetToSeq(E)
           q == SetToSeq(R)
           ms == Mutations(h)
<1>1. ms = p \o q
  BY DEF Mutations
<1>2. /\ p \in Seq(E)
      /\ \A x \in E : \E n \in 1 .. Len(p) : p[n] = x
      /\ \A m, n \in 1 .. Len(p) : p[m] = p[n] => m = n
  BY EntityMutationsAre, SetToSeqLists
<1>3. /\ q \in Seq(R)
      /\ \A x \in R : \E n \in 1 .. Len(q) : q[n] = x
      /\ \A m, n \in 1 .. Len(q) : q[m] = q[n] => m = n
  BY RelationshipMutationsAre, SetToSeqLists
<1>4. /\ E \subseteq EntityMutation /\ R \subseteq RelationshipMutation
      /\ \A m, n \in E : m.id = n.id => m = n
      /\ \A m, n \in R : m.id = n.id => m = n
  BY EntityMutationsAre, RelationshipMutationsAre
<1>5. \A m \in E : \A n \in R : m.id # n.id
  BY <1>4, RowsAssumption DEF EntityMutation, RelationshipMutation
<1> HIDE DEF p, q, E, R, ms
<1>6. PICK a \in Nat, b \in Nat : a = Len(p) /\ b = Len(q)
  BY <1>2, <1>3
<1>7. Len(ms) = a + b
  BY <1>1, <1>2, <1>3, <1>6
<1>8. \A n \in 1 .. a : p[n] \in E /\ ms[n] = p[n]
  BY <1>1, <1>2, <1>3, <1>6
<1>9. \A n \in 1 .. b : q[n] \in R /\ ms[a + n] = q[n]
  BY <1>1, <1>2, <1>3, <1>6
<1>10. \A n \in 1 .. a + b : n \in 1 .. a \/ \E k \in 1 .. b : n = a + k
  <2> SUFFICES ASSUME NEW n \in 1 .. a + b, n \notin 1 .. a
               PROVE  \E k \in 1 .. b : n = a + k
    OBVIOUS
  <2>1. n - a \in 1 .. b /\ n = a + (n - a)
    OBVIOUS
  <2> QED
    BY <2>1
<1>11. ms \in Seq(Mutation)
  <2>1. p \in Seq(Mutation) /\ q \in Seq(Mutation)
    BY <1>2, <1>3, <1>4 DEF Mutation
  <2> QED
    BY <1>1, <2>1
<1>12. ASSUME NEW m \in 1 .. a + b, NEW n \in 1 .. a + b, ms[m].id = ms[n].id
       PROVE  m = n
  <2>1. CASE m \in 1 .. a /\ n \in 1 .. a
    BY <1>2, <1>4, <1>6, <1>8, <1>12, <2>1
  <2>2. CASE m \in 1 .. a /\ n \notin 1 .. a
    BY <1>5, <1>8, <1>9, <1>10, <1>12, <2>2
  <2>3. CASE m \notin 1 .. a /\ n \in 1 .. a
    BY <1>5, <1>8, <1>9, <1>10, <1>12, <2>3
  <2>4. CASE m \notin 1 .. a /\ n \notin 1 .. a
    <3>1. PICK k \in 1 .. b, l \in 1 .. b : m = a + k /\ n = a + l
      BY <1>10, <2>4
    <3>2. q[k] = q[l]
      BY <1>4, <1>9, <1>12, <3>1
    <3> QED
      BY <1>3, <1>6, <3>1, <3>2
  <2> QED
    BY <2>1, <2>2, <2>3, <2>4
<1>13. Disjoint(ms)
  BY <1>7, <1>11, <1>12 DEF Disjoint
<1>14. ASSUME NEW n \in 1 .. a + b
       PROVE  \/ ms[n] \in E
              \/ ms[n] \in R /\ \A m \in E : \E i \in 1 .. n - 1 : ms[i] = m
  <2>1. CASE n \in 1 .. a
    BY <1>8, <2>1
  <2>2. CASE n \notin 1 .. a
    <3>1. PICK k \in 1 .. b : n = a + k
      BY <1>10, <2>2
    <3>2. \A i \in 1 .. a : i \in 1 .. n - 1
      BY <3>1
    <3>3. \A m \in E : \E i \in 1 .. a : ms[i] = m
      BY <1>2, <1>6, <1>8
    <3> QED
      BY <1>9, <3>1, <3>2, <3>3
  <2> QED
    BY <2>1, <2>2
<1>15. ASSUME NEW m \in E \cup R
       PROVE  \E n \in 1 .. a + b : ms[n] = m
  <2>1. CASE m \in E
    BY <1>2, <1>6, <1>8, <2>1
  <2>2. CASE m \in R
    <3>1. PICK k \in 1 .. b : q[k] = m
      BY <1>3, <1>6, <2>2
    <3>2. a + k \in 1 .. a + b
      OBVIOUS
    <3> QED
      BY <1>9, <3>1, <3>2
  <2> QED
    BY <2>1, <2>2
<1> QED
  BY <1>7, <1>13, <1>14, <1>15 DEF E, R, ms

-----------------------------------------------------------------------------
(* The inductive invariant. *)

\* A row that was one of g's, or is older, is none that comes later.
LEMMA RowStaysFresh ==
    ASSUME NEW g, NEW g2, Counted(g), Counted(g2), Advances(g, g2),
           NEW id \in IDs, NEW row \in Row, g[id] # NoRow,
           row = g[id] \/ row.version < g[id].version
    PROVE  g2[id] # NoRow /\ (row = g2[id] \/ row.version < g2[id].version)
<1>1. g2[id] # NoRow /\ (g2[id] = g[id] \/ g2[id].version > g[id].version)
  BY DEF Advances
<1>2. g[id] \in Row /\ g2[id] \in Row
  BY <1>1 DEF Counted, IsGraph
<1>3. PICK u \in Int : u = row.version
  BY DEF Row, EntRow, RelRow
<1>4. PICK v \in Int : v = g[id].version
  BY <1>2 DEF Row, EntRow, RelRow
<1>5. PICK w \in Int : w = g2[id].version
  BY <1>2 DEF Row, EntRow, RelRow
<1> QED
  BY <1>1, <1>3, <1>4, <1>5

\* What rows and the registry keep of the past is enough for the handlers that
\* a step does not move.
LEMMA SoundStays ==
    ASSUME IInv, NEW h \in Handlers, pipe'[h] = pipe[h], Advances(graph, graph'),
           Counted(graph'), \A id \in EntIDs : Known(id) => Known(id)'
    PROVE  Sound(h)'
<1>1. Sound(h)
  BY DEF IInv
<1>2. \A id \in DOMAIN pipe[h].idMap : pipe[h].idMap[id] \in EntIDs
  BY PipeIs DEF IInv
<1>3. \A r \in pipe[h].accepted : r[1] \in EntIDs /\ r[2] \in EntIDs
  BY PipeIs, PipelineAssumption DEF IInv
<1>4. Fresh(h)'
  <2> SUFFICES ASSUME NEW id \in DOMAIN pipe[h].listed
               PROVE  /\ graph'[id] # NoRow
                      /\ pipe[h].listed[id].version >= 1
                      /\ \/ pipe[h].listed[id] = graph'[id]
                         \/ pipe[h].listed[id].version < graph'[id].version
    BY DEF Fresh
  <2>1. id \in IDs /\ pipe[h].listed[id] \in Row
    BY PipeIs DEF IInv
  <2>2. /\ graph[id] # NoRow
        /\ pipe[h].listed[id].version >= 1
        /\ \/ pipe[h].listed[id] = graph[id]
           \/ pipe[h].listed[id].version < graph[id].version
    BY <1>1 DEF Sound, Fresh
  <2>3. Counted(graph)
    BY DEF IInv
  <2> QED
    BY <2>1, <2>2, <2>3, RowStaysFresh
<1> QED
  BY <1>1, <1>2, <1>3, <1>4 DEF Sound

\* So a step of one handler has to be looked at for that handler only.
LEMMA HandlerStep ==
    ASSUME IInv, NEW h \in Handlers,
           pipe' \in [Handlers -> PipeState],
           \A k \in Handlers \ {h} : pipe'[k] = pipe[k],
           Registered', Counted(graph'), Advances(graph, graph'),
           received' \in Nat, deletes' \in Nat,
           \A id \in EntIDs : Known(id) => Known(id)',
           \A d \in EntIDs : graph'[d] # NoRow => Known(d)',
           Sound(h)'
    PROVE  IInv'
<1>1. \A k \in Handlers : Sound(k)'
  BY SoundStays
<1> QED
  BY <1>1 DEF IInv

\* A step that leaves registry and rows alone.
LEMMA QuietStep ==
    ASSUME IInv, NEW h \in Handlers, NEW new \in PipeState,
           pipe' = [pipe EXCEPT ![h] = new],
           UNCHANGED <<registry, graph, deletes>>, received' \in Nat,
           Sound(h)'
    PROVE  IInv'
<1>1. pipe \in [Handlers -> PipeState]
  BY DEF IInv
<1>2. pipe' \in [Handlers -> PipeState] /\ \A k \in Handlers \ {h} : pipe'[k] = pipe[k]
  BY <1>1
<1>3. Advances(graph, graph')
  BY DEF Advances
<1>4. \A id \in EntIDs : Known(id)' = Known(id)
  BY DEF Known
<1>5. Registered'
  BY DEF IInv, Registered
<1> QED
  BY <1>2, <1>3, <1>4, <1>5, HandlerStep DEF IInv

LEMMA NothingIs ==
    /\ DOMAIN Nothing = {} /\ IsFiniteSet({})
    /\ \A S, T : Nothing \in Partial(S, T)
<1>1. DOMAIN Nothing = {}
  BY DEF Nothing
<1>2. ASSUME NEW S, NEW T PROVE Nothing \in Partial(S, T)
  <2>1. Nothing \in [{} -> T] /\ {} \in SUBSET S
    BY DEF Nothing
  <2> QED
    BY <2>1, PartialIs
<1> QED
  BY <1>1, <1>2, FS_EmptySet

\* A handler without a batch, or with a new one, has found out nothing.
LEMMA IdleIs ==
    ASSUME NEW at \in Steps \cup Answered \cup {"idle"}, NEW batch \in Batches \cup {None},
           NEW todo \in Seq(EntIDs)
    PROVE  /\ [Idle EXCEPT !.at = at] \in PipeState
           /\ [Idle EXCEPT !.at = at, !.batch = batch, !.todo = todo] \in PipeState
<1>1. Idle \in PipeState
  BY NothingIs DEF Idle, PipeState
<1>2. PICK u : u = [Idle EXCEPT !.at = at]
  OBVIOUS
<1>3. PICK v : v = [Idle EXCEPT !.at = at, !.batch = batch, !.todo = todo]
  OBVIOUS
<1>4. u \in PipeState
  BY <1>1, <1>2 DEF PipeState
<1>5. v \in PipeState
  BY <1>1, <1>3 DEF PipeState
<1> QED
  BY <1>2, <1>3, <1>4, <1>5

LEMMA InitIInv == Init => IInv
<1> SUFFICES ASSUME Init PROVE IInv
  OBVIOUS
<1>1. /\ registry = [n \in Names |-> None]
      /\ graph = [id \in IDs |-> NoRow]
      /\ pipe = [h \in Handlers |-> Idle]
      /\ received = 0 /\ deletes = 0
  BY DEF Init, EmptyGraph
<1>2. Registered
  BY <1>1 DEF Registered
<1>3. Counted(graph)
  BY <1>1 DEF Counted, IsGraph, IDs
<1>4. Idle \in PipeState
  BY NothingIs DEF Idle, PipeState
<1>5. pipe \in [Handlers -> PipeState]
  BY <1>1, <1>4
<1>6. \A h \in Handlers : pipe[h] = Idle
  BY <1>1
<1>7. \A h \in Handlers : Sound(h)
  <2>1. /\ Idle.at = "idle" /\ Idle.todo = << >> /\ Idle.idMap = Nothing
        /\ Idle.accepted = {} /\ Idle.checked = {} /\ Idle.listed = Nothing
    BY DEF Idle
  <2> SUFFICES ASSUME NEW h \in Handlers PROVE Sound(h)
    OBVIOUS
  <2>2. Fresh(h)
    BY <1>6, <2>1, NothingIs DEF Fresh
  <2> QED
    BY <1>6, <2>1, <2>2, NothingIs DEF Sound, Steps
<1>8. \A d \in EntIDs : graph[d] = NoRow
  BY <1>1 DEF IDs
<1> QED
  BY <1>1, <1>2, <1>3, <1>5, <1>7, <1>8 DEF IInv

LEMMA ReceiveKeepsIInv == \A h \in Handlers : IInv /\ Receive(h) => IInv'
<1> SUFFICES ASSUME NEW h \in Handlers, IInv, Receive(h) PROVE IInv'
  OBVIOUS
<1>1. PICK b \in Batches :
        pipe' = [pipe EXCEPT ![h] = [Idle EXCEPT !.at = "byID", !.batch = b, !.todo = b.ids]]
  BY DEF Receive
<1>2. PICK new : new = [Idle EXCEPT !.at = "byID", !.batch = b, !.todo = b.ids]
  OBVIOUS
<1>3. b.ids \in Seq(EntIDs) /\ Len(b.ids) > 0
  BY BatchIs
<1>4. "byID" \in Steps \cup Answered \cup {"idle"}
  BY DEF Steps
<1>5. new \in PipeState
  BY <1>2, <1>3, <1>4, IdleIs
<1>6. /\ new.batch = b /\ new.todo = b.ids /\ new.idMap = Nothing
      /\ new.accepted = {} /\ new.checked = {} /\ new.listed = Nothing
  BY <1>2 DEF Idle
<1>7. pipe'[h] = new
  BY <1>1, <1>2 DEF IInv
<1>8. Sound(h)'
  BY <1>3, <1>6, <1>7, NothingIs DEF Sound, Fresh
<1>9. UNCHANGED <<registry, graph, deletes>> /\ received' \in Nat
  BY DEF Receive, IInv
<1>10. pipe' = [pipe EXCEPT ![h] = new]
  BY <1>1, <1>2
<1> QED
  BY <1>5, <1>8, <1>9, <1>10, QuietStep

\* A failure is an answer, and the end of what was found out.
LEMMA FailIs ==
    ASSUME IInv, NEW h \in Handlers, NEW reason \in Answered, Fail(h, reason)
    PROVE  /\ pipe' = [pipe EXCEPT ![h] = [Idle EXCEPT !.at = reason]]
           /\ [Idle EXCEPT !.at = reason] \in PipeState
           /\ pipe'[h].at = reason
           /\ Sound(h)'
<1>1. PICK new : new = [Idle EXCEPT !.at = reason]
  OBVIOUS
<1>2. None \in Batches \cup {None} /\ << >> \in Seq(EntIDs)
      /\ reason \in Steps \cup Answered \cup {"idle"}
  OBVIOUS
<1>3. new \in PipeState
  BY <1>1, <1>2, IdleIs
<1>4. /\ new.at = reason /\ new.todo = << >> /\ new.idMap = Nothing
      /\ new.accepted = {} /\ new.checked = {} /\ new.listed = Nothing
  BY <1>1 DEF Idle
<1>5. pipe' = [pipe EXCEPT ![h] = new]
  BY <1>1 DEF Fail
<1>6. pipe'[h] = new
  BY <1>5 DEF IInv
<1>7. Sound(h)'
  BY <1>4, <1>6, NothingIs DEF Sound, Fresh, Answered, Steps
<1> QED
  BY <1>1, <1>3, <1>4, <1>5, <1>6, <1>7

\* Going on to another step changes nothing else.
LEMMA GotoIs ==
    ASSUME IInv, NEW h \in Handlers, NEW step \in Steps \cup Answered, Goto(h, step)
    PROVE  \E new \in PipeState :
              /\ pipe' = [pipe EXCEPT ![h] = new] /\ pipe'[h] = new
              /\ new.at = step /\ new.batch = pipe[h].batch /\ new.todo = pipe[h].todo
              /\ new.idMap = pipe[h].idMap /\ new.checked = pipe[h].checked
              /\ new.accepted = pipe[h].accepted /\ new.listed = pipe[h].listed
<1>1. PICK old \in PipeState : old = pipe[h]
  BY DEF IInv
<1>2. PICK new : new = [old EXCEPT !.at = step]
  OBVIOUS
<1>3. new \in PipeState
  BY <1>1, <1>2 DEF PipeState
<1>4. /\ new.at = step /\ new.batch = old.batch /\ new.todo = old.todo
      /\ new.idMap = old.idMap /\ new.checked = old.checked
      /\ new.accepted = old.accepted /\ new.listed = old.listed
  BY <1>1, <1>2 DEF PipeState
<1>5. pipe' = [pipe EXCEPT ![h] = new]
  BY <1>1, <1>2 DEF Goto
<1>6. pipe'[h] = new
  BY <1>5 DEF IInv
<1> QED
  BY <1>1, <1>3, <1>4, <1>5, <1>6

LEMMA GotoIsSound ==
    ASSUME IInv, NEW h \in Handlers, NEW step \in Steps \cup Answered, Goto(h, step),
           step \in Steps => pipe[h].at \in Steps,
           step \in {"byID", "byName", "insert"} => Len(pipe[h].todo) > 0,
           Advances(graph, graph'), Counted(graph'), registry' = registry
    PROVE  Sound(h)'
<1>1. PICK new \in PipeState :
        /\ pipe' = [pipe EXCEPT ![h] = new] /\ pipe'[h] = new
        /\ new.at = step /\ new.batch = pipe[h].batch /\ new.todo = pipe[h].todo
        /\ new.idMap = pipe[h].idMap /\ new.checked = pipe[h].checked
        /\ new.accepted = pipe[h].accepted /\ new.listed = pipe[h].listed
  BY GotoIs
<1>2. Sound(h)
  BY DEF IInv
<1>3. \A id : Known(id)' = Known(id)
  BY DEF Known
<1>4. Fresh(h)'
  <2> SUFFICES ASSUME NEW id \in DOMAIN pipe[h].listed
               PROVE  /\ graph'[id] # NoRow
                      /\ pipe[h].listed[id].version >= 1
                      /\ \/ pipe[h].listed[id] = graph'[id]
                         \/ pipe[h].listed[id].version < graph'[id].version
    BY <1>1 DEF Fresh
  <2>1. id \in IDs /\ pipe[h].listed[id] \in Row
    BY PipeIs DEF IInv
  <2>2. /\ graph[id] # NoRow
        /\ pipe[h].listed[id].version >= 1
        /\ \/ pipe[h].listed[id] = graph[id]
           \/ pipe[h].listed[id].version < graph[id].version
    BY <1>2 DEF Sound, Fresh
  <2>3. Counted(graph)
    BY DEF IInv
  <2> QED
    BY <2>1, <2>2, <2>3, RowStaysFresh
<1> QED
  BY <1>1, <1>2, <1>3, <1>4 DEF Sound

\* A record resolves to an entity that is registered by then.
LEMMA ResolveIs ==
    ASSUME IInv, NEW h \in Handlers, NEW to \in EntIDs, Resolve(h, to),
           pipe[h].at \in {"byID", "byName", "insert"},
           graph' = graph, Known(to)', \A id \in EntIDs : Known(id) => Known(id)'
    PROVE  /\ \E new \in PipeState : pipe' = [pipe EXCEPT ![h] = new]
           /\ Sound(h)'
<1>1. PICK old \in PipeState : old = pipe[h]
  BY DEF IInv
<1>2. Sound(h)
  BY DEF IInv
<1>3. Len(old.todo) > 0 /\ old.todo \in Seq(EntIDs) /\ old.batch \in Batches
  BY <1>1, <1>2 DEF Sound, PipeState, Steps
<1>4. PICK id \in EntIDs : id = Head(old.todo)
  <2>1. PICK todo \in Seq(EntIDs) : todo = old.todo /\ Len(todo) > 0
    BY <1>3
  <2>2. Head(todo) \in EntIDs
    BY <2>1
  <2> QED
    BY <2>1, <2>2
<1>5. PICK left \in Seq(EntIDs) : left = Tail(old.todo)
  <2>1. PICK todo \in Seq(EntIDs) : todo = old.todo /\ Len(todo) > 0
    BY <1>3
  <2>2. Tail(todo) \in Seq(EntIDs)
    BY <2>1
  <2> QED
    BY <2>1, <2>2
<1>6. PICK m : m = Over([i \in {id} |-> to], old.idMap)
  OBVIOUS
<1>7. /\ m \in Partial(EntIDs, EntIDs)
      /\ DOMAIN m = {id} \cup DOMAIN old.idMap
      /\ m[id] = to
      /\ \A i \in DOMAIN old.idMap \ {id} : m[i] = old.idMap[i]
  <2>1. PICK one : one = [i \in {id} |-> to]
    OBVIOUS
  <2>2. one \in [{id} -> EntIDs] /\ {id} \in SUBSET EntIDs /\ DOMAIN one = {id} /\ one[id] = to
    BY <2>1
  <2>3. one \in Partial(EntIDs, EntIDs)
    BY <2>2, PartialIs
  <2>4. PICK f \in Partial(EntIDs, EntIDs) : f = old.idMap
    BY <1>1, PipeIs DEF IInv
  <2>5. m = Over(one, f)
    BY <1>6, <2>1, <2>4
  <2>6. Over(one, f) \in Partial(EntIDs, EntIDs)
    BY <2>3, OverIs
  <2>7. /\ DOMAIN Over(one, f) = DOMAIN one \cup DOMAIN f
        /\ \A i \in DOMAIN one : Over(one, f)[i] = one[i]
        /\ \A i \in DOMAIN f \ DOMAIN one : Over(one, f)[i] = f[i]
    BY DEF Over
  <2> QED
    BY <2>2, <2>4, <2>5, <2>6, <2>7
<1>8. PICK at \in {"check", "byID"} :
        at = (IF left = << >> THEN "check" ELSE "byID")
  OBVIOUS
<1>9. PICK new : new = [old EXCEPT !.at = at, !.todo = left, !.idMap = m]
  OBVIOUS
<1>10. pipe' = [pipe EXCEPT ![h] = new]
  <2>1. pipe' = [pipe EXCEPT ![h] = [pipe[h] EXCEPT
                    !.at = IF Tail(pipe[h].todo) = << >> THEN "check" ELSE "byID",
                    !.todo = Tail(pipe[h].todo),
                    !.idMap = Over([i \in {Head(pipe[h].todo)} |-> to], pipe[h].idMap)]]
    BY DEF Resolve
  <2>2. Over([i \in {Head(pipe[h].todo)} |-> to], pipe[h].idMap) = m
    BY <1>1, <1>4, <1>6
  <2>3. Tail(pipe[h].todo) = left
    BY <1>1, <1>5
  <2>4. pipe' = [pipe EXCEPT ![h] = [pipe[h] EXCEPT !.at = at, !.todo = left, !.idMap = m]]
    BY <1>8, <2>1, <2>2, <2>3
  <2> QED
    BY <1>1, <1>9, <2>4
<1>11. new \in PipeState
  BY <1>1, <1>5, <1>7, <1>8, <1>9 DEF PipeState, Steps
<1>12. /\ new.at = at /\ new.batch = old.batch /\ new.todo = left /\ new.idMap = m
       /\ new.checked = old.checked /\ new.accepted = old.accepted
       /\ new.listed = old.listed
  BY <1>1, <1>9 DEF PipeState
<1>13. pipe'[h] = new
  BY <1>10 DEF IInv
<1>14. IsFiniteSet(DOMAIN m)
  <2>1. IsFiniteSet(DOMAIN old.idMap)
    BY <1>1, <1>2 DEF Sound
  <2>2. DOMAIN m = DOMAIN old.idMap \cup {id}
    BY <1>7
  <2> QED
    BY <2>1, <2>2, FS_AddElement
<1>15. \A i \in DOMAIN m : Known(m[i])'
  <2> SUFFICES ASSUME NEW i \in DOMAIN m PROVE Known(m[i])'
    OBVIOUS
  <2>1. CASE i = id
    BY <1>7, <2>1
  <2>2. CASE i # id
    <3>1. i \in DOMAIN old.idMap /\ m[i] = old.idMap[i]
      BY <1>7, <2>2
    <3>2. Known(old.idMap[i]) /\ old.idMap[i] \in EntIDs
      BY <1>1, <1>2, <3>1, PipeIs DEF Sound, IInv
    <3>3. PICK e \in EntIDs : e = old.idMap[i]
      BY <3>2
    <3>4. Known(e)'
      BY <3>2, <3>3
    <3> QED
      BY <3>1, <3>3, <3>4
  <2> QED
    BY <2>1, <2>2
<1>16. \A r \in old.accepted : Known(r[1])' /\ Known(r[2])'
  <2> SUFFICES ASSUME NEW r \in old.accepted PROVE Known(r[1])' /\ Known(r[2])'
    OBVIOUS
  <2>1. r \in EntIDs \X EntIDs /\ r[1] \in EntIDs /\ r[2] \in EntIDs
    BY <1>1, PipelineAssumption, PipeIs DEF IInv
  <2>2. Known(r[1]) /\ Known(r[2])
    BY <1>1, <1>2 DEF Sound
  <2>3. PICK d \in EntIDs : d = r[1]
    BY <2>1
  <2>4. PICK e \in EntIDs : e = r[2]
    BY <2>1
  <2> QED
    BY <2>2, <2>3, <2>4
<1>17. Fresh(h)'
  BY <1>1, <1>2, <1>12, <1>13 DEF Sound, Fresh
<1>18. Sound(h)'
  <2>1. at \in {"byID", "byName", "insert"} => Len(left) > 0
    BY <1>8, EmptySeq
  <2>2. IsFiniteSet(old.accepted) /\ old.accepted \subseteq old.checked
    BY <1>1, <1>2 DEF Sound
  <2> QED
    BY <1>3, <1>12, <1>13, <1>14, <1>15, <1>16, <1>17, <2>1, <2>2 DEF Sound
<1> QED
  BY <1>10, <1>11, <1>18

LEMMA LookUpKeepsIInv ==
    \A h \in Handlers : IInv /\ (LookUpID(h) \/ LookUpName(h)) => IInv'
<1> SUFFICES ASSUME NEW h \in Handlers, IInv, LookUpID(h) \/ LookUpName(h) PROVE IInv'
  OBVIOUS
<1>1. /\ UNCHANGED <<registry, graph, received, deletes>>
      /\ pipe[h].at \in {"byID", "byName", "insert"}
  BY DEF LookUpID, LookUpName, At
<1>2. PICK id \in EntIDs : id = Head(pipe[h].todo)
  <2>1. PICK todo \in Seq(EntIDs) : todo = pipe[h].todo
    BY PipeIs DEF IInv
  <2>2. Len(todo) > 0
    BY <1>1, <2>1 DEF IInv, Sound
  <2>3. Head(todo) \in EntIDs
    BY <2>2
  <2> QED
    BY <2>1, <2>3
<1>3. NameOf[id] \in Names /\ registry[NameOf[id]] \in EntIDs \cup {None}
  BY DEF Names, IInv, Registered
<1>4. \A e : Known(e)' = Known(e)
  BY <1>1 DEF Known
<1>5. CASE \E to \in EntIDs : Resolve(h, to) /\ Known(to)
  <2>1. PICK to \in EntIDs : Resolve(h, to) /\ Known(to)
    BY <1>5
  <2>2. Known(to)' /\ \A e \in EntIDs : Known(e) => Known(e)'
    BY <1>4, <2>1
  <2>3. /\ \E new \in PipeState : pipe' = [pipe EXCEPT ![h] = new]
        /\ Sound(h)'
    BY <1>1, <2>1, <2>2, ResolveIs
  <2> QED
    BY <1>1, <2>3, QuietStep DEF IInv
<1>6. CASE \E step \in {"byName", "insert"} : Goto(h, step)
  <2>1. PICK step \in {"byName", "insert"} : Goto(h, step)
    BY <1>6
  <2>2. step \in Steps \cup Answered /\ pipe[h].at \in Steps
    BY <1>1 DEF Steps
  <2>3. PICK new \in PipeState : pipe' = [pipe EXCEPT ![h] = new]
    BY <2>1, <2>2, GotoIs
  <2>4. Len(pipe[h].todo) > 0
    BY <1>1 DEF IInv, Sound
  <2>5. Advances(graph, graph') /\ Counted(graph')
    BY <1>1 DEF Advances, IInv
  <2>6. Sound(h)'
    BY <1>1, <2>1, <2>2, <2>4, <2>5, GotoIsSound
  <2> QED
    BY <1>1, <2>3, <2>6, QuietStep DEF IInv
<1>7. CASE LookUpID(h)
  <2>1. (Known(id) /\ Resolve(h, id)) \/ Goto(h, "byName")
    BY <1>2, <1>7 DEF LookUpID
  <2> QED
    BY <1>5, <1>6, <2>1
<1>8. CASE LookUpName(h)
  <2>1. PICK owner : owner = registry[NameOf[id]]
    OBVIOUS
  <2>2. (owner # None /\ Resolve(h, owner)) \/ Goto(h, "insert")
    BY <1>2, <1>8, <2>1 DEF LookUpName
  <2>3. ASSUME owner # None, Resolve(h, owner)
        PROVE  \E to \in EntIDs : Resolve(h, to) /\ Known(to)
    <3>1. owner \in EntIDs
      BY <1>3, <2>1, <2>3
    <3>2. NameOf[owner] = NameOf[id]
      BY <1>3, <2>1, <2>3 DEF IInv, Registered
    <3> QED
      BY <2>1, <2>3, <3>1, <3>2 DEF Known
  <2> QED
    BY <1>5, <1>6, <2>2, <2>3
<1> QED
  BY <1>7, <1>8

\* The unique index: an insert takes a name only if it is free.
LEMMA InsertKeepsIInv == \A h \in Handlers : IInv /\ Insert(h) => IInv'
<1> SUFFICES ASSUME NEW h \in Handlers, IInv, Insert(h) PROVE IInv'
  OBVIOUS
<1>1. UNCHANGED <<graph, received, deletes>> /\ pipe[h].at = "insert"
  BY DEF Insert, At
<1>2. PICK id \in EntIDs : id = Head(pipe[h].todo)
  <2>1. PICK todo \in Seq(EntIDs) : todo = pipe[h].todo
    BY PipeIs DEF IInv
  <2>2. Len(todo) > 0
    BY <1>1, <2>1 DEF IInv, Sound
  <2>3. Head(todo) \in EntIDs
    BY <2>2
  <2> QED
    BY <2>1, <2>3
<1>3. PICK owner \in EntIDs \cup {None} : owner = registry[NameOf[id]]
  BY DEF Names, IInv, Registered
<1>4. CASE /\ owner \in {None, id}
           /\ registry' = [registry EXCEPT ![NameOf[id]] = id]
           /\ Resolve(h, id)
  <2>1. NameOf[id] \in Names
    BY DEF Names
  <2>2. registry'[NameOf[id]] = id /\ \A n \in Names \ {NameOf[id]} : registry'[n] = registry[n]
    BY <1>4, <2>1 DEF IInv, Registered
  <2>3. Registered'
    <3>1. registry' \in [Names -> EntIDs \cup {None}]
      BY <1>4, <2>1 DEF IInv, Registered
    <3>2. \A n \in Names : registry'[n] # None => NameOf[registry'[n]] = n
      BY <2>2 DEF IInv, Registered
    <3> QED
      BY <3>1, <3>2 DEF Registered
  <2>4. \A e \in EntIDs : NameOf[e] \in Names
    BY DEF Names
  <2>5. \A e \in EntIDs : Known(e) => Known(e)'
    <3> SUFFICES ASSUME NEW e \in EntIDs, Known(e) PROVE Known(e)'
      OBVIOUS
    <3>1. CASE NameOf[e] = NameOf[id]
      <4>1. owner = e /\ e # None
        BY <1>3, <3>1, PipelineAssumption DEF Known
      <4>2. e = id
        BY <1>4, <4>1
      <4> QED
        BY <2>2, <4>2 DEF Known
    <3>2. CASE NameOf[e] # NameOf[id]
      BY <2>2, <2>4, <3>2 DEF Known
    <3> QED
      BY <3>1, <3>2
  <2>6. Known(id)'
    BY <2>2 DEF Known
  <2>7. /\ \E new \in PipeState : pipe' = [pipe EXCEPT ![h] = new]
        /\ Sound(h)'
    BY <1>1, <1>4, <2>5, <2>6, ResolveIs
  <2>8. pipe' \in [Handlers -> PipeState] /\ \A k \in Handlers \ {h} : pipe'[k] = pipe[k]
    BY <2>7 DEF IInv
  <2>9. Advances(graph, graph') /\ Counted(graph')
    BY <1>1 DEF Advances, IInv
  <2>10. \A d \in EntIDs : graph'[d] # NoRow => Known(d)'
    BY <1>1, <2>5 DEF IInv
  <2>11. received' \in Nat /\ deletes' \in Nat
    BY <1>1 DEF IInv
  <2> QED
    BY <2>3, <2>5, <2>7, <2>8, <2>9, <2>10, <2>11, HandlerStep
<1>5. CASE Fail(h, "failed") /\ UNCHANGED registry
  <2>1. "failed" \in Answered
    BY DEF Answered
  <2>2. \E new \in PipeState : pipe' = [pipe EXCEPT ![h] = new]
    BY <1>5, <2>1, FailIs
  <2>3. Sound(h)'
    BY <1>5, <2>1, FailIs
  <2> QED
    BY <1>1, <1>5, <2>2, <2>3, QuietStep DEF IInv
<1> QED
  BY <1>2, <1>3, <1>4, <1>5 DEF Insert

\* A relationship that is accepted has registered ends.
LEMMA CheckKeepsIInv == \A h \in Handlers : IInv /\ Check(h) => IInv'
<1> SUFFICES ASSUME NEW h \in Handlers, IInv, Check(h) PROVE IInv'
  OBVIOUS
<1>1. UNCHANGED <<registry, graph, received, deletes>> /\ pipe[h].at = "check"
  BY DEF Check, At
<1>2. PICK old \in PipeState : old = pipe[h]
  BY DEF IInv
<1>3. Sound(h)
  BY DEF IInv
<1>4. PICK r \in Relationships(h) :
        \/ /\ ValidRelationship(h, r)
           /\ pipe' = [pipe EXCEPT ![h].checked = @ \cup {r}, ![h].accepted = @ \cup {r}]
        \/ pipe' = [pipe EXCEPT ![h].checked = @ \cup {r}]
  BY DEF Check
<1>5. r \in RelIDs /\ r[1] \in EntIDs /\ r[2] \in EntIDs
  <2>1. PICK b \in Batches : b = pipe[h].batch
    BY <1>1, <1>3 DEF Sound, Steps
  <2>2. \A q \in b.relationships : q[1] \in EntIDs /\ q[2] \in EntIDs
    BY BatchIs
  <2>3. \A id \in EntIDs : Canonical(h, id) \in EntIDs
    BY PipeIs DEF Canonical, IInv
  <2>4. PICK q \in b.relationships : r = <<Canonical(h, q[1]), Canonical(h, q[2])>>
    BY <2>1 DEF Relationships
  <2>5. PICK d \in EntIDs : d = Canonical(h, q[1])
    BY <2>2, <2>3
  <2>6. PICK e \in EntIDs : e = Canonical(h, q[2])
    BY <2>2, <2>3
  <2>7. r = <<d, e>>
    BY <2>4, <2>5, <2>6
  <2> QED
    BY <2>7, PipelineAssumption
<1>6. PICK checked \in SUBSET RelIDs : checked = old.checked \cup {r}
  BY <1>5 DEF PipeState
<1>7. ASSUME NEW accepted \in {old.accepted, old.accepted \cup {r}},
             accepted # old.accepted => ValidRelationship(h, r),
             pipe' = [pipe EXCEPT ![h] = [old EXCEPT !.checked = checked, !.accepted = accepted]]
      PROVE  IInv'
  <2>1. PICK new : new = [old EXCEPT !.checked = checked, !.accepted = accepted]
    OBVIOUS
  <2>2. accepted \in SUBSET RelIDs
    BY <1>5 DEF PipeState
  <2>3. new \in PipeState
    BY <2>1, <2>2 DEF PipeState
  <2>4. /\ new.at = old.at /\ new.batch = old.batch /\ new.todo = old.todo
        /\ new.idMap = old.idMap /\ new.checked = checked
        /\ new.accepted = accepted /\ new.listed = old.listed
    BY <2>1 DEF PipeState
  <2>5. pipe' = [pipe EXCEPT ![h] = new]
    BY <1>7, <2>1
  <2>6. pipe'[h] = new
    BY <2>5 DEF IInv
  <2>7. \A e : Known(e)' = Known(e)
    BY <1>1 DEF Known
  <2>8. IsFiniteSet(accepted)
    BY <1>2, <1>3, FS_AddElement DEF Sound
  <2>9. \A q \in accepted : Known(q[1]) /\ Known(q[2])
    <3>1. accepted # old.accepted => Known(r[1]) /\ Known(r[2])
      BY <1>7, ValidIs DEF ValidRelationship
    <3> QED
      BY <1>2, <1>3, <3>1 DEF Sound
  <2>10. accepted \subseteq checked
    BY <1>2, <1>3, <1>6 DEF Sound
  <2>11. Fresh(h)'
    BY <1>1, <1>2, <1>3, <2>4, <2>6 DEF Sound, Fresh
  <2>12. Sound(h)'
    BY <1>2, <1>3, <2>4, <2>6, <2>7, <2>8, <2>9, <2>10, <2>11 DEF Sound
  <2> QED
    BY <1>1, <2>3, <2>5, <2>12, QuietStep DEF IInv
<1>8. CASE /\ ValidRelationship(h, r)
           /\ pipe' = [pipe EXCEPT ![h].checked = @ \cup {r}, ![h].accepted = @ \cup {r}]
  <2>1. PICK accepted : accepted = old.accepted \cup {r}
    OBVIOUS
  <2>2. pipe' = [pipe EXCEPT ![h] = [old EXCEPT !.checked = checked, !.accepted = accepted]]
    BY <1>2, <1>6, <1>8, <2>1 DEF IInv
  <2> QED
    BY <1>7, <1>8, <2>1, <2>2
<1>9. CASE pipe' = [pipe EXCEPT ![h].checked = @ \cup {r}]
  <2>1. old.accepted \in {old.accepted, old.accepted \cup {r}}
    OBVIOUS
  <2>2. [old EXCEPT !.checked = checked] = [old EXCEPT !.checked = checked, !.accepted = old.accepted]
    BY DEF PipeState
  <2>3. pipe' = [pipe EXCEPT ![h] = [old EXCEPT !.checked = checked]]
    BY <1>2, <1>6, <1>9 DEF IInv
  <2>4. pipe' = [pipe EXCEPT ![h] = [old EXCEPT !.checked = checked, !.accepted = old.accepted]]
    BY <2>2, <2>3
  <2> QED
    BY <1>7, <2>1, <2>4
<1> QED
  BY <1>4, <1>8, <1>9

\* A listing is of active rows, as they are.
LEMMA ListingIs ==
    ASSUME IInv, NEW ids \in SUBSET IDs, NEW l \in Listings(ids)
    PROVE  /\ l \in Partial(IDs, Row)
           /\ \A id \in DOMAIN l : graph[id] # NoRow /\ l[id] = graph[id]
<1>1. PICK s \in SUBSET Active(ids) : l = [id \in s |-> graph[id]]
  BY DEF Listings
<1>2. \A id \in s : id \in IDs /\ graph[id] # NoRow
  BY DEF Active
<1>3. \A id \in s : graph[id] \in Row
  BY <1>2 DEF IInv, Counted, IsGraph
<1>4. l \in [s -> Row] /\ s \in SUBSET IDs
  BY <1>1, <1>2, <1>3
<1>5. l \in Partial(IDs, Row)
  BY <1>4, PartialIs
<1> QED
  BY <1>1, <1>2, <1>5

\* What a handler has listed may grow by rows as they are.
LEMMA ListedStep ==
    ASSUME IInv, NEW h \in Handlers, pipe[h].at \in Steps,
           NEW at \in {"list", "apply"}, NEW l \in Partial(IDs, Row),
           \A id \in DOMAIN l :
              \/ graph[id] # NoRow /\ l[id] = graph[id]
              \/ id \in DOMAIN pipe[h].listed /\ l[id] = pipe[h].listed[id],
           pipe' = [pipe EXCEPT ![h] = [pipe[h] EXCEPT !.at = at, !.listed = l]],
           UNCHANGED <<registry, graph, received, deletes>>
    PROVE  IInv'
<1>1. PICK old \in PipeState : old = pipe[h]
  BY DEF IInv
<1>2. PICK new : new = [old EXCEPT !.at = at, !.listed = l]
  OBVIOUS
<1>3. at \in Steps /\ at \notin {"byID", "byName", "insert"}
  BY DEF Steps
<1>4. new \in PipeState
  BY <1>2, <1>3 DEF PipeState
<1>5. /\ new.at = at /\ new.batch = old.batch /\ new.todo = old.todo
      /\ new.idMap = old.idMap /\ new.checked = old.checked
      /\ new.accepted = old.accepted /\ new.listed = l
  BY <1>2 DEF PipeState
<1>6. pipe' = [pipe EXCEPT ![h] = new]
  BY <1>1, <1>2
<1>7. pipe'[h] = new
  BY <1>6 DEF IInv
<1>8. \A e : Known(e)' = Known(e)
  BY DEF Known
<1>9. Sound(h)
  BY DEF IInv
<1>10. \A id \in DOMAIN l : /\ graph[id] # NoRow
                            /\ l[id].version >= 1
                            /\ l[id] = graph[id] \/ l[id].version < graph[id].version
  <2> SUFFICES ASSUME NEW id \in DOMAIN l
               PROVE  /\ graph[id] # NoRow
                      /\ l[id].version >= 1
                      /\ l[id] = graph[id] \/ l[id].version < graph[id].version
    OBVIOUS
  <2>1. id \in IDs
    BY PartialIs
  <2>2. CASE graph[id] # NoRow /\ l[id] = graph[id]
    BY <2>1, <2>2 DEF IInv, Counted
  <2>3. CASE id \in DOMAIN pipe[h].listed /\ l[id] = pipe[h].listed[id]
    BY <1>9, <2>3 DEF Sound, Fresh
  <2> QED
    BY <2>2, <2>3
<1>11. Fresh(h)'
  BY <1>5, <1>7, <1>10 DEF Fresh
<1>12. Sound(h)'
  BY <1>1, <1>3, <1>5, <1>7, <1>8, <1>9, <1>11 DEF Sound
<1> QED
  BY <1>4, <1>6, <1>12, QuietStep DEF IInv

LEMMA ListKeepsIInv ==
    \A h \in Handlers : IInv /\ (ListEntities(h) \/ ListRelationships(h)) => IInv'
<1> SUFFICES ASSUME NEW h \in Handlers, IInv, ListEntities(h) \/ ListRelationships(h)
             PROVE  IInv'
  OBVIOUS
<1>1. /\ UNCHANGED <<registry, graph, received, deletes>>
      /\ pipe[h].at \in Steps
  BY DEF ListEntities, ListRelationships, At, Steps
<1>2. CASE Goto(h, "apply")
  <2>1. "apply" \in Steps \cup Answered /\ "apply" \notin {"byID", "byName", "insert"}
    BY DEF Steps
  <2>2. PICK new \in PipeState : pipe' = [pipe EXCEPT ![h] = new]
    BY <1>2, <2>1, GotoIs
  <2>3. Advances(graph, graph') /\ Counted(graph')
    BY <1>1 DEF Advances, IInv
  <2>4. Sound(h)'
    BY <1>1, <1>2, <2>1, <2>3, GotoIsSound
  <2> QED
    BY <1>1, <2>2, <2>4, QuietStep DEF IInv
<1>3. CASE \E l \in Listings(EntIDs) :
              pipe' = [pipe EXCEPT ![h] = [pipe[h] EXCEPT !.at = "list", !.listed = l]]
  <2>1. PICK l \in Listings(EntIDs) :
              pipe' = [pipe EXCEPT ![h] = [pipe[h] EXCEPT !.at = "list", !.listed = l]]
    BY <1>3
  <2>2. EntIDs \in SUBSET IDs
    BY DEF IDs
  <2>3. l \in Partial(IDs, Row) /\ \A id \in DOMAIN l : graph[id] # NoRow /\ l[id] = graph[id]
    BY <2>2, ListingIs
  <2> QED
    BY <1>1, <2>1, <2>3, ListedStep
<1>4. CASE \E l \in Listings(RelIDs) :
              pipe' = [pipe EXCEPT ![h] =
                  [pipe[h] EXCEPT !.at = "apply", !.listed = Over(pipe[h].listed, l)]]
  <2>1. PICK l \in Listings(RelIDs) :
              pipe' = [pipe EXCEPT ![h] =
                  [pipe[h] EXCEPT !.at = "apply", !.listed = Over(pipe[h].listed, l)]]
    BY <1>4
  <2>2. RelIDs \in SUBSET IDs
    BY DEF IDs
  <2>3. l \in Partial(IDs, Row) /\ \A id \in DOMAIN l : graph[id] # NoRow /\ l[id] = graph[id]
    BY <2>2, ListingIs
  <2>4. PICK f \in Partial(IDs, Row) : f = pipe[h].listed
    BY PipeIs DEF IInv
  <2>5. PICK both \in Partial(IDs, Row) : both = Over(f, l)
    BY <2>3, OverIs
  <2>6. /\ DOMAIN both = DOMAIN f \cup DOMAIN l
        /\ \A id \in DOMAIN f : both[id] = f[id]
        /\ \A id \in DOMAIN l \ DOMAIN f : both[id] = l[id]
    BY <2>5 DEF Over
  <2>7. \A id \in DOMAIN both :
            \/ graph[id] # NoRow /\ both[id] = graph[id]
            \/ id \in DOMAIN pipe[h].listed /\ both[id] = pipe[h].listed[id]
    BY <2>3, <2>4, <2>6
  <2>8. pipe' = [pipe EXCEPT ![h] = [pipe[h] EXCEPT !.at = "apply", !.listed = both]]
    BY <2>1, <2>4, <2>5
  <2> QED
    BY <1>1, <2>7, <2>8, ListedStep
<1> QED
  BY <1>2, <1>3, <1>4 DEF ListEntities, ListRelationships

\* What storage makes of the delta of a handler.
LEMMA ApplyBatchIs ==
    ASSUME IInv, NEW h \in Handlers, pipe[h].at = "apply"
    PROVE  /\ Disjoint(Mutations(h))
           /\ Then(graph, Mutations(h), Len(Mutations(h)), ApplyBatch(h))
           /\ Refused(graph, Mutations(h), Len(Mutations(h)), ApplyBatch(h))
           /\ Counted(ApplyBatch(h).rows) /\ Advances(graph, ApplyBatch(h).rows)
           /\ ApplyBatch(h).verdict \in Verdicts
<1>1. pipe[h].at \in Steps
  BY DEF Steps
<1>2. Disjoint(Mutations(h)) /\ Counted(graph)
  BY <1>1, MutationsAre DEF IInv
<1>3. /\ Then(graph, Mutations(h), Len(Mutations(h)), ApplyBatch(h))
      /\ Refused(graph, Mutations(h), Len(Mutations(h)), ApplyBatch(h))
  BY <1>2, ApplyAllIs DEF ApplyBatch
<1> QED
  BY <1>2, <1>3 DEF Then

\* Rows that a delta adds are rows of its mutations.
LEMMA ChangedIsMutated ==
    ASSUME IInv, NEW h \in Handlers, pipe[h].at = "apply", NEW id \in IDs,
           ApplyBatch(h).rows[id] # graph[id]
    PROVE  \E m \in EntityMutations(h) \cup RelationshipMutations(h) :
              m.id = id /\ ~VersionConflict(graph, m)
<1>1. PICK j \in 1 .. Len(Mutations(h)) :
          Mutations(h)[j].id = id /\ ~VersionConflict(graph, Mutations(h)[j])
  BY ApplyBatchIs DEF Then
<1>2. pipe[h].at \in Steps
  BY DEF Steps
<1>3. Mutations(h)[j] \in EntityMutations(h) \cup RelationshipMutations(h)
  BY <1>2, MutationsAre
<1> QED
  BY <1>1, <1>3

\* So a node is of a registered id.
LEMMA ApplyKeepsIInv == \A h \in Handlers : IInv /\ Apply(h) => IInv'
<1> SUFFICES ASSUME NEW h \in Handlers, IInv, Apply(h) PROVE IInv'
  OBVIOUS
<1>1. UNCHANGED <<registry, received, deletes>> /\ pipe[h].at = "apply"
  BY DEF Apply, At
<1>2. graph' \in {graph, ApplyBatch(h).rows}
  BY DEF Apply
<1>3. Goto(h, "success") \/ \E reason \in Answered : Fail(h, reason)
  <2>1. ApplyBatch(h).verdict \in Verdicts
    BY <1>1, ApplyBatchIs
  <2> QED
    BY <2>1 DEF Apply, Answered, Verdicts
<1>4. Counted(graph') /\ Advances(graph, graph')
  <2>1. Counted(graph) /\ Advances(graph, graph)
    BY DEF IInv, Advances
  <2> QED
    BY <1>1, <1>2, <2>1, ApplyBatchIs
<1>5. \A e : Known(e)' = Known(e)
  BY <1>1 DEF Known
<1>6. \A d \in EntIDs : graph'[d] # NoRow => Known(d)
  <2> SUFFICES ASSUME NEW d \in EntIDs, graph'[d] # NoRow PROVE Known(d)
    OBVIOUS
  <2>1. CASE graph'[d] = graph[d]
    BY <2>1 DEF IInv
  <2>2. CASE graph'[d] # graph[d]
    <3>1. d \in IDs /\ ApplyBatch(h).rows[d] # graph[d]
      BY <1>2, <2>2 DEF IDs
    <3>2. PICK m \in EntityMutations(h) \cup RelationshipMutations(h) : m.id = d
      BY <1>1, <3>1, ChangedIsMutated
    <3>3. pipe[h].at \in Steps
      BY <1>1 DEF Steps
    <3>4. m \in EntityMutations(h)
      BY <3>2, <3>3, RelationshipMutationsAre, RowsAssumption DEF RelationshipMutation
    <3>5. d \in Valid(h)
      BY <3>2, <3>3, <3>4, EntityMutationsAre
    <3> QED
      BY <3>5, ValidIs
  <2> QED
    BY <2>1, <2>2
<1>7. ASSUME NEW new \in PipeState, pipe' = [pipe EXCEPT ![h] = new], Sound(h)'
      PROVE  IInv'
  <2>1. pipe' \in [Handlers -> PipeState] /\ \A k \in Handlers \ {h} : pipe'[k] = pipe[k]
    BY <1>7 DEF IInv
  <2>2. Registered' /\ received' \in Nat /\ deletes' \in Nat
    BY <1>1 DEF IInv, Registered
  <2>3. \A e \in EntIDs : Known(e) => Known(e)'
    BY <1>5
  <2>4. \A d \in EntIDs : graph'[d] # NoRow => Known(d)'
    BY <1>5, <1>6
  <2> QED
    BY <1>4, <1>7, <2>1, <2>2, <2>3, <2>4, HandlerStep
<1>8. CASE Goto(h, "success")
  <2>1. "success" \in Steps \cup Answered /\ "success" \notin Steps
    BY DEF Steps, Answered
  <2>2. "success" \notin {"byID", "byName", "insert"}
    OBVIOUS
  <2>3. PICK new \in PipeState : pipe' = [pipe EXCEPT ![h] = new]
    BY <1>8, <2>1, GotoIs
  <2>4. Sound(h)'
    BY <1>1, <1>4, <1>8, <2>1, <2>2, GotoIsSound
  <2> QED
    BY <1>7, <2>3, <2>4
<1>9. CASE \E reason \in Answered : Fail(h, reason)
  <2>1. PICK reason \in Answered : Fail(h, reason)
    BY <1>9
  <2>2. PICK new \in PipeState : pipe' = [pipe EXCEPT ![h] = new]
    BY <2>1, FailIs
  <2>3. Sound(h)'
    BY <2>1, FailIs
  <2> QED
    BY <1>7, <2>2, <2>3
<1> QED
  BY <1>3, <1>8, <1>9

LEMMA RequestFailsKeepsIInv == \A h \in Handlers : IInv /\ RequestFails(h) => IInv'
<1> SUFFICES ASSUME NEW h \in Handlers, IInv, RequestFails(h) PROVE IInv'
  OBVIOUS
<1>1. UNCHANGED <<registry, graph, received, deletes>> /\ Fail(h, "failed")
  BY DEF RequestFails
<1>2. "failed" \in Answered
  BY DEF Answered
<1>3. PICK new \in PipeState : pipe' = [pipe EXCEPT ![h] = new]
  BY <1>1, <1>2, FailIs
<1>4. Sound(h)'
  BY <1>1, <1>2, FailIs
<1> QED
  BY <1>1, <1>3, <1>4, QuietStep DEF IInv

\* A deleted row stays, of a later version.
LEMMA DeleteKeepsIInv == \A id \in IDs : IInv /\ Delete(id) => IInv'
<1> SUFFICES ASSUME NEW id \in IDs, IInv, Delete(id) PROVE IInv'
  OBVIOUS
<1>1. /\ graph[id] # NoRow
      /\ graph' = [graph EXCEPT ![id] = DeletedRow(graph, id)]
      /\ deletes' = deletes + 1
      /\ UNCHANGED <<registry, pipe, received>>
  BY DEF Delete, Active
<1>2. PICK row \in Row : row = graph[id] /\ row.version >= 1
  BY <1>1 DEF IInv, Counted, IsGraph
<1>3. PICK v \in Int : v = row.version
  BY DEF Row, EntRow, RelRow
<1>4. PICK gone : gone = [row EXCEPT !.version = v + 1, !.active = FALSE]
  OBVIOUS
<1>5. gone = DeletedRow(graph, id)
  BY <1>2, <1>3, <1>4 DEF DeletedRow
<1>6. gone.version = v + 1
  BY <1>4 DEF Row, EntRow, RelRow
<1>7. (row \in EntRow => gone \in EntRow) /\ (row \in RelRow => gone \in RelRow)
  <2>1. v + 1 \in Int /\ FALSE \in BOOLEAN
    OBVIOUS
  <2>2. row \in EntRow => gone \in EntRow
    BY <1>4, <2>1 DEF EntRow
  <2>3. row \in RelRow => gone \in RelRow
    BY <1>4, <2>1 DEF RelRow
  <2> QED
    BY <2>2, <2>3
<1>8. gone \in Row /\ gone # NoRow
  BY <1>7, RowsAssumption DEF Row
<1>9. IsGraph(graph)
  BY DEF IInv, Counted
<1>10. graph'[id] = gone /\ \A j \in IDs \ {id} : graph'[j] = graph[j]
  BY <1>1, <1>5, <1>9 DEF IsGraph
<1>11. (id \in EntIDs => row \in EntRow) /\ (id \in RelIDs => row \in RelRow)
  BY <1>1, <1>2, <1>9 DEF IsGraph
<1>12. IsGraph(graph')
  <2>1. graph' \in [IDs -> Row \cup {NoRow}]
    BY <1>1, <1>5, <1>8, <1>9 DEF IsGraph
  <2>2. EntIDs \subseteq IDs /\ RelIDs \subseteq IDs
    BY DEF IDs
  <2>3. \A e \in EntIDs : graph'[e] \in EntRow \cup {NoRow}
    BY <1>7, <1>9, <1>10, <1>11, <2>2 DEF IsGraph
  <2>4. \A r \in RelIDs : graph'[r] \in RelRow \cup {NoRow}
    BY <1>7, <1>9, <1>10, <1>11, <2>2 DEF IsGraph
  <2> QED
    BY <2>1, <2>3, <2>4 DEF IsGraph
<1>13. Counted(graph')
  BY <1>2, <1>3, <1>6, <1>10, <1>12 DEF Counted, IInv
<1>14. Advances(graph, graph')
  BY <1>2, <1>3, <1>6, <1>8, <1>10 DEF Advances
<1>15. \A e : Known(e)' = Known(e)
  BY <1>1 DEF Known
<1>16. \A h \in Handlers : Sound(h)'
  BY <1>1, <1>13, <1>14, <1>15, SoundStays
<1>17. \A d \in EntIDs : graph'[d] # NoRow => Known(d)'
  BY <1>1, <1>10, <1>15 DEF IInv, IDs
<1> QED
  BY <1>1, <1>13, <1>16, <1>17 DEF IInv, Registered

\* A restart loses what handlers have found out, and no more.
LEMMA RestartKeepsIInv == IInv /\ Restart => IInv'
<1> SUFFICES ASSUME IInv, Restart PROVE IInv'
  OBVIOUS
<1>1. pipe' = [h \in Handlers |-> Idle] /\ UNCHANGED <<registry, graph, received, deletes>>
  BY DEF Restart
<1>2. Idle \in PipeState
  BY NothingIs DEF Idle, PipeState
<1>3. pipe' \in [Handlers -> PipeState] /\ \A h \in Handlers : pipe'[h] = Idle
  BY <1>1, <1>2
<1>4. /\ Idle.at = "idle" /\ Idle.todo = << >> /\ Idle.idMap = Nothing
      /\ Idle.accepted = {} /\ Idle.checked = {} /\ Idle.listed = Nothing
  BY DEF Idle
<1>5. ASSUME NEW h \in Handlers PROVE Sound(h)'
  <2>1. Fresh(h)'
    BY <1>3, <1>4, NothingIs DEF Fresh
  <2> QED
    BY <1>3, <1>4, <2>1, NothingIs DEF Sound, Steps
<1>6. \A d \in EntIDs : graph'[d] # NoRow => Known(d)'
  BY <1>1 DEF IInv, Known
<1> QED
  BY <1>1, <1>3, <1>5, <1>6 DEF IInv, Registered

LEMMA StutterKeepsIInv == IInv /\ UNCHANGED vars => IInv'
<1> SUFFICES ASSUME IInv, UNCHANGED vars PROVE IInv'
  OBVIOUS
<1>1. UNCHANGED <<registry, graph, pipe, received, deletes>>
  BY DEF vars
<1>2. \A e : Known(e)' = Known(e)
  BY <1>1 DEF Known
<1>3. \A h \in Handlers : Sound(h)'
  BY <1>1, <1>2, SoundStays DEF IInv, Advances
<1> QED
  BY <1>1, <1>2, <1>3 DEF IInv, Registered

\* Every state of a behavior satisfies the inductive invariant.
THEOREM InductiveInvariant == Spec => []IInv
<1>1. IInv /\ [Next]_vars => IInv'
  BY ReceiveKeepsIInv, LookUpKeepsIInv, InsertKeepsIInv, CheckKeepsIInv, ListKeepsIInv,
     ApplyKeepsIInv, RequestFailsKeepsIInv, DeleteKeepsIInv, RestartKeepsIInv,
     StutterKeepsIInv DEF Next
<1> QED
  BY InitIInv, <1>1, PTL DEF Spec

-----------------------------------------------------------------------------
(* What follows. *)

\* Every variable has its type, what a handler accepted it has checked, and
\* what it listed storage has.
THEOREM TypeCorrect == Spec => []TypeOK
<1>1. IInv => TypeOK
  <2> SUFFICES ASSUME IInv PROVE TypeOK
    OBVIOUS
  <2>1. registry \in [Names -> EntIDs \cup {None}] /\ IsGraph(graph)
    BY DEF IInv, Registered, Counted
  <2>2. received \in Nat /\ deletes \in Nat
    BY DEF IInv
  <2>3. ASSUME NEW h \in Handlers
        PROVE  /\ pipe[h].at \in Steps \cup Answered \cup {"idle"}
               /\ pipe[h].at \in Steps => pipe[h].batch \in Batches
               /\ pipe[h].accepted \subseteq pipe[h].checked /\ pipe[h].checked \subseteq RelIDs
               /\ \A id \in DOMAIN pipe[h].listed : graph[id] # NoRow
    <3>1. Sound(h) /\ Fresh(h)
      BY DEF IInv, Sound
    <3> QED
      BY <3>1, PipeIs DEF IInv, Sound, Fresh
  <2> QED
    BY <2>1, <2>2, <2>3 DEF TypeOK
<1> QED
  BY <1>1, InductiveInvariant, PTL

\* Two entities of one name never get into the graph: an entity that is there
\* is the one that the registry has for its name.
THEOREM OneEntityPerNameHolds == Spec => []OneEntityPerName
<1>1. IInv => OneEntityPerName
  BY DEF IInv, OneEntityPerName, Known
<1> QED
  BY <1>1, InductiveInvariant, PTL

\* How the application of a delta ends: a request that failed, a delta that
\* is in the graph, or a delta that was refused as a whole.
LEMMA AppliesIs ==
    ASSUME IInv, [Next]_vars, NEW h \in Handlers, Applies(h)
    PROVE  \/ graph' = graph /\ pipe'[h].at = "failed"
           \/ /\ ApplyBatch(h).verdict = "success" /\ graph' = ApplyBatch(h).rows
              /\ pipe'[h].at \in {"success", "failed"}
           \/ /\ ApplyBatch(h).verdict # "success" /\ graph' = graph
              /\ pipe'[h].at = ApplyBatch(h).verdict
<1>1. pipe[h].at = "apply" /\ pipe'[h].at \in Answered
  BY DEF Applies, At
<1>2. pipe'[h] # pipe[h] /\ "apply" \notin Answered /\ "idle" \notin Answered
  BY <1>1 DEF Answered
<1>3. pipe \in [Handlers -> PipeState]
  BY DEF IInv
<1>4. ~UNCHANGED vars /\ ~Restart /\ \A id \in IDs : ~Delete(id)
  <2>1. ~UNCHANGED vars
    BY <1>2 DEF vars
  <2>2. \A id \in IDs : ~Delete(id)
    BY <1>2 DEF Delete
  <2>3. Restart => pipe'[h].at = "idle"
    <3>1. Idle.at = "idle"
      BY DEF Idle
    <3>2. Restart => pipe'[h] = Idle
      BY DEF Restart
    <3> QED
      BY <3>1, <3>2
  <2> QED
    BY <1>1, <1>2, <2>1, <2>2, <2>3
<1>5. PICK k \in Handlers :
          \/ Receive(k) \/ LookUpID(k) \/ LookUpName(k) \/ Insert(k) \/ Check(k)
          \/ ListEntities(k) \/ ListRelationships(k) \/ Apply(k) \/ RequestFails(k)
  BY <1>4 DEF Next
<1>6. \A i \in Handlers : i # k => pipe'[i] = pipe[i]
  BY <1>3, <1>5 DEF Receive, LookUpID, LookUpName, Insert, Check, ListEntities,
                    ListRelationships, Apply, RequestFails, Resolve, Goto, Fail
<1>7. k = h
  BY <1>2, <1>6
<1>8. CASE Apply(h)
  <2>1. ApplyBatch(h).verdict \in Verdicts
    BY <1>1, ApplyBatchIs
  <2>2. \A reason \in Answered : Fail(h, reason) => pipe'[h].at = reason
    BY FailIs
  <2>3. Goto(h, "success") => pipe'[h].at = "success"
    BY <1>3, GotoIs DEF Answered
  <2>4. {"failed"} \cup (Verdicts \ {"success"}) \subseteq Answered
    BY DEF Answered, Verdicts
  <2> QED
    BY <1>8, <2>1, <2>2, <2>3, <2>4 DEF Apply
<1>9. CASE RequestFails(h)
  <2>1. "failed" \in Answered
    BY DEF Answered
  <2> QED
    BY <1>9, <2>1, FailIs DEF RequestFails
<1> QED
  BY <1>1, <1>5, <1>7, <1>8, <1>9 DEF Receive, LookUpID, LookUpName, Insert, Check,
     ListEntities, ListRelationships, At, Answered

\* What the mutation of an id says that changed its row: there was no conflict
\* with the row as it was.
LEMMA ChangedWasListed ==
    ASSUME IInv, NEW h \in Handlers, pipe[h].at = "apply",
           NEW id \in DOMAIN pipe[h].listed,
           ApplyBatch(h).rows[id] # graph[id]
    PROVE  graph[id] = pipe[h].listed[id]
<1>1. pipe[h].at \in Steps /\ id \in IDs
  BY PipeIs DEF Steps, IInv
<1>2. PICK m \in EntityMutations(h) \cup RelationshipMutations(h) :
          m.id = id /\ ~VersionConflict(graph, m)
  BY <1>1, ChangedIsMutated
<1>3. m.version = BaseVersion(h, id)
  BY <1>1, <1>2, EntityMutationsAre, RelationshipMutationsAre
<1>4. m.version = pipe[h].listed[id].version /\ m.version # 0
  BY <1>3, BaseVersionIs
<1>5. /\ graph[id] # NoRow
      /\ \/ pipe[h].listed[id] = graph[id]
         \/ pipe[h].listed[id].version < graph[id].version
  BY DEF IInv, Sound, Fresh
<1>6. graph[id].version = pipe[h].listed[id].version
  BY <1>2, <1>4, <1>5 DEF VersionConflict
<1>7. graph[id] \in Row
  BY <1>1, <1>5 DEF IInv, Counted, IsGraph
<1>8. PICK v \in Int : v = graph[id].version
  BY <1>7 DEF Row, EntRow, RelRow
<1> QED
  BY <1>5, <1>6, <1>8

\* A delta overwrites no row that the listing showed and that somebody has
\* written since: the versions it was computed from are still those of the
\* rows, and a version is a row's only once.
THEOREM ReplacesWhatWasListedHolds == Spec => ReplacesWhatWasListed
<1>1. ASSUME IInv, [Next]_vars, NEW h \in Handlers, Applies(h),
             NEW id \in DOMAIN pipe[h].listed, graph'[id] # graph[id]
      PROVE  graph[id] = pipe[h].listed[id]
  <2>1. graph' = ApplyBatch(h).rows
    BY <1>1, AppliesIs
  <2>2. pipe[h].at = "apply"
    BY <1>1 DEF Applies, At
  <2> QED
    BY <1>1, <2>1, <2>2, ChangedWasListed
<1>2. IInv /\ [Next]_vars =>
        [\A h \in Handlers : Applies(h) =>
            \A id \in DOMAIN pipe[h].listed :
                graph'[id] # graph[id] => graph[id] = pipe[h].listed[id]]_vars
  BY <1>1
<1> QED
  BY <1>2, InductiveInvariant, PTL DEF Spec, ReplacesWhatWasListed

\* A batch that is answered "success" is in the graph at that moment: what
\* differed from the listing was mutated, and what did not is as listed, or
\* was written by another since.
THEOREM SuccessIsShownHolds == Spec => SuccessIsShown
<1>1. ASSUME IInv, [Next]_vars, NEW h \in Handlers, Applies(h), pipe'[h].at = "success",
             NEW id \in Valid(h) \cup pipe[h].accepted
      PROVE  \/ graph'[id] # NoRow /\ graph'[id].data = pipe[h].batch.data
             \/ Listed(h, id) /\ graph[id] # pipe[h].listed[id]
  <2>1. pipe[h].at = "apply" /\ pipe[h].at \in Steps
    BY <1>1 DEF Applies, At, Steps
  <2>2. ApplyBatch(h).verdict = "success" /\ graph' = ApplyBatch(h).rows
    BY <1>1, AppliesIs
  <2>3. id \in IDs
    BY <1>1, ValidIs, PipeIs DEF IDs, IInv
  <2>4. Then(graph, Mutations(h), Len(Mutations(h)), ApplyBatch(h))
    BY <1>1, <2>1, ApplyBatchIs
  <2>5. CASE Differs(h, id)
    <3>1. PICK m \in EntityMutations(h) \cup RelationshipMutations(h) : m.id = id
      BY <1>1, <2>1, <2>5, EntityMutationsAre, RelationshipMutationsAre
    <3>2. PICK n \in 1 .. Len(Mutations(h)) : Mutations(h)[n] = m
      BY <1>1, <2>1, MutationsAre
    <3>3. graph'[id] # NoRow /\ graph'[id].data = m.data
      BY <2>2, <2>4, <3>1, <3>2 DEF Then
    <3>4. graph'[id] \in Row
      BY <2>2, <2>3, <2>4, <3>3 DEF Then, Counted, IsGraph
    <3>5. m.data # BadData
      BY <3>3, <3>4, RowsAssumption DEF Row, EntRow, RelRow
    <3>6. m.data = pipe[h].batch.data
      BY <1>1, <2>1, <3>5, EntityMutationsAre, RelationshipMutationsAre
    <3> QED
      BY <3>3, <3>6
  <2>6. CASE ~Differs(h, id)
    <3>1. Listed(h, id) /\ pipe[h].listed[id].data = pipe[h].batch.data
      BY <2>6 DEF Differs
    <3>2. CASE graph[id] # pipe[h].listed[id]
      BY <3>1, <3>2
    <3>3. CASE graph[id] = pipe[h].listed[id]
      <4>1. graph[id] # NoRow
        BY <1>1, <3>1 DEF IInv, Sound, Fresh, Listed
      <4>2. \A m \in EntityMutations(h) \cup RelationshipMutations(h) : m.id # id
        BY <1>1, <2>1, <2>6, EntityMutationsAre, RelationshipMutationsAre
      <4>3. graph'[id] = graph[id]
        BY <1>1, <2>1, <2>2, <2>3, <4>2, ChangedIsMutated
      <4> QED
        BY <3>1, <3>3, <4>1, <4>3
    <3> QED
      BY <3>2, <3>3
  <2> QED
    BY <2>5, <2>6
<1>2. IInv /\ [Next]_vars =>
        [\A h \in Handlers : Applies(h) /\ pipe'[h].at = "success" =>
            \A id \in Valid(h) \cup pipe[h].accepted :
                \/ graph'[id] # NoRow /\ graph'[id].data = pipe[h].batch.data
                \/ Listed(h, id) /\ graph[id] # pipe[h].listed[id]]_vars
  BY <1>1
<1> QED
  BY <1>2, InductiveInvariant, PTL DEF Spec, SuccessIsShown

\* Storage refuses a delta for one of three reasons: a version that was not
\* that of the row any more, an end that the registry has and storage has
\* not, or a name that is too long.  An end that is of the batch itself is no
\* reason, because its entity is there already or comes first.
THEOREM RefusalsExplainedHolds == Spec => RefusalsExplained
<1>1. ASSUME IInv, [Next]_vars, NEW h \in Handlers, Applies(h),
             pipe'[h].at \in {"conflict", "unknown", "invalid"}
      PROVE  /\ pipe'[h].at = "conflict" =>
                   \E id \in DOMAIN pipe[h].listed : graph[id] # pipe[h].listed[id]
             /\ pipe'[h].at = "unknown" =>
                   \E r \in pipe[h].accepted : \E e \in {r[1], r[2]} :
                       Known(e) /\ e \notin Valid(h) /\ graph[e] = NoRow
             /\ pipe'[h].at = "invalid" => \E id \in Valid(h) : NameOf[id] = Long
  <2>1. pipe[h].at = "apply" /\ pipe[h].at \in Steps
    BY <1>1 DEF Applies, At, Steps
  <2>2. ApplyBatch(h).verdict # "success" /\ pipe'[h].at = ApplyBatch(h).verdict
    BY <1>1, AppliesIs
  <2>3. Disjoint(Mutations(h)) /\ Refused(graph, Mutations(h), Len(Mutations(h)), ApplyBatch(h))
    BY <1>1, <2>1, ApplyBatchIs
  <2>3a. PICK j \in 1 .. Len(Mutations(h)) : \E t :
          /\ Then(graph, Mutations(h), j - 1, t) /\ t.verdict = "success"
          /\ Verdict(t.rows, Mutations(h)[j]) = pipe'[h].at
    BY <2>2, <2>3 DEF Refused
  <2>4. PICK t :
          /\ Then(graph, Mutations(h), j - 1, t) /\ t.verdict = "success"
          /\ Verdict(t.rows, Mutations(h)[j]) = pipe'[h].at
    BY <2>3a
  <2>5. PICK m : m = Mutations(h)[j]
    OBVIOUS
  <2>6. /\ m \in EntityMutations(h) \cup RelationshipMutations(h)
        /\ m \in RelationshipMutations(h) =>
              m \in EntityMutations(h) \/
              \A e \in EntityMutations(h) : \E i \in 1 .. j - 1 : Mutations(h)[i] = e
    BY <1>1, <2>1, <2>5, MutationsAre
  <2>7. m \in Mutation /\ m.id \in IDs
    BY <1>1, <2>1, <2>6, EntityMutationsAre, RelationshipMutationsAre
       DEF Mutation, EntityMutation, RelationshipMutation, IDs
  <2>8. t.rows[m.id] = graph[m.id]
    <3>1. Len(Mutations(h)) \in Nat
      BY <2>3 DEF Disjoint
    <3>2. \A i \in 1 .. j - 1 : i \in 1 .. Len(Mutations(h)) /\ i # j
      BY <3>1
    <3>3. \A i \in 1 .. j - 1 : Mutations(h)[i].id # m.id
      BY <2>3, <2>5, <3>2 DEF Disjoint
    <3> QED
      BY <2>4, <2>7, <3>3 DEF Then
  <2>9. CASE pipe'[h].at = "conflict"
    <3>1. VersionConflict(t.rows, m)
      BY <2>4, <2>5, <2>9 DEF Verdict
    <3>2. /\ graph[m.id] # NoRow
          /\ m.version # 0 /\ m.version # graph[m.id].version
      BY <2>8, <3>1 DEF VersionConflict
    <3>3. m.version = BaseVersion(h, m.id)
      BY <1>1, <2>1, <2>6, EntityMutationsAre, RelationshipMutationsAre
    <3>4. m.id \in DOMAIN pipe[h].listed /\ m.version = pipe[h].listed[m.id].version
      BY <1>1, <3>2, <3>3, BaseVersionIs
    <3> QED
      BY <2>9, <3>2, <3>4
  <2>10. CASE pipe'[h].at = "unknown"
    <3>1. m.id \in RelIDs /\ UnknownEndpoint(t.rows, m)
      BY <2>4, <2>5, <2>10 DEF Verdict
    <3>2. m \notin EntityMutations(h)
      BY <1>1, <2>1, <3>1, EntityMutationsAre, RowsAssumption DEF EntityMutation
    <3>3. m \in RelationshipMutations(h)
      BY <2>6, <3>2
    <3>4. PICK r \in pipe[h].accepted : m.id = r /\ m.from = r[1] /\ m.to = r[2]
      BY <1>1, <2>1, <3>3, RelationshipMutationsAre
    <3>5. r[1] \in EntIDs /\ r[2] \in EntIDs /\ Known(r[1]) /\ Known(r[2])
      BY <1>1, PipeIs, PipelineAssumption DEF IInv, Sound
    <3>6. PICK e \in {r[1], r[2]} : t.rows[e] = NoRow
      BY <3>1, <3>4 DEF UnknownEndpoint
    <3>7. e \in EntIDs /\ e \in IDs /\ Known(e)
      BY <3>5, <3>6 DEF IDs
    <3>8. graph[e] = NoRow
      BY <2>4, <3>6, <3>7 DEF Then, Advances
    <3>9. e \notin Valid(h)
      <4> SUFFICES ASSUME e \in Valid(h) PROVE FALSE
        OBVIOUS
      <4>1. CASE Differs(h, e)
        <5>1. PICK a \in EntityMutations(h) : a.id = e
          BY <1>1, <2>1, <4>1, EntityMutationsAre
        <5>2. PICK i \in 1 .. j - 1 : Mutations(h)[i] = a
          BY <2>6, <3>2, <3>3, <5>1
        <5>3. t.rows[e] # NoRow
          BY <2>4, <5>1, <5>2 DEF Then
        <5> QED
          BY <3>6, <5>3
      <4>2. CASE ~Differs(h, e)
        <5>1. e \in DOMAIN pipe[h].listed
          BY <4>2 DEF Differs, Listed
        <5>2. graph[e] # NoRow
          BY <1>1, <5>1 DEF IInv, Sound, Fresh
        <5> QED
          BY <3>8, <5>2
      <4> QED
        BY <4>1, <4>2
    <3> QED
      BY <2>10, <3>6, <3>7, <3>8, <3>9
  <2>11. CASE pipe'[h].at = "invalid"
    <3>1. m.data = BadData
      BY <2>4, <2>5, <2>11 DEF Verdict
    <3>2. pipe[h].batch.data # BadData
      BY <1>1, <2>1, BatchIs DEF IInv, Sound
    <3>3. m.id \in Valid(h) /\ NameOf[m.id] = Long
      BY <1>1, <2>1, <2>6, <3>1, <3>2, EntityMutationsAre, RelationshipMutationsAre
    <3> QED
      BY <2>11, <3>3
  <2> QED
    BY <1>1, <2>9, <2>10, <2>11
<1>2. IInv /\ [Next]_vars =>
        [\A h \in Handlers : Applies(h) =>
            /\ pipe'[h].at = "conflict" =>
                   \E id \in DOMAIN pipe[h].listed : graph[id] # pipe[h].listed[id]
            /\ pipe'[h].at = "unknown" =>
                   \E r \in pipe[h].accepted : \E e \in {r[1], r[2]} :
                       Known(e) /\ e \notin Valid(h) /\ graph[e] = NoRow
            /\ pipe'[h].at = "invalid" => \E id \in Valid(h) : NameOf[id] = Long]_vars
  BY <1>1
<1> QED
  BY <1>2, InductiveInvariant, PTL DEF Spec, RefusalsExplained

=============================================================================
