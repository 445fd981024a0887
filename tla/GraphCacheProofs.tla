--------------------------- MODULE GraphCacheProofs ---------------------------
(***************************************************************************)
(* Theorems of GraphCache for any graph, any neighborhoods asked for, and  *)
(* any number of readers, writers and batches.                             *)
(***************************************************************************)
EXTENDS GraphCache, WellFoundedInduction, TLAPS

(***************************************************************************)
(* A reader's state.                                                       *)
(***************************************************************************)
NodeMaps == UNION {[S -> Value] : S \in SUBSET EntIDs}
EdgeMaps == UNION {[S -> Edge] : S \in SUBSET RelIDs}

\* The row of an entity is not read yet, or has been found.
Partly == [row : Nat, sample : Nat, bare : BOOLEAN, late : BOOLEAN]

ReaderState ==
    [key : Keys \cup {NoKey, ByName},
     at : {"get", "row", "check", "sample", "fill", "edges"},
     id : EntIDs, val : Partly, nodes : NodeMaps, edges : EdgeMaps,
     load : SUBSET EntIDs, frontier : SUBSET EntIDs, next : SUBSET EntIDs,
     depth : Int, late : BOOLEAN]

\* What a reader in state s has read of its entity is there, and is the
\* current row, and by the time of the fill the last sample (but where the query
\* for it failed), unless an invalidation is still to run or has overtaken it.
Trusted(s) ==
    /\ s.at \in {"check", "sample", "fill"} => s.val.row # 0
    /\ s.at \in {"check", "sample"} /\ ~s.val.late =>
          s.val.row = row[s.id] \/ PendingEntity(s.id)
    /\ s.at = "fill" /\ ~s.val.late => Current(s.id, s.val) \/ PendingEntity(s.id)

IsReader(s) == s = Absent \/ (s \in ReaderState /\ Trusted(s))

\* EntitiesFresh is of what is cached; what a reader is about to fill is the
\* other half.
IInv ==
    /\ TypeOK
    /\ DOMAIN neighborCache = Keys
    /\ EntitiesFresh
    /\ DOMAIN reader = Readers
    /\ \A r \in Readers : IsReader(reader[r])

-----------------------------------------------------------------------------
LEMMA PutIsMap ==
    ASSUME NEW m \in NodeMaps, NEW e \in EntIDs, NEW v \in Value
    PROVE  Put(m, e, v) \in NodeMaps
<1>1. PICK S \in SUBSET EntIDs : m \in [S -> Value]
  BY DEF NodeMaps
<1>2. Put(m, e, v) \in [S \cup {e} -> Value]
  BY <1>1 DEF Put
<1> QED BY <1>2 DEF NodeMaps

LEMMA NothingIsMap == Nothing \in NodeMaps /\ Nothing \in EdgeMaps
<1>1. Nothing \in [{} -> Value] /\ Nothing \in [{} -> Edge]
  BY DEF Nothing
<1> QED BY <1>1 DEF NodeMaps, EdgeMaps

\* The edges of a frontier node are rows, and lead to entities.
LEMMA FoundAreEdges ==
    ASSUME edge \in [RelIDs -> Edge \cup {Absent}], NEW n, NEW dir
    PROVE  /\ \A x \in EdgesOf(edge, n, dir) : x \in RelIDs /\ edge[x] \in Edge
           /\ \A x \in RelIDs : Follow(edge, x, n, dir) \subseteq EntIDs
<1>1. ASSUME NEW x \in RelIDs PROVE Active(edge, x) \subseteq Edge
  BY DEF Active
<1>2. ASSUME NEW x \in RelIDs, Follow(edge, x, n, dir) # {} PROVE edge[x] \in Edge
  <2>1. Active(edge, x) # {}
    BY <1>2 DEF Follow
  <2> QED BY <1>1, <2>1 DEF Active
<1>3. ASSUME NEW x \in RelIDs PROVE Follow(edge, x, n, dir) \subseteq EntIDs
  BY <1>1, <1>3 DEF Follow, Edge
<1> QED BY <1>2, <1>3 DEF EdgesOf

LEMMA MoreEdges ==
    ASSUME NEW m \in EdgeMaps, NEW found \in SUBSET RelIDs,
           \A x \in found : edge[x] \in Edge
    PROVE  [x \in DOMAIN m \cup found |-> IF x \in found THEN edge[x] ELSE m[x]] \in EdgeMaps
<1>1. PICK S \in SUBSET RelIDs : m \in [S -> Edge]
  BY DEF EdgeMaps
<1>2. [x \in DOMAIN m \cup found |-> IF x \in found THEN edge[x] ELSE m[x]]
         \in [S \cup found -> Edge]
  BY <1>1
<1> QED BY <1>2 DEF EdgeMaps

\* What PendingEntity and Current depend on.
LEMMA SameTrust ==
    ASSUME UNCHANGED <<row, sample, hooks>>, NEW s, IsReader(s)
    PROVE  IsReader(s)'
BY DEF IsReader, Trusted, PendingEntity, Current

\* A reader goes on as s, and may fill an entry of either layer.
LEMMA ReaderKeepsIInv ==
    ASSUME IInv, NEW r \in Readers, NEW s, IsReader(s),
           reader' = [reader EXCEPT ![r] = s],
           UNCHANGED <<row, sample, edge, hooks, writes>>,
           \/ entityCache' = entityCache
           \/ \E e \in EntIDs, v \in Value :
                 /\ entityCache' = [entityCache EXCEPT ![e] = v]
                 /\ v.late \/ Current(e, v) \/ PendingEntity(e),
           \/ neighborCache' = neighborCache
           \/ \E k, n : /\ neighborCache' = [neighborCache EXCEPT ![k] = n]
                        /\ IsNeighborhood(n)
    PROVE  IInv'
<1> USE DEF IInv
<1>1. entityCache' \in [EntIDs -> Value \cup {Absent}]
  BY DEF TypeOK
<1>2. /\ DOMAIN neighborCache' = Keys
      /\ \A k \in Keys : neighborCache'[k] = Absent \/ IsNeighborhood(neighborCache'[k])
  BY DEF TypeOK
<1>3. TypeOK'
  BY <1>1, <1>2 DEF TypeOK, IsNeighborhood
<1>4. /\ \A e \in EntIDs : PendingEntity(e)' = PendingEntity(e)
      /\ \A v : \A e \in EntIDs : Current(e, v)' = Current(e, v)
  BY DEF PendingEntity, Current
<1>5. EntitiesFresh'
  <2>1. ASSUME NEW e \in EntIDs, entityCache'[e] # Absent, ~entityCache'[e].late
        PROVE  Current(e, entityCache'[e]) \/ PendingEntity(e)
    BY <2>1 DEF EntitiesFresh, TypeOK
  <2> QED BY <1>4, <2>1 DEF EntitiesFresh, Current
<1>6. ASSUME NEW x \in Readers PROVE IsReader(reader[x])'
  <2>1. PICK t : t = reader'[x]
    OBVIOUS
  <2>2. IsReader(t)
    BY <2>1
  <2>3. IsReader(t)'
    BY <2>2, SameTrust
  <2> QED BY <2>1, <2>3 DEF IsReader, Trusted
<1>7. DOMAIN reader' = Readers
  OBVIOUS
<1> QED BY <1>2, <1>3, <1>5, <1>6, <1>7

\* What GetHit, ReadRow and FillEntity leave of the reader: it asks for the
\* next node, or turns to the edges, with nothing in hand.
LEMMA LoadedIsReader ==
    ASSUME NEW r \in Readers, reader[r] \in ReaderState, NEW val \in Value \cup {Absent},
           Loaded(r, val)
    PROVE  \E s : IsReader(s) /\ reader' = [reader EXCEPT ![r] = s]
<1>1. PICK s : s = reader[r]
  OBVIOUS
<1>2. PICK nodes : nodes = IF val = Absent THEN s.nodes ELSE Put(s.nodes, s.id, val)
  OBVIOUS
<1>3. PICK next : next = IF val = Absent THEN s.next ELSE s.next \cup {s.id}
  OBVIOUS
<1>4. s \in ReaderState
  BY <1>1
<1>5. nodes \in NodeMaps /\ next \in SUBSET EntIDs /\ Fresh \in Partly
  BY <1>2, <1>3, <1>4, PutIsMap DEF ReaderState, Fresh, Partly
<1>6. PICK fresh : fresh = Fresh
  OBVIOUS
<1>7. CASE reader' = [reader EXCEPT ![r] = Absent]
  BY <1>7 DEF IsReader
<1>8. ASSUME NEW n \in s.load,
             reader' = [reader EXCEPT ![r] =
                    [s EXCEPT !.at = "get", !.id = n, !.val = fresh, !.nodes = nodes,
                              !.next = next, !.load = @ \ {n}]]
      PROVE  \E t : IsReader(t) /\ reader' = [reader EXCEPT ![r] = t]
  <2>1. PICK t : t = [s EXCEPT !.at = "get", !.id = n, !.val = fresh, !.nodes = nodes,
                              !.next = next, !.load = @ \ {n}]
    OBVIOUS
  <2>2. n \in EntIDs /\ s.load \ {n} \in SUBSET EntIDs
    BY <1>4, <1>8 DEF ReaderState
  <2>3. t \in ReaderState /\ t.at = "get"
    BY <1>4, <1>5, <1>6, <2>1, <2>2 DEF ReaderState
  <2> QED BY <1>8, <2>1, <2>3 DEF IsReader, Trusted
<1>9. CASE reader' = [reader EXCEPT ![r] =
                    [s EXCEPT !.at = "edges", !.val = fresh, !.nodes = nodes,
                              !.next = next]]
  <2>1. PICK t : t = [s EXCEPT !.at = "edges", !.val = fresh, !.nodes = nodes, !.next = next]
    OBVIOUS
  <2>2. t \in ReaderState /\ t.at = "edges"
    BY <1>4, <1>5, <1>6, <2>1 DEF ReaderState
  <2> QED BY <1>9, <2>1, <2>2 DEF IsReader, Trusted
<1> QED BY <1>1, <1>2, <1>3, <1>6, <1>7, <1>8, <1>9 DEF Loaded

-----------------------------------------------------------------------------
(* The steps of a reader. *)

LEMMA StartKeepsIInv ==
    ASSUME IInv, NEW r \in Readers, NEW key \in Keys \cup {NoKey, ByName},
           NEW step \in {"get", "row"}, NEW id \in EntIDs, NEW depth \in Int,
           Start(r, key, step, id, depth)
    PROVE  IInv'
<1>1. PICK fresh, none : fresh = Fresh /\ none = Nothing
  OBVIOUS
<1>2. fresh \in Partly /\ none \in NodeMaps /\ none \in EdgeMaps
  BY <1>1, NothingIsMap DEF Fresh, Partly
<1>3. PICK s : s = [key |-> key, at |-> step, id |-> id, val |-> fresh,
                    nodes |-> none, edges |-> none, load |-> {}, frontier |-> {},
                    next |-> {}, depth |-> depth, late |-> FALSE]
  OBVIOUS
<1>4. s \in ReaderState /\ s.at \in {"get", "row"}
  BY <1>2, <1>3 DEF ReaderState
<1>5. IsReader(s) /\ reader' = [reader EXCEPT ![r] = s]
  BY <1>1, <1>3, <1>4 DEF IsReader, Trusted, Start
<1> QED BY <1>5, ReaderKeepsIInv DEF Start, database, cache

\* The three ways to start: GetEntity and Neighborhood on a miss,
\* GetEntityByName in any case.
LEMMA StartsKeepIInv ==
    ASSUME IInv, NEW r \in Readers,
           \/ \E e \in EntIDs : StartEntity(r, e) \/ StartByName(r, e)
           \/ \E k \in Keys : StartNeighborhood(r, k)
    PROVE  IInv'
<1>1. ASSUME NEW e \in EntIDs, StartEntity(r, e) \/ StartByName(r, e) PROVE IInv'
  BY <1>1, StartKeepsIInv DEF StartEntity, StartByName
<1>2. ASSUME NEW k \in Keys, StartNeighborhood(r, k) PROVE IInv'
  <2>1. k \in EntIDs \X (0 .. 5) \X Directions
    BY CacheAssumption
  <2>2. k[1] \in EntIDs /\ k[2] \in Int
    BY <2>1
  <2> QED BY <1>2, <2>2, StartKeepsIInv DEF StartNeighborhood
<1> QED BY <1>1, <1>2

\* A row that is read is current.
LEMMA ReadRowKeepsIInv == ASSUME IInv, NEW r \in Readers, ReadRow(r) PROVE IInv'
<1>1. PICK s : s = reader[r]
  OBVIOUS
<1>2. s \in ReaderState /\ s.id \in EntIDs /\ UNCHANGED <<database, hooks, cache, writes>>
  BY <1>1 DEF IInv, IsReader, ReadRow, At, ReaderState
<1>3. CASE Loaded(r, Absent)
  BY <1>1, <1>2, <1>3, LoadedIsReader, ReaderKeepsIInv DEF database, cache
<1>4. CASE ~Loaded(r, Absent)
  <2>1. PICK val, step : /\ val = [Fresh EXCEPT !.row = row[s.id]]
                         /\ step = IF s.key = ByName THEN "check" ELSE "sample"
    OBVIOUS
  <2>2. row[s.id] # 0 /\ row[s.id] \in Nat
    BY <1>1, <1>2, <1>4 DEF ReadRow, IInv, TypeOK
  <2>3. val \in Partly /\ val.row = row[s.id]
    BY <2>1, <2>2 DEF Fresh, Partly
  <2>4. PICK t : t = [s EXCEPT !.at = step, !.val = val]
    OBVIOUS
  <2>5. t \in ReaderState /\ t.at \in {"check", "sample"} /\ t.val = val /\ t.id = s.id
    BY <1>2, <2>1, <2>3, <2>4 DEF ReaderState
  <2>6. IsReader(t)
    BY <2>2, <2>3, <2>5 DEF IsReader, Trusted
  <2>7. reader' = [reader EXCEPT ![r] = t]
    BY <1>1, <1>4, <2>1, <2>4 DEF ReadRow
  <2> QED BY <1>2, <2>6, <2>7, ReaderKeepsIInv DEF database, cache
<1> QED BY <1>3, <1>4

\* injectMetricsSummary: the row read before and the sample read now, if its
\* query does not fail, are both current, or an invalidation is due.
LEMMA ReadSampleKeepsIInv == ASSUME IInv, NEW r \in Readers, ReadSample(r) PROVE IInv'
<1>1. PICK s : s = reader[r]
  OBVIOUS
<1>2. /\ s \in ReaderState /\ Trusted(s) /\ s.id \in EntIDs /\ s.at = "sample"
      /\ UNCHANGED <<database, hooks, cache, writes>>
  BY <1>1 DEF IInv, IsReader, ReadSample, At, ReaderState
<1>3. PICK val : /\ val \in {[s.val EXCEPT !.sample = sample[s.id]], [s.val EXCEPT !.bare = TRUE]}
                 /\ reader' = [reader EXCEPT ![r] = [s EXCEPT !.at = "fill", !.val = val]]
  <2>1. CASE reader' = [reader EXCEPT ![r] = [@ EXCEPT !.at = "fill", !.val.sample = sample[s.id]]]
    BY <1>1, <1>2, <2>1
  <2>2. CASE reader' = [reader EXCEPT ![r] = [@ EXCEPT !.at = "fill", !.val.bare = TRUE]]
    BY <1>1, <1>2, <2>2
  <2> QED BY <1>1, <2>1, <2>2 DEF ReadSample
<1>4. /\ val \in Partly /\ val.row = s.val.row /\ val.late = s.val.late
      /\ val.bare \/ val.sample = sample[s.id]
  <2>1. s.val \in Partly /\ sample[s.id] \in Nat
    BY <1>2 DEF ReaderState, IInv, TypeOK
  <2> QED BY <1>3, <2>1 DEF Partly
<1>5. PICK t : t = [s EXCEPT !.at = "fill", !.val = val]
  OBVIOUS
<1>6. t \in ReaderState /\ t.at = "fill" /\ t.val = val /\ t.id = s.id
  BY <1>2, <1>4, <1>5 DEF ReaderState
<1>7. IsReader(t)
  BY <1>2, <1>4, <1>6 DEF IsReader, Trusted, Current
<1>8. reader' = [reader EXCEPT ![r] = t]
  BY <1>3, <1>5
<1> QED BY <1>2, <1>7, <1>8, ReaderKeepsIInv DEF database, cache

\* Layer 1 is filled with what the reader has in hand.
LEMMA FillEntityKeepsIInv == ASSUME IInv, NEW r \in Readers, FillEntity(r) PROVE IInv'
<1>1. PICK s : s = reader[r]
  OBVIOUS
<1>2. /\ s \in ReaderState /\ Trusted(s) /\ s.id \in EntIDs /\ s.at = "fill"
      /\ UNCHANGED <<database, hooks, neighborCache, writes>>
      /\ entityCache' = [entityCache EXCEPT ![s.id] = s.val] /\ Loaded(r, s.val)
  BY <1>1 DEF IInv, IsReader, FillEntity, At, ReaderState
<1>3. s.val \in Value
  <2>1. s.val \in Partly /\ s.val.row # 0
    BY <1>2 DEF ReaderState, Trusted
  <2> QED BY <2>1 DEF Partly, Value
<1>4. s.val.late \/ Current(s.id, s.val) \/ PendingEntity(s.id)
  BY <1>2 DEF Trusted
<1>5. PICK t : IsReader(t) /\ reader' = [reader EXCEPT ![r] = t]
  BY <1>1, <1>2, <1>3, LoadedIsReader
<1> QED BY <1>2, <1>3, <1>4, <1>5, ReaderKeepsIInv DEF database

LEMMA GetKeepsIInv == ASSUME IInv, NEW r \in Readers, GetHit(r) \/ GetMiss(r) PROVE IInv'
<1>1. PICK s : s = reader[r]
  OBVIOUS
<1>2. /\ s \in ReaderState /\ s.id \in EntIDs /\ s.at = "get"
      /\ UNCHANGED <<database, hooks, cache, writes>>
  BY <1>1 DEF IInv, IsReader, GetHit, GetMiss, At, ReaderState
<1>3. CASE GetHit(r)
  <2>1. entityCache[s.id] \in Value
    BY <1>1, <1>2, <1>3 DEF GetHit, IInv, TypeOK
  <2>2. PICK t : IsReader(t) /\ reader' = [reader EXCEPT ![r] = t]
    BY <1>1, <1>2, <1>3, <2>1, LoadedIsReader DEF GetHit
  <2> QED BY <1>2, <2>2, ReaderKeepsIInv DEF database, cache
<1>4. CASE GetMiss(r)
  <2>1. PICK t : t = [s EXCEPT !.at = "row"]
    OBVIOUS
  <2>2. t \in ReaderState /\ t.at = "row"
    BY <1>2, <2>1 DEF ReaderState
  <2>3. IsReader(t) /\ reader' = [reader EXCEPT ![r] = t]
    BY <1>1, <1>4, <2>1, <2>2 DEF GetMiss, IsReader, Trusted
  <2> QED BY <1>2, <2>3, ReaderKeepsIInv DEF database, cache
<1> QED BY <1>3, <1>4

LEMMA CheckCachedKeepsIInv == ASSUME IInv, NEW r \in Readers, CheckCached(r) PROVE IInv'
<1>1. PICK s : s = reader[r]
  OBVIOUS
<1>2. /\ s \in ReaderState /\ Trusted(s) /\ s.at = "check"
      /\ UNCHANGED <<database, hooks, cache, writes>>
  BY <1>1 DEF IInv, IsReader, CheckCached, At
<1>3. PICK t : t = [s EXCEPT !.at = "sample"]
  OBVIOUS
<1>4. t \in ReaderState /\ t.at = "sample" /\ t.val = s.val /\ t.id = s.id
  BY <1>2, <1>3 DEF ReaderState
<1>5. IsReader(t) /\ IsReader(Absent)
  BY <1>2, <1>4 DEF IsReader, Trusted
<1>6. reader' = [reader EXCEPT ![r] = t] \/ reader' = [reader EXCEPT ![r] = Absent]
  BY <1>1, <1>3 DEF CheckCached
<1> QED BY <1>2, <1>5, <1>6, ReaderKeepsIInv DEF database, cache

\* A reader that only waits for ids or edges has nothing of its own in hand.
LEMMA TraverseKeepsIInv == ASSUME IInv, NEW r \in Readers, Traverse(r) PROVE IInv'
<1> DEFINE s == reader[r]
<1>2. /\ s \in ReaderState /\ s.at = "edges"
      /\ UNCHANGED <<database, hooks, cache, writes>>
  BY DEF IInv, IsReader, Traverse, At
<1>3. SUFFICES \E t : IsReader(t) /\ reader' = [reader EXCEPT ![r] = t]
  BY <1>2, ReaderKeepsIInv DEF database, cache
<1> HIDE DEF s
<1>4. CASE reader' = [reader EXCEPT ![r] =
                         [s EXCEPT !.frontier = s.next, !.next = {}, !.depth = @ - 1]]
  <2>1. PICK next, depth : next = s.next /\ depth = s.depth - 1
    OBVIOUS
  <2>2. next \in SUBSET EntIDs /\ depth \in Int
    BY <1>2, <2>1 DEF ReaderState
  <2>3. PICK t : t = [s EXCEPT !.frontier = next, !.next = {}, !.depth = depth]
    OBVIOUS
  <2>4. t \in ReaderState /\ t.at = "edges"
    BY <1>2, <2>2, <2>3 DEF ReaderState
  <2> QED BY <1>4, <2>1, <2>3, <2>4 DEF IsReader, Trusted
<1>5. ASSUME NEW n \in s.frontier,
             LET found == EdgesOf(edge, n, s.key[3]) \ DOMAIN s.edges
                 others == (UNION {Follow(edge, x, n, s.key[3]) : x \in found})
                               \ DOMAIN s.nodes
                 edges == [x \in DOMAIN s.edges \cup found |->
                                  IF x \in found THEN edge[x] ELSE s.edges[x]]
                 s2 == [s EXCEPT !.frontier = @ \ {n}, !.edges = edges]
             IN  \/ /\ others = {}
                    /\ reader' = [reader EXCEPT ![r] = s2]
                 \/ \E o \in others :
                       reader' = [reader EXCEPT ![r] =
                           [s2 EXCEPT !.at = "get", !.id = o, !.load = others \ {o}]]
      PROVE  \E t : IsReader(t) /\ reader' = [reader EXCEPT ![r] = t]
  <2> DEFINE dir == s.key[3]
             found == EdgesOf(edge, n, dir) \ DOMAIN s.edges
             others == (UNION {Follow(edge, x, n, dir) : x \in found}) \ DOMAIN s.nodes
             edges == [x \in DOMAIN s.edges \cup found |->
                          IF x \in found THEN edge[x] ELSE s.edges[x]]
             rest == s.frontier \ {n}
             s2 == [s EXCEPT !.frontier = rest, !.edges = edges]
  <2>1. edge \in [RelIDs -> Edge \cup {Absent}]
    BY DEF IInv, TypeOK
  <2>2. s.edges \in EdgeMaps /\ rest \in SUBSET EntIDs
    BY <1>2 DEF ReaderState
  <2>3. \/ reader' = [reader EXCEPT ![r] = s2]
        \/ \E o \in others :
              reader' = [reader EXCEPT ![r] =
                  [s2 EXCEPT !.at = "get", !.id = o, !.load = others \ {o}]]
    BY <1>5
  <2> HIDE DEF dir
  <2>4. found \in SUBSET RelIDs /\ \A x \in found : edge[x] \in Edge
    BY <2>1, FoundAreEdges
  <2>5. \A x \in found : Follow(edge, x, n, dir) \subseteq EntIDs
    BY <2>1, <2>4, FoundAreEdges
  <2> HIDE DEF found
  <2>6. others \in SUBSET EntIDs
    BY <2>5
  <2>7. edges \in EdgeMaps
    BY <2>2, <2>4, MoreEdges
  <2> HIDE DEF others, edges, rest
  <2>8. s2 \in ReaderState /\ s2.at = "edges"
    BY <1>2, <2>2, <2>7 DEF ReaderState
  <2> HIDE DEF s2
  <2>9. CASE reader' = [reader EXCEPT ![r] = s2]
    BY <2>8, <2>9 DEF IsReader, Trusted
  <2>10. ASSUME NEW o \in others,
                reader' = [reader EXCEPT ![r] =
                       [s2 EXCEPT !.at = "get", !.id = o, !.load = others \ {o}]]
         PROVE  \E t : IsReader(t) /\ reader' = [reader EXCEPT ![r] = t]
    <3>1. PICK load : load = others \ {o}
      OBVIOUS
    <3>2. PICK t : t = [s2 EXCEPT !.at = "get", !.id = o, !.load = load]
      OBVIOUS
    <3>3. o \in EntIDs /\ load \in SUBSET EntIDs
      BY <2>6, <2>10, <3>1
    <3>4. t \in ReaderState /\ t.at = "get"
      BY <2>8, <3>2, <3>3 DEF ReaderState
    <3> QED BY <2>10, <3>1, <3>2, <3>4 DEF IsReader, Trusted
  <2> QED BY <2>3, <2>9, <2>10
<1> QED BY <1>4, <1>5 DEF Traverse, s

\* Layer 2 is filled with what the traversal has gathered.
LEMMA FillNeighborhoodKeepsIInv ==
    ASSUME IInv, NEW r \in Readers, FillNeighborhood(r) PROVE IInv'
<1>1. PICK s : s = reader[r]
  OBVIOUS
<1>2. s \in ReaderState
  BY <1>1 DEF IInv, IsReader, FillNeighborhood, At
<1>3. PICK n : n = [nodes |-> s.nodes, edges |-> s.edges, late |-> s.late]
  OBVIOUS
<1>4. s.nodes \in NodeMaps /\ s.edges \in EdgeMaps /\ s.late \in BOOLEAN
  BY <1>2 DEF ReaderState
<1>5. IsNeighborhood(n)
  BY <1>3, <1>4 DEF IsNeighborhood, NodeMaps, EdgeMaps
<1>6. /\ neighborCache' = [neighborCache EXCEPT ![s.key] = n]
      /\ reader' = [reader EXCEPT ![r] = Absent]
      /\ UNCHANGED <<row, sample, edge, hooks, entityCache, writes>>
  BY <1>1, <1>3 DEF FillNeighborhood, database
<1> QED BY <1>5, <1>6, ReaderKeepsIInv DEF IsReader

LEMMA ReadFailsKeepsIInv == ASSUME IInv, NEW r \in Readers, ReadFails(r) PROVE IInv'
BY ReaderKeepsIInv DEF ReadFails, IsReader, database, cache

-----------------------------------------------------------------------------
(* The steps of a writer. *)

\* A batch has committed and its hook is due: w had none, so none is lost, and
\* it names every entity whose row or sample the batch moved.
LEMMA PostKeepsIInv ==
    ASSUME IInv, NEW w \in Writers, NEW h \in Hook, hooks[w] = Absent,
           hooks' = [hooks EXCEPT ![w] = h], writes' \in Nat,
           row' \in [EntIDs -> Nat], sample' \in [EntIDs -> Nat],
           edge' \in [RelIDs -> Edge \cup {Absent}],
           UNCHANGED <<cache, reader>>,
           \A e \in EntIDs : \/ row'[e] = row[e] /\ sample'[e] = sample[e]
                             \/ h.kind = "entity" /\ e \in h.ids
    PROVE  IInv'
<1> USE DEF IInv
<1>1. h # Absent
  BY CacheAssumption
<1>2. TypeOK'
  BY DEF TypeOK, cache, IsNeighborhood
<1>3. ASSUME NEW e \in EntIDs, PendingEntity(e) PROVE PendingEntity(e)'
  <2>1. PICK x \in Writers : hooks[x] # Absent /\ hooks[x].kind = "entity" /\ e \in hooks[x].ids
    BY <1>3 DEF PendingEntity
  <2>2. hooks'[x] = hooks[x]
    BY <2>1 DEF TypeOK
  <2> QED BY <2>1, <2>2 DEF PendingEntity
<1>4. ASSUME NEW e \in EntIDs
      PROVE  (row'[e] = row[e] /\ sample'[e] = sample[e]) \/ PendingEntity(e)'
  <2>1. hooks'[w] = h
    BY DEF TypeOK
  <2> QED BY <1>1, <2>1 DEF PendingEntity
<1>5. EntitiesFresh'
  BY <1>3, <1>4 DEF EntitiesFresh, Current, cache
<1>6. ASSUME NEW r \in Readers PROVE IsReader(reader[r])'
  <2>1. PICK s : s = reader[r]
    OBVIOUS
  <2>2. CASE s = Absent
    BY <2>1, <2>2 DEF IsReader
  <2>3. CASE s \in ReaderState /\ Trusted(s)
    <3>1. s.id \in EntIDs
      BY <2>3 DEF ReaderState
    <3>2. Trusted(s)'
      BY <1>3, <1>4, <2>3, <3>1 DEF Trusted, Current
    <3>3. reader'[r] = s
      BY <2>1
    <3> QED BY <2>3, <3>2, <3>3 DEF IsReader, Trusted
  <2> QED BY <2>1, <2>2, <2>3 DEF IsReader
<1>7. DOMAIN reader' = Readers /\ DOMAIN neighborCache' = Keys
  BY DEF cache
<1> QED BY <1>2, <1>5, <1>6, <1>7

LEMMA MutateEntityKeepsIInv ==
    ASSUME IInv, NEW w \in Writers, NEW e \in EntIDs,
           MutateEntity(w, e) \/ PostEntityMetrics(w, e)
    PROVE  IInv'
<1>1. PICK h : h = EntityHook(e)
  OBVIOUS
<1>2. h \in Hook /\ h.kind = "entity" /\ e \in h.ids
  BY <1>1 DEF EntityHook, Hook
<1>3. /\ hooks[w] = Absent /\ hooks' = [hooks EXCEPT ![w] = h] /\ writes' \in Nat
      /\ row' \in [EntIDs -> Nat] /\ sample' \in [EntIDs -> Nat]
      /\ edge' \in [RelIDs -> Edge \cup {Absent}]
      /\ UNCHANGED <<cache, reader>>
  BY <1>1 DEF MutateEntity, PostEntityMetrics, Writable, IInv, TypeOK
<1>4. \A x \in EntIDs : (row'[x] = row[x] /\ sample'[x] = sample[x]) \/ x \in h.ids
  BY <1>2 DEF MutateEntity, PostEntityMetrics, IInv, TypeOK
<1> QED BY <1>2, <1>3, <1>4, PostKeepsIInv

\* What a mutation leaves of a relationship is one.
LEMMA EdgeAfterIsEdge ==
    ASSUME writes \in Nat, NEW r \in RelIDs, edge[r] \in Edge \cup {Absent},
           NEW new \in EdgeAfter(r)
    PROVE  new \in Edge
<1>1. PICK gen : gen = writes + 1
  OBVIOUS
<1>2. gen \in Nat
  BY <1>1
<1>3. \/ new \in [from : {e \in EntIDs : row[e] > 0}, to : {e \in EntIDs : row[e] > 0},
                 active : {TRUE}, gen : {gen}]
      \/ \E e \in Active(edge, r) : new = [e EXCEPT !.active = FALSE, !.gen = gen]
  BY <1>1 DEF EdgeAfter
<1>4. CASE new \in [from : {e \in EntIDs : row[e] > 0}, to : {e \in EntIDs : row[e] > 0},
                   active : {TRUE}, gen : {gen}]
  BY <1>2, <1>4 DEF Edge
<1>5. ASSUME NEW e \in Active(edge, r), new = [e EXCEPT !.active = FALSE, !.gen = gen]
      PROVE  new \in Edge
  <2>1. e \in Edge
    BY DEF Active
  <2> QED BY <1>2, <1>5, <2>1 DEF Edge
<1> QED BY <1>3, <1>4, <1>5

LEMMA MutateRelationshipKeepsIInv ==
    ASSUME IInv, NEW w \in Writers, NEW r \in RelIDs,
           MutateRelationship(w, r) \/ PostRelationshipMetrics(w, r)
    PROVE  IInv'
<1>1. CASE MutateRelationship(w, r)
  <2>1. PICK new \in EdgeAfter(r) :
           edge' = [edge EXCEPT ![r] = new] /\ hooks' = [hooks EXCEPT ![w] = RelHook(new.from, new.to)]
    BY <1>1 DEF MutateRelationship
  <2>2. writes \in Nat /\ edge[r] \in Edge \cup {Absent}
    BY DEF IInv, TypeOK
  <2>3. new \in Edge
    BY <2>2, EdgeAfterIsEdge
  <2>4. PICK h : h = RelHook(new.from, new.to)
    OBVIOUS
  <2>5. h \in Hook
    <3>1. new.from \in EntIDs /\ new.to \in EntIDs
      BY <2>3 DEF Edge
    <3>2. {new.from, new.to} \in SUBSET EntIDs
      BY <3>1
    <3> QED BY <2>4, <3>2 DEF RelHook, Hook
  <2>6. edge' \in [RelIDs -> Edge \cup {Absent}]
    BY <2>1, <2>3 DEF IInv, TypeOK
  <2>7. hooks[w] = Absent /\ writes' \in Nat /\ UNCHANGED <<row, sample, cache, reader>>
    BY <1>1, <2>2 DEF MutateRelationship, Writable
  <2> QED BY <2>1, <2>4, <2>5, <2>6, <2>7, PostKeepsIInv DEF IInv, TypeOK
<1>2. CASE PostRelationshipMetrics(w, r)
  <2>1. PICK h : h = SampleHook(r)
    OBVIOUS
  <2>2. h \in Hook
    BY <2>1 DEF SampleHook, Hook
  <2>3. /\ hooks[w] = Absent /\ writes' \in Nat /\ UNCHANGED <<row, sample, edge, cache, reader>>
        /\ hooks' = [hooks EXCEPT ![w] = h]
    BY <1>2, <2>1 DEF PostRelationshipMetrics, Writable, database, IInv, TypeOK
  <2> QED BY <2>2, <2>3, PostKeepsIInv DEF IInv, TypeOK
<1> QED BY <1>1, <1>2

\* What w's invalidation leaves: an entity that was only due to it is cached
\* no more, and in the hands of a reader it is late.
LEMMA InvalidateKeepsIInv == ASSUME IInv, NEW w \in Writers, Invalidate(w) PROVE IInv'
<1> USE DEF IInv
<1>1. PICK h : h = hooks[w]
  OBVIOUS
<1>2. /\ h # Absent /\ hooks' = [hooks EXCEPT ![w] = Absent]
      /\ UNCHANGED <<row, sample, edge, writes>>
  BY <1>1 DEF Invalidate, database
<1>3. \A e \in EntIDs : entityCache'[e] =
           IF h.kind = "entity" /\ e \in h.ids THEN Absent ELSE entityCache[e]
  BY <1>1 DEF Invalidate
<1>4. entityCache' \in [EntIDs -> Value \cup {Absent}]
  <2>1. entityCache' = [e \in EntIDs |->
            IF h.kind = "entity" /\ e \in h.ids THEN Absent ELSE entityCache[e]]
    BY <1>1 DEF Invalidate
  <2> QED BY <2>1 DEF TypeOK
<1>5. /\ DOMAIN neighborCache' = Keys
      /\ \A k \in Keys : neighborCache'[k] = Absent \/ neighborCache'[k] = neighborCache[k]
  BY DEF Invalidate
<1>6. TypeOK'
  <2>1. \A k \in Keys : neighborCache'[k] = Absent \/ IsNeighborhood(neighborCache'[k])
    BY <1>5 DEF TypeOK
  <2> QED BY <1>2, <1>4, <2>1 DEF TypeOK, IsNeighborhood
<1>7. ASSUME NEW e \in EntIDs, PendingEntity(e), ~(h.kind = "entity" /\ e \in h.ids)
      PROVE  PendingEntity(e)'
  <2>1. PICK x \in Writers : hooks[x] # Absent /\ hooks[x].kind = "entity" /\ e \in hooks[x].ids
    BY <1>7 DEF PendingEntity
  <2>2. x # w
    BY <1>1, <1>7, <2>1
  <2>3. hooks'[x] = hooks[x]
    BY <1>2, <2>2 DEF TypeOK
  <2> QED BY <2>1, <2>3 DEF PendingEntity
<1>8. EntitiesFresh'
  BY <1>2, <1>3, <1>7 DEF EntitiesFresh, Current
<1>9. DOMAIN reader' = Readers
  BY DEF Invalidate
<1>10. ASSUME NEW r \in Readers PROVE IsReader(reader[r])'
  <2>1. PICK s : s = reader[r]
    OBVIOUS
  <2>2. CASE s = Absent
    <3>1. reader'[r] = Absent
      BY <2>1, <2>2 DEF Invalidate
    <3> QED BY <3>1 DEF IsReader
  <2>3. CASE s # Absent
    <3>1. s \in ReaderState /\ Trusted(s) /\ s.id \in EntIDs /\ s.val \in Partly
          /\ s.late \in BOOLEAN
      BY <2>1, <2>3 DEF IsReader, ReaderState
    <3>2. PICK hit \in BOOLEAN : hit = (Named(h) \cap DOMAIN s.nodes # {})
      OBVIOUS
    <3>3. PICK mine \in BOOLEAN : mine = (h.kind = "entity" /\ s.id \in h.ids)
      OBVIOUS
    <3>4. reader'[r] = [s EXCEPT !.late = @ \/ (Named(h) \cap DOMAIN s.nodes # {}),
                                 !.val.late = @ \/ (h.kind = "entity" /\ s.id \in h.ids)]
      BY <1>1, <2>1, <2>3 DEF Invalidate
    <3>5. PICK late \in BOOLEAN : late = (s.late \/ hit)
      BY <3>1
    <3>6. PICK vlate \in BOOLEAN : vlate = (s.val.late \/ mine)
      BY <3>1 DEF Partly
    <3>7. PICK val : val = [s.val EXCEPT !.late = vlate]
      OBVIOUS
    <3>8. /\ val \in Partly /\ val.row = s.val.row /\ val.sample = s.val.sample
          /\ val.bare = s.val.bare /\ val.late = vlate
      BY <3>1, <3>7 DEF Partly
    <3>9. PICK t : t = [s EXCEPT !.late = late, !.val = val]
      OBVIOUS
    <3>10. reader'[r] = t
      BY <3>2, <3>3, <3>4, <3>5, <3>6, <3>7, <3>9
    <3>11. t \in ReaderState /\ t.at = s.at /\ t.id = s.id /\ t.val = val
      BY <3>1, <3>8, <3>9 DEF ReaderState
    <3>12. Trusted(t)'
      BY <1>2, <1>7, <3>1, <3>3, <3>6, <3>8, <3>11 DEF Trusted, Current
    <3> QED BY <3>10, <3>11, <3>12 DEF IsReader, Trusted
  <2> QED BY <2>2, <2>3
<1> QED BY <1>5, <1>6, <1>8, <1>9, <1>10

-----------------------------------------------------------------------------
LEMMA ExpireKeepsIInv == ASSUME IInv, Expire PROVE IInv'
<1> USE DEF IInv
<1>1. /\ UNCHANGED <<row, sample, edge, hooks, reader, writes>>
      /\ entityCache' \in [EntIDs -> Value \cup {Absent}]
      /\ \A e \in EntIDs : entityCache'[e] = Absent \/ entityCache'[e] = entityCache[e]
  BY DEF Expire, database, TypeOK
<1>2. /\ DOMAIN neighborCache' = Keys
      /\ \A k \in Keys : neighborCache'[k] = Absent \/ neighborCache'[k] = neighborCache[k]
  BY DEF Expire
<1>3. TypeOK'
  BY <1>1, <1>2 DEF TypeOK, IsNeighborhood
<1>4. EntitiesFresh'
  BY <1>1 DEF EntitiesFresh, Current, PendingEntity
<1>5. \A r \in Readers : IsReader(reader[r])'
  BY <1>1, SameTrust
<1> QED BY <1>1, <1>2, <1>3, <1>4, <1>5 DEF IsReader, Trusted

LEMMA RestartKeepsIInv == ASSUME IInv, Restart PROVE IInv'
<1> USE DEF IInv
<1>1. TypeOK'
  BY DEF Restart, database, TypeOK
<1>2. EntitiesFresh'
  BY DEF Restart, EntitiesFresh
<1>3. DOMAIN reader' = Readers /\ DOMAIN neighborCache' = Keys
  BY DEF Restart
<1>4. \A r \in Readers : IsReader(reader[r])'
  BY DEF Restart, IsReader
<1> QED BY <1>1, <1>2, <1>3, <1>4

LEMMA InitIInv == Init => IInv
<1> SUFFICES ASSUME Init PROVE IInv
  OBVIOUS
<1>1. row \in [EntIDs -> Nat] /\ edge \in [RelIDs -> Edge \cup {Absent}]
  <2>1. PICK d \in Databases : row = d.row /\ edge = d.edge
    BY DEF Init
  <2>2. d \in Database
    BY CacheAssumption
  <2> QED BY <2>1, <2>2 DEF Database
<1> QED BY <1>1 DEF Init, IInv, TypeOK, EntitiesFresh, IsReader

LEMMA NextKeepsIInv == IInv /\ [Next]_vars => IInv'
<1> SUFFICES ASSUME IInv, [Next]_vars PROVE IInv'
  OBVIOUS
<1>1. CASE UNCHANGED vars
  <2>1. UNCHANGED <<row, sample, edge, hooks, entityCache, neighborCache, reader, writes>>
    BY <1>1 DEF vars, database, cache
  <2>2. \A r \in Readers : IsReader(reader[r])'
    BY <2>1, SameTrust DEF IInv
  <2> QED BY <2>1, <2>2 DEF IInv, TypeOK, EntitiesFresh, Current, PendingEntity,
                            IsNeighborhood, IsReader, Trusted
<1>2. ASSUME NEW w \in Writers,
             \/ \E e \in EntIDs : MutateEntity(w, e) \/ PostEntityMetrics(w, e)
             \/ \E r \in RelIDs : MutateRelationship(w, r) \/ PostRelationshipMetrics(w, r)
             \/ Invalidate(w)
      PROVE  IInv'
  BY <1>2, MutateEntityKeepsIInv, MutateRelationshipKeepsIInv, InvalidateKeepsIInv
<1>3. ASSUME NEW r \in Readers,
             \/ \E e \in EntIDs : StartEntity(r, e) \/ StartByName(r, e)
             \/ \E k \in Keys : StartNeighborhood(r, k)
      PROVE  IInv'
  BY <1>3, StartsKeepIInv
<1>4. ASSUME NEW r \in Readers, GetHit(r) \/ GetMiss(r) PROVE IInv'
  BY <1>4, GetKeepsIInv
<1>5. ASSUME NEW r \in Readers,
             ReadRow(r) \/ CheckCached(r) \/ ReadSample(r) \/ FillEntity(r)
      PROVE  IInv'
  BY <1>5, ReadRowKeepsIInv, CheckCachedKeepsIInv, ReadSampleKeepsIInv, FillEntityKeepsIInv
<1>6. ASSUME NEW r \in Readers, Traverse(r) \/ FillNeighborhood(r) \/ ReadFails(r)
      PROVE  IInv'
  BY <1>6, TraverseKeepsIInv, FillNeighborhoodKeepsIInv, ReadFailsKeepsIInv
<1> QED BY <1>1, <1>2, <1>3, <1>4, <1>5, <1>6, ExpireKeepsIInv, RestartKeepsIInv DEF Next

\* What is cached and what readers have in hand are typed and trusted in every
\* reachable state.
THEOREM InductiveInvariant == Spec => []IInv
BY InitIInv, NextKeepsIInv, PTL DEF Spec

\* Every variable keeps its type: in particular a value without a row is never
\* cached, however readers, batches and restarts interleave.
THEOREM TypeCorrect == Spec => []TypeOK
<1>1. IInv => TypeOK
  BY DEF IInv
<1> QED BY <1>1, InductiveInvariant, PTL

\* GetEntity and GetEntityByName answer from layer 1 only what is current, or
\* is about to be invalidated, or was filled after its invalidation: for any
\* number of concurrent readers, writers and batches.
THEOREM EntitiesFreshHolds == Spec => []EntitiesFresh
<1>1. IInv => EntitiesFresh
  BY DEF IInv
<1> QED BY <1>1, InductiveInvariant, PTL

-----------------------------------------------------------------------------
(***************************************************************************)
(* The neighborhood layer.  First, what a neighborhood is, one depth after *)
(* another.                                                                *)
(***************************************************************************)

\* What the nodes X lead to, and along which edges.
Reach(g, X, dir) == UNION {Follow(g, r, n, dir) : r \in RelIDs, n \in X}

EdgesFrom(g, X, dir) == UNION {EdgesOf(g, n, dir) : n \in X}

\* The nodes nearer to the origin of the neighborhood k than j.
Ball(g, k, j) == IF j = 0 THEN {} ELSE NodesWithin(g, k[1], j - 1, k[3])

\* f are the nodes within each depth up to m.
IsWithin(f, g, o, dir, m) ==
    f = [d \in 0 .. m |-> IF d = 0 THEN {o} ELSE f[d - 1] \cup Reach(g, f[d - 1], dir)]

\* A property of natural numbers that holds of 0, and of each number that
\* comes after one it holds of, holds of all: where it fails, S, there is a
\* least one.
LEMMA LeastFailure ==
    ASSUME NEW S \in SUBSET Nat, 0 \notin S,
           \A n \in Nat : n \notin S => n + 1 \notin S
    PROVE  S = {}
<1>1. SUFFICES ASSUME S # {} PROVE FALSE
  OBVIOUS
<1>2. PICK n \in S : \A m \in S : <<m, n>> \notin OpToRel(<, Nat)
  BY <1>1, NatLessThanWellFounded, WFMin
<1>3. n \in Nat /\ n # 0 /\ n - 1 \in Nat
  OBVIOUS
<1>4. n - 1 \in S
  BY <1>3
<1>5. <<n - 1, n>> \in OpToRel(<, Nat)
  BY <1>3 DEF OpToRel
<1> QED
  BY <1>2, <1>4, <1>5

LEMMA WithinSteps ==
    ASSUME NEW f, NEW g, NEW o, NEW dir, NEW m \in Nat, IsWithin(f, g, o, dir, m)
    PROVE  f[0] = {o} /\ \A i \in 1 .. m : f[i] = f[i - 1] \cup Reach(g, f[i - 1], dir)
<1> DEFINE at(i) == IF i = 0 THEN {o} ELSE f[i - 1] \cup Reach(g, f[i - 1], dir)
<1>1. f = [i \in 0 .. m |-> at(i)]
  BY DEF IsWithin
<1> HIDE DEF at
<1>2. \A i \in 0 .. m : f[i] = at(i)
  BY <1>1
<1>3. 0 \in 0 .. m /\ \A i \in 1 .. m : i \in 0 .. m /\ i # 0
  OBVIOUS
<1>4. at(0) = {o} /\ \A i \in 1 .. m : at(i) = f[i - 1] \cup Reach(g, f[i - 1], dir)
  BY <1>3 DEF at
<1> QED
  BY <1>2, <1>3, <1>4

LEMMA WithinExists ==
    ASSUME NEW g, NEW o, NEW dir, NEW k \in Nat
    PROVE  \E f : IsWithin(f, g, o, dir, k)
<1> DEFINE S == {n \in Nat : ~\E f : IsWithin(f, g, o, dir, n)}
<1>1. 0 \notin S
  <2>1. IsWithin([n \in 0 .. 0 |-> {o}], g, o, dir, 0)
    BY DEF IsWithin
  <2> QED
    BY <2>1
<1>2. ASSUME NEW n \in Nat, n \notin S
      PROVE  n + 1 \notin S
  <2>1. PICK f : IsWithin(f, g, o, dir, n)
    BY <1>2
  <2> DEFINE next == f[n] \cup Reach(g, f[n], dir)
             h == [m \in 0 .. n + 1 |-> IF m = n + 1 THEN next ELSE f[m]]
  <2>2. \A m \in 0 .. n : h[m] = f[m]
    OBVIOUS
  <2>3. h[n + 1] = next /\ f[n] = h[n]
    BY <2>2
  <2>4. f[0] = {o} /\ \A m \in 1 .. n : f[m] = f[m - 1] \cup Reach(g, f[m - 1], dir)
    BY <2>1, WithinSteps
  <2>5. \A m \in 1 .. n : m - 1 \in 0 .. n
    OBVIOUS
  <2>6. ASSUME NEW m \in 0 .. n + 1
        PROVE  h[m] = IF m = 0 THEN {o} ELSE h[m - 1] \cup Reach(g, h[m - 1], dir)
    <3> HIDE DEF h
    <3>1. CASE m = 0
      BY <3>1, <2>2, <2>4
    <3>2. CASE m = n + 1
      <4>1. m - 1 = n /\ m # 0
        BY <3>2
      <4> QED
        BY <3>2, <2>3, <4>1
    <3>3. CASE m \in 1 .. n
      <4>1. m - 1 \in 0 .. n /\ m \in 0 .. n /\ m # 0
        BY <3>3
      <4>2. h[m] = f[m] /\ h[m - 1] = f[m - 1]
        BY <2>2, <4>1
      <4> QED
        BY <3>3, <2>4, <4>1, <4>2
    <3> QED
      BY <3>1, <3>2, <3>3
  <2>7. h = [m \in 0 .. n + 1 |-> h[m]]
    OBVIOUS
  <2>8. IsWithin(h, g, o, dir, n + 1)
    <3> HIDE DEF h
    <3> QED
      BY <2>6, <2>7 DEF IsWithin
  <2> QED
    BY <2>8
<1> HIDE DEF S
<1>3. S = {}
  BY <1>1, <1>2, LeastFailure DEF S
<1> QED
  BY <1>3 DEF S

\* NodesWithin is where such an f ends, and all of them agree.
LEMMA WithinIs ==
    ASSUME NEW g, NEW o, NEW dir, NEW m \in Nat
    PROVE  \E f : IsWithin(f, g, o, dir, m) /\ NodesWithin(g, o, m, dir) = f[m]
<1> DEFINE within == CHOOSE f : IsWithin(f, g, o, dir, m)
<1>1. IsWithin(within, g, o, dir, m)
  BY WithinExists
<1>2. NodesWithin(g, o, m, dir) = within[m]
  BY DEF NodesWithin, IsWithin, Reach
<1> QED
  BY <1>1, <1>2

LEMMA WithinAgree ==
    ASSUME NEW g, NEW o, NEW dir, NEW m \in Nat, NEW n \in Nat, NEW f, NEW h,
           IsWithin(f, g, o, dir, m), IsWithin(h, g, o, dir, n)
    PROVE  \A i \in 0 .. m : i <= n => f[i] = h[i]
<1> DEFINE S == {i \in Nat : i <= m /\ i <= n /\ f[i] # h[i]}
<1>1. /\ f[0] = {o} /\ \A i \in 1 .. m : f[i] = f[i - 1] \cup Reach(g, f[i - 1], dir)
      /\ h[0] = {o} /\ \A i \in 1 .. n : h[i] = h[i - 1] \cup Reach(g, h[i - 1], dir)
  BY WithinSteps
<1>2. 0 \notin S
  BY <1>1
<1>3. ASSUME NEW i \in Nat, i \notin S
      PROVE  i + 1 \notin S
  <2>1. SUFFICES ASSUME i + 1 <= m, i + 1 <= n PROVE f[i + 1] = h[i + 1]
    OBVIOUS
  <2>2. i <= m /\ i <= n /\ i + 1 \in 1 .. m /\ i + 1 \in 1 .. n /\ (i + 1) - 1 = i
    BY <2>1
  <2>3. f[i] = h[i]
    BY <1>3, <2>2
  <2> QED
    BY <1>1, <2>2, <2>3
<1> HIDE DEF S
<1>4. S = {}
  BY <1>2, <1>3, LeastFailure DEF S
<1> QED
  BY <1>4 DEF S

LEMMA NodesWithinStep ==
    ASSUME NEW g, NEW o, NEW dir
    PROVE  /\ NodesWithin(g, o, 0, dir) = {o}
           /\ \A m \in Nat : NodesWithin(g, o, m + 1, dir) =
                 NodesWithin(g, o, m, dir) \cup Reach(g, NodesWithin(g, o, m, dir), dir)
<1>1. NodesWithin(g, o, 0, dir) = {o}
  <2>1. PICK f : IsWithin(f, g, o, dir, 0) /\ NodesWithin(g, o, 0, dir) = f[0]
    BY WithinIs
  <2> QED
    BY <2>1, WithinSteps
<1>2. ASSUME NEW m \in Nat
      PROVE  NodesWithin(g, o, m + 1, dir) =
                NodesWithin(g, o, m, dir) \cup Reach(g, NodesWithin(g, o, m, dir), dir)
  <2>1. PICK f : IsWithin(f, g, o, dir, m) /\ NodesWithin(g, o, m, dir) = f[m]
    BY WithinIs
  <2>2. m + 1 \in Nat
    OBVIOUS
  <2>3. PICK h : IsWithin(h, g, o, dir, m + 1) /\ NodesWithin(g, o, m + 1, dir) = h[m + 1]
    BY <2>2, WithinIs
  <2>4. f[m] = h[m]
    BY <2>1, <2>2, <2>3, WithinAgree
  <2>5. h[m + 1] = h[m] \cup Reach(g, h[m], dir)
    <3>1. m + 1 \in 1 .. m + 1 /\ (m + 1) - 1 = m
      OBVIOUS
    <3>2. \A i \in 1 .. m + 1 : h[i] = h[i - 1] \cup Reach(g, h[i - 1], dir)
      BY <2>2, <2>3, WithinSteps
    <3> QED
      BY <3>1, <3>2
  <2> QED
    BY <2>1, <2>3, <2>4, <2>5
<1> QED
  BY <1>1, <1>2

\* What comes with one more step: the origin, then the nodes next to those
\* that are nearer.
LEMMA BallStep ==
    ASSUME NEW g, NEW k
    PROVE  /\ Ball(g, k, 0) = {}
           /\ \A j \in Nat : Ball(g, k, j + 1) =
                 {k[1]} \cup Ball(g, k, j) \cup Reach(g, Ball(g, k, j), k[3])
<1> DEFINE W(m) == NodesWithin(g, k[1], m, k[3])
<1>1. W(0) = {k[1]} /\ \A m \in Nat : W(m + 1) = W(m) \cup Reach(g, W(m), k[3])
  BY NodesWithinStep
<1> HIDE DEF W
<1>2. \A m \in Nat : k[1] \in W(m)
  <2> DEFINE S == {m \in Nat : k[1] \notin W(m)}
  <2>1. 0 \notin S
    BY <1>1
  <2>2. ASSUME NEW m \in Nat, m \notin S PROVE m + 1 \notin S
    BY <1>1, <2>2
  <2> HIDE DEF S
  <2>3. S = {}
    BY <2>1, <2>2, LeastFailure DEF S
  <2> QED
    BY <2>3 DEF S
<1>3. ASSUME NEW j \in Nat
      PROVE  Ball(g, k, j + 1) = {k[1]} \cup Ball(g, k, j) \cup Reach(g, Ball(g, k, j), k[3])
  <2>1. Ball(g, k, j + 1) = W(j)
    BY DEF Ball, W
  <2>2. CASE j = 0
    <3>1. Ball(g, k, j) = {}
      BY <2>2 DEF Ball
    <3>2. Reach(g, {}, k[3]) = {}
      BY DEF Reach
    <3> QED
      BY <1>1, <2>1, <2>2, <3>1, <3>2
  <2>3. CASE j # 0
    <3>1. j - 1 \in Nat /\ (j - 1) + 1 = j
      BY <2>3
    <3>2. Ball(g, k, j) = W(j - 1)
      BY <2>3 DEF Ball, W
    <3>3. W(j) = W(j - 1) \cup Reach(g, W(j - 1), k[3]) /\ k[1] \in W(j - 1)
      BY <1>1, <1>2, <3>1
    <3> QED
      BY <2>1, <3>2, <3>3
  <2> QED
    BY <2>2, <2>3
<1>4. Ball(g, k, 0) = {}
  BY DEF Ball
<1> QED
  BY <1>3, <1>4

LEMMA BallGrows ==
    ASSUME NEW g, NEW k, NEW j \in Nat
    PROVE  \A i \in 0 .. j : Ball(g, k, i) \subseteq Ball(g, k, j)
<1> DEFINE S == {m \in Nat : ~\A i \in 0 .. m : Ball(g, k, i) \subseteq Ball(g, k, m)}
<1>1. 0 \notin S
  OBVIOUS
<1>2. ASSUME NEW m \in Nat, m \notin S PROVE m + 1 \notin S
  <2>1. Ball(g, k, m) \subseteq Ball(g, k, m + 1)
    <3>1. Ball(g, k, m + 1) = {k[1]} \cup Ball(g, k, m) \cup Reach(g, Ball(g, k, m), k[3])
      BY BallStep
    <3> QED
      BY <3>1
  <2>2. ASSUME NEW i \in 0 .. m + 1 PROVE Ball(g, k, i) \subseteq Ball(g, k, m + 1)
    <3>1. CASE i = m + 1
      BY <3>1
    <3>2. CASE i \in 0 .. m
      BY <1>2, <2>1, <3>2
    <3> QED
      BY <3>1, <3>2
  <2> QED
    BY <2>2
<1> HIDE DEF S
<1>3. S = {}
  BY <1>1, <1>2, LeastFailure DEF S
<1> QED
  BY <1>3 DEF S

\* When a step leads to nothing new, no further one does.
LEMMA BallStays ==
    ASSUME NEW g, NEW k, NEW j \in Nat, Ball(g, k, j + 1) = Ball(g, k, j)
    PROVE  \A i \in Nat : Ball(g, k, j + i) = Ball(g, k, j)
<1> DEFINE S == {i \in Nat : Ball(g, k, j + i) # Ball(g, k, j)}
<1>1. 0 \notin S
  BY j + 0 = j
<1>2. ASSUME NEW i \in Nat, i \notin S PROVE i + 1 \notin S
  <2>1. j + i \in Nat /\ j + (i + 1) = (j + i) + 1
    OBVIOUS
  <2>2. Ball(g, k, j + i) = Ball(g, k, j)
    BY <1>2
  <2>3. Ball(g, k, (j + i) + 1) =
           {k[1]} \cup Ball(g, k, j + i) \cup Reach(g, Ball(g, k, j + i), k[3])
    BY <2>1, BallStep
  <2>4. Ball(g, k, j + 1) = {k[1]} \cup Ball(g, k, j) \cup Reach(g, Ball(g, k, j), k[3])
    BY BallStep
  <2>5. Ball(g, k, j + (i + 1)) = Ball(g, k, j)
    BY <2>1, <2>2, <2>3, <2>4
  <2> QED
    BY <2>5
<1> HIDE DEF S
<1>3. S = {}
  BY <1>1, <1>2, LeastFailure DEF S
<1> QED
  BY <1>3 DEF S

\* Two graphs in which the nodes X have the same edges.
SameAt(g, g2, X, dir) ==
    \A n \in X : \A r \in RelIDs : Follow(g2, r, n, dir) = Follow(g, r, n, dir)

LEMMA SameReach ==
    ASSUME NEW g, NEW g2, NEW X, NEW dir, SameAt(g, g2, X, dir)
    PROVE  /\ Reach(g2, X, dir) = Reach(g, X, dir)
           /\ EdgesFrom(g2, X, dir) = EdgesFrom(g, X, dir)
<1>1. ASSUME NEW n \in X PROVE EdgesOf(g2, n, dir) = EdgesOf(g, n, dir)
  BY DEF SameAt, EdgesOf
<1>2. EdgesFrom(g2, X, dir) = EdgesFrom(g, X, dir)
  BY <1>1 DEF EdgesFrom
<1>3. Reach(g2, X, dir) = Reach(g, X, dir)
  BY DEF SameAt, Reach
<1> QED
  BY <1>2, <1>3

\* What is nearer than j, but for the last step, is in X.
Inside(g, k, j, X) == \A i \in Nat : i < j => Ball(g, k, i) \subseteq X

\* What is near depends only on the edges of what is nearer.
LEMMA SameBall ==
    ASSUME NEW g, NEW g2, NEW k, NEW j \in Nat, NEW X, NEW dir, dir = k[3],
           SameAt(g, g2, X, dir), Inside(g, k, j, X)
    PROVE  \A i \in 0 .. j : Ball(g2, k, i) = Ball(g, k, i)
<1> DEFINE S == {i \in Nat : i <= j /\ Ball(g2, k, i) # Ball(g, k, i)}
<1>1. 0 \notin S
  BY BallStep
<1>2. ASSUME NEW i \in Nat, i \notin S PROVE i + 1 \notin S
  <2>1. SUFFICES ASSUME i + 1 <= j PROVE Ball(g2, k, i + 1) = Ball(g, k, i + 1)
    OBVIOUS
  <2>2. Ball(g2, k, i) = Ball(g, k, i) /\ Ball(g, k, i) \subseteq X
    BY <1>2, <2>1 DEF Inside
  <2>3. SameAt(g, g2, Ball(g, k, i), k[3])
    BY <2>2 DEF SameAt
  <2>4. Reach(g2, Ball(g, k, i), k[3]) = Reach(g, Ball(g, k, i), k[3])
    BY <2>3, SameReach
  <2>5. /\ Ball(g, k, i + 1) = {k[1]} \cup Ball(g, k, i) \cup Reach(g, Ball(g, k, i), k[3])
        /\ Ball(g2, k, i + 1) = {k[1]} \cup Ball(g2, k, i) \cup Reach(g2, Ball(g2, k, i), k[3])
    BY BallStep
  <2> QED
    BY <2>2, <2>4, <2>5
<1> HIDE DEF S
<1>3. S = {}
  BY <1>1, <1>2, LeastFailure DEF S
<1> QED
  BY <1>3 DEF S

LEMMA FollowIs ==
    ASSUME NEW g, NEW r, NEW n, NEW dir, NEW y
    PROVE  y \in Follow(g, r, n, dir) <=>
              /\ g[r] # Absent /\ g[r].active
              /\ \/ dir # "in" /\ g[r].from = n /\ y = g[r].to
                 \/ dir # "out" /\ g[r].to = n /\ y = g[r].from
BY DEF Follow, Active

\* An edge that has been found at one end leads from the other one there.
LEMMA OtherEnd ==
    ASSUME NEW g, NEW r, NEW m, NEW n, NEW dir, m # n, Follow(g, r, m, dir) # {}
    PROVE  Follow(g, r, n, dir) \subseteq {m}
<1>1. m \in {g[r].from, g[r].to}
  BY FollowIs
<1> QED
  BY <1>1, FollowIs

\* What a neighborhood is, by its distances.
LEMMA ExactIs ==
    ASSUME NEW g, NEW k, k[2] \in Nat
    PROVE  /\ NodesWithin(g, k[1], k[2], k[3]) = Ball(g, k, k[2] + 1)
           /\ EdgesWithin(g, k[1], k[2], k[3]) = EdgesFrom(g, Ball(g, k, k[2]), k[3])
<1>1. k[2] + 1 # 0 /\ (k[2] + 1) - 1 = k[2]
  OBVIOUS
<1>2. EdgesFrom(g, {}, k[3]) = {}
  BY DEF EdgesFrom
<1> QED
  BY <1>1, <1>2 DEF Ball, EdgesWithin, EdgesFrom

-----------------------------------------------------------------------------
(***************************************************************************)
(* What a traversal knows.                                                 *)
(***************************************************************************)

\* The nodes that a reader is loading.
Pend(s) == IF s.at = "edges" THEN {} ELSE s.load \cup {s.id}

\* An invalidation of one of these entities is still to run, whatever becomes
\* of the graph before it runs.
Due(ids) == \E w \in Writers :
    hooks[w] # Absent /\ hooks[w].kind # "sample" /\ hooks[w].ids \cap ids # {}

\* What NeighborhoodsFresh excepts, of a cached neighborhood or of what a
\* reader has of one so far.
Overtaken(n) == ~InTime(n) \/ ~Unmoved(n) \/ Due(DOMAIN n.nodes)

\* The search from the origin has come as far as j: the nodes nearer than j
\* have been loaded, and but for the frontier their edges have been followed.
Gathered(s) ==
    LET k == s.key
        j == k[2] - s.depth
        near == Ball(edge, k, j)
        followed == near \ s.frontier
    IN  /\ DOMAIN s.nodes \ s.next = near
        /\ s.frontier \subseteq near
        /\ j > 0 => s.frontier \cap Ball(edge, k, j - 1) = {}
        /\ DOMAIN s.nodes \cup Pend(s) = {k[1]} \cup near \cup Reach(edge, followed, k[3])
        /\ DOMAIN s.edges = EdgesFrom(edge, followed, k[3])
        /\ \A r \in DOMAIN s.edges : s.edges[r] = edge[r]
        /\ \A e \in DOMAIN s.nodes : Current(e, s.nodes[e])

\* An edge is found at a node.
Anchored(n) == \A r \in DOMAIN n.edges :
    n.edges[r].from \in DOMAIN n.nodes \/ n.edges[r].to \in DOMAIN n.nodes

\* What holds of a traversal even if it was overtaken: it loads no node twice,
\* and none that is not there.
Sane(s) ==
    /\ s.depth \in 0 .. s.key[2]
    /\ s.next \subseteq DOMAIN s.nodes /\ s.frontier \subseteq DOMAIN s.nodes
    /\ Pend(s) \cap DOMAIN s.nodes = {}
    /\ s.id \notin s.load
    /\ \A e \in s.load : row[e] # 0
    /\ s.at # "edges" /\ DOMAIN s.nodes # {} => row[s.id] # 0
    /\ Anchored(s)

IsTraversal(s) ==
    s # Absent /\ s.key \in Keys => Sane(s) /\ (Overtaken(s) \/ Gathered(s))

IsCached(k, n) == n # Absent => Anchored(n) /\ (Overtaken(n) \/ Exact(k, n))

Linked == \A r \in RelIDs :
    edge[r] # Absent => row[edge[r].from] # 0 /\ row[edge[r].to] # 0

NInv ==
    /\ IInv
    /\ Linked
    /\ \A r \in Readers : IsTraversal(reader[r])
    /\ \A k \in Keys : IsCached(k, neighborCache[k])

\* They depend on the database and the pending hooks only.
LEMMA SameTraversal ==
    ASSUME UNCHANGED <<row, sample, edge, hooks>>
    PROVE  /\ \A s : IsTraversal(s)' <=> IsTraversal(s)
           /\ \A k, n : IsCached(k, n)' <=> IsCached(k, n)
<1>1. \A e, v : Current(e, v)' <=> Current(e, v)
  BY DEF Current
<1>2. \A n : Overtaken(n)' <=> Overtaken(n)
  BY DEF Overtaken, Unmoved, InTime, Due
<1>3. \A s : Gathered(s)' <=> Gathered(s)
  BY <1>1 DEF Gathered
<1>4. \A k, n : Exact(k, n)' <=> Exact(k, n)
  BY <1>1 DEF Exact
<1> QED
  BY <1>2, <1>3, <1>4 DEF IsTraversal, IsCached, Sane, Anchored

\* What was overtaken stays so when the reader gathers more.
LEMMA StaysOvertaken ==
    ASSUME NEW s, NEW t, Overtaken(s), s.late => t.late,
           \A e \in DOMAIN s.nodes : e \in DOMAIN t.nodes /\ t.nodes[e] = s.nodes[e],
           \A r \in DOMAIN s.edges : r \in DOMAIN t.edges /\ t.edges[r] = s.edges[r]
    PROVE  Overtaken(t)
<1>1. CASE ~InTime(s)
  BY <1>1 DEF InTime, Overtaken
<1>2. CASE ~Unmoved(s)
  BY <1>2 DEF Unmoved, Overtaken
<1>3. CASE Due(DOMAIN s.nodes)
  <2>1. Due(DOMAIN t.nodes)
    BY <1>3 DEF Due
  <2> QED
    BY <2>1 DEF Overtaken
<1> QED
  BY <1>1, <1>2, <1>3 DEF Overtaken

\* What holds of t in the next state, when t is what a reader then has or
\* what is then cached.
LEMMA NextReader ==
    ASSUME NEW r, NEW t, reader'[r] = t, IsTraversal(t)'
    PROVE  IsTraversal(reader[r])'
<1>1. Sane(t)' => Sane(reader[r])'
  BY DEF Sane, Anchored, Pend
<1>2. Overtaken(t)' => Overtaken(reader[r])'
  BY DEF Overtaken, InTime, Unmoved
<1>3. Gathered(t)' => Gathered(reader[r])'
  BY DEF Gathered, Pend
<1> QED
  BY <1>1, <1>2, <1>3 DEF IsTraversal

LEMMA NextCached ==
    ASSUME NEW k, NEW n, neighborCache'[k] = n, IsCached(k, n)'
    PROVE  IsCached(k, neighborCache[k])'
<1>1. Overtaken(n)' => Overtaken(neighborCache[k])'
  BY DEF Overtaken, InTime, Unmoved
<1>2. Exact(k, n)' => Exact(k, neighborCache[k])'
  BY DEF Exact
<1> QED
  BY <1>1, <1>2 DEF IsCached, Anchored

-----------------------------------------------------------------------------
(* The steps of a reader. *)

LEMMA TraversalKeepsNInv ==
    ASSUME NInv, IInv', NEW r \in Readers, NEW s, IsTraversal(s),
           reader' = [reader EXCEPT ![r] = s],
           UNCHANGED <<row, sample, edge, hooks>>,
           \A k \in Keys : \/ neighborCache'[k] = neighborCache[k]
                         \/ \E n : n = neighborCache'[k] /\ IsCached(k, n)
    PROVE  NInv'
<1>1. ASSUME NEW x \in Readers PROVE IsTraversal(reader[x])'
  <2>1. PICK t : t = reader'[x]
    OBVIOUS
  <2>2. IsTraversal(t)
    BY <2>1 DEF NInv, IInv
  <2>3. IsTraversal(t)'
    BY <2>2, SameTraversal
  <2> QED
    BY <2>1, <2>3, NextReader
<1>2. ASSUME NEW x \in Keys PROVE IsCached(x, neighborCache[x])'
  <2>1. PICK t : t = neighborCache'[x]
    OBVIOUS
  <2>2. IsCached(x, t)
    BY <2>1 DEF NInv, IInv
  <2>3. IsCached(x, t)'
    BY <2>2, SameTraversal
  <2> QED
    BY <2>1, <2>3, NextCached
<1>3. Linked'
  BY DEF NInv, Linked
<1> QED
  BY <1>1, <1>2, <1>3 DEF NInv

\* A reader of one entity is no traversal.
LEMMA EntityReader ==
    ASSUME NEW s, s.key \in {NoKey, ByName}
    PROVE  IsTraversal(s)
BY CacheAssumption DEF IsTraversal

LEMMA AbsentReader == IsTraversal(Absent)
BY DEF IsTraversal

\* The search starts at its origin.
LEMMA StartTraverses ==
    ASSUME NEW r \in Readers, NEW k \in Keys, StartNeighborhood(r, k)
    PROVE  \E s : IsTraversal(s) /\ reader' = [reader EXCEPT ![r] = s]
<1>1. PICK fresh, none : fresh = Fresh /\ none = Nothing
  OBVIOUS
<1>2. DOMAIN none = {}
  BY <1>1 DEF Nothing
<1>3. PICK s : s = [key |-> k, at |-> "get", id |-> k[1], val |-> fresh,
                    nodes |-> none, edges |-> none, load |-> {}, frontier |-> {},
                    next |-> {}, depth |-> k[2], late |-> FALSE]
  OBVIOUS
<1>4. k \in EntIDs \X (0 .. 5) \X Directions
  BY CacheAssumption
<1>5. k[2] \in 0 .. 5
  BY <1>4
<1>6. k[2] - s.depth = 0 /\ s.depth \in 0 .. k[2]
  BY <1>3, <1>5
<1>7. Ball(edge, k, 0) = {} /\ Reach(edge, {}, k[3]) = {} /\ EdgesFrom(edge, {}, k[3]) = {}
  BY BallStep DEF Reach, EdgesFrom
<1>8. Gathered(s)
  BY <1>2, <1>3, <1>6, <1>7 DEF Gathered, Pend
<1>9. Sane(s)
  BY <1>2, <1>3, <1>6 DEF Sane, Anchored, Pend
<1>10. reader' = [reader EXCEPT ![r] = s]
  BY <1>1, <1>3 DEF StartNeighborhood, Start
<1> QED
  BY <1>8, <1>9, <1>10 DEF IsTraversal

\* A node that was loaded counts among the nodes, and nothing else changes
\* of what has been gathered.
LEMMA LoadedKeeps ==
    ASSUME NEW s \in ReaderState, s.key \in Keys, s.at # "edges", IsTraversal(s), s # Absent,
           NEW val \in Value, val.late \/ Current(s.id, val) \/ Due({s.id}),
           NEW t, t.key = s.key, t.nodes = Put(s.nodes, s.id, val), t.next = s.next \cup {s.id},
           t.edges = s.edges, t.frontier = s.frontier, t.depth = s.depth, t.late = s.late,
           Pend(t) = s.load, t.load \subseteq s.load, t.id \notin t.load,
           t.at # "edges" => row[t.id] # 0
    PROVE  IsTraversal(t)
<1>1. Sane(s) /\ (Overtaken(s) \/ Gathered(s))
  BY DEF IsTraversal
<1>2. s.id \notin DOMAIN s.nodes /\ Pend(s) = s.load \cup {s.id} /\ s.id \notin s.load
      /\ s.load \cap DOMAIN s.nodes = {}
  BY <1>1 DEF Sane, Pend
<1>3. /\ DOMAIN t.nodes = DOMAIN s.nodes \cup {s.id} /\ t.nodes[s.id] = val
      /\ \A e \in DOMAIN s.nodes : t.nodes[e] = s.nodes[e]
  BY <1>2 DEF Put
<1>4. Sane(t)
  <2>1. t.depth \in 0 .. t.key[2] /\ t.next \subseteq DOMAIN t.nodes
        /\ t.frontier \subseteq DOMAIN t.nodes
    BY <1>1, <1>3 DEF Sane
  <2>2. Pend(t) \cap DOMAIN t.nodes = {}
    BY <1>2, <1>3
  <2>3. (\A e \in t.load : row[e] # 0) /\ Anchored(t)
    BY <1>1, <1>3 DEF Sane, Anchored
  <2> QED
    BY <2>1, <2>2, <2>3 DEF Sane
<1>5. CASE Overtaken(s)
  <2>1. Overtaken(t)
    BY <1>3, <1>5, StaysOvertaken
  <2> QED
    BY <1>4, <2>1 DEF IsTraversal
<1>6. CASE val.late
  <2>1. Overtaken(t)
    BY <1>3, <1>6 DEF Overtaken, InTime
  <2> QED
    BY <1>4, <2>1 DEF IsTraversal
<1>7. CASE Due({s.id})
  <2>1. Due(DOMAIN t.nodes)
    BY <1>3, <1>7 DEF Due
  <2> QED
    BY <1>4, <2>1 DEF IsTraversal, Overtaken
<1>8. CASE Gathered(s) /\ Current(s.id, val)
  <2> DEFINE near == Ball(edge, s.key, s.key[2] - s.depth)
  <2>1. DOMAIN s.nodes \ s.next = near
    BY <1>8 DEF Gathered
  <2>2. DOMAIN t.nodes \ t.next = near
    BY <1>2, <1>3, <2>1
  <2>3. DOMAIN t.nodes \cup Pend(t) = DOMAIN s.nodes \cup Pend(s)
    BY <1>2, <1>3
  <2>4. \A e \in DOMAIN t.nodes : Current(e, t.nodes[e])
    BY <1>3, <1>8 DEF Gathered
  <2>5. Gathered(t)
    BY <1>8, <2>2, <2>3, <2>4 DEF Gathered
  <2> QED
    BY <1>4, <2>5 DEF IsTraversal
<1> QED
  BY <1>1, <1>5, <1>6, <1>7, <1>8

\* GetHit, ReadRow and FillEntity: a node is there, because an edge that was
\* found leads to it.
LEMMA LoadedTraverses ==
    ASSUME NEW r \in Readers, reader[r] \in ReaderState, reader[r].at # "edges",
           reader[r] # Absent, IsTraversal(reader[r]), NEW val \in Value \cup {Absent},
           Loaded(r, val), Absent \notin Value,
           val = Absent => row[reader[r].id] = 0,
           val # Absent => val.late \/ Current(reader[r].id, val) \/ Due({reader[r].id})
    PROVE  \E t : IsTraversal(t) /\ reader' = [reader EXCEPT ![r] = t]
<1>1. PICK s : s = reader[r]
  OBVIOUS
<1>2. PICK nodes : nodes = IF val = Absent THEN s.nodes ELSE Put(s.nodes, s.id, val)
  OBVIOUS
<1>3. PICK next : next = IF val = Absent THEN s.next ELSE s.next \cup {s.id}
  OBVIOUS
<1>4. PICK fresh : fresh = Fresh
  OBVIOUS
<1>5. CASE reader' = [reader EXCEPT ![r] = Absent]
  BY <1>5, AbsentReader
<1>6. CASE s.key \notin Keys \/ DOMAIN nodes = {}
  BY <1>1, <1>2, <1>5, <1>6 DEF Loaded
<1>7. ASSUME s.key \in Keys, DOMAIN nodes # {} PROVE val \in Value
  <2>1. Sane(s)
    BY <1>1, <1>7 DEF IsTraversal
  <2> QED
    BY <1>1, <1>2, <1>7, <2>1 DEF Sane
<1>8. ASSUME s.key \in Keys, DOMAIN nodes # {}, NEW n \in s.load,
             reader' = [reader EXCEPT ![r] =
                    [s EXCEPT !.at = "get", !.id = n, !.val = fresh, !.nodes = nodes,
                              !.next = next, !.load = @ \ {n}]]
      PROVE  \E t : IsTraversal(t) /\ reader' = [reader EXCEPT ![r] = t]
  <2>1. PICK t : t = [s EXCEPT !.at = "get", !.id = n, !.val = fresh, !.nodes = nodes,
                              !.next = next, !.load = @ \ {n}]
    OBVIOUS
  <2>2. /\ t.at = "get" /\ t.id = n /\ t.nodes = nodes /\ t.next = next
        /\ t.load = s.load \ {n} /\ t.key = s.key /\ t.edges = s.edges
        /\ t.frontier = s.frontier /\ t.depth = s.depth /\ t.late = s.late
    BY <1>1, <2>1 DEF ReaderState
  <2>3. Pend(t) = s.load
    BY <1>8, <2>2 DEF Pend
  <2>4. row[n] # 0
    BY <1>1, <1>8 DEF IsTraversal, Sane
  <2>5. val \in Value /\ val # Absent
    BY <1>7, <1>8
  <2>6. IsTraversal(t)
    BY <1>1, <1>2, <1>3, <1>8, <2>2, <2>3, <2>4, <2>5, LoadedKeeps
  <2> QED
    BY <1>8, <2>1, <2>6
<1>9. ASSUME s.key \in Keys, DOMAIN nodes # {}, s.load = {},
             reader' = [reader EXCEPT ![r] =
                    [s EXCEPT !.at = "edges", !.val = fresh, !.nodes = nodes,
                              !.next = next]]
      PROVE  \E t : IsTraversal(t) /\ reader' = [reader EXCEPT ![r] = t]
  <2>1. PICK t : t = [s EXCEPT !.at = "edges", !.val = fresh, !.nodes = nodes, !.next = next]
    OBVIOUS
  <2>2. /\ t.at = "edges" /\ t.id = s.id /\ t.nodes = nodes /\ t.next = next
        /\ t.load = s.load /\ t.key = s.key /\ t.edges = s.edges
        /\ t.frontier = s.frontier /\ t.depth = s.depth /\ t.late = s.late
    BY <1>1, <2>1 DEF ReaderState
  <2>3. Pend(t) = s.load
    BY <1>9, <2>2 DEF Pend
  <2>4. val \in Value /\ val # Absent
    BY <1>7, <1>9
  <2>5. IsTraversal(t)
    BY <1>1, <1>2, <1>3, <1>9, <2>2, <2>3, <2>4, LoadedKeeps
  <2> QED
    BY <1>9, <2>1, <2>5
<1> QED
  BY <1>1, <1>2, <1>3, <1>4, <1>5, <1>6, <1>8, <1>9 DEF Loaded

\* A reader goes on to its next query, with the same nodes and edges.
LEMMA GoesOn ==
    ASSUME NEW s, s # Absent, IsTraversal(s), NEW t, s.at # "edges", t.at # "edges",
           t.key = s.key, t.id = s.id, t.nodes = s.nodes, t.edges = s.edges,
           t.load = s.load, t.frontier = s.frontier, t.next = s.next,
           t.depth = s.depth, t.late = s.late
    PROVE  IsTraversal(t)
<1>1. Pend(t) = Pend(s)
  BY DEF Pend
<1>2. Sane(s) => Sane(t)
  BY <1>1 DEF Sane, Anchored
<1>3. Overtaken(s) => Overtaken(t)
  BY DEF Overtaken, InTime, Unmoved
<1>4. Gathered(s) => Gathered(t)
  BY <1>1 DEF Gathered
<1> QED
  BY <1>2, <1>3, <1>4 DEF IsTraversal

\* What EntitiesFresh says of an entity, is due to a hook that names it.
LEMMA PendingIsDue ==
    ASSUME NEW e \in EntIDs, PendingEntity(e)
    PROVE  Due({e})
BY DEF PendingEntity, Due

LEMMA GetTraverses ==
    ASSUME NInv, NEW r \in Readers, GetHit(r) \/ GetMiss(r)
    PROVE  \E t : IsTraversal(t) /\ reader' = [reader EXCEPT ![r] = t]
<1>1. PICK s : s = reader[r]
  OBVIOUS
<1>2. s # Absent /\ s \in ReaderState /\ s.id \in EntIDs /\ s.at = "get" /\ IsTraversal(s)
  BY <1>1 DEF NInv, IInv, IsReader, GetHit, GetMiss, At, ReaderState
<1>3. CASE GetHit(r)
  <2>1. PICK v : v = entityCache[s.id]
    OBVIOUS
  <2>2. v \in Value /\ v # Absent /\ Absent \notin Value
    BY <1>1, <1>2, <1>3, <2>1, CacheAssumption DEF GetHit, NInv, IInv, TypeOK
  <2>3. v.late \/ Current(s.id, v) \/ Due({s.id})
    BY <1>2, <2>1, <2>2, PendingIsDue DEF NInv, IInv, EntitiesFresh
  <2>4. Loaded(r, v)
    BY <1>1, <1>3, <2>1 DEF GetHit
  <2> QED
    BY <1>1, <1>2, <2>2, <2>3, <2>4, LoadedTraverses
<1>4. CASE GetMiss(r)
  <2>1. PICK t : t = [s EXCEPT !.at = "row"]
    OBVIOUS
  <2>2. IsTraversal(t)
    BY <1>2, <2>1, GoesOn DEF ReaderState
  <2>3. reader' = [reader EXCEPT ![r] = t]
    BY <1>1, <1>4, <2>1 DEF GetMiss
  <2> QED
    BY <2>2, <2>3
<1> QED
  BY <1>3, <1>4

LEMMA ReadRowTraverses ==
    ASSUME NInv, NEW r \in Readers, ReadRow(r)
    PROVE  \E t : IsTraversal(t) /\ reader' = [reader EXCEPT ![r] = t]
<1>1. PICK s : s = reader[r]
  OBVIOUS
<1>2. s # Absent /\ s \in ReaderState /\ s.at = "row" /\ IsTraversal(s)
  BY <1>1 DEF NInv, IInv, IsReader, ReadRow, At
<1>3. CASE row[s.id] = 0 /\ Loaded(r, Absent)
  BY <1>1, <1>2, <1>3, LoadedTraverses, CacheAssumption
<1>4. CASE reader' = [reader EXCEPT ![r] =
                [@ EXCEPT !.at = IF reader[r].key = ByName THEN "check" ELSE "sample",
                          !.val = [Fresh EXCEPT !.row = row[s.id]]]]
  <2>1. PICK val, step : /\ val = [Fresh EXCEPT !.row = row[s.id]]
                         /\ step = IF s.key = ByName THEN "check" ELSE "sample"
    OBVIOUS
  <2>2. PICK t : t = [s EXCEPT !.at = step, !.val = val]
    OBVIOUS
  <2>3. step # "edges"
    BY <2>1
  <2>4. IsTraversal(t)
    BY <1>2, <2>2, <2>3, GoesOn DEF ReaderState
  <2>5. reader' = [reader EXCEPT ![r] = t]
    BY <1>1, <1>4, <2>1, <2>2
  <2> QED
    BY <2>4, <2>5
<1> QED
  BY <1>1, <1>3, <1>4 DEF ReadRow

LEMMA CheckCachedTraverses ==
    ASSUME NInv, NEW r \in Readers, CheckCached(r)
    PROVE  \E t : IsTraversal(t) /\ reader' = [reader EXCEPT ![r] = t]
<1>1. PICK s : s = reader[r]
  OBVIOUS
<1>2. s # Absent /\ s \in ReaderState /\ s.at = "check" /\ IsTraversal(s)
  BY <1>1 DEF NInv, IInv, IsReader, CheckCached, At
<1>3. PICK t : t = [s EXCEPT !.at = "sample"]
  OBVIOUS
<1>4. IsTraversal(t)
  BY <1>2, <1>3, GoesOn DEF ReaderState
<1>5. reader' = [reader EXCEPT ![r] = t] \/ reader' = [reader EXCEPT ![r] = Absent]
  BY <1>1, <1>3 DEF CheckCached
<1> QED
  BY <1>4, <1>5, AbsentReader

LEMMA ReadSampleTraverses ==
    ASSUME NInv, NEW r \in Readers, ReadSample(r)
    PROVE  \E t : IsTraversal(t) /\ reader' = [reader EXCEPT ![r] = t]
<1>1. PICK s : s = reader[r]
  OBVIOUS
<1>2. s # Absent /\ s \in ReaderState /\ s.at = "sample" /\ IsTraversal(s)
  BY <1>1 DEF NInv, IInv, IsReader, ReadSample, At
<1>3. PICK val : reader' = [reader EXCEPT ![r] = [s EXCEPT !.at = "fill", !.val = val]]
  <2>1. CASE reader' = [reader EXCEPT ![r] = [@ EXCEPT !.at = "fill", !.val.sample = sample[s.id]]]
    BY <1>1, <2>1
  <2>2. CASE reader' = [reader EXCEPT ![r] = [@ EXCEPT !.at = "fill", !.val.bare = TRUE]]
    BY <1>1, <2>2
  <2> QED
    BY <1>1, <2>1, <2>2 DEF ReadSample
<1>4. PICK t : t = [s EXCEPT !.at = "fill", !.val = val]
  OBVIOUS
<1>5. IsTraversal(t)
  BY <1>2, <1>4, GoesOn DEF ReaderState
<1>6. reader' = [reader EXCEPT ![r] = t]
  BY <1>3, <1>4
<1> QED
  BY <1>5, <1>6

\* What a reader has in hand of an entity is as good as a cached one.
LEMMA FillEntityTraverses ==
    ASSUME NInv, NEW r \in Readers, FillEntity(r)
    PROVE  \E t : IsTraversal(t) /\ reader' = [reader EXCEPT ![r] = t]
<1>1. PICK s : s = reader[r]
  OBVIOUS
<1>2. /\ s # Absent /\ s \in ReaderState /\ Trusted(s) /\ s.id \in EntIDs /\ s.at = "fill"
      /\ IsTraversal(s) /\ Loaded(r, s.val)
  BY <1>1 DEF NInv, IInv, IsReader, FillEntity, At, ReaderState
<1>3. s.val \in Value
  <2>1. s.val \in Partly /\ s.val.row # 0
    BY <1>2 DEF ReaderState, Trusted
  <2> QED
    BY <2>1 DEF Partly, Value
<1>4. s.val.late \/ Current(s.id, s.val) \/ Due({s.id})
  BY <1>2, PendingIsDue DEF Trusted
<1> QED
  BY <1>1, <1>2, <1>3, <1>4, LoadedTraverses, CacheAssumption

\* The next depth begins: what was loaded last is the frontier.
LEMMA TurnKeeps ==
    ASSUME NEW s \in ReaderState, s.key \in Keys, IsTraversal(s), s # Absent, s.at = "edges",
           s.frontier = {}, s.depth > 0,
           NEW t, t.key = s.key, t.at = "edges", t.id = s.id, t.nodes = s.nodes,
           t.edges = s.edges, t.load = s.load, t.late = s.late,
           t.frontier = s.next, t.next = {}, t.depth = s.depth - 1
    PROVE  IsTraversal(t)
<1>1. Sane(s) /\ (Overtaken(s) \/ Gathered(s))
  BY DEF IsTraversal
<1>2. PICK k : k = s.key
  OBVIOUS
<1>3. k[2] \in Nat /\ s.depth \in 0 .. k[2]
  <2>1. k \in EntIDs \X (0 .. 5) \X Directions
    BY <1>2, CacheAssumption
  <2>2. k[2] \in 0 .. 5
    BY <2>1
  <2> QED
    BY <1>1, <1>2, <2>2 DEF Sane
<1>4. PICK j \in Nat : j = k[2] - s.depth
  BY <1>3
<1>5. k[2] - t.depth = j + 1 /\ j + 1 > 0 /\ (j + 1) - 1 = j /\ t.depth \in 0 .. k[2]
  BY <1>3, <1>4
<1>6. Sane(t)
  BY <1>1, <1>2, <1>5 DEF Sane, Pend, Anchored
<1>7. CASE Overtaken(s)
  <2>1. Overtaken(t)
    BY <1>7, StaysOvertaken
  <2> QED
    BY <1>6, <2>1 DEF IsTraversal
<1>8. CASE Gathered(s)
  <2> DEFINE near == Ball(edge, k, j)
             further == Ball(edge, k, j + 1)
  <2>1. /\ DOMAIN s.nodes \ s.next = near
        /\ DOMAIN s.nodes = {k[1]} \cup near \cup Reach(edge, near, k[3])
        /\ DOMAIN s.edges = EdgesFrom(edge, near, k[3])
    <3>1. Pend(s) = {} /\ near \ s.frontier = near
      BY DEF Pend
    <3> QED
      BY <1>2, <1>4, <1>8, <3>1 DEF Gathered
  <2>2. further = {k[1]} \cup near \cup Reach(edge, near, k[3])
    BY BallStep
  <2> HIDE DEF near, further
  <2>3. DOMAIN t.nodes \ t.next = further /\ t.frontier \subseteq further
        /\ t.frontier \cap near = {} /\ further \ t.frontier = near
    BY <1>1, <2>1, <2>2 DEF Sane
  <2>4. DOMAIN t.nodes \cup Pend(t) = {k[1]} \cup further \cup Reach(edge, near, k[3])
    BY <2>1, <2>2 DEF Pend
  <2>5. /\ \A r \in DOMAIN t.edges : t.edges[r] = edge[r]
        /\ \A e \in DOMAIN t.nodes : Current(e, t.nodes[e])
    BY <1>8 DEF Gathered
  <2>6. Gathered(t)
    BY <1>2, <1>5, <2>1, <2>3, <2>4, <2>5 DEF Gathered, near, further
  <2> QED
    BY <1>6, <2>6 DEF IsTraversal
<1> QED
  BY <1>1, <1>7, <1>8

\* What the edges X of the node n lead to, and the edges s then has.
LeadTo(X, n, dir) == UNION {Follow(edge, x, n, dir) : x \in X}

Joined(s, X) ==
    [x \in DOMAIN s.edges \cup X |-> IF x \in X THEN edge[x] ELSE s.edges[x]]

\* The edges of a frontier node: what was found before leads to where it was
\* found from.
LEMMA ExpandKeeps ==
    ASSUME NEW s \in ReaderState, s.key \in Keys, IsTraversal(s), s # Absent, s.at = "edges",
           edge \in [RelIDs -> Edge \cup {Absent}], Linked,
           NEW n \in s.frontier, NEW dir, dir = s.key[3],
           NEW found, NEW others, NEW t,
           found = EdgesOf(edge, n, dir) \ DOMAIN s.edges,
           others = LeadTo(found, n, dir) \ DOMAIN s.nodes,
           t.key = s.key, t.nodes = s.nodes, t.late = s.late, t.next = s.next,
           t.depth = s.depth, t.frontier = s.frontier \ {n},
           t.edges = Joined(s, found),
           Pend(t) = others, t.load \subseteq s.load \cup others, t.id \notin t.load,
           t.at # "edges" => t.id \in others
    PROVE  IsTraversal(t)
<1>1. Sane(s) /\ (Overtaken(s) \/ Gathered(s))
  BY DEF IsTraversal
<1>2. \A e : e \in others <=>
          e \notin DOMAIN s.nodes /\ \E x \in found : e \in Follow(edge, x, n, dir)
  BY DEF LeadTo
<1>3. \A x : x \in found <=>
          x \in RelIDs /\ x \notin DOMAIN s.edges /\ Follow(edge, x, n, dir) # {}
  BY DEF EdgesOf
<1>4. /\ DOMAIN t.edges = DOMAIN s.edges \cup found
      /\ \A x \in DOMAIN s.edges : x \notin found /\ t.edges[x] = s.edges[x]
      /\ \A x \in found : t.edges[x] = edge[x]
  BY DEF Joined
<1>5. \A x \in found : /\ x \in RelIDs /\ edge[x] # Absent
                       /\ edge[x].from = n \/ edge[x].to = n
  <2> SUFFICES ASSUME NEW x \in found
               PROVE  /\ x \in RelIDs /\ edge[x] # Absent
                      /\ edge[x].from = n \/ edge[x].to = n
    OBVIOUS
  <2>1. x \in RelIDs /\ Follow(edge, x, n, dir) # {}
    BY <1>3
  <2>2. PICK y : y \in Follow(edge, x, n, dir)
    BY <2>1
  <2> QED
    BY <2>1, <2>2, FollowIs
<1>6. \A e \in others : row[e] # 0 /\ e \notin DOMAIN s.nodes
  <2> SUFFICES ASSUME NEW e \in others PROVE row[e] # 0
    BY <1>2
  <2>1. PICK x \in found : e \in Follow(edge, x, n, dir)
    BY <1>2
  <2>2. e \in {edge[x].from, edge[x].to}
    BY <2>1, FollowIs
  <2> QED
    BY <1>5, <2>1, <2>2 DEF Linked
<1>7. n \in DOMAIN s.nodes
  BY <1>1 DEF Sane
<1>8. Sane(t)
  <2>1. t.depth \in 0 .. t.key[2] /\ t.next \subseteq DOMAIN t.nodes
        /\ t.frontier \subseteq DOMAIN t.nodes
    BY <1>1 DEF Sane
  <2>2. Pend(t) \cap DOMAIN t.nodes = {} /\ (\A e \in t.load : row[e] # 0)
        /\ (t.at # "edges" => row[t.id] # 0)
    BY <1>1, <1>6 DEF Sane
  <2>3. Anchored(t)
    <3>1. ASSUME NEW x \in DOMAIN t.edges
          PROVE  t.edges[x].from \in DOMAIN t.nodes \/ t.edges[x].to \in DOMAIN t.nodes
      <4>1. CASE x \in found
        <5>1. t.edges[x] = edge[x] /\ (edge[x].from = n \/ edge[x].to = n)
          BY <1>4, <1>5, <4>1
        <5> QED
          BY <1>7, <5>1
      <4>2. CASE x \in DOMAIN s.edges
        BY <1>1, <1>4, <4>2 DEF Sane, Anchored
      <4> QED
        BY <1>4, <3>1, <4>1, <4>2
    <3> QED
      BY <3>1 DEF Anchored
  <2> QED
    BY <2>1, <2>2, <2>3 DEF Sane
<1>9. CASE Overtaken(s)
  <2>1. Overtaken(t)
    BY <1>4, <1>9, StaysOvertaken
  <2> QED
    BY <1>8, <2>1 DEF IsTraversal
<1>10. CASE Gathered(s)
  <2> DEFINE j == s.key[2] - s.depth
             near == Ball(edge, s.key, j)
             followed == near \ s.frontier
  <2>1. /\ DOMAIN s.nodes \ s.next = near
        /\ s.frontier \subseteq near
        /\ j > 0 => s.frontier \cap Ball(edge, s.key, j - 1) = {}
        /\ DOMAIN s.nodes \cup Pend(s) = {s.key[1]} \cup near \cup Reach(edge, followed, dir)
        /\ DOMAIN s.edges = EdgesFrom(edge, followed, dir)
        /\ \A r \in DOMAIN s.edges : s.edges[r] = edge[r]
        /\ \A e \in DOMAIN s.nodes : Current(e, s.nodes[e])
    BY <1>10 DEF Gathered
  <2> HIDE DEF near, j
  <2>2. near \ t.frontier = followed \cup {n}
    BY <2>1
  <2>3. EdgesFrom(edge, followed \cup {n}, dir) = DOMAIN t.edges
    <3>1. EdgesFrom(edge, followed \cup {n}, dir) =
             EdgesFrom(edge, followed, dir) \cup EdgesOf(edge, n, dir)
      BY DEF EdgesFrom
    <3>2. EdgesOf(edge, n, dir) \subseteq DOMAIN s.edges \cup found
          /\ found \subseteq EdgesOf(edge, n, dir)
      BY <1>3 DEF EdgesOf
    <3> QED
      BY <1>4, <2>1, <3>1, <3>2
  <2>4. Reach(edge, followed \cup {n}, dir) =
           Reach(edge, followed, dir) \cup UNION {Follow(edge, x, n, dir) : x \in RelIDs}
    BY DEF Reach
  <2>5. ASSUME NEW x \in RelIDs, NEW y \in Follow(edge, x, n, dir)
        PROVE  y \in DOMAIN s.nodes \cup others
    <3>1. x \in found \/ x \in DOMAIN s.edges
      BY <1>3, <2>5
    <3>2. CASE x \in found
      BY <1>2, <2>5, <3>2
    <3>3. CASE x \in DOMAIN s.edges
      <4>1. PICK m \in followed : x \in EdgesOf(edge, m, dir)
        BY <2>1, <3>3 DEF EdgesFrom
      <4>2. m # n /\ Follow(edge, x, m, dir) # {}
        BY <4>1 DEF EdgesOf
      <4>3. y = m
        BY <4>2, OtherEnd
      <4> QED
        BY <2>1, <4>1, <4>3
    <3> QED
      BY <3>1, <3>2, <3>3
  <2>6. others \subseteq UNION {Follow(edge, x, n, dir) : x \in RelIDs}
    BY <1>2, <1>3
  <2>7. DOMAIN s.nodes = {s.key[1]} \cup near \cup Reach(edge, followed, dir)
    BY <2>1 DEF Pend
  <2>8. DOMAIN t.nodes \cup Pend(t) =
           {s.key[1]} \cup near \cup Reach(edge, followed \cup {n}, dir)
    <3>1. PICK there : there = UNION {Follow(edge, x, n, dir) : x \in RelIDs}
      OBVIOUS
    <3>2. there \subseteq DOMAIN s.nodes \cup others /\ others \subseteq there
      <4>1. ASSUME NEW y \in there PROVE y \in DOMAIN s.nodes \cup others
        <5>1. PICK x \in RelIDs : y \in Follow(edge, x, n, dir)
          BY <3>1, <4>1
        <5> QED
          BY <2>5, <5>1
      <4> QED
        BY <2>6, <3>1, <4>1
    <3>3. Reach(edge, followed \cup {n}, dir) = Reach(edge, followed, dir) \cup there
      BY <2>4, <3>1
    <3> QED
      BY <2>7, <3>2, <3>3
  <2>9. \A x \in DOMAIN t.edges : t.edges[x] = edge[x]
    BY <1>4, <2>1
  <2>10. /\ DOMAIN t.nodes \ t.next = near /\ t.frontier \subseteq near
         /\ j > 0 => t.frontier \cap Ball(edge, s.key, j - 1) = {}
         /\ \A e \in DOMAIN t.nodes : Current(e, t.nodes[e])
    BY <2>1
  <2>11. Gathered(t)
    BY <2>2, <2>3, <2>8, <2>9, <2>10 DEF Gathered, near, j
  <2> QED
    BY <1>8, <2>11 DEF IsTraversal
<1> QED
  BY <1>1, <1>9, <1>10

\* One turn of the loop in Neighborhood.
LEMMA TraverseTraverses ==
    ASSUME NInv, NEW r \in Readers, Traverse(r)
    PROVE  \E t : IsTraversal(t) /\ reader' = [reader EXCEPT ![r] = t]
<1> DEFINE s == reader[r]
<1>1. /\ s # Absent /\ s \in ReaderState /\ s.at = "edges" /\ IsTraversal(s)
      /\ edge \in [RelIDs -> Edge \cup {Absent}] /\ Linked
  BY DEF NInv, IInv, IsReader, Traverse, At, TypeOK
<1> HIDE DEF s
<1>2. CASE s.frontier = {} /\ s.depth > 0 /\
           reader' = [reader EXCEPT ![r] =
               [s EXCEPT !.frontier = s.next, !.next = {}, !.depth = @ - 1]]
  <2>1. PICK next, depth : next = s.next /\ depth = s.depth - 1
    OBVIOUS
  <2>2. PICK t : t = [s EXCEPT !.frontier = next, !.next = {}, !.depth = depth]
    OBVIOUS
  <2>3. /\ t.key = s.key /\ t.at = "edges" /\ t.id = s.id /\ t.nodes = s.nodes
        /\ t.edges = s.edges /\ t.load = s.load /\ t.late = s.late
        /\ t.frontier = s.next /\ t.next = {} /\ t.depth = s.depth - 1
    BY <1>1, <2>1, <2>2 DEF ReaderState
  <2>4. IsTraversal(t)
    <3>1. CASE s.key \in Keys
      BY <1>1, <1>2, <2>3, <3>1, TurnKeeps
    <3>2. CASE s.key \notin Keys
      BY <2>3, <3>2 DEF IsTraversal
    <3> QED
      BY <3>1, <3>2
  <2> QED
    BY <1>2, <2>1, <2>2, <2>4
<1>3. ASSUME NEW n \in s.frontier,
             LET found == EdgesOf(edge, n, s.key[3]) \ DOMAIN s.edges
                 others == (UNION {Follow(edge, x, n, s.key[3]) : x \in found})
                               \ DOMAIN s.nodes
                 edges == [x \in DOMAIN s.edges \cup found |->
                                  IF x \in found THEN edge[x] ELSE s.edges[x]]
                 s2 == [s EXCEPT !.frontier = @ \ {n}, !.edges = edges]
             IN  \/ /\ others = {}
                    /\ reader' = [reader EXCEPT ![r] = s2]
                 \/ \E o \in others :
                       reader' = [reader EXCEPT ![r] =
                           [s2 EXCEPT !.at = "get", !.id = o, !.load = others \ {o}]]
      PROVE  \E t : IsTraversal(t) /\ reader' = [reader EXCEPT ![r] = t]
  <2> DEFINE dir == s.key[3]
             found == EdgesOf(edge, n, dir) \ DOMAIN s.edges
             others == (UNION {Follow(edge, x, n, dir) : x \in found}) \ DOMAIN s.nodes
             edges == [x \in DOMAIN s.edges \cup found |->
                          IF x \in found THEN edge[x] ELSE s.edges[x]]
             rest == s.frontier \ {n}
             s2 == [s EXCEPT !.frontier = rest, !.edges = edges]
  <2>1. \/ others = {} /\ reader' = [reader EXCEPT ![r] = s2]
        \/ \E o \in others :
              reader' = [reader EXCEPT ![r] =
                  [s2 EXCEPT !.at = "get", !.id = o, !.load = others \ {o}]]
    BY <1>3
  <2> HIDE DEF dir, found, others, edges, rest, s2
  <2>7. n \in s.frontier
    BY <1>3
  <2>2. /\ s2.key = s.key /\ s2.at = "edges" /\ s2.id = s.id /\ s2.nodes = s.nodes
        /\ s2.edges = edges /\ s2.load = s.load /\ s2.late = s.late
        /\ s2.frontier = rest /\ s2.next = s.next /\ s2.depth = s.depth
    BY <1>1 DEF ReaderState, s2
  <2>3. ASSUME s.key \in Keys, NEW t, t.key = s.key, t.nodes = s.nodes, t.late = s.late,
               t.next = s.next, t.depth = s.depth, t.frontier = rest, t.edges = edges,
               Pend(t) = others, t.load \subseteq s.load \cup others, t.id \notin t.load,
               t.at # "edges" => t.id \in others
        PROVE  IsTraversal(t)
    <3>1. found = EdgesOf(edge, n, dir) \ DOMAIN s.edges /\ dir = s.key[3]
      BY DEF found, dir
    <3>2. others = LeadTo(found, n, dir) \ DOMAIN s.nodes
      BY DEF others, LeadTo
    <3>3. t.edges = Joined(s, found)
      BY <2>3 DEF edges, Joined
    <3>4. t.frontier = s.frontier \ {n}
      BY <2>3 DEF rest
    <3> QED
      BY <1>1, <2>3, <2>7, <3>1, <3>2, <3>3, <3>4, ExpandKeeps
  <2>4. CASE others = {} /\ reader' = [reader EXCEPT ![r] = s2]
    <3>1. CASE s.key \in Keys
      <4>1. Pend(s2) = {}
        BY <2>2 DEF Pend
      <4>2. s.id \notin s.load
        BY <1>1, <3>1 DEF IsTraversal, Sane
      <4>3. IsTraversal(s2)
        BY <2>2, <2>3, <2>4, <3>1, <4>1, <4>2
      <4> QED
        BY <2>4, <4>3
    <3>2. CASE s.key \notin Keys
      BY <2>2, <2>4, <3>2 DEF IsTraversal
    <3> QED
      BY <3>1, <3>2
  <2>5. ASSUME NEW o \in others,
               reader' = [reader EXCEPT ![r] =
                      [s2 EXCEPT !.at = "get", !.id = o, !.load = others \ {o}]]
        PROVE  \E t : IsTraversal(t) /\ reader' = [reader EXCEPT ![r] = t]
    <3>1. PICK load : load = others \ {o}
      OBVIOUS
    <3>2. PICK t : t = [s2 EXCEPT !.at = "get", !.id = o, !.load = load]
      OBVIOUS
    <3>3. /\ t.key = s.key /\ t.at = "get" /\ t.id = o /\ t.nodes = s.nodes
          /\ t.edges = edges /\ t.load = load /\ t.late = s.late
          /\ t.frontier = rest /\ t.next = s.next /\ t.depth = s.depth
      BY <1>1, <3>2 DEF ReaderState, s2
    <3>4. IsTraversal(t)
      <4>1. CASE s.key \in Keys
        <5>1. Pend(t) = others
          BY <2>5, <3>1, <3>3 DEF Pend
        <5> QED
          BY <2>3, <2>5, <3>1, <3>3, <4>1, <5>1
      <4>2. CASE s.key \notin Keys
        BY <3>3, <4>2 DEF IsTraversal
      <4> QED
        BY <4>1, <4>2
    <3> QED
      BY <2>5, <3>1, <3>2, <3>4
  <2> QED
    BY <2>1, <2>4, <2>5
<1> QED
  BY <1>2, <1>3 DEF Traverse, s

\* When the search has nowhere further to go, or may not, what it has gathered
\* is the neighborhood.
LEMMA FillIsCached ==
    ASSUME NInv, NEW r \in Readers, FillNeighborhood(r), NEW n,
           n = [nodes |-> reader[r].nodes, edges |-> reader[r].edges, late |-> reader[r].late],
           reader[r].key \in Keys
    PROVE  IsCached(reader[r].key, n)
<1> DEFINE s == reader[r]
           k == s.key
<1>1. /\ s # Absent /\ s \in ReaderState /\ s.at = "edges" /\ IsTraversal(s)
      /\ s.frontier = {} /\ (s.next = {} \/ s.depth = 0)
  BY DEF NInv, IInv, IsReader, FillNeighborhood, At
<1> HIDE DEF s
<1>2. n.nodes = s.nodes /\ n.edges = s.edges /\ n.late = s.late
  BY DEF s
<1>3. Sane(s) /\ (Overtaken(s) \/ Gathered(s)) /\ k \in Keys
  BY <1>1 DEF IsTraversal, s
<1>4. Anchored(n)
  BY <1>2, <1>3 DEF Sane, Anchored
<1>5. k[2] \in Nat /\ s.depth \in 0 .. k[2]
  <2>1. k \in EntIDs \X (0 .. 5) \X Directions
    BY <1>3, CacheAssumption
  <2>2. k[2] \in 0 .. 5
    BY <2>1
  <2> QED
    BY <1>3, <2>2 DEF Sane
<1>6. CASE Overtaken(s)
  BY <1>2, <1>4, <1>6 DEF IsCached, Overtaken, InTime, Unmoved, s
<1>7. CASE Gathered(s)
  <2>1. PICK j \in Nat : j = k[2] - s.depth
    BY <1>5
  <2> DEFINE near == Ball(edge, k, j)
             further == Ball(edge, k, j + 1)
  <2>2. /\ DOMAIN s.nodes \ s.next = near
        /\ DOMAIN s.nodes = {k[1]} \cup near \cup Reach(edge, near, k[3])
        /\ DOMAIN s.edges = EdgesFrom(edge, near, k[3])
    <3>1. Pend(s) = {} /\ near \ s.frontier = near
      BY <1>1 DEF Pend
    <3> QED
      BY <1>7, <2>1, <3>1 DEF Gathered
  <2>3. further = {k[1]} \cup near \cup Reach(edge, near, k[3])
    BY BallStep
  <2>4. Ball(edge, k, k[2]) = near /\ Ball(edge, k, k[2] + 1) = further
    <3>1. CASE s.depth = 0
      <4>1. j = k[2]
        BY <1>5, <2>1, <3>1
      <4> QED
        BY <4>1
    <3>2. CASE s.next = {}
      <4>1. further = near
        BY <2>2, <2>3, <3>2
      <4>2. s.depth \in Nat /\ s.depth + 1 \in Nat
            /\ j + s.depth = k[2] /\ j + (s.depth + 1) = k[2] + 1
        BY <1>5, <2>1
      <4>3. \A i \in Nat : Ball(edge, k, j + i) = near
        BY <4>1, BallStays
      <4> HIDE DEF near, further
      <4>4. Ball(edge, k, j + s.depth) = near /\ Ball(edge, k, j + (s.depth + 1)) = near
        BY <4>2, <4>3
      <4> QED
        BY <4>1, <4>2, <4>4
    <3> QED
      BY <1>1, <3>1, <3>2
  <2>5. /\ DOMAIN n.nodes = NodesWithin(edge, k[1], k[2], k[3])
        /\ DOMAIN n.edges = EdgesWithin(edge, k[1], k[2], k[3])
    <3> HIDE DEF near, further, k
    <3> QED
      BY <1>2, <1>5, <2>2, <2>3, <2>4, ExactIs
  <2>6. Exact(k, n)
    BY <1>2, <1>7, <2>5 DEF Exact, Gathered
  <2> QED
    BY <1>4, <2>6 DEF IsCached, s
<1> QED
  BY <1>3, <1>6, <1>7

\* A reader's start, calls, queries, fills and failures.
LEMMA ReaderKeepsNInv ==
    ASSUME NInv, IInv', NEW r \in Readers,
           \/ \E e \in EntIDs : StartEntity(r, e) \/ StartByName(r, e)
           \/ \E k \in Keys : StartNeighborhood(r, k)
           \/ GetHit(r) \/ GetMiss(r)
           \/ ReadRow(r) \/ CheckCached(r) \/ ReadSample(r) \/ FillEntity(r)
           \/ Traverse(r) \/ FillNeighborhood(r) \/ ReadFails(r)
    PROVE  NInv'
<1>1. ASSUME NEW key \in {NoKey, ByName}, NEW step, NEW e, Start(r, key, step, e, 0)
      PROVE  NInv'
  <2>1. PICK fresh, none : fresh = Fresh /\ none = Nothing
    OBVIOUS
  <2>2. PICK s : s = [key |-> key, at |-> step, id |-> e, val |-> fresh,
                      nodes |-> none, edges |-> none, load |-> {}, frontier |-> {},
                      next |-> {}, depth |-> 0, late |-> FALSE]
    OBVIOUS
  <2>3. s.key = key
    BY <2>2
  <2>4. IsTraversal(s)
    BY <2>3, EntityReader
  <2>5. reader' = [reader EXCEPT ![r] = s] /\ UNCHANGED <<row, sample, edge, hooks, neighborCache>>
    BY <1>1, <2>1, <2>2 DEF Start, database, cache
  <2> QED
    BY <2>4, <2>5, TraversalKeepsNInv
<1>2. ASSUME NEW e \in EntIDs, StartEntity(r, e) \/ StartByName(r, e) PROVE NInv'
  BY <1>1, <1>2 DEF StartEntity, StartByName
<1>3. ASSUME NEW k \in Keys, StartNeighborhood(r, k) PROVE NInv'
  <2>1. UNCHANGED <<row, sample, edge, hooks, neighborCache>>
    BY <1>3 DEF StartNeighborhood, Start, database, cache
  <2> QED
    BY <1>3, <2>1, StartTraverses, TraversalKeepsNInv
<1>4. CASE GetHit(r) \/ GetMiss(r)
  <2>1. UNCHANGED <<row, sample, edge, hooks, neighborCache>>
    BY <1>4 DEF GetHit, GetMiss, database, cache
  <2> QED
    BY <1>4, <2>1, GetTraverses, TraversalKeepsNInv
<1>5. CASE ReadRow(r)
  <2>1. UNCHANGED <<row, sample, edge, hooks, neighborCache>>
    BY <1>5 DEF ReadRow, database, cache
  <2> QED
    BY <1>5, <2>1, ReadRowTraverses, TraversalKeepsNInv
<1>6. CASE CheckCached(r)
  <2>1. UNCHANGED <<row, sample, edge, hooks, neighborCache>>
    BY <1>6 DEF CheckCached, database, cache
  <2> QED
    BY <1>6, <2>1, CheckCachedTraverses, TraversalKeepsNInv
<1>7. CASE ReadSample(r)
  <2>1. UNCHANGED <<row, sample, edge, hooks, neighborCache>>
    BY <1>7 DEF ReadSample, database, cache
  <2> QED
    BY <1>7, <2>1, ReadSampleTraverses, TraversalKeepsNInv
<1>8. CASE FillEntity(r)
  <2>1. UNCHANGED <<row, sample, edge, hooks, neighborCache>>
    BY <1>8 DEF FillEntity, database
  <2> QED
    BY <1>8, <2>1, FillEntityTraverses, TraversalKeepsNInv
<1>9. CASE Traverse(r)
  <2>1. UNCHANGED <<row, sample, edge, hooks, neighborCache>>
    BY <1>9 DEF Traverse, database, cache
  <2> QED
    BY <1>9, <2>1, TraverseTraverses, TraversalKeepsNInv
<1>10. CASE FillNeighborhood(r)
  <2>1. PICK k, n : /\ k = reader[r].key
                    /\ n = [nodes |-> reader[r].nodes, edges |-> reader[r].edges,
                            late |-> reader[r].late]
    OBVIOUS
  <2>2. /\ neighborCache' = [neighborCache EXCEPT ![k] = n]
        /\ reader' = [reader EXCEPT ![r] = Absent]
        /\ UNCHANGED <<row, sample, edge, hooks>>
    BY <1>10, <2>1 DEF FillNeighborhood, database
  <2>3. CASE k \in Keys
    <3>1. IsCached(k, n)
      BY <1>10, <2>1, <2>3, FillIsCached
    <3>2. /\ \A x \in Keys : x # k => neighborCache'[x] = neighborCache[x]
          /\ neighborCache'[k] = n
      BY <2>2, <2>3 DEF NInv, IInv
    <3> QED
      BY <2>2, <3>1, <3>2, AbsentReader, TraversalKeepsNInv
  <2>4. CASE k \notin Keys
    <3>1. \A x \in Keys : neighborCache'[x] = neighborCache[x]
      BY <2>2, <2>4 DEF NInv, IInv
    <3> QED
      BY <2>2, <3>1, AbsentReader, TraversalKeepsNInv
  <2> QED
    BY <2>3, <2>4
<1>11. CASE ReadFails(r)
  <2>1. reader' = [reader EXCEPT ![r] = Absent] /\ UNCHANGED <<row, sample, edge, hooks, neighborCache>>
    BY <1>11 DEF ReadFails, database, cache
  <2> QED
    BY <2>1, AbsentReader, TraversalKeepsNInv
<1> QED
  BY <1>2, <1>3, <1>4, <1>5, <1>6, <1>7, <1>8, <1>9, <1>10, <1>11

-----------------------------------------------------------------------------
(***************************************************************************)
(* The batches.  What a batch changes of what a traversal has read, is of  *)
(* an entity that its hook names, or of an edge that is now between two    *)
(* such entities.                                                          *)
(***************************************************************************)

Posted(w, h) ==
    /\ h \in Hook /\ hooks[w] = Absent /\ hooks' = [hooks EXCEPT ![w] = h]
    /\ \A e \in EntIDs : \/ row'[e] = row[e] /\ sample'[e] = sample[e]
                         \/ h.kind # "sample" /\ e \in h.ids
    /\ \A e \in EntIDs : row[e] # 0 => row'[e] # 0
    /\ \A x \in RelIDs : \/ edge'[x] = edge[x]
                         \/ /\ h.kind # "sample" /\ edge'[x] # Absent
                            /\ edge'[x].from \in h.ids /\ edge'[x].to \in h.ids
    /\ Linked'

\* Its nodes and edges are of these graphs.
IsPart(n) == DOMAIN n.nodes \subseteq EntIDs /\ DOMAIN n.edges \subseteq RelIDs

LEMMA DueStays ==
    ASSUME hooks \in [Writers -> Hook \cup {Absent}], NEW w \in Writers, NEW h, Posted(w, h),
           NEW ids
    PROVE  /\ Due(ids) => Due(ids)'
           /\ h.kind # "sample" /\ h.ids \cap ids # {} => Due(ids)'
<1>1. hooks'[w] = h /\ h # Absent
  BY CacheAssumption DEF Posted
<1>2. \A v \in Writers : hooks[v] # Absent => hooks'[v] = hooks[v]
  BY DEF Posted
<1> QED
  BY <1>1, <1>2 DEF Due

LEMMA OvertakenStays ==
    ASSUME hooks \in [Writers -> Hook \cup {Absent}], NEW w \in Writers, NEW h, Posted(w, h),
           NEW n, IsPart(n), Anchored(n), Overtaken(n)
    PROVE  Overtaken(n)'
<1>1. CASE ~InTime(n)
  BY <1>1 DEF InTime, Overtaken
<1>2. CASE Due(DOMAIN n.nodes)
  BY <1>2, DueStays DEF Overtaken
<1>3. CASE ~Unmoved(n)
  <2>1. PICK r \in DOMAIN n.edges :
            ~(edge[r].from = n.edges[r].from /\ edge[r].to = n.edges[r].to)
    BY <1>3 DEF Unmoved
  <2>2. r \in RelIDs
    BY DEF IsPart
  <2>3. CASE ~(edge'[r].from = n.edges[r].from /\ edge'[r].to = n.edges[r].to)
    BY <2>3 DEF Unmoved, Overtaken
  <2>4. CASE edge'[r].from = n.edges[r].from /\ edge'[r].to = n.edges[r].to
    <3>1. h.kind # "sample" /\ edge'[r].from \in h.ids /\ edge'[r].to \in h.ids
      BY <2>1, <2>2, <2>4 DEF Posted
    <3>2. h.ids \cap DOMAIN n.nodes # {}
      BY <2>4, <3>1 DEF Anchored
    <3> QED
      BY <3>1, <3>2, DueStays DEF Overtaken
  <2> QED
    BY <2>3, <2>4
<1> QED
  BY <1>1, <1>2, <1>3 DEF Overtaken

\* A batch that does not overtake it leaves what has been read of n as it is,
\* and touches no edge at its nodes.
LEMMA Untouched ==
    ASSUME hooks \in [Writers -> Hook \cup {Absent}], NEW w \in Writers, NEW h, Posted(w, h),
           NEW n, IsPart(n), Anchored(n), ~Overtaken(n)'
    PROVE  /\ \A e \in DOMAIN n.nodes : row'[e] = row[e] /\ sample'[e] = sample[e]
           /\ \A x \in RelIDs : \/ edge'[x] = edge[x]
                                \/ /\ x \notin DOMAIN n.edges
                                   /\ edge'[x].from \notin DOMAIN n.nodes
                                   /\ edge'[x].to \notin DOMAIN n.nodes
<1>1. ~Due(DOMAIN n.nodes)' /\ Unmoved(n)'
  BY DEF Overtaken
<1>2. h.kind # "sample" => h.ids \cap DOMAIN n.nodes = {}
  BY <1>1, DueStays
<1>3. ASSUME NEW e \in DOMAIN n.nodes
      PROVE  row'[e] = row[e] /\ sample'[e] = sample[e]
  BY <1>2 DEF Posted, IsPart
<1>4. ASSUME NEW x \in RelIDs, edge'[x] # edge[x]
      PROVE  /\ x \notin DOMAIN n.edges
             /\ edge'[x].from \notin DOMAIN n.nodes
             /\ edge'[x].to \notin DOMAIN n.nodes
  <2>1. edge'[x].from \notin DOMAIN n.nodes /\ edge'[x].to \notin DOMAIN n.nodes
    BY <1>2, <1>4 DEF Posted
  <2>2. ASSUME x \in DOMAIN n.edges PROVE FALSE
    <3>1. edge'[x].from = n.edges[x].from /\ edge'[x].to = n.edges[x].to
      BY <1>1, <2>2 DEF Unmoved
    <3> QED
      BY <2>1, <2>2, <3>1 DEF Anchored
  <2> QED
    BY <2>1, <2>2
<1> QED
  BY <1>3, <1>4

LEMMA StaysSameAt ==
    ASSUME NEW n, NEW g, NEW g2, NEW X, NEW dir,
           \A x \in RelIDs : \/ g2[x] = g[x]
                             \/ /\ x \notin DOMAIN n.edges
                                /\ g2[x].from \notin DOMAIN n.nodes
                                /\ g2[x].to \notin DOMAIN n.nodes,
           X \subseteq DOMAIN n.nodes, EdgesFrom(g, X, dir) = DOMAIN n.edges
    PROVE  SameAt(g, g2, X, dir)
<1>1. SUFFICES ASSUME NEW m \in X, NEW x \in RelIDs
               PROVE  Follow(g2, x, m, dir) = Follow(g, x, m, dir)
  BY DEF SameAt
<1>2. CASE g2[x] = g[x]
  BY <1>2 DEF Follow, Active
<1>3. CASE /\ x \notin DOMAIN n.edges
           /\ g2[x].from \notin DOMAIN n.nodes /\ g2[x].to \notin DOMAIN n.nodes
  <2>1. Follow(g, x, m, dir) = {}
    BY <1>3 DEF EdgesFrom, EdgesOf
  <2>2. Follow(g2, x, m, dir) = {}
    BY <1>3, FollowIs
  <2> QED
    BY <2>1, <2>2
<1> QED
  BY <1>2, <1>3

\* A cached neighborhood that a batch does not overtake is still the traversal
\* of the graph, since no edge at a node it expanded has changed.
LEMMA CachedStays ==
    ASSUME hooks \in [Writers -> Hook \cup {Absent}], NEW w \in Writers, NEW h, Posted(w, h),
           NEW k \in Keys, NEW n, n # Absent => IsPart(n), IsCached(k, n)
    PROVE  IsCached(k, n)'
<1>1. SUFFICES ASSUME n # Absent, ~Overtaken(n)' PROVE Anchored(n) /\ Exact(k, n)'
  BY OvertakenStays DEF IsCached, Anchored
<1>2. Anchored(n) /\ IsPart(n) /\ Exact(k, n)
  BY <1>1, OvertakenStays DEF IsCached
<1>3. PICK g, g2 : g = edge /\ g2 = edge'
  OBVIOUS
<1>4. /\ \A e \in DOMAIN n.nodes : row'[e] = row[e] /\ sample'[e] = sample[e]
      /\ \A x \in RelIDs : \/ g2[x] = g[x]
                           \/ /\ x \notin DOMAIN n.edges
                              /\ g2[x].from \notin DOMAIN n.nodes
                              /\ g2[x].to \notin DOMAIN n.nodes
  BY <1>1, <1>2, <1>3, Untouched
<1>5. PICK j \in Nat : j = k[2]
  <2>1. k \in EntIDs \X (0 .. 5) \X Directions
    BY CacheAssumption
  <2>2. k[2] \in 0 .. 5
    BY <2>1
  <2> QED
    BY <2>2
<1> DEFINE near == Ball(g, k, j)
<1>6. DOMAIN n.nodes = Ball(g, k, j + 1) /\ DOMAIN n.edges = EdgesFrom(g, near, k[3])
  BY <1>2, <1>3, <1>5, ExactIs DEF Exact
<1>7. near \subseteq DOMAIN n.nodes
  <2>1. j + 1 \in Nat /\ j \in 0 .. j + 1
    OBVIOUS
  <2> QED
    BY <1>6, <2>1, BallGrows
<1>8. \A i \in 0 .. j : Ball(g, k, i) \subseteq near
  BY BallGrows
<1> HIDE DEF near
<1>9. SameAt(g, g2, near, k[3])
  BY <1>4, <1>6, <1>7, StaysSameAt
<1>10. Ball(g2, k, j) = near /\ Ball(g2, k, j + 1) = DOMAIN n.nodes
  <2>1. j + 1 \in Nat /\ j \in 0 .. j + 1 /\ j + 1 \in 0 .. j + 1
    OBVIOUS
  <2>2. Inside(g, k, j + 1, near)
    <3>1. \A i \in Nat : i < j + 1 => i \in 0 .. j
      OBVIOUS
    <3> QED
      BY <1>8, <3>1 DEF Inside
  <2>3. \A i \in 0 .. j + 1 : Ball(g2, k, i) = Ball(g, k, i)
    BY <1>9, <2>1, <2>2, SameBall
  <2> QED
    BY <1>6, <2>1, <2>3 DEF near
<1>11. EdgesFrom(g2, near, k[3]) = DOMAIN n.edges
  BY <1>6, <1>9, SameReach
<1>12. /\ NodesWithin(g2, k[1], k[2], k[3]) = DOMAIN n.nodes
       /\ EdgesWithin(g2, k[1], k[2], k[3]) = DOMAIN n.edges
  BY <1>5, <1>10, <1>11, ExactIs
<1>13. \A e \in DOMAIN n.nodes : Current(e, n.nodes[e])'
  BY <1>2, <1>4 DEF Exact, Current
<1>14. \A r \in DOMAIN n.edges : n.edges[r] = g2[r]
  BY <1>2, <1>3, <1>4 DEF Exact, IsPart
<1> QED
  BY <1>2, <1>3, <1>12, <1>13, <1>14 DEF Exact

\* So has a traversal that has come some way.
LEMMA TraversalStays ==
    ASSUME hooks \in [Writers -> Hook \cup {Absent}], NEW w \in Writers, NEW h, Posted(w, h),
           NEW s, s # Absent => s \in ReaderState, IsTraversal(s)
    PROVE  IsTraversal(s)'
<1>1. SUFFICES ASSUME s # Absent, s.key \in Keys
               PROVE  Sane(s)' /\ (Overtaken(s)' \/ Gathered(s)')
  BY DEF IsTraversal
<1>2. Sane(s) /\ (Overtaken(s) \/ Gathered(s)) /\ s \in ReaderState
  BY <1>1 DEF IsTraversal
<1>3. IsPart(s) /\ s.load \subseteq EntIDs /\ s.id \in EntIDs
  <2>1. s.nodes \in NodeMaps /\ s.edges \in EdgeMaps
    BY <1>2 DEF ReaderState
  <2>2. DOMAIN s.nodes \subseteq EntIDs /\ DOMAIN s.edges \subseteq RelIDs
    BY <2>1 DEF NodeMaps, EdgeMaps
  <2> QED
    BY <1>2, <2>2 DEF ReaderState, IsPart
<1>4. Sane(s)'
  BY <1>2, <1>3 DEF Sane, Posted, Pend, Anchored
<1>5. SUFFICES ASSUME ~Overtaken(s)' PROVE Gathered(s)'
  BY <1>4
<1>6. Anchored(s) /\ Gathered(s)
  BY <1>2, <1>3, <1>5, OvertakenStays DEF Sane
<1>7. PICK g, g2 : g = edge /\ g2 = edge'
  OBVIOUS
<1>8. /\ \A e \in DOMAIN s.nodes : row'[e] = row[e] /\ sample'[e] = sample[e]
      /\ \A x \in RelIDs : \/ g2[x] = g[x]
                           \/ /\ x \notin DOMAIN s.edges
                              /\ g2[x].from \notin DOMAIN s.nodes
                              /\ g2[x].to \notin DOMAIN s.nodes
  BY <1>3, <1>5, <1>6, <1>7, Untouched
<1>9. PICK k : k = s.key
  OBVIOUS
<1>10. PICK j \in Nat : j = k[2] - s.depth
  <2>1. k \in EntIDs \X (0 .. 5) \X Directions
    BY <1>1, <1>9, CacheAssumption
  <2>2. k[2] \in 0 .. 5 /\ s.depth \in 0 .. k[2]
    BY <1>2, <1>9, <2>1 DEF Sane
  <2> QED
    BY <2>2
<1> DEFINE near == Ball(g, k, j)
           followed == near \ s.frontier
<1>11. /\ DOMAIN s.nodes \ s.next = near
       /\ s.frontier \subseteq near
       /\ j > 0 => s.frontier \cap Ball(g, k, j - 1) = {}
       /\ DOMAIN s.nodes \cup Pend(s) = {k[1]} \cup near \cup Reach(g, followed, k[3])
       /\ DOMAIN s.edges = EdgesFrom(g, followed, k[3])
       /\ \A r \in DOMAIN s.edges : s.edges[r] = g[r]
       /\ \A e \in DOMAIN s.nodes : Current(e, s.nodes[e])
  BY <1>6, <1>7, <1>9, <1>10 DEF Gathered
<1>12. ASSUME NEW i \in Nat, i < j PROVE Ball(g, k, i) \subseteq followed
  <2>1. j - 1 \in Nat /\ i \in 0 .. j - 1 /\ j > 0 /\ j - 1 \in 0 .. j
    BY <1>12
  <2>2. Ball(g, k, i) \subseteq Ball(g, k, j - 1)
    BY <2>1, BallGrows
  <2>3. Ball(g, k, j - 1) \subseteq near
    BY <2>1, BallGrows
  <2> QED
    BY <1>11, <2>1, <2>2, <2>3
<1> HIDE DEF near, followed
<1>13. followed \subseteq DOMAIN s.nodes
  BY <1>11 DEF followed
<1>14. SameAt(g, g2, followed, k[3])
  BY <1>8, <1>11, <1>13, StaysSameAt
<1>15. \A i \in 0 .. j : Ball(g2, k, i) = Ball(g, k, i)
  <2>1. Inside(g, k, j, followed)
    BY <1>12 DEF Inside
  <2> QED
    BY <1>14, <2>1, SameBall
<1>16. Ball(g2, k, j) = near /\ (j > 0 => Ball(g2, k, j - 1) = Ball(g, k, j - 1))
  BY <1>15 DEF near
<1>17. /\ Reach(g2, followed, k[3]) = Reach(g, followed, k[3])
       /\ EdgesFrom(g2, followed, k[3]) = EdgesFrom(g, followed, k[3])
  BY <1>14, SameReach
<1>18. \A r \in DOMAIN s.edges : s.edges[r] = g2[r]
  BY <1>3, <1>8, <1>11 DEF IsPart
<1>19. \A e \in DOMAIN s.nodes : Current(e, s.nodes[e])'
  BY <1>8, <1>11 DEF Current
<1> QED
  <2>1. j > 0 => s.frontier \cap Ball(g2, k, j - 1) = {}
    BY <1>11, <1>16
  <2> QED
    BY <1>7, <1>9, <1>10, <1>11, <1>16, <1>17, <1>18, <1>19, <2>1 DEF Gathered, followed, Pend

LEMMA PostKeepsNInv ==
    ASSUME NInv, IInv', NEW w \in Writers, NEW h, Posted(w, h), UNCHANGED <<cache, reader>>
    PROVE  NInv'
<1>1. hooks \in [Writers -> Hook \cup {Absent}]
  BY DEF NInv, IInv, TypeOK
<1>2. ASSUME NEW k \in Keys PROVE IsCached(k, neighborCache[k])'
  <2>1. PICK n : n = neighborCache[k]
    OBVIOUS
  <2>2. IsCached(k, n) /\ (n # Absent => IsPart(n))
    BY <2>1 DEF NInv, IInv, TypeOK, IsNeighborhood, IsPart
  <2>3. IsCached(k, n)'
    BY <1>1, <2>2, CachedStays
  <2>4. neighborCache'[k] = n
    BY <2>1 DEF cache
  <2> QED
    BY <2>3, <2>4, NextCached
<1>3. ASSUME NEW r \in Readers PROVE IsTraversal(reader[r])'
  <2>1. PICK s : s = reader[r]
    OBVIOUS
  <2>2. IsTraversal(s) /\ (s # Absent => s \in ReaderState)
    BY <2>1 DEF NInv, IInv, IsReader
  <2>3. IsTraversal(s)'
    BY <1>1, <2>2, TraversalStays
  <2> QED
    BY <2>1, <2>3, NextReader
<1> QED
  BY <1>2, <1>3 DEF NInv, Posted

LEMMA MutateEntityPosts ==
    ASSUME NInv, NEW w \in Writers, NEW e \in EntIDs,
           MutateEntity(w, e) \/ PostEntityMetrics(w, e)
    PROVE  \E h : Posted(w, h) /\ UNCHANGED <<cache, reader>>
<1>1. PICK h : h = EntityHook(e)
  OBVIOUS
<1>2. h \in Hook /\ h.kind # "sample" /\ e \in h.ids
  BY <1>1 DEF EntityHook, Hook
<1>3. row \in [EntIDs -> Nat] /\ sample \in [EntIDs -> Nat] /\ edge \in [RelIDs -> Edge \cup {Absent}]
  BY DEF NInv, IInv, TypeOK
<1>4. /\ hooks[w] = Absent /\ hooks' = [hooks EXCEPT ![w] = h]
      /\ UNCHANGED <<edge, cache, reader>>
  BY <1>1 DEF MutateEntity, PostEntityMetrics, Writable
<1>5. \A x \in EntIDs : /\ x # e => row'[x] = row[x] /\ sample'[x] = sample[x]
                        /\ row[x] # 0 => row'[x] # 0
  BY <1>3 DEF MutateEntity, PostEntityMetrics
<1>6. \A r \in RelIDs : edge[r] # Absent => edge[r].from \in EntIDs /\ edge[r].to \in EntIDs
  BY <1>3 DEF Edge
<1>7. Linked'
  BY <1>4, <1>5, <1>6 DEF NInv, Linked
<1> QED
  BY <1>2, <1>4, <1>5, <1>7 DEF Posted

\* An upsert names the endpoints that the relationship has now.
LEMMA MutateRelationshipPosts ==
    ASSUME NInv, NEW w \in Writers, NEW r \in RelIDs, MutateRelationship(w, r)
    PROVE  \E h : Posted(w, h) /\ UNCHANGED <<cache, reader>>
<1>1. PICK new \in EdgeAfter(r) :
         edge' = [edge EXCEPT ![r] = new] /\ hooks' = [hooks EXCEPT ![w] = RelHook(new.from, new.to)]
  BY DEF MutateRelationship
<1>2. edge \in [RelIDs -> Edge \cup {Absent}] /\ row \in [EntIDs -> Nat] /\ Linked
  BY DEF NInv, IInv, TypeOK
<1>3. PICK gen : gen = writes + 1
  OBVIOUS
<1>4. PICK known : known = {e \in EntIDs : row[e] > 0}
  OBVIOUS
<1>5. \/ new \in [from : known, to : known, active : {TRUE}, gen : {gen}]
      \/ \E e \in Active(edge, r) : new = [e EXCEPT !.active = FALSE, !.gen = gen]
  BY <1>1, <1>3, <1>4 DEF EdgeAfter
<1>6. new.from \in EntIDs /\ new.to \in EntIDs /\ row[new.from] # 0 /\ row[new.to] # 0
  <2>1. CASE new \in [from : known, to : known, active : {TRUE}, gen : {gen}]
    BY <1>2, <1>4, <2>1
  <2>2. ASSUME NEW e \in Active(edge, r), new = [e EXCEPT !.active = FALSE, !.gen = gen]
        PROVE  new.from \in EntIDs /\ new.to \in EntIDs /\ row[new.from] # 0 /\ row[new.to] # 0
    <3>1. e = edge[r] /\ edge[r] # Absent /\ e \in Edge
      BY <1>2 DEF Active
    <3>2. new.from = e.from /\ new.to = e.to /\ e.from \in EntIDs /\ e.to \in EntIDs
      BY <2>2, <3>1 DEF Edge
    <3> QED
      BY <1>2, <3>1, <3>2 DEF Linked
  <2> QED
    BY <1>5, <2>1, <2>2
<1>7. PICK h : h = RelHook(new.from, new.to)
  OBVIOUS
<1>8. h \in Hook /\ h.kind # "sample" /\ new.from \in h.ids /\ new.to \in h.ids
  <2>1. {new.from, new.to} \in SUBSET EntIDs
    BY <1>6
  <2> QED
    BY <1>7, <2>1 DEF RelHook, Hook
<1>9. hooks[w] = Absent /\ UNCHANGED <<row, sample, cache, reader>>
  BY DEF MutateRelationship, Writable
<1>10. new # Absent
  <2>1. writes \in Nat /\ edge[r] \in Edge \cup {Absent}
    BY DEF NInv, IInv, TypeOK
  <2> QED
    BY <2>1, EdgeAfterIsEdge, CacheAssumption
<1>11. edge'[r] = new /\ \A x \in RelIDs : x # r => edge'[x] = edge[x]
  BY <1>1, <1>2
<1>12. Linked'
  BY <1>2, <1>6, <1>9, <1>11 DEF Linked
<1> QED
  BY <1>1, <1>7, <1>8, <1>9, <1>10, <1>11, <1>12 DEF Posted

LEMMA PostRelationshipMetricsPosts ==
    ASSUME NInv, NEW w \in Writers, NEW r \in RelIDs, PostRelationshipMetrics(w, r)
    PROVE  \E h : Posted(w, h) /\ UNCHANGED <<cache, reader>>
<1>1. PICK h : h = SampleHook(r)
  OBVIOUS
<1>2. h \in Hook
  BY <1>1 DEF SampleHook, Hook
<1>3. /\ hooks[w] = Absent /\ hooks' = [hooks EXCEPT ![w] = h]
      /\ UNCHANGED <<row, sample, edge, cache, reader>>
  BY <1>1 DEF PostRelationshipMetrics, Writable, database
<1>4. Linked'
  BY <1>3 DEF NInv, Linked
<1> QED
  BY <1>2, <1>3, <1>4 DEF Posted

-----------------------------------------------------------------------------
(***************************************************************************)
(* The invalidations.  What was due to w alone is cached no more, and in   *)
(* the hands of a reader it is late.                                       *)
(***************************************************************************)

LEMMA DueGoes ==
    ASSUME hooks \in [Writers -> Hook \cup {Absent}], NEW w \in Writers, NEW ids, Due(ids),
           hooks' = [hooks EXCEPT ![w] = Absent], Named(hooks[w]) \cap ids = {}
    PROVE  Due(ids)'
<1>1. PICK v \in Writers :
          hooks[v] # Absent /\ hooks[v].kind # "sample" /\ hooks[v].ids \cap ids # {}
  BY DEF Due
<1>2. v # w
  BY <1>1 DEF Named
<1>3. hooks'[v] = hooks[v]
  BY <1>2
<1> QED
  BY <1>1, <1>3 DEF Due

\* n is left as it is, and what has been read of it with it.
LEMMA OvertakenGoesOn ==
    ASSUME hooks \in [Writers -> Hook \cup {Absent}], NEW w \in Writers,
           hooks' = [hooks EXCEPT ![w] = Absent], UNCHANGED edge,
           NEW n, Overtaken(n), NEW m, m.nodes = n.nodes, m.edges = n.edges,
           n.late => m.late, Named(hooks[w]) \cap DOMAIN n.nodes # {} => m.late
    PROVE  Overtaken(m)'
<1>1. CASE ~InTime(n)
  BY <1>1 DEF InTime, Overtaken
<1>2. CASE ~Unmoved(n)
  BY <1>2 DEF Unmoved, Overtaken
<1>3. CASE Due(DOMAIN n.nodes)
  <2>1. CASE m.late
    BY <2>1 DEF Overtaken, InTime
  <2>2. CASE ~m.late
    <3>1. Due(DOMAIN n.nodes)'
      BY <1>3, <2>2, DueGoes
    <3> QED
      BY <3>1 DEF Overtaken
  <2> QED
    BY <2>1, <2>2
<1> QED
  BY <1>1, <1>2, <1>3 DEF Overtaken

LEMMA InvalidateKeepsNInv ==
    ASSUME NInv, IInv', NEW w \in Writers, Invalidate(w)
    PROVE  NInv'
<1>1. PICK h : h = hooks[w]
  OBVIOUS
<1>2. /\ hooks \in [Writers -> Hook \cup {Absent}]
      /\ hooks' = [hooks EXCEPT ![w] = Absent] /\ UNCHANGED <<row, sample, edge>>
  BY DEF NInv, IInv, TypeOK, Invalidate, database
<1>3. \A e, v : Current(e, v)' <=> Current(e, v)
  BY <1>2 DEF Current
<1>4. ASSUME NEW k \in Keys PROVE IsCached(k, neighborCache[k])'
  <2>1. PICK n : n = neighborCache[k]
    OBVIOUS
  <2>2. neighborCache'[k] = IF n # Absent /\ Named(h) \cap DOMAIN n.nodes # {}
                            THEN Absent ELSE n
    BY <1>1, <2>1 DEF Invalidate
  <2>3. CASE neighborCache'[k] = Absent
    BY <2>3 DEF IsCached
  <2>4. CASE neighborCache'[k] # Absent
    <3>1. neighborCache'[k] = n /\ n # Absent /\ Named(h) \cap DOMAIN n.nodes = {}
      BY <2>2, <2>4
    <3>2. Anchored(n) /\ (Overtaken(n) \/ Exact(k, n))
      BY <2>1, <3>1 DEF NInv, IsCached
    <3>3. Overtaken(n) => Overtaken(n)'
      BY <1>1, <1>2, <3>1, OvertakenGoesOn
    <3>4. Exact(k, n) => Exact(k, n)'
      BY <1>2, <1>3 DEF Exact
    <3>5. IsCached(k, n)'
      BY <3>2, <3>3, <3>4 DEF IsCached, Anchored
    <3> QED
      BY <3>1, <3>5, NextCached
  <2> QED
    BY <2>3, <2>4
<1>5. ASSUME NEW r \in Readers PROVE IsTraversal(reader[r])'
  <2>1. PICK s : s = reader[r]
    OBVIOUS
  <2>2. CASE s = Absent
    <3>1. reader'[r] = Absent
      BY <2>1, <2>2 DEF Invalidate
    <3> QED
      BY <3>1 DEF IsTraversal
  <2>3. CASE s # Absent
    <3>1. s \in ReaderState /\ s.late \in BOOLEAN /\ IsTraversal(s)
      BY <2>1, <2>3 DEF NInv, IInv, IsReader, ReaderState
    <3>2. PICK late \in BOOLEAN : late = (s.late \/ Named(h) \cap DOMAIN s.nodes # {})
      BY <3>1
    <3>3. PICK val : val = [s.val EXCEPT !.late = @ \/ (h.kind = "entity" /\ s.id \in h.ids)]
      OBVIOUS
    <3>4. PICK t : t = [s EXCEPT !.late = late, !.val = val]
      OBVIOUS
    <3>5. reader'[r] = [s EXCEPT !.late = @ \/ (Named(h) \cap DOMAIN s.nodes # {}),
                                 !.val.late = @ \/ (h.kind = "entity" /\ s.id \in h.ids)]
      BY <1>1, <2>1, <2>3 DEF Invalidate
    <3>6. reader'[r] = t
      BY <3>2, <3>3, <3>4, <3>5
    <3>7. /\ t.key = s.key /\ t.at = s.at /\ t.id = s.id /\ t.nodes = s.nodes
          /\ t.edges = s.edges /\ t.load = s.load /\ t.frontier = s.frontier
          /\ t.next = s.next /\ t.depth = s.depth /\ t.late = late
      BY <3>1, <3>4 DEF ReaderState
    <3>8. Sane(s) => Sane(t)'
      BY <1>2, <3>7 DEF Sane, Anchored, Pend
    <3>9. Overtaken(s) => Overtaken(t)'
      BY <1>1, <1>2, <3>2, <3>7, OvertakenGoesOn
    <3>10. Gathered(s) => Gathered(t)'
      BY <1>2, <1>3, <3>7 DEF Gathered, Pend
    <3>11. s.key \in Keys => Sane(t)' /\ (Overtaken(t)' \/ Gathered(t)')
      BY <2>3, <3>1, <3>8, <3>9, <3>10 DEF IsTraversal
    <3>12. IsTraversal(t)'
      BY <3>7, <3>11 DEF IsTraversal
    <3> QED
      BY <3>6, <3>12, NextReader
  <2> QED
    BY <2>2, <2>3
<1>6. Linked'
  BY <1>2 DEF NInv, Linked
<1> QED
  BY <1>4, <1>5, <1>6 DEF NInv

\* Nothing of a neighborhood changes, or it goes.
LEMMA ForgettingKeepsNInv ==
    ASSUME NInv, IInv', UNCHANGED <<row, sample, edge>>,
           \/ UNCHANGED hooks
           \/ \A k \in Keys : neighborCache'[k] = Absent,
           \A k \in Keys : neighborCache'[k] = Absent \/ neighborCache'[k] = neighborCache[k],
           \/ UNCHANGED <<hooks, reader>>
           \/ \A r \in Readers : reader'[r] = Absent
    PROVE  NInv'
<1>1. ASSUME NEW k \in Keys PROVE IsCached(k, neighborCache[k])'
  <2>1. CASE neighborCache'[k] = Absent
    BY <2>1 DEF IsCached
  <2>2. CASE UNCHANGED hooks /\ neighborCache'[k] = neighborCache[k]
    <3>1. PICK n : n = neighborCache[k]
      OBVIOUS
    <3>2. IsCached(k, n)'
      BY <2>2, <3>1, SameTraversal DEF NInv
    <3>3. neighborCache'[k] = n
      BY <2>2, <3>1
    <3> QED
      BY <3>2, <3>3, NextCached
  <2> QED
    BY <2>1, <2>2
<1>2. ASSUME NEW r \in Readers PROVE IsTraversal(reader[r])'
  <2>1. CASE reader'[r] = Absent
    BY <2>1 DEF IsTraversal
  <2>2. CASE UNCHANGED <<hooks, reader>>
    <3>1. PICK s : s = reader[r]
      OBVIOUS
    <3>2. IsTraversal(s)'
      BY <2>2, <3>1, SameTraversal DEF NInv
    <3>3. reader'[r] = s
      BY <2>2, <3>1
    <3> QED
      BY <3>2, <3>3, NextReader
  <2> QED
    BY <2>1, <2>2
<1>3. Linked'
  BY DEF NInv, Linked
<1> QED
  BY <1>1, <1>2, <1>3 DEF NInv

-----------------------------------------------------------------------------
LEMMA InitNInv == Init => NInv
<1> SUFFICES ASSUME Init PROVE NInv
  OBVIOUS
<1>1. IInv
  BY InitIInv
<1>2. Linked
  <2>1. PICK d \in Databases : row = d.row /\ edge = d.edge
    BY DEF Init
  <2>2. \A r \in RelIDs :
            d.edge[r] # Absent => d.row[d.edge[r].from] > 0 /\ d.row[d.edge[r].to] > 0
    BY CacheAssumption
  <2> QED
    BY <2>1, <2>2 DEF Linked
<1>3. /\ \A k \in Keys : neighborCache[k] = Absent
      /\ \A r \in Readers : reader[r] = Absent
  BY DEF Init
<1> QED
  BY <1>1, <1>2, <1>3 DEF NInv, IsTraversal, IsCached

LEMMA NextKeepsNInv == NInv /\ [Next]_vars => NInv'
<1> SUFFICES ASSUME NInv, [Next]_vars PROVE NInv'
  OBVIOUS
<1>1. IInv'
  BY NextKeepsIInv DEF NInv
<1>2. CASE UNCHANGED vars
  <2>1. UNCHANGED <<row, sample, edge, hooks, neighborCache, reader>>
    BY <1>2 DEF vars, database, cache
  <2> QED
    BY <1>1, <2>1, ForgettingKeepsNInv
<1>3. ASSUME NEW w \in Writers, NEW e \in EntIDs, MutateEntity(w, e) \/ PostEntityMetrics(w, e)
      PROVE  NInv'
  BY <1>1, <1>3, MutateEntityPosts, PostKeepsNInv
<1>4. ASSUME NEW w \in Writers, NEW r \in RelIDs, MutateRelationship(w, r) PROVE NInv'
  BY <1>1, <1>4, MutateRelationshipPosts, PostKeepsNInv
<1>5. ASSUME NEW w \in Writers, NEW r \in RelIDs, PostRelationshipMetrics(w, r) PROVE NInv'
  BY <1>1, <1>5, PostRelationshipMetricsPosts, PostKeepsNInv
<1>6. ASSUME NEW w \in Writers, Invalidate(w) PROVE NInv'
  BY <1>1, <1>6, InvalidateKeepsNInv
<1>7. ASSUME NEW r \in Readers,
             \/ \E e \in EntIDs : StartEntity(r, e) \/ StartByName(r, e)
             \/ \E k \in Keys : StartNeighborhood(r, k)
             \/ GetHit(r) \/ GetMiss(r)
             \/ ReadRow(r) \/ CheckCached(r) \/ ReadSample(r) \/ FillEntity(r)
             \/ Traverse(r) \/ FillNeighborhood(r) \/ ReadFails(r)
      PROVE  NInv'
  BY <1>1, <1>7, ReaderKeepsNInv
<1>8. CASE Expire
  <2>1. /\ UNCHANGED <<row, sample, edge, hooks, reader>>
        /\ \A k \in Keys : neighborCache'[k] = Absent \/ neighborCache'[k] = neighborCache[k]
    BY <1>8 DEF Expire, database, NInv, IInv
  <2> QED
    BY <1>1, <2>1, ForgettingKeepsNInv
<1>9. CASE Restart
  <2>1. /\ UNCHANGED <<row, sample, edge>>
        /\ \A k \in Keys : neighborCache'[k] = Absent
        /\ \A r \in Readers : reader'[r] = Absent
    BY <1>9 DEF Restart, database
  <2> QED
    BY <1>1, <2>1, ForgettingKeepsNInv
<1> QED
  BY <1>2, <1>3, <1>4, <1>5, <1>6, <1>7, <1>8, <1>9 DEF Next

\* Every reader of a neighborhood has come a well-defined part of the way of a
\* traversal of the current graph, and every neighborhood cached is one such
\* traversal, unless it was overtaken: in every reachable state.
THEOREM NeighborhoodInvariant == Spec => []NInv
BY InitNInv, NextKeepsNInv, PTL DEF Spec

\* InvalidateEntity and InvalidateRelationship forget every neighborhood that
\* a batch makes stale, at every depth and in every direction, though readers
\* put neighborhoods together query by query between other writers' commits.
THEOREM NeighborhoodsFreshHolds == Spec => []NeighborhoodsFresh
<1>1. NInv => NeighborhoodsFresh
  <2> SUFFICES ASSUME NInv, NEW k \in Keys, neighborCache[k] # Absent
               PROVE  LET n == neighborCache[k]
                      IN  Exact(k, n) \/ ~InTime(n) \/ ~Unmoved(n) \/ Pending(DOMAIN n.nodes)
    BY DEF NeighborhoodsFresh
  <2>1. PICK n : n = neighborCache[k]
    OBVIOUS
  <2>2. Overtaken(n) \/ Exact(k, n)
    BY <2>1 DEF NInv, IsCached
  <2>3. Due(DOMAIN n.nodes) => Pending(DOMAIN n.nodes)
    BY DEF Due, Pending, Named
  <2> QED
    BY <2>1, <2>2, <2>3 DEF Overtaken
<1> QED
  BY <1>1, NeighborhoodInvariant, PTL

=============================================================================
