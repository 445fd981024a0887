------------------------------ MODULE GraphCache ------------------------------
(***************************************************************************)
(* storage's read path: GraphCache's entity layer and neighborhood layer   *)
(* in front of the rows, readers that fill them from the database, and the *)
(* invalidations that run after a mutation batch or a metrics batch has    *)
(* committed.  The database is atomic here (see GraphStore): a batch is    *)
(* one step, and each SQL query of a reader sees the committed rows.       *)
(* An entity row and a metrics sample are each a generation number, 0 for  *)
(* absent; all that is cached of them is which generation was read.  The   *)
(* subgraph layer is left out: no code fills it.                           *)
(***************************************************************************)
EXTENDS Integers, Sequences, FiniteSets

CONSTANTS
    EntIDs, RelIDs,
    Databases,  \* what may be on disk when the process starts
    Keys,       \* neighborhoods asked for: <<origin, depth, direction>>
    Readers,    \* concurrent GET handlers
    Writers,    \* concurrent POST handlers
    Absent,     \* no row, or no cache entry
    NoKey,      \* asked for instead of a neighborhood: one entity by id,
    ByName,     \* or by name
    Unsampled,  \* bound: entities whose metrics query may fail
    MaxWrites   \* bound: batches committed

Directions == {"out", "in", "both"}

Edge == [from : EntIDs, to : EntIDs, active : BOOLEAN, gen : Nat]

Database == [row : [EntIDs -> Nat], edge : [RelIDs -> Edge \cup {Absent}]]

\* What a committed batch has still to invalidate.
Hook ==
    [kind : {"entity", "relationship"}, ids : SUBSET EntIDs]
    \cup [kind : {"sample"}, rel : RelIDs]

\* An entity as it was read; bare: without its sample, since the query for it
\* failed.  `late` is auxiliary: its invalidation ran between the read and the
\* fill, so that no later invalidation is due.
Value == [row : Nat \ {0}, sample : Nat, bare : BOOLEAN, late : BOOLEAN]

ASSUME CacheAssumption ==
    /\ Databases \subseteq Database
    \* A relationship's endpoints are rows before it is (GraphStore: EndpointsFirst).
    /\ \A d \in Databases : \A r \in RelIDs :
          d.edge[r] # Absent => d.row[d.edge[r].from] > 0 /\ d.row[d.edge[r].to] > 0
    /\ Keys \subseteq EntIDs \X (0 .. 5) \X Directions
    /\ {NoKey, ByName} \cap Keys = {}
    /\ Absent \notin Hook \cup Edge \cup Value
    /\ MaxWrites \in Nat

VARIABLES
    row,            \* the entities table
    sample,         \* the last entity_metrics row of each entity
    edge,           \* the relationships table
    hooks,          \* hooks[w]: the invalidation w has still to run, or Absent
    entityCache,    \* layer 1
    neighborCache,  \* layer 2
    reader,         \* reader[r]: what r has read so far, or Absent
    writes          \* batches committed

database == <<row, sample, edge>>
cache == <<entityCache, neighborCache>>
vars == <<database, hooks, cache, reader, writes>>

\* A function with one more, or one changed, element.
Put(f, k, v) == [x \in DOMAIN f \cup {k} |-> IF x = k THEN v ELSE f[x]]

Nothing == [x \in {} |-> x]

-----------------------------------------------------------------------------
(* What a neighborhood is. *)

Active(g, r) == {e \in {g[r]} \ {Absent} : e.active}

\* The endpoint of an edge that a traversal from n, in direction dir, meets.
Follow(g, r, n, dir) ==
    {e.to : e \in {e \in Active(g, r) : dir # "in" /\ e.from = n}} \cup
    {e.from : e \in {e \in Active(g, r) : dir # "out" /\ e.to = n}}

EdgesOf(g, n, dir) == {r \in RelIDs : Follow(g, r, n, dir) # {}}

NodesWithin(g, o, depth, dir) ==
    LET within[d \in 0 .. depth] ==
            IF d = 0 THEN {o}
            ELSE within[d - 1] \cup
                 UNION {Follow(g, r, n, dir) : r \in RelIDs, n \in within[d - 1]}
    IN  within[depth]

EdgesWithin(g, o, depth, dir) ==
    IF depth = 0 THEN {}
    ELSE UNION {EdgesOf(g, n, dir) : n \in NodesWithin(g, o, depth - 1, dir)}

-----------------------------------------------------------------------------
(* The process starts with empty caches. *)

Init ==
    /\ \E d \in Databases : row = d.row /\ edge = d.edge
    /\ sample = [e \in EntIDs |-> 0]
    /\ hooks = [w \in Writers |-> Absent]
    /\ entityCache = [e \in EntIDs |-> Absent]
    /\ neighborCache = [k \in Keys |-> Absent]
    /\ reader = [r \in Readers |-> Absent]
    /\ writes = 0

-----------------------------------------------------------------------------
(* Writers.  A hook names the entities whose entries it deletes. *)

EntityHook(e) == [kind |-> "entity", ids |-> {e}]
SampleHook(r) == [kind |-> "sample", rel |-> r]

\* Broken: only one endpoint is named.
HookOfTo(from, to) == [kind |-> "relationship", ids |-> {to}]

RelHook(from, to) == [kind |-> "relationship", ids |-> {from, to}]

Writable(w) == hooks[w] = Absent /\ writes < MaxWrites

(* A batch is modelled one mutation at a time: two writers that commit before *)
(* either runs its hooks leave the states that a batch of two leaves, and     *)
(* more.                                                                      *)

\* ApplyBatch has committed: entity e was created, updated or soft-deleted.
MutateEntity(w, e) ==
    /\ Writable(w)
    /\ writes' = writes + 1
    /\ row' = [row EXCEPT ![e] = @ + 1]
    /\ hooks' = [hooks EXCEPT ![w] = EntityHook(e)]
    /\ UNCHANGED <<sample, edge, cache, reader>>

\* What upsert_relationship (which may move r to other endpoints) and
\* delete_relationship leave of r.
EdgeAfter(r) ==
    LET known == {e \in EntIDs : row[e] > 0}
        edges == [from : known, to : known, active : {TRUE}, gen : {writes + 1}]
    IN  {e \in edges : e.from # e.to}
        \cup {[e EXCEPT !.active = FALSE, !.gen = writes + 1] : e \in Active(edge, r)}

\* ApplyBatch has committed: the hook has the endpoints r has now.
MutateRelationship(w, r) ==
    /\ Writable(w)
    /\ writes' = writes + 1
    /\ \E new \in EdgeAfter(r) :
          /\ edge' = [edge EXCEPT ![r] = new]
          /\ hooks' = [hooks EXCEPT ![w] = RelHook(new.from, new.to)]
    /\ UNCHANGED <<row, sample, cache, reader>>

\* Broken: the handler invalidates nothing.
PostAndForget(w, e) ==
    /\ Writable(w)
    /\ writes' = writes + 1
    /\ sample' = [sample EXCEPT ![e] = @ + 1]
    /\ UNCHANGED <<row, edge, hooks, cache, reader>>

\* Metrics.Ingest has committed a sample of entity e.
PostEntityMetrics(w, e) ==
    /\ Writable(w)
    /\ writes' = writes + 1
    /\ sample' = [sample EXCEPT ![e] = @ + 1]
    /\ hooks' = [hooks EXCEPT ![w] = EntityHook(e)]
    /\ UNCHANGED <<row, edge, cache, reader>>

\* Metrics.Ingest has committed a sample of relationship r, which no cache holds.
PostRelationshipMetrics(w, r) ==
    /\ Writable(w)
    /\ writes' = writes + 1
    /\ hooks' = [hooks EXCEPT ![w] = SampleHook(r)]
    /\ UNCHANGED <<database, cache, reader>>

\* The entities a hook names; a relationship sample's endpoints are looked up
\* when it runs.
Named(h) ==
    IF h.kind # "sample" THEN h.ids
    ELSE IF edge[h.rel] = Absent THEN {} ELSE {edge[h.rel].from, edge[h.rel].to}

\* InvalidateEntity, InvalidateRelationship: one critical section each.
Invalidate(w) ==
    /\ hooks[w] # Absent
    /\ LET h == hooks[w]
           hit(f) == Named(h) \cap DOMAIN f # {}
       IN  /\ entityCache' = [e \in EntIDs |->
                  IF h.kind = "entity" /\ e \in h.ids THEN Absent ELSE entityCache[e]]
           /\ neighborCache' = [k \in Keys |->
                  IF neighborCache[k] # Absent /\ hit(neighborCache[k].nodes)
                  THEN Absent ELSE neighborCache[k]]
           /\ reader' = [r \in Readers |->
                  IF reader[r] = Absent THEN Absent
                  ELSE [reader[r] EXCEPT
                            !.late = @ \/ hit(reader[r].nodes),
                            !.val.late = @ \/ (h.kind = "entity" /\ reader[r].id \in h.ids)]]
    /\ hooks' = [hooks EXCEPT ![w] = Absent]
    /\ UNCHANGED <<database, writes>>

-----------------------------------------------------------------------------
(* Readers.  A reader's `at` is its next call: look id up in layer 1 ("get"), *)
(* read its row or its sample, fill layer 1, or query a frontier node's edges. *)

Fresh == [row |-> 0, sample |-> 0, bare |-> FALSE, late |-> FALSE]

Start(r, key, step, id, depth) ==
    /\ reader[r] = Absent
    /\ reader' = [reader EXCEPT ![r] =
           [key |-> key, at |-> step, id |-> id, val |-> Fresh,
            nodes |-> Nothing, edges |-> Nothing, load |-> {}, frontier |-> {},
            next |-> {}, depth |-> depth, late |-> FALSE]]
    /\ UNCHANGED <<database, hooks, cache, writes>>

\* GetEntity on a miss; a hit changes nothing.
StartEntity(r, e) == entityCache[e] = Absent /\ Start(r, NoKey, "row", e, 0)

\* GetEntityByName reads the row before it looks for a cached one.
StartByName(r, e) == Start(r, ByName, "row", e, 0)

\* Neighborhood on a miss.
StartNeighborhood(r, k) ==
    neighborCache[k] = Absent /\ Start(r, k, "get", k[1], k[2])

At(r, step) == reader[r] # Absent /\ reader[r].at = step

\* id has been loaded (val), or not found (Absent): what r does next.
Loaded(r, val) ==
    LET s == reader[r]
        nodes == IF val = Absent THEN s.nodes ELSE Put(s.nodes, s.id, val)
        next == IF val = Absent THEN s.next ELSE s.next \cup {s.id}
    IN  IF s.key \notin Keys \/ DOMAIN nodes = {}
        THEN reader' = [reader EXCEPT ![r] = Absent]
        ELSE IF s.load # {}
        THEN \E n \in s.load :
                reader' = [reader EXCEPT ![r] =
                    [s EXCEPT !.at = "get", !.id = n, !.val = Fresh, !.nodes = nodes,
                              !.next = next, !.load = @ \ {n}]]
        ELSE reader' = [reader EXCEPT ![r] =
                    [s EXCEPT !.at = "edges", !.val = Fresh, !.nodes = nodes,
                              !.next = next]]

GetHit(r) ==
    /\ At(r, "get")
    /\ entityCache[reader[r].id] # Absent
    /\ Loaded(r, entityCache[reader[r].id])
    /\ UNCHANGED <<database, hooks, cache, writes>>

GetMiss(r) ==
    /\ At(r, "get")
    /\ entityCache[reader[r].id] = Absent
    /\ reader' = [reader EXCEPT ![r].at = "row"]
    /\ UNCHANGED <<database, hooks, cache, writes>>

\* Broken: a missing row is not noticed.
ReadAnyRow(r) ==
    /\ At(r, "row")
    /\ reader' = [reader EXCEPT ![r] =
           [@ EXCEPT !.at = IF reader[r].key = ByName THEN "check" ELSE "sample",
                     !.val = [Fresh EXCEPT !.row = row[reader[r].id]]]]
    /\ UNCHANGED <<database, hooks, cache, writes>>

ReadRow(r) ==
    /\ At(r, "row")
    /\ LET id == reader[r].id
       IN  \/ /\ row[id] = 0
              /\ Loaded(r, Absent)
           \/ /\ row[id] # 0
              /\ reader' = [reader EXCEPT ![r] =
                     [@ EXCEPT !.at = IF reader[r].key = ByName THEN "check" ELSE "sample",
                               !.val = [Fresh EXCEPT !.row = row[id]]]]
    /\ UNCHANGED <<database, hooks, cache, writes>>

\* GetEntityByName returns a cached entity if there is one by now.
CheckCached(r) ==
    /\ At(r, "check")
    /\ reader' = [reader EXCEPT ![r] =
           IF entityCache[reader[r].id] # Absent THEN Absent
           ELSE [@ EXCEPT !.at = "sample"]]
    /\ UNCHANGED <<database, hooks, cache, writes>>

\* injectMetricsSummary; an error leaves the summary out, and the row is
\* filled without it.
ReadSample(r) ==
    /\ At(r, "sample")
    /\ \/ reader' = [reader EXCEPT ![r] =
              [@ EXCEPT !.at = "fill", !.val.sample = sample[reader[r].id]]]
       \/ /\ reader[r].id \in Unsampled
          /\ reader' = [reader EXCEPT ![r] = [@ EXCEPT !.at = "fill", !.val.bare = TRUE]]
    /\ UNCHANGED <<database, hooks, cache, writes>>

FillEntity(r) ==
    /\ At(r, "fill")
    /\ entityCache' = [entityCache EXCEPT ![reader[r].id] = reader[r].val]
    /\ Loaded(r, reader[r].val)
    /\ UNCHANGED <<database, hooks, neighborCache, writes>>

\* One turn of the traversal: the next depth, or the edges of a frontier node.
Traverse(r) ==
    /\ At(r, "edges")
    /\ LET s == reader[r]
       IN  \/ /\ s.frontier = {}
              /\ s.next # {} /\ s.depth > 0
              /\ reader' = [reader EXCEPT ![r] =
                     [s EXCEPT !.frontier = s.next, !.next = {}, !.depth = @ - 1]]
           \/ \E n \in s.frontier :
                 LET found == EdgesOf(edge, n, s.key[3]) \ DOMAIN s.edges
                     others == (UNION {Follow(edge, x, n, s.key[3]) : x \in found})
                               \ DOMAIN s.nodes
                     edges == [x \in DOMAIN s.edges \cup found |->
                                  IF x \in found THEN edge[x] ELSE s.edges[x]]
                     s2 == [s EXCEPT !.frontier = @ \ {n}, !.edges = edges]
                 IN  \/ /\ others = {}
                        /\ reader' = [reader EXCEPT ![r] = s2]
                     \/ \E o \in others :
                           reader' = [reader EXCEPT ![r] =
                               [s2 EXCEPT !.at = "get", !.id = o, !.load = others \ {o}]]
    /\ UNCHANGED <<database, hooks, cache, writes>>

FillNeighborhood(r) ==
    /\ At(r, "edges")
    /\ LET s == reader[r]
       IN  /\ s.frontier = {}
           /\ s.next = {} \/ s.depth = 0
           /\ neighborCache' = [neighborCache EXCEPT ![s.key] =
                  [nodes |-> s.nodes, edges |-> s.edges, late |-> s.late]]
    /\ reader' = [reader EXCEPT ![r] = Absent]
    /\ UNCHANGED <<database, hooks, entityCache, writes>>

-----------------------------------------------------------------------------

\* The query for a row or for a node's edges fails, or its request is
\* cancelled: the reader fills nothing more.
ReadFails(r) ==
    /\ At(r, "row") \/ (At(r, "edges") /\ reader[r].frontier # {})
    /\ reader' = [reader EXCEPT ![r] = Absent]
    /\ UNCHANGED <<database, hooks, cache, writes>>

\* The TTL of an entry runs out.
Expire ==
    /\ \/ \E e \in EntIDs :
             /\ entityCache[e] # Absent
             /\ entityCache' = [entityCache EXCEPT ![e] = Absent]
             /\ neighborCache' = neighborCache
       \/ \E k \in Keys :
             /\ neighborCache[k] # Absent
             /\ neighborCache' = [neighborCache EXCEPT ![k] = Absent]
             /\ entityCache' = entityCache
    /\ UNCHANGED <<database, hooks, reader, writes>>

\* The process restarts: caches, readers and pending hooks are gone.
Restart ==
    /\ hooks' = [w \in Writers |-> Absent]
    /\ entityCache' = [e \in EntIDs |-> Absent]
    /\ neighborCache' = [k \in Keys |-> Absent]
    /\ reader' = [r \in Readers |-> Absent]
    /\ UNCHANGED <<database, writes>>

Next ==
    \/ \E w \in Writers :
          \/ \E e \in EntIDs : MutateEntity(w, e) \/ PostEntityMetrics(w, e)
          \/ \E r \in RelIDs :
                 MutateRelationship(w, r) \/ PostRelationshipMetrics(w, r)
          \/ Invalidate(w)
    \/ \E r \in Readers :
          \/ \E e \in EntIDs : StartEntity(r, e) \/ StartByName(r, e)
          \/ \E k \in Keys : StartNeighborhood(r, k)
          \/ GetHit(r) \/ GetMiss(r) \/ ReadRow(r) \/ CheckCached(r) \/ ReadSample(r) \/ FillEntity(r)
          \/ Traverse(r) \/ FillNeighborhood(r) \/ ReadFails(r)
    \/ Expire
    \/ Restart

Spec == Init /\ [][Next]_vars

-----------------------------------------------------------------------------

IsNeighborhood(n) ==
    /\ DOMAIN n.nodes \subseteq EntIDs
    /\ \A e \in DOMAIN n.nodes : n.nodes[e] \in Value
    /\ DOMAIN n.edges \subseteq RelIDs
    /\ \A r \in DOMAIN n.edges : n.edges[r] \in Edge
    /\ n.late \in BOOLEAN

TypeOK ==
    /\ row \in [EntIDs -> Nat]
    /\ sample \in [EntIDs -> Nat]
    /\ edge \in [RelIDs -> Edge \cup {Absent}]
    /\ hooks \in [Writers -> Hook \cup {Absent}]
    /\ entityCache \in [EntIDs -> Value \cup {Absent}]
    /\ \A k \in Keys : neighborCache[k] = Absent \/ IsNeighborhood(neighborCache[k])
    /\ writes \in Nat

Current(e, v) == v.row = row[e] /\ (v.bare \/ v.sample = sample[e])

\* Some invalidation still to run deletes what is cached of these entities.
Pending(ids) == \E w \in Writers :
    hooks[w] # Absent /\ Named(hooks[w]) \cap ids # {}

PendingEntity(e) == \E w \in Writers :
    hooks[w] # Absent /\ hooks[w].kind = "entity" /\ e \in hooks[w].ids

\* A cached entity is its current row with its last sample, or its
\* invalidation is still to run.  The exceptions are an entry filled by a
\* reader that its invalidation overtook (GetEntity fills without looking
\* whether what it read has been invalidated since) and, of the sample alone,
\* one whose query failed: injectMetricsSummary swallows the error, and the
\* row is cached without its sample.
EntitiesFresh ==
    \A e \in EntIDs : entityCache[e] # Absent /\ ~entityCache[e].late =>
        Current(e, entityCache[e]) \/ PendingEntity(e)

Exact(k, n) ==
    /\ DOMAIN n.nodes = NodesWithin(edge, k[1], k[2], k[3])
    /\ \A e \in DOMAIN n.nodes : Current(e, n.nodes[e])
    /\ DOMAIN n.edges = EdgesWithin(edge, k[1], k[2], k[3])
    /\ \A r \in DOMAIN n.edges : n.edges[r] = edge[r]

\* No invalidation overtook the traversal, or a fill it took a node from.
InTime(n) == ~n.late /\ \A e \in DOMAIN n.nodes : ~n.nodes[e].late

Unmoved(n) == \A r \in DOMAIN n.edges :
    edge[r].from = n.edges[r].from /\ edge[r].to = n.edges[r].to

\* The invalidation rules (origin or node of the entry, endpoints of the
\* edge) are complete at every depth and direction: a cached neighborhood is
\* the traversal of the current graph, though its parts were read one by one
\* between other writers' commits, or an invalidation of it is still to run.
\* The exceptions are overtaken readers and an edge that an upsert moved to
\* other endpoints, whose hook names only the new ones; of a node's sample,
\* a query for it that failed (Current).
NeighborhoodsFresh ==
    \A k \in Keys :
        LET n == neighborCache[k]
        IN  n # Absent => Exact(k, n) \/ ~InTime(n) \/ ~Unmoved(n)
                          \/ Pending(DOMAIN n.nodes)

=============================================================================
