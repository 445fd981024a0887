------------------------------- MODULE Pipeline -------------------------------
(***************************************************************************)
(* The processing pipeline: handlers of POST /v1/batches take a batch of   *)
(* records through the stages.  Names are resolved against the registry,   *)
(* a database of the pipeline's own; relationships are checked; what is    *)
(* left is compared with a listing of storage, and the difference is sent  *)
(* there as one mutation batch (see GraphStore: atomic).                   *)
(* The ids that ingestion gives to records are hashes of source, type and  *)
(* raw name, so a record's normalized name is a function of its id.  An    *)
(* alias normalizes to the name it is an alias of, so the two lookups by   *)
(* alias find what a later lookup by name would.                           *)
(* Left out: a record's namespace (ingestion relates records of one only), *)
(* and that only a team may own a service.                                 *)
(***************************************************************************)
EXTENDS GraphRows, FiniteSets, SequencesExt

CONSTANTS
    NameOf,      \* the normalized name of the record with an id
    Blank,       \* a name of which normalization leaves nothing
    Long,        \* a name longer than the 256 characters that storage accepts
    Batches,     \* what ingestion sends
    Handlers,    \* concurrent handlers
    None,        \* no id
    ListLimit,   \* of a listing's rows: 5000 entities, 20000 relationships
    MaxBatches,  \* bound: batches received
    MaxDeletes   \* bound: rows deleted by somebody else

Names == {NameOf[id] : id \in EntIDs}

\* `data` stands for everything the stages make of a source's records.
Batch == [ids : Seq(EntIDs), relationships : SUBSET (EntIDs \X EntIDs), data : Data]

\* A relationship's id is the hash of its endpoints.
ASSUME PipelineAssumption ==
    /\ NameOf \in [EntIDs -> Names]
    /\ RelIDs = EntIDs \X EntIDs
    /\ \A b \in Batches : b \in Batch /\ Len(b.ids) > 0
    /\ None \notin EntIDs
    /\ {ListLimit, MaxBatches, MaxDeletes} \subseteq Nat

VARIABLES
    registry,   \* the canonical id of each name
    graph,      \* storage's rows
    pipe,       \* pipe[h]: the batch that h works on, and how far it is
    received,   \* batches received
    deletes     \* rows deleted by somebody else

vars == <<registry, graph, pipe, received, deletes>>

Nothing == [x \in {} |-> x]

\* The map f, and for the keys that it does not have, g.
Over(f, g) ==
    [x \in DOMAIN f \cup DOMAIN g |-> IF x \in DOMAIN f THEN f[x] ELSE g[x]]

\* `todo` are the records still to resolve, `idMap` what others resolved to.
Idle == [at |-> "idle", batch |-> None, todo |-> << >>, idMap |-> Nothing,
         checked |-> {}, accepted |-> {}, listed |-> Nothing]

Init ==
    /\ registry = [n \in Names |-> None]
    /\ graph = EmptyGraph
    /\ pipe = [h \in Handlers |-> Idle]
    /\ received = 0
    /\ deletes = 0

-----------------------------------------------------------------------------

At(h, step) == pipe[h].at = step

Steps == {"byID", "byName", "insert", "check", "list", "apply"}
Answered == {"success", "failed", "invalid", "unknown", "conflict"}

Receive(h) ==
    /\ pipe[h].at \in Answered \cup {"idle"}
    /\ received < MaxBatches
    /\ received' = received + 1
    /\ \E b \in Batches :
          pipe' = [pipe EXCEPT ![h] = [Idle EXCEPT !.at = "byID", !.batch = b,
                                                   !.todo = b.ids]]
    /\ UNCHANGED <<registry, graph, deletes>>

Goto(h, step) == pipe' = [pipe EXCEPT ![h] = [@ EXCEPT !.at = step]]

\* Broken: the handler goes on after an error.
FailGoesOn(h, reason) == pipe' = [pipe EXCEPT ![h] = [Idle EXCEPT !.at = pipe[h].at]]

\* The handler answers an error and is done.
Fail(h, reason) == pipe' = [pipe EXCEPT ![h] = [Idle EXCEPT !.at = reason]]

-----------------------------------------------------------------------------
(* Stage 2: resolution, one record after the other. *)

Known(id) == registry[NameOf[id]] = id

Resolve(h, to) ==
    LET left == Tail(pipe[h].todo)
    IN  pipe' = [pipe EXCEPT ![h] = [@ EXCEPT
                    !.at = IF left = << >> THEN "check" ELSE "byID",
                    !.todo = left,
                    !.idMap = Over([id \in {Head(pipe[h].todo)} |-> to], pipe[h].idMap)]]

LookUpID(h) ==
    /\ At(h, "byID")
    /\ LET id == Head(pipe[h].todo)
       IN  \/ Known(id) /\ Resolve(h, id)
           \/ ~Known(id) /\ Goto(h, "byName")
    /\ UNCHANGED <<registry, graph, received, deletes>>

LookUpName(h) ==
    /\ At(h, "byName")
    /\ LET owner == registry[NameOf[Head(pipe[h].todo)]]
       IN  \/ owner # None /\ Resolve(h, owner)
           \/ owner = None /\ Goto(h, "insert")
    /\ UNCHANGED <<registry, graph, received, deletes>>

\* Broken: there is no unique index on the name.
InsertAnyway(h) ==
    /\ At(h, "insert")
    /\ LET id == Head(pipe[h].todo)
       IN  registry' = [registry EXCEPT ![NameOf[id]] = id] /\ Resolve(h, id)
    /\ UNCHANGED <<graph, received, deletes>>

\* The upsert of a new row, unless another batch has taken the name since the
\* lookup: the unique index on names fails the batch then.  The upsert of a
\* row that was found changes only its aliases, contributions and times.
Insert(h) ==
    /\ At(h, "insert")
    /\ LET id == Head(pipe[h].todo)
           owner == registry[NameOf[id]]
       IN  \/ /\ owner \in {None, id}
              /\ registry' = [registry EXCEPT ![NameOf[id]] = id]
              /\ Resolve(h, id)
           \/ /\ owner \notin {None, id}
              /\ Fail(h, "failed")
              /\ UNCHANGED registry
    /\ UNCHANGED <<graph, received, deletes>>

-----------------------------------------------------------------------------
(* Stages 3 and 5: relationships between canonical ids, and validation. *)

\* The batch's entities, without duplicates and those that have no name.
Valid(h) ==
    LET resolved == {pipe[h].idMap[i] : i \in DOMAIN pipe[h].idMap}
    IN  {id \in resolved : NameOf[id] # Blank}

Canonical(h, id) ==
    IF id \in DOMAIN pipe[h].idMap THEN pipe[h].idMap[id] ELSE id

Relationships(h) ==
    {<<Canonical(h, r[1]), Canonical(h, r[2])>> : r \in pipe[h].batch.relationships}

ValidRelationship(h, r) ==
    /\ r[1] # r[2]
    /\ \A e \in {r[1], r[2]} : e \in Valid(h) \/ Known(e)

\* A lookup that fails counts as "not found": the relationship is dropped.
Check(h) ==
    /\ At(h, "check")
    /\ \E r \in Relationships(h) \ pipe[h].checked :
          \/ /\ ValidRelationship(h, r)
             /\ pipe' = [pipe EXCEPT ![h].checked = @ \cup {r}, ![h].accepted = @ \cup {r}]
          \/ /\ ~ValidRelationship(h, r) \/ ~({r[1], r[2]} \subseteq Valid(h))
             /\ pipe' = [pipe EXCEPT ![h].checked = @ \cup {r}]
    /\ UNCHANGED <<registry, graph, received, deletes>>

-----------------------------------------------------------------------------
(* Stage 6: the delta against a listing of storage's active rows. *)

Active(ids) == {id \in ids : graph[id] # NoRow /\ graph[id].active}

\* The rows of ids that one query returns.
Listings(ids) ==
    {[id \in s |-> graph[id]] :
        s \in {s \in SUBSET Active(ids) :
                  Cardinality(s) = Min({ListLimit, Cardinality(Active(ids))})}}

\* A batch without entities touches no namespace and lists nothing.
ListEntities(h) ==
    /\ At(h, "check")
    /\ pipe[h].checked = Relationships(h)
    /\ \/ /\ Valid(h) = {}
          /\ Goto(h, "apply")
       \/ /\ Valid(h) # {}
          /\ \E l \in Listings(EntIDs) :
                pipe' = [pipe EXCEPT ![h] = [@ EXCEPT !.at = "list", !.listed = l]]
    /\ UNCHANGED <<registry, graph, received, deletes>>

ListRelationships(h) ==
    /\ At(h, "list")
    /\ \E l \in Listings(RelIDs) :
          pipe' = [pipe EXCEPT ![h] = [@ EXCEPT !.at = "apply", !.listed = Over(pipe[h].listed, l)]]
    /\ UNCHANGED <<registry, graph, received, deletes>>

Listed(h, id) == id \in DOMAIN pipe[h].listed

\* Broken: what is listed is taken to be up to date.
DiffersIfNew(h, id) == ~Listed(h, id)

Differs(h, id) == Listed(h, id) => pipe[h].listed[id].data # pipe[h].batch.data

\* Broken: updates are sent without the version they are based on.
NoVersion(h, id) == 0

\* The version a mutation supplies: that of the listed row, if there was one.
BaseVersion(h, id) == IF Listed(h, id) THEN pipe[h].listed[id].version ELSE 0

\* Storage will refuse the entity with a long name: stage 5 lets it through.
EntityMutations(h) ==
    {[id |-> id, version |-> BaseVersion(h, id),
      data |-> IF NameOf[id] = Long THEN BadData ELSE pipe[h].batch.data] :
        id \in {id \in Valid(h) : Differs(h, id)}}

RelationshipMutations(h) ==
    {[id |-> r, version |-> BaseVersion(h, r), data |-> pipe[h].batch.data,
      from |-> r[1], to |-> r[2]] :
        r \in {r \in pipe[h].accepted : Differs(h, r)}}

\* Broken: relationships are sent first.
RelationshipsFirst(h) ==
    SetToSeq(RelationshipMutations(h)) \o SetToSeq(EntityMutations(h))

Mutations(h) == SetToSeq(EntityMutations(h)) \o SetToSeq(RelationshipMutations(h))

-----------------------------------------------------------------------------
(* Storage. *)

\* Why ApplyBatch refuses a mutation, in the order it looks; or "success".
Verdict(g, m) ==
    IF m.data = BadData THEN "invalid"
    ELSE IF m.id \in RelIDs /\ UnknownEndpoint(g, m) THEN "unknown"
    ELSE IF VersionConflict(g, m) THEN "conflict" ELSE "success"

UpsertedRow(g, m) ==
    IF m.id \in RelIDs THEN RelationshipUpsertRow(g, m) ELSE EntityUpsertRow(g, m)

\* One mutation, on what the ones before it have made of the rows.
ApplyOne(s, m) ==
    IF s.verdict # "success" \/ Verdict(s.rows, m) # "success"
    THEN [s EXCEPT !.verdict = IF @ = "success" THEN Verdict(s.rows, m) ELSE @]
    ELSE IF NoChange(s.rows, m.id, UpsertedRow(s.rows, m)) THEN s
    ELSE [s EXCEPT !.rows[m.id] = UpsertedRow(s.rows, m)]

\* One transaction: the rows that all mutations make of g.
ApplyAll(g, ms) ==
    LET after[n \in 0 .. Len(ms)] ==
            IF n = 0 THEN [rows |-> g, verdict |-> "success"]
            ELSE ApplyOne(after[n - 1], ms[n])
    IN  after[Len(ms)]

ApplyBatch(h) == ApplyAll(graph, Mutations(h))

\* handleBatches sends the mutations, if there are any, and answers; the
\* answer of storage may get lost.
Apply(h) ==
    /\ At(h, "apply")
    /\ LET result == ApplyBatch(h)
       IN  \/ /\ result.verdict = "success"
              /\ graph' = result.rows
              /\ Goto(h, "success")
           \/ /\ result.verdict = "success"
              /\ Mutations(h) # << >>
              /\ graph' = result.rows
              /\ Fail(h, "failed")
           \/ /\ result.verdict # "success"
              /\ graph' = graph
              /\ Fail(h, result.verdict)
    /\ UNCHANGED <<registry, received, deletes>>

\* A query of the registry or a request to storage fails, at a step that
\* makes one whose error stops the batch.
RequestFails(h) ==
    /\ pipe[h].at \in Steps
    /\ At(h, "check") => pipe[h].checked = Relationships(h) /\ Valid(h) # {}
    /\ At(h, "apply") => Mutations(h) # << >>
    /\ Fail(h, "failed")
    /\ UNCHANGED <<registry, graph, received, deletes>>

\* Somebody else deletes a row through POST /mutations.
Delete(id) ==
    /\ deletes < MaxDeletes
    /\ id \in Active(IDs)
    /\ deletes' = deletes + 1
    /\ graph' = [graph EXCEPT ![id] = DeletedRow(graph, id)]
    /\ UNCHANGED <<registry, pipe, received>>

\* The pipeline's process ends and starts again on the same registry.
Restart ==
    /\ pipe' = [h \in Handlers |-> Idle]
    /\ UNCHANGED <<registry, graph, received, deletes>>

Next ==
    \/ \E h \in Handlers :
          \/ Receive(h) \/ LookUpID(h) \/ LookUpName(h) \/ Insert(h) \/ Check(h)
          \/ ListEntities(h) \/ ListRelationships(h) \/ Apply(h) \/ RequestFails(h)
    \/ \E id \in IDs : Delete(id)
    \/ Restart

Spec == Init /\ [][Next]_vars

-----------------------------------------------------------------------------

\* The variables' types; what is listed is a row that storage has.
TypeOK ==
    /\ registry \in [Names -> EntIDs \cup {None}]
    /\ IsGraph(graph)
    /\ received \in Nat /\ deletes \in Nat
    /\ \A h \in Handlers :
          /\ pipe[h].at \in Steps \cup Answered \cup {"idle"}
          /\ pipe[h].at \in Steps => pipe[h].batch \in Batches
          /\ pipe[h].accepted \subseteq pipe[h].checked /\ pipe[h].checked \subseteq RelIDs
          /\ \A id \in DOMAIN pipe[h].listed : graph[id] # NoRow

\* One thing is one node: two sources that name it, in batches that race
\* through lookup and insert, never get two entities into the graph.
OneEntityPerName ==
    \A d, e \in EntIDs :
        graph[d] # NoRow /\ graph[e] # NoRow /\ NameOf[d] = NameOf[e] => d = e

\* The step in which h applies its mutations or is refused.
Applies(h) == At(h, "apply") /\ pipe'[h].at \in Answered

\* The delta replaces what it was computed against: a row that the listing
\* showed is overwritten only if it is still that row.  (A row that it did
\* not show, because it is new, deleted or beyond the limit, is overwritten
\* blindly.)
ReplacesWhatWasListed ==
    [][\A h \in Handlers : Applies(h) =>
          \A id \in DOMAIN pipe[h].listed :
              graph'[id] # graph[id] => graph[id] = pipe[h].listed[id]]_vars

\* A batch that is answered "success" is in the graph at that moment, each
\* entity and each relationship that was accepted, unless another write
\* changed the row after the listing.
SuccessIsShown ==
    [][\A h \in Handlers : Applies(h) /\ pipe'[h].at = "success" =>
          \A id \in Valid(h) \cup pipe[h].accepted :
              \/ graph'[id] # NoRow /\ graph'[id].data = pipe[h].batch.data
              \/ Listed(h, id) /\ graph[id] # pipe[h].listed[id]]_vars

\* Storage refuses a batch only for a name that is too long, for a row that
\* was written after the listing, or for an endpoint that is registered and
\* was never stored: the order of the mutations and stage 5 see to the rest.
\* (Each of the three fails the batch as a whole, for one record.)
RefusalsExplained ==
    [][\A h \in Handlers : Applies(h) =>
          /\ pipe'[h].at = "conflict" =>
                 \E id \in DOMAIN pipe[h].listed : graph[id] # pipe[h].listed[id]
          /\ pipe'[h].at = "unknown" =>
                 \E r \in pipe[h].accepted : \E e \in {r[1], r[2]} :
                     Known(e) /\ e \notin Valid(h) /\ graph[e] = NoRow
          /\ pipe'[h].at = "invalid" => \E id \in Valid(h) : NameOf[id] = Long]_vars

=============================================================================
