------------------------------ MODULE GraphRows ------------------------------
(***************************************************************************)
(* The rows of storage's two tables (entities, relationships), the         *)
(* mutations a batch is made of, and what one mutation does to the rows.   *)
(* A row keeps the fields the write rules read: its version, its is_active *)
(* flag, the endpoints of a relationship, and in `data` everything else    *)
(* (type, name, namespace, confidence, lifecycle stage, properties).  The  *)
(* stage DELETED that a soft delete sets goes with is_active.  valid_from, *)
(* valid_to and the timestamps are left out: no rule compares them.        *)
(***************************************************************************)
EXTENDS Integers, Sequences

CONSTANTS
    EntIDs,     \* entity ids
    RelIDs,     \* relationship ids
    Data,       \* contents that pass validation
    BadData,    \* a content that ValidateEntity or ValidateRelationship rejects
    Versions,   \* the versions a caller may supply; 0 means "none supplied"
    NoRow       \* what a lookup of an absent id returns (ErrNotFound)

IDs == EntIDs \cup RelIDs

EntRow == [version : Int, active : BOOLEAN, data : Data]
RelRow == [version : Int, active : BOOLEAN, data : Data,
           from : EntIDs, to : EntIDs]
Row == EntRow \cup RelRow

ASSUME RowsAssumption ==
    /\ EntIDs \cap RelIDs = {}
    /\ BadData \notin Data
    /\ Versions \subseteq Int
    /\ NoRow \notin Row

IsGraph(g) ==
    /\ g \in [IDs -> Row \cup {NoRow}]
    /\ \A e \in EntIDs : g[e] \in EntRow \cup {NoRow}
    /\ \A r \in RelIDs : g[r] \in RelRow \cup {NoRow}

EmptyGraph == [id \in IDs |-> NoRow]

(***************************************************************************)
(* Mutations.  An upsert carries the whole row the caller wants; a delete  *)
(* names its target.                                                       *)
(***************************************************************************)
EntityUpserts ==
    [id : EntIDs, data : Data \cup {BadData}, version : Versions]
RelationshipUpserts ==
    [id : RelIDs, data : Data \cup {BadData}, version : Versions,
     from : EntIDs, to : EntIDs]

-----------------------------------------------------------------------------
(* The errors of the four handlers, each on the rows g its transaction sees. *)

\* Broken: the optimistic lock is not checked.
NeverConflicts(g, m) == FALSE

VersionConflict(g, m) ==
    /\ g[m.id] # NoRow
    /\ m.version # 0
    /\ m.version # g[m.id].version

\* Broken: the entity is not validated.
UnvalidatedEntityFails(g, m) == VersionConflict(g, m)

UpsertEntityFails(g, m) ==
    \/ m.data = BadData
    \/ VersionConflict(g, m)

\* Broken: only one endpoint is looked up.
UnknownFrom(g, m) == g[m.from] = NoRow

\* Any row will do for an endpoint: EntityExists does not look at is_active.
UnknownEndpoint(g, m) == g[m.from] = NoRow \/ g[m.to] = NoRow

UpsertRelationshipFails(g, m) ==
    \/ m.data = BadData
    \/ m.from = m.to
    \/ UnknownEndpoint(g, m)
    \/ VersionConflict(g, m)

-----------------------------------------------------------------------------
(* The row each handler writes. *)

\* Broken: an update stores the version the caller supplied.
SuppliedVersion(g, m) ==
    IF m.version # 0 THEN m.version
    ELSE IF g[m.id] = NoRow THEN 1 ELSE g[m.id].version + 1

\* An insert keeps a version the caller supplied; an update counts up from
\* the stored row.
NextVersion(g, m) ==
    IF g[m.id] = NoRow
    THEN IF m.version = 0 THEN 1 ELSE m.version
    ELSE g[m.id].version + 1

EntityUpsertRow(g, m) ==
    [version |-> NextVersion(g, m), active |-> TRUE, data |-> m.data]

RelationshipUpsertRow(g, m) ==
    [version |-> NextVersion(g, m), active |-> TRUE, data |-> m.data,
     from |-> m.from, to |-> m.to]

DeletedRow(g, id) ==
    [g[id] EXCEPT !.version = @ + 1, !.active = FALSE]

\* The update comparison ignores the version; a delete of an inactive row is
\* the same comparison, because it would change nothing else.
NoChange(g, id, row) ==
    /\ g[id] # NoRow
    /\ [row EXCEPT !.version = g[id].version] = g[id]

-----------------------------------------------------------------------------
(* The mutation log.  `version` is an auxiliary field: the version the caller *)
(* supplied.  mutation_type is left out: it follows from before and after.     *)

Entry == [txn : Nat, id : IDs, before : Row \cup {NoRow}, after : Row,
          version : Int]

\* id's row is what its last entry says, and absent ids have no entry.
Projects(g, l) ==
    \A id \in IDs :
        \/ /\ g[id] = NoRow
           /\ \A i \in DOMAIN l : l[i].id # id
        \/ \E i \in DOMAIN l :
              /\ l[i].id = id
              /\ l[i].after = g[id]
              /\ \A j \in DOMAIN l : l[j].id = id => j <= i

\* Entry i starts from where the previous entry of its id ended.
Follows(l, i) ==
    \/ /\ l[i].before = NoRow
       /\ \A j \in 1 .. i - 1 : l[j].id # l[i].id
    \/ \E j \in 1 .. i - 1 :
          /\ l[j].id = l[i].id
          /\ l[j].after = l[i].before
          /\ \A k \in 1 .. i - 1 : l[k].id = l[i].id => k <= j

Chained(l) == \A i \in DOMAIN l : Follows(l, i)

\* Entries n+1 onwards are one transaction's, and no other entry is.
OneTransaction(l, n) ==
    \E t \in {l[i].txn : i \in DOMAIN l} :
        \A i \in DOMAIN l : l[i].txn = t <=> i > n

=============================================================================
