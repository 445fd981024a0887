------------------------------ MODULE GraphStore ------------------------------
(***************************************************************************)
(* storage's write path: mutation.API.ApplyBatch run by concurrent HTTP    *)
(* handlers over one SQLite connection (SetMaxOpenConns(1)).  A batch is   *)
(* chosen one mutation at a time, which is the same as choosing it whole:  *)
(* nobody sees it before it is applied.  A crash loses every transaction   *)
(* that is open and every answer that is not sent.                         *)
(***************************************************************************)
EXTENDS GraphRows, FiniteSets

CONSTANTS
    Clients,    \* concurrent callers of POST /mutations
    NoClient,   \* the connection is free
    NoResult,   \* the client waits for no answer
    MaxTxn,     \* bound: transactions begun
    MaxBatch    \* bound: mutations in a batch

\* What ApplyBatch returns: a status, an error, the entries it wrote.
Result == [txn : Nat, status : {"SUCCESS", "FAILED"}, err : BOOLEAN,
           writes : Nat]

ASSUME ClientsAssumption ==
    /\ NoClient \notin Clients
    /\ MaxTxn \in Nat
    /\ MaxBatch \in Nat
    /\ NoResult \notin Result

VARIABLES
    graph,      \* the committed rows
    log,        \* the committed delta_log
    conn,       \* the client whose transaction holds the connection
    txn,        \* the number of the last transaction begun
    txGraph,    \* the rows as the open transaction sees them
    txLog,      \* the log as the open transaction sees it
    applied,    \* mutations of the open batch already applied
    result      \* result[c]: ApplyBatch returned it, c has not read it yet

vars == <<graph, log, conn, txn, txGraph, txLog, applied, result>>

Init ==
    /\ graph = EmptyGraph
    /\ log = <<>>
    /\ conn = NoClient
    /\ txn = 0
    /\ txGraph = graph
    /\ txLog = log
    /\ applied = 0
    /\ result = [c \in Clients |-> NoResult]

-----------------------------------------------------------------------------

\* BeginTx waits until the connection is free.
BeginTx(c) ==
    /\ conn = NoClient
    /\ result[c] = NoResult
    /\ txn < MaxTxn
    /\ conn' = c
    /\ txn' = txn + 1
    /\ txGraph' = graph
    /\ txLog' = log
    /\ applied' = 0
    /\ UNCHANGED <<graph, log, result>>

\* Broken: the failure path commits what was written so far.
RollbackCommits ==
    /\ conn' = NoClient
    /\ graph' = txGraph
    /\ log' = txLog
    /\ applied' = 0
    /\ UNCHANGED <<txGraph, txLog, txn>>

\* The connection returns to the pool with nothing of the transaction kept.
Rollback ==
    /\ conn' = NoClient
    /\ txGraph' = graph
    /\ txLog' = log
    /\ applied' = 0
    /\ UNCHANGED <<graph, log, txn>>

FailBatch(c, status) ==
    /\ Rollback
    /\ result' = [result EXCEPT ![c] =
           [txn |-> txn, status |-> status, err |-> TRUE, writes |-> 0]]

\* The row and its log entry are written by the same transaction.
Write(id, row, version) ==
    /\ txGraph' = [txGraph EXCEPT ![id] = row]
    /\ txLog' = Append(txLog, [txn |-> txn, id |-> id, before |-> txGraph[id],
                               after |-> row, version |-> version])

\* applyOne: an error ends the batch; a mutation that changes nothing writes
\* neither the row nor the log.
Apply(c, id, fails, row, version) ==
    \/ /\ fails
       /\ FailBatch(c, "FAILED")
    \/ /\ ~fails
       /\ applied' = applied + 1
       /\ \/ /\ NoChange(txGraph, id, row)
             /\ UNCHANGED <<txGraph, txLog>>
          \/ /\ ~NoChange(txGraph, id, row)
             /\ Write(id, row, version)
       /\ UNCHANGED <<graph, log, conn, txn, result>>

InBatch(c) == conn = c /\ applied < MaxBatch

UpsertEntity(c) ==
    /\ InBatch(c)
    /\ \E m \in EntityUpserts :
          Apply(c, m.id, UpsertEntityFails(txGraph, m),
                EntityUpsertRow(txGraph, m), m.version)

UpsertRelationship(c) ==
    /\ InBatch(c)
    /\ \E m \in RelationshipUpserts :
          Apply(c, m.id, UpsertRelationshipFails(txGraph, m),
                RelationshipUpsertRow(txGraph, m), m.version)

Delete(c, id) ==
    \/ /\ txGraph[id] = NoRow
       /\ FailBatch(c, "FAILED")
    \/ /\ txGraph[id] # NoRow
       /\ Apply(c, id, FALSE, DeletedRow(txGraph, id), 0)

SoftDeleteEntity(c) == InBatch(c) /\ \E id \in EntIDs : Delete(c, id)

DeleteRelationship(c) == InBatch(c) /\ \E id \in RelIDs : Delete(c, id)

\* A statement fails: the disk, or the request's context is cancelled.
StatementFails(c) == InBatch(c) /\ FailBatch(c, "FAILED")

\* Broken: the log is written by a transaction of its own, which is lost.
CommitWithoutLog(c) ==
    /\ conn = c
    /\ applied > 0
    /\ graph' = txGraph
    /\ txLog' = log
    /\ conn' = NoClient
    /\ applied' = 0
    /\ result' = [result EXCEPT ![c] =
           [txn |-> txn, status |-> "SUCCESS", err |-> FALSE, writes |-> 0]]
    /\ UNCHANGED <<txn, txGraph, log>>

Commit(c) ==
    /\ conn = c
    /\ applied > 0
    /\ graph' = txGraph
    /\ log' = txLog
    /\ conn' = NoClient
    /\ applied' = 0
    /\ result' = [result EXCEPT ![c] =
           [txn |-> txn, status |-> "SUCCESS", err |-> FALSE,
            writes |-> Len(txLog) - Len(log)]]
    /\ UNCHANGED <<txn, txGraph, txLog>>

\* A failed COMMIT rolls back; the result still carries the status it began
\* with.
CommitFails(c) ==
    /\ conn = c
    /\ applied > 0
    /\ FailBatch(c, "SUCCESS")

\* The HTTP handler writes the answer, after the post-commit hooks.
Reply(c) ==
    /\ result[c] # NoResult
    /\ result' = [result EXCEPT ![c] = NoResult]
    /\ UNCHANGED <<graph, log, conn, txn, txGraph, txLog, applied>>

\* The process dies and starts again on the same database file.
Crash ==
    /\ Rollback
    /\ result' = [c \in Clients |-> NoResult]

Next ==
    \/ \E c \in Clients :
          \/ BeginTx(c)
          \/ UpsertEntity(c)
          \/ UpsertRelationship(c)
          \/ SoftDeleteEntity(c)
          \/ DeleteRelationship(c)
          \/ StatementFails(c)
          \/ Commit(c)
          \/ CommitFails(c)
          \/ Reply(c)
    \/ Crash

Spec == Init /\ [][Next]_vars

-----------------------------------------------------------------------------

TypeOK ==
    /\ IsGraph(graph)
    /\ IsGraph(txGraph)
    /\ log \in Seq(Entry)
    /\ txLog \in Seq(Entry)
    /\ conn \in Clients \cup {NoClient}
    /\ txn \in Nat
    /\ applied \in Nat
    /\ result \in [Clients -> Result \cup {NoResult}]

\* The doc comment of deltalog: the graph is a projection of the log and can
\* be rebuilt from it.  Every handler writes the row and its entry together,
\* and a batch that fails, at any statement, takes both back.
LogIsTruth == Projects(graph, log)

\* before_state of an entry is after_state of the id's previous entry: the
\* read, the write and the append of a handler saw no other writer between.
BeforeIsPreviousAfter == Chained(log)

\* No id ever goes back to a version it had, through updates, soft deletes and
\* restores: a version names one state of the row.
VersionsGrow ==
    \A i, j \in DOMAIN log :
        i < j /\ log[i].id = log[j].id =>
            log[i].after.version < log[j].after.version

\* Optimistic locking loses no update: a write with a supplied version was
\* applied to the very row that had that version when a caller could read it.
NoLostUpdate ==
    \A i, j \in DOMAIN log :
        /\ log[i].id = log[j].id
        /\ log[i].version # 0
        /\ log[i].before # NoRow
        /\ log[j].after.version = log[i].version
        => log[i].before = log[j].after

\* REL-001 over the whole history: when a relationship was written both its
\* endpoints had been created, so a replay never meets a dangling edge.
EndpointsFirst ==
    \A i \in DOMAIN log : log[i].id \in RelIDs =>
        \A e \in {log[i].after.from, log[i].after.to} :
            \E j \in 1 .. i - 1 : log[j].id = e

\* A batch is in the log whole or not at all, and what its caller is told
\* says which: an error left no entry, a success left every entry it made,
\* across crashes.
AllOrNothing ==
    \A c \in Clients : result[c] # NoResult =>
        Cardinality({i \in DOMAIN log : log[i].txn = result[c].txn})
            = result[c].writes

\* The log only grows, by one transaction's block at a time, and the graph
\* moves only with it.
Abstract == INSTANCE DeltaLog WITH graph <- graph, log <- log

Promise == Abstract!Spec

=============================================================================
