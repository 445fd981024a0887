------------------------------ MODULE SearchIndex ------------------------------
(***************************************************************************)
(* The search index: after a commit ApplyBatch enqueues the ids of the     *)
(* entities it changed, and one worker reads each row and replaces its     *)
(* document in entity_search.  The queue is bounded and in memory.         *)
(* A row, and a document, is its generation.  Rows are never removed, so   *)
(* the worker's DELETE of a vanished entity is left out.                   *)
(***************************************************************************)
EXTENDS Integers, Sequences

CONSTANTS
    EntIDs,
    Writers,    \* concurrent POST /mutations handlers
    None,       \* no id
    Capacity,   \* of the queue: 1000 in the code
    MaxWrites   \* bound: commits of each entity

ASSUME IndexAssumption ==
    /\ None \notin EntIDs
    /\ Capacity \in Nat \ {0}
    /\ MaxWrites \in Nat

VARIABLES
    row,        \* the entities table
    document,   \* the entity_search table
    hook,       \* hook[w]: committed by w, not yet enqueued; or None
    queue,
    worker,     \* where the worker is, its id, the generation it has read
    stopping,   \* SIGTERM has cancelled the worker's context
    missed      \* auxiliary: entities whose indexing was dropped, failed or lost

vars == <<row, document, hook, queue, worker, stopping, missed>>

Worker == [at : {"select", "read", "write", "gone"}, id : EntIDs \cup {None}, gen : Nat]

Idle == [at |-> "select", id |-> None, gen |-> 0]

Init ==
    /\ row = [e \in EntIDs |-> 0]
    /\ document = [e \in EntIDs |-> 0]
    /\ hook = [w \in Writers |-> None]
    /\ queue = <<>>
    /\ worker = Idle
    /\ stopping = FALSE
    /\ missed = {}

-----------------------------------------------------------------------------

\* ApplyBatch has committed a change of e (a batch of several is modelled as
\* several writers' commits).  The server answers during shutdown too.
Commit(w, e) ==
    /\ hook[w] = None
    /\ row[e] < MaxWrites
    /\ row' = [row EXCEPT ![e] = @ + 1]
    /\ hook' = [hook EXCEPT ![w] = e]
    /\ UNCHANGED <<document, queue, worker, stopping, missed>>

\* Broken: one id too many is let in.
EnqueueOneMore(w) ==
    /\ hook[w] # None
    /\ hook' = [hook EXCEPT ![w] = None]
    /\ IF Len(queue) <= Capacity
       THEN queue' = Append(queue, hook[w]) /\ missed' = missed
       ELSE missed' = missed \cup {hook[w]} /\ queue' = queue
    /\ UNCHANGED <<row, document, worker, stopping>>

\* Broken: an id the worker is busy with is not queued again.
EnqueueOnce(w) ==
    /\ hook[w] # None
    /\ hook' = [hook EXCEPT ![w] = None]
    /\ IF Len(queue) < Capacity /\ worker.id # hook[w]
       THEN queue' = Append(queue, hook[w]) ELSE queue' = queue
    /\ missed' = IF Len(queue) = Capacity THEN missed \cup {hook[w]} ELSE missed
    /\ UNCHANGED <<row, document, worker, stopping>>

\* Enqueue never blocks: it drops the id when the queue is full.
Enqueue(w) ==
    /\ hook[w] # None
    /\ hook' = [hook EXCEPT ![w] = None]
    /\ \/ /\ Len(queue) < Capacity
          /\ queue' = Append(queue, hook[w])
          /\ missed' = missed
       \/ /\ Len(queue) = Capacity
          /\ missed' = missed \cup {hook[w]}
          /\ queue' = queue
    /\ UNCHANGED <<row, document, worker, stopping>>

\* select may choose the queue while the context is cancelled; the drain after
\* Stop takes ids the same way.
Take ==
    /\ worker.at = "select"
    /\ queue # <<>>
    /\ worker' = [at |-> "read", id |-> Head(queue), gen |-> 0]
    /\ queue' = Tail(queue)
    /\ UNCHANGED <<row, document, hook, stopping, missed>>

ReadRow ==
    /\ worker.at = "read"
    /\ worker' = [worker EXCEPT !.at = "write", !.gen = row[worker.id]]
    /\ UNCHANGED <<row, document, hook, queue, stopping, missed>>

\* INSERT OR REPLACE of the document.
Write ==
    /\ worker.at = "write"
    /\ document' = [document EXCEPT ![worker.id] = worker.gen]
    /\ missed' = IF worker.gen = row[worker.id] THEN missed \ {worker.id} ELSE missed
    /\ worker' = Idle
    /\ UNCHANGED <<row, hook, queue, stopping>>

\* Broken: an error ends the worker.
WorkerDies ==
    /\ worker.at \in {"read", "write"}
    /\ missed' = missed \cup {worker.id}
    /\ worker' = [Idle EXCEPT !.at = "gone"]
    /\ UNCHANGED <<row, document, hook, queue, stopping>>

\* A failed statement is logged, and the id forgotten.
IndexFails ==
    /\ worker.at \in {"read", "write"}
    /\ missed' = missed \cup {worker.id}
    /\ worker' = Idle
    /\ UNCHANGED <<row, document, hook, queue, stopping>>

Terminate ==
    /\ ~stopping
    /\ stopping' = TRUE
    /\ UNCHANGED <<row, document, hook, queue, worker, missed>>

\* select chooses ctx.Done: the worker leaves the queue as it is.
Quit ==
    /\ worker.at = "select"
    /\ stopping
    /\ worker' = [Idle EXCEPT !.at = "gone"]
    /\ UNCHANGED <<row, document, hook, queue, stopping, missed>>

InQueue(e) == \E i \in DOMAIN queue : queue[i] = e

\* e will be indexed if nothing goes wrong.
Scheduled(e) == (\E w \in Writers : hook[w] = e) \/ InQueue(e) \/ worker.id = e

\* The process ends, after a shutdown or a crash, and starts again: nothing
\* indexes what was scheduled.
Restart ==
    /\ hook' = [w \in Writers |-> None]
    /\ queue' = <<>>
    /\ worker' = Idle
    /\ stopping' = FALSE
    /\ missed' = missed \cup {e \in EntIDs : Scheduled(e)}
    /\ UNCHANGED <<row, document>>

Next ==
    \/ \E w \in Writers : (\E e \in EntIDs : Commit(w, e)) \/ Enqueue(w)
    \/ Take \/ ReadRow \/ Write \/ IndexFails
    \/ Terminate \/ Quit \/ Restart

\* The handlers and the worker are goroutines of a running process: each goes
\* on.  Nothing forces a failure, a signal or a restart.
Fairness ==
    /\ \A w \in Writers : WF_vars(Enqueue(w))
    /\ WF_vars(Take) /\ WF_vars(ReadRow) /\ WF_vars(Write)

Spec == Init /\ [][Next]_vars /\ Fairness

-----------------------------------------------------------------------------

TypeOK ==
    /\ row \in [EntIDs -> 0 .. MaxWrites]
    /\ document \in [EntIDs -> 0 .. MaxWrites]
    /\ hook \in [Writers -> EntIDs \cup {None}]
    /\ queue \in Seq(EntIDs) /\ Len(queue) <= Capacity
    /\ worker \in Worker
    /\ stopping \in BOOLEAN
    /\ missed \subseteq EntIDs

\* A stale document is being taken care of: the commit's id is still to be
\* enqueued, queued, or with the worker, unless it was dropped, failed or
\* lost.  That the worker reads the row before a commit and writes the document
\* after it is covered by the commit's own id.
StaleIsScheduled ==
    \A e \in EntIDs : document[e] # row[e] => Scheduled(e) \/ e \in missed

\* Documents never go back, whatever the order and number of an entity's ids
\* in the queue: the worker reads the row when its turn comes.
DocumentsAdvance == [][\A e \in EntIDs : document'[e] >= document[e]]_document

\* The index catches up with an entity when the server keeps running and the
\* entity's ids are not dropped, however many commits raced the worker.
CatchesUp ==
    \A e \in EntIDs :
        <>[](~stopping /\ e \notin missed) => <>[](document[e] = row[e])

=============================================================================
