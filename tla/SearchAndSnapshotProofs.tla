---------------------------- MODULE SearchAndSnapshotProofs ----------------------------
(***************************************************************************)
(* Theorems of what storage derives from the committed rows and the log:   *)
(* of SearchIndex for every set of entities and handlers, every capacity   *)
(* of the queue and any number of commits; of SnapshotStore for every set  *)
(* of ids and handlers, every length of the log and any number of          *)
(* snapshots.                                                              *)
(***************************************************************************)
EXTENDS SearchIndex, SnapshotStore, FiniteSetTheorems, WellFoundedInduction, TLAPS

\* e's id is on its way to the worker.
Waiting(e) == (\E w \in Writers : hook[w] = e) \/ InQueue(e)

\* The worker has an id just when it is busy with it.
WorkerHasId == worker.id # None <=> worker.at \in {"read", "write"}

\* No document is ahead of its row, and what the worker is about to write lies
\* between the two.
InOrder ==
    /\ \A e \in EntIDs : document[e] <= row[e]
    /\ worker.at = "write" =>
          document[worker.id] <= worker.gen /\ worker.gen <= row[worker.id]

\* What the worker has read is the row, or a later commit's id follows it.
ReadIsFollowed ==
    worker.at = "write" /\ worker.gen # row[worker.id] =>
        Waiting(worker.id) \/ worker.id \in missed

\* StaleIsScheduled is not inductive: the worker forgets the id when it writes
\* a row it has read before, and what then covers the document is ReadIsFollowed.
IInv == TypeOK /\ WorkerHasId /\ InOrder /\ ReadIsFollowed /\ StaleIsScheduled

-----------------------------------------------------------------------------
\* An entity waits after a handler's Enqueue, or is counted as missed: Enqueue
\* appends behind the ids that are queued already.
LEMMA EnqueueKeepsWaiting ==
    ASSUME TypeOK, NEW w \in Writers, Enqueue(w), NEW e \in EntIDs, Waiting(e)
    PROVE  Waiting(e)' \/ e \in missed'
<1>1. CASE hook[w] = e /\ Len(queue) < Capacity
  <2>1. queue' = Append(queue, e) /\ queue \in Seq(EntIDs)
    BY <1>1, IndexAssumption DEF Enqueue, TypeOK
  <2>2. Len(queue) + 1 \in DOMAIN queue' /\ queue'[Len(queue) + 1] = e
    BY <2>1
  <2> QED BY <2>2 DEF Waiting, InQueue
<1>2. CASE hook[w] = e /\ Len(queue) = Capacity
  BY <1>2, IndexAssumption DEF Enqueue, TypeOK
<1>3. CASE hook[w] # e /\ \E v \in Writers : hook[v] = e
  <2>1. PICK v \in Writers : hook[v] = e /\ v # w
    BY <1>3
  <2>2. hook'[v] = e
    BY <2>1 DEF Enqueue, TypeOK
  <2> QED BY <2>2 DEF Waiting
<1>4. CASE InQueue(e)
  <2>1. PICK i \in DOMAIN queue : queue[i] = e
    BY <1>4 DEF InQueue
  <2>2. queue \in Seq(EntIDs)
    BY DEF TypeOK
  <2>3. queue' = queue \/ queue' = Append(queue, hook[w])
    BY DEF Enqueue
  <2>4. i \in DOMAIN queue' /\ queue'[i] = e
    BY <2>1, <2>2, <2>3
  <2> QED BY <2>4 DEF Waiting, InQueue
<1> QED BY <1>1, <1>2, <1>3, <1>4 DEF Waiting, Enqueue

\* Taking the head of the queue leaves every other id where it was.
LEMMA TakeKeepsScheduled ==
    ASSUME TypeOK, Take, NEW e \in EntIDs, Scheduled(e), worker.id = None
    PROVE  Scheduled(e)'
<1>1. queue \in Seq(EntIDs) /\ queue # << >> /\ queue' = Tail(queue)
      /\ worker'.id = Head(queue) /\ hook' = hook
  BY DEF Take, TypeOK
<1>2. e # None
  BY IndexAssumption
<1>3. CASE InQueue(e)
  <2>1. PICK i \in DOMAIN queue : queue[i] = e
    BY <1>3 DEF InQueue
  <2>2. CASE i = 1
    BY <1>1, <2>1, <2>2 DEF Scheduled
  <2>3. CASE i # 1
    <3>1. i - 1 \in DOMAIN queue' /\ queue'[i - 1] = e
      BY <1>1, <2>1, <2>3
    <3> QED BY <3>1 DEF Scheduled, InQueue
  <2> QED BY <2>2, <2>3
<1>4. CASE \E w \in Writers : hook[w] = e
  BY <1>1, <1>4 DEF Scheduled
<1> QED BY <1>2, <1>3, <1>4 DEF Scheduled

-----------------------------------------------------------------------------
(* The inductive invariant, action by action. *)

\* A worker without an id, between two ids or gone, is typed.
LEMMA FreeWorker ==
    \A at \in {"select", "gone"} : [at |-> at, id |-> None, gen |-> 0] \in Worker
BY DEF Worker

\* A server that starts finds every document at its row, and nobody busy.
LEMMA InitIInv == Init => IInv
<1> SUFFICES ASSUME Init PROVE IInv
  OBVIOUS
<1>1. TypeOK
  <2>1. worker \in Worker
    BY FreeWorker DEF Init, Idle
  <2>2. queue \in Seq(EntIDs) /\ Len(queue) = 0
    BY DEF Init
  <2>3. row \in [EntIDs -> 0 .. MaxWrites] /\ document \in [EntIDs -> 0 .. MaxWrites]
    BY IndexAssumption DEF Init
  <2>4. hook \in [Writers -> EntIDs \cup {None}]
    BY DEF Init
  <2>5. Len(queue) <= Capacity
    BY <2>2, IndexAssumption
  <2> QED BY <2>1, <2>2, <2>3, <2>4, <2>5 DEF Init, TypeOK
<1>2. WorkerHasId /\ InOrder /\ ReadIsFollowed /\ StaleIsScheduled
  BY DEF Init, WorkerHasId, InOrder, ReadIsFollowed, StaleIsScheduled, Idle
<1> QED BY <1>1, <1>2 DEF IInv

\* A commit raises one row, and its hook holds the entity's id from that moment.
LEMMA CommitKeepsIInv ==
    ASSUME IInv, NEW w \in Writers, NEW e \in EntIDs, Commit(w, e) PROVE IInv'
<1> USE DEF IInv, Commit
<1>1. TypeOK'
  BY IndexAssumption DEF TypeOK
<1>2. WorkerHasId'
  BY DEF WorkerHasId
<1>3. row'[e] = row[e] + 1 /\ \A f \in EntIDs \ {e} : row'[f] = row[f]
  BY DEF TypeOK
<1>4. \A f \in EntIDs : row[f] \in Nat /\ document[f] \in Nat
  BY DEF TypeOK
<1>5. worker.at = "write" => worker.id \in EntIDs /\ worker.gen \in Nat
  BY DEF TypeOK, Worker, WorkerHasId
<1>6. InOrder'
  BY <1>3, <1>4, <1>5 DEF InOrder
<1>7. hook'[w] = e
  BY DEF TypeOK
<1>8. \A f \in EntIDs : Waiting(f) => Waiting(f)'
  <2>1. \A v \in Writers : hook[v] # None => hook'[v] = hook[v]
    BY DEF TypeOK
  <2> QED BY <2>1, IndexAssumption DEF Waiting, InQueue
<1>9. ReadIsFollowed'
  BY <1>3, <1>5, <1>7, <1>8 DEF ReadIsFollowed, Waiting
<1>10. StaleIsScheduled'
  BY <1>3, <1>7, <1>8 DEF StaleIsScheduled, Scheduled, Waiting
<1> QED BY <1>1, <1>2, <1>6, <1>9, <1>10

\* An id that the full queue refuses is counted as missed.
LEMMA EnqueueKeepsIInv ==
    ASSUME IInv, NEW w \in Writers, Enqueue(w) PROVE IInv'
<1> USE DEF IInv
<1>1. TypeOK'
  <2>1. hook[w] \in EntIDs
    BY DEF TypeOK, Enqueue
  <2>2. queue \in Seq(EntIDs) /\ Len(queue) <= Capacity /\ Capacity \in Nat
    BY IndexAssumption DEF TypeOK
  <2>3. \/ queue' = queue
        \/ Len(queue) < Capacity /\ queue' = Append(queue, hook[w])
    BY DEF Enqueue
  <2>4. queue' \in Seq(EntIDs) /\ Len(queue') <= Capacity
    BY <2>1, <2>2, <2>3
  <2> QED BY <2>1, <2>4 DEF TypeOK, Enqueue
<1>2. WorkerHasId' /\ InOrder'
  BY DEF WorkerHasId, InOrder, Enqueue
<1>3. \A e \in EntIDs : Waiting(e) => Waiting(e)' \/ e \in missed'
  BY EnqueueKeepsWaiting
<1>4. missed \subseteq missed'
  BY DEF Enqueue
<1>5. worker.at = "write" => worker.id \in EntIDs
  BY DEF TypeOK, Worker, WorkerHasId
<1>6. worker' = worker /\ row' = row /\ document' = document
  BY DEF Enqueue
<1>7. ReadIsFollowed'
  BY <1>3, <1>4, <1>5, <1>6 DEF ReadIsFollowed
<1>8. StaleIsScheduled'
  BY <1>3, <1>4, <1>6 DEF StaleIsScheduled, Scheduled, Waiting
<1> QED BY <1>1, <1>2, <1>7, <1>8

LEMMA TakeKeepsIInv == ASSUME IInv, Take PROVE IInv'
<1> USE DEF IInv
<1>1. worker.id = None
  BY DEF Take, WorkerHasId
<1>2. Head(queue) \in EntIDs /\ Tail(queue) \in Seq(EntIDs) /\ Len(Tail(queue)) <= Capacity
  BY IndexAssumption DEF Take, TypeOK
<1>3. TypeOK'
  BY <1>2 DEF Take, TypeOK, Worker
<1>4. WorkerHasId' /\ InOrder' /\ ReadIsFollowed'
  BY <1>2, IndexAssumption DEF Take, WorkerHasId, InOrder, ReadIsFollowed
<1>5. StaleIsScheduled'
  BY <1>1, TakeKeepsScheduled DEF Take, StaleIsScheduled
<1> QED BY <1>3, <1>4, <1>5

\* The worker reads the row that is committed now.
LEMMA ReadRowKeepsIInv == ASSUME IInv, ReadRow PROVE IInv'
<1> USE DEF IInv, ReadRow
<1>1. worker.id \in EntIDs /\ row[worker.id] \in Nat
  BY DEF TypeOK, Worker, WorkerHasId
<1>2. worker' = [at |-> "write", id |-> worker.id, gen |-> row[worker.id]]
  BY DEF TypeOK, Worker
<1>3. TypeOK'
  BY <1>1, <1>2 DEF TypeOK, Worker
<1>4. WorkerHasId' /\ InOrder' /\ ReadIsFollowed'
  BY <1>1, <1>2 DEF WorkerHasId, InOrder, ReadIsFollowed
<1>5. StaleIsScheduled'
  BY <1>2 DEF StaleIsScheduled, Scheduled, InQueue
<1> QED BY <1>3, <1>4, <1>5

\* The document becomes the row, or the id of a later commit is on its way.
LEMMA WriteKeepsIInv == ASSUME IInv, Write PROVE IInv'
<1> USE DEF IInv, Write
<1>1. worker.id \in EntIDs /\ worker.gen \in Nat /\ worker.gen <= row[worker.id]
      /\ row[worker.id] \in 0 .. MaxWrites /\ worker.id # None
  BY IndexAssumption DEF TypeOK, Worker, WorkerHasId, InOrder
<1>2. document'[worker.id] = worker.gen
      /\ \A e \in EntIDs \ {worker.id} : document'[e] = document[e]
  BY <1>1 DEF TypeOK
<1>3. worker' = [at |-> "select", id |-> None, gen |-> 0]
  BY DEF Idle
<1>4. TypeOK'
  <2>1. worker.gen \in 0 .. MaxWrites
    BY <1>1, IndexAssumption
  <2>2. missed' \subseteq missed
    OBVIOUS
  <2>3. worker' \in Worker
    BY <1>3 DEF Worker
  <2> QED BY <2>1, <2>2, <2>3 DEF TypeOK
<1>5. WorkerHasId' /\ InOrder' /\ ReadIsFollowed'
  BY <1>1, <1>2, <1>3 DEF WorkerHasId, InOrder, ReadIsFollowed
<1>6. StaleIsScheduled'
  <2> SUFFICES ASSUME NEW e \in EntIDs, document'[e] # row[e]
               PROVE  Waiting(e) \/ e \in missed'
    BY DEF StaleIsScheduled, Scheduled, Waiting, InQueue
  <2>1. CASE e = worker.id
    BY <1>2, <2>1 DEF ReadIsFollowed
  <2>2. CASE e # worker.id
    BY <1>2, <2>2 DEF StaleIsScheduled, Scheduled, Waiting
  <2> QED BY <2>1, <2>2
<1> QED BY <1>4, <1>5, <1>6

\* A failed statement gives the id up; the entity is counted as missed.
LEMMA IndexFailsKeepsIInv == ASSUME IInv, IndexFails PROVE IInv'
<1> USE DEF IInv, IndexFails
<1>1. worker.id \in EntIDs /\ worker' = [at |-> "select", id |-> None, gen |-> 0]
  BY DEF TypeOK, Worker, WorkerHasId, Idle
<1>2. TypeOK'
  <2>1. worker' \in Worker
    BY <1>1, FreeWorker
  <2> QED BY <1>1, <2>1 DEF TypeOK
<1>3. WorkerHasId' /\ InOrder' /\ ReadIsFollowed'
  BY <1>1 DEF WorkerHasId, InOrder, ReadIsFollowed
<1>4. StaleIsScheduled'
  BY DEF StaleIsScheduled, Scheduled, InQueue
<1> QED BY <1>2, <1>3, <1>4

\* The worker is between two ids when it quits; the queue stays.
LEMMA QuitKeepsIInv == ASSUME IInv, Quit PROVE IInv'
<1> USE DEF IInv, Quit
<1>1. worker.id = None /\ worker' = [at |-> "gone", id |-> None, gen |-> 0]
  BY DEF WorkerHasId, Idle
<1>2. TypeOK'
  <2>1. worker' \in Worker
    BY <1>1, FreeWorker
  <2> QED BY <1>1, <2>1 DEF TypeOK
<1>3. WorkerHasId' /\ InOrder' /\ ReadIsFollowed'
  BY <1>1 DEF WorkerHasId, InOrder, ReadIsFollowed
<1>4. StaleIsScheduled'
  BY <1>1 DEF StaleIsScheduled, Scheduled, InQueue
<1> QED BY <1>2, <1>3, <1>4

\* Everything that was scheduled is lost, and counted as missed.
LEMMA RestartKeepsIInv == ASSUME IInv, Restart PROVE IInv'
<1> USE DEF IInv, Restart
<1>1. worker' = [at |-> "select", id |-> None, gen |-> 0]
  BY DEF Idle
<1>2. TypeOK'
  <2>1. worker' \in Worker
    BY <1>1, FreeWorker
  <2>2. queue' \in Seq(EntIDs) /\ Len(queue') = 0
    OBVIOUS
  <2>3. hook' \in [Writers -> EntIDs \cup {None}] /\ Len(queue') <= Capacity
    BY <2>2, IndexAssumption
  <2>4. missed' \subseteq EntIDs
    BY DEF TypeOK
  <2> QED BY <2>1, <2>2, <2>3, <2>4 DEF TypeOK
<1>3. WorkerHasId' /\ InOrder' /\ ReadIsFollowed'
  BY <1>1 DEF WorkerHasId, InOrder, ReadIsFollowed
<1>4. StaleIsScheduled'
  BY DEF StaleIsScheduled
<1> QED BY <1>2, <1>3, <1>4

LEMMA NextKeepsIInv == IInv /\ [Next]_vars => IInv'
<1> SUFFICES ASSUME IInv, [Next]_vars PROVE IInv'
  OBVIOUS
<1>1. CASE Terminate
  BY <1>1 DEF Terminate, IInv, TypeOK, WorkerHasId, InOrder, ReadIsFollowed,
              StaleIsScheduled, Scheduled, Waiting, InQueue
<1>2. CASE UNCHANGED vars
  BY <1>2 DEF vars, IInv, TypeOK, WorkerHasId, InOrder, ReadIsFollowed,
              StaleIsScheduled, Scheduled, Waiting, InQueue
<1> QED
  BY <1>1, <1>2, CommitKeepsIInv, EnqueueKeepsIInv, TakeKeepsIInv, ReadRowKeepsIInv,
     WriteKeepsIInv, IndexFailsKeepsIInv, QuitKeepsIInv, RestartKeepsIInv DEF Next

\* In every reachable state what the worker has read is followed by the ids of
\* the commits it has not seen, and no document is ahead of its row.
THEOREM InductiveInvariant == Spec => []IInv
BY InitIInv, NextKeepsIInv, PTL DEF Spec

-----------------------------------------------------------------------------
\* Every value of every variable has its type; the queue never outgrows its
\* capacity.
THEOREM TypeCorrect == Spec => []TypeOK
<1>1. IInv => TypeOK BY DEF IInv
<1> QED BY <1>1, InductiveInvariant, PTL

\* Search's documents are behind their rows only while an id is on its way, or
\* after the code gave one up.
THEOREM StaleIsScheduledHolds == Spec => []StaleIsScheduled
<1>1. IInv => StaleIsScheduled BY DEF IInv
<1> QED BY <1>1, InductiveInvariant, PTL

\* Documents never go back, whatever the order and number of an entity's ids
\* in the queue: indexOne reads the row when the id's turn comes.
THEOREM DocumentsAdvanceAlways == Spec => DocumentsAdvance
<1>1. IInv /\ [Next]_vars => [\A e \in EntIDs : document'[e] >= document[e]]_document
  <2> SUFFICES ASSUME IInv, [Next]_vars, document' # document
               PROVE  \A e \in EntIDs : document'[e] >= document[e]
    OBVIOUS
  <2>1. Write
    BY DEF Next, vars, Commit, Enqueue, Take, ReadRow, IndexFails, Terminate, Quit, Restart
  <2>2. worker.id \in EntIDs /\ worker.gen \in Nat /\ worker.gen >= document[worker.id]
    BY <2>1 DEF Write, IInv, TypeOK, Worker, WorkerHasId, InOrder
  <2> QED BY <2>1, <2>2 DEF Write, IInv, TypeOK
<1> QED BY <1>1, InductiveInvariant, PTL DEF Spec, DocumentsAdvance

-----------------------------------------------------------------------------
(* SnapshotStore. *)

\* How many of the first n entries of l are of id: the generation of its row
\* then.
Count(l, id, n) == Cardinality({j \in 1 .. n : l[j].id = id})

\* The rows are the tables of ids after the first n entries of l.
AreTables(rows, l, n, ids) ==
    /\ \A i, j \in DOMAIN rows : rows[i].id = rows[j].id => i = j
    /\ \A k \in DOMAIN rows :
          /\ rows[k].id \in ids
          /\ rows[k].gen = Count(l, rows[k].id, n)
    /\ \A id \in ids : Count(l, id, n) > 0 => \E k \in DOMAIN rows : rows[k].id = id

\* The rows may be later than the first n entries of l, by commits up to its
\* end, but none of ids is missing.
AreBetween(rows, l, n, ids) ==
    /\ \A k \in DOMAIN rows :
          /\ Count(l, rows[k].id, n) <= rows[k].gen
          /\ rows[k].gen <= Count(l, rows[k].id, Len(l))
    /\ \A id \in ids : Count(l, id, n) > 0 => \E k \in DOMAIN rows : rows[k].id = id

\* An entry's generation counts its id's entries.
LogInOrder == \A i \in DOMAIN log : log[i].gen = Count(log, log[i].id, i)

\* What a snapshot of the tables of ids promises.
Covers(snap, l, ids) ==
    /\ snap.last \in 0 .. Len(l)
    /\ snap.clean => \A j \in 1 .. snap.last : TextUpTo(l[j].time, snap.at)
    /\ AreBetween(snap.rows, l, snap.last, ids)
    /\ snap.clean => AreTables(snap.rows, l, snap.last, ids)

\* The ids of the tables that CreateSnapshot has read before a step.
ReadBefore(step) ==
    IF step = "entities" THEN {} ELSE IF step = "relationships" THEN EntityIDs ELSE IDs

InProgress ==
    [step : {"entities", "relationships", "save"}, snap : Snapshot]

\* The inductive invariant: RestoredIsCurrent and CleanSnapshotsExact are about
\* replays and follow from what each snapshot covers.
SnapshotsCover ==
    /\ SnapshotTypeOK
    /\ creating \in [Snapshotters -> InProgress \cup {NoSnapshot}]
    /\ LogInOrder
    /\ \A s \in snapshots : Covers(s, log, IDs)
    /\ \A s \in Snapshotters : creating[s] # NoSnapshot =>
          Covers(creating[s].snap, log, ReadBefore(creating[s].step))

-----------------------------------------------------------------------------
\* A set of naturals has a least element, and, bounded, a greatest one.
LEMMA MinOf ==
    ASSUME NEW S \in SUBSET Nat, S # {}
    PROVE  Min(S) \in S /\ \A y \in S : Min(S) <= y
<1>1. PICK n \in S : \A m \in S : <<m, n>> \notin OpToRel(<, Nat)
  BY NatLessThanWellFounded, WFMin
<1>2. ASSUME NEW m \in S PROVE n <= m
  <2>1. <<m, n>> \in Nat \X Nat /\ <<m, n>>[1] = m /\ <<m, n>>[2] = n
    OBVIOUS
  <2>2. ~(m < n)
    BY <1>1, <2>1 DEF OpToRel
  <2> QED
    BY <2>1, <2>2
<1> QED
  BY <1>2 DEF Min

LEMMA MaxOf ==
    ASSUME NEW S \in SUBSET Nat, S # {}, NEW n \in Nat, \A s \in S : s <= n
    PROVE  Max(S) \in S /\ \A y \in S : Max(S) >= y
<1> DEFINE T == {n - s : s \in S}
<1>1. T \in SUBSET Nat /\ T # {}
  <2>1. \A s \in S : n - s \in Nat
    OBVIOUS
  <2> QED
    BY <2>1
<1>2. Min(T) \in T /\ \A y \in T : Min(T) <= y
  BY <1>1, MinOf
<1>3. PICK s \in S : Min(T) = n - s
  BY <1>2
<1>4. ASSUME NEW y \in S PROVE s >= y
  <2>1. n - y \in T
    OBVIOUS
  <2>2. n - s <= n - y
    BY <1>2, <1>3, <2>1
  <2> QED
    BY <2>2
<1> QED
  BY <1>4 DEF Max

\* A property of natural numbers that holds of 0, and of each number that
\* comes after one it holds of, holds of all: where it fails, S, there is a
\* least one.
LEMMA LeastFailure ==
    ASSUME NEW S \in SUBSET Nat, 0 \notin S,
           \A n \in Nat : n \notin S => n + 1 \notin S
    PROVE  S = {}
<1>1. SUFFICES ASSUME S # {} PROVE FALSE
  OBVIOUS
<1> DEFINE n == Min(S)
<1>2. n \in S /\ \A y \in S : n <= y
  BY <1>1, MinOf
<1> HIDE DEF n
<1>3. n - 1 \in Nat /\ n - 1 \notin S
  BY <1>2
<1> QED
  BY <1>2, <1>3

-----------------------------------------------------------------------------
(* Counting the entries of an id. *)

LEMMA CountType ==
    ASSUME NEW l, NEW id, NEW n \in Nat
    PROVE  Count(l, id, n) \in Nat /\ IsFiniteSet({j \in 1 .. n : l[j].id = id})
<1>1. IsFiniteSet(1 .. n)
  BY FS_Interval
<1>2. IsFiniteSet({j \in 1 .. n : l[j].id = id})
  BY <1>1, FS_Subset
<1> QED
  BY <1>2, FS_CardinalityType DEF Count

LEMMA CountNone ==
    ASSUME NEW l, NEW id
    PROVE  Count(l, id, 0) = 0
<1>1. {j \in 1 .. 0 : l[j].id = id} = {}
  OBVIOUS
<1> QED
  BY <1>1, FS_EmptySet DEF Count

LEMMA CountNext ==
    ASSUME NEW l, NEW id, NEW n \in Nat
    PROVE  Count(l, id, n + 1) = IF l[n + 1].id = id THEN Count(l, id, n) + 1
                                 ELSE Count(l, id, n)
<1> DEFINE S == {j \in 1 .. n : l[j].id = id}
           T == {j \in 1 .. n + 1 : l[j].id = id}
<1>1. IsFiniteSet(S)
  BY CountType
<1>2. n + 1 \notin S
  OBVIOUS
<1>3. Count(l, id, n) = Cardinality(S) /\ Count(l, id, n + 1) = Cardinality(T)
  BY DEF Count
<1>4. CASE l[n + 1].id = id
  <2>1. T = S \cup {n + 1}
    BY <1>4
  <2> HIDE DEF S, T
  <2>2. Cardinality(T) = Cardinality(S) + 1
    BY <1>1, <1>2, <2>1, FS_AddElement
  <2> QED
    BY <1>3, <1>4, <2>2
<1>5. CASE l[n + 1].id # id
  <2>1. T = S
    BY <1>5
  <2> QED
    BY <1>3, <1>5, <2>1
<1> QED
  BY <1>4, <1>5

LEMMA CountGrows ==
    ASSUME NEW l, NEW id, NEW m \in Nat, NEW n \in Nat, m <= n
    PROVE  Count(l, id, m) <= Count(l, id, n)
<1> DEFINE S == {j \in 1 .. m : l[j].id = id}
           T == {j \in 1 .. n : l[j].id = id}
<1>1. S \subseteq T
  OBVIOUS
<1>2. IsFiniteSet(T)
  BY CountType
<1>3. Count(l, id, m) = Cardinality(S) /\ Count(l, id, n) = Cardinality(T)
  BY DEF Count
<1> QED
  <2> HIDE DEF S, T
  <2> QED
    BY <1>1, <1>2, <1>3, FS_Subset

LEMMA CountPositive ==
    ASSUME NEW l, NEW id, NEW n \in Nat
    PROVE  Count(l, id, n) > 0 <=> \E j \in 1 .. n : l[j].id = id
<1> DEFINE S == {j \in 1 .. n : l[j].id = id}
<1>1. IsFiniteSet(S) /\ Count(l, id, n) = Cardinality(S) /\ Count(l, id, n) \in Nat
  BY CountType DEF Count
<1>2. Cardinality(S) = 0 <=> S = {}
  <2> HIDE DEF S
  <2> QED
    BY <1>1, FS_EmptySet
<1> QED
  BY <1>1, <1>2

LEMMA CountAll ==
    ASSUME NEW X, NEW l \in Seq(X), NEW id
    PROVE  /\ Cardinality(Entries(l, id)) = Count(l, id, Len(l))
           /\ Entries(l, id) # {} <=> Count(l, id, Len(l)) > 0
<1>1. Entries(l, id) = {j \in 1 .. Len(l) : l[j].id = id} /\ Len(l) \in Nat
  BY DEF Entries
<1>2. Cardinality(Entries(l, id)) = Count(l, id, Len(l))
  BY <1>1, Zenon DEF Count
<1>3. Count(l, id, Len(l)) > 0 <=> \E j \in 1 .. Len(l) : l[j].id = id
  BY <1>1, CountPositive
<1> QED
  BY <1>1, <1>2, <1>3

\* A commit changes no earlier count.
LEMMA CountOfAppend ==
    ASSUME NEW X, NEW l \in Seq(X), NEW e \in X, NEW id, NEW n \in 0 .. Len(l)
    PROVE  Count(Append(l, e), id, n) = Count(l, id, n)
<1>1. \A j \in 1 .. n : Append(l, e)[j] = l[j]
  OBVIOUS
<1>2. {j \in 1 .. n : Append(l, e)[j].id = id} = {j \in 1 .. n : l[j].id = id}
  BY <1>1
<1> QED
  BY <1>2 DEF Count

-----------------------------------------------------------------------------
(* Tables. *)

\* SetToSeq lists every element of a finite set once.
LEMMA Enumerated ==
    ASSUME NEW S, IsFiniteSet(S)
    PROVE  /\ Cardinality(S) \in Nat
           /\ SetToSeq(S) \in [1 .. Cardinality(S) -> S]
           /\ IsInjective(SetToSeq(S))
           /\ \A x \in S : \E i \in 1 .. Cardinality(S) : SetToSeq(S)[i] = x
<1> DEFINE n == Cardinality(S)
           q == SetToSeq(S)
<1>1. n \in Nat /\ ExistsBijection(1 .. n, S)
  BY FS_CardinalityType
<1>2. \E f \in [1 .. n -> S] : IsInjective(f)
  BY <1>1 DEF ExistsBijection, Bijection, Injection
<1>3. q \in [1 .. n -> S] /\ IsInjective(q)
  BY <1>2 DEF SetToSeq
<1>4. IsFiniteSet(1 .. n) /\ Cardinality(1 .. n) = n
  BY <1>1, FS_Interval
<1>5. q \in Injection(1 .. n, S)
  BY <1>3 DEF Injection
<1>6. q \in Surjection(1 .. n, S)
  <2> HIDE DEF q
  <2> QED
    BY <1>4, <1>5, FS_Injection
<1>7. \A x \in S : \E i \in 1 .. n : q[i] = x
  BY <1>6 DEF Surjection
<1> QED
  BY <1>1, <1>3, <1>7

\* A table that is read holds the current rows of its ids.
LEMMA TableIsCurrent ==
    ASSUME NEW l \in Seq(Entry), NEW ids \in SUBSET IDs
    PROVE  /\ Table(l, ids) \in GraphState
           /\ AreTables(Table(l, ids), l, Len(l), ids)
<1> DEFINE rowOf(id) == [id |-> id, gen |-> Cardinality(Entries(l, id))]
           known == {x \in ids : Entries(l, x) # {}}
           S == {rowOf(id) : id \in known}
           A == {i \in 1 .. Len(l) : l[i].id \in ids}
           f == [i \in A |-> rowOf(l[i].id)]
           t == Table(l, ids)
<1>0. Len(l) \in Nat /\ DOMAIN l = 1 .. Len(l)
  OBVIOUS
<1>1. IsFiniteSet(A)
  <2>1. IsFiniteSet(1 .. Len(l)) /\ A \subseteq 1 .. Len(l)
    BY <1>0, FS_Interval
  <2> QED
    <3> HIDE DEF A
    <3> QED
      BY <2>1, FS_Subset
<1>2. \A i \in A : l[i].id \in known
  BY DEF Entries
<1>3. \A x \in known : \E i \in A : l[i].id = x
  BY DEF Entries
<1>4. f \in Surjection(A, S)
  <2>1. f \in [A -> S]
    BY <1>2
  <2>2. ASSUME NEW r \in S PROVE \E i \in A : f[i] = r
    <3>1. PICK x \in known : r = rowOf(x)
      OBVIOUS
    <3>2. PICK i \in A : l[i].id = x
      BY <1>3
    <3> QED
      BY <3>1, <3>2
  <2> QED
    <3> HIDE DEF f, S, A
    <3> QED
      BY <2>1, <2>2 DEF Surjection
<1>5. IsFiniteSet(S)
  <2> HIDE DEF f, S, A
  <2> QED
    BY <1>1, <1>4, FS_Surjection
<1>6. t = SetToSeq(S)
  BY DEF Table
<1>7. /\ Cardinality(S) \in Nat
      /\ t \in [1 .. Cardinality(S) -> S] /\ IsInjective(t)
      /\ \A r \in S : \E i \in 1 .. Cardinality(S) : t[i] = r
  <2> HIDE DEF S, t
  <2> QED
    BY <1>5, <1>6, Enumerated
<1>8. \A x \in known : rowOf(x).id = x /\ rowOf(x).gen = Count(l, x, Len(l)) /\ rowOf(x).gen \in Nat \ {0}
      /\ x \in ids /\ rowOf(x) \in [id : IDs, gen : Nat \ {0}]
  <2> TAKE x \in known
  <2>1. Cardinality(Entries(l, x)) = Count(l, x, Len(l)) /\ Count(l, x, Len(l)) > 0
    BY CountAll
  <2>2. Count(l, x, Len(l)) \in Nat
    BY <1>0, CountType
  <2> QED
    BY <2>1, <2>2
<1>9. \A r \in S : \E x \in known : r = rowOf(x)
  OBVIOUS
<1>10. \A x \in ids : Count(l, x, Len(l)) > 0 => x \in known /\ rowOf(x) \in S
  BY CountAll
<1> HIDE DEF S, t, rowOf, known
<1>11. \A r \in S : /\ r.id \in ids /\ r.gen = Count(l, r.id, Len(l)) /\ r = rowOf(r.id)
                    /\ r \in [id : IDs, gen : Nat \ {0}]
  BY <1>8, <1>9
<1>12. DOMAIN t = 1 .. Cardinality(S) /\ \A k \in DOMAIN t : t[k] \in S
  BY <1>7
<1>13. t \in GraphState
  <2> DEFINE R == [id : IDs, gen : Nat \ {0}]
  <2>1. \A k \in 1 .. Cardinality(S) : t[k] \in R
    BY <1>7, <1>11
  <2>2. t \in [1 .. Cardinality(S) -> R]
    <3> HIDE DEF R
    <3> QED
      BY <1>7, <2>1
  <2> QED
    <3> HIDE DEF R
    <3>1. t \in Seq(R)
      BY <1>7, <2>2
    <3> QED
      BY <3>1 DEF R, GraphState
<1>14. \A i, j \in DOMAIN t : t[i].id = t[j].id => i = j
  BY <1>7, <1>11, <1>12 DEF IsInjective
<1>15. \A x \in ids : Count(l, x, Len(l)) > 0 => \E k \in DOMAIN t : t[k].id = x
  BY <1>7, <1>8, <1>10, <1>12
<1>16. AreTables(t, l, Len(l), ids)
  BY <1>11, <1>12, <1>14, <1>15 DEF AreTables
<1> QED
  BY <1>13, <1>16 DEF t

-----------------------------------------------------------------------------
(* The order of the times' texts, and the positions of the log. *)

LEMMA LastUnitType == ASSUME NEW t \in Time PROVE LastUnit[t] \in Nat
<1> DEFINE U == {u \in Units : t % u = 0}
<1>1. t \in Nat /\ Second \in Nat /\ Units \subseteq 1 .. Second /\ 1 \in Units
  BY SnapshotAssumption DEF Time
<1>2. t % 1 = 0
  <2>1. \A n \in Nat : n % 1 = 0
    OBVIOUS
  <2> QED
    BY <1>1, <2>1
<1>3. U \in SUBSET Nat /\ U # {} /\ \A u \in U : u <= Second
  <2>1. \A u \in Units : u \in Nat /\ u <= Second
    BY <1>1
  <2>2. 1 \in U
    BY <1>1, <1>2
  <2> QED
    BY <2>1, <2>2
<1>4. Max(U) \in U
  <2> HIDE DEF U
  <2> QED
    BY <1>1, <1>3, MaxOf
<1>5. Max(U) \in Nat
  <2> HIDE DEF U
  <2> QED
    BY <1>3, <1>4
<1> QED
  BY <1>5 DEF LastUnit

\* What is not later as text than a second time is not later than any third
\* one that the second is not later than.
LEMMA TextUpToIsTransitive ==
    ASSUME NEW s \in Time, NEW t \in Time, NEW u \in Time,
           TextUpTo(s, t), TextUpTo(t, u)
    PROVE  TextUpTo(s, u)
<1>1. LastUnit[s] \in Nat /\ LastUnit[t] \in Nat /\ LastUnit[u] \in Nat
  BY LastUnitType
<1>2. s \in Nat /\ t \in Nat /\ u \in Nat
  BY DEF Time
<1> QED
  BY <1>1, <1>2 DEF TextUpTo

LEMMA PositionType ==
    ASSUME SnapshotTypeOK, NEW t
    PROVE  Position(t) \in 0 .. Len(log) /\ Len(log) \in Nat
<1> DEFINE S == UpToAt(t) \cup {0}
<1>1. Len(log) \in Nat /\ DOMAIN log = 1 .. Len(log)
  BY DEF SnapshotTypeOK
<1>2. S \in SUBSET Nat /\ S # {} /\ \A s \in S : s <= Len(log)
  BY <1>1 DEF UpToAt
<1>3. Max(S) \in S
  <2> HIDE DEF S
  <2> QED
    BY <1>1, <1>2, MaxOf
<1>4. S \subseteq 0 .. Len(log)
  BY <1>1, <1>2
<1>5. Max(S) \in 0 .. Len(log)
  BY <1>3, <1>4, Zenon
<1> QED
  BY <1>1, <1>5 DEF Position

-----------------------------------------------------------------------------
(* Replay. *)

\* rows[i] is what Replay has after the first i entries, of n.
IsReplay(rows, state, last, asOf, n) ==
    rows = [i \in 0 .. n |->
               IF i = 0 THEN state
               ELSE IF AfterPosition(last, i) /\ TextUpTo(log[i].time, asOf)
               THEN ReplayEntry(rows[i - 1], log[i])
               ELSE rows[i - 1]]

LEMMA ReplayStep ==
    ASSUME NEW rows, NEW state, NEW last, NEW asOf, NEW n \in Nat,
           IsReplay(rows, state, last, asOf, n)
    PROVE  /\ rows[0] = state
           /\ \A i \in 1 .. n :
                 rows[i] = IF AfterPosition(last, i) /\ TextUpTo(log[i].time, asOf)
                           THEN ReplayEntry(rows[i - 1], log[i]) ELSE rows[i - 1]
<1> DEFINE at(i) == IF i = 0 THEN state
                    ELSE IF AfterPosition(last, i) /\ TextUpTo(log[i].time, asOf)
                    THEN ReplayEntry(rows[i - 1], log[i]) ELSE rows[i - 1]
<1>1. rows = [i \in 0 .. n |-> at(i)]
  BY DEF IsReplay
<1>2. \A i \in 0 .. n : rows[i] = at(i)
  <2> HIDE DEF at
  <2> QED
    BY <1>1
<1>3. \A i \in 1 .. n : i \in 0 .. n /\ i # 0
  OBVIOUS
<1>4. 0 \in 0 .. n
  OBVIOUS
<1>5. rows[0] = state
  BY <1>2, <1>4
<1>6. ASSUME NEW i \in 1 .. n
      PROVE  rows[i] = IF AfterPosition(last, i) /\ TextUpTo(log[i].time, asOf)
                       THEN ReplayEntry(rows[i - 1], log[i]) ELSE rows[i - 1]
  BY <1>2, <1>3
<1> QED
  BY <1>5, <1>6

LEMMA ReplayExists ==
    ASSUME NEW state, NEW last, NEW asOf, NEW k \in Nat
    PROVE  \E rows : IsReplay(rows, state, last, asOf, k)
<1> DEFINE S == {n \in Nat : ~\E rows : IsReplay(rows, state, last, asOf, n)}
           step(i, before) == IF AfterPosition(last, i) /\ TextUpTo(log[i].time, asOf)
                              THEN ReplayEntry(before, log[i]) ELSE before
<1>1. 0 \notin S
  <2>1. IsReplay([n \in 0 .. 0 |-> state], state, last, asOf, 0)
    BY DEF IsReplay
  <2> QED
    BY <2>1
<1>2. ASSUME NEW n \in Nat, n \notin S
      PROVE  n + 1 \notin S
  <2>1. PICK f : IsReplay(f, state, last, asOf, n)
    BY <1>2
  <2> DEFINE next == step(n + 1, f[n])
             h == [m \in 0 .. n + 1 |-> IF m = n + 1 THEN next ELSE f[m]]
  <2>2. \A m \in 0 .. n : h[m] = f[m]
    OBVIOUS
  <2>3. h[n + 1] = next /\ f[n] = h[n]
    BY <2>2
  <2>4. f[0] = state /\ \A m \in 1 .. n : f[m] = step(m, f[m - 1])
    BY <2>1, ReplayStep
  <2> HIDE DEF step
  <2>5. ASSUME NEW m \in 0 .. n + 1
        PROVE  h[m] = IF m = 0 THEN state ELSE step(m, h[m - 1])
    <3> HIDE DEF h
    <3>1. CASE m = 0
      BY <3>1, <2>2, <2>4
    <3>2. CASE m = n + 1
      <4>1. m - 1 = n /\ m # 0
        BY <3>2
      <4> QED
        BY <3>2, <2>3, <4>1
    <3>3. CASE m \in 1 .. n
      <4>1. m - 1 \in 0 .. n /\ m \in 0 .. n /\ m # 0
        BY <3>3
      <4>2. h[m] = f[m] /\ h[m - 1] = f[m - 1]
        BY <2>2, <4>1
      <4> QED
        BY <3>3, <2>4, <4>1, <4>2
    <3> QED
      BY <3>1, <3>2, <3>3
  <2>6. h = [m \in 0 .. n + 1 |-> h[m]]
    OBVIOUS
  <2>7. IsReplay(h, state, last, asOf, n + 1)
    <3> HIDE DEF h
    <3>1. [m \in 0 .. n + 1 |-> h[m]]
          = [m \in 0 .. n + 1 |-> IF m = 0 THEN state ELSE step(m, h[m - 1])]
      BY <2>5
    <3> QED
      BY <2>6, <3>1 DEF IsReplay, step
  <2> QED
    BY <2>7
<1>3. S = {}
  <2> HIDE DEF S
  <2>1. S \subseteq Nat
    BY DEF S
  <2> QED
    BY <1>1, <1>2, <2>1, LeastFailure
<1> QED
  BY <1>3

\* Replay is the last of the rows after each entry.
LEMMA ReplayIs ==
    ASSUME NEW state, NEW last, NEW asOf, Len(log) \in Nat
    PROVE  \E rows : /\ IsReplay(rows, state, last, asOf, Len(log))
                     /\ Replay(state, last, asOf) = rows[Len(log)]
<1> DEFINE rows == CHOOSE f : IsReplay(f, state, last, asOf, Len(log))
<1>1. IsReplay(rows, state, last, asOf, Len(log))
  BY ReplayExists
<1>2. Replay(state, last, asOf) = rows[Len(log)]
  BY DEF Replay, IsReplay
<1> QED
  BY <1>1, <1>2

\* An entry replayed on the tables before it gives the tables after it: a
\* creation finds no row of its id, an update finds the one it replaces.
LEMMA ReplayEntryGivesTables ==
    ASSUME SnapshotTypeOK, LogInOrder, NEW state \in GraphState,
           NEW n \in Nat, n < Len(log), AreTables(state, log, n, IDs)
    PROVE  /\ ReplayEntry(state, log[n + 1]) \in GraphState
           /\ AreTables(ReplayEntry(state, log[n + 1]), log, n + 1, IDs)
<1> PICK e : e = log[n + 1]
  OBVIOUS
<1> DEFINE R == [id : IDs, gen : Nat \ {0}]
           found == {i \in DOMAIN state : state[i].id = e.id}
           after == ReplayEntry(state, e)
<1>1. n + 1 \in DOMAIN log /\ e \in Entry
  BY DEF SnapshotTypeOK
<1>2. e.id \in IDs /\ e.gen \in Nat \ {0} /\ e.gen = Count(log, e.id, n + 1)
  BY <1>1 DEF Entry, LogInOrder
<1>3. Row(e) \in R /\ Row(e).id = e.id /\ Row(e).gen = e.gen
  BY <1>2 DEF Row
<1>4. Count(log, e.id, n) \in Nat /\ Count(log, e.id, n + 1) = Count(log, e.id, n) + 1
  BY CountType, CountNext
<1>5. \A x \in IDs : x # e.id => Count(log, x, n + 1) = Count(log, x, n)
  BY CountNext
<1>6. /\ state \in Seq(R) /\ Len(state) \in Nat /\ DOMAIN state = 1 .. Len(state)
      /\ \A k \in DOMAIN state : state[k].gen \in Nat \ {0}
  <2>1. state \in Seq(R)
    BY DEF GraphState
  <2>2. \A k \in 1 .. Len(state) : state[k] \in R
    <3> HIDE DEF R
    <3> QED
      BY <2>1
  <2>3. Len(state) \in Nat /\ DOMAIN state = 1 .. Len(state)
    BY <2>1
  <2> QED
    BY <2>1, <2>2, <2>3
<1>7. e.gen = 1 <=> found = {}
  <2>1. ASSUME NEW k \in found PROVE e.gen # 1
    <3>1. state[k].gen = Count(log, e.id, n) /\ state[k].gen > 0
      BY <1>6, <2>1 DEF AreTables
    <3> QED
      BY <1>2, <1>4, <3>1
  <2>2. ASSUME found = {} PROVE e.gen = 1
    <3>1. ~(Count(log, e.id, n) > 0)
      BY <1>2, <2>2 DEF AreTables
    <3> QED
      BY <1>2, <1>4, <3>1
  <2> QED
    BY <2>1, <2>2
<1> HIDE DEF R
<1>8. CASE found = {}
  <2>1. after = Append(state, Row(e))
    BY <1>8 DEF ReplayEntry
  <2>2. after \in Seq(R) /\ DOMAIN after = 1 .. Len(state) + 1
        /\ (\A k \in 1 .. Len(state) : after[k] = state[k])
        /\ after[Len(state) + 1] = Row(e)
    BY <1>3, <1>6, <2>1
  <2>3. \A k \in 1 .. Len(state) : state[k].id # e.id
    BY <1>6, <1>8
  <2> HIDE DEF after, found
  <2>4. \A i, j \in DOMAIN after : after[i].id = after[j].id => i = j
    BY <1>3, <1>6, <2>2, <2>3 DEF AreTables
  <2>5. \A k \in DOMAIN after : after[k].id \in IDs /\ after[k].gen = Count(log, after[k].id, n + 1)
    BY <1>2, <1>3, <1>5, <1>6, <2>2, <2>3 DEF AreTables
  <2>6. ASSUME NEW x \in IDs, Count(log, x, n + 1) > 0
        PROVE  \E k \in DOMAIN after : after[k].id = x
    <3>1. CASE x = e.id
      BY <1>3, <1>6, <2>2, <3>1
    <3>2. CASE x # e.id
      <4>1. PICK k \in DOMAIN state : state[k].id = x
        BY <1>5, <2>6, <3>2 DEF AreTables
      <4> QED
        BY <1>6, <2>2, <4>1
    <3> QED
      BY <3>1, <3>2
  <2> QED
    BY <2>2, <2>4, <2>5, <2>6 DEF AreTables, GraphState, R, after
<1>9. CASE found # {}
  <2> DEFINE f == Min(found)
  <2>1. found \in SUBSET Nat
    BY <1>6
  <2>2. f \in found
    <3> HIDE DEF found
    <3> QED
      BY <1>9, <2>1, MinOf
  <2>3. after = [state EXCEPT ![f] = Row(e)]
    BY <1>7, <1>9 DEF ReplayEntry
  <2>4. f \in 1 .. Len(state) /\ state[f].id = e.id
    BY <1>6, <2>2
  <2> HIDE DEF f, found
  <2>5. after \in Seq(R) /\ DOMAIN after = 1 .. Len(state)
        /\ after[f] = Row(e) /\ (\A k \in 1 .. Len(state) : k # f => after[k] = state[k])
    BY <1>3, <1>6, <2>3, <2>4
  <2> HIDE DEF after
  <2>6. \A k \in 1 .. Len(state) : k # f => state[k].id # e.id
    BY <1>6, <2>4 DEF AreTables
  <2>7. \A k \in 1 .. Len(state) : after[k].id = state[k].id
    BY <1>3, <2>4, <2>5
  <2>8. \A i, j \in DOMAIN after : after[i].id = after[j].id => i = j
    BY <1>6, <2>5, <2>7 DEF AreTables
  <2>9. \A k \in DOMAIN after : after[k].id \in IDs /\ after[k].gen = Count(log, after[k].id, n + 1)
    BY <1>2, <1>3, <1>5, <1>6, <2>5, <2>6 DEF AreTables
  <2>10. ASSUME NEW x \in IDs, Count(log, x, n + 1) > 0
        PROVE  \E k \in DOMAIN after : after[k].id = x
    <3>1. CASE x = e.id
      BY <2>4, <2>5, <2>7, <3>1
    <3>2. CASE x # e.id
      <4>1. PICK k \in DOMAIN state : state[k].id = x
        BY <1>5, <2>10, <3>2 DEF AreTables
      <4> QED
        BY <1>6, <2>5, <2>7, <4>1
    <3> QED
      BY <3>1, <3>2
  <2> QED
    BY <2>5, <2>8, <2>9, <2>10 DEF AreTables, GraphState, R, after
<1> QED
  BY <1>8, <1>9

\* The first row of each id in a list is not older than the first n entries of
\* the log; without such a row there is none of it among them.
FirstIsBetween(state, n) ==
    \A id \in IDs :
        LET found == {i \in DOMAIN state : state[i].id = id}
        IN  /\ found = {} => Count(log, id, n) = 0
            /\ found # {} =>
                  /\ Count(log, id, n) <= state[Min(found)].gen
                  /\ state[Min(found)].gen <= Count(log, id, Len(log))

\* The same, of a row that is known to be the first.
LEMMA FirstRow ==
    ASSUME NEW state \in GraphState, NEW id, NEW k \in DOMAIN state, state[k].id = id,
           \A j \in DOMAIN state : j < k => state[j].id # id
    PROVE  Min({i \in DOMAIN state : state[i].id = id}) = k
<1> DEFINE found == {i \in DOMAIN state : state[i].id = id}
<1>1. DOMAIN state \subseteq Nat
  BY DEF GraphState
<1>2. found \in SUBSET Nat /\ k \in found
  BY <1>1
<1>3. Min(found) \in found /\ \A y \in found : Min(found) <= y
  <2> HIDE DEF found
  <2> QED
    BY <1>2, MinOf
<1>4. Min(found) \in DOMAIN state /\ state[Min(found)].id = id /\ Min(found) <= k
  BY <1>2, <1>3
<1> DEFINE m == Min(found)
<1> HIDE DEF m
<1>5. m \in DOMAIN state /\ state[m].id = id /\ m <= k
  BY <1>4 DEF m
<1>6. m = k
  BY <1>1, <1>5
<1> QED
  BY <1>6 DEF m

\* Whatever rows an entry is replayed on, the first row of each id stays
\* between the entries so far and the end of the log.
LEMMA ReplayEntryKeepsFirst ==
    ASSUME SnapshotTypeOK, LogInOrder, NEW state \in GraphState,
           NEW n \in Nat, n < Len(log), FirstIsBetween(state, n)
    PROVE  /\ ReplayEntry(state, log[n + 1]) \in GraphState
           /\ FirstIsBetween(ReplayEntry(state, log[n + 1]), n + 1)
<1> PICK e : e = log[n + 1]
  OBVIOUS
<1> DEFINE R == [id : IDs, gen : Nat \ {0}]
           rowsOf(st, x) == {i \in DOMAIN st : st[i].id = x}
           after == ReplayEntry(state, e)
           good(st, x, m) ==
               /\ rowsOf(st, x) = {} => Count(log, x, m) = 0
               /\ rowsOf(st, x) # {} =>
                     /\ Count(log, x, m) <= st[Min(rowsOf(st, x))].gen
                     /\ st[Min(rowsOf(st, x))].gen <= Count(log, x, Len(log))
<1>1. n + 1 \in DOMAIN log /\ e \in Entry /\ Len(log) \in Nat
  BY DEF SnapshotTypeOK
<1>2. e.id \in IDs /\ e.gen \in Nat \ {0} /\ e.gen = Count(log, e.id, n + 1)
  BY <1>1 DEF Entry, LogInOrder
<1>3. Row(e) \in R /\ Row(e).id = e.id /\ Row(e).gen = e.gen
  BY <1>2 DEF Row
<1>4. \A x \in IDs : x # e.id => Count(log, x, n + 1) = Count(log, x, n)
  BY CountNext
<1>5. Count(log, e.id, n + 1) <= Count(log, e.id, Len(log))
  BY <1>1, CountGrows
<1>6. state \in Seq(R) /\ Len(state) \in Nat /\ DOMAIN state = 1 .. Len(state)
  BY DEF GraphState
<1>7. \A k \in 1 .. Len(state) : state[k] \in R
  <2> HIDE DEF R
  <2> QED
    BY <1>6
<1>8. \A k \in 1 .. Len(state) : state[k].gen \in Nat \ {0}
  BY <1>7
<1>9. \A x \in IDs : good(state, x, n)
  BY DEF FirstIsBetween
<1>10. \A x : rowsOf(state, x) \in SUBSET Nat
  BY <1>6
<1>11. \A x : rowsOf(state, x) # {} =>
           /\ Min(rowsOf(state, x)) \in rowsOf(state, x)
           /\ \A y \in rowsOf(state, x) : Min(rowsOf(state, x)) <= y
  <2> TAKE x
  <2> PICK s : s = rowsOf(state, x)
    OBVIOUS
  <2> QED
    <3> HIDE DEF rowsOf
    <3> QED
      BY <1>10, MinOf
<1>12. \A x : rowsOf(state, x) # {} =>
           LET f == Min(rowsOf(state, x)) IN
           /\ f \in 1 .. Len(state) /\ state[f].id = x
           /\ \A y \in 1 .. Len(state) : y < f => state[y].id # x
  <2> TAKE x
  <2> HAVE rowsOf(state, x) # {}
  <2> PICK f : f = Min(rowsOf(state, x))
    OBVIOUS
  <2>1. f \in rowsOf(state, x) /\ \A y \in rowsOf(state, x) : f <= y
    BY <1>11
  <2>2. f \in 1 .. Len(state) /\ state[f].id = x
    BY <1>6, <2>1
  <2>3. ASSUME NEW y \in 1 .. Len(state), y < f PROVE state[y].id # x
    <3>1. y \notin rowsOf(state, x)
      <4> HIDE DEF rowsOf
      <4> QED
        BY <1>6, <2>1, <2>2, <2>3
    <3> QED
      BY <1>6, <3>1
  <2> QED
    BY <2>2, <2>3
<1> HIDE DEF R
<1>13. CASE e.gen = 1 \/ rowsOf(state, e.id) = {}
  <2>1. after = Append(state, Row(e))
    BY <1>13 DEF ReplayEntry
  <2>2. after \in Seq(R) /\ DOMAIN after = 1 .. Len(state) + 1
        /\ (\A k \in 1 .. Len(state) : after[k] = state[k])
        /\ after[Len(state) + 1] = Row(e)
    BY <1>3, <1>6, <2>1
  <2> HIDE DEF after
  <2>3. after \in GraphState
    BY <2>2 DEF GraphState, R
  <2>4. ASSUME NEW x \in IDs PROVE good(after, x, n + 1)
    <3>1. CASE rowsOf(state, x) # {}
      <4> PICK f : f = Min(rowsOf(state, x))
        OBVIOUS
      <4>1. f \in 1 .. Len(state) /\ state[f].id = x
            /\ \A y \in 1 .. Len(state) : y < f => state[y].id # x
        BY <1>12, <3>1
      <4>2. f \in DOMAIN after /\ after[f].id = x /\ after[f] = state[f]
            /\ \A y \in DOMAIN after : y < f => after[y].id # x
        <5>1. \A y \in DOMAIN after : y < f => y \in 1 .. Len(state)
          BY <1>6, <2>2, <4>1
        <5>2. f \in DOMAIN after /\ after[f] = state[f]
          BY <1>6, <2>2, <4>1
        <5> QED
          BY <2>2, <4>1, <5>1, <5>2
      <4>3. Min(rowsOf(after, x)) = f /\ rowsOf(after, x) # {}
        BY <2>3, <4>2, FirstRow
      <4>4. Count(log, x, n) <= state[f].gen /\ state[f].gen <= Count(log, x, Len(log))
        BY <1>9, <3>1
      <4>5. Count(log, x, n + 1) <= state[f].gen
        <5>1. CASE x = e.id
          <6>1. e.gen = 1
            BY <1>13, <3>1, <5>1
          <6> QED
            BY <1>2, <1>8, <4>1, <5>1, <6>1
        <5>2. CASE x # e.id
          BY <1>4, <4>4, <5>2
        <5> QED
          BY <5>1, <5>2
      <4> HIDE DEF rowsOf
      <4> QED
        BY <4>2, <4>3, <4>4, <4>5
    <3>2. CASE rowsOf(state, x) = {} /\ x = e.id
      <4>1. \A y \in 1 .. Len(state) : state[y].id # x
        BY <1>6, <3>2
      <4> PICK f : f = Len(state) + 1
        OBVIOUS
      <4>2. f \in DOMAIN after /\ after[f].id = x /\ after[f].gen = e.gen
            /\ \A y \in DOMAIN after : y < f => after[y].id # x
        BY <1>3, <1>6, <2>2, <3>2, <4>1
      <4>3. Min(rowsOf(after, x)) = f /\ rowsOf(after, x) # {}
        BY <2>3, <4>2, FirstRow
      <4>4. Count(log, x, n + 1) <= e.gen
        BY <1>2, <3>2
      <4> HIDE DEF rowsOf
      <4> QED
        BY <1>2, <1>5, <3>2, <4>2, <4>3, <4>4
    <3>3. CASE rowsOf(state, x) = {} /\ x # e.id
      <4>1. \A y \in DOMAIN after : after[y].id # x
        BY <1>3, <1>6, <2>2, <3>3
      <4>2. rowsOf(after, x) = {}
        BY <4>1
      <4>3. Count(log, x, n + 1) = 0
        BY <1>4, <1>9, <3>3
      <4> QED
        BY <4>2, <4>3
    <3> QED
      BY <3>1, <3>2, <3>3
  <2> QED
    BY <2>3, <2>4 DEF FirstIsBetween, after
<1>14. CASE ~(e.gen = 1 \/ rowsOf(state, e.id) = {})
  <2> PICK f : f = Min(rowsOf(state, e.id))
    OBVIOUS
  <2>1. f \in 1 .. Len(state) /\ state[f].id = e.id
        /\ \A y \in 1 .. Len(state) : y < f => state[y].id # e.id
    BY <1>12, <1>14
  <2>2. after = [state EXCEPT ![f] = Row(e)]
    BY <1>14 DEF ReplayEntry
  <2>3. after \in Seq(R) /\ DOMAIN after = 1 .. Len(state)
        /\ after[f] = Row(e) /\ (\A k \in 1 .. Len(state) : k # f => after[k] = state[k])
    BY <1>3, <1>6, <2>1, <2>2
  <2> HIDE DEF after
  <2>4. after \in GraphState
    BY <2>3 DEF GraphState, R
  <2>5. \A k \in 1 .. Len(state) : after[k].id = state[k].id
    BY <1>3, <2>1, <2>3
  <2>6. ASSUME NEW x \in IDs PROVE good(after, x, n + 1)
    <3>1. CASE x = e.id
      <4>1. f \in DOMAIN after /\ after[f].id = x /\ after[f].gen = e.gen
            /\ \A y \in DOMAIN after : y < f => after[y].id # x
        BY <1>3, <1>6, <2>1, <2>3, <2>5, <3>1
      <4>2. Min(rowsOf(after, x)) = f /\ rowsOf(after, x) # {}
        BY <2>4, <4>1, FirstRow
      <4>3. Count(log, x, n + 1) <= e.gen
        BY <1>2, <3>1
      <4> HIDE DEF rowsOf
      <4> QED
        BY <1>2, <1>5, <3>1, <4>1, <4>2, <4>3
    <3>2. CASE x # e.id /\ rowsOf(state, x) # {}
      <4> PICK g : g = Min(rowsOf(state, x))
        OBVIOUS
      <4>1. g \in 1 .. Len(state) /\ state[g].id = x
            /\ \A y \in 1 .. Len(state) : y < g => state[y].id # x
        BY <1>12, <3>2
      <4>2. g \in DOMAIN after /\ after[g].id = x /\ after[g] = state[g]
            /\ \A y \in DOMAIN after : y < g => after[y].id # x
        BY <1>6, <2>1, <2>3, <2>5, <3>2, <4>1
      <4>3. Min(rowsOf(after, x)) = g /\ rowsOf(after, x) # {}
        BY <2>4, <4>2, FirstRow
      <4>4. Count(log, x, n) <= state[g].gen /\ state[g].gen <= Count(log, x, Len(log))
        BY <1>9, <3>2
      <4> HIDE DEF rowsOf
      <4> QED
        BY <1>4, <3>2, <4>2, <4>3, <4>4
    <3>3. CASE x # e.id /\ rowsOf(state, x) = {}
      <4>1. \A y \in DOMAIN after : after[y].id # x
        BY <1>6, <2>3, <2>5, <3>3
      <4>2. rowsOf(after, x) = {}
        BY <4>1
      <4>3. Count(log, x, n + 1) = 0
        BY <1>4, <1>9, <3>3
      <4> QED
        BY <4>2, <4>3
    <3> QED
      BY <3>1, <3>2, <3>3
  <2> QED
    BY <2>4, <2>6 DEF FirstIsBetween, after
<1> QED
  BY <1>13, <1>14

LEMMA ReplayOfAllKeepsFirst ==
    ASSUME SnapshotTypeOK, LogInOrder, NEW state \in GraphState, NEW asOf,
           NEW last \in 0 .. Len(log), FirstIsBetween(state, last),
           \A i \in 1 .. Len(log) : TextUpTo(log[i].time, asOf)
    PROVE  /\ Replay(state, last, asOf) \in GraphState
           /\ FirstIsBetween(Replay(state, last, asOf), Len(log))
<1> DEFINE at(i) == IF i <= last THEN last ELSE i
<1>1. Len(log) \in Nat /\ last \in Nat
  BY DEF SnapshotTypeOK
<1>2. PICK rows : /\ IsReplay(rows, state, last, asOf, Len(log))
                  /\ Replay(state, last, asOf) = rows[Len(log)]
  BY <1>1, ReplayIs
<1>3. rows[0] = state
      /\ \A i \in 1 .. Len(log) :
            rows[i] = IF i > last THEN ReplayEntry(rows[i - 1], log[i]) ELSE rows[i - 1]
  BY <1>1, <1>2, ReplayStep DEF AfterPosition
<1> DEFINE Good(i) == rows[i] \in GraphState /\ FirstIsBetween(rows[i], at(i))
           S == {i \in Nat : i <= Len(log) /\ ~Good(i)}
<1>4. 0 \notin S
  BY <1>1, <1>3
<1>5. ASSUME NEW i \in Nat, i \notin S
      PROVE  i + 1 \notin S
  <2>1. SUFFICES ASSUME i + 1 <= Len(log) PROVE Good(i + 1)
    OBVIOUS
  <2>2. Good(i) /\ i + 1 \in 1 .. Len(log) /\ (i + 1) - 1 = i
    BY <1>1, <1>5, <2>1
  <2>3. CASE i + 1 > last
    <3>1. at(i) = i /\ at(i + 1) = i + 1
      BY <1>1, <2>3
    <3>2. rows[i + 1] = ReplayEntry(rows[i], log[i + 1])
      BY <1>3, <2>2, <2>3
    <3> PICK st : st = rows[i]
      OBVIOUS
    <3>3. st \in GraphState /\ FirstIsBetween(st, i) /\ i < Len(log)
      BY <1>1, <2>1, <2>2, <3>1
    <3>4. /\ ReplayEntry(st, log[i + 1]) \in GraphState
          /\ FirstIsBetween(ReplayEntry(st, log[i + 1]), i + 1)
      BY <3>3, ReplayEntryKeepsFirst
    <3> QED
      BY <3>1, <3>2, <3>4
  <2>4. CASE ~(i + 1 > last)
    <3>1. at(i + 1) = at(i)
      BY <1>1, <2>4
    <3>2. rows[i + 1] = rows[i]
      BY <1>3, <2>2, <2>4
    <3> QED
      BY <2>2, <3>1, <3>2
  <2> QED
    BY <2>3, <2>4
<1>6. S = {}
  <2> HIDE DEF S
  <2>1. S \in SUBSET Nat
    BY DEF S
  <2> QED
    BY <1>4, <1>5, <2>1, LeastFailure
<1>7. Good(Len(log))
  BY <1>1, <1>6
<1>8. at(Len(log)) = Len(log)
  BY <1>1
<1> QED
  BY <1>2, <1>7, <1>8

\* What a snapshot covers is enough to begin with, and so is nothing.
LEMMA BetweenGivesFirst ==
    ASSUME NEW state \in GraphState, NEW n \in Nat, AreBetween(state, log, n, IDs)
    PROVE  FirstIsBetween(state, n)
<1> SUFFICES ASSUME NEW id \in IDs
             PROVE  LET found == {i \in DOMAIN state : state[i].id = id}
                    IN  /\ found = {} => Count(log, id, n) = 0
                        /\ found # {} =>
                              /\ Count(log, id, n) <= state[Min(found)].gen
                              /\ state[Min(found)].gen <= Count(log, id, Len(log))
  BY DEF FirstIsBetween
<1> DEFINE found == {i \in DOMAIN state : state[i].id = id}
<1>1. found = {} => Count(log, id, n) = 0
  <2>1. Count(log, id, n) \in Nat
    BY CountType
  <2> QED
    BY <2>1 DEF AreBetween
<1>2. ASSUME found # {}
      PROVE  Min(found) \in DOMAIN state /\ state[Min(found)].id = id
  <2>1. found \in SUBSET Nat
    BY DEF GraphState
  <2>2. Min(found) \in found
    <3> HIDE DEF found
    <3> QED
      BY <1>2, <2>1, MinOf
  <2> QED
    BY <2>2
<1>3. ASSUME found # {}
      PROVE  /\ Count(log, id, n) <= state[Min(found)].gen
             /\ state[Min(found)].gen <= Count(log, id, Len(log))
  <2> PICK m : m = Min(found)
    OBVIOUS
  <2>1. m \in DOMAIN state /\ state[m].id = id
    BY <1>2, <1>3
  <2>2. /\ Count(log, id, n) <= state[m].gen
        /\ state[m].gen <= Count(log, id, Len(log))
    BY <2>1 DEF AreBetween
  <2> QED
    BY <2>2
<1> QED
  BY <1>1, <1>3

LEMMA NothingCovers ==
    /\ << >> \in GraphState
    /\ AreTables(<< >>, log, 0, IDs)
    /\ AreBetween(<< >>, log, 0, IDs)
<1>1. \A id \in IDs : Count(log, id, 0) = 0
  BY CountNone
<1>2. << >> \in GraphState /\ DOMAIN << >> = {}
  BY DEF GraphState
<1> QED
  BY <1>1, <1>2 DEF AreTables, AreBetween

-----------------------------------------------------------------------------
(* Two lists of the same tables have the same rows. *)

LEMMA LengthOfDistinct ==
    ASSUME NEW X, NEW s \in Seq(X), IsInjective(s)
    PROVE  IsFiniteSet(ToSet(s)) /\ Cardinality(ToSet(s)) = Len(s)
<1>1. Len(s) \in Nat /\ DOMAIN s = 1 .. Len(s) /\ s \in [1 .. Len(s) -> X]
  OBVIOUS
<1>2. IsFiniteSet(1 .. Len(s)) /\ Cardinality(1 .. Len(s)) = Len(s)
  BY <1>1, FS_Interval
<1>3. s \in [1 .. Len(s) -> ToSet(s)]
  BY <1>1 DEF ToSet
<1>4. \A t \in ToSet(s) : \E i \in 1 .. Len(s) : s[i] = t
  BY <1>1 DEF ToSet
<1>5. s \in Bijection(1 .. Len(s), ToSet(s))
  BY <1>3, <1>4 DEF Bijection, Injection, Surjection
<1>6. ExistsBijection(1 .. Len(s), ToSet(s))
  BY <1>5 DEF ExistsBijection
<1> QED
  BY <1>1, <1>2, <1>6, FS_Bijection

\* A list has one row of each of its ids, which are ids of the first n entries.
OneOfEach(rows, n) ==
    /\ rows \in GraphState
    /\ \A i, j \in DOMAIN rows : rows[i].id = rows[j].id => i = j
    /\ \A k \in DOMAIN rows : Count(log, rows[k].id, n) > 0

\* Two lists, in whatever order, of the same rows.
Alike(a, b, n) == OneOfEach(a, n) /\ OneOfEach(b, n) /\ ToSet(a) = ToSet(b)

LEMMA RowsOf ==
    ASSUME NEW s \in GraphState
    PROVE  /\ s \in Seq([id : IDs, gen : Nat \ {0}])
           /\ DOMAIN s = 1 .. Len(s) /\ Len(s) \in Nat
           /\ \A k \in DOMAIN s : s[k] \in [id : IDs, gen : Nat \ {0}]
<1> DEFINE R == [id : IDs, gen : Nat \ {0}]
<1>1. s \in Seq(R)
  BY DEF GraphState
<1>2. DOMAIN s = 1 .. Len(s) /\ Len(s) \in Nat /\ \A k \in DOMAIN s : s[k] \in R
  <2> HIDE DEF R
  <2> QED
    BY <1>1
<1> QED
  BY <1>1, <1>2

LEMMA AlikeIsSameRows ==
    ASSUME NEW a, NEW b, NEW n, Alike(a, b, n)
    PROVE  SameRows(a, b)
<1> DEFINE R == [id : IDs, gen : Nat \ {0}]
<1>1. a \in Seq(R) /\ b \in Seq(R)
  BY RowsOf DEF Alike, OneOfEach
<1>2. IsInjective(a) /\ IsInjective(b) /\ ToSet(a) = ToSet(b)
  BY DEF Alike, OneOfEach, IsInjective
<1>3. Len(a) = Cardinality(ToSet(a)) /\ Len(b) = Cardinality(ToSet(b))
  <2> HIDE DEF R
  <2> QED
    BY <1>1, <1>2, LengthOfDistinct
<1> QED
  BY <1>2, <1>3 DEF SameRows

\* Two readings of the same tables are alike.
LEMMA TablesAreAlike ==
    ASSUME NEW a \in GraphState, NEW b \in GraphState, NEW n \in Nat,
           AreTables(a, log, n, IDs), AreTables(b, log, n, IDs)
    PROVE  Alike(a, b, n)
<1> DEFINE R == [id : IDs, gen : Nat \ {0}]
<1>1. ASSUME NEW s \in GraphState, NEW t \in GraphState,
             AreTables(s, log, n, IDs), AreTables(t, log, n, IDs)
      PROVE  OneOfEach(s, n) /\ ToSet(s) \subseteq ToSet(t)
  <2>1. \A k \in DOMAIN s : s[k] \in R
    BY RowsOf
  <2>2. \A k \in DOMAIN t : t[k] \in R
    BY RowsOf
  <2>3. \A k \in DOMAIN s : s[k].id \in IDs /\ Count(log, s[k].id, n) > 0
    BY <1>1, <2>1 DEF AreTables
  <2>4. ASSUME NEW k \in DOMAIN s PROVE \E j \in DOMAIN t : t[j] = s[k]
    <3>1. s[k].id \in IDs /\ Count(log, s[k].id, n) > 0
      BY <2>3
    <3>2. PICK j \in DOMAIN t : t[j].id = s[k].id
      BY <1>1, <3>1 DEF AreTables
    <3>3. s[k].gen = Count(log, s[k].id, n) /\ t[j].gen = Count(log, t[j].id, n)
      BY <1>1 DEF AreTables
    <3>4. t[j] = s[k]
      BY <2>1, <2>2, <3>2, <3>3
    <3> QED
      BY <3>4
  <2> QED
    BY <1>1, <2>3, <2>4 DEF ToSet, AreTables, OneOfEach
<1>2. OneOfEach(a, n) /\ OneOfEach(b, n) /\ ToSet(a) = ToSet(b)
  BY <1>1
<1> QED
  BY <1>2 DEF Alike

\* An entry takes the place of its id's row, in whatever position that is.
LEMMA ReplayEntryPlacesRow ==
    ASSUME SnapshotTypeOK, LogInOrder, NEW n \in Nat, n < Len(log),
           NEW state, OneOfEach(state, n)
    PROVE  /\ OneOfEach(ReplayEntry(state, log[n + 1]), n + 1)
           /\ ToSet(ReplayEntry(state, log[n + 1]))
              = {r \in ToSet(state) : r.id # log[n + 1].id} \cup {Row(log[n + 1])}
<1> PICK e : e = log[n + 1]
  OBVIOUS
<1> DEFINE R == [id : IDs, gen : Nat \ {0}]
           found == {i \in DOMAIN state : state[i].id = e.id}
           after == ReplayEntry(state, e)
<1>1. n + 1 \in DOMAIN log /\ e \in Entry
  BY DEF SnapshotTypeOK
<1>2. e.id \in IDs /\ e.gen \in Nat \ {0} /\ e.gen = Count(log, e.id, n + 1)
  BY <1>1 DEF Entry, LogInOrder
<1>3. Row(e) \in R /\ Row(e).id = e.id
  BY <1>2 DEF Row
<1>4. Count(log, e.id, n) \in Nat /\ Count(log, e.id, n + 1) = Count(log, e.id, n) + 1
  BY CountType, CountNext
<1>5. \A x : Count(log, x, n) > 0 => Count(log, x, n + 1) > 0
  <2> TAKE x
  <2>1. Count(log, x, n) <= Count(log, x, n + 1)
    BY CountGrows
  <2>2. n + 1 \in Nat
    OBVIOUS
  <2>3. Count(log, x, n) \in Nat /\ Count(log, x, n + 1) \in Nat
    BY <2>2, CountType
  <2> QED
    BY <2>1, <2>3
<1>6. state \in GraphState
  BY DEF OneOfEach
<1>7. state \in Seq(R) /\ Len(state) \in Nat /\ DOMAIN state = 1 .. Len(state)
      /\ \A k \in DOMAIN state : state[k] \in R
  BY <1>6, RowsOf
<1>8. e.gen = 1 => found = {}
  BY <1>2, <1>4 DEF OneOfEach
<1> HIDE DEF R
<1>9. CASE found = {}
  <2>1. after = Append(state, Row(e))
    BY <1>9 DEF ReplayEntry
  <2>2. after \in Seq(R) /\ DOMAIN after = 1 .. Len(state) + 1
        /\ (\A k \in 1 .. Len(state) : after[k] = state[k])
        /\ after[Len(state) + 1] = Row(e)
    BY <1>3, <1>7, <2>1
  <2>3. \A k \in 1 .. Len(state) : state[k].id # e.id
    BY <1>7, <1>9
  <2> HIDE DEF after, found
  <2>4. \A i, j \in DOMAIN after : after[i].id = after[j].id => i = j
    BY <1>3, <1>7, <2>2, <2>3 DEF OneOfEach
  <2>5. \A k \in DOMAIN after : Count(log, after[k].id, n + 1) > 0
    <3>1. Count(log, Row(e).id, n + 1) > 0
      BY <1>3, <1>4
    <3>2. \A k \in 1 .. Len(state) : Count(log, after[k].id, n + 1) > 0
      BY <1>5, <1>7, <2>2 DEF OneOfEach
    <3> QED
      BY <1>7, <2>2, <3>1, <3>2
  <2>6. ToSet(after) = {r \in ToSet(state) : r.id # e.id} \cup {Row(e)}
    <3>1. ToSet(after) = {after[k] : k \in 1 .. Len(state) + 1}
      BY <2>2 DEF ToSet
    <3>2. ToSet(state) = {state[k] : k \in 1 .. Len(state)}
      BY <1>7 DEF ToSet
    <3>3. \A r \in ToSet(after) : r \in ToSet(state) \/ r = Row(e)
      BY <1>7, <2>2, <3>1, <3>2
    <3>4. ToSet(state) \subseteq ToSet(after)
      <4>1. \A k \in 1 .. Len(state) : k \in 1 .. Len(state) + 1
        BY <1>7
      <4> QED
        BY <2>2, <3>1, <3>2, <4>1
    <3>5. Row(e) \in ToSet(after)
      BY <1>7, <2>2, <3>1
    <3>6. \A r \in ToSet(state) : r.id # e.id
      BY <2>3, <3>2
    <3> QED
      BY <3>3, <3>4, <3>5, <3>6
  <2> QED
    BY <2>2, <2>4, <2>5, <2>6 DEF OneOfEach, GraphState, R, after
<1>10. CASE found # {}
  <2> DEFINE f == Min(found)
  <2>1. found \in SUBSET Nat
    BY <1>7
  <2>2. f \in found
    <3> HIDE DEF found
    <3> QED
      BY <1>10, <2>1, MinOf
  <2>3. after = [state EXCEPT ![f] = Row(e)]
    BY <1>8, <1>10 DEF ReplayEntry
  <2>4. f \in 1 .. Len(state) /\ state[f].id = e.id
    BY <1>7, <2>2
  <2> HIDE DEF f, found
  <2>5. after \in Seq(R) /\ DOMAIN after = 1 .. Len(state)
        /\ after[f] = Row(e) /\ (\A k \in 1 .. Len(state) : k # f => after[k] = state[k])
    BY <1>3, <1>7, <2>3, <2>4
  <2> HIDE DEF after
  <2>6. \A k \in 1 .. Len(state) : k # f => state[k].id # e.id
    BY <1>7, <2>4 DEF OneOfEach
  <2>7. \A k \in 1 .. Len(state) : after[k].id = state[k].id
    BY <1>3, <2>4, <2>5
  <2>8. \A i, j \in DOMAIN after : after[i].id = after[j].id => i = j
    BY <1>7, <2>5, <2>7 DEF OneOfEach
  <2>9. \A k \in DOMAIN after : Count(log, after[k].id, n + 1) > 0
    BY <1>5, <1>7, <2>5, <2>7 DEF OneOfEach
  <2>10. ToSet(after) = {r \in ToSet(state) : r.id # e.id} \cup {Row(e)}
    <3>1. ToSet(after) = {after[k] : k \in 1 .. Len(state)}
      BY <2>5 DEF ToSet
    <3>2. ToSet(state) = {state[k] : k \in 1 .. Len(state)}
      BY <1>7 DEF ToSet
    <3>3. \A r \in ToSet(after) : r = Row(e) \/ (r \in ToSet(state) /\ r.id # e.id)
      <4> TAKE r \in ToSet(after)
      <4>1. PICK k \in 1 .. Len(state) : r = after[k]
        BY <3>1
      <4> QED
        BY <2>5, <2>6, <3>2, <4>1
    <3>4. \A r \in ToSet(state) : r.id # e.id => r \in ToSet(after)
      <4> TAKE r \in ToSet(state)
      <4>1. PICK k \in 1 .. Len(state) : r = state[k]
        BY <3>2
      <4> QED
        BY <2>4, <2>5, <3>1, <4>1
    <3>5. Row(e) \in ToSet(after)
      BY <2>4, <2>5, <3>1
    <3> QED
      BY <3>3, <3>4, <3>5
  <2> QED
    BY <2>5, <2>8, <2>9, <2>10 DEF OneOfEach, GraphState, R, after
<1> QED
  BY <1>9, <1>10

\* The replay from the tables at a position and the replay of the whole log
\* take the same entries after it, in the log's order, and end alike; whether
\* an entry between them is dated up to asOf does not matter.
LEMMA ReplaysAreAlike ==
    ASSUME SnapshotTypeOK, LogInOrder, NEW state \in GraphState, NEW asOf,
           NEW last \in 0 .. Len(log), AreTables(state, log, last, IDs),
           \A i \in 1 .. last : TextUpTo(log[i].time, asOf)
    PROVE  Alike(Replay(state, last, asOf), Replay(<< >>, 0, asOf), Len(log))
<1> PICK none : none = << >>
  OBVIOUS
<1>1. Len(log) \in Nat /\ last \in Nat /\ last <= Len(log)
  BY DEF SnapshotTypeOK
<1>2. PICK p : IsReplay(p, state, last, asOf, Len(log)) /\ Replay(state, last, asOf) = p[Len(log)]
  BY <1>1, ReplayIs
<1>3. PICK q : IsReplay(q, none, 0, asOf, Len(log)) /\ Replay(none, 0, asOf) = q[Len(log)]
  BY <1>1, ReplayIs
<1>4. /\ p[0] = state
      /\ \A i \in 1 .. Len(log) :
            p[i] = IF i > last /\ TextUpTo(log[i].time, asOf)
                   THEN ReplayEntry(p[i - 1], log[i]) ELSE p[i - 1]
  BY <1>1, <1>2, ReplayStep DEF AfterPosition
<1>5. /\ q[0] = none
      /\ \A i \in 1 .. Len(log) :
            q[i] = IF TextUpTo(log[i].time, asOf)
                   THEN ReplayEntry(q[i - 1], log[i]) ELSE q[i - 1]
  <2>1. \A i \in 1 .. Len(log) : AfterPosition(0, i)
    BY DEF AfterPosition
  <2> QED
    BY <1>1, <1>3, <2>1, ReplayStep
<1> DEFINE Good(i) ==
               /\ i <= last => /\ p[i] = state
                               /\ q[i] \in GraphState /\ AreTables(q[i], log, i, IDs)
               /\ i >= last => Alike(p[i], q[i], i)
           S == {i \in Nat : i <= Len(log) /\ ~Good(i)}
<1>6. ASSUME NEW i, i = last, p[i] = state, q[i] \in GraphState, AreTables(q[i], log, i, IDs)
      PROVE  Alike(p[i], q[i], i)
  <2> PICK b : b = q[i]
    OBVIOUS
  <2>1. b \in GraphState /\ AreTables(b, log, last, IDs)
    BY <1>6
  <2>2. Alike(state, b, last)
    BY <1>1, <2>1, TablesAreAlike
  <2> QED
    BY <1>6, <2>2
<1>7. 0 \notin S
  <2>1. none \in GraphState /\ AreTables(none, log, 0, IDs)
    BY NothingCovers
  <2>2. 0 >= last => last = 0
    BY <1>1
  <2> QED
    BY <1>4, <1>5, <1>6, <2>1, <2>2
<1>8. ASSUME NEW i \in Nat, i \notin S
      PROVE  i + 1 \notin S
  <2>1. SUFFICES ASSUME i + 1 <= Len(log) PROVE Good(i + 1)
    OBVIOUS
  <2>2. Good(i) /\ i + 1 \in 1 .. Len(log) /\ (i + 1) - 1 = i /\ i < Len(log)
    BY <1>1, <1>8, <2>1
  <2> PICK a : a = p[i]
    OBVIOUS
  <2> PICK b : b = q[i]
    OBVIOUS
  <2> PICK e : e = log[i + 1]
    OBVIOUS
  <2>3. CASE i + 1 <= last
    <3>1. TextUpTo(e.time, asOf) /\ i + 1 \in 1 .. last /\ ~(i + 1 > last)
      BY <1>1, <2>2, <2>3
    <3>2. p[i + 1] = p[i] /\ q[i + 1] = ReplayEntry(b, e)
      BY <1>4, <1>5, <2>2, <3>1
    <3>3. b \in GraphState /\ AreTables(b, log, i, IDs) /\ p[i] = state
      BY <1>1, <2>2, <2>3
    <3>4. ReplayEntry(b, e) \in GraphState /\ AreTables(ReplayEntry(b, e), log, i + 1, IDs)
      BY <2>2, <3>3, ReplayEntryGivesTables
    <3>5. /\ p[i + 1] = state
          /\ q[i + 1] \in GraphState /\ AreTables(q[i + 1], log, i + 1, IDs)
      BY <3>2, <3>3, <3>4
    <3>6. i + 1 >= last => i + 1 = last
      BY <1>1, <2>3
    <3> QED
      BY <1>6, <3>5, <3>6
  <2>4. CASE i + 1 > last
    <3>1. i >= last /\ ~(i + 1 <= last)
      BY <1>1, <2>4
    <3>2. OneOfEach(a, i) /\ OneOfEach(b, i) /\ ToSet(a) = ToSet(b)
      BY <2>2, <3>1 DEF Alike
    <3>3. CASE TextUpTo(e.time, asOf)
      <4>1. p[i + 1] = ReplayEntry(a, e) /\ q[i + 1] = ReplayEntry(b, e)
        BY <1>4, <1>5, <2>2, <2>4, <3>3
      <4>2. OneOfEach(ReplayEntry(a, e), i + 1)
            /\ ToSet(ReplayEntry(a, e)) = {r \in ToSet(a) : r.id # e.id} \cup {Row(e)}
        BY <2>2, <3>2, ReplayEntryPlacesRow
      <4>3. OneOfEach(ReplayEntry(b, e), i + 1)
            /\ ToSet(ReplayEntry(b, e)) = {r \in ToSet(b) : r.id # e.id} \cup {Row(e)}
        BY <2>2, <3>2, ReplayEntryPlacesRow
      <4>4. Alike(p[i + 1], q[i + 1], i + 1)
        BY <3>2, <4>1, <4>2, <4>3 DEF Alike
      <4> QED
        BY <3>1, <4>4
    <3>4. CASE ~TextUpTo(e.time, asOf)
      <4>1. p[i + 1] = a /\ q[i + 1] = b
        BY <1>4, <1>5, <2>2, <3>4
      <4>2. \A x : Count(log, x, i) > 0 => Count(log, x, i + 1) > 0
        <5> TAKE x
        <5>1. Count(log, x, i) <= Count(log, x, i + 1)
          BY CountGrows
        <5>2. i + 1 \in Nat
          OBVIOUS
        <5>3. Count(log, x, i) \in Nat /\ Count(log, x, i + 1) \in Nat
          BY <5>2, CountType
        <5> QED
          BY <5>1, <5>3
      <4>3. OneOfEach(a, i + 1) /\ OneOfEach(b, i + 1)
        BY <3>2, <4>2 DEF OneOfEach
      <4>4. Alike(p[i + 1], q[i + 1], i + 1)
        BY <3>2, <4>1, <4>3 DEF Alike
      <4> QED
        BY <3>1, <4>4
    <3> QED
      BY <3>3, <3>4
  <2> QED
    BY <1>1, <2>3, <2>4
<1>9. S = {}
  <2> HIDE DEF S
  <2>1. S \in SUBSET Nat
    BY DEF S
  <2> QED
    BY <1>7, <1>8, <2>1, LeastFailure
<1>10. Good(Len(log))
  BY <1>1, <1>9
<1> QED
  BY <1>1, <1>2, <1>3, <1>10

-----------------------------------------------------------------------------
(* The properties follow from what snapshots cover. *)

LEMMA CoverGivesCurrent == SnapshotsCover => RestoredIsCurrent
<1> SUFFICES ASSUME SnapshotsCover, NEW end \in Time, UpToAt(end) = DOMAIN log,
                    NEW st \in Restored(end), NEW id \in IDs
             PROVE  LET found == {i \in DOMAIN st : st[i].id = id}
                    IN  /\ found = {} <=> Entries(log, id) = {}
                        /\ found # {} => st[Min(found)].gen = Cardinality(Entries(log, id))
  BY DEF RestoredIsCurrent
<1>1. SnapshotTypeOK /\ LogInOrder
  BY DEF SnapshotsCover
<1>2. /\ log \in Seq(Entry) /\ Len(log) \in Nat
      /\ \A i \in 1 .. Len(log) : log[i] \in Entry
  BY <1>1 DEF SnapshotTypeOK
<1>3. \A i \in 1 .. Len(log) : TextUpTo(log[i].time, end)
  BY <1>2 DEF UpToAt
<1>4. st \in GraphState /\ FirstIsBetween(st, Len(log))
  <2>1. CASE st = Replay(<< >>, 0, end)
    <3>1. << >> \in GraphState /\ FirstIsBetween(<< >>, 0)
      BY NothingCovers, BetweenGivesFirst
    <3>2. 0 \in 0 .. Len(log)
      BY <1>2
    <3> PICK e : e = << >>
      OBVIOUS
    <3>3. e \in GraphState /\ FirstIsBetween(e, 0)
      BY <3>1
    <3>4. Replay(e, 0, end) \in GraphState /\ FirstIsBetween(Replay(e, 0, end), Len(log))
      BY <1>1, <1>3, <3>2, <3>3, ReplayOfAllKeepsFirst
    <3> QED
      BY <2>1, <3>4
  <2>2. CASE \E s \in snapshots : st = Replay(s.rows, s.last, end)
    <3>1. PICK s \in snapshots : st = Replay(s.rows, s.last, end)
      BY <2>2
    <3> PICK rows : rows = s.rows
      OBVIOUS
    <3> PICK last : last = s.last
      OBVIOUS
    <3>2. rows \in GraphState /\ last \in 0 .. Len(log) /\ AreBetween(rows, log, last, IDs)
      BY <1>1 DEF SnapshotsCover, Covers, SnapshotTypeOK, Snapshot
    <3>3. FirstIsBetween(rows, last)
      BY <3>2, BetweenGivesFirst
    <3>4. Replay(rows, last, end) \in GraphState
          /\ FirstIsBetween(Replay(rows, last, end), Len(log))
      BY <1>1, <1>3, <3>2, <3>3, ReplayOfAllKeepsFirst
    <3> QED
      BY <3>1, <3>4
  <2> QED
    BY <2>1, <2>2 DEF Restored, Nearest
<1>5. LET found == {i \in DOMAIN st : st[i].id = id}
      IN  /\ found = {} <=> Entries(log, id) = {}
          /\ found # {} => st[Min(found)].gen = Cardinality(Entries(log, id))
  <2> DEFINE found == {i \in DOMAIN st : st[i].id = id}
             n == Count(log, id, Len(log))
  <2>1. n \in Nat
    BY <1>2, CountType
  <2>2. Cardinality(Entries(log, id)) = n /\ (Entries(log, id) # {} <=> n > 0)
    BY <1>2, CountAll
  <2>3. /\ found = {} => n = 0
        /\ found # {} => n <= st[Min(found)].gen /\ st[Min(found)].gen <= n
    BY <1>4 DEF FirstIsBetween
  <2>4. ASSUME found # {} PROVE st[Min(found)].gen \in Nat \ {0}
    <3>1. found \in SUBSET Nat
      BY <1>4 DEF GraphState
    <3>2. Min(found) \in found
      <4> HIDE DEF found
      <4> QED
        BY <2>4, <3>1, MinOf
    <3> PICK m : m = Min(found)
      OBVIOUS
    <3> DEFINE R == [id : IDs, gen : Nat \ {0}]
    <3>3. m \in DOMAIN st
      BY <3>2
    <3>4. st \in Seq(R)
      BY <1>4 DEF GraphState
    <3>5. st[m] \in R
      <4> HIDE DEF R
      <4> QED
        BY <3>3, <3>4
    <3> QED
      BY <3>5
  <2> HIDE DEF n
  <2> QED
    BY <2>1, <2>2, <2>3, <2>4
<1> QED
  BY <1>5

LEMMA CoverGivesExact == SnapshotsCover => CleanSnapshotsExact
<1> SUFFICES ASSUME SnapshotsCover, NEW s \in snapshots, s.clean,
                    NEW t \in Time, TextUpTo(s.at, t)
             PROVE  SameRows(Replay(s.rows, s.last, t), Replay(<< >>, 0, t))
  BY DEF CleanSnapshotsExact
<1> PICK rows : rows = s.rows
  OBVIOUS
<1> PICK last : last = s.last
  OBVIOUS
<1>1. SnapshotTypeOK /\ LogInOrder
  BY DEF SnapshotsCover
<1>2. s \in Snapshot /\ rows \in GraphState
  BY <1>1 DEF SnapshotTypeOK, Snapshot
<1>3. /\ last \in 0 .. Len(log) /\ AreTables(rows, log, last, IDs)
      /\ \A j \in 1 .. last : TextUpTo(log[j].time, s.at)
  BY DEF SnapshotsCover, Covers
<1>4. ASSUME NEW j \in 1 .. last PROVE TextUpTo(log[j].time, t)
  <2>1. log[j] \in Entry /\ s.at \in Time
    BY <1>1, <1>2, <1>3 DEF SnapshotTypeOK, Snapshot
  <2>2. log[j].time \in Time
    BY <2>1 DEF Entry
  <2> QED
    BY <1>3, <2>1, <2>2, TextUpToIsTransitive
<1>5. Alike(Replay(rows, last, t), Replay(<< >>, 0, t), Len(log))
  BY <1>1, <1>2, <1>3, <1>4, ReplaysAreAlike
<1> QED
  BY <1>5, AlikeIsSameRows

-----------------------------------------------------------------------------
(* SnapshotsCover is inductive. *)

LEMMA InitCovers == SnapshotInit => SnapshotsCover
<1> SUFFICES ASSUME SnapshotInit PROVE SnapshotsCover
  OBVIOUS
<1>1. log = << >> /\ clock = 0 /\ snapshots = {}
      /\ creating = [s \in Snapshotters |-> NoSnapshot]
  BY DEF SnapshotInit
<1>2. SnapshotTypeOK
  BY <1>1, SnapshotAssumption DEF SnapshotTypeOK, Time
<1>3. LogInOrder
  BY <1>1 DEF LogInOrder
<1> QED
  BY <1>1, <1>2, <1>3 DEF SnapshotsCover

\* What a snapshot covers does not depend on later commits.
LEMMA CommitKeepsCovers ==
    ASSUME NEW l \in Seq(Entry), NEW e \in Entry, NEW ids, NEW snap \in Snapshot,
           Covers(snap, l, ids)
    PROVE  Covers(snap, Append(l, e), ids)
<1> PICK rows : rows = snap.rows
  OBVIOUS
<1> PICK last : last = snap.last
  OBVIOUS
<1> PICK m : m = Append(l, e)
  OBVIOUS
<1>1. /\ last \in 0 .. Len(l)
      /\ snap.clean => \A j \in 1 .. last : TextUpTo(l[j].time, snap.at)
      /\ AreBetween(rows, l, last, ids)
      /\ snap.clean => AreTables(rows, l, last, ids)
  BY DEF Covers
<1>2. /\ m \in Seq(Entry) /\ Len(l) \in Nat /\ Len(m) = Len(l) + 1
      /\ \A j \in 1 .. Len(l) : m[j] = l[j]
  OBVIOUS
<1>3. \A id, n : n \in 0 .. Len(l) => Count(m, id, n) = Count(l, id, n)
  BY CountOfAppend
<1>4. \A id : /\ Count(l, id, Len(l)) <= Count(m, id, Len(m))
              /\ Count(l, id, Len(l)) \in Nat /\ Count(m, id, Len(m)) \in Nat
  <2> TAKE id
  <2>1. Count(m, id, Len(l)) = Count(l, id, Len(l))
    BY <1>2, <1>3
  <2>2. Len(l) <= Len(m) /\ Len(m) \in Nat
    BY <1>2
  <2>3. Count(m, id, Len(l)) <= Count(m, id, Len(m))
    BY <1>2, <2>2, CountGrows
  <2> QED
    BY <1>2, <2>1, <2>2, <2>3, CountType
<1>5. \A id : Count(m, id, last) = Count(l, id, last)
  BY <1>1, <1>3
<1>6. \A k \in DOMAIN rows : rows[k].gen \in Nat
  <2> DEFINE R == [id : IDs, gen : Nat \ {0}]
  <2>1. rows \in Seq(R)
    BY DEF Snapshot, GraphState
  <2>2. \A k \in DOMAIN rows : rows[k] \in R
    <3> HIDE DEF R
    <3> QED
      BY <2>1
  <2> QED
    BY <2>2
<1>7. AreBetween(rows, m, last, ids)
  BY <1>1, <1>4, <1>5, <1>6 DEF AreBetween
<1>8. snap.clean => AreTables(rows, m, last, ids)
  BY <1>1, <1>5 DEF AreTables
<1>9. /\ last \in 0 .. Len(m)
      /\ snap.clean => \A j \in 1 .. last : TextUpTo(m[j].time, snap.at)
  BY <1>1, <1>2
<1> QED
  BY <1>7, <1>8, <1>9 DEF Covers

LEMMA MutateCovers ==
    ASSUME SnapshotsCover, NEW id \in IDs, Mutate(id)
    PROVE  SnapshotsCover'
<1> DEFINE e == [id |-> id, gen |-> Cardinality(Entries(log, id)) + 1, time |-> clock]
<1>1. SnapshotTypeOK /\ LogInOrder
      /\ creating \in [Snapshotters -> InProgress \cup {NoSnapshot}]
  BY DEF SnapshotsCover
<1>2. log \in Seq(Entry) /\ Len(log) \in Nat /\ clock \in Time
      /\ \A i \in 1 .. Len(log) : log[i] \in Entry
  BY <1>1 DEF SnapshotTypeOK
<1>3. Cardinality(Entries(log, id)) = Count(log, id, Len(log))
      /\ Count(log, id, Len(log)) \in Nat
  BY <1>2, CountAll, CountType
<1>5. e \in Entry /\ e.id = id /\ e.gen = Count(log, id, Len(log)) + 1
  BY <1>2, <1>3 DEF Entry
<1>6. log' = Append(log, e) /\ UNCHANGED <<clock, snapshots, creating>>
  BY DEF Mutate
<1> HIDE DEF e
<1>7. /\ log' \in Seq(Entry) /\ Len(log') = Len(log) + 1 /\ DOMAIN log' = 1 .. Len(log) + 1
      /\ \A i \in 1 .. Len(log) : log'[i] = log[i]
      /\ log'[Len(log) + 1] = e
  BY <1>2, <1>5, <1>6
<1>8. SnapshotTypeOK'
  BY <1>1, <1>6, <1>7 DEF SnapshotTypeOK
<1>9. LogInOrder'
  <2>1. ASSUME NEW i \in 1 .. Len(log) PROVE log'[i].gen = Count(log', log'[i].id, i)
    <3>1. log[i].gen = Count(log, log[i].id, i)
      BY <1>1, <1>2 DEF LogInOrder
    <3>2. Count(Append(log, e), log[i].id, i) = Count(log, log[i].id, i)
      BY <1>2, <1>5, CountOfAppend
    <3> QED
      BY <1>6, <1>7, <3>1, <3>2
  <2>2. e.gen = Count(log', e.id, Len(log) + 1)
    <3>1. Count(Append(log, e), id, Len(log)) = Count(log, id, Len(log))
      BY <1>2, <1>5, CountOfAppend
    <3> PICK m : m = Append(log, e)
      OBVIOUS
    <3>2. m[Len(log) + 1].id = id
      BY <1>5, <1>6, <1>7
    <3>3. Count(m, id, Len(log) + 1) = Count(m, id, Len(log)) + 1
      BY <1>2, <3>2, CountNext
    <3> QED
      BY <1>5, <1>6, <3>1, <3>3
  <2>3. \A i \in DOMAIN log' : log'[i].gen = Count(log', log'[i].id, i)
    BY <1>2, <1>7, <2>1, <2>2
  <2> QED
    BY <2>3 DEF LogInOrder
<1>10. \A s \in snapshots' : Covers(s, log', IDs)
  BY <1>1, <1>2, <1>5, <1>6, CommitKeepsCovers DEF SnapshotsCover, SnapshotTypeOK
<1>11. ASSUME NEW s \in Snapshotters, creating'[s] # NoSnapshot
       PROVE  Covers(creating'[s].snap, log', ReadBefore(creating'[s].step))
  <2>1. creating'[s] = creating[s] /\ creating[s].snap \in Snapshot
    BY <1>1, <1>6, <1>11 DEF SnapshotTypeOK
  <2> PICK snap : snap = creating[s].snap
    OBVIOUS
  <2> PICK ids : ids = ReadBefore(creating[s].step)
    OBVIOUS
  <2>2. Covers(snap, log, ids)
    BY <1>11, <2>1 DEF SnapshotsCover
  <2>3. Covers(snap, Append(log, e), ids)
    BY <1>2, <1>5, <2>1, <2>2, CommitKeepsCovers
  <2> QED
    BY <1>6, <2>1, <2>3
<1> QED
  BY <1>1, <1>6, <1>8, <1>9, <1>10, <1>11 DEF SnapshotsCover

LEMMA TickCovers == ASSUME SnapshotsCover, Tick PROVE SnapshotsCover'
<1>1. SnapshotTypeOK /\ LogInOrder
  BY DEF SnapshotsCover
<1>2. clock' \in Time /\ UNCHANGED <<log, snapshots, creating>>
  BY <1>1, SnapshotAssumption DEF Tick, SnapshotTypeOK, Time
<1>3. SnapshotTypeOK'
  BY <1>1, <1>2 DEF SnapshotTypeOK
<1>4. LogInOrder'
  BY <1>1, <1>2 DEF LogInOrder
<1> QED
  BY <1>2, <1>3, <1>4 DEF SnapshotsCover

\* FindPosition begins a snapshot that covers no table yet.
LEMMA FindPositionCovers ==
    ASSUME SnapshotsCover, NEW s \in Snapshotters, NEW at \in Time,
           FindPosition(s, at)
    PROVE  SnapshotsCover'
<1> PICK snap : snap = [at |-> at, last |-> Position(at), rows |-> << >>,
                        clean |-> UpToAt(at) = DOMAIN log]
  OBVIOUS
<1> DEFINE p == [step |-> "entities", snap |-> snap]
<1>1. SnapshotTypeOK /\ LogInOrder
      /\ creating \in [Snapshotters -> InProgress \cup {NoSnapshot}]
  BY DEF SnapshotsCover
<1>2. Position(at) \in 0 .. Len(log) /\ Len(log) \in Nat
  BY <1>1, PositionType
<1>3. /\ snap.last = Position(at) /\ snap.at = at /\ snap.rows = << >>
      /\ snap.clean = (UpToAt(at) = DOMAIN log)
  OBVIOUS
<1>4. snap \in Snapshot
  BY <1>2, NothingCovers DEF Snapshot
<1>5. Covers(snap, log, {})
  <2>1. snap.clean => \A j \in 1 .. snap.last : TextUpTo(log[j].time, snap.at)
    <3>1. DOMAIN log = 1 .. Len(log)
      BY <1>1 DEF SnapshotTypeOK
    <3>2. SUFFICES ASSUME snap.clean, NEW j \in 1 .. snap.last
                   PROVE  TextUpTo(log[j].time, snap.at)
      OBVIOUS
    <3>3. UpToAt(at) = DOMAIN log
      BY <1>3, <3>2
    <3>4. j \in UpToAt(at)
      BY <1>2, <1>3, <3>1, <3>3
    <3> QED
      BY <1>3, <3>4 DEF UpToAt
  <2> QED
    BY <1>2, <1>3, <2>1 DEF Covers, AreBetween, AreTables
<1>6. creating' = [creating EXCEPT ![s] = p] /\ UNCHANGED <<log, clock, snapshots>>
  BY DEF FindPosition
<1>7. p \in InProgress /\ p.step = "entities" /\ p.snap = snap
  BY <1>4 DEF InProgress
<1> HIDE DEF p
<1>8. /\ creating' \in [Snapshotters -> InProgress \cup {NoSnapshot}]
      /\ creating'[s] = p /\ \A r \in Snapshotters \ {s} : creating'[r] = creating[r]
  BY <1>1, <1>6, <1>7
<1>9. SnapshotTypeOK'
  <2>1. \A r \in Snapshotters : creating'[r] # NoSnapshot => creating'[r] \in InProgress
    BY <1>8
  <2> QED
    BY <1>1, <1>6, <2>1 DEF SnapshotTypeOK, InProgress
<1>10. LogInOrder'
  BY <1>1, <1>6 DEF LogInOrder
<1>11. ASSUME NEW r \in Snapshotters, creating'[r] # NoSnapshot
       PROVE  Covers(creating'[r].snap, log', ReadBefore(creating'[r].step))
  <2>1. CASE r = s
    BY <1>5, <1>6, <1>7, <1>8, <2>1 DEF ReadBefore
  <2>2. CASE r # s
    BY <1>6, <1>8, <1>11, <2>2 DEF SnapshotsCover
  <2> QED
    BY <2>1, <2>2
<1> QED
  BY <1>6, <1>8, <1>9, <1>10, <1>11 DEF SnapshotsCover

\* Reading a table adds the rows of its ids; commits since the position show in
\* them, and then the snapshot is not clean.
LEMMA TableCovers ==
    ASSUME NEW l \in Seq(Entry), NEW snap \in Snapshot, NEW old, NEW ids \in SUBSET IDs,
           old \in SUBSET IDs, old \cap ids = {}, Covers(snap, l, old)
    PROVE  LET rows == snap.rows \o Table(l, ids)
               clean == snap.clean /\ snap.last = Len(l)
           IN  /\ rows \in GraphState
               /\ AreBetween(rows, l, snap.last, old \cup ids)
               /\ clean => AreTables(rows, l, snap.last, old \cup ids)
<1> DEFINE R == [id : IDs, gen : Nat \ {0}]
<1> PICK a : a = snap.rows
  OBVIOUS
<1> PICK b : b = Table(l, ids)
  OBVIOUS
<1> PICK n : n = snap.last
  OBVIOUS
<1> PICK c : c = a \o b
  OBVIOUS
<1>1. b \in GraphState /\ AreTables(b, l, Len(l), ids)
  BY TableIsCurrent
<1>2. a \in Seq(R) /\ b \in Seq(R)
  BY <1>1 DEF Snapshot, GraphState
<1>3. n \in 0 .. Len(l) /\ Len(l) \in Nat /\ AreBetween(a, l, n, old)
  BY DEF Covers
<1> HIDE DEF R
<1>4. /\ c \in Seq(R) /\ DOMAIN c = 1 .. Len(a) + Len(b)
      /\ DOMAIN a = 1 .. Len(a) /\ DOMAIN b = 1 .. Len(b) /\ Len(a) \in Nat /\ Len(b) \in Nat
      /\ \A k \in 1 .. Len(a) : c[k] = a[k]
      /\ \A k \in 1 .. Len(a) + Len(b) : k > Len(a) => c[k] = b[k - Len(a)]
      /\ \A k \in 1 .. Len(b) : c[k + Len(a)] = b[k]
  BY <1>2
<1>5. \A k \in DOMAIN b : /\ b[k].id \in ids /\ b[k].gen = Count(l, b[k].id, Len(l))
                          /\ Count(l, b[k].id, n) <= Count(l, b[k].id, Len(l))
                          /\ Count(l, b[k].id, Len(l)) <= Count(l, b[k].id, Len(l))
  <2> TAKE k \in DOMAIN b
  <2> PICK x : x = b[k].id
    OBVIOUS
  <2>1. Count(l, x, n) <= Count(l, x, Len(l)) /\ Count(l, x, Len(l)) \in Nat
    <3>1. n \in Nat /\ n <= Len(l)
      BY <1>3
    <3> QED
      BY <1>3, <3>1, CountGrows, CountType
  <2> QED
    BY <1>1, <2>1 DEF AreTables
<1>6. ASSUME NEW k \in DOMAIN c
      PROVE  (k \in DOMAIN a /\ c[k] = a[k])
             \/ (k > Len(a) /\ k - Len(a) \in DOMAIN b /\ c[k] = b[k - Len(a)])
  BY <1>4
<1>7. ASSUME NEW x \in old \cup ids, Count(l, x, n) > 0
      PROVE  \E k \in DOMAIN c : c[k].id = x
  <2>1. CASE x \in old
    <3>1. PICK k \in DOMAIN a : a[k].id = x
      BY <1>3, <1>7, <2>1 DEF AreBetween
    <3>2. k \in DOMAIN c /\ c[k] = a[k]
      BY <1>4
    <3> QED
      BY <3>1, <3>2
  <2>2. CASE x \in ids
    <3>1. Count(l, x, Len(l)) > 0
      <4>1. n \in Nat /\ n <= Len(l)
        BY <1>3
      <4>2. Count(l, x, n) <= Count(l, x, Len(l))
        BY <1>3, <4>1, CountGrows
      <4>3. Count(l, x, n) \in Nat /\ Count(l, x, Len(l)) \in Nat
        BY <1>3, <4>1, CountType
      <4> QED
        BY <1>7, <4>2, <4>3
    <3>2. PICK k \in DOMAIN b : b[k].id = x
      BY <1>1, <2>2, <3>1 DEF AreTables
    <3>3. k + Len(a) \in DOMAIN c /\ c[k + Len(a)] = b[k]
      BY <1>4
    <3> QED
      BY <3>2, <3>3
  <2> QED
    BY <2>1, <2>2
<1>8. AreBetween(c, l, n, old \cup ids)
  <2>1. \A k \in DOMAIN c : Count(l, c[k].id, n) <= c[k].gen
                            /\ c[k].gen <= Count(l, c[k].id, Len(l))
    BY <1>3, <1>5, <1>6 DEF AreBetween
  <2> QED
    BY <1>7, <2>1 DEF AreBetween
<1>9. ASSUME snap.clean, n = Len(l)
      PROVE  AreTables(c, l, n, old \cup ids)
  <2>1. AreTables(a, l, n, old) /\ AreTables(b, l, n, ids)
    BY <1>1, <1>9 DEF Covers
  <2>2. \A k \in DOMAIN c : c[k].id \in old \cup ids /\ c[k].gen = Count(l, c[k].id, n)
    BY <1>6, <2>1 DEF AreTables
  <2>3. ASSUME NEW i \in DOMAIN c, NEW j \in DOMAIN c, c[i].id = c[j].id
        PROVE  i = j
    <3>1. CASE i \in DOMAIN a /\ c[i] = a[i] /\ j \in DOMAIN a /\ c[j] = a[j]
      BY <2>1, <2>3, <3>1 DEF AreTables
    <3>2. CASE i > Len(a) /\ i - Len(a) \in DOMAIN b /\ c[i] = b[i - Len(a)]
               /\ j > Len(a) /\ j - Len(a) \in DOMAIN b /\ c[j] = b[j - Len(a)]
      <4>1. i - Len(a) = j - Len(a)
        BY <2>1, <2>3, <3>2 DEF AreTables
      <4> QED
        BY <1>4, <4>1
    <3>3. CASE i \in DOMAIN a /\ c[i] = a[i]
               /\ j - Len(a) \in DOMAIN b /\ c[j] = b[j - Len(a)]
      <4>1. c[i].id \in old /\ c[j].id \in ids
        BY <2>1, <3>3 DEF AreTables
      <4> QED
        BY <2>3, <4>1
    <3>4. CASE j \in DOMAIN a /\ c[j] = a[j]
               /\ i - Len(a) \in DOMAIN b /\ c[i] = b[i - Len(a)]
      <4>1. c[j].id \in old /\ c[i].id \in ids
        BY <2>1, <3>4 DEF AreTables
      <4> QED
        BY <2>3, <4>1
    <3> QED
      BY <1>6, <3>1, <3>2, <3>3, <3>4
  <2> QED
    BY <1>7, <2>2, <2>3 DEF AreTables
<1>10. c \in GraphState
  BY <1>4 DEF GraphState, R
<1> QED
  BY <1>8, <1>9, <1>10

LEMMA ReadTableCovers ==
    ASSUME SnapshotsCover, NEW s \in Snapshotters, NEW ids \in SUBSET IDs,
           NEW step \in {"entities", "relationships"},
           NEW next \in {"relationships", "save"},
           ReadBefore(next) = ReadBefore(step) \cup ids,
           ReadBefore(step) \cap ids = {},
           ReadTable(s, step, ids, next)
    PROVE  SnapshotsCover'
<1> PICK p : p = creating[s]
  OBVIOUS
<1> PICK snap : snap = p.snap
  OBVIOUS
<1> DEFINE rows == snap.rows \o Table(log, ids)
           clean == snap.clean /\ snap.last = Len(log)
<1>1. SnapshotTypeOK /\ LogInOrder /\ log \in Seq(Entry)
      /\ creating \in [Snapshotters -> InProgress \cup {NoSnapshot}]
  BY DEF SnapshotsCover, SnapshotTypeOK
<1>2. p # NoSnapshot /\ p.step = step /\ p \in InProgress
  BY <1>1 DEF ReadTable
<1>3. snap \in Snapshot
  BY <1>2 DEF InProgress
<1>4. Covers(snap, log, ReadBefore(step))
  BY <1>2 DEF SnapshotsCover
<1>5. ReadBefore(step) \in SUBSET IDs
  BY DEF ReadBefore, IDs
<1>6. /\ rows \in GraphState
      /\ AreBetween(rows, log, snap.last, ReadBefore(next))
      /\ clean => AreTables(rows, log, snap.last, ReadBefore(next))
  <2> PICK old : old = ReadBefore(step)
    OBVIOUS
  <2>1. old \in SUBSET IDs /\ old \cap ids = {} /\ Covers(snap, log, old)
    BY <1>4, <1>5
  <2>2. /\ rows \in GraphState
        /\ AreBetween(rows, log, snap.last, old \cup ids)
        /\ clean => AreTables(rows, log, snap.last, old \cup ids)
    BY <1>1, <1>3, <2>1, TableCovers
  <2> QED
    BY <2>2
<1> PICK q : q = creating'[s]
  OBVIOUS
<1>7. /\ creating' = [creating EXCEPT ![s].step = next, ![s].snap.rows = rows,
                                      ![s].snap.clean = clean]
      /\ UNCHANGED <<log, clock, snapshots>>
  BY <1>2 DEF ReadTable
<1> HIDE DEF rows, clean
<1>8. /\ creating' \in [Snapshotters -> InProgress \cup {NoSnapshot}]
      /\ \A r \in Snapshotters \ {s} : creating'[r] = creating[r]
      /\ q.step = next /\ q.snap = [at |-> snap.at, last |-> snap.last, rows |-> rows, clean |-> clean]
      /\ q \in InProgress
  <2>1. p = [step |-> step, snap |-> snap]
    BY <1>2 DEF InProgress
  <2>2. snap = [at |-> snap.at, last |-> snap.last, rows |-> snap.rows, clean |-> snap.clean]
    BY <1>3 DEF Snapshot
  <2>3. [p EXCEPT !.step = next, !.snap.rows = rows, !.snap.clean = clean]
        = [step |-> next, snap |-> [at |-> snap.at, last |-> snap.last, rows |-> rows, clean |-> clean]]
    <3> PICK a : a = snap.at
      OBVIOUS
    <3> PICK n : n = snap.last
      OBVIOUS
    <3> PICK w : w = snap.rows
      OBVIOUS
    <3> PICK c : c = snap.clean
      OBVIOUS
    <3> PICK v : v = rows
      OBVIOUS
    <3> PICK d : d = clean
      OBVIOUS
    <3> PICK k : k = [snap EXCEPT !.rows = v]
      OBVIOUS
    <3>1. [p EXCEPT !.step = next, !.snap.rows = v, !.snap.clean = d]
          = [[[p EXCEPT !.step = next] EXCEPT !.snap.rows = v] EXCEPT !.snap.clean = d]
      OBVIOUS
    <3>2. [p EXCEPT !.step = next] = [step |-> next, snap |-> snap]
      BY <2>1, Z3
    <3>3. [[step |-> next, snap |-> snap] EXCEPT !.snap.rows = v] = [step |-> next, snap |-> k]
      OBVIOUS
    <3>4. [[step |-> next, snap |-> k] EXCEPT !.snap.clean = d]
          = [step |-> next, snap |-> [k EXCEPT !.clean = d]]
      OBVIOUS
    <3>5. snap = [at |-> a, last |-> n, rows |-> w, clean |-> c]
      BY <2>2
    <3>6. [[at |-> a, last |-> n, rows |-> w, clean |-> c] EXCEPT !.rows = v]
          = [at |-> a, last |-> n, rows |-> v, clean |-> c]
      OBVIOUS
    <3>7. [[at |-> a, last |-> n, rows |-> v, clean |-> c] EXCEPT !.clean = d]
          = [at |-> a, last |-> n, rows |-> v, clean |-> d]
      OBVIOUS
    <3>8. [k EXCEPT !.clean = d] = [at |-> a, last |-> n, rows |-> v, clean |-> d]
      <4>1. k = [at |-> a, last |-> n, rows |-> v, clean |-> c]
        BY <3>5, <3>6
      <4> QED
        BY <3>7, <4>1
    <3>9. [[p EXCEPT !.step = next] EXCEPT !.snap.rows = v] = [step |-> next, snap |-> k]
      BY <3>2, <3>3
    <3>10. [p EXCEPT !.step = next, !.snap.rows = v, !.snap.clean = d]
           = [step |-> next, snap |-> [at |-> a, last |-> n, rows |-> v, clean |-> d]]
      BY <3>1, <3>4, <3>8, <3>9
    <3> QED
      BY <3>10
  <2>4. creating' = [creating EXCEPT ![s] = [p EXCEPT !.step = next, !.snap.rows = rows,
                                                      !.snap.clean = clean]]
    BY <1>7
  <2>5. q = [step |-> next, snap |-> [at |-> snap.at, last |-> snap.last, rows |-> rows, clean |-> clean]]
    BY <1>1, <2>3, <2>4
  <2>6. clean \in BOOLEAN
    BY <1>3 DEF Snapshot, clean
  <2>7. q \in InProgress
    BY <1>3, <1>6, <2>5, <2>6 DEF InProgress, Snapshot
  <2> QED
    BY <1>1, <2>3, <2>4, <2>5, <2>7
<1>9. q.snap.at = snap.at /\ q.snap.last = snap.last /\ q.snap.rows = rows
      /\ q.snap.clean = clean
  BY <1>8
<1>10. Covers(q.snap, log, ReadBefore(next))
  BY <1>4, <1>6, <1>9 DEF Covers, clean
<1>11. SnapshotTypeOK'
  <2>1. \A r \in Snapshotters : creating'[r] # NoSnapshot => creating'[r] \in InProgress
    BY <1>8
  <2> QED
    BY <1>1, <1>7, <2>1 DEF SnapshotTypeOK, InProgress
<1>12. LogInOrder'
  BY <1>1, <1>7 DEF LogInOrder
<1>13. ASSUME NEW r \in Snapshotters, creating'[r] # NoSnapshot
       PROVE  Covers(creating'[r].snap, log', ReadBefore(creating'[r].step))
  <2>1. CASE r = s
    BY <1>7, <1>8, <1>10, <2>1
  <2>2. CASE r # s
    BY <1>7, <1>8, <1>13, <2>2 DEF SnapshotsCover
  <2> QED
    BY <2>1, <2>2
<1> QED
  BY <1>7, <1>8, <1>11, <1>12, <1>13 DEF SnapshotsCover

LEMMA SaveCovers ==
    ASSUME SnapshotsCover, NEW s \in Snapshotters, Save(s)
    PROVE  SnapshotsCover'
<1> PICK snap : snap = creating[s].snap
  OBVIOUS
<1>1. SnapshotTypeOK /\ LogInOrder
      /\ creating \in [Snapshotters -> InProgress \cup {NoSnapshot}]
  BY DEF SnapshotsCover
<1>2. /\ creating[s] # NoSnapshot /\ creating[s].step = "save" /\ snap \in Snapshot
      /\ snapshots' = snapshots \cup {snap}
      /\ creating' = [creating EXCEPT ![s] = NoSnapshot] /\ UNCHANGED <<log, clock>>
  BY <1>1 DEF Save, SnapshotTypeOK
<1>3. Covers(snap, log, IDs)
  BY <1>2 DEF SnapshotsCover, ReadBefore
<1>4. /\ creating' \in [Snapshotters -> InProgress \cup {NoSnapshot}]
      /\ creating'[s] = NoSnapshot /\ \A r \in Snapshotters \ {s} : creating'[r] = creating[r]
  BY <1>1, <1>2
<1>5. SnapshotTypeOK'
  BY <1>1, <1>2, <1>4 DEF SnapshotTypeOK
<1>6. LogInOrder'
  BY <1>1, <1>2 DEF LogInOrder
<1>7. \A t \in snapshots' : Covers(t, log', IDs)
  BY <1>2, <1>3 DEF SnapshotsCover
<1>8. \A r \in Snapshotters : creating'[r] # NoSnapshot =>
          Covers(creating'[r].snap, log', ReadBefore(creating'[r].step))
  BY <1>2, <1>4 DEF SnapshotsCover
<1> QED
  BY <1>4, <1>5, <1>6, <1>7, <1>8 DEF SnapshotsCover

\* Snapshots that are given up: Abandon and RestartStorage.
LEMMA ForgettingCovers ==
    ASSUME SnapshotsCover, UNCHANGED <<log, clock, snapshots>>,
           creating' \in [Snapshotters -> InProgress \cup {NoSnapshot}],
           \A s \in Snapshotters : creating'[s] \in {creating[s], NoSnapshot}
    PROVE  SnapshotsCover'
<1>1. SnapshotTypeOK'
  BY DEF SnapshotsCover, SnapshotTypeOK
<1>2. LogInOrder'
  BY DEF SnapshotsCover, LogInOrder
<1>3. \A r \in Snapshotters : creating'[r] # NoSnapshot =>
          Covers(creating'[r].snap, log', ReadBefore(creating'[r].step))
  BY DEF SnapshotsCover
<1> QED
  BY <1>1, <1>2, <1>3 DEF SnapshotsCover

LEMMA NextCovers == SnapshotsCover /\ [SnapshotNext]_snapshotVars => SnapshotsCover'
<1> SUFFICES ASSUME SnapshotsCover, [SnapshotNext]_snapshotVars PROVE SnapshotsCover'
  OBVIOUS
<1>0. creating \in [Snapshotters -> InProgress \cup {NoSnapshot}]
  BY DEF SnapshotsCover
<1>1. ASSUME NEW id \in IDs, Mutate(id) PROVE SnapshotsCover'
  BY <1>1, MutateCovers
<1>2. CASE Tick
  BY <1>2, TickCovers
<1>3. CASE RestartStorage
  BY <1>3, ForgettingCovers DEF RestartStorage
<1>4. ASSUME NEW s \in Snapshotters, NEW at \in Time, FindPosition(s, at)
      PROVE  SnapshotsCover'
  BY <1>4, FindPositionCovers
<1>5. ASSUME NEW s \in Snapshotters, ReadEntities(s) PROVE SnapshotsCover'
  <2>1. /\ EntityIDs \in SUBSET IDs
        /\ ReadBefore("relationships") = ReadBefore("entities") \cup EntityIDs
        /\ ReadBefore("entities") \cap EntityIDs = {}
    BY DEF ReadBefore, IDs
  <2> QED
    BY <1>5, <2>1, ReadTableCovers DEF ReadEntities
<1>6. ASSUME NEW s \in Snapshotters, ReadRelationships(s) PROVE SnapshotsCover'
  <2>1. /\ RelationshipIDs \in SUBSET IDs
        /\ ReadBefore("save") = ReadBefore("relationships") \cup RelationshipIDs
        /\ ReadBefore("relationships") \cap RelationshipIDs = {}
    BY SnapshotAssumption DEF ReadBefore, IDs
  <2> QED
    BY <1>6, <2>1, ReadTableCovers DEF ReadRelationships
<1>7. ASSUME NEW s \in Snapshotters, Save(s) PROVE SnapshotsCover'
  BY <1>7, SaveCovers
<1>8. ASSUME NEW s \in Snapshotters, Abandon(s) PROVE SnapshotsCover'
  <2>1. /\ UNCHANGED <<log, clock, snapshots>>
        /\ creating' = [creating EXCEPT ![s] = NoSnapshot]
    BY <1>8 DEF Abandon
  <2>2. /\ creating' \in [Snapshotters -> InProgress \cup {NoSnapshot}]
        /\ \A r \in Snapshotters : creating'[r] \in {creating[r], NoSnapshot}
    BY <1>0, <2>1
  <2> QED
    BY <2>1, <2>2, ForgettingCovers
<1>9. CASE UNCHANGED snapshotVars
  <2>1. UNCHANGED <<log, clock, snapshots>> /\ creating' = creating
    BY <1>9 DEF snapshotVars
  <2> QED
    BY <1>0, <2>1, ForgettingCovers
<1> QED
  BY <1>1, <1>2, <1>3, <1>4, <1>5, <1>6, <1>7, <1>8, <1>9 DEF SnapshotNext

-----------------------------------------------------------------------------
\* At every moment each snapshot, saved or in progress, has every id of the log
\* up to its position, in rows that are not older than it, and one with which
\* no commit interfered is the tables at its position, after entries that are,
\* as text, dated up to it.
THEOREM SnapshotsCoverAlways == SnapshotSpec => []SnapshotsCover
<1>1. SnapshotInit => SnapshotsCover
  BY InitCovers
<1>2. SnapshotsCover /\ [SnapshotNext]_snapshotVars => SnapshotsCover'
  BY NextCovers
<1> QED
  BY <1>1, <1>2, PTL DEF SnapshotSpec

\* The log, the snapshots and what CreateSnapshot has read keep their types.
THEOREM SnapshotTypeCorrect == SnapshotSpec => []SnapshotTypeOK
<1>1. SnapshotsCover => SnapshotTypeOK
  BY DEF SnapshotsCover
<1> QED
  BY <1>1, SnapshotsCoverAlways, PTL

\* RestoreGraph at a time after the whole log has, first of each id, its
\* current row, from any snapshot and whatever commits ran while it was taken.
THEOREM RestoredIsCurrentHolds == SnapshotSpec => []RestoredIsCurrent
<1>1. SnapshotsCover => RestoredIsCurrent
  BY CoverGivesCurrent
<1> QED
  BY <1>1, SnapshotsCoverAlways, PTL

\* A snapshot that no commit interfered with, and that had the whole log up to
\* its date as text, restores for every as_of that is, as text, not before it,
\* the rows that the replay of the whole log gives, although the texts of later
\* entries come in any order.
THEOREM CleanSnapshotsExactHold == SnapshotSpec => []CleanSnapshotsExact
<1>1. SnapshotsCover => CleanSnapshotsExact
  BY CoverGivesExact
<1> QED
  BY <1>1, SnapshotsCoverAlways, PTL

===============================================================================
