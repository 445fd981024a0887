--------------------------- MODULE GraphStoreProofs ---------------------------
(***************************************************************************)
(* Theorems of GraphStore for every set of ids, contents, callers and      *)
(* supplied versions, and batches and runs of any length.                  *)
(***************************************************************************)
EXTENDS GraphStore, FiniteSetTheorems, TLAPS

\* Versions of an id's entries grow along l.
Grows(l) ==
    \A i, j \in DOMAIN l :
        i < j /\ l[i].id = l[j].id => l[i].after.version < l[j].after.version

\* A supplied version is the version of the row that was overwritten.
Checked(l) ==
    \A i \in DOMAIN l :
        l[i].version # 0 /\ l[i].before # NoRow =>
            l[i].before.version = l[i].version

\* The endpoints of a stored relationship are stored.
Closed(g) ==
    \A r \in RelIDs : g[r] # NoRow =>
        g[g[r].from] # NoRow /\ g[g[r].to] # NoRow

\* When a relationship was written, entries of its endpoints were there.
Rooted(l) ==
    \A i \in DOMAIN l : l[i].id \in RelIDs =>
        \A e \in {l[i].after.from, l[i].after.to} :
            \E j \in 1 .. i - 1 : l[j].id = e

\* What one write must keep of the rows g and the log l it sees.
Good(g, l) ==
    /\ Projects(g, l)
    /\ Chained(l)
    /\ Grows(l)
    /\ Checked(l)
    /\ Closed(g)
    /\ Rooted(l)

\* The open transaction sees the committed log followed by its own entries.
TxExtends ==
    /\ DOMAIN log \subseteq DOMAIN txLog
    /\ \A i \in DOMAIN log : txLog[i] = log[i]
    /\ DOMAIN log = DOMAIN txLog => txGraph = graph
    /\ \A i \in DOMAIN txLog : i \notin DOMAIN log => txLog[i].txn = txn
    /\ \A i \in DOMAIN log : log[i].txn <= txn
    /\ conn # NoClient => \A i \in DOMAIN log : log[i].txn < txn

IInv ==
    /\ TypeOK
    /\ Good(graph, log)
    /\ Good(txGraph, txLog)
    /\ TxExtends

-----------------------------------------------------------------------------
\* An entry of a typed log has an id and an after_state of the tables' types, so
\* appendEntityLog and appendRelLog never log anything but a row.
LEMMA EntryAt ==
    ASSUME NEW l \in Seq(Entry), NEW i \in DOMAIN l
    PROVE  /\ l[i] \in Entry
           /\ l[i].txn \in Nat
           /\ l[i].after.version \in Int
<1>1. l[i] \in Entry
  OBVIOUS
<1>2. l[i].after \in Row
  BY <1>1 DEF Entry
<1> QED BY <1>1, <1>2 DEF Entry, Row, EntRow, RelRow

\* How the domains of two logs, one a prefix of the other, determine their
\* lengths: deltalog only ever appends.
LEMMA DomainsGiveLengths ==
    ASSUME NEW k \in Seq(Entry), NEW l \in Seq(Entry), DOMAIN k \subseteq DOMAIN l
    PROVE  /\ Len(k) <= Len(l)
           /\ Len(k) = Len(l) => DOMAIN k = DOMAIN l
           /\ Len(k) # Len(l) => Len(l) > Len(k)
           /\ \A i \in DOMAIN l : i > Len(k) <=> i \notin DOMAIN k
<1>1. /\ Len(k) \in Nat /\ DOMAIN k = 1 .. Len(k)
      /\ Len(l) \in Nat /\ DOMAIN l = 1 .. Len(l)
  OBVIOUS
<1>2. ASSUME NEW m \in Nat, NEW n \in Nat, 1 .. m \subseteq 1 .. n
      PROVE  /\ m <= n
             /\ m # n => n > m
             /\ \A i \in 1 .. n : i > m <=> i \notin 1 .. m
  <2>1. m = 0 \/ m \in 1 .. m
    OBVIOUS
  <2>2. m <= n
    BY <1>2, <2>1
  <2> QED BY <2>2
<1>3. 1 .. Len(k) \subseteq 1 .. Len(l)
  BY <1>1
<1> QED BY <1>1, <1>2, <1>3

NewEntry(t, id, old, row, v) ==
    [txn |-> t, id |-> id, before |-> old, after |-> row, version |-> v]

\* A write of a row with a higher version than the row it replaces keeps Good:
\* the log helpers of ApplyBatch append exactly such entries.
LEMMA WriteIsGood ==
    ASSUME NEW g, NEW l, IsGraph(g), l \in Seq(Entry), Good(g, l),
           NEW id \in IDs, NEW row \in Row, NEW t \in Nat, NEW v \in Int,
           id \in RelIDs => row \in RelRow,
           g[id] # NoRow => g[id].version < row.version,
           v # 0 /\ g[id] # NoRow => g[id].version = v,
           id \in RelIDs => g[row.from] # NoRow /\ g[row.to] # NoRow
    PROVE  Good([g EXCEPT ![id] = row], Append(l, NewEntry(t, id, g[id], row, v)))
<1> DEFINE e == NewEntry(t, id, g[id], row, v)
           h == [g EXCEPT ![id] = row]
           k == Append(l, e)
           n == Len(l)
<1>1. /\ n \in Nat
      /\ DOMAIN l = 1 .. n
      /\ DOMAIN k = 1 .. n + 1
      /\ \A i \in 1 .. n : k[i] = l[i]
      /\ k[n + 1] = e
  OBVIOUS
<1>2. /\ e.id = id
      /\ e.before = g[id]
      /\ e.after = row
      /\ e.version = v
  BY DEF NewEntry
<1>3. /\ h[id] = row
      /\ \A x \in IDs : x # id => h[x] = g[x]
      /\ row # NoRow
  BY RowsAssumption DEF IsGraph
<1> HIDE DEF e, h, k, n
<1>4. Projects(h, k)
  <2> SUFFICES ASSUME NEW x \in IDs
               PROVE \/ /\ h[x] = NoRow
                        /\ \A i \in DOMAIN k : k[i].id # x
                     \/ \E i \in DOMAIN k :
                           /\ k[i].id = x
                           /\ k[i].after = h[x]
                           /\ \A j \in DOMAIN k : k[j].id = x => j <= i
    BY DEF Projects
  <2>1. CASE x = id
    BY <2>1, <1>1, <1>2, <1>3
  <2>2. CASE x # id /\ g[x] = NoRow /\ \A i \in DOMAIN l : l[i].id # x
    BY <2>2, <1>1, <1>2, <1>3
  <2>3. CASE x # id /\ \E i \in DOMAIN l :
                          /\ l[i].id = x
                          /\ l[i].after = g[x]
                          /\ \A j \in DOMAIN l : l[j].id = x => j <= i
    <3> PICK i \in DOMAIN l : /\ l[i].id = x
                              /\ l[i].after = g[x]
                              /\ \A j \in DOMAIN l : l[j].id = x => j <= i
      BY <2>3
    <3>1. /\ i \in DOMAIN k
          /\ k[i].id = x
          /\ k[i].after = h[x]
          /\ \A j \in DOMAIN k : k[j].id = x => j <= i
      BY <2>3, <1>1, <1>2, <1>3
    <3> QED BY <3>1
  <2> QED BY <2>1, <2>2, <2>3 DEF Good, Projects
<1>5. Chained(k)
  <2>1. ASSUME NEW i \in 1 .. n PROVE Follows(k, i)
    <3>1. Follows(l, i) BY <1>1 DEF Good, Chained
    <3>2. \A j \in 1 .. i : j \in 1 .. n /\ k[j] = l[j] BY <1>1
    <3> QED BY <3>1, <3>2, <1>1 DEF Follows
  <2>2. Follows(k, n + 1)
    <3>1. CASE g[id] = NoRow
      BY <3>1, <1>1, <1>2, <1>4 DEF Follows, Good, Projects
    <3>2. CASE g[id] # NoRow
      <4> PICK i \in DOMAIN l : /\ l[i].id = id
                                /\ l[i].after = g[id]
                                /\ \A j \in DOMAIN l : l[j].id = id => j <= i
        BY <3>2 DEF Good, Projects
      <4>1. /\ i \in 1 .. (n + 1) - 1
            /\ k[i].id = k[n + 1].id
            /\ k[i].after = k[n + 1].before
            /\ \A j \in 1 .. (n + 1) - 1 : k[j].id = k[n + 1].id => j <= i
        BY <1>1, <1>2
      <4> QED BY <4>1 DEF Follows
    <3> QED BY <3>1, <3>2
  <2> QED BY <1>1, <2>1, <2>2 DEF Chained
<1>6. Grows(k)
  <2> SUFFICES ASSUME NEW i \in DOMAIN k, NEW j \in DOMAIN k,
                      i < j, k[i].id = k[j].id
               PROVE  k[i].after.version < k[j].after.version
    BY DEF Grows
  <2>1. CASE j \in 1 .. n
    BY <2>1, <1>1 DEF Good, Grows
  <2>2. CASE j = n + 1
    <3>1. i \in DOMAIN l /\ l[i].id = id /\ k[i] = l[i]
      BY <2>2, <1>1, <1>2
    <3>2. PICK m \in DOMAIN l : /\ l[m].id = id
                                /\ l[m].after = g[id]
                                /\ \A x \in DOMAIN l : l[x].id = id => x <= m
      BY <3>1 DEF Good, Projects
    <3>3. l[i] \in Entry /\ l[m] \in Entry
      BY <3>1, <3>2
    <3>4. g[id] \in Row /\ g[id] # NoRow
      BY <3>2, <3>3, RowsAssumption DEF Entry
    <3>5. i \in 1 .. n /\ m \in 1 .. n /\ i <= m
      BY <3>1, <3>2, <1>1
    <3>6. l[i].after.version <= g[id].version
      <4>1. /\ l[i].after.version \in Int
            /\ l[m].after.version \in Int
            /\ l[m].after.version = g[id].version
        BY <3>1, <3>2, EntryAt
      <4>2. CASE i < m
        <5>1. l[i].after.version < l[m].after.version
          BY <4>2, <3>1, <3>2 DEF Good, Grows
        <5> QED BY <4>1, <5>1
      <4>3. CASE i = m
        BY <4>1, <4>3
      <4> QED BY <4>2, <4>3, <3>5
    <3>7. /\ l[i].after.version \in Int
          /\ g[id].version \in Int
          /\ row.version \in Int
      BY <3>3, <3>4 DEF Entry, Row, EntRow, RelRow
    <3> QED BY <2>2, <3>1, <3>4, <3>6, <3>7, <1>1, <1>2
  <2> QED BY <1>1, <2>1, <2>2
<1>7. Checked(k)
  BY <1>1, <1>2 DEF Checked, Good
<1>8. Closed(h)
  <2> SUFFICES ASSUME NEW r \in RelIDs, h[r] # NoRow
               PROVE  h[h[r].from] # NoRow /\ h[h[r].to] # NoRow
    BY DEF Closed
  <2>1. \A x \in IDs : g[x] # NoRow => h[x] # NoRow
    BY <1>3
  <2>2. h[r] \in RelRow /\ h[r].from \in IDs /\ h[r].to \in IDs
    BY <1>3 DEF IsGraph, RelRow, IDs
  <2>3. g[h[r].from] # NoRow /\ g[h[r].to] # NoRow
    BY <1>3 DEF Good, Closed, IDs
  <2> QED BY <2>1, <2>2, <2>3
<1>9. Rooted(k)
  <2> SUFFICES ASSUME NEW i \in DOMAIN k, k[i].id \in RelIDs,
                      NEW x \in {k[i].after.from, k[i].after.to}
               PROVE  \E j \in 1 .. i - 1 : k[j].id = x
    BY DEF Rooted
  <2>1. CASE i \in 1 .. n
    <3>1. PICK j \in 1 .. i - 1 : l[j].id = x
      BY <2>1, <1>1 DEF Good, Rooted
    <3> QED BY <2>1, <3>1, <1>1
  <2>2. CASE i = n + 1
    <3>1. x \in IDs /\ g[x] # NoRow
      BY <2>2, <1>1, <1>2 DEF RelRow, IDs
    <3>2. PICK j \in DOMAIN l : l[j].id = x
      BY <3>1 DEF Good, Projects
    <3> QED BY <2>2, <3>2, <1>1
  <2> QED BY <1>1, <2>1, <2>2
<1> QED BY <1>4, <1>5, <1>6, <1>7, <1>8, <1>9 DEF Good, e, h, k

-----------------------------------------------------------------------------
\* The rows the handlers write are rows, with a version that grew.

\* upsertEntity, when it does not fail, writes an entity row; an update's version
\* is above the one it replaces, which is the supplied one if one was supplied.
LEMMA UpsertEntityRows ==
    ASSUME NEW g, IsGraph(g), NEW m \in EntityUpserts, ~UpsertEntityFails(g, m)
    PROVE  LET row == EntityUpsertRow(g, m)
           IN  /\ m.id \in IDs
               /\ m.version \in Int
               /\ row \in EntRow
               /\ g[m.id] # NoRow => g[m.id].version < row.version
               /\ m.version # 0 /\ g[m.id] # NoRow => g[m.id].version = m.version
<1>1. /\ m.id \in EntIDs
      /\ m.version \in Int
      /\ m.data \in Data
  BY RowsAssumption DEF EntityUpserts, UpsertEntityFails
<1>2. g[m.id] # NoRow => g[m.id].version \in Int
  BY <1>1 DEF IsGraph, EntRow
<1>3. NextVersion(g, m) \in Int
  BY <1>1, <1>2 DEF NextVersion
<1> QED
  BY <1>1, <1>2, <1>3
  DEF EntityUpsertRow, NextVersion, EntRow, IDs, UpsertEntityFails, VersionConflict

\* upsertRelationship, when it does not fail, writes a relationship row with a
\* grown version and two endpoints that the transaction's tables hold.
LEMMA UpsertRelationshipRows ==
    ASSUME NEW g, IsGraph(g), NEW m \in RelationshipUpserts,
           ~UpsertRelationshipFails(g, m)
    PROVE  LET row == RelationshipUpsertRow(g, m)
           IN  /\ m.id \in IDs
               /\ m.version \in Int
               /\ row \in RelRow
               /\ g[m.id] # NoRow => g[m.id].version < row.version
               /\ m.version # 0 /\ g[m.id] # NoRow => g[m.id].version = m.version
               /\ g[row.from] # NoRow /\ g[row.to] # NoRow
<1>1. /\ m.id \in RelIDs
      /\ m.version \in Int
      /\ m.data \in Data
      /\ m.from \in EntIDs
      /\ m.to \in EntIDs
  BY RowsAssumption DEF RelationshipUpserts, UpsertRelationshipFails
<1>2. g[m.id] # NoRow => g[m.id].version \in Int
  BY <1>1 DEF IsGraph, RelRow
<1>3. NextVersion(g, m) \in Int
  BY <1>1, <1>2 DEF NextVersion
<1> QED
  BY <1>1, <1>2, <1>3
  DEF RelationshipUpsertRow, NextVersion, RelRow, IDs, UpsertRelationshipFails,
      VersionConflict, UnknownEndpoint

\* softDeleteEntity and deleteRelationship write the row they read with the next
\* version, and leave its endpoints alone.
LEMMA DeletedRows ==
    ASSUME NEW g, IsGraph(g), NEW id \in IDs, g[id] # NoRow
    PROVE  /\ id \in EntIDs => DeletedRow(g, id) \in EntRow
           /\ id \in RelIDs => DeletedRow(g, id) \in RelRow
           /\ g[id].version < DeletedRow(g, id).version
           /\ id \in RelIDs => /\ DeletedRow(g, id).from = g[id].from
                               /\ DeletedRow(g, id).to = g[id].to
<1> DEFINE up(x) == [x EXCEPT !.version = x.version + 1]
           off(x) == [x EXCEPT !.active = FALSE]
<1>1. ASSUME NEW x \in EntRow PROVE up(x) \in EntRow
  BY DEF EntRow
<1>2. ASSUME NEW x \in EntRow PROVE off(x) \in EntRow
  BY DEF EntRow
<1>3. ASSUME NEW x \in RelRow PROVE up(x) \in RelRow
  BY DEF RelRow
<1>4. ASSUME NEW x \in RelRow PROVE off(x) \in RelRow
  BY DEF RelRow
<1>5. \A x \in EntRow : x.version < off(up(x)).version
  BY DEF EntRow
<1>6. \A x \in RelRow : /\ x.version < off(up(x)).version
                        /\ off(up(x)).from = x.from
                        /\ off(up(x)).to = x.to
  BY DEF RelRow
<1>7. DeletedRow(g, id) = off(up(g[id]))
  BY DEF DeletedRow
<1> HIDE DEF up, off
<1>8. /\ id \in EntIDs => g[id] \in EntRow
      /\ id \in RelIDs => g[id] \in RelRow
      /\ id \in EntIDs \/ id \in RelIDs
      /\ ~(id \in EntIDs /\ id \in RelIDs)
  BY RowsAssumption DEF IsGraph, IDs
<1> QED BY <1>1, <1>2, <1>3, <1>4, <1>5, <1>6, <1>7, <1>8

\* Writing a typed row and its entry keeps the transaction's tables and log typed.
LEMMA WriteIsTyped ==
    ASSUME NEW g, IsGraph(g), NEW id \in IDs, NEW row,
           id \in EntIDs => row \in EntRow, id \in RelIDs => row \in RelRow,
           NEW l \in Seq(Entry), NEW t \in Nat, NEW v \in Int
    PROVE  /\ IsGraph([g EXCEPT ![id] = row])
           /\ Append(l, NewEntry(t, id, g[id], row, v)) \in Seq(Entry)
<1>1. row \in Row
  BY DEF IDs, Row
<1>2. IsGraph([g EXCEPT ![id] = row])
  BY <1>1 DEF IsGraph, IDs
<1>3. NewEntry(t, id, g[id], row, v) \in Entry
  BY <1>1 DEF NewEntry, Entry, IsGraph
<1> QED BY <1>2, <1>3

-----------------------------------------------------------------------------
\* Each handler's step, seen from the open transaction: either the batch fails,
\* or nothing is written, or one good entry is.
TxStep(c) ==
    /\ conn = c
    /\ \/ \E s \in {"SUCCESS", "FAILED"} : FailBatch(c, s)
       \/ /\ applied' = applied + 1
          /\ UNCHANGED <<graph, log, conn, txn, result>>
          /\ \/ UNCHANGED <<txGraph, txLog>>
             \/ \E id \in IDs, row \in Row, v \in Int :
                   /\ id \in EntIDs => row \in EntRow
                   /\ id \in RelIDs => row \in RelRow
                   /\ txGraph[id] # NoRow => txGraph[id].version < row.version
                   /\ v # 0 /\ txGraph[id] # NoRow => txGraph[id].version = v
                   /\ id \in RelIDs => /\ txGraph[row.from] # NoRow
                                       /\ txGraph[row.to] # NoRow
                   /\ Write(id, row, v)

\* Each of the four handlers fails the batch, changes no row, or writes one row
\* with its entry: what a transaction does between BeginTx and its end.
LEMMA HandlerIsTxStep ==
    ASSUME IsGraph(txGraph), Closed(txGraph), NEW c \in Clients,
           \/ UpsertEntity(c)
           \/ UpsertRelationship(c)
           \/ SoftDeleteEntity(c)
           \/ DeleteRelationship(c)
           \/ StatementFails(c)
           \/ CommitFails(c)
    PROVE  TxStep(c)
<1>1. CASE UpsertEntity(c)
  <2> PICK m \in EntityUpserts :
             Apply(c, m.id, UpsertEntityFails(txGraph, m),
                   EntityUpsertRow(txGraph, m), m.version)
    BY <1>1 DEF UpsertEntity
  <2> m.id \in EntIDs /\ m.id \notin RelIDs
    BY RowsAssumption DEF EntityUpserts
  <2>1. CASE UpsertEntityFails(txGraph, m)
    BY <2>1, <1>1 DEF Apply, UpsertEntity, InBatch, TxStep
  <2>2. CASE ~UpsertEntityFails(txGraph, m)
    <3> DEFINE row == EntityUpsertRow(txGraph, m)
    <3>1. /\ m.id \in IDs
          /\ m.version \in Int
          /\ row \in EntRow
          /\ txGraph[m.id] # NoRow => txGraph[m.id].version < row.version
          /\ m.version # 0 /\ txGraph[m.id] # NoRow =>
                txGraph[m.id].version = m.version
      BY <2>2, UpsertEntityRows
    <3>2. row \in Row BY <3>1 DEF Row
    <3> HIDE DEF row
    <3> QED BY <3>1, <3>2, <2>2, <1>1 DEF Apply, UpsertEntity, InBatch, TxStep, row
  <2> QED BY <2>1, <2>2
<1>2. CASE UpsertRelationship(c)
  <2> PICK m \in RelationshipUpserts :
             Apply(c, m.id, UpsertRelationshipFails(txGraph, m),
                   RelationshipUpsertRow(txGraph, m), m.version)
    BY <1>2 DEF UpsertRelationship
  <2> m.id \in RelIDs /\ m.id \notin EntIDs
    BY RowsAssumption DEF RelationshipUpserts
  <2>1. CASE UpsertRelationshipFails(txGraph, m)
    BY <2>1, <1>2 DEF Apply, UpsertRelationship, InBatch, TxStep
  <2>2. CASE ~UpsertRelationshipFails(txGraph, m)
    <3> DEFINE row == RelationshipUpsertRow(txGraph, m)
    <3>1. /\ m.id \in IDs
          /\ m.version \in Int
          /\ row \in RelRow
          /\ txGraph[m.id] # NoRow => txGraph[m.id].version < row.version
          /\ m.version # 0 /\ txGraph[m.id] # NoRow =>
                txGraph[m.id].version = m.version
          /\ txGraph[row.from] # NoRow /\ txGraph[row.to] # NoRow
      BY <2>2, UpsertRelationshipRows
    <3>2. row \in Row BY <3>1 DEF Row
    <3> HIDE DEF row
    <3> QED
      BY <3>1, <3>2, <2>2, <1>2 DEF Apply, UpsertRelationship, InBatch, TxStep, row
  <2> QED BY <2>1, <2>2
<1>3. ASSUME NEW id \in IDs, InBatch(c), Delete(c, id)
      PROVE  TxStep(c)
  <2>1. CASE txGraph[id] = NoRow
    BY <1>3, <2>1 DEF Delete, InBatch, TxStep
  <2>2. CASE txGraph[id] # NoRow
    <3> DEFINE row == DeletedRow(txGraph, id)
    <3>1. /\ id \in EntIDs => row \in EntRow
          /\ id \in RelIDs => row \in RelRow
          /\ txGraph[id].version < row.version
          /\ id \in RelIDs => row.from = txGraph[id].from /\ row.to = txGraph[id].to
      BY <2>2, DeletedRows
    <3>2. row \in Row BY <3>1 DEF Row, IDs
    <3>3. id \in RelIDs => txGraph[row.from] # NoRow /\ txGraph[row.to] # NoRow
      BY <2>2, <3>1 DEF Closed
    <3>4. Apply(c, id, FALSE, row, 0)
      BY <1>3, <2>2 DEF Delete
    <3> HIDE DEF row
    <3> QED BY <3>1, <3>2, <3>3, <3>4, <1>3 DEF Apply, InBatch, TxStep
  <2> QED BY <2>1, <2>2
<1>4. CASE SoftDeleteEntity(c)
  BY <1>3, <1>4 DEF SoftDeleteEntity, IDs
<1>5. CASE DeleteRelationship(c)
  BY <1>3, <1>5 DEF DeleteRelationship, IDs
<1>6. CASE StatementFails(c)
  BY <1>6 DEF StatementFails, InBatch, TxStep
<1>7. CASE CommitFails(c)
  BY <1>7 DEF CommitFails, TxStep
<1> QED BY <1>1, <1>2, <1>4, <1>5, <1>6, <1>7

\* A step of the specification, with the handlers' steps summed up.
LEMMA NextCases ==
    ASSUME TypeOK, Closed(txGraph), [Next]_vars
    PROVE  \/ \E c \in Clients : BeginTx(c) \/ TxStep(c) \/ Commit(c) \/ Reply(c)
           \/ Crash
           \/ UNCHANGED vars
BY HandlerIsTxStep DEF Next, TypeOK

-----------------------------------------------------------------------------
(***************************************************************************)
(* The inductive invariant.  LogIsTruth is not inductive: Commit installs  *)
(* the open transaction's rows and log, so the transaction must be as good *)
(* as the committed state, and must extend it.                             *)
(***************************************************************************)

\* Open leaves empty tables and an empty log, and no transaction: IInv holds.
LEMMA InitIInv == Init => IInv
<1> SUFFICES ASSUME Init PROVE IInv
  OBVIOUS
<1>1. IsGraph(graph) /\ IsGraph(txGraph)
  BY DEF Init, IsGraph, EmptyGraph, IDs
<1>2. TypeOK
  BY <1>1, ClientsAssumption DEF Init, TypeOK
<1>3. Good(graph, log) /\ Good(txGraph, txLog)
  BY DEF Init, Good, Projects, Chained, Grows, Checked, Closed, Rooted, EmptyGraph, IDs
<1>4. TxExtends
  BY DEF Init, TxExtends
<1> QED BY <1>2, <1>3, <1>4 DEF IInv

\* BeginTx starts from the committed rows and log, so the open transaction's
\* copies satisfy what the committed ones do.
LEMMA BeginKeepsIInv ==
    ASSUME IInv, NEW c \in Clients, BeginTx(c) PROVE IInv'
<1> USE DEF IInv, BeginTx
<1>1. TypeOK'
  BY DEF TypeOK, IsGraph
<1>2. Good(graph, log)' /\ Good(txGraph, txLog)'
  OBVIOUS
<1>3. TxExtends'
  <2>1. \A i \in DOMAIN log : log[i].txn \in Nat
    BY EntryAt DEF TypeOK
  <2>2. txn \in Nat /\ \A i \in DOMAIN log : log[i].txn <= txn
    BY DEF TxExtends, TypeOK
  <2>3. \A i \in DOMAIN log : log[i].txn < txn + 1 /\ log[i].txn <= txn + 1
    BY <2>1, <2>2
  <2>4. /\ log' = log /\ txLog' = log /\ graph' = graph /\ txGraph' = graph
        /\ txn' = txn + 1
    OBVIOUS
  <2> QED BY <2>3, <2>4 DEF TxExtends
<1> QED BY <1>1, <1>2, <1>3

\* A rollback (a failed batch, a failed COMMIT, a crash) drops the open
\* transaction's rows and log together.
LEMMA RollbackKeepsIInv ==
    ASSUME IInv, Rollback, result' \in [Clients -> Result \cup {NoResult}]
    PROVE  IInv'
<1> USE DEF IInv, Rollback
<1>1. TypeOK'
  BY DEF TypeOK, IsGraph
<1>2. Good(graph, log)' /\ Good(txGraph, txLog)'
  OBVIOUS
<1>3. TxExtends'
  BY DEF TxExtends, TypeOK
<1> QED BY <1>1, <1>2, <1>3

\* A failed batch answers its client with a typed result.
LEMMA FailBatchResult ==
    ASSUME TypeOK, NEW c \in Clients, NEW s \in {"SUCCESS", "FAILED"}, FailBatch(c, s)
    PROVE  result' \in [Clients -> Result \cup {NoResult}]
<1>1. [txn |-> txn, status |-> s, err |-> TRUE, writes |-> 0] \in Result
  BY DEF TypeOK, Result
<1> QED BY <1>1 DEF TypeOK, FailBatch

\* A handler's step in an open transaction keeps its rows and log in agreement
\* and its log an extension of the committed one.
LEMMA TxStepKeepsIInv ==
    ASSUME IInv, NEW c \in Clients, TxStep(c) PROVE IInv'
<1>1. ASSUME NEW s \in {"SUCCESS", "FAILED"}, FailBatch(c, s)
      PROVE  IInv'
  BY <1>1, FailBatchResult, RollbackKeepsIInv DEF IInv, FailBatch
<1>2. CASE /\ applied' = applied + 1
           /\ UNCHANGED <<graph, log, conn, txn, result, txGraph, txLog>>
  BY <1>2 DEF IInv, TypeOK, TxExtends
<1>3. ASSUME applied' = applied + 1,
             UNCHANGED <<graph, log, conn, txn, result>>,
             NEW id \in IDs, NEW row \in Row, NEW v \in Int,
             id \in EntIDs => row \in EntRow,
             id \in RelIDs => row \in RelRow,
             txGraph[id] # NoRow => txGraph[id].version < row.version,
             v # 0 /\ txGraph[id] # NoRow => txGraph[id].version = v,
             id \in RelIDs => txGraph[row.from] # NoRow /\ txGraph[row.to] # NoRow,
             Write(id, row, v)
      PROVE  IInv'
  <2> DEFINE e == NewEntry(txn, id, txGraph[id], row, v)
  <2>1. /\ txGraph' = [txGraph EXCEPT ![id] = row]
        /\ txLog' = Append(txLog, e)
    BY <1>3 DEF Write, NewEntry
  <2>2. /\ IsGraph(txGraph)
        /\ txLog \in Seq(Entry)
        /\ txn \in Nat
        /\ Good(txGraph, txLog)
    BY DEF IInv, TypeOK
  <2>3. Good(txGraph', txLog')
    BY <1>3, <2>1, <2>2, WriteIsGood
  <2>4. IsGraph(txGraph') /\ txLog' \in Seq(Entry)
    BY <1>3, <2>1, <2>2, WriteIsTyped
  <2>5. TypeOK'
    BY <1>3, <2>4 DEF IInv, TypeOK
  <2>6. Good(graph, log)'
    BY <1>3 DEF IInv
  <2>7. TxExtends'
    <3>1. e.txn = txn
      BY DEF NewEntry
    <3>2. \E n \in Nat : /\ DOMAIN txLog = 1 .. n
                         /\ DOMAIN txLog' = 1 .. n + 1
                         /\ \A i \in 1 .. n : txLog'[i] = txLog[i]
                         /\ txLog'[n + 1] = e
      BY <2>1, <2>2
    <3> HIDE DEF e
    <3>3. PICK n \in Nat : /\ DOMAIN txLog = 1 .. n
                           /\ DOMAIN txLog' = 1 .. n + 1
                           /\ \A i \in 1 .. n : txLog'[i] = txLog[i]
                           /\ txLog'[n + 1] = e
      BY <3>2
    <3>4. TxExtends /\ UNCHANGED <<graph, log, conn, txn>>
      BY <1>3 DEF IInv
    <3>5. DOMAIN log \subseteq 1 .. n /\ n + 1 \notin DOMAIN log
      BY <3>3, <3>4 DEF TxExtends
    <3> QED BY <3>1, <3>3, <3>4, <3>5 DEF TxExtends
  <2> QED BY <2>3, <2>5, <2>6, <2>7 DEF IInv
<1> QED BY <1>1, <1>2, <1>3 DEF TxStep

\* COMMIT makes the transaction's rows and log the committed ones, both at once.
LEMMA CommitKeepsIInv ==
    ASSUME IInv, NEW c \in Clients, Commit(c) PROVE IInv'
<1> USE DEF IInv, Commit
<1>1. TypeOK'
  <2>1. [txn |-> txn, status |-> "SUCCESS", err |-> FALSE,
         writes |-> Len(txLog) - Len(log)] \in Result
    <3>1. Len(log) <= Len(txLog)
      BY DomainsGiveLengths DEF TypeOK, TxExtends
    <3> QED BY <3>1 DEF TypeOK, Result
  <2> QED BY <2>1 DEF TypeOK, IsGraph
<1>2. Good(graph, log)' /\ Good(txGraph, txLog)'
  OBVIOUS
<1>3. TxExtends'
  <2>1. conn # NoClient
    BY ClientsAssumption
  <2>2. \A i \in DOMAIN txLog : txLog[i].txn <= txn
    <3>1. \A i \in DOMAIN log : txLog[i].txn <= txn
      BY DEF TxExtends
    <3>2. \A i \in DOMAIN txLog : i \notin DOMAIN log => txLog[i].txn <= txn
      BY DEF TxExtends, TypeOK
    <3> QED BY <3>1, <3>2
  <2> QED BY <2>2 DEF TxExtends, TypeOK
<1> QED BY <1>1, <1>2, <1>3

\* Every step, of any client or a crash, keeps the inductive invariant.
LEMMA NextKeepsIInv == IInv /\ [Next]_vars => IInv'
<1> SUFFICES ASSUME IInv, [Next]_vars PROVE IInv'
  OBVIOUS
<1>1. ASSUME NEW c \in Clients, Reply(c) PROVE IInv'
  BY <1>1 DEF IInv, Reply, TypeOK, TxExtends, IsGraph
<1>2. CASE Crash
  BY <1>2, RollbackKeepsIInv DEF Crash
<1>3. CASE UNCHANGED vars
  BY <1>3 DEF vars, IInv, TypeOK, TxExtends
<1> QED
  BY <1>1, <1>2, <1>3, NextCases, BeginKeepsIInv, TxStepKeepsIInv, CommitKeepsIInv
  DEF IInv, Good

\* In every reachable state the rows and the log agree, before and inside the
\* open transaction, and the transaction's log extends the committed one.
THEOREM InductiveInvariant == Spec => []IInv
BY InitIInv, NextKeepsIInv, PTL DEF Spec

-----------------------------------------------------------------------------
\* Every value of every variable has its type in every reachable state.
THEOREM TypeCorrect == Spec => []TypeOK
<1>1. IInv => TypeOK BY DEF IInv
<1> QED BY <1>1, InductiveInvariant, PTL

\* deltalog's doc comment: the graph can be rebuilt from the log.
THEOREM LogIsTruthHolds == Spec => []LogIsTruth
<1>1. IInv => LogIsTruth BY DEF IInv, Good, LogIsTruth
<1> QED BY <1>1, InductiveInvariant, PTL

\* The before_state of every entry is the after_state of the previous entry of
\* its id.
THEOREM BeforeIsPreviousAfterHolds == Spec => []BeforeIsPreviousAfter
<1>1. IInv => BeforeIsPreviousAfter BY DEF IInv, Good, BeforeIsPreviousAfter
<1> QED BY <1>1, InductiveInvariant, PTL

\* A version of an id names one state of its row.
THEOREM VersionsGrowHolds == Spec => []VersionsGrow
<1>1. IInv => VersionsGrow BY DEF IInv, Good, Grows, VersionsGrow
<1> QED BY <1>1, InductiveInvariant, PTL

\* A relationship is never in the log before its endpoints.
THEOREM EndpointsFirstHolds == Spec => []EndpointsFirst
<1>1. IInv => EndpointsFirst BY DEF IInv, Good, Rooted, EndpointsFirst
<1> QED BY <1>1, InductiveInvariant, PTL

\* A write that supplied a version replaced the only row that ever had it: the
\* chain of entries gives the row, the growth of versions makes it unique.
THEOREM NoLostUpdateHolds == Spec => []NoLostUpdate
<1>1. ASSUME IInv PROVE NoLostUpdate
  <2> SUFFICES ASSUME NEW i \in DOMAIN log, NEW j \in DOMAIN log,
                      log[i].id = log[j].id,
                      log[i].version # 0,
                      log[i].before # NoRow,
                      log[j].after.version = log[i].version
               PROVE  log[i].before = log[j].after
    BY DEF NoLostUpdate
  <2>1. log \in Seq(Entry)
    BY <1>1 DEF IInv, TypeOK
  <2>2. PICK k \in 1 .. i - 1 : log[k].id = log[i].id /\ log[k].after = log[i].before
    BY <1>1 DEF IInv, Good, Chained, Follows
  <2>3. k \in DOMAIN log
    BY <2>1, <2>2
  <2>4. log[k].after.version = log[j].after.version
    BY <1>1, <2>2 DEF IInv, Good, Checked
  <2>5. log[k].after.version \in Int
    BY <2>1, <2>3, EntryAt
  <2>6. ~(j < k) /\ ~(k < j)
    BY <1>1, <2>2, <2>3, <2>4, <2>5 DEF IInv, Good, Grows
  <2>7. j = k
    BY <2>1, <2>3, <2>6
  <2> QED BY <2>2, <2>7
<1> QED BY <1>1, InductiveInvariant, PTL

-----------------------------------------------------------------------------
\* The entries of transaction t.
Entries(t) == {i \in DOMAIN log : log[i].txn = t}

\* AllOrNothing, and that no answer is of the open transaction or a later one.
Counted ==
    /\ AllOrNothing
    /\ \A c \in Clients : result[c] # NoResult =>
          result[c].txn <= txn /\ (conn # NoClient => result[c].txn < txn)

\* An open transaction has nothing in the committed log.
LEMMA OpenIsEmpty == ASSUME IInv, conn # NoClient PROVE Cardinality(Entries(txn)) = 0
<1>1. ASSUME NEW i \in DOMAIN log PROVE log[i].txn # txn
  <2>1. log[i].txn < txn /\ log[i].txn \in Nat /\ txn \in Nat
    BY EntryAt DEF IInv, TxExtends, TypeOK
  <2> QED BY <2>1
<1>2. Entries(txn) = {}
  BY <1>1 DEF Entries
<1> QED BY <1>2, FS_EmptySet

\* Commit makes the open transaction's entries the last ones, and leaves the
\* other transactions theirs.
LEMMA CommitCounts ==
    ASSUME IInv, NEW c \in Clients, Commit(c)
    PROVE  /\ Cardinality(Entries(txn)') = Len(txLog) - Len(log)
           /\ \A t : t # txn => Entries(t)' = Entries(t)
<1>1. log' = txLog /\ conn # NoClient /\ txn' = txn
  BY ClientsAssumption DEF Commit
<1>2. /\ log \in Seq(Entry) /\ txLog \in Seq(Entry) /\ DOMAIN log \subseteq DOMAIN txLog
      /\ \A i \in DOMAIN log : txLog[i] = log[i]
      /\ \A i \in DOMAIN txLog : i \notin DOMAIN log => txLog[i].txn = txn
  BY DEF IInv, TypeOK, TxExtends
<1>3. Len(log) <= Len(txLog) /\ \A i \in DOMAIN txLog : i > Len(log) <=> i \notin DOMAIN log
  BY <1>2, DomainsGiveLengths
<1>4. ASSUME NEW i \in DOMAIN log PROVE txLog[i].txn # txn
  <2>1. log[i].txn < txn /\ log[i].txn \in Nat /\ txn \in Nat
    BY <1>1, <1>2, EntryAt DEF IInv, TxExtends, TypeOK
  <2> QED BY <1>2, <2>1
<1>5. {i \in DOMAIN txLog : txLog[i].txn = txn} = Len(log) + 1 .. Len(txLog)
  <2>1. Len(log) \in Nat /\ Len(txLog) \in Nat /\ DOMAIN txLog = 1 .. Len(txLog)
    BY <1>2
  <2>2. \A i \in DOMAIN txLog : txLog[i].txn = txn <=> i > Len(log)
    BY <1>2, <1>3, <1>4
  <2> QED BY <2>1, <2>2
<1>6. Cardinality(Len(log) + 1 .. Len(txLog)) = Len(txLog) - Len(log)
  <2>1. PICK m \in Nat, n \in Nat : m = Len(log) /\ n = Len(txLog) /\ m <= n
    BY <1>2, <1>3
  <2>2. Cardinality(m + 1 .. n) = IF m + 1 > n THEN 0 ELSE n - (m + 1) + 1
    BY FS_Interval
  <2>3. Cardinality(m + 1 .. n) = n - m
    BY <2>1, <2>2
  <2> QED BY <2>1, <2>3
<1>7. Entries(txn)' = {i \in DOMAIN txLog : txLog[i].txn = txn}
  BY <1>1 DEF Entries
<1>8. \A t : t # txn => Entries(t)' = Entries(t)
  BY <1>1, <1>2 DEF Entries
<1> QED BY <1>5, <1>6, <1>7, <1>8

LEMMA NextKeepsCounted == ASSUME IInv, Counted, [Next]_vars PROVE Counted'
<1> USE DEF Counted, AllOrNothing
<1>1. TypeOK
  BY DEF IInv
<1>2. CASE UNCHANGED <<log, result, txn, conn>>
  BY <1>2
<1>3. CASE Crash
  BY <1>3 DEF Crash
<1>4. ASSUME NEW c \in Clients, BeginTx(c) PROVE Counted'
  <2>1. txn' = txn + 1 /\ UNCHANGED <<log, result>>
    BY <1>4 DEF BeginTx
  <2>2. \A x \in Clients : result[x] # NoResult => result[x].txn \in Nat
    BY <1>1 DEF TypeOK, Result
  <2> QED BY <1>1, <2>1, <2>2 DEF TypeOK
<1>5. ASSUME NEW c \in Clients, Reply(c) PROVE Counted'
  BY <1>1, <1>5 DEF Reply, TypeOK
<1>6. ASSUME NEW c \in Clients, conn = c, NEW s, FailBatch(c, s) PROVE Counted'
  <2>1. PICK res : res = [txn |-> txn, status |-> s, err |-> TRUE, writes |-> 0]
    OBVIOUS
  <2>2. /\ result' = [result EXCEPT ![c] = res] /\ res.txn = txn /\ res.writes = 0
        /\ UNCHANGED <<log, txn>> /\ conn' = NoClient
    BY <1>6, <2>1 DEF FailBatch, Rollback
  <2>3. Cardinality({i \in DOMAIN log : log[i].txn = res.txn}) = res.writes
    BY <1>6, <2>2, OpenIsEmpty, ClientsAssumption DEF Entries
  <2>4. result'[c] = res /\ \A x \in Clients \ {c} : result'[x] = result[x]
    BY <1>1, <2>2 DEF TypeOK
  <2>5. txn \in Nat
    BY <1>1 DEF TypeOK
  <2>6. ASSUME NEW x \in Clients, result'[x] # NoResult
        PROVE  Cardinality({i \in DOMAIN log : log[i].txn = result'[x].txn}) = result'[x].writes
    <3>1. CASE x = c
      BY <2>3, <2>4, <3>1
    <3>2. CASE x # c
      BY <1>1, <2>4, <2>6, <3>2
    <3> QED BY <3>1, <3>2
  <2>7. AllOrNothing'
    BY <2>2, <2>6
  <2> QED BY <2>2, <2>4, <2>5, <2>7
<1>7. ASSUME NEW c \in Clients, Commit(c) PROVE Counted'
  <2>1. PICK res : res = [txn |-> txn, status |-> "SUCCESS", err |-> FALSE,
                          writes |-> Len(txLog) - Len(log)]
    OBVIOUS
  <2>2. /\ result' = [result EXCEPT ![c] = res]
        /\ res.txn = txn /\ res.writes = Len(txLog) - Len(log)
        /\ txn' = txn /\ conn' = NoClient /\ conn # NoClient
    BY <1>7, <2>1, ClientsAssumption DEF Commit
  <2>3. Cardinality({i \in DOMAIN log' : log'[i].txn = res.txn}) = res.writes
    BY <1>7, <2>2, CommitCounts DEF Entries
  <2>4. ASSUME NEW x \in Clients \ {c}, result[x] # NoResult
        PROVE  /\ Cardinality({i \in DOMAIN log' : log'[i].txn = result[x].txn})
                    = result[x].writes
               /\ result[x].txn <= txn
    <3>1. result[x].txn < txn /\ result[x].txn \in Nat /\ txn \in Nat
      BY <1>1, <2>2, <2>4 DEF TypeOK, Result
    <3>2. result[x].txn # txn
      BY <3>1
    <3>3. {i \in DOMAIN log' : log'[i].txn = result[x].txn}
             = {i \in DOMAIN log : log[i].txn = result[x].txn}
      BY <1>7, <3>2, CommitCounts DEF Entries
    <3> QED BY <2>4, <3>1, <3>3
  <2>5. result'[c] = res /\ \A x \in Clients \ {c} : result'[x] = result[x]
    BY <1>1, <2>2 DEF TypeOK
  <2>6. txn \in Nat
    BY <1>1 DEF TypeOK
  <2>7. AllOrNothing'
    BY <2>3, <2>4, <2>5
  <2> QED BY <2>2, <2>4, <2>5, <2>6, <2>7
<1>8. ASSUME NEW c \in Clients, TxStep(c) PROVE Counted'
  BY <1>2, <1>6, <1>8 DEF TxStep
<1> QED BY <1>1, <1>2, <1>3, <1>4, <1>5, <1>7, <1>8, NextCases DEF IInv, Good, vars

\* What ApplyBatch tells its caller is what is in the log of its batch, after
\* any failure and any crash.
THEOREM AllOrNothingHolds == Spec => []AllOrNothing
<1>1. Init => Counted
  BY DEF Init, Counted, AllOrNothing
<1>2. IInv /\ Counted /\ [Next]_vars => Counted'
  BY NextKeepsCounted
<1>3. Counted => AllOrNothing
  BY DEF Counted
<1> QED BY <1>1, <1>2, <1>3, InductiveInvariant, PTL DEF Spec

-----------------------------------------------------------------------------
\* ApplyBatch implements the atomic log: each step installs one transaction's
\* block and its projection, or changes nothing that is committed.
THEOREM Refinement == Spec => Promise
<1>1. Init => Abstract!Init
  BY DEF Init, Abstract!Init, EmptyGraph, Abstract!EmptyGraph, IDs, Abstract!IDs
<1>2. IInv /\ [Next]_vars => [Abstract!Commit]_<<graph, log>>
  <2> SUFFICES ASSUME IInv, [Next]_vars, ~UNCHANGED <<graph, log>>
               PROVE  Abstract!Commit
    OBVIOUS
  <2>1. PICK c \in Clients : Commit(c)
    BY NextCases DEF IInv, Good, BeginTx, TxStep, FailBatch, Rollback, Reply, Crash, vars
  <2>2. graph' = txGraph /\ log' = txLog /\ conn # NoClient
    BY <2>1, ClientsAssumption DEF Commit
  <2>3. /\ log \in Seq(Entry)
        /\ txLog \in Seq(Entry)
    BY DEF IInv, TypeOK
  <2>4. /\ Len(txLog) > Len(log)
        /\ DOMAIN txLog # DOMAIN log
        /\ \A i \in DOMAIN txLog : i > Len(log) <=> i \notin DOMAIN log
    <3>1. DOMAIN txLog # DOMAIN log
      <4> SUFFICES ASSUME DOMAIN txLog = DOMAIN log PROVE FALSE
        OBVIOUS
      <4>1. txLog = log
        BY <2>3 DEF IInv, TxExtends
      <4> QED BY <2>2, <4>1 DEF IInv, TxExtends
    <3> QED BY <2>3, <3>1, DomainsGiveLengths DEF IInv, TxExtends
  <2>5. OneTransaction(log', Len(log))
    <3>1. \A i \in DOMAIN txLog : i \notin DOMAIN log => txLog[i].txn = txn
      BY DEF IInv, TxExtends
    <3>2. \A i \in DOMAIN log : txLog[i].txn # txn
      <4> SUFFICES ASSUME NEW i \in DOMAIN log PROVE txLog[i].txn # txn
        OBVIOUS
      <4>1. txLog[i].txn < txn /\ txn \in Nat
        BY <2>2 DEF IInv, TxExtends, TypeOK
      <4>2. log[i].txn \in Nat /\ txLog[i] = log[i]
        BY <2>3, EntryAt DEF IInv, TxExtends
      <4> QED BY <4>1, <4>2
    <3>3. \A i \in DOMAIN txLog : txLog[i].txn = txn <=> i > Len(log)
      BY <2>4, <3>1, <3>2
    <3>4. \E i \in DOMAIN txLog : txLog[i].txn = txn
      BY <2>4, <3>1 DEF IInv, TxExtends
    <3> QED BY <2>2, <3>3, <3>4 DEF OneTransaction
  <2>6. Chained(log') /\ Projects(graph', log')
    BY <2>2 DEF IInv, Good
  <2>7. \A i \in DOMAIN log : log'[i] = log[i]
    BY <2>2 DEF IInv, TxExtends
  <2> QED
    BY <2>2, <2>4, <2>5, <2>6, <2>7
    DEF Abstract!Commit, Abstract!OneTransaction, OneTransaction, Abstract!Chained,
        Chained, Abstract!Projects, Projects, Abstract!Follows, Follows,
        Abstract!IDs, IDs
<1> QED BY <1>1, <1>2, InductiveInvariant, PTL DEF Spec, Promise, Abstract!Spec

=============================================================================
