----------------------------- MODULE SnapshotStore -----------------------------
(***************************************************************************)
(* Time travel: CreateSnapshot saves the tables with a position of the     *)
(* log, RestoreGraph starts from the nearest snapshot and replays the log. *)
(* The tables are at every moment what the last entry of each id says      *)
(* (LogIsTruth of GraphStore), so the log is the only database state here; *)
(* a row is its generation, 1 when its entry created it.                   *)
(***************************************************************************)
EXTENDS Integers, SequencesExt

CONSTANTS
    EntityIDs, RelationshipIDs,
    Snapshotters,   \* concurrent POST /snapshots handlers
    NoSnapshot,     \* a handler that runs none; a restore that found none
    MaxSnapshots,   \* bound: snapshots saved
    Second,         \* a second, in the clock's ticks: 10^9 in the code
    Units,          \* what the digits of a fraction count: the powers of 10 up to Second
    MaxTime,        \* bound: ticks of the clock
    MaxLog          \* bound: log entries

IDs == EntityIDs \cup RelationshipIDs

ASSUME SnapshotAssumption ==
    /\ EntityIDs \cap RelationshipIDs = {}
    /\ {MaxSnapshots, MaxTime, MaxLog} \subseteq Nat
    /\ Second \in Nat \ {0}
    /\ {1, Second} \subseteq Units /\ Units \subseteq 1 .. Second

(***************************************************************************)
(* RFC3339Nano writes no zeros at the end of a fraction, and no fraction   *)
(* for a whole second, and the queries compare text, in which "Z" comes    *)
(* after every digit: ".12Z" is after ".129Z", and before ".13Z".  So a    *)
(* time is, as text, after all that begin with the same digits: they are   *)
(* less than the unit of its last digit later.                             *)
(***************************************************************************)
Time == 0 .. MaxTime

LastUnit == [t \in Time |-> Max({u \in Units : t % u = 0})]

TextUpTo(s, t) ==
    LET end(x) == x + LastUnit[x]
    IN  end(s) < end(t) \/ (end(s) = end(t) /\ LastUnit[s] <= LastUnit[t])

Entry == [id : IDs, gen : Nat \ {0}, time : Time]

\* A restored graph is a list of rows, a snapshot's tables too.
GraphState == Seq([id : IDs, gen : Nat \ {0}])

Snapshot == [at : Time, last : Nat, rows : GraphState, clean : BOOLEAN]

VARIABLES
    log,        \* the committed delta_log
    clock,      \* time.Now()
    snapshots,  \* the snapshots table
    creating    \* creating[s]: what CreateSnapshot has read, or NoSnapshot

snapshotVars == <<log, clock, snapshots, creating>>

SnapshotInit ==
    /\ log = <<>>
    /\ clock = 0
    /\ snapshots = {}
    /\ creating = [s \in Snapshotters |-> NoSnapshot]

-----------------------------------------------------------------------------

Entries(l, id) == {i \in DOMAIN l : l[i].id = id}

\* The rows of a table, by the log.
Table(l, ids) ==
    SetToSeq({[id |-> id, gen |-> Cardinality(Entries(l, id))] :
                 id \in {x \in ids : Entries(l, x) # {}}})

\* A batch of one mutation commits; an edge needs its two endpoints.
Mutate(id) ==
    /\ Len(log) < MaxLog
    /\ id \in RelationshipIDs => Len(Table(log, EntityIDs)) > 1
    /\ log' = Append(log, [id |-> id, gen |-> Cardinality(Entries(log, id)) + 1,
                           time |-> clock])
    /\ UNCHANGED <<clock, snapshots, creating>>

Tick ==
    /\ clock < MaxTime
    /\ clock' = clock + 1
    /\ UNCHANGED <<log, snapshots, creating>>

UpToAt(at) == {i \in DOMAIN log : TextUpTo(log[i].time, at)}

\* Broken: the position is NULL when no entry is that old.
NullPosition(at) == IF UpToAt(at) = {} THEN NoSnapshot ELSE Max(UpToAt(at))

Position(at) == Max(UpToAt(at) \cup {0})

\* The first query: the log position at snapshot_at, which is now or what the
\* caller gives.  `clean` is auxiliary: as text, the whole log so far is dated up
\* to the snapshot, and no entry is committed before its last query.
FindPosition(s, at) ==
    /\ creating[s] = NoSnapshot
    /\ Cardinality(snapshots) < MaxSnapshots
    /\ creating' = [creating EXCEPT ![s] =
           [step |-> "entities",
            snap |-> [at |-> at, last |-> Position(at), rows |-> <<>>,
                      clean |-> UpToAt(at) = DOMAIN log]]]
    /\ UNCHANGED <<log, clock, snapshots>>

\* The second and third queries.
ReadTable(s, step, ids, next) ==
    /\ creating[s] # NoSnapshot /\ creating[s].step = step
    /\ creating' = [creating EXCEPT
           ![s].step = next,
           ![s].snap.rows = @ \o Table(log, ids),
           ![s].snap.clean = @ /\ creating[s].snap.last = Len(log)]
    /\ UNCHANGED <<log, clock, snapshots>>

ReadEntities(s) == ReadTable(s, "entities", EntityIDs, "relationships")

ReadRelationships(s) == ReadTable(s, "relationships", RelationshipIDs, "save")

Save(s) ==
    /\ creating[s] # NoSnapshot /\ creating[s].step = "save"
    /\ snapshots' = snapshots \cup {creating[s].snap}
    /\ creating' = [creating EXCEPT ![s] = NoSnapshot]
    /\ UNCHANGED <<log, clock>>

\* A query fails, or the snapshot id is taken.
Abandon(s) ==
    /\ creating[s] # NoSnapshot
    /\ creating' = [creating EXCEPT ![s] = NoSnapshot]
    /\ UNCHANGED <<log, clock, snapshots>>

\* The process dies and starts again on the same file.
RestartStorage ==
    /\ creating' = [s \in Snapshotters |-> NoSnapshot]
    /\ UNCHANGED <<log, clock, snapshots>>

SnapshotNext ==
    \/ \E id \in IDs : Mutate(id)
    \/ Tick
    \/ RestartStorage
    \/ \E s \in Snapshotters :
          \/ \E at \in Time : FindPosition(s, at)
          \/ ReadEntities(s) \/ ReadRelationships(s) \/ Save(s) \/ Abandon(s)

SnapshotSpec == SnapshotInit /\ [][SnapshotNext]_snapshotVars

-----------------------------------------------------------------------------
(* RestoreGraph. *)

Row(entry) == [id |-> entry.id, gen |-> entry.gen]

\* Broken: an update replaces nothing.
AppendEntry(state, entry) == Append(state, Row(entry))

\* A creation is appended; an update replaces the first row of its id.
ReplayEntry(state, entry) ==
    LET found == {i \in DOMAIN state : state[i].id = entry.id}
    IN  IF entry.gen = 1 \/ found = {} THEN Append(state, Row(entry))
        ELSE [state EXCEPT ![Min(found)] = Row(entry)]

\* Broken: the entry at the snapshot's position is replayed again.
FromPosition(last, i) == i >= last

AfterPosition(last, i) == i > last

\* The rows after each entry of the log.
Replay(state, last, asOf) ==
    LET rows[i \in 0 .. Len(log)] ==
            IF i = 0 THEN state
            ELSE IF AfterPosition(last, i) /\ TextUpTo(log[i].time, asOf)
            THEN ReplayEntry(rows[i - 1], log[i])
            ELSE rows[i - 1]
    IN  rows[Len(log)]

\* The latest snapshots dated up to asOf: which one of several is unspecified.
Nearest(asOf) ==
    LET dated == {s \in snapshots : TextUpTo(s.at, asOf)}
    IN  {s \in dated : \A t \in dated : TextUpTo(t.at, s.at)}

\* What RestoreGraph may return.
Restored(asOf) ==
    IF Nearest(asOf) = {} THEN {Replay(<<>>, 0, asOf)}
    ELSE {Replay(s.rows, s.last, asOf) : s \in Nearest(asOf)}

-----------------------------------------------------------------------------

SnapshotTypeOK ==
    /\ log \in Seq(Entry)
    /\ clock \in Time
    /\ snapshots \subseteq Snapshot
    /\ \A s \in Snapshotters : creating[s] # NoSnapshot =>
          /\ creating[s].step \in {"entities", "relationships", "save"}
          /\ creating[s].snap \in Snapshot

\* However snapshots were taken (over commits, for the past, for the future),
\* a graph restored at a time that is, as text, after the whole log has every
\* id, and the first row of an id in it is the current one: replaying entries
\* that the snapshot already has does no harm to the rows.
RestoredIsCurrent ==
    \A t \in Time : UpToAt(t) = DOMAIN log =>
        \A st \in Restored(t) : \A id \in IDs :
            LET found == {i \in DOMAIN st : st[i].id = id}
            IN  /\ found = {} <=> Entries(log, id) = {}
                /\ found # {} =>
                      st[Min(found)].gen = Cardinality(Entries(log, id))

SameRows(s, t) == Len(s) = Len(t) /\ ToSet(s) = ToSet(t)

\* Snapshots are an acceleration: a snapshot with which no commit interfered,
\* and after whose date no entry comes as text, gives at every later as_of what
\* the replay of the whole log gives, whatever the order of the texts that
\* follow.
CleanSnapshotsExact ==
    \A s \in snapshots : s.clean =>
        \A t \in Time : TextUpTo(s.at, t) =>
            SameRows(Replay(s.rows, s.last, t), Replay(<<>>, 0, t))

\* storage.md says so of every snapshot: a restored graph never depends on
\* which snapshots exist.
SnapshotsAccelerate ==
    \A t \in Time : \A st \in Restored(t) : SameRows(st, Replay(<<>>, 0, t))

=============================================================================
