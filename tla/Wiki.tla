--------------------------------- MODULE Wiki ---------------------------------
(***************************************************************************)
(* The wiki of serving: a listing of the namespace is cut into topics by   *)
(* directory and by the relationships between directories, and each topic  *)
(* gets a page, from the cache on disk or from the model.  Calls of        *)
(* Generate run side by side, over one cache, while the graph changes.     *)
(***************************************************************************)
EXTENDS Naturals, Sequences, SequencesExt, FiniteSetsExt

CONSTANTS
    Calls,
    Entities,
    Dirs,            \* a sequence: directories in the order of their names
    Misc,            \* the directory of what has none
    Layouts,         \* what directory each entity may be in
    SlugOf,          \* each directory's topic id
    MinTopicSize, MaxTopics,
    Movable,         \* entities that change or go
    MayRelate,       \* relationships that come and go
    NoPage,
    Broken,          \* a page file that is no JSON
    MaxMoves, MaxCrashes

Dir == Range(Dirs)

ASSUME WikiAssumption ==
    /\ IsFiniteSet(Entities) /\ Layouts \subseteq [Entities -> Dir]
    /\ Dirs \in Seq(Dir) /\ IsInjective(Dirs) /\ Misc \in Dir
    /\ MinTopicSize \in Nat \ {0} /\ MaxTopics \in Nat \ {0}
    /\ Movable \subseteq Entities /\ MayRelate \subseteq Entities \X Entities
    /\ NoPage # Broken
    /\ MaxMoves \in Nat /\ MaxCrashes \in Nat

VARIABLES
    dirOf,
    live,        \* entities that are active
    version,
    related,     \* active relationships
    moves, crashes,
    file,        \* the cache: what each topic's file holds
    call         \* the calls of Generate

graph == <<dirOf, live, version, related>>
vars == <<graph, moves, crashes, file, call>>

-----------------------------------------------------------------------------
(* Segment.  Buckets: the entities of each directory. *)

InOrder(d, e) == \E i, j \in DOMAIN Dirs : i < j /\ Dirs[i] = d /\ Dirs[j] = e

Full(buckets) == {d \in Dir : buckets[d] # {}}

Larger(buckets, d, e) ==
    \/ Cardinality(buckets[d]) > Cardinality(buckets[e])
    \/ Cardinality(buckets[d]) = Cardinality(buckets[e]) /\ InOrder(d, e)

\* The directories in a sequence, each larger than the ones after it.
BySize(dirs, buckets) ==
    CHOOSE s \in SetToSeqs(dirs) :
        \A i \in 1 .. Cardinality(dirs) - 1 : Larger(buckets, s[i], s[i + 1])

SortedKeysBySize(buckets) == BySize(Full(buckets), buckets)

MergeBucket(buckets, d, to) ==
    [buckets EXCEPT ![to] = @ \cup buckets[d], ![d] = {}]

Large(buckets, d) == Cardinality(buckets[d]) >= MinTopicSize

\* The large directory that d is most connected to; Misc if it is to none.
BestLargeNeighbor(buckets, cross, d) ==
    LET near == {e \in Dir \ {Misc, d} : cross[d][e] > 0 /\ Large(buckets, e)}
    IN  IF near = {} THEN Misc
        ELSE CHOOSE e \in near : \A o \in near \ {e} :
                \/ cross[d][e] > cross[d][o]
                \/ (cross[d][e] = cross[d][o] /\ InOrder(e, o))

\* Small directories join the large one that they are most connected to.
FoldSmall(buckets, cross) ==
    LET keys == SortedKeysBySize(buckets)
        after[i \in 0 .. Len(keys)] ==
            IF i = 0 THEN buckets
            ELSE LET before == after[i - 1] IN
                 IF keys[i] = Misc \/ Large(before, keys[i]) THEN before
                 ELSE MergeBucket(before, keys[i], BestLargeNeighbor(before, cross, keys[i]))
    IN  after[Len(keys)]

\* Broken: one topic more than the cap is kept.
CapOneMore(buckets) ==
    LET keys == SortedKeysBySize(buckets)
        after[i \in 0 .. Len(keys)] ==
            IF i = 0 THEN buckets
            ELSE IF i <= MaxTopics + 1 \/ keys[i] = Misc THEN after[i - 1]
            ELSE MergeBucket(after[i - 1], keys[i], Misc)
    IN  after[Len(keys)]

\* What is over MaxTopics joins Misc, which may come on top.
CapTopics(buckets) ==
    LET keys == SortedKeysBySize(buckets)
        after[i \in 0 .. Len(keys)] ==
            IF i = 0 THEN buckets
            ELSE IF i <= MaxTopics \/ keys[i] = Misc THEN after[i - 1]
            ELSE MergeBucket(after[i - 1], keys[i], Misc)
    IN  after[Len(keys)]

Cross(entities, relations) ==
    [d \in Dir |-> [e \in Dir |->
        Cardinality({r \in relations :
            /\ r[1] \in entities /\ r[2] \in entities /\ d # e
            /\ {d, e} = {dirOf[r[1]], dirOf[r[2]]}})]]

Segment(entities, relations) ==
    LET skeleton == [d \in Dir |-> {e \in entities : dirOf[e] = d}]
        buckets == CapTopics(FoldSmall(skeleton, Cross(entities, relations)))
        keys == BySize(Full(buckets) \ {Misc}, buckets)
        dirs == IF buckets[Misc] = {} THEN keys ELSE Append(keys, Misc)
    IN  [i \in DOMAIN dirs |->
            [dir |-> dirs[i], id |-> SlugOf[dirs[i]], entities |-> buckets[dirs[i]]]]

-----------------------------------------------------------------------------
(* Generate. *)

TopicIDs == {SlugOf[d] : d \in Dir}

\* entityHash: a set of entities with their versions.
Hash(entities, versions) == {<<e, versions[e]>> : e \in entities}

\* The relationships that the catalog of a topic of r's shows: those within
\* it, and those that lead from it to another entity of the listing.
Shown(r, topic) ==
    {x \in call[r].relations : x[1] \in topic.entities /\ x[2] \in call[r].entities}

Idle ==
    [at |-> "idle", entities |-> {}, versions |-> [e \in Entities |-> 0], relations |-> {},
     topics |-> << >>, i |-> 1, pages |-> [t \in TopicIDs |-> NoPage]]

Topic(r) == call[r].topics[call[r].i]

\* The page that r would have written for its topic.
Fresh(r) ==
    [dir |-> Topic(r).dir,
     hash |-> Hash(Topic(r).entities, call[r].versions),
     shown |-> Shown(r, Topic(r)),
     outline |-> FALSE,
     cached |-> FALSE]

\* fallbackPage: the topic's entities, by type, without their relationships.
Outline(r) == [Fresh(r) EXCEPT !.shown = {}, !.outline = TRUE]

Init ==
    /\ dirOf \in Layouts
    /\ live = Entities
    /\ version = [e \in Entities |-> 1]
    /\ related \in SUBSET MayRelate
    /\ moves = 0 /\ crashes = 0
    /\ file = [t \in TopicIDs |-> NoPage]
    /\ call = [r \in Calls |-> Idle]

\* ListNamespace: storage lists entities, then relationships.
ListEntities(r) ==
    /\ call[r].at = "idle"
    /\ call' = [call EXCEPT ![r].at = "listing", ![r].entities = live,
                            ![r].versions = [e \in Entities |-> IF e \in live THEN version[e] ELSE 0]]
    /\ UNCHANGED <<graph, moves, crashes, file>>

ListRelationships(r) ==
    /\ call[r].at = "listing"
    /\ LET topics == Segment(call[r].entities, related) IN
          call' = [call EXCEPT ![r].relations = related, ![r].topics = topics,
                               ![r].at = IF topics = << >> THEN "answered" ELSE "topic"]
    /\ UNCHANGED <<graph, moves, crashes, file>>

\* r's page for its topic is page; the next topic's turn.
Place(r, page) ==
    call' = [call EXCEPT ![r].pages[Topic(r).id] = page, ![r].i = @ + 1,
                         ![r].at = IF call[r].i = Len(call[r].topics) THEN "answered" ELSE "topic"]

Cached(r) == file[Topic(r).id]

\* Broken: whatever page the file holds.
HitById(r) == Cached(r) \notin {NoPage, Broken}

\* loadPage, and the comparison of the hashes.
Hit(r) == Cached(r) \notin {NoPage, Broken} /\ Cached(r).hash = Fresh(r).hash

Reuse(r) ==
    /\ call[r].at = "topic" /\ Hit(r)
    /\ Place(r, [Cached(r) EXCEPT !.cached = TRUE])
    /\ UNCHANGED <<graph, moves, crashes, file>>

\* generatePage begins; the model takes its time.
AskModel(r) ==
    /\ call[r].at = "topic" /\ ~Hit(r)
    /\ call' = [call EXCEPT ![r].at = "asking"]
    /\ UNCHANGED <<graph, moves, crashes, file>>

\* The outline is not saved.
ModelFails(r) ==
    /\ call[r].at = "asking"
    /\ Place(r, Outline(r))
    /\ UNCHANGED <<graph, moves, crashes, file>>

\* savePage truncates the file, then writes it.  Broken pages of two calls
\* that overlap: the longer one's end stays behind the shorter one.
BeginSave(r) ==
    /\ call[r].at = "asking"
    /\ file' = [file EXCEPT ![Topic(r).id] = Broken]
    /\ call' = [call EXCEPT ![r].at = "saving"]
    /\ UNCHANGED <<graph, moves, crashes>>

EndSave(r) ==
    /\ call[r].at = "saving"
    /\ \/ file' = [file EXCEPT ![Topic(r).id] = Fresh(r)]
       \/ Cached(r) # Broken /\ file' = [file EXCEPT ![Topic(r).id] = Broken]
       \/ UNCHANGED file
    /\ Place(r, Fresh(r))
    /\ UNCHANGED <<graph, moves, crashes>>

\* The answer has been written.
End(r) ==
    /\ call[r].at = "answered"
    /\ call' = [call EXCEPT ![r] = Idle]
    /\ UNCHANGED <<graph, moves, crashes, file>>

\* Serving dies and starts again on the same cache.
Crash ==
    /\ crashes < MaxCrashes
    /\ crashes' = crashes + 1
    /\ call' = [r \in Calls |-> Idle]
    /\ UNCHANGED <<graph, moves, file>>

-----------------------------------------------------------------------------
(* Storage: an entity is updated, or goes, or comes back, each time with a *)
(* new version.                                                            *)

Update(e) ==
    /\ moves < MaxMoves
    /\ version' = [version EXCEPT ![e] = @ + 1]
    /\ \E active \in SUBSET {e} : live' = (live \ {e}) \cup active
    /\ moves' = moves + 1
    /\ UNCHANGED <<dirOf, related, crashes, file, call>>

Relate(r) ==
    /\ moves < MaxMoves
    /\ related' = IF r \in related THEN related \ {r} ELSE related \cup {r}
    /\ moves' = moves + 1
    /\ UNCHANGED <<dirOf, live, version, crashes, file, call>>

-----------------------------------------------------------------------------

Next ==
    \/ \E r \in Calls :
          \/ ListEntities(r) \/ ListRelationships(r)
          \/ Reuse(r) \/ AskModel(r) \/ ModelFails(r) \/ BeginSave(r) \/ EndSave(r)
          \/ End(r)
    \/ Crash
    \/ \E e \in Movable : Update(e)
    \/ \E r \in MayRelate : Relate(r)

Spec == Init /\ [][Next]_vars

-----------------------------------------------------------------------------

IsPage(p) ==
    /\ p.dir \in Dir /\ p.hash \subseteq Entities \X (0 .. MaxMoves + 1)
    /\ p.shown \subseteq MayRelate /\ p.outline \in BOOLEAN /\ p.cached \in BOOLEAN

TypeOK ==
    /\ dirOf \in Layouts
    /\ live \subseteq Entities
    /\ version \in [Entities -> 1 .. MaxMoves + 1]
    /\ related \subseteq MayRelate
    /\ moves \in 0 .. MaxMoves /\ crashes \in 0 .. MaxCrashes
    /\ \A t \in TopicIDs : file[t] \in {NoPage, Broken} \/
          (IsPage(file[t]) /\ ~file[t].outline /\ ~file[t].cached)
    /\ \A r \in Calls :
          /\ call[r].at \in {"idle", "listing", "topic", "asking", "saving", "answered"}
          /\ call[r].entities \subseteq Entities /\ call[r].relations \subseteq MayRelate
          /\ Len(call[r].topics) <= MaxTopics + 1
          /\ call[r].at \in {"topic", "asking", "saving"} => call[r].i \in DOMAIN call[r].topics
          /\ \A t \in TopicIDs : call[r].pages[t] = NoPage \/ IsPage(call[r].pages[t])

\* The topics of r whose directories have the same slug as topic i's.
Namesakes(r, i) == {j \in DOMAIN call[r].topics : call[r].topics[j].id = call[r].topics[i].id}

\* An answer describes each listed entity once: in one topic, on a page that
\* was written for just the topic's entities at just the versions listed, by
\* whichever call and before however many changes.  Its relationships may be
\* older, but then it is marked as cached; an outline, for which the model has
\* failed, shows none, and is never found in the cache.  Of topics with the
\* same slug only the last one's page is there.
DescribedOnce ==
    \A r \in Calls : call[r].at = "answered" =>
        \A e \in call[r].entities :
            \E i \in DOMAIN call[r].topics :
                LET t == call[r].topics[i]
                    page == call[r].pages[t.id]
                IN  /\ {j \in DOMAIN call[r].topics : e \in call[r].topics[j].entities} = {i}
                    /\ i = Max(Namesakes(r, i)) =>
                          /\ page.hash = Hash(t.entities, call[r].versions)
                          /\ IF page.outline THEN page.shown = {} /\ ~page.cached
                             ELSE page.cached \/ page.shown = Shown(r, t)

=============================================================================
