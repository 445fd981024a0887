# archgraph: a verification project

TLA+ modules, TLC runs and TLAPS proofs about archgraph, a set of Go services
that read repositories, turn them into an architecture graph, store the graph
with its history and answer questions about it. `src/` is the code they are
about; every definition that models code is listed in `PROJECT.json` under
`map` with the lines it stands for.

    ingestion :8083 --> pipeline :8082 --> storage :8080 <-- serving :8081
     git, ast, openapi   resolve, diff      SQLite, log       analytics, wiki, Q&A
                 all started and watched by cmd/archgraph

Contents: 1 inventory, 2 the modules, 3 the runs, 4 the proofs, 5 what the
models show about the code, 6 limits, 7 plan.

## 1. Inventory

### storage

* **Mutation API** (`mutation/api.go`, `mutation/conflict.go`,
  `graphdb/store.go`). *State*: the tables `entities` and `relationships`; a row
  has a version and `is_active`. *Operations*: `ApplyBatch` with four handlers
  (upsert and soft delete of an entity, upsert and delete of a relationship),
  called by concurrent `POST /mutations` handlers over a single SQLite connection
  (`SetMaxOpenConns(1)`). *Hard*: a batch that fails in the middle, a COMMIT that
  fails, a crash anywhere, two callers that update the same version, an
  endpoint that an earlier mutation of the batch created. *Correct when*: a
  batch is all or nothing, versions never repeat, no update is lost.
* **Delta log** (`deltalog/log.go`). *State*: `delta_log`, appended inside the
  batch's transaction. *Correct when*: the tables are the projection of the
  log, and the entries of an id form a chain of before and after states.
* **Read path and graph cache** (`graphdb/query.go`, `graphdb/cache.go`). *State*:
  two in-memory layers (entities for 5 minutes, neighborhoods), filled by
  readers and emptied by post-commit hooks of the mutation and metrics APIs.
  *Hard*: a reader's queries and its fill interleave with commits and
  invalidations. *Correct when*: what is cached is current, or about to be
  invalidated.
* **Metrics store** (`metrics/store.go`). *State*: samples; the last one of an
  entity is part of what the cache holds.
* **Search index** (`search/index.go`). *State*: a bounded in-memory queue, one
  worker, the table `entity_search`. *Hard*: a full queue drops, shutdown and
  crash lose the queue, the worker reads a row long after the event. *Correct
  when*: a stale document is scheduled or known to be missed, and the index
  catches up.
* **Snapshots** (`snapshot/store.go`). *State*: the table `snapshots`; `RestoreGraph`
  starts from the nearest one and replays the log. *Hard*: a snapshot is read in
  three queries between which batches commit, and it may be dated in the past;
  times are compared as text. *Correct when*: it makes no difference which
  snapshots exist.
* **HTTP server, daemon**: parameter parsing, the hooks after a commit, shutdown.

### ingestion

* **Orchestrator** (`orchestrator/runner.go`). *State*: plan, `pending`, `done`,
  a semaphore, a mutex with a condition variable. *Operations*: `RunAll` (the
  dispatcher and one goroutine per ingestor) and `runOne`. *Hard*: lost wakeups,
  failures far upstream, slots held by ingestors that hang, and several `RunAll`
  at once, because each `POST /v1/runs` and each webhook starts its own.
* **Git ingestor** (`ingestor/git.go`). Three git processes per fetch, against a
  repository that moves meanwhile.
* **Checkpoint store, ledger, dead-letter queue**: files that `runOne` writes after
  delivery, in this order; nothing reads the dead-letter queue back.
* **Delivery sinks** (`delivery/`): the batch goes to the pipeline (zone 3), to
  storage (zone 4) or to a file; the answer may be lost.
* **AST and OpenAPI ingestors**: stateless parsers that walk the tree on each run.
* **HTTP server, daemon**: registration of ingestors, webhooks, shutdown after 5 s.

### pipeline

* **Stages 1 to 5** (`pipeline/`): parse, resolve names against the registry
  (written at once), infer, enrich, deduplicate, validate.
* **Delta computation, storage client** (`stage6_delta.go`, `storageclient/`):
  list what storage has, compute mutations, send them.
* **Entity registry** (`registry/registry.go`): SQLite, unique on canonical name
  and namespace. *Hard*: lookup and upsert are separate, concurrent batches race,
  and the registry is written before storage has accepted anything. *Correct when*:
  one name is one entity of the graph, a batch overwrites only the rows it was
  compared with, and a success is in the graph.

### serving

* **Analytics** (`analytics/`). *Operations*: `Audit` finds circular dependencies with
  Tarjan's algorithm over one listing; `CalculateBlastRadius` asks storage for the
  callers of one node after another. *Hard*: Go walks maps in a random order, which
  decides where the search starts and turns; a node may come up again with a
  higher probability; the graph changes between two calls. *Correct when*: the
  reported sets are exactly the cyclic components, in every order, and each node has
  the probability of its likeliest path.
* **Wiki** (`wiki/`). *State*: one file per topic, keyed by a hash of the topic's
  entities and versions. *Operations*: `Generate` (list, cluster by directory, reuse a
  page or ask the model, save). *Hard*: concurrent calls over one directory, files
  torn by a crash, a model that fails, clusters that merge and change. *Correct
  when*: an answer describes each listed entity once, as it was listed.
* **Question answering**: a stateless pipeline of text heuristics and a model call.

### supervisor

* `cmd/archgraph/main.go`. *State*: where the boot is, the context, the children and
  the ports they hold. *Operations*: start each service and wait for its health
  check, reap children, handle signals, terminate and kill. *Hard*: a signal or the
  end of a child at any moment of the boot; a health check answered by a service of an
  earlier supervisor; `go run` between the supervisor and the service. *Correct
  when*: every cause to stop stops it, and it leaves nothing running.

### command line interface

* `interfaces/cmd/archgraph-cli/main.go`. *State*: none that lasts; the MCP server has
  one goroutine per request and a mutex around standard output. *Operations*: the
  commands and the MCP tools and resources, each a sequence of calls to serving and
  storage that ends in a verdict. *Hard*: calls that fail one by one, a graph that
  changes between them, requests that overtake each other, an input that ends with
  requests in flight. *Correct when*: what a command says was true, and each request is
  answered once, in a line of its own.

### the rest

* **nif** (record types and ids) keeps no state.

`PROJECT.json` lists all of these with what is modelled, and the hazards at the
lines where they bite with the properties that cover them.

## 2. The modules

Each component's module has its state as VARIABLES, one action per operation or
step of the code, and bounds that are constants named `Max...`. A definition
that is commented `Broken:` is a plausible bug of the action after it; no
specification uses it. It is there to show that each checked property fails when
the code is broken in that way (`mutants` in PROJECT.json).

| module | models | extends or instantiates |
|---|---|---|
| `GraphRows` | rows of the tables, the handlers' checks and write rules, what a log promises | |
| `DeltaLog` | the abstract specification: an atomic log with its projection | `GraphRows` |
| `GraphStore` | `ApplyBatch` over one connection | `GraphRows`, `DeltaLog` by INSTANCE |
| `GraphStoreProofs` | theorems about `GraphStore` | `GraphStore`, TLAPS |
| `GraphCache` | read path, both cache layers, post-commit hooks | |
| `GraphCacheProofs` | theorems about `GraphCache` | `GraphCache`, TLAPS |
| `SearchIndex` | queue, worker, restart | |
| `SnapshotStore` | `CreateSnapshot`, `RestoreGraph` | |
| `SearchAndSnapshotProofs` | theorems about `SearchIndex` and `SnapshotStore` | both, TLAPS |
| `IngestionRun` | `runOne` with the git ingestor, checkpoint, ledger, sink | |
| `Runner` | `RunAll` | |
| `OrchestratorProofs` | theorems about `Runner` and `IngestionRun` | both, TLAPS |
| `Pipeline` | the stages of the pipeline against its registry and storage | `GraphRows` |
| `PipelineProofs` | theorems about `Pipeline` | `Pipeline`, TLAPS |
| `Components` | the abstract specification of the search for cycles | |
| `Analytics` | `Audit`'s cycles and `CalculateBlastRadius` | `Components` by INSTANCE |
| `AnalyticsProofs` | theorems about `Analytics` | `Analytics`, TLAPS |
| `Wiki` | `Generate` over its page cache | |
| `WikiProofs` | theorems about `Wiki` | `Wiki`, TLAPS |
| `Supervisor` | `cmd/archgraph` and the processes it starts | |
| `RequestReply` | the abstract specification: each request answered once, by one line | |
| `CommandLine` | the commands and the MCP server of `archgraph-cli` | `RequestReply` by INSTANCE |
| `CommandProofs` | theorems about `Supervisor` and `CommandLine` | both, TLAPS |

**GraphRows, GraphStore.** `graph` and `log` are what is committed, `txGraph` and
`txLog` what the open transaction sees, `conn` who holds the one connection.
`BeginTx`, the four handlers, `Commit` and their failures are the steps of
`ApplyBatch`; `Crash` may come between any two. A row keeps its version, its
`is_active`, its endpoints and, for everything else a caller can set, a member of
`Data` (`BadData` is what validation refuses). A batch is chosen mutation by
mutation: nobody sees it before it is applied. `conn` is not a simplification: with
one connection a second transaction waits in `BeginTx`.

**GraphCache.** A row and a metrics sample are generation numbers. A batch is one
step here, because GraphStore shows that it is atomic; what is not atomic is kept
apart: each query of a reader, its fill of the cache, and the hook that runs after
the commit. A metrics query that fails leaves the sample out of the row (`bare`), which is cached all the
same. `late` is an auxiliary mark on what a reader has read whose
invalidation has run already. These marks separate the known ways in which the cache
goes wrong (section 5) from all others.

**SearchIndex.** `hook` is the time between a commit and its `Enqueue`. The
worker's read of the row and its write of the document are separate steps.
`missed` is auxiliary: the entities whose indexing was dropped, failed or lost.

**SnapshotStore.** The log is the only state of the database, because
`LogIsTruth` makes the tables a function of it. `TextUpTo` is the order of RFC3339Nano text in SQL: the format
drops the zeros at the end of a fraction, and "Z" comes after every digit and after ".", so
"05.12Z" comes after "05.129Z", and "05Z" after both. What decides is the place of a time's last
digit (`LastUnit`); the run has two binary places instead of nine decimal ones. `clean` is auxiliary: no commit came
between the queries of a snapshot, and it is dated, as text, after the whole log.
`Restored` is `RestoreGraph`: `ReplayEntry` for one entry
after another. Names begin with `Snapshot` where `SearchIndex` has the same one, because one
module proves theorems about both.

**IngestionRun.** A commit is a function from paths to contents and a position is a
commit's number, so that two commits may hold the same tree (a revert). Each of
`Load`, `RevParse`, `List`, `Publish`, `Save`, `AppendEntry` is a step, with a
failure of its own; `Push` moves HEAD between any two. `late` is a batch that its run has given
up on (after the client's 30 s, or by dying) and that is still on its way, and `Arrives` has the
sink apply it, at any later time. `published` and `hidden` are auxiliary.

**Runner.** Its `RunnerInit`, `RunnerNext` and `RunnerTypeOK` have a name of their own beside
those of `IngestionRun`, because one module proves theorems about both. One `Scan` is one pass of the dispatcher under the mutex; recording a
status (under the mutex), broadcasting (outside it) and giving the slot back are
three steps, because that is where a wakeup could get lost. The dependency graph
and the set of ingestors that hang are chosen in `Init`.

**Pipeline.** `registry` gives each name its canonical id, `graph` is storage's rows,
`pipe[h]` what the handler h of `POST /v1/batches` works on. Each query of the
registry, each of the two listings and the final mutation batch is a step, so that
two handlers interleave between them; the batch itself is one step, because
`GraphStore` shows that it is atomic, and its rows change by the same definitions
of `GraphRows`. An id is a hash of source, type and raw name, and normalization
is idempotent, so a record's name is a function of its id (`NameOf`) and the lookups
by alias find nothing that the lookup by name does not. A listing returns any
`ListLimit` of the active rows. What inference and enrichment compute for a batch
is one value, compared and stored as a whole.

**Analytics, Components.** One request, an audit or an impact analysis. The recursion
of `strongconnect` is the sequence `calls`; the loop over `adj[v]` is the set `rest`, from which
any element may be next, so every order of Go's maps is a behaviour. `Components` says
what the search promises without indices, lowlinks or a stack: the next set found is one
of mutually reachable nodes, after those it leads to. In the impact analysis each call to
storage is a step, and `Move` changes one edge between two. A probability is a
whole number over `One`, each edge's weight one over 20; the run has `One` = 20^5, which five edges
do not round, and the theorems hold of any `One`, rounding down at each edge as the model does.
`low` and `high` are auxiliary: the weights each edge has had.

**Wiki.** The buckets of `Segment` are a function from directories to sets of entities,
and its passes (`FoldSmall`, `CapTopics`) are recursive functions: the buckets after each of the
directories, taken by size as the code does. A bucket that is merged goes to another one
(`NeighborIsAnother` is a lemma), so the code's `from == to` never matters.
A page is what can be told of it later: its directory, its hash, the
relationships it shows, and whether it is the outline without any that stands in for a page
when the model fails (`Outline`); an outline is not saved. `BeginSave` truncates the file and `EndSave` writes it, so
that another call, or a crash, comes in between; two writers of one file may leave
it broken.

**Supervisor.** `main` is a program counter over `run`, `child` a state for each
process that was started, `orphan` a service without a supervisor that may hold the
port. `KillByContext` is `exec.CommandContext`, which kills as soon as the
context ends; `wrapped` are the services started through `go run`, whose kill leaves the
service itself running. `StopsCleanly` is a service that has a SIGTERM, from whomever and whenever, and ends
with status 0; `KilledOutside` is a signal it does not handle. `Crash` and `Restart` put a second supervisor beside the orphans
of the first.

**CommandLine, RequestReply.** A job is a command or a line sent to the MCP server. What
it asks is a sequence of calls, each with the zone it goes to, the fact that the
answer shows and what the code does on an error status and on no answer (`fail`,
go on as if it were `empty`, `skip` the rest, or `panic`, which ends the server). `rule` is what
`.archgraph.yaml` makes of the facts that `validate` looks for (`Counted`). An answer on standard output is written
in two halves, which makes the mutex matter. `lived` is auxiliary: the worlds a job
has seen pass. `RequestReply` is what a client may rely on.

## 3. The runs

The violation run is in section 5. State counts are distinct states.

| run | instance | states | properties |
|---|---|---|---|
| `graph_store` | 2 clients, 2 entities, 1 relationship, 2 data, supplied versions {0 (none), 2}, 3 transactions of at most 2 mutations | 2.2 M | `VersionsGrow`, `NoLostUpdate`, `EndpointsFirst`, `AllOrNothing`, `Promise` |
| `graph_cache` | 3 entities, 2 relationships, one neighborhood of depth 2, 2 writers, 1 reader, 2 commits, 1 entity whose metrics query may fail | 4.5 M | `EntitiesFresh`, `NeighborhoodsFresh` |
| `search_index` | 2 entities, 2 writers, queue of 2, 3 commits per entity | 27 k | `StaleIsScheduled`, `CatchesUp` |
| `snapshots` | 2 entities, 1 relationship, 2 snapshots, 5 times (the quarters of a second and the next one), 3 log entries | 2.6 M | `RestoredIsCurrent`, `CleanSnapshotsExact` |
| `ingestion_run` | 1 path with 2 contents or gone, 2 runs, 3 commits, 1 late batch on its way | 5.9 M | `NothingSkipped`, `SinkNotBehind` |
| `runner` | all dependency graphs over 3 ingestors and an unknown name, all sets that hang, 2 slots | 120 k | `DependenciesFirst`, `FailureContained`, `Termination` |
| `pipeline` | 2 handlers, 5 entities of which 2 share a name, one has none and one is too long, 4 batches, listings of 2 rows, 4 requests, 1 delete by others | 519 k | `OneEntityPerName`, `ReplacesWhatWasListed`, `SuccessIsShown`, `RefusalsExplained` |
| `analytics` | audits of every graph on 3 nodes and of 1024 on 4; impact over 6 possible edges of 2 weights between 4 nodes, depths 2 and 5, 1 change | 1.2 M | `BestReported`, `ComponentsSpec` |
| `wiki` | 2 calls again and again, 7 entities in 3 layouts of 4 directories, 1 possible relationship, 2 topics at most, 1 change, 1 crash | 1.5 M | `DescribedOnce` |
| `supervisor` | 3 services of which 1 is vital, each built or run by `go run`, 2 boots | 359 k | `NothingLeft`, `StopsAll`, `NotAdopted` |
| `command_line` | a job of each of the 18 kinds beside one of two kinds, all settings of two rules, 1 change of a fact or a zone | 400 k | `TrueVerdicts`, `RepliesSpec`, `EveryAnswered` |

Every run checks its type invariant as well.

Why the bounds are enough for what the properties are about:

* `graph_store`: a third transaction suffices to read a version in one, overtake
  it in another and lose the update in a third; two mutations in a batch to fail
  after a write or to create an endpoint and use it; version 2 can be right, stale
  or ahead. The theorems of section 4 do away with the bounds.
* `graph_cache`: depth 2 is the least at which a traversal reads an edge that does
  not touch its origin and a node that is not its neighbor; the second writer's
  commit or hook can come into every gap between the reader's queries. The metrics query
  fails for one of the entities that are not the origin, so a bare row comes into a neighborhood
  beside whole ones.
* `search_index`: with two entities and a queue of two, the queue holds an id
  twice, is full, and drops.
* `snapshots`: two snapshots that compete for being the nearest, one dated in the
  future and used only later, and commits before, between and after its queries all occur.
  As text the five times come in the order 1, 3, 2, 0, 4: a whole second after all its
  fractions, and a short fraction after a longer one that is later.
* `ingestion_run`: a third commit is needed to hide a file between two commits that
  have it. Paths do not interact, so one is enough.
* `runner`: three ingestors give chains, forks and joins; two slots give a queue for
  slots while one ingestor hangs.
* `pipeline`: two sources that name one thing race through lookup and insert; listings
  of two rows omit rows of a graph of four; storage's three refusals, lost answers and
  a conflict with the other handler or with a delete are all reached.
* `analytics`: on four nodes two cycles can share a node, be joined by an edge into
  a finished component, and lowlinks pass through two callers; a node comes up again likelier
  when a longer way has the better weights, and depth 2 cuts some ways off.
* `wiki`: seven entities make large and small directories, ties, a full cap and two
  directories with one slug; the second call finds the first one's files at each stage.
* `supervisor`: `pipeline` is treated as `storage` is, so three services are one of each
  kind; the second boot meets each kind of orphan of the first.
* `command_line`: a verdict hangs on at most two facts, and one change between any two
  calls is what makes the order of the calls matter; zones may fail before and after it.

Symmetry is used in runs without liveness properties only, over sets whose
members nothing tells apart.

**Fairness.** `SearchIndex`: the handler's `Enqueue` and the worker's steps are
weakly fair, because they are running goroutines that block on nothing but each
other (`Enqueue` never blocks); failures, signals and restarts are never forced.
`Runner`: the dispatcher and each goroutine are weakly fair, except that `Record`
of an ingestor in `hung` never happens. Waiting for a slot needs no strong
fairness: an ingestor takes a slot once. `Supervisor`: `Main` is the main
goroutine, whose only waits without a bound are for the wait group and for the context, and the
goroutines that reap and kill; a child that is starting opens its port or fails to. That a
service stops on SIGTERM is not assumed. `CommandLine`: the scanner loop and each
handler run; a model that does not answer (`hung`) blocks its own job for ever; no
strong fairness for the mutex, because a job takes it once. All other modules check
safety under `[][Next]_vars`.

**Deadlock.** The check is off where the program ends: `Runner` (`RunAll` returns),
`Supervisor`, `CommandLine`, `Analytics` (one request). In the others some step (a crash,
a restart, an expiry, the next call) is always possible, so TLC's deadlock check
shows little about them; progress is what `CatchesUp`, `Termination`, `StopsAll`,
`NotAdopted` and `EveryAnswered` are for.

## 4. What is proved

Eight proof modules state what the runs check for every value of the constants: any
number of ids, clients, handlers, ingestors, batches, runs, services, jobs, and steps. The bounds named
`Max...` stay guards of the actions, but of any size.

| theorem | states |
|---|---|
| **GraphStoreProofs** | |
| `TypeCorrect` | `TypeOK` |
| `LogIsTruthHolds` | the rows are the projection of the log |
| `BeforeIsPreviousAfterHolds` | entries of an id form a chain |
| `VersionsGrowHolds` | no id returns to a version it had |
| `NoLostUpdateHolds` | a write with a supplied version replaced the one row that ever had it |
| `EndpointsFirstHolds` | no relationship is logged before its endpoints |
| `AllOrNothingHolds` | a batch is in the log as its caller was told |
| `Refinement` | `GraphStore` implements `DeltaLog` |
| **GraphCacheProofs** | |
| `TypeCorrect` | `TypeOK` |
| `EntitiesFreshHolds` | a cached entity is current, about to be invalidated, or an exception of section 5 |
| `NeighborhoodInvariant` | what a traversal has read is a part of the graph's, or it was overtaken |
| `NeighborhoodsFreshHolds` | a cached neighborhood is exact, about to be invalidated, or an exception of section 5 |
| **SearchAndSnapshotProofs** | |
| `TypeCorrect` | `TypeOK` of `SearchIndex` |
| `StaleIsScheduledHolds` | a stale document is scheduled or known to be missed |
| `DocumentsAdvanceAlways` | no document is replaced by an older one |
| `SnapshotTypeCorrect` | `SnapshotTypeOK` |
| `SnapshotsCoverAlways` | a snapshot has the tables at its position, or later rows of the same ids |
| `RestoredIsCurrentHolds` | a graph restored now has every id, its current row first |
| `CleanSnapshotsExactHold` | a snapshot that no commit interfered with, dated after the log as text, is the replayed log |
| **OrchestratorProofs** | |
| `TypeCorrect` | `TypeOK` of `IngestionRun` |
| `NothingSkippedHolds` | no position is passed whose files the sink has not accepted |
| `SinkNotBehindHolds` | the graph is behind the checkpoint only where runs overlapped or a batch came late |
| `RunnerTypeCorrect` | `RunnerTypeOK`: among others, no more goroutines hold a slot than there are |
| `DependenciesFirstHolds` | an ingestor starts after all that is upstream of it has succeeded |
| `FailureContainedHolds` | at the end, what did not run has a failure upstream of it |
| **PipelineProofs** | |
| `TypeCorrect` | `TypeOK` |
| `OneEntityPerNameHolds` | two rows of the graph never have one name |
| `ReplacesWhatWasListedHolds` | a listed row is overwritten only while it is still that row |
| `SuccessIsShownHolds` | a batch answered with success is in the graph, or was overtaken |
| `RefusalsExplainedHolds` | storage refuses a batch for one of three reasons only |
| **AnalyticsProofs** | |
| `TypeCorrect` | `TypeOK`: among others, no node is on the stack twice |
| `AuditImplementsComponents` | `Audit` finds the cyclic components, whole and no others |
| `BlastRadiusReportsBest` | the impact analysis reports each node's likeliest path |
| **WikiProofs** | |
| `WikiTypeCorrect` | `TypeOK`: among others, no more topics than the cap and Misc |
| `DescribedOnceHolds` | an answer describes each listed entity in one topic, at the listed version, with the listed relationships or an exception of section 5 |
| **CommandProofs** | |
| `SupervisorTypeCorrect` | `SupervisorTypeOK` |
| `NothingLeftHolds` | no child outlives `main()`, and no service but behind a `go run` |
| `TypeCorrect` | `TypeOK` of `CommandLine` |
| `TrueVerdictsHold` | a verdict was true, or a zone failed and the command lets that pass |
| `RepliesImplemented` | `CommandLine` implements `RequestReply` |

Each module proves `Init => IInv` (`InitIInv`), `IInv /\ [Next]_vars => IInv'` (one lemma
for each action or kind of step) and, of its theorems, `IInv => property`. The inductive
invariants are what the code relies on without saying it:

* **GraphStore**, from `RowsAssumption` (entity and relationship ids are disjoint, `BadData`
  is not valid, supplied versions are integers, `NoRow` is not a row) and
  `ClientsAssumption` (`NoClient` and `NoResult` are none of the values they are told
  from, the bounds are naturals). COMMIT makes the open transaction's rows and log the
  committed ones, so what holds of the committed pair must hold of the open pair.
  `IInv` is `TypeOK`; `Good` of both pairs: rows and log agree (`Projects`,
  `Chained`), versions grow, every endpoint of a row is a row (`Closed`) and comes
  first in the log (`Rooted`); and `TxExtends`: the open log is the committed one
  followed by entries of this transaction, whose number no committed entry has.
  `WriteIsGood` shows that one write keeps `Good`, and `UpsertEntityRows`,
  `UpsertRelationshipRows` and `DeletedRows` that the handlers write rows of that kind.
  `NoLostUpdate` follows from the chain and the growth of versions, `Refinement` from
  `TxExtends`, which makes a commit's new entries one block of one transaction.
  `AllOrNothing` adds `Counted`: every answer is of an earlier transaction than the open
  one, which has no entry in the committed log yet (`OpenIsEmpty`).
* **GraphCache**, from `CacheAssumption` (what is on disk at the start is rows and
  edges between them, a neighborhood asked for has a depth of 0 to 5, the markers are none
  of the values they are told from). `EntitiesFresh` is of what is cached; `IInv` adds the
  same of what a reader has in hand (`Trusted`): the row it has read is current, or an
  invalidation of it is pending, or has overtaken it, from its query to its fill. The
  step that could break it is a handler's invalidation, after which nothing is pending:
  it deletes what is cached and overtakes what is in hand at once, under the cache's lock.
  For `NeighborhoodsFresh`, `NInv` says how far a traversal has come (`Gathered`): with
  `Ball` the nodes nearer to the origin than j, those nodes are loaded, the edges of all but
  the frontier are followed, and what is being loaded is what these lead to. Holding that
  while other writers commit needs the invalidation rule itself (`Untouched`): a batch
  of which nothing is due to what was read has changed no edge at a node that was
  expanded, so the balls are the same in both graphs (`SameBall`). An edge read in an
  entry is at one of its nodes (`Anchored`), so an edge that changes in place makes the
  entry due by that node; only one that moves away from both does not. A metrics sample of a
  relationship resolves its endpoints when the hook runs, so it counts as pending
  in `NeighborhoodsFresh` and not in `NInv` (`Due`): no traversal needs it. Endpoints are
  rows (`Linked`), so a load never comes back empty but at the origin.
* **SearchIndex**, from `IndexAssumption` (the queue has room for one id). The worker
  forgets the id when it writes a row that it read before, so `StaleIsScheduled` needs
  `ReadIsFollowed`: what the worker has read is the row, or a later commit's id follows
  it. `InOrder` puts what it is about to write between document and row, hence
  `DocumentsAdvance`.
* **SnapshotStore**, from `SnapshotAssumption` (entity and relationship ids are disjoint, the
  least unit of time is a tick, none is more than a second).
  Its invariant `SnapshotsCover` says of a snapshot, while its tables are read and ever
  after, that no id of the log up to its position is missing and that no row is older than
  it, whatever commits came between its three queries (`AreBetween`); that with no commit
  between them its rows are the tables at the position (`AreTables`), and no entry up to
  the position is, as text, dated after it. Nothing is known of the order of the log's times. What is restored is an induction over the log: an entry replayed on rows that
  lie between it and the end leaves such rows, first of each id (`ReplayEntryKeepsFirst`),
  though replaying a creation again appends a second row; an entry replayed on the tables
  before it gives the tables after it (`ReplayEntryGivesTables`). Behind the position of a clean snapshot
  both replays take the same entries and leave out the same ones, whichever those are. Then the rows
  are tables no longer, but still the same in both (`Alike`), in orders that may
  differ, with one row for an id (`ReplayEntryPlacesRow`).
* **IngestionRun**, from `RunAssumption` (there is one commit at least, and a deleted file
  has no content). What is passed next is what a run in flight has in hand, so `IInv`
  says of every position in hand that the sink has what it needs (`RunCovered`), before
  the checkpoint and the ledger have it. For `SinkNotBehind` a run that has overlapped
  none is alone (`Alone`), and who saves has published last (`SavesPublished`), or a batch that
  overlapped it or came late has.
* **Runner**, from `RunnerAssumption` (there are finitely many ingestors, and the unknown
  name is none of them). `IInv` says of each ingestor that it waits, was started, or was
  skipped with a failure on record upstream of it (`Waits`, `Started`, `WasSkipped`), and
  ties the goroutine's progress to what `done` and `ran` show of it (`Progress`): who was
  started has dependencies that succeeded. `Upstream` is the least set that is closed under
  dependencies, so `DependenciesFirst` follows because those that succeeded are a closed
  set, at any distance. One pass of the dispatcher marks ingestors one after another, each
  on what the ones before it left; `SkippedFollows` shows that every mark it makes, by
  however long a chain within the pass, comes from a failure that was there before it.
* **Pipeline**, from `RowsAssumption` and `PipelineAssumption` (a relationship's id is its
  pair of ends, a batch names one record at least). `Known` is stable: an id is registered
  under its name once and for all, so what a handler has resolved, and the ends of what it
  has accepted, stay registered while it goes on (`Sound`), and only registered ids reach
  the graph, one for each name. What it has listed is told from what storage has now by the
  version (`Fresh`). `ApplyAllIs` is about storage's transaction, whatever the length and
  order of the batch: `Then` says what the mutations up to the k-th have made of the rows,
  `Refused` which mutation stopped it, on which rows. `SuccessIsShown` follows from the first,
  `RefusalsExplained` from the second, with the entities' place before the relationships.
* **Analytics**, from `AnalyticsAssumption` (finitely many nodes and at least one, weights of 1 to 20
  twentieths). For the audit, `Search` is the invariant of Tarjan's algorithm with its calls made
  explicit. Numbers are given once, stack and calls are in their order (`NumberedOnce`,
  `InNumberOrder`); each node on the stack leads to a call under it and every call under it
  leads to the node (`Entangled`); nothing leads out of what is found (`Followed`). A lowlink is
  the number of a node on the stack that can be reached (`LowReached`), and that of a call
  covers every arc that was looked at above it, up to the next call (`LowCovers`). When a call
  returns with its lowlink at its own number, `LowCovers` shows that nothing leads from
  there down the stack (`RootCloses`), so what is popped is a whole component
  (`RootComponent`); otherwise `LowReached` names the lower node to which all of it leads. `Components`
  defines what is reached as the least closed set, so no argument counts the edges of a path.
  For the impact analysis, `Spread` is the invariant of a search by depth in which a node may
  come up again. `Wave(c)`: the frames are of depth c, then c + 1; every path of at most c edges that is not
  cut off has been visited with its probability or has a frame of depth c, and so with one
  more edge from whatever is visited (`Awaited`). When the last frame of depth c is gone the wave is at
  c + 1 (`Advance`): a path is no likelier than its beginning, so one that is not cut off has
  none of its beginnings cut off. `NothingInvented` bounds from above what is followed and
  reported. A change of the graph lowers the least weights and raises the greatest, and
  likelier edges make likelier paths (`PathsRise`). At the end `ByImpactSorts` shows that sorting loses nothing
  and puts a node's best entry before its others.
* **Wiki**, from `WikiAssumption` (finitely many entities; the directories by name, none twice,
  Misc among them). What `Segment` returns is an argument of its own: `Larger` orders the
  directories strictly and totally, and a finite set can be put in such an order by counting, for each
  element, how many are before it (`Arranged`), so that the sort and the search for the best
  neighbor choose something. Each pass keeps the entities divided among the buckets
  (`MergeDivides`), and what `CapTopics` leaves beside Misc is among the first `MaxTopics`
  directories (`CapTopicsDivides`); so every listed entity is in one topic (`SegmentCovers`).
  `DescribedOnce` speaks of answers. `IInv` says the same of a call on its way: a page that
  it has placed describes its topic at the listed versions, unless a topic with the same
  slug has replaced it (`Placed`). It stays so while the graph moves and other calls
  write the files, because a hit compares the hash of what is in the file now
  with the call's own listing.
* **Supervisor**, from `SupervisorAssumption` (the list of services has none twice, and
  the last is not vital). What `main()` has not come to has no child (`StartedInOrder`),
  an orphan has a `go run` or a kill as its cause (`Excused`), and `main()` exits with
  every child waited for.
* **CommandLine**, from `CommandLineAssumption` (`Free` is no job). The refinement needs
  that lines in the input are requests sent once (`Queued`), that who writes holds the
  mutex (`Writers`) and that standard output is whole lines but for the last half of
  the holder's (`Halves`). The verdicts need `Honest`: what a job has seen was so, and what
  its calls so far have not shown it may leave out, both of what it counts; and `Legal` of every table of calls: a
  job that insists on a fact fails where the call for it does.

Six of the arguments are inductions over data: the entries of a plan, the mutations of a
batch, the depths of a neighborhood, the entries that a replay goes through, the
directories that a pass merges, and the depths of an impact analysis. The library's
induction theorems take an operator and cannot be used, so `LeastFailure` takes the set of
numbers at which a statement fails, and shows with the well-foundedness of `<` that it is
empty; the impact analysis has six depths, so `UpToFive` takes them one by one.

*Model-checked only.* Liveness under fairness is out of the prover's reach: `CatchesUp`,
`Termination`, `StopsAll`, `NotAdopted`, `EveryAnswered`. Every other property
of a passing run is a theorem.

## 5. What the models show about the code

One run finds the violation of a sentence of the repository, which the finding in
`PROJECT.json` quotes:

* `snapshots_differ`: a snapshot dated in the past, or read while batches commit, holds rows
  newer than its log position; replay then appends them again. Times are compared as text, so
  that the last entry of the log may come, as text, after a snapshot that is taken later
  (`snapshot/store.go:55`): then a snapshot of the present with which nothing interfered leaves
  out of its position what its tables have, too.

The properties of the passing runs state what remains true, and name each known way in
which the code goes wrong as an exception, so that there is no further one:

* `EntitiesFresh` excepts the fill of an overtaken reader: `GetEntity` (`graphdb/query.go:29`) fills
  the cache with a row it read before another handler's commit and invalidation, and the old
  row is served until its TTL ends. It also excepts the sample of a row whose metrics
  query failed: `injectMetricsSummary` drops the error (`graphdb/query.go:59`), and the row is
  cached without its sample until its TTL ends or the entity is invalidated.
* `NeighborhoodsFresh` excepts these, and an edge that has moved: an upsert that gives it new
  endpoints (`mutation/api.go:273`) invalidates the new ones only.
* `CleanSnapshotsExact` is about snapshots with which nothing interfered and which, as text, are
  dated after the whole log, so it excepts what `snapshots_differ` shows.
* `RestoredIsCurrent` is about times that are, as text, after the whole log: an `as_of` of the
  present need not be.
* `NothingSkipped` excepts files hidden by a push: HEAD moves between `rev-parse` and the
  listing (`ingestor/git.go:158`), and a file that is gone in between and comes back as it
  was is never emitted.
* `SinkNotBehind` excepts a batch applied after its run had given up on it
  (`delivery/zone3.go:25`), and runs that overlapped: nothing serializes two runs of one
  ingestor (`orchestrator/runner.go:232`), so the older batch may be published last
  while the newer checkpoint is saved last.
* `ReplacesWhatWasListed` excepts rows that a listing did not show, and
  `RefusalsExplained` names what one record can do to its batch.
* `StopsAll` and `NotAdopted` except a child that a signal killed, or that ended with
  status 0 because somebody sent it a SIGTERM (`storaged/main.go:29`): it is taken for a part of a
  shutdown (`cmd/archgraph/main.go:87`) and does not bring the others down.
  `NothingLeft` excepts services behind a `go run` that was killed.
* `TrueVerdicts` excepts the commands and tools that read a failed call as an empty
  answer: all MCP tools ignore the status of serving's answer
  (`archgraph-cli/main.go:1320`), `validate` skips the owner rule when storage does not
  list (`:483`), and `analyze-pr` prints "Architecture Governance Clean" after
  an audit that failed or a file that it gave up on (`:2581`). It also excepts the facts that
  `validate` has seen and no rule makes a failure or a warning (`Denied`): supernodes, and
  everything if the configuration has no rules. It prints "Architecture validation passed. No
  violations." over them (`:553`).
* `EveryAnswered` names why the server may end with requests unanswered (`EndExplained`): the client
  closes standard input, or sends a line that does not fit the buffer, or serving answers
  `archgraph_blast_radius` with an error, as it does for an unknown entity. The error's JSON decodes
  as a report without an origin, `br.Origin.CanonicalName` panics (`archgraph-cli/main.go:1510`),
  and nothing recovers the panic.
* `DescribedOnce` excepts directories with one slug, of whose pages only the last is kept
  (`wiki/topics.go:248`, though `wiki/generate.go:30` says "Page per topic"), lets a
  cached page show relationships that are gone, and an outline none at all (`wiki/generate.go:134`).

Observations without a run: a failed COMMIT returns an error beside a result
whose status is SUCCESS (`mutation/api.go:125`; `CommitFails` models it, and the
HTTP handler looks at the error first); an `as_of` includes the entries whose times begin
with its digits, those of a whole second if it has no fraction (`TextUpTo`); `git diff --name-only` lists
deleted paths and the ingestor emits them as present (`Changed`); a clone of a
`remote_url` is fetched and never moved, so its HEAD stays where it was; no
ingestor declares dependencies, so the AST ingestors race the clone; nothing
reads the dead-letter queue; a new row keeps a version the caller supplied, though
`graphdb/store.go:107` says it is set to 1 (`NextVersion`).

Of the pipeline: one record with a name over 256 characters, or one relationship to an
entity that is registered and was never stored, makes storage refuse the whole
batch, where `documentation/pipeline.md:1499` says never to fail the whole pipeline
for one record. The entity may be registered because its name is blank (stage 5 drops
it, after stage 2 registered it) or because an earlier batch failed after stage 2.
A registry lookup that fails in stage 5 counts as "not found": the relationship is
dropped and the answer is still a success (`Check`). A row that is not among the
5000 entities or 20000 relationships listed, or that another batch has just
created, is overwritten without a version.

Of the supervisor: `main.go:194` says "Give them up to 5s to exit cleanly, then
kill", but the children were started with `exec.CommandContext`, whose goroutine kills
them as soon as the context ends, before or beside the SIGTERM (`KillByContext`). Of
the command line: `archgraph_ask` answers "No answer was returned." to a question that
serving answers with an audit or an impact report, and an unknown notification is
answered, with a null id. Of analytics: `TotalAffected` counts a node again when it comes up
again likelier, and `analyze-pr` rates the risk by it; `ListRelationshipsByNamespace`
(`graphdb/query.go:111`) does not ask whether the endpoints are active, so a
cycle through deleted entities is reported; no degree is above the mean plus four standard
deviations in a graph of fewer than 18 nodes, though `health.go:88` guards against fewer
than 4. Of the wiki: two directories with one slug write their pages over each other, so
neither is ever found in the cache again; the comment at `links.go:71` says unknown
handles lose their brackets, and the code leaves them; the one at `topics.go:172` says the
smallest bucket comes first, and the code sorts the largest first.

## 6. Not modelled, and why

* **Metrics summaries, search matching, read handlers**: they read, and share no state.
* **The subgraph cache layer**: no code fills it.
* **Record translation in the sinks; the AST and OpenAPI parsers**: stateless data
  conversion, no property here tells its results apart.
* **Dead-letter queue**: write-only.
* **Two source ids that sanitize to one checkpoint file**, registration of ingestors at
  run time, traces, a clone of a `remote_url`: planned.
* **The pipeline's namespaces, the rule that only a team owns a service, source
  contributions**: ingestion relates records of one namespace only, the rule filters
  relationships one by one like the other checks of stage 5, and nothing reads the contributions.
* **Supernodes, shared databases, evolution**: counts over one listing.
* **The wiki's text**: prompts, links, markdown, and the cap on components in a page.
* **Log forwarding of the supervisor**; what the commands print; the dashboard and wiki
  web servers of the command line, which pass requests on.
* **Question answering, nif**: no state that any behaviour depends on.

## 7. Plan

Done, in this order: GraphRows, DeltaLog, GraphStore and its proofs (what all
others build on); GraphCache; SearchIndex; SnapshotStore; IngestionRun; Runner;
Pipeline; Supervisor; CommandLine over RequestReply; Analytics over Components; Wiki;
the proofs of section 4.

Next, most important first:

1. IngestionRun extended by registration, the remote clone as a state, checkpoint
   files of two sources; Runner composed with it.
2. The dashboard's ingestion endpoint of the command line, which starts runs.
