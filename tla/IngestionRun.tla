----------------------------- MODULE IngestionRun -----------------------------
(***************************************************************************)
(* Runner.runOne over the git ingestor of one source, whose repository     *)
(* moves on meanwhile.  POST /v1/runs and the GitHub webhook each start a  *)
(* run of their own and nothing keeps two runs apart, so several instances *)
(* of runOne share the checkpoint file.                                    *)
(* A position is a commit, numbered from 1; 0 is the empty checkpoint.     *)
(* Left out: the dead-letter queue, which nothing reads, per-record        *)
(* validation, which no record of the git ingestor fails, and the position *)
(* a run began at in its ledger entry.                                     *)
(***************************************************************************)
EXTENDS Integers, Sequences, FiniteSets

CONSTANTS
    Files,      \* paths
    Contents,   \* what a file may hold
    Gone,       \* a path that a commit does not have
    Runs,       \* runs in flight
    MaxCommits  \* bound: commits in the repository

ASSUME RunAssumption == Gone \notin Contents /\ MaxCommits \in Nat \ {0}

VARIABLES
    history,    \* the tree of each commit; the last one is HEAD
    ckpt,       \* the position in the checkpoint file
    sink,       \* the project's head_sha in the graph, and whether the batch it
                \* is from overlapped another run
    ledger,     \* the newest entry of the ledger
    run,        \* run[r]: one runOne in progress, or Idle
    published,  \* auxiliary: the files, with their contents, that the sink
                \* accepted from a run in progress
    hidden,     \* auxiliary: those that a commit hid from a listing
    late        \* the commit of a batch on its way to the sink that its run has
                \* given up on, or 0; bound: one such batch

vars == <<history, ckpt, sink, ledger, run, published, hidden, late>>

Idle == [at |-> "idle", base |-> 0, head |-> 0, files |-> {}, after |-> 0,
         status |-> "failed", overlapped |-> FALSE]

Tree == [Files -> Contents \cup {Gone}]

HEAD == Len(history)
Content(n, f) == IF n = 0 THEN Gone ELSE history[n][f]
Present(n) == {f \in Files : Content(n, f) # Gone}

\* git diff --name-only a..b, which lists deleted paths too.
Changed(a, b) == {f \in Files : Content(a, f) # Content(b, f)}

Init ==
    /\ history \in {<<t>> : t \in Tree}
    /\ ckpt = 0
    /\ sink = [head |-> 0, overlapped |-> FALSE]
    /\ ledger = [status |-> "failed", after |-> 0]
    /\ run = [r \in Runs |-> Idle]
    /\ published = {}
    /\ hidden = {}
    /\ late = 0

-----------------------------------------------------------------------------

\* Somebody moves HEAD of the repository.
Push ==
    /\ HEAD < MaxCommits
    /\ \E t \in Tree \ {history[HEAD]} : history' = Append(history, t)
    /\ UNCHANGED <<ckpt, sink, ledger, run, published, hidden, late>>

InFlight == {r \in Runs : run[r].at # "idle"}

\* RunAll starts the ingestor; every run in flight now overlaps another.
Begin(r) ==
    /\ r \notin InFlight
    /\ run' = [x \in Runs |->
           IF x = r THEN [Idle EXCEPT !.at = "load", !.overlapped = InFlight # {}]
           ELSE IF x \in InFlight THEN [run[x] EXCEPT !.overlapped = TRUE] ELSE run[x]]
    /\ UNCHANGED <<history, ckpt, sink, ledger, published, hidden, late>>

At(r, step) == run[r].at = step

\* What a run does next is append its ledger entry.
Finish(r, status, after) ==
    run' = [run EXCEPT ![r] =
        [at |-> "append", base |-> 0, head |-> 0, files |-> {}, after |-> after,
         status |-> status, overlapped |-> run[r].overlapped]]

Load(r) ==
    /\ At(r, "load")
    /\ run' = [run EXCEPT ![r] = [@ EXCEPT !.at = "rev-parse", !.base = ckpt]]
    /\ UNCHANGED <<history, ckpt, sink, ledger, published, hidden, late>>

\* Broken: the head is not kept.
RevParseOnly(r) ==
    /\ At(r, "rev-parse")
    /\ run' = [run EXCEPT ![r] = [@ EXCEPT !.at = "list"]]
    /\ UNCHANGED <<history, ckpt, sink, ledger, published, hidden, late>>

\* git rev-parse HEAD: the batch's label and its next checkpoint.
RevParse(r) ==
    /\ At(r, "rev-parse")
    /\ run' = [run EXCEPT ![r] = [@ EXCEPT !.at = "list", !.head = HEAD]]
    /\ UNCHANGED <<history, ckpt, sink, ledger, published, hidden, late>>

\* git ls-tree or git diff, a process of its own: HEAD may have moved.  A
\* diff that fails (an unknown checkpoint) is replaced by the whole tree.
List(r) ==
    /\ At(r, "list")
    /\ LET base == run[r].base
           head == run[r].head
       IN  \E files \in {Present(HEAD)} \cup
                        (IF base = 0 THEN {} ELSE {Changed(base, HEAD)}) :
             /\ run' = [run EXCEPT ![r] = [@ EXCEPT !.at = "publish", !.files = files]]
             /\ hidden' = hidden \cup
                  {<<f, Content(head, f)>> : f \in Changed(base, head) \ files}
    /\ UNCHANGED <<history, ckpt, sink, ledger, published, late>>

\* The checkpoint cannot be read, or a git command fails.
FetchFails(r) ==
    /\ run[r].at \in {"load", "rev-parse", "list"}
    /\ Finish(r, "failed", 0)
    /\ UNCHANGED <<history, ckpt, sink, ledger, published, hidden, late>>

\* The sink accepts the batch; its answer may get lost.
Publish(r) ==
    /\ At(r, "publish")
    /\ sink' = [head |-> run[r].head, overlapped |-> run[r].overlapped]
    /\ published' = published \cup
           {<<f, Content(run[r].head, f)>> : f \in run[r].files}
    /\ \/ run' = [run EXCEPT ![r] = [@ EXCEPT !.at = "save", !.files = {}]]
       \/ Finish(r, "failed", 0)
    /\ UNCHANGED <<history, ckpt, ledger, hidden, late>>

\* Broken: the run goes on after a failed delivery.
PublishGivesUp(r) ==
    /\ At(r, "publish")
    /\ run' = [run EXCEPT ![r] = [@ EXCEPT !.at = "save", !.files = {}]]
    /\ UNCHANGED <<history, ckpt, sink, ledger, published, hidden, late>>

\* The sink rejects the batch or cannot be reached; or the client gives up
\* after 30 s, with the batch still on its way.
PublishFails(r) ==
    /\ At(r, "publish")
    /\ Finish(r, "failed", 0)
    /\ late' \in {late, run[r].head}
    /\ UNCHANGED <<history, ckpt, sink, ledger, published, hidden>>

\* The sink applies a batch whose run has given up on it.
Arrives ==
    /\ late # 0
    /\ sink' = [head |-> late, overlapped |-> TRUE]
    /\ late' = 0
    /\ UNCHANGED <<history, ckpt, ledger, run, published, hidden>>

\* Broken: the checkpoint is where HEAD is by now.
SaveLatest(r) ==
    /\ At(r, "save")
    /\ ckpt' = HEAD
    /\ Finish(r, "success", run[r].head)
    /\ UNCHANGED <<history, sink, ledger, published, hidden, late>>

\* Checkpoint.Save, unless the position is the one that was loaded.
Save(r) ==
    /\ At(r, "save")
    /\ ckpt' = IF run[r].head = run[r].base THEN ckpt ELSE run[r].head
    /\ Finish(r, "success", run[r].head)
    /\ UNCHANGED <<history, sink, ledger, published, hidden, late>>

\* The temporary file cannot be written or renamed: the old one stays.
SaveFails(r) ==
    /\ At(r, "save")
    /\ run[r].head # run[r].base
    /\ Finish(r, "partial", run[r].base)
    /\ UNCHANGED <<history, ckpt, sink, ledger, published, hidden, late>>

\* finishEntry; an entry that cannot be appended is only logged.
AppendEntry(r) ==
    /\ At(r, "append")
    /\ \/ ledger' = [status |-> run[r].status, after |-> run[r].after]
       \/ ledger' = ledger
    /\ run' = [run EXCEPT ![r] = Idle]
    /\ UNCHANGED <<history, ckpt, sink, published, hidden, late>>

\* The process dies, or exits after 5 s with a webhook's run in flight; what
\* it was sending may be on its way.
Crash ==
    /\ InFlight # {}
    /\ run' = [r \in Runs |-> Idle]
    /\ late' \in {late} \cup {run[r].head : r \in {x \in Runs : At(x, "publish")}}
    /\ UNCHANGED <<history, ckpt, sink, ledger, published, hidden>>

Next ==
    \/ Push
    \/ \E r \in Runs :
          Begin(r) \/ Load(r) \/ RevParse(r) \/ List(r) \/ FetchFails(r)
          \/ Publish(r) \/ PublishFails(r) \/ Save(r) \/ SaveFails(r) \/ AppendEntry(r)
    \/ Arrives
    \/ Crash

Spec == Init /\ [][Next]_vars

-----------------------------------------------------------------------------

Status == {"success", "partial", "failed"}

RunState ==
    [at : {"idle", "load", "rev-parse", "list", "publish", "save", "append"},
     base : 0 .. HEAD, head : 0 .. HEAD, files : SUBSET Files, after : 0 .. HEAD,
     status : Status, overlapped : BOOLEAN]

\* A run past rev-parse knows the commit it labels its batch with.
TypeOK ==
    /\ history \in Seq(Tree) /\ history # << >>
    /\ ckpt \in 0 .. HEAD
    /\ sink \in [head : 0 .. HEAD, overlapped : BOOLEAN]
    /\ ledger \in [status : Status, after : 0 .. HEAD]
    /\ run \in [Runs -> RunState]
    /\ late \in 0 .. HEAD
    /\ \A r \in Runs : run[r].at \in {"list", "publish", "save"} => run[r].head > 0

\* Positions that the checkpoint file or a ledger entry says were processed.
Passed == {ckpt, ledger.after}

\* Every file of a commit that a checkpoint or a ledger entry has passed was
\* accepted by the sink, whatever runs overlapped, failed, were answered too
\* late or died in between; the one exception is a file that the listing did
\* not show because HEAD moved after rev-parse.
NothingSkipped ==
    \A n \in Passed : \A f \in Present(n) :
        <<f, Content(n, f)>> \in published \cup hidden

\* Delivery comes before the checkpoint: the graph's head_sha is never behind
\* the checkpoint, unless the batch it comes from overlapped another run or
\* reached the sink after its own run had given up on it.
SinkNotBehind == sink.head >= ckpt \/ sink.overlapped

=============================================================================
