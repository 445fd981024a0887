----------------------------- MODULE CommandLine -----------------------------
(***************************************************************************)
(* archgraph-cli: its commands, and its MCP server on standard input and   *)
(* output.  A job is one command, or one line that an MCP client sends.    *)
(* Each asks serving and storage one call after the other, while the graph *)
(* moves and the two may fail, and ends in a verdict: nothing found,       *)
(* something found, or an error.                                           *)
(***************************************************************************)
EXTENDS Naturals, Sequences

CONSTANTS
    Jobs,
    Mix,         \* the kinds that each job may be of
    Free,        \* the write mutex, held by nobody
    MaxMoves     \* bound on the changes of the graph and of the zones

ASSUME CommandLineAssumption == Free \notin Jobs /\ MaxMoves \in Nat

VARIABLES
    kind,        \* what each job is
    hung,        \* questions to which the model's answer never comes
    rule,        \* what .archgraph.yaml makes of a fact: "FAIL", "WARN", "none"
    graph,       \* the facts that hold of the graph
    zone,        \* serving and storage: "up", "failing" (5xx), "down"
    moves,       \* changes of graph and zone so far
    open,        \* whether the client keeps standard input open
    input,       \* lines sent and not read
    loop,        \* the scanner loop: "reading", "done"; the server: "exited", "panicked"
    pc,          \* each job's goroutine, or process
    next,        \* the call that it makes next
    seen,        \* the facts that its calls have shown it
    verdict,
    stdout,      \* what is written, each answer as two halves
    mcpWriteMu,
    lived        \* auxiliary: the worlds that each job has lived through

world == <<graph, zone, moves>>
server == <<open, input, loop>>
vars == <<kind, hung, rule, world, server, pc, next, seen, verdict, stdout, mcpWriteMu, lived>>

-----------------------------------------------------------------------------
(* The calls that each kind of job makes. *)

\* A smell that the audit reports, a service without an owner, a caller that
\* an impact analysis reports, an alert of a diff.
Facts == {"smell", "unowned", "callers", "alert"}

\* A call to a zone whose answer shows a fact ("none": no verdict hangs on it;
\* "entity": it looks for the entity of a file), and what follows from an
\* error status and from no answer: the job fails, or goes on as if the answer
\* were empty, or gives up what is left, or takes the whole server with it.
CallTo(z, fact, onStatus, onDown) ==
    [zone |-> z, fact |-> fact, onStatus |-> onStatus, onDown |-> onDown]

\* The MCP tools and resources do not look at a status: the error's JSON
\* decodes as an empty report.
AuditTool == << CallTo("serving", "smell", "empty", "fail") >>
DiffTool == << CallTo("serving", "alert", "empty", "fail") >>
SuggestionsTool ==
    << CallTo("serving", "smell", "empty", "fail"),
       CallTo("storage", "unowned", "empty", "empty") >>
\* An empty report has no origin, and br.Origin.CanonicalName panics.
BlastTool ==
    << CallTo("storage", "entity", "fail", "fail"),
       CallTo("serving", "callers", "panic", "fail") >>
AskTool == << CallTo("serving", "none", "empty", "fail") >>
DriftLog == << CallTo("storage", "none", "empty", "fail") >>

\* The tool and the command.
Document ==
    << CallTo("storage", "none", "fail", "fail"),
       CallTo("serving", "smell", "empty", "empty"),
       CallTo("serving", "none", "empty", "empty") >>

\* Broken: validate reads the report of a failed audit.
ValidateLeniently ==
    << CallTo("serving", "smell", "empty", "fail"),
       CallTo("storage", "unowned", "empty", "empty") >>

\* The commands.
Validate ==
    << CallTo("serving", "smell", "fail", "fail"),
       CallTo("storage", "unowned", "empty", "empty") >>
Impact ==
    << CallTo("storage", "entity", "fail", "fail"),
       CallTo("serving", "callers", "fail", "fail") >>
Diff == << CallTo("serving", "alert", "fail", "fail") >>
Query == << CallTo("serving", "none", "fail", "fail") >>
Graph == << CallTo("storage", "none", "fail", "fail") >>

\* One modified file, and the smells of its entity.  Where the file's impact
\* is given up the audit is still asked for, but no smell counts.
AnalyzePR ==
    << CallTo("storage", "entity", "skip", "skip"),
       CallTo("serving", "none", "empty", "skip"),
       CallTo("serving", "callers", "empty", "skip"),
       CallTo("serving", "smell", "empty", "empty") >>

McpCalls ==
    [audit |-> AuditTool, get_diff |-> DiffTool, suggestions |-> SuggestionsTool,
     blast_radius |-> BlastTool, ask |-> AskTool, log |-> DriftLog,
     doc |-> Document,
     \* initialize, the lists, the schema, an unknown method, invalid parameters
     local |-> << >>,
     \* no JSON, a line over 64 KB, and a notification, which nobody answers
     malformed |-> << >>, oversized |-> << >>, initialized |-> << >>]

CommandCalls ==
    [validate |-> Validate, impact |-> Impact, diff |-> Diff, query |-> Query,
     graph |-> Graph, document |-> Document, analyze_pr |-> AnalyzePR]

Kinds == DOMAIN McpCalls \cup DOMAIN CommandCalls

IsMcp(j) == kind[j] \in DOMAIN McpCalls
Calls(j) == IF IsMcp(j) THEN McpCalls[kind[j]] ELSE CommandCalls[kind[j]]

\* The facts that j's verdict is about.
Judged(j) == {Calls(j)[i].fact : i \in DOMAIN Calls(j)} \cap Facts

\* The facts that matter to some job.
Asked == UNION {Judged(j) : j \in Jobs}

Now == [graph |-> graph, zone |-> zone]

Rules == [{"smell", "unowned"} -> {"FAIL", "WARN", "none"}]

Init ==
    /\ kind \in [Jobs -> Kinds] /\ \A j \in Jobs : kind[j] \in Mix[j]
    /\ hung \in SUBSET {j \in Jobs : kind[j] \in {"ask", "query"}}
    /\ rule \in Rules
    /\ (\E j \in Jobs : kind[j] = "validate") \/ \A f \in DOMAIN rule : rule[f] = "none"
    /\ graph \in SUBSET Asked
    /\ zone = [z \in {"serving", "storage"} |-> "up"]
    /\ moves = 0
    /\ open = TRUE
    /\ input = << >>
    /\ loop = "reading"
    /\ pc = [j \in Jobs |-> "new"]
    /\ next = [j \in Jobs |-> 1]
    /\ seen = [j \in Jobs |-> {}]
    /\ verdict = [j \in Jobs |-> "none"]
    /\ stdout = << >>
    /\ mcpWriteMu = Free
    /\ lived = [j \in Jobs |-> {}]

-----------------------------------------------------------------------------
(* The client and the world. *)

Send(j) ==
    /\ open /\ IsMcp(j) /\ pc[j] = "new"
    /\ input' = Append(input, j)
    /\ pc' = [pc EXCEPT ![j] = "sent"]
    /\ UNCHANGED <<kind, hung, rule, world, open, loop, next, seen, verdict, stdout, mcpWriteMu, lived>>

CloseInput ==
    /\ open
    /\ open' = FALSE
    /\ UNCHANGED <<kind, hung, rule, world, input, loop, pc, next, seen, verdict, stdout,
                   mcpWriteMu, lived>>

\* A fact comes or goes, a zone fails or recovers.  What happens while no job
\* runs is in the world that the next one finds.
Move ==
    /\ moves < MaxMoves /\ \E j \in Jobs : pc[j] = "running"
    /\ moves' = moves + 1
    /\ \/ \E f \in Asked :
             /\ graph' = IF f \in graph THEN graph \ {f} ELSE graph \cup {f}
             /\ UNCHANGED zone
       \/ \E z \in DOMAIN zone : \E state \in {"up", "failing", "down"} \ {zone[z]} :
             /\ zone' = [zone EXCEPT ![z] = state]
             /\ UNCHANGED graph
    /\ lived' = [j \in Jobs |-> IF pc[j] = "running" THEN lived[j] \cup {Now'} ELSE lived[j]]
    /\ UNCHANGED <<kind, hung, rule, server, pc, next, seen, verdict, stdout, mcpWriteMu>>

-----------------------------------------------------------------------------
(* Reading. *)

\* j is answered without a call, or has its first call before it.
Begin(j) ==
    /\ pc' = [pc EXCEPT ![j] = IF Calls(j) = << >> THEN "answering" ELSE "running"]
    /\ lived' = [lived EXCEPT ![j] = {Now}]

\* The scanner loop writes the answer to a malformed line itself.
LoopIsFree == \A j \in Jobs : kind[j] = "malformed" => pc[j] \notin {"answering", "writing"}

\* handleMCP: each line gets a goroutine.  A line that does not fit the
\* scanner's buffer ends the loop.
ReadLine ==
    /\ loop = "reading" /\ input # << >> /\ LoopIsFree
    /\ LET j == Head(input) IN
          \/ /\ kind[j] \notin {"oversized", "initialized"}
             /\ Begin(j)
             /\ input' = Tail(input)
             /\ UNCHANGED loop
          \/ /\ kind[j] = "initialized"
             /\ pc' = [pc EXCEPT ![j] = "ignored"]
             /\ input' = Tail(input)
             /\ UNCHANGED <<loop, lived>>
          \/ /\ kind[j] = "oversized"
             /\ loop' = "done"
             /\ UNCHANGED <<input, pc, lived>>
    /\ UNCHANGED <<kind, hung, rule, world, open, next, seen, verdict, stdout, mcpWriteMu>>

EndOfInput ==
    /\ loop = "reading" /\ input = << >> /\ ~open /\ LoopIsFree
    /\ loop' = "done"
    /\ UNCHANGED <<kind, hung, rule, world, open, input, pc, next, seen, verdict, stdout,
                   mcpWriteMu, lived>>

\* The process of the server is gone, and the goroutines with it.
End(how) ==
    /\ loop' = how
    /\ pc' = [j \in Jobs |-> IF IsMcp(j) /\ pc[j] \in {"running", "answering", "writing"}
                             THEN "dropped" ELSE pc[j]]

\* handleMCP returns, and main returns.
Exit ==
    /\ loop = "done" /\ End("exited")
    /\ UNCHANGED <<kind, hung, rule, world, open, input, next, seen, verdict, stdout,
                   mcpWriteMu, lived>>

\* main: a command is a process of its own.
StartCommand(j) ==
    /\ ~IsMcp(j) /\ pc[j] = "new"
    /\ Begin(j)
    /\ UNCHANGED <<kind, hung, rule, world, server, next, seen, verdict, stdout, mcpWriteMu>>

-----------------------------------------------------------------------------
(* The calls of a job. *)

\* Serving answers with an error when storage does not answer it.  An entity
\* of which nothing is to be found may not be there either.
Outcomes(j) ==
    LET call == Calls(j)[next[j]] IN
    IF zone[call.zone] = "down" THEN {call.onDown}
    ELSE IF zone[call.zone] = "failing" \/ zone["storage"] # "up" THEN {call.onStatus}
    ELSE {"answered"} \cup {s \in {call.onStatus} :
             call.fact \in {"entity", "callers"} /\ graph \cap Judged(j) = {}}

\* Of what validate has seen it counts what a rule makes a failure or a
\* warning, and prints that all is well if nothing is left.
Counted(j, facts) ==
    IF kind[j] = "validate" THEN {f \in facts : rule[f] # "none"} ELSE facts

\* The job has made its last call.  Only validate rejects a commit.
Conclude(j, facts, error) ==
    /\ verdict' = [verdict EXCEPT ![j] =
           IF error THEN "error"
           ELSE IF Counted(j, facts) = {} THEN "clean"
           ELSE IF kind[j] = "validate" /\ \E f \in facts : rule[f] = "FAIL" THEN "rejected"
           ELSE "found"]
    /\ pc' = [pc EXCEPT ![j] = IF IsMcp(j) THEN "answering" ELSE "answered"]

\* Broken: a call without an answer is left out with the one after it.
MakeCallOrSkip(j) ==
    /\ pc[j] = "running" /\ j \notin hung
    /\ \E outcome \in Outcomes(j) \ {"panic"} :
          /\ next' = [next EXCEPT ![j] = @ + IF outcome = "answered" THEN 1 ELSE 2]
          /\ Conclude(j, seen[j], outcome = "fail")
    /\ UNCHANGED <<kind, hung, rule, world, server, seen, stdout, mcpWriteMu, lived>>

MakeCall(j) ==
    /\ pc[j] = "running" /\ j \notin hung
    /\ \E outcome \in Outcomes(j) \ {"panic"} :
       LET shown == IF outcome = "answered" THEN graph \cap {Calls(j)[next[j]].fact} ELSE {}
           last == next[j] = Len(Calls(j)) \/ outcome \in {"fail", "skip"}
       IN  /\ seen' = [seen EXCEPT ![j] = @ \cup shown]
           /\ next' = [next EXCEPT ![j] = @ + 1]
           /\ \/ last /\ Conclude(j, seen'[j], outcome = "fail")
              \/ ~last /\ UNCHANGED <<pc, verdict>>
    /\ UNCHANGED <<kind, hung, rule, world, server, stdout, mcpWriteMu, lived>>

\* Nothing recovers a panic of a handler.
Panic(j) ==
    /\ IsMcp(j) /\ pc[j] = "running" /\ "panic" \in Outcomes(j)
    /\ End("panicked")
    /\ UNCHANGED <<kind, hung, rule, world, open, input, next, seen, verdict, stdout,
                   mcpWriteMu, lived>>

Gone == loop \in {"exited", "panicked"}

\* Broken: without the mutex.
WriteAtOnce(j) ==
    /\ ~Gone
    /\ pc[j] = "answering"
    /\ stdout' = Append(stdout, j)
    /\ pc' = [pc EXCEPT ![j] = "writing"]
    /\ UNCHANGED <<kind, hung, rule, world, server, next, seen, verdict, mcpWriteMu, lived>>

\* sendResult and sendError
BeginWrite(j) ==
    /\ ~Gone
    /\ pc[j] = "answering" /\ mcpWriteMu = Free
    /\ mcpWriteMu' = j
    /\ stdout' = Append(stdout, j)
    /\ pc' = [pc EXCEPT ![j] = "writing"]
    /\ UNCHANGED <<kind, hung, rule, world, server, next, seen, verdict, lived>>

\* Broken: the mutex is not released.
EndWriteLocked(j) ==
    /\ pc[j] = "writing"
    /\ stdout' = Append(stdout, j)
    /\ pc' = [pc EXCEPT ![j] = "answered"]
    /\ UNCHANGED <<kind, hung, rule, world, server, next, seen, verdict, mcpWriteMu, lived>>

EndWrite(j) ==
    /\ pc[j] = "writing"
    /\ mcpWriteMu' = Free
    /\ stdout' = Append(stdout, j)
    /\ pc' = [pc EXCEPT ![j] = "answered"]
    /\ UNCHANGED <<kind, hung, rule, world, server, next, seen, verdict, lived>>

-----------------------------------------------------------------------------

Step(j) == StartCommand(j) \/ MakeCall(j) \/ Panic(j) \/ BeginWrite(j) \/ EndWrite(j)

Read == ReadLine \/ EndOfInput \/ Exit

Next == CloseInput \/ Move \/ Read \/ \E j \in Jobs : Send(j) \/ Step(j)

\* The loop and the goroutines run.  Waiting for the mutex needs no more than
\* weak fairness: a job takes it once, so that it stays free in the end.
Spec ==
    /\ Init /\ [][Next]_vars
    /\ WF_vars(Read) /\ \A j \in Jobs : WF_vars(Step(j))

-----------------------------------------------------------------------------

TypeOK ==
    /\ kind \in [Jobs -> Kinds]
    /\ hung \subseteq Jobs
    /\ rule \in Rules
    /\ graph \subseteq Facts
    /\ zone \in [{"serving", "storage"} -> {"up", "failing", "down"}]
    /\ moves \in 0 .. MaxMoves
    /\ open \in BOOLEAN
    /\ input \in Seq(Jobs)
    /\ loop \in {"reading", "done", "exited", "panicked"}
    /\ pc \in [Jobs -> {"new", "sent", "running", "answering", "writing", "answered",
                        "ignored", "dropped"}]
    /\ \A j \in Jobs : next[j] \in 1 .. Len(Calls(j)) + 1
    /\ seen \in [Jobs -> SUBSET Facts]
    /\ verdict \in [Jobs -> {"none", "clean", "found", "rejected", "error"}]
    /\ stdout \in Seq(Jobs)
    /\ mcpWriteMu \in Jobs \cup {Free}
    /\ \A j \in Jobs : \A w \in lived[j] :
          w.graph \subseteq Facts /\ w.zone \in [{"serving", "storage"} -> {"up", "failing", "down"}]

\* A command that exits with an error rather than say something of a fact it
\* could not look up.
Insists ==
    [k \in Kinds |->
        IF k = "validate" THEN {"smell"}
        ELSE IF k = "impact" THEN {"callers"} ELSE IF k = "diff" THEN {"alert"} ELSE {}]

\* The facts that j's verdict denies.  A clean one of validate says nothing of
\* what no rule makes a failure or a warning (supernodes; everything, where
\* .archgraph.yaml has no rules), and one that lets the commit pass with
\* warnings denies the failures.
Denied(j) ==
    {f \in Judged(j) :
        \/ verdict[j] = "clean" /\ f \in Counted(j, {f})
        \/ verdict[j] = "found" /\ kind[j] = "validate" /\ rule[f] = "FAIL"}

\* The facts for one of which j's verdict stands.
Affirmed(j) ==
    {f \in Counted(j, Judged(j)) : verdict[j] = "rejected" => rule[f] = "FAIL"}

\* A verdict was true of each fact at some moment of the job, though its calls
\* come one after the other.  Only a zone that failed meanwhile excuses one
\* that denies what was so all the time, and it does not excuse validate,
\* which gates commits, about smells, nor impact and diff.
TrueVerdicts ==
    \A j \in Jobs :
        /\ \A f \in Denied(j) :
              \/ \E w \in lived[j] : f \notin w.graph
              \/ /\ f \notin Insists[kind[j]]
                 /\ \E w \in lived[j] : \E z \in DOMAIN w.zone : w.zone[z] # "up"
        /\ verdict[j] \in {"found", "rejected"} =>
              \E f \in Affirmed(j), w \in lived[j] : f \in w.graph

Stage(j) ==
    IF ~IsMcp(j) \/ pc[j] \in {"new", "sent", "ignored"} THEN "new"
    ELSE IF pc[j] \in {"running", "answering", "writing"} THEN "pending" ELSE pc[j]

\* The lines of standard output: the job whose answer it is, or a line torn
\* from two answers.
Lines ==
    [i \in 1 .. Len(stdout) \div 2 |->
        IF stdout[2 * i - 1] = stdout[2 * i] THEN stdout[2 * i] ELSE Free]

Replies == INSTANCE RequestReply WITH
    Requests <- Jobs,
    stage <- [j \in Jobs |-> Stage(j)],
    out <- Lines,
    stopped <- Gone

\* Every accepted request is answered once, by a line that no other answer
\* is mixed into, or is lost with the server.
RepliesSpec == Replies!Spec

\* What may end the server: the client closes standard input or sends a line
\* that is too long, or archgraph_blast_radius panics on an error status.
EndExplained ==
    \/ ~open
    \/ \E j \in Jobs : kind[j] = "oversized" /\ pc[j] = "sent"
    \/ loop = "panicked" /\ \E j \in Jobs : kind[j] = "blast_radius" /\ pc[j] = "dropped"

\* A request that was sent is answered, whatever else hangs, unless the server
\* ends, for one of three reasons.
EveryAnswered ==
    \A j \in Jobs : j \notin hung /\
        pc[j] \in {"sent", "running", "answering", "writing"}
        ~> pc[j] \in {"answered", "ignored"} \/ (loop # "reading" /\ EndExplained)

=============================================================================
