---------------------------- MODULE CommandProofs ----------------------------
(***************************************************************************)
(* Theorems of the two commands.  Of CommandLine, archgraph-cli, for any   *)
(* number of jobs of any kinds, and a world that moves as often as it      *)
(* likes; of Supervisor, cmd/archgraph, for any number of services, in any *)
(* order, and any of them vital but the last.                              *)
(***************************************************************************)
EXTENDS CommandLine, Supervisor, SequenceTheorems, TLAPS

Zones == {"serving", "storage"}
Conditions == {"up", "failing", "down"}
Worlds == [graph : SUBSET Facts, zone : [Zones -> Conditions]]
Endings == {"empty", "fail", "skip", "panic"}
CallRecords ==
    [zone : Zones, fact : Facts \cup {"none", "entity"}, onStatus : Endings, onDown : Endings]

-----------------------------------------------------------------------------
(* The tables of calls. *)

\* A job that insists on a fact fails where the call for it does, and skips no
\* call.
Legal(calls, insisted) ==
    /\ calls \in Seq(CallRecords)
    /\ \A i \in DOMAIN calls :
          /\ calls[i].fact \in insisted => calls[i].onStatus = "fail" /\ calls[i].onDown = "fail"
          /\ "skip" \in {calls[i].onStatus, calls[i].onDown} => insisted = {}

LEMMA CallIsRecord ==
    ASSUME NEW z \in Zones, NEW f \in Facts \cup {"none", "entity"}, NEW s \in Endings, NEW d \in Endings
    PROVE  CallTo(z, f, s, d) \in CallRecords
BY DEF CallTo, CallRecords

LEMMA McpCallsAreLegal ==
    ASSUME NEW k \in DOMAIN McpCalls PROVE Legal(McpCalls[k], {})
<1>1. /\ AuditTool \in Seq(CallRecords) /\ DiffTool \in Seq(CallRecords)
      /\ SuggestionsTool \in Seq(CallRecords) /\ BlastTool \in Seq(CallRecords)
      /\ AskTool \in Seq(CallRecords) /\ DriftLog \in Seq(CallRecords)
      /\ Document \in Seq(CallRecords)
  BY CallIsRecord DEF AuditTool, DiffTool, SuggestionsTool, BlastTool, AskTool, DriftLog,
     Document, Zones, Facts, Endings
<1>2. << >> \in Seq(CallRecords)
  OBVIOUS
<1>3. k \in {"audit", "get_diff", "suggestions", "blast_radius", "ask", "log", "doc",
             "local", "malformed", "oversized", "initialized"}
  BY DEF McpCalls
<1>4. McpCalls[k] \in Seq(CallRecords)
  <2>1. CASE k \in {"local", "malformed", "oversized", "initialized"}
    <3>1. McpCalls[k] = << >>
      BY <2>1 DEF McpCalls
    <3> QED BY <1>2, <3>1
  <2>2. CASE k \in {"audit", "get_diff", "suggestions", "blast_radius", "ask", "log", "doc"}
    BY <1>1, <2>2 DEF McpCalls
  <2> QED BY <1>3, <2>1, <2>2
<1> QED BY <1>4 DEF Legal

LEMMA CommandCallsAreLegal ==
    ASSUME NEW k \in DOMAIN CommandCalls
    PROVE  /\ Legal(CommandCalls[k], Insists[k])
           /\ CommandCalls[k] # << >>
           /\ k \notin DOMAIN McpCalls
<1>1. /\ Legal(Validate, {"smell"}) /\ Legal(Impact, {"callers"}) /\ Legal(Diff, {"alert"})
      /\ Legal(Query, {}) /\ Legal(Graph, {}) /\ Legal(Document, {}) /\ Legal(AnalyzePR, {})
  BY CallIsRecord DEF Validate, Impact, Diff, Query, Graph, Document, AnalyzePR, Zones,
     Facts, Endings, Legal, CallTo
<1>2. k \in {"validate", "impact", "diff", "query", "graph", "document", "analyze_pr"}
  BY DEF CommandCalls
<1>3. k \in Kinds
  BY DEF Kinds
<1>4. Insists[k] = IF k = "validate" THEN {"smell"}
                   ELSE IF k = "impact" THEN {"callers"}
                   ELSE IF k = "diff" THEN {"alert"} ELSE {}
  BY <1>3 DEF Insists
<1>5. Legal(CommandCalls[k], Insists[k])
  BY <1>1, <1>2, <1>4 DEF CommandCalls
<1>6. CommandCalls[k] # << >>
  BY <1>2 DEF CommandCalls, Validate, Impact, Diff, Query, Graph, Document, AnalyzePR
<1>7. k \notin DOMAIN McpCalls
  BY <1>2 DEF McpCalls
<1> QED BY <1>5, <1>6, <1>7

\* What the steps need to know of a job's calls.
LEMMA CallsOfJob ==
    ASSUME kind \in [Jobs -> Kinds], NEW j \in Jobs
    PROVE  /\ Legal(Calls(j), Insists[kind[j]])
           /\ Calls(j) = << >> => IsMcp(j)
<1>1. kind[j] \in Kinds
  OBVIOUS
<1>2. CASE kind[j] \in DOMAIN McpCalls
  <2>1. kind[j] \notin {"validate", "impact", "diff"}
    BY <1>2 DEF McpCalls
  <2>2. Insists[kind[j]] = {}
    BY <1>1, <2>1 DEF Insists
  <2> QED BY <1>2, <2>2, McpCallsAreLegal DEF Calls, IsMcp
<1>3. CASE kind[j] \in DOMAIN CommandCalls
  BY <1>3, CommandCallsAreLegal DEF Calls, IsMcp
<1> QED BY <1>1, <1>2, <1>3 DEF Kinds

-----------------------------------------------------------------------------
(* Types. *)

LEMMA AskedAreFacts == Asked \subseteq Facts
BY DEF Asked, Judged

BasicTypes ==
    /\ kind \in [Jobs -> Kinds]
    /\ hung \subseteq Jobs
    /\ rule \in Rules
    /\ graph \subseteq Facts
    /\ zone \in [Zones -> Conditions]
    /\ moves \in 0 .. MaxMoves
    /\ open \in BOOLEAN
    /\ input \in Seq(Jobs)
    /\ loop \in {"reading", "done", "exited", "panicked"}
    /\ pc \in [Jobs -> {"new", "sent", "running", "answering", "writing", "answered",
                        "ignored", "dropped"}]
    /\ seen \in [Jobs -> SUBSET Facts]
    /\ verdict \in [Jobs -> {"none", "clean", "found", "rejected", "error"}]
    /\ stdout \in Seq(Jobs)
    /\ mcpWriteMu \in Jobs \cup {Free}
    /\ next \in [Jobs -> Nat]
    /\ lived \in [Jobs -> SUBSET Worlds]

\* A job that runs has a call to make, and one that has not begun has made
\* none.
Counts(j) ==
    /\ next[j] \in 1 .. Len(Calls(j)) + 1
    /\ pc[j] = "running" => next[j] \in 1 .. Len(Calls(j))
    /\ pc[j] \in {"new", "sent"} => next[j] = 1

Typed == BasicTypes /\ \A j \in Jobs : Counts(j)

LEMMA TypedIsTypeOK == Typed => TypeOK
BY DEF Typed, TypeOK, BasicTypes, Counts, Worlds, Zones, Conditions

\* The number of a job's calls.
LEMMA CallsLength ==
    ASSUME kind \in [Jobs -> Kinds], NEW j \in Jobs
    PROVE  /\ Calls(j) \in Seq(CallRecords) /\ Len(Calls(j)) \in Nat
           /\ Calls(j) # << >> => Len(Calls(j)) > 0
<1>1. PICK c : c = Calls(j)
  OBVIOUS
<1>2. c \in Seq(CallRecords)
  BY <1>1, CallsOfJob DEF Legal
<1>3. Len(c) \in Nat /\ (c # << >> => Len(c) > 0)
  BY <1>2
<1> QED BY <1>1, <1>2, <1>3

LEMMA NowIsWorld == ASSUME BasicTypes PROVE Now \in Worlds
<1>1. PICK g \in SUBSET Facts, z \in [Zones -> Conditions] : g = graph /\ z = zone
  BY DEF BasicTypes
<1>2. Now = [graph |-> g, zone |-> z]
  BY <1>1 DEF Now
<1> QED BY <1>2 DEF Worlds

LEMMA InitTyped == Init => Typed
<1> SUFFICES ASSUME Init PROVE Typed
  OBVIOUS
<1>1. kind \in [Jobs -> Kinds]
  BY DEF Init
<1>2. \A j \in Jobs : Len(Calls(j)) \in Nat
  BY <1>1, CallsLength
<1>3. ASSUME NEW j \in Jobs PROVE Counts(j)
  <2>1. next[j] = 1 /\ pc[j] = "new"
    BY DEF Init
  <2> QED BY <1>2, <2>1 DEF Counts
<1>4. BasicTypes
  BY AskedAreFacts, CommandLineAssumption DEF Init, BasicTypes, Zones, Conditions
<1> QED BY <1>3, <1>4 DEF Typed

\* The world moves and nothing else, but what running jobs have lived through.
LEMMA MoveKeepsTyped == ASSUME Typed, Move PROVE Typed'
<1>1. BasicTypes /\ \A j \in Jobs : Counts(j)
  BY DEF Typed
<1>2. UNCHANGED <<kind, hung, rule, server, pc, next, seen, verdict, stdout, mcpWriteMu>>
  BY DEF Move
<1>3. graph' \subseteq Facts /\ zone' \in [Zones -> Conditions]
  BY <1>1, AskedAreFacts DEF Move, BasicTypes, Zones, Conditions
<1>4. Now' \in Worlds
  <2>1. PICK g \in SUBSET Facts, z \in [Zones -> Conditions] : g = graph' /\ z = zone'
    BY <1>3
  <2>2. Now' = [graph |-> g, zone |-> z]
    BY <2>1 DEF Now
  <2> QED BY <2>2 DEF Worlds
<1>5. lived' \in [Jobs -> SUBSET Worlds]
  <2>1. PICK w \in Worlds : w = Now'
    BY <1>4
  <2>2. lived' = [j \in Jobs |-> IF pc[j] = "running" THEN lived[j] \cup {w} ELSE lived[j]]
    BY <2>1 DEF Move
  <2> QED BY <1>1, <2>2 DEF BasicTypes
<1>6. moves' \in 0 .. MaxMoves
  BY <1>1, CommandLineAssumption DEF Move, BasicTypes
<1>7. BasicTypes'
  BY <1>1, <1>2, <1>3, <1>5, <1>6 DEF BasicTypes, server
<1>8. \A j \in Jobs : Counts(j)'
  BY <1>1, <1>2 DEF Counts, Calls, IsMcp
<1> QED BY <1>7, <1>8 DEF Typed

\* A job begins with its first call, if it has any.
LEMMA BeginKeepsTyped ==
    ASSUME Typed, NEW j \in Jobs, Begin(j), pc[j] \in {"new", "sent"}, input' \in Seq(Jobs),
           UNCHANGED <<kind, hung, rule, world, open, loop, next, seen, verdict, stdout, mcpWriteMu>>
    PROVE  Typed'
<1>1. BasicTypes /\ \A x \in Jobs : Counts(x)
  BY DEF Typed
<1>2. PICK w \in Worlds : w = Now
  BY <1>1, NowIsWorld
<1>3. lived' \in [Jobs -> SUBSET Worlds]
  BY <1>1, <1>2 DEF Begin, BasicTypes
<1>4. BasicTypes'
  BY <1>1, <1>3 DEF BasicTypes, Begin, world
<1>5. \A x \in Jobs : Calls(x)' = Calls(x)
  BY DEF Calls, IsMcp
<1>6. Calls(j) # << >> => Len(Calls(j)) > 0
  BY <1>1, CallsLength DEF BasicTypes
<1>7. Counts(j)'
  BY <1>1, <1>5, <1>6 DEF Counts, Begin, BasicTypes
<1>8. \A x \in Jobs \ {j} : Counts(x)'
  BY <1>1, <1>5 DEF Counts, Begin, BasicTypes
<1> QED BY <1>4, <1>7, <1>8 DEF Typed

\* Steps that do not touch calls and worlds, and begin no job.
LEMMA OthersKeepTyped ==
    ASSUME Typed, open' \in BOOLEAN, input' \in Seq(Jobs), stdout' \in Seq(Jobs),
           loop' \in {"reading", "done", "exited", "panicked"}, mcpWriteMu' \in Jobs \cup {Free},
           pc' \in [Jobs -> {"new", "sent", "running", "answering", "writing", "answered",
                             "ignored", "dropped"}],
           \A j \in Jobs : pc'[j] \in {"new", "sent", "running"} =>
              pc'[j] = pc[j] \/ (pc'[j] = "sent" /\ pc[j] = "new"),
           UNCHANGED <<kind, hung, rule, world, next, seen, verdict, lived>>
    PROVE  Typed'
<1>1. BasicTypes /\ \A x \in Jobs : Counts(x)
  BY DEF Typed
<1>2. BasicTypes'
  BY <1>1 DEF BasicTypes, world
<1>3. \A x \in Jobs : Calls(x)' = Calls(x)
  BY DEF Calls, IsMcp
<1>4. \A x \in Jobs : Counts(x)'
  BY <1>1, <1>3 DEF Counts
<1> QED BY <1>2, <1>4 DEF Typed

\* A job that has another call to make goes on with it, and concludes with a
\* verdict otherwise.
LEMMA MakeCallKeepsTyped == ASSUME Typed, NEW j \in Jobs, MakeCall(j) PROVE Typed'
<1>1. BasicTypes /\ \A x \in Jobs : Counts(x)
  BY DEF Typed
<1>2. PICK outcome, shown :
        /\ shown = IF outcome = "answered" THEN graph \cap {Calls(j)[next[j]].fact} ELSE {}
        /\ seen' = [seen EXCEPT ![j] = @ \cup shown]
        /\ next' = [next EXCEPT ![j] = @ + 1]
        /\ \/ /\ next[j] = Len(Calls(j)) \/ outcome \in {"fail", "skip"}
              /\ Conclude(j, seen'[j], outcome = "fail")
           \/ /\ ~(next[j] = Len(Calls(j)) \/ outcome \in {"fail", "skip"})
              /\ UNCHANGED <<pc, verdict>>
  BY DEF MakeCall
<1>3. UNCHANGED <<kind, hung, rule, world, server, stdout, mcpWriteMu, lived>> /\ pc[j] = "running"
  BY DEF MakeCall
<1>4. shown \subseteq Facts
  BY <1>1, <1>2 DEF BasicTypes
<1>5. /\ pc' \in [Jobs -> {"new", "sent", "running", "answering", "writing", "answered",
                            "ignored", "dropped"}]
      /\ verdict' \in [Jobs -> {"none", "clean", "found", "rejected", "error"}]
      /\ \A x \in Jobs \ {j} : pc'[x] = pc[x]
      /\ pc'[j] \in {"running", "answering", "answered"}
      /\ pc'[j] = "running" => next[j] # Len(Calls(j))
  BY <1>1, <1>2, <1>3 DEF BasicTypes, Conclude
<1>6. BasicTypes'
  <2>1. seen' \in [Jobs -> SUBSET Facts]
    BY <1>1, <1>2, <1>4 DEF BasicTypes
  <2>2. next' \in [Jobs -> Nat]
    BY <1>1, <1>2 DEF BasicTypes
  <2> QED BY <1>1, <1>3, <1>5, <2>1, <2>2 DEF BasicTypes, world, server
<1>7. \A x \in Jobs : Calls(x)' = Calls(x)
  BY <1>3 DEF Calls, IsMcp
<1>8. Len(Calls(j)) \in Nat
  BY <1>1, CallsLength DEF BasicTypes
<1>9. Counts(j)'
  BY <1>1, <1>2, <1>3, <1>5, <1>7, <1>8 DEF Counts, BasicTypes
<1>10. \A x \in Jobs \ {j} : Counts(x)'
  BY <1>1, <1>2, <1>5, <1>7 DEF Counts, BasicTypes
<1> QED BY <1>6, <1>9, <1>10 DEF Typed

-----------------------------------------------------------------------------
(* The input. *)

\* The lines that wait to be read are requests that were sent once each.
Queued ==
    /\ \A i \in 1 .. Len(input) : pc[input[i]] = "sent" /\ IsMcp(input[i])
    /\ \A i, k \in 1 .. Len(input) : input[i] = input[k] => i = k

LEMMA HeadAndTail ==
    ASSUME BasicTypes, Queued, input # << >>
    PROVE  /\ Head(input) \in Jobs /\ pc[Head(input)] = "sent" /\ IsMcp(Head(input))
           /\ Tail(input) \in Seq(Jobs) /\ Len(Tail(input)) = Len(input) - 1
           /\ \A i \in 1 .. Len(input) - 1 :
                 Tail(input)[i] = input[i + 1] /\ input[i + 1] # Head(input)
           /\ Len(input) \in Nat \ {0}
<1>1. input \in Seq(Jobs)
  BY DEF BasicTypes
<1>2. Len(input) \in Nat \ {0} /\ Head(input) = input[1] /\ input[1] \in Jobs
  BY <1>1
<1>3. Tail(input) \in Seq(Jobs) /\ Len(Tail(input)) = Len(input) - 1
  BY <1>1
<1>4. \A i \in 1 .. Len(input) - 1 : Tail(input)[i] = input[i + 1]
  BY <1>1
<1>5. \A i \in 1 .. Len(input) - 1 : input[i + 1] # input[1]
  BY <1>2 DEF Queued
<1> QED BY <1>2, <1>3, <1>4, <1>5 DEF Queued

\* What has been read is gone from the input, and nothing else is.
LEMMA QueuedStep ==
    ASSUME BasicTypes, Queued, UNCHANGED kind,
           \/ /\ input' = input
              /\ \A j \in Jobs : pc[j] = "sent" => pc'[j] = "sent"
           \/ /\ input # << >> /\ input' = Tail(input)
              /\ \A j \in Jobs \ {Head(input)} : pc[j] = "sent" => pc'[j] = "sent"
    PROVE  Queued'
<1>1. \A j : IsMcp(j)' = IsMcp(j)
  BY DEF IsMcp
<1>2. \A i \in 1 .. Len(input) : input[i] \in Jobs
  BY DEF BasicTypes
<1>3. CASE input' = input /\ \A j \in Jobs : pc[j] = "sent" => pc'[j] = "sent"
  BY <1>1, <1>2, <1>3 DEF Queued
<1>4. CASE /\ input # << >> /\ input' = Tail(input)
           /\ \A j \in Jobs \ {Head(input)} : pc[j] = "sent" => pc'[j] = "sent"
  <2>1. /\ Len(input') = Len(input) - 1 /\ Len(input) \in Nat \ {0}
        /\ \A i \in 1 .. Len(input) - 1 :
              input'[i] = input[i + 1] /\ input[i + 1] # Head(input)
    BY <1>4, HeadAndTail
  <2>2. \A i \in 1 .. Len(input') : i + 1 \in 1 .. Len(input)
    BY <2>1
  <2>3. \A i \in 1 .. Len(input') : pc'[input'[i]] = "sent" /\ IsMcp(input'[i])
    <3>1. ASSUME NEW i \in 1 .. Len(input') PROVE pc'[input'[i]] = "sent" /\ IsMcp(input'[i])
      <4>1. i \in 1 .. Len(input) - 1 /\ i + 1 \in 1 .. Len(input)
        BY <2>1, <2>2
      <4>2. PICK x \in Jobs : x = input[i + 1]
        BY <1>2, <4>1
      <4>3. pc[x] = "sent" /\ IsMcp(x) /\ x # Head(input) /\ x = input'[i]
        BY <2>1, <4>1, <4>2 DEF Queued
      <4> QED BY <1>4, <4>3
    <3> QED BY <3>1
  <2>4. \A i, k \in 1 .. Len(input') : input'[i] = input'[k] => i = k
    BY <2>1, <2>2 DEF Queued
  <2> QED BY <1>1, <2>3, <2>4 DEF Queued
<1> QED BY <1>3, <1>4

LEMMA NextKeepsQueued == ASSUME BasicTypes, Queued, [Next]_vars PROVE Queued'
<1>1. CASE \E j \in Jobs : Send(j)
  <2>1. PICK j \in Jobs : Send(j)
    BY <1>1
  <2>2. /\ IsMcp(j) /\ pc[j] = "new" /\ pc' = [pc EXCEPT ![j] = "sent"]
        /\ input' = Append(input, j) /\ kind' = kind
    BY <2>1 DEF Send
  <2>3. /\ Len(input') = Len(input) + 1 /\ input'[Len(input) + 1] = j
        /\ Len(input) \in Nat
        /\ \A i \in 1 .. Len(input) : input'[i] = input[i] /\ input[i] \in Jobs /\ input[i] # j
    BY <2>2 DEF BasicTypes, Queued
  <2>4. \A i \in 1 .. Len(input') : i \in 1 .. Len(input) \/ i = Len(input) + 1
    BY <2>3
  <2>5. \A i \in 1 .. Len(input') : pc'[input'[i]] = "sent" /\ IsMcp(input'[i])
    BY <2>2, <2>3, <2>4 DEF Queued, BasicTypes
  <2>6. \A i, k \in 1 .. Len(input') : input'[i] = input'[k] => i = k
    BY <2>3, <2>4 DEF Queued
  <2> QED BY <2>2, <2>5, <2>6 DEF Queued, IsMcp
<1>2. CASE ReadLine
  BY <1>2, QueuedStep DEF ReadLine, Begin, BasicTypes
<1>3. CASE CloseInput \/ Move \/ EndOfInput \/ UNCHANGED vars
  BY <1>3, QueuedStep DEF CloseInput, Move, EndOfInput, vars, server
<1>4. CASE Exit \/ \E j \in Jobs : Panic(j)
  <2>1. \A x \in Jobs : pc[x] = "sent" => pc'[x] = "sent"
    BY <1>4 DEF Exit, Panic, End, BasicTypes
  <2> QED BY <1>4, <2>1, QueuedStep DEF Exit, Panic
<1>5. CASE \E j \in Jobs : Step(j) /\ ~Panic(j)
  <2>1. PICK j \in Jobs : Step(j) /\ ~Panic(j)
    BY <1>5
  <2>2. kind' = kind /\ input' = input /\ pc[j] # "sent"
    BY <2>1 DEF Step, StartCommand, MakeCall, BeginWrite, EndWrite, server
  <2>3. \A x \in Jobs \ {j} : pc'[x] = pc[x]
    BY <2>1 DEF Step, StartCommand, Begin, MakeCall, Conclude, BeginWrite, EndWrite, BasicTypes
  <2> QED BY <2>2, <2>3, QueuedStep
<1> QED BY <1>1, <1>2, <1>3, <1>4, <1>5 DEF Next, Read

LEMMA NextKeepsTyped == ASSUME Typed, Queued, [Next]_vars PROVE Typed'
<1>1. BasicTypes
  BY DEF Typed
<1>2. CASE ReadLine
  <2>1. PICK j \in Jobs :
          /\ j = Head(input) /\ pc[j] = "sent" /\ Tail(input) \in Seq(Jobs)
          /\ input \in Seq(Jobs)
    BY <1>1, <1>2, HeadAndTail DEF ReadLine, BasicTypes
  <2>2. CASE Begin(j) /\ input' = Tail(input) /\ UNCHANGED loop
    BY <1>2, <2>1, <2>2, BeginKeepsTyped DEF ReadLine
  <2>3. CASE pc' = [pc EXCEPT ![j] = "ignored"] /\ input' = Tail(input) /\ UNCHANGED <<loop, lived>>
    BY <1>1, <1>2, <2>1, <2>3, OthersKeepTyped DEF ReadLine, BasicTypes
  <2>4. CASE loop' = "done" /\ UNCHANGED <<input, pc, lived>>
    BY <1>1, <1>2, <2>1, <2>4, OthersKeepTyped DEF ReadLine, BasicTypes
  <2> QED BY <1>2, <2>1, <2>2, <2>3, <2>4 DEF ReadLine
<1>3. CASE Move
  BY <1>3, MoveKeepsTyped
<1>4. CASE CloseInput \/ EndOfInput \/ UNCHANGED vars
  BY <1>1, <1>4, OthersKeepTyped DEF CloseInput, EndOfInput, vars, server, BasicTypes
<1>5. CASE Exit \/ \E j \in Jobs : Panic(j)
  <2>1. PICK how \in {"exited", "panicked"} : End(how)
    BY <1>5 DEF Exit, Panic
  <2> QED BY <1>1, <1>5, <2>1, OthersKeepTyped DEF Exit, Panic, End, BasicTypes
<1>6. ASSUME NEW j \in Jobs, Send(j) \/ Step(j) PROVE Typed'
  <2>1. CASE Send(j)
    BY <1>1, <2>1, OthersKeepTyped DEF Send, BasicTypes
  <2>2. CASE StartCommand(j)
    BY <1>1, <2>2, BeginKeepsTyped DEF StartCommand, server, BasicTypes
  <2>3. CASE MakeCall(j)
    BY <2>3, MakeCallKeepsTyped
  <2>4. CASE BeginWrite(j)
    BY <1>1, <2>4, OthersKeepTyped DEF BeginWrite, server, BasicTypes
  <2>5. CASE EndWrite(j)
    BY <1>1, <2>5, OthersKeepTyped DEF EndWrite, server, BasicTypes
  <2> QED BY <1>5, <1>6, <2>1, <2>2, <2>3, <2>4, <2>5 DEF Step
<1> QED BY <1>2, <1>3, <1>4, <1>5, <1>6 DEF Next, Read

-----------------------------------------------------------------------------
(* The output. *)

\* Only a request has an answer, only the job that holds the mutex is writing,
\* and nothing is left to answer when the server has gone.
Writers ==
    /\ \A j \in Jobs : pc[j] \in {"answering", "writing"} => IsMcp(j)
    /\ \A j \in Jobs : pc[j] = "writing" => mcpWriteMu = j
    /\ Gone =>
          \A j \in Jobs : pc[j] \in {"running", "answering", "writing"} => ~IsMcp(j)

\* There are two halves to every line, but for the last one while the mutex is
\* held.
Halves ==
    \E n \in Nat :
        IF mcpWriteMu = Free THEN Len(stdout) = 2 * n
        ELSE Len(stdout) = 2 * n + 1 /\ stdout[2 * n + 1] = mcpWriteMu

LEMMA NextKeepsWriters ==
    ASSUME BasicTypes, Queued, Writers, [Next]_vars PROVE Writers'
<1> USE DEF Gone
<1>1. UNCHANGED kind
  BY DEF Next, vars, CloseInput, Move, Read, ReadLine, EndOfInput, Exit, Send, Step,
     StartCommand, MakeCall, Panic, BeginWrite, EndWrite
<1>2. \A j : IsMcp(j)' = IsMcp(j) /\ Calls(j)' = Calls(j)
  BY <1>1 DEF IsMcp, Calls
<1>3. CASE CloseInput \/ Move \/ EndOfInput \/ UNCHANGED vars
  BY <1>2, <1>3 DEF CloseInput, Move, EndOfInput, vars, server, Writers
<1>4. CASE ReadLine
  <2>1. PICK h \in Jobs : h = Head(input) /\ IsMcp(h)
    BY <1>4, HeadAndTail DEF ReadLine
  <2> QED BY <1>2, <1>4, <2>1 DEF ReadLine, Begin, Writers, BasicTypes
<1>5. CASE Exit \/ \E j \in Jobs : Panic(j)
  <2>1. PICK how \in {"exited", "panicked"} : End(how)
    BY <1>5 DEF Exit, Panic
  <2> QED BY <1>2, <1>5, <2>1 DEF Exit, Panic, End, Writers
<1>6. ASSUME NEW j \in Jobs, Send(j) \/ Step(j) PROVE Writers'
  <2>1. CASE Send(j)
    BY <1>2, <2>1 DEF Send, Writers, BasicTypes
  <2>2. CASE StartCommand(j)
    <3>1. Calls(j) # << >>
      BY <2>2, CallsOfJob DEF StartCommand, BasicTypes
    <3> QED BY <1>2, <2>2, <3>1 DEF StartCommand, Begin, server, Writers, BasicTypes
  <2>3. CASE MakeCall(j)
    BY <1>2, <2>3 DEF MakeCall, Conclude, server, Writers, BasicTypes
  <2>4. CASE BeginWrite(j)
    BY <1>2, <2>4, CommandLineAssumption DEF BeginWrite, server, Writers, BasicTypes
  <2>5. CASE EndWrite(j)
    BY <1>2, <2>5 DEF EndWrite, server, Writers, BasicTypes
  <2> QED BY <1>5, <1>6, <2>1, <2>2, <2>3, <2>4, <2>5 DEF Step
<1> QED BY <1>3, <1>4, <1>5, <1>6 DEF Next, Read

LEMMA Half == \A n \in Nat : (2 * n + 1) \div 2 = n /\ (2 * n + 2) \div 2 = n + 1
OBVIOUS

\* The two steps that write.
LEMMA WritingSteps ==
    ASSUME BasicTypes, Writers, Halves, NEW j \in Jobs, BeginWrite(j) \/ EndWrite(j)
    PROVE  \E n \in Nat :
             \/ /\ BeginWrite(j)
                /\ Len(stdout) = 2 * n /\ Len(stdout') = 2 * n + 1
                /\ \A i \in 1 .. 2 * n : stdout'[i] = stdout[i]
                /\ stdout'[2 * n + 1] = j /\ mcpWriteMu' = j
             \/ /\ EndWrite(j)
                /\ Len(stdout) = 2 * n + 1 /\ Len(stdout') = 2 * n + 2
                /\ \A i \in 1 .. 2 * n + 1 : stdout'[i] = stdout[i]
                /\ stdout[2 * n + 1] = j /\ stdout'[2 * n + 2] = j /\ mcpWriteMu' = Free
<1>1. PICK n \in Nat : IF mcpWriteMu = Free THEN Len(stdout) = 2 * n
                       ELSE Len(stdout) = 2 * n + 1 /\ stdout[2 * n + 1] = mcpWriteMu
  BY DEF Halves
<1>2. stdout \in Seq(Jobs) /\ stdout' = Append(stdout, j)
  BY DEF BasicTypes, BeginWrite, EndWrite
<1>3. /\ Len(stdout') = Len(stdout) + 1 /\ stdout'[Len(stdout) + 1] = j
      /\ \A i \in 1 .. Len(stdout) : stdout'[i] = stdout[i]
  BY <1>2
<1>4. CASE BeginWrite(j)
  BY <1>1, <1>3, <1>4 DEF BeginWrite
<1>5. CASE EndWrite(j)
  <2>1. mcpWriteMu = j /\ j # Free
    BY <1>5, CommandLineAssumption DEF EndWrite, Writers
  <2>2. Len(stdout) = 2 * n + 1 /\ stdout[2 * n + 1] = j
    BY <1>1, <2>1
  <2>3. Len(stdout') = 2 * n + 2 /\ stdout'[2 * n + 2] = j
    BY <1>3, <2>2
  <2> QED BY <1>3, <1>5, <2>2, <2>3 DEF EndWrite
<1> QED BY <1>4, <1>5

LEMMA NextKeepsHalves ==
    ASSUME BasicTypes, Writers, Halves, [Next]_vars PROVE Halves'
<1>1. CASE UNCHANGED <<stdout, mcpWriteMu>>
  BY <1>1 DEF Halves
<1>2. ASSUME NEW j \in Jobs, BeginWrite(j) \/ EndWrite(j) PROVE Halves'
  <2>1. PICK n \in Nat :
             \/ /\ Len(stdout') = 2 * n + 1
                /\ stdout'[2 * n + 1] = j /\ mcpWriteMu' = j
             \/ Len(stdout') = 2 * (n + 1) /\ mcpWriteMu' = Free
    BY <1>2, WritingSteps
  <2>2. n + 1 \in Nat /\ j # Free
    BY CommandLineAssumption
  <2> QED BY <2>1, <2>2 DEF Halves
<1>3. UNCHANGED <<stdout, mcpWriteMu>> \/ \E j \in Jobs : BeginWrite(j) \/ EndWrite(j)
  BY DEF Next, vars, CloseInput, Move, Read, ReadLine, EndOfInput, Exit, Send, Step,
     StartCommand, MakeCall, Panic
<1> QED BY <1>1, <1>2, <1>3

-----------------------------------------------------------------------------
(* The refinement of RequestReply. *)

LEMMA LinesAre ==
    ASSUME NEW n \in Nat, Len(stdout) \in {2 * n, 2 * n + 1}
    PROVE  Lines = [i \in 1 .. n |->
               IF stdout[2 * i - 1] = stdout[2 * i] THEN stdout[2 * i] ELSE Free]
<1>1. Len(stdout) \div 2 = n
  OBVIOUS
<1> QED BY <1>1 DEF Lines

\* The first half of a line is no line yet; the second makes it one.
LEMMA LinesGrow ==
    ASSUME BasicTypes, Writers, Halves, NEW j \in Jobs
    PROVE  /\ BeginWrite(j) => Lines' = Lines
           /\ EndWrite(j) => Lines' = Append(Lines, j)
<1> DEFINE Line(i) == IF stdout[2 * i - 1] = stdout[2 * i] THEN stdout[2 * i] ELSE Free
<1> SUFFICES ASSUME BeginWrite(j) \/ EndWrite(j)
             PROVE  /\ BeginWrite(j) => Lines' = Lines
                    /\ EndWrite(j) => Lines' = Append(Lines, j)
  OBVIOUS
<1>1. PICK n \in Nat :
             \/ /\ BeginWrite(j)
                /\ Len(stdout) = 2 * n /\ Len(stdout') = 2 * n + 1
                /\ \A i \in 1 .. 2 * n : stdout'[i] = stdout[i]
             \/ /\ EndWrite(j)
                /\ Len(stdout) = 2 * n + 1 /\ Len(stdout') = 2 * n + 2
                /\ \A i \in 1 .. 2 * n + 1 : stdout'[i] = stdout[i]
                /\ stdout[2 * n + 1] = j /\ stdout'[2 * n + 2] = j
  BY WritingSteps
<1>2. Lines = [i \in 1 .. n |-> Line(i)]
  BY <1>1, LinesAre
<1>3. \A i \in 1 .. n : Line(i)' = Line(i)
  <2>1. \A i \in 1 .. n : 2 * i - 1 \in 1 .. 2 * n /\ 2 * i \in 1 .. 2 * n
    OBVIOUS
  <2>2. \A i \in 1 .. 2 * n : i \in 1 .. 2 * n + 1
    OBVIOUS
  <2>3. \A i \in 1 .. 2 * n : stdout'[i] = stdout[i]
    BY <1>1, <2>2
  <2> QED BY <2>1, <2>3
<1>4. \A i \in 1 .. n : Line(i) \in Jobs \cup {Free}
  <2>1. \A i \in 1 .. n : 2 * i \in 1 .. Len(stdout)
    BY <1>1
  <2> QED BY <2>1 DEF BasicTypes
<1>5. CASE BeginWrite(j)
  <2>1. pc[j] = "answering" /\ ~EndWrite(j)
    BY <1>5 DEF BeginWrite, EndWrite
  <2>2. Len(stdout') \div 2 = n
    <3>1. PICK m \in Nat : m = Len(stdout') /\ m = 2 * n + 1
      BY <1>1, <2>1
    <3> QED BY <3>1, Half
  <2>3. Lines' = [i \in 1 .. n |-> Line(i)']
    BY <2>2 DEF Lines
  <2> QED BY <1>2, <1>3, <2>1, <2>3
<1>6. CASE EndWrite(j)
  <2>1. pc[j] = "writing" /\ ~BeginWrite(j)
    BY <1>6 DEF BeginWrite, EndWrite
  <2>2. Len(stdout') \div 2 = n + 1
    <3>1. PICK m \in Nat : m = Len(stdout') /\ m = 2 * n + 2
      BY <1>1, <2>1
    <3> QED BY <3>1, Half
  <2>3. Lines' = [i \in 1 .. n + 1 |-> Line(i)']
    BY <2>2 DEF Lines
  <2>4. Line(n + 1)' = j
    <3>1. 2 * (n + 1) - 1 = 2 * n + 1 /\ 2 * (n + 1) = 2 * n + 2 /\ 2 * n + 1 \in 1 .. 2 * n + 1
      OBVIOUS
    <3> QED BY <1>1, <2>1, <3>1
  <2>5. Lines \in Seq(Jobs \cup {Free}) /\ Len(Lines) = n
    BY <1>2, <1>4
  <2>6. Append(Lines, j) \in Seq(Jobs \cup {Free}) /\ Len(Append(Lines, j)) = n + 1
    BY <2>5
  <2>7. \A i \in 1 .. n : Append(Lines, j)[i] = Line(i)
    <3>1. \A i \in 1 .. n : Append(Lines, j)[i] = Lines[i]
      BY <2>5
    <3>2. \A i \in 1 .. n : Lines[i] = Line(i)
      BY <1>2
    <3> QED BY <3>1, <3>2
  <2>8. Append(Lines, j)[n + 1] = j
    BY <2>5
  <2>9. Lines' \in Seq(Jobs \cup {Free}) /\ Len(Lines') = n + 1
    <3>1. ASSUME NEW i \in 1 .. n + 1 PROVE Line(i)' \in Jobs \cup {Free}
      <4>1. CASE i = n + 1
        BY <2>4, <4>1
      <4>2. CASE i \in 1 .. n
        BY <1>3, <1>4, <4>2
      <4> QED BY <4>1, <4>2
    <3>2. PICK m \in Nat : m = n + 1
      OBVIOUS
    <3> HIDE DEF Line
    <3>3. Lines' \in [1 .. m -> Jobs \cup {Free}]
      BY <2>3, <3>1, <3>2
    <3> QED BY <3>2, <3>3
  <2>10. \A i \in 1 .. n + 1 : Lines'[i] = Append(Lines, j)[i]
    <3>1. \A i \in 1 .. n : Lines'[i] = Append(Lines, j)[i]
      <4>1. ASSUME NEW i \in 1 .. n PROVE Lines'[i] = Append(Lines, j)[i]
        <5>1. i \in 1 .. n + 1
          OBVIOUS
        <5>2. Lines'[i] = Line(i)'
          BY <2>3, <5>1
        <5> QED BY <1>3, <2>7, <5>2
      <4> QED BY <4>1
    <3>2. Lines'[n + 1] = Append(Lines, j)[n + 1]
      BY <2>3, <2>4, <2>8
    <3>3. \A i \in 1 .. n + 1 : i \in 1 .. n \/ i = n + 1
      OBVIOUS
    <3> QED BY <3>1, <3>2, <3>3
  <2>11. Lines' = Append(Lines, j)
    BY <2>6, <2>9, <2>10, SeqEqual
  <2> QED BY <2>1, <2>11
<1> QED BY <1>1, <1>5, <1>6

LEMMA InitRefines == Init => Replies!Init
<1> SUFFICES ASSUME Init PROVE Replies!Init
  OBVIOUS
<1>1. Lines = << >>
  <2>1. Len(stdout) = 2 * 0
    BY DEF Init
  <2>2. Lines = [i \in 1 .. 0 |->
               IF stdout[2 * i - 1] = stdout[2 * i] THEN stdout[2 * i] ELSE Free]
    BY <2>1, LinesAre
  <2> QED BY <2>2
<1>2. \A j \in Jobs : Stage(j) = "new"
  BY DEF Init, Stage
<1> QED BY <1>1, <1>2 DEF Init, Gone, Replies!Init

\* A request is accepted when its goroutine starts, answered when the second
\* half of its line is out, and lost when main() returns.
LEMMA NextRefines ==
    ASSUME BasicTypes, Queued, Writers, Halves, [Next]_vars
    PROVE  [Replies!Next]_(Replies!vars)
<1> USE DEF Gone
<1>1. UNCHANGED kind
  BY DEF Next, vars, CloseInput, Move, Read, ReadLine, EndOfInput, Exit, Send, Step,
     StartCommand, MakeCall, Panic, BeginWrite, EndWrite
<1>2. \A j : IsMcp(j)' = IsMcp(j) /\ Calls(j)' = Calls(j)
  BY <1>1 DEF IsMcp, Calls
<1>3. stdout' = stdout => Lines' = Lines
  BY DEF Lines
<1>4. ASSUME stdout' = stdout, Gone' = Gone,
             \A j \in Jobs : Stage(j)' = Stage(j)
      PROVE  UNCHANGED Replies!vars
  BY <1>3, <1>4 DEF Replies!vars
<1>5. CASE CloseInput \/ Move \/ EndOfInput \/ UNCHANGED vars
  BY <1>2, <1>4, <1>5 DEF CloseInput, Move, EndOfInput, vars, server, Stage
<1>6. CASE ReadLine
  <2>1. PICK j \in Jobs : j = Head(input) /\ IsMcp(j) /\ pc[j] = "sent"
    BY <1>6, HeadAndTail DEF ReadLine
  <2>2. stdout' = stdout /\ loop = "reading" /\ loop' \in {"reading", "done"}
    BY <1>6 DEF ReadLine
  <2>3. CASE Begin(j)
    <3>1. Stage(j) = "new" /\ Stage(j)' = "pending"
      BY <1>2, <2>1, <2>3 DEF Begin, Stage, BasicTypes
    <3>2. \A x \in Jobs \ {j} : Stage(x)' = Stage(x)
      BY <1>2, <2>3 DEF Begin, Stage, BasicTypes
    <3>3. ~Gone /\ Gone' = Gone /\ Lines' = Lines
      BY <1>3, <2>2
    <3> HIDE DEF Gone
    <3>4. Replies!Accept(j)
      BY <3>1, <3>2, <3>3 DEF Replies!Accept
    <3> QED BY <3>4 DEF Replies!Next
  <2>4. CASE pc' = [pc EXCEPT ![j] = "ignored"] \/ pc' = pc
    <3>1. \A x \in Jobs : Stage(x)' = Stage(x)
      BY <1>2, <2>1, <2>4 DEF Stage, BasicTypes
    <3> QED BY <1>4, <2>2, <3>1
  <2> QED BY <1>6, <2>1, <2>3, <2>4 DEF ReadLine
<1>7. CASE Exit \/ \E j \in Jobs : Panic(j)
  <2> PICK how \in {"exited", "panicked"} : End(how)
    BY <1>7 DEF Exit, Panic
  <2>1. \A x \in Jobs : Stage(x)' = IF Stage(x) = "pending" THEN "dropped" ELSE Stage(x)
    <3>1. ASSUME NEW x \in Jobs
          PROVE  Stage(x)' = IF Stage(x) = "pending" THEN "dropped" ELSE Stage(x)
      <4>1. /\ IsMcp(x)' = IsMcp(x)
            /\ pc'[x] = IF IsMcp(x) /\ pc[x] \in {"running", "answering", "writing"}
                        THEN "dropped" ELSE pc[x]
        BY <1>2 DEF End
      <4>2. CASE Stage(x) = "pending"
        <5>1. IsMcp(x) /\ pc[x] \in {"running", "answering", "writing"}
          BY <4>2 DEF Stage, BasicTypes
        <5>2. IsMcp(x)' /\ pc'[x] = "dropped"
          BY <4>1, <5>1
        <5>3. Stage(x)' = "dropped"
          BY <5>2 DEF Stage
        <5> QED BY <4>2, <5>3
      <4>3. CASE Stage(x) # "pending"
        BY <4>1, <4>3 DEF Stage, BasicTypes
      <4> QED BY <4>2, <4>3
    <3> QED BY <3>1
  <2>2. ~Gone /\ Gone' /\ Lines' = Lines
    BY <1>3, <1>7 DEF Exit, Panic, End, Gone, Writers
  <2>3. Replies!Stop
    BY <2>1, <2>2 DEF Replies!Stop
  <2> QED BY <2>3 DEF Replies!Next
<1>8. ASSUME NEW j \in Jobs, Send(j) \/ StartCommand(j) \/ MakeCall(j) \/ BeginWrite(j)
      PROVE  UNCHANGED Replies!vars
  <2>1. \A x \in Jobs \ {j} : pc'[x] = pc[x]
    BY <1>8 DEF Send, StartCommand, Begin, MakeCall, Conclude, BeginWrite, BasicTypes
  <2>2. Stage(j)' = Stage(j)
    <3>1. CASE Send(j)
      BY <1>2, <3>1 DEF Send, Stage, BasicTypes
    <3>2. CASE StartCommand(j)
      BY <1>2, <3>2 DEF StartCommand, Stage
    <3>3. CASE MakeCall(j)
      <4>1. pc[j] = "running" /\ pc'[j] \in {"running", IF IsMcp(j) THEN "answering" ELSE "answered"}
        BY <3>3 DEF MakeCall, Conclude, BasicTypes
      <4> QED BY <1>2, <4>1 DEF Stage
    <3>4. CASE BeginWrite(j)
      BY <1>2, <3>4 DEF BeginWrite, Stage, BasicTypes
    <3> QED BY <1>8, <3>1, <3>2, <3>3, <3>4
  <2>3. \A x \in Jobs : Stage(x)' = Stage(x)
    BY <1>2, <2>1, <2>2 DEF Stage
  <2>4. Lines' = Lines /\ loop' = loop
    BY <1>3, <1>8, LinesGrow DEF Send, StartCommand, MakeCall, BeginWrite, server
  <2> QED BY <2>3, <2>4 DEF Replies!vars
<1>9. ASSUME NEW j \in Jobs, EndWrite(j) PROVE Replies!Answer(j)
  <2>1. IsMcp(j) /\ ~Gone /\ loop' = loop
    BY <1>9 DEF EndWrite, Writers, server
  <2>2. Stage(j) = "pending" /\ Stage(j)' = "answered"
    BY <1>2, <1>9, <2>1 DEF EndWrite, Stage, BasicTypes
  <2>3. \A x \in Jobs \ {j} : Stage(x)' = Stage(x)
    BY <1>2, <1>9 DEF EndWrite, Stage, BasicTypes
  <2>4. Lines' = Append(Lines, j)
    BY <1>9, LinesGrow
  <2> QED BY <2>1, <2>2, <2>3, <2>4 DEF Replies!Answer
<1> QED BY <1>5, <1>6, <1>7, <1>8, <1>9 DEF Next, Read, Step, Replies!Next

-----------------------------------------------------------------------------
(* The verdicts. *)

\* In some world that j has lived through a zone did not answer as it should.
Failed(j) == \E w \in lived[j] : \E z \in DOMAIN w.zone : w.zone[z] # "up"

\* j may leave the fact f out of its verdict.
Excusable(j, f) ==
    (\E w \in lived[j] : f \notin w.graph) \/ (f \notin Insists[kind[j]] /\ Failed(j))

Fact(j, i) == Calls(j)[i].fact

\* What j has seen was so; what its calls so far have not shown it may leave
\* out.  TrueVerdicts says this of the jobs that have a verdict only.
Honest(j) ==
    /\ pc[j] = "running" => Now \in lived[j]
    /\ pc[j] \in {"new", "sent"} => seen[j] = {} /\ verdict[j] = "none" /\ lived[j] = {}
    /\ \A f \in seen[j] : f \in Judged(j) /\ \E w \in lived[j] : f \in w.graph
    /\ pc[j] = "running" =>
          \A i \in 1 .. next[j] - 1 :
              Fact(j, i) \in Facts => Fact(j, i) \in seen[j] \/ Excusable(j, Fact(j, i))
    /\ \A f \in Denied(j) : Excusable(j, f)
    /\ verdict[j] \in {"found", "rejected"} =>
          \E f \in Affirmed(j), w \in lived[j] : f \in w.graph

\* A job that lives on keeps its excuses.
LEMMA StaysHonest ==
    ASSUME NEW j \in Jobs, Honest(j), UNCHANGED <<kind, rule, seen[j], verdict[j], next[j]>>,
           lived[j] \subseteq lived'[j],
           pc'[j] \in {"new", "sent"} => lived'[j] = lived[j],
           pc'[j] \in {"running", "new", "sent"} => pc'[j] = pc[j] \/ pc[j] \in {"new", "sent"},
           pc'[j] = "running" => Now' \in lived'[j] /\ (pc[j] = "running" \/ next[j] = 1)
    PROVE  Honest(j)'
<1>1. \A f : Excusable(j, f) => Excusable(j, f)'
  BY DEF Excusable, Failed
<1>2. Judged(j)' = Judged(j) /\ \A i : Fact(j, i)' = Fact(j, i)
  BY DEF Judged, Fact, Calls, IsMcp
<1>3. Denied(j)' = Denied(j) /\ Affirmed(j)' = Affirmed(j)
  BY <1>2 DEF Denied, Affirmed, Counted
<1>4. next'[j] = 1 => 1 .. next'[j] - 1 = {}
  OBVIOUS
<1> QED BY <1>1, <1>2, <1>3, <1>4 DEF Honest

\* What a call shows is so now, and what it does not show is not so, or a zone
\* is to blame; a job that insists on the fact fails then.
LEMMA MakeCallKeepsHonest ==
    ASSUME Typed, NEW j \in Jobs, Honest(j), MakeCall(j) PROVE Honest(j)'
<1> DEFINE last == next[j] = Len(Calls(j))
<1>1. PICK call, outcome, shown :
        /\ call = Calls(j)[next[j]]
        /\ outcome \in Outcomes(j)
        /\ shown = IF outcome = "answered" THEN graph \cap {call.fact} ELSE {}
        /\ seen' = [seen EXCEPT ![j] = @ \cup shown]
        /\ next' = [next EXCEPT ![j] = @ + 1]
        /\ \/ /\ last \/ outcome \in {"fail", "skip"}
              /\ Conclude(j, seen'[j], outcome = "fail")
           \/ /\ ~last /\ outcome \notin {"fail", "skip"}
              /\ UNCHANGED <<pc, verdict>>
  <2>1. PICK outcome \in Outcomes(j) \ {"panic"} :
          LET shown == IF outcome = "answered" THEN graph \cap {Calls(j)[next[j]].fact} ELSE {}
              ends == last \/ outcome \in {"fail", "skip"}
          IN  /\ seen' = [seen EXCEPT ![j] = @ \cup shown]
              /\ next' = [next EXCEPT ![j] = @ + 1]
              /\ \/ ends /\ Conclude(j, seen'[j], outcome = "fail")
                 \/ ~ends /\ UNCHANGED <<pc, verdict>>
    BY DEF MakeCall
  <2> DEFINE call == Calls(j)[next[j]]
             shown == IF outcome = "answered" THEN graph \cap {call.fact} ELSE {}
  <2>2. \/ /\ last \/ outcome \in {"fail", "skip"}
           /\ Conclude(j, seen'[j], outcome = "fail")
        \/ /\ ~last /\ outcome \notin {"fail", "skip"}
           /\ UNCHANGED <<pc, verdict>>
    BY <2>1
  <2>3. seen' = [seen EXCEPT ![j] = @ \cup shown] /\ next' = [next EXCEPT ![j] = @ + 1]
    BY <2>1
  <2> HIDE DEF last
  <2> QED BY <2>2, <2>3
<1>2. UNCHANGED <<kind, rule, graph, zone, lived>> /\ pc[j] = "running"
  BY DEF MakeCall, world
<1>3. BasicTypes /\ next[j] \in 1 .. Len(Calls(j)) /\ Now \in lived[j]
  BY <1>2 DEF Typed, Counts, Honest
<1>4. /\ \A x : Excusable(j, x)' = Excusable(j, x)
      /\ Judged(j)' = Judged(j) /\ \A i : Fact(j, i)' = Fact(j, i)
      /\ Failed(j)' = Failed(j)
  BY <1>2 DEF Excusable, Failed, Judged, Fact, Calls, IsMcp
<1>5. /\ Len(Calls(j)) \in Nat /\ Calls(j) \in Seq(CallRecords)
      /\ call \in CallRecords /\ call.fact = Fact(j, next[j])
  <2>1. PICK c : c = Calls(j)
    OBVIOUS
  <2>2. c \in Seq(CallRecords) /\ Len(c) \in Nat /\ next[j] \in 1 .. Len(c)
    BY <1>3, <2>1, CallsLength DEF BasicTypes
  <2> QED BY <1>1, <2>1, <2>2 DEF Fact
<1>6. DOMAIN Calls(j) = 1 .. Len(Calls(j))
  BY <1>5
<1>7. Judged(j) = {Fact(j, i) : i \in 1 .. Len(Calls(j))} \cap Facts
  BY <1>6 DEF Judged, Fact
<1>8. seen'[j] = seen[j] \cup shown /\ next'[j] = next[j] + 1
  BY <1>1, <1>3 DEF BasicTypes
\* What has been seen.
<1>9. ASSUME NEW f \in seen'[j] PROVE f \in Judged(j) /\ \E w \in lived[j] : f \in w.graph
  <2>1. CASE f \in seen[j]
    BY <2>1 DEF Honest
  <2>2. CASE f \in shown
    <3>1. f = call.fact /\ f \in graph
      BY <1>1, <2>2
    <3>2. f \in Facts
      BY <1>3, <3>1 DEF BasicTypes
    <3>3. f \in Judged(j)
      BY <1>3, <1>5, <1>7, <3>1, <3>2
    <3>4. Now.graph = graph
      BY DEF Now
    <3> QED BY <1>3, <3>1, <3>3, <3>4
  <2> QED BY <1>8, <1>9, <2>1, <2>2
\* What this call has not shown.
<1>10. outcome # "answered" => Failed(j) \/ graph \cap Judged(j) = {}
  <2>1. Now.zone = zone /\ DOMAIN zone = Zones
    BY <1>3 DEF Now, BasicTypes
  <2>2. call.zone \in Zones /\ "storage" \in Zones
    BY <1>5 DEF CallRecords, Zones
  <2>3. outcome # "answered" =>
           (\E z \in DOMAIN zone : zone[z] # "up") \/ graph \cap Judged(j) = {}
    BY <1>1, <2>1, <2>2 DEF Outcomes
  <2> QED BY <1>3, <2>1, <2>3 DEF Failed
<1>11. outcome # "answered" => outcome \in {call.onStatus, call.onDown}
  BY <1>1 DEF Outcomes
<1>12. /\ call.fact \in Insists[kind[j]] => call.onStatus = "fail" /\ call.onDown = "fail"
       /\ "skip" \in {call.onStatus, call.onDown} => Insists[kind[j]] = {}
  BY <1>1, <1>3, <1>6, CallsOfJob DEF Legal, BasicTypes
<1>13. outcome # "fail" /\ call.fact \in Facts =>
          call.fact \in seen'[j] \/ Excusable(j, call.fact)
  <2>1. CASE outcome = "answered" /\ call.fact \in graph
    BY <1>1, <1>8, <2>1
  <2>2. CASE outcome = "answered" /\ call.fact \notin graph
    <3>1. Now.graph = graph
      BY DEF Now
    <3> QED BY <1>3, <2>2, <3>1 DEF Excusable
  <2>3. CASE outcome # "answered" /\ Failed(j)
    BY <1>11, <1>12, <2>3 DEF Excusable
  <2>4. CASE outcome # "answered" /\ graph \cap Judged(j) = {}
    BY <1>3, <1>5, <1>7, <2>4 DEF Excusable, Now
  <2> QED BY <1>10, <2>1, <2>2, <2>3, <2>4
<1>14. outcome # "fail" =>
          \A i \in 1 .. next[j] :
              Fact(j, i) \in Facts => Fact(j, i) \in seen'[j] \/ Excusable(j, Fact(j, i))
  <2>1. \A i \in 1 .. next[j] : i \in 1 .. next[j] - 1 \/ i = next[j]
    BY <1>3, <1>5
  <2>2. \A i \in 1 .. next[j] - 1 :
              Fact(j, i) \in Facts => Fact(j, i) \in seen'[j] \/ Excusable(j, Fact(j, i))
    BY <1>2, <1>8 DEF Honest
  <2> QED BY <1>5, <1>13, <2>1, <2>2
<1>15. outcome = "skip" => \A f \in Judged(j) : Excusable(j, f)
  BY <1>3, <1>10, <1>11, <1>12 DEF Excusable, Now
<1>16. CASE ~last /\ outcome \notin {"fail", "skip"} /\ UNCHANGED <<pc, verdict>>
  <2>1. next'[j] - 1 = next[j]
    BY <1>3, <1>5, <1>8
  <2>2. Now' = Now
    BY <1>2 DEF Now
  <2>3. Denied(j)' = Denied(j) /\ Affirmed(j)' = Affirmed(j)
    BY <1>2, <1>4, <1>16 DEF Denied, Affirmed, Counted
  <2> QED BY <1>2, <1>3, <1>4, <1>9, <1>14, <1>16, <2>1, <2>2, <2>3 DEF Honest
<1>17. CASE /\ last \/ outcome \in {"fail", "skip"}
            /\ Conclude(j, seen'[j], outcome = "fail")
  <2>1. /\ pc'[j] \in {"answering", "answered"}
        /\ verdict'[j] =
             IF outcome = "fail" THEN "error"
             ELSE IF Counted(j, seen'[j]) = {} THEN "clean"
             ELSE IF kind[j] = "validate" /\ \E f \in seen'[j] : rule[f] = "FAIL" THEN "rejected"
             ELSE "found"
    BY <1>3, <1>17 DEF Conclude, BasicTypes
  <2>2. \A f \in Denied(j)' : Excusable(j, f)
    <3>1. ASSUME NEW f \in Denied(j)' PROVE f \in Judged(j) /\ f \notin seen'[j] /\ outcome # "fail"
      <4>1. /\ f \in Judged(j)
            /\ \/ verdict'[j] = "clean" /\ (kind[j] = "validate" => rule[f] # "none")
               \/ verdict'[j] = "found" /\ kind[j] = "validate" /\ rule[f] = "FAIL"
        BY <1>2, <1>4 DEF Denied, Counted
      <4> QED BY <2>1, <4>1 DEF Counted
    <3>2. CASE outcome = "skip"
      BY <1>15, <3>1, <3>2
    <3>3. CASE outcome # "skip" /\ outcome # "fail"
      <4>1. next[j] = Len(Calls(j))
        BY <1>17, <3>3
      <4> QED BY <1>7, <1>14, <3>1, <3>3, <4>1
    <3> QED BY <3>1, <3>2, <3>3
  <2>3. verdict'[j] \in {"found", "rejected"} =>
           \E f \in Affirmed(j)', w \in lived[j] : f \in w.graph
    <3>1. Affirmed(j)' = {f \in Counted(j, Judged(j)) : verdict'[j] = "rejected" => rule[f] = "FAIL"}
      BY <1>2, <1>4 DEF Affirmed, Counted
    <3>2. \A f \in seen'[j] : rule[f] = "FAIL" => f \in Counted(j, Judged(j))
      BY <1>9 DEF Counted
    <3>3. Counted(j, seen'[j]) \subseteq Counted(j, Judged(j)) /\ Counted(j, seen'[j]) \subseteq seen'[j]
      BY <1>9 DEF Counted
    <3>4. CASE verdict'[j] = "rejected"
      BY <1>9, <2>1, <3>1, <3>2, <3>4
    <3>5. CASE verdict'[j] = "found"
      BY <1>9, <2>1, <3>1, <3>3, <3>5
    <3> QED BY <3>4, <3>5
  <2> QED BY <1>2, <1>4, <1>9, <2>1, <2>2, <2>3 DEF Honest
<1> QED BY <1>1, <1>16, <1>17

LEMMA NextKeepsHonest ==
    ASSUME Typed, Queued, \A j \in Jobs : Honest(j), [Next]_vars, NEW j \in Jobs
    PROVE  Honest(j)'
<1>1. BasicTypes /\ Counts(j) /\ Honest(j)
  BY DEF Typed
<1>2. CASE Move
  <2>1. /\ UNCHANGED <<kind, rule, pc, next, seen, verdict>>
        /\ lived'[j] = IF pc[j] = "running" THEN lived[j] \cup {Now'} ELSE lived[j]
    BY <1>2 DEF Move
  <2> QED BY <1>1, <2>1, StaysHonest
<1>3. CASE CloseInput \/ EndOfInput \/ Exit \/ UNCHANGED vars \/ \E x \in Jobs : Panic(x)
  <2>1. UNCHANGED <<kind, rule, graph, zone, next, seen, verdict, lived>>
    BY <1>3 DEF CloseInput, EndOfInput, Exit, Panic, vars, world, server
  <2>2. pc'[j] \in {pc[j], "dropped"}
    BY <1>3 DEF CloseInput, EndOfInput, Exit, Panic, End, vars
  <2> QED BY <1>1, <2>1, <2>2, StaysHonest DEF Now, Honest
<1>4. ASSUME NEW x \in Jobs, pc[x] \in {"new", "sent"}, Begin(x),
             UNCHANGED <<kind, rule, graph, zone, next, seen, verdict>>
      PROVE  Honest(j)'
  <2>1. CASE x = j
    <3>1. lived'[j] = {Now} /\ pc'[j] \in {"answering", "running"} /\ lived[j] = {}
      BY <1>1, <1>4, <2>1 DEF Begin, BasicTypes, Honest
    <3> QED BY <1>1, <1>4, <2>1, <3>1, StaysHonest DEF Now, Counts
  <2>2. CASE x # j
    <3>1. lived'[j] = lived[j] /\ pc'[j] = pc[j]
      BY <1>1, <1>4, <2>2 DEF Begin, BasicTypes
    <3> QED BY <1>1, <1>4, <3>1, StaysHonest DEF Now, Honest
  <2> QED BY <2>1, <2>2
<1>5. CASE ReadLine
  <2>1. PICK x \in Jobs : x = Head(input) /\ pc[x] = "sent"
    BY <1>1, <1>5, HeadAndTail DEF ReadLine
  <2>2. UNCHANGED <<kind, rule, graph, zone, next, seen, verdict>>
    BY <1>5 DEF ReadLine, world
  <2>3. CASE Begin(x)
    BY <1>4, <2>1, <2>2, <2>3
  <2>4. CASE lived' = lived /\ (pc' = pc \/ pc' = [pc EXCEPT ![x] = "ignored"])
    <3>1. pc'[j] \in {pc[j], "ignored"}
      BY <1>1, <2>4 DEF BasicTypes
    <3> QED BY <1>1, <2>2, <2>4, <3>1, StaysHonest DEF Now, Honest
  <2> QED BY <1>5, <2>1, <2>3, <2>4 DEF ReadLine
<1>6. ASSUME NEW x \in Jobs, MakeCall(x) PROVE Honest(j)'
  <2>1. CASE x = j
    BY <1>1, <1>6, <2>1, MakeCallKeepsHonest
  <2>2. CASE x # j
    <3>1. UNCHANGED <<kind, rule, graph, zone, lived, pc[j], next[j], seen[j], verdict[j]>>
      BY <1>1, <1>6, <2>2 DEF MakeCall, Conclude, world, BasicTypes
    <3> QED BY <1>1, <3>1, StaysHonest DEF Now, Honest
  <2> QED BY <2>1, <2>2
<1>7. ASSUME NEW x \in Jobs, Send(x) \/ BeginWrite(x) \/ EndWrite(x) PROVE Honest(j)'
  <2>1. UNCHANGED <<kind, rule, graph, zone, next, seen, verdict, lived>>
    BY <1>7 DEF Send, BeginWrite, EndWrite, world
  <2>2. pc'[j] = pc[j] \/ (pc[j] = "new" /\ pc'[j] = "sent") \/ pc'[j] \in {"writing", "answered"}
    BY <1>1, <1>7 DEF Send, BeginWrite, EndWrite, BasicTypes
  <2> QED BY <1>1, <2>1, <2>2, StaysHonest DEF Now, Honest
<1>8. ASSUME NEW x \in Jobs, StartCommand(x) PROVE Honest(j)'
  BY <1>4, <1>8 DEF StartCommand, world
<1> QED BY <1>2, <1>3, <1>5, <1>6, <1>7, <1>8 DEF Next, Read, Step

-----------------------------------------------------------------------------
(* The theorems. *)

IInv == Typed /\ Queued /\ Writers /\ Halves /\ \A j \in Jobs : Honest(j)

LEMMA InitIInv == Init => IInv
<1> SUFFICES ASSUME Init PROVE IInv
  OBVIOUS
<1>1. Queued /\ Writers
  BY DEF Init, Queued, Writers
<1>2. Halves
  <2>1. mcpWriteMu = Free /\ Len(stdout) = 2 * 0
    BY DEF Init
  <2> QED BY <2>1 DEF Halves
<1>3. \A j \in Jobs : Honest(j)
  BY DEF Init, Honest, Denied
<1> QED BY <1>1, <1>2, <1>3, InitTyped DEF IInv

LEMMA NextKeepsIInv == IInv /\ [Next]_vars => IInv'
<1> SUFFICES ASSUME IInv, [Next]_vars PROVE IInv'
  OBVIOUS
<1>1. Typed /\ BasicTypes /\ Queued /\ Writers /\ Halves /\ \A j \in Jobs : Honest(j)
  BY DEF IInv, Typed
<1> QED BY <1>1, NextKeepsTyped, NextKeepsQueued, NextKeepsWriters, NextKeepsHalves,
           NextKeepsHonest DEF IInv

\* What is in the input, at the mutex and on standard output, and what every
\* job has looked up so far, fit together.
THEOREM InductiveInvariant == Spec => []IInv
BY InitIInv, NextKeepsIInv, PTL DEF Spec

\* A job asks for no call beyond its last.
THEOREM TypeCorrect == Spec => []TypeOK
<1>1. IInv => TypeOK
  BY TypedIsTypeOK DEF IInv
<1> QED BY <1>1, InductiveInvariant, PTL

\* A verdict of archgraph-cli was true of each fact at some moment of the job;
\* a failed zone excuses a clean one, but not validate about smells, nor impact
\* and diff.  Of validate it is about the facts that a rule makes a failure or
\* a warning.
THEOREM TrueVerdictsHold == Spec => []TrueVerdicts
<1>1. IInv => TrueVerdicts
  BY DEF IInv, Honest, Excusable, Failed, TrueVerdicts
<1> QED BY <1>1, InductiveInvariant, PTL

\* handleMCP's goroutines, mutex and returning main() implement RequestReply:
\* an accepted request has one answer, on a line of its own, or is lost with
\* the server, which returns or dies of a panic.
THEOREM RepliesImplemented == Spec => RepliesSpec
<1>1. IInv /\ [Next]_vars => [Replies!Next]_(Replies!vars)
  BY NextRefines DEF IInv, Typed
<1> QED BY <1>1, InitRefines, InductiveInvariant, PTL DEF Spec, RepliesSpec, Replies!Spec

-----------------------------------------------------------------------------
(* The supervisor. *)

\* What main() has not come to has no child yet, and it waits for none that
\* is the last.
StartedInOrder ==
    /\ main = "await" => at < Len(Order)
    /\ \A i \in 1 .. Len(Order) :
          (main = "start" /\ i >= at) \/ (main = "await" /\ i > at)
          => child[Order[i]] = "none"

\* Only a `go run`, or the end of a supervisor that was killed, leaves an
\* orphan.
Excused == \A s \in Services : orphan[s] # "none" => s \in wrapped \/ crashed

\* NothingLeft says nothing of how main() came to exit: with nothing started,
\* or with every child waited for.
SupervisorIInv ==
    /\ SupervisorTypeOK
    /\ StartedInOrder
    /\ Excused
    /\ main = "exited" => AllReaped

-----------------------------------------------------------------------------
(* The order of the services. *)

LEMMA OrderFacts ==
    /\ Len(Order) \in Nat \ {0}
    /\ \A i \in 1 .. Len(Order) : Order[i] \in Services
    /\ \A s \in Services : \E i \in 1 .. Len(Order) : s = Order[i]
    /\ \A i, j \in 1 .. Len(Order) : Order[i] = Order[j] => i = j
    /\ Order[Len(Order)] \notin Vital
    /\ Vital \subseteq Services
BY SupervisorAssumption DEF Services, ToSet, IsInjective, Last

-----------------------------------------------------------------------------
(* Steps of one kind. *)

\* A child that runs or has exited changes, and nothing else but the context.
LEMMA ChildChanges ==
    ASSUME SupervisorIInv, NEW s \in Services, Alive(s) \/ Exited(s),
           NEW state \in ChildStates, child' = [child EXCEPT ![s] = state],
           ctx' \in {"open", "interrupted", "terminated", "stopped"},
           UNCHANGED <<wrapped, main, at, orphan, crashed, boots>>
    PROVE  SupervisorIInv'
<1> USE DEF SupervisorIInv
<1>1. child[s] \notin {"none", "gone"}
  BY DEF Alive, Exited
<1>2. main # "exited"
  BY <1>1 DEF AllReaped
<1>3. SupervisorTypeOK'
  BY DEF SupervisorTypeOK
<1>4. StartedInOrder'
  BY <1>1, OrderFacts DEF StartedInOrder, SupervisorTypeOK
<1>5. Excused'
  BY DEF Excused
<1> QED BY <1>2, <1>3, <1>4, <1>5

\* Children that are alive are killed.
LEMMA KillKeepsIInv ==
    ASSUME SupervisorIInv, NEW victims \in SUBSET Services, \A s \in victims : Alive(s),
           Kill(victims), ~Ended, main' = main \/ main' = "killing",
           UNCHANGED <<wrapped, at, ctx, crashed, boots>>
    PROVE  SupervisorIInv'
<1> USE DEF SupervisorIInv
<1>1. SupervisorTypeOK'
  BY DEF SupervisorTypeOK, Kill, ChildStates
<1>2. StartedInOrder'
  BY OrderFacts DEF StartedInOrder, Kill, Alive
<1>3. Excused'
  BY DEF Excused, Kill, LeftBy
<1>4. main' # "exited"
  BY DEF Ended
<1> QED BY <1>1, <1>2, <1>3, <1>4

\* main() goes on, with the children as they are.
LEMMA MainGoesOn ==
    ASSUME SupervisorIInv, UNCHANGED <<wrapped, child, orphan, crashed, boots>>,
           ctx' \in {"open", "interrupted", "terminated", "stopped"},
           \/ main' = main /\ at' = at
           \/ main' \in {"abort", "draining"} /\ at' = at
           \/ main = "await" /\ main' = "start" /\ at' = at + 1
           \/ main' = "exited" /\ at' = at /\ AllReaped
    PROVE  SupervisorIInv'
<1> USE DEF SupervisorIInv
<1>1. main = "await" => at + 1 \in 1 .. Len(Order)
  BY OrderFacts DEF SupervisorTypeOK, StartedInOrder
<1>2. SupervisorTypeOK'
  BY <1>1 DEF SupervisorTypeOK
<1>3. StartedInOrder'
  BY OrderFacts DEF StartedInOrder, SupervisorTypeOK
<1>4. Excused' /\ (main' = "exited" => AllReaped')
  BY DEF Excused, AllReaped
<1> QED BY <1>2, <1>3, <1>4

-----------------------------------------------------------------------------
(* The inductive invariant. *)

LEMMA SupervisorStarts == SupervisorInit => SupervisorIInv
<1> SUFFICES ASSUME SupervisorInit PROVE SupervisorIInv
  OBVIOUS
<1>1. SupervisorTypeOK
  <2>1. at \in 1 .. Len(Order) /\ boots \in 1 .. MaxBoots
    BY OrderFacts, SupervisorAssumption DEF SupervisorInit
  <2> QED BY <2>1 DEF SupervisorInit, SupervisorTypeOK, ChildStates
<1> QED BY <1>1, OrderFacts DEF SupervisorInit, SupervisorIInv, StartedInOrder, Excused

\* Whatever main() does, it starts the services one by one, and exits with
\* every child waited for or with none started.
LEMMA MainKeepsIInv == ASSUME SupervisorIInv, Main PROVE SupervisorIInv'
<1> USE DEF SupervisorIInv
<1>1. CASE StartZone
  <2>1. SupervisorTypeOK'
    BY <1>1, OrderFacts DEF StartZone, SupervisorTypeOK, ChildStates
  <2>2. StartedInOrder'
    BY <1>1, OrderFacts DEF StartZone, StartedInOrder, SupervisorTypeOK
  <2>3. Excused' /\ main' # "exited"
    BY <1>1 DEF StartZone, Excused
  <2> QED BY <2>1, <2>2, <2>3
<1>2. CASE StartFails
  <2>1. at = 1 => AllReaped
    <3>1. ASSUME at = 1, NEW s \in Services PROVE child[s] = "none"
      <4>1. PICK i \in 1 .. Len(Order) : s = Order[i]
        BY OrderFacts
      <4>2. Len(Order) \in Nat /\ i \in 1 .. Len(Order)
        BY OrderFacts
      <4>3. main = "start" /\ i >= at
        BY <1>2, <3>1, <4>2 DEF StartFails
      <4> QED BY <4>1, <4>2, <4>3 DEF StartedInOrder
    <3> QED BY <3>1 DEF AllReaped
  <2> QED BY <1>2, <2>1, MainGoesOn DEF StartFails, Cancel, SupervisorTypeOK
<1>3. CASE Healthy
  BY <1>3, MainGoesOn DEF Healthy, SupervisorTypeOK
<1>4. CASE NeverHealthy
  BY <1>4, MainGoesOn DEF NeverHealthy, Cancel, SupervisorTypeOK
<1>5. CASE Abort
  BY <1>5, MainGoesOn DEF Abort, SupervisorTypeOK
<1>6. CASE Terminate
  BY <1>6, MainGoesOn DEF Terminate, SupervisorTypeOK
<1>7. CASE Drained
  BY <1>7, MainGoesOn DEF Drained, SupervisorTypeOK
<1>8. CASE KillRest
  BY <1>8, KillKeepsIInv DEF KillRest, Ended
<1> QED BY <1>1, <1>2, <1>3, <1>4, <1>5, <1>6, <1>7, <1>8 DEF Main

\* A killed supervisor leaves orphans, and the excuse for them.
LEMMA CrashKeepsIInv == ASSUME SupervisorIInv, Crash PROVE SupervisorIInv'
<1> USE DEF SupervisorIInv
<1>1. \A s \in Services : orphan'[s] \in {"none", "starting", "up"}
  BY DEF Crash, Unattended, Alive, SupervisorTypeOK
<1>2. SupervisorTypeOK'
  BY <1>1 DEF Crash, SupervisorTypeOK, ChildStates
<1>3. StartedInOrder' /\ Excused' /\ main' # "exited"
  BY DEF Crash, StartedInOrder, Excused
<1> QED BY <1>2, <1>3

LEMMA RestartKeepsIInv == ASSUME SupervisorIInv, Restart PROVE SupervisorIInv'
<1> USE DEF SupervisorIInv
<1>1. SupervisorTypeOK'
  BY OrderFacts, SupervisorAssumption DEF Restart, SupervisorTypeOK, ChildStates
<1>2. StartedInOrder' /\ Excused' /\ main' # "exited"
  BY OrderFacts DEF Restart, StartedInOrder, Excused
<1> QED BY <1>1, <1>2

\* What a service, its goroutines, or somebody else does to it.
LEMMA ServiceKeepsIInv ==
    ASSUME SupervisorIInv, NEW s \in Services,
           \/ KillByContext(s) \/ Reap(s) \/ Boot(s) \/ Fails(s)
           \/ KilledOutside(s) \/ StopsCleanly(s)
           \/ OrphanListens(s) \/ OrphanEnds(s)
    PROVE  SupervisorIInv'
<1>1. CASE KillByContext(s)
  BY <1>1, KillKeepsIInv DEF KillByContext
<1>2. CASE KilledOutside(s)
  BY <1>2, KillKeepsIInv DEF KilledOutside
<1>3. CASE Reap(s)
  BY <1>3, ChildChanges DEF Reap, Cancel, ChildStates, SupervisorIInv, SupervisorTypeOK
<1>4. CASE Boot(s)
  BY <1>4, ChildChanges DEF Boot, Listen, BindFails, Become, Alive, ChildStates, SupervisorIInv, SupervisorTypeOK
<1>5. CASE Fails(s)
  BY <1>5, ChildChanges DEF Fails, Become, ChildStates, SupervisorIInv, SupervisorTypeOK
<1>6. CASE StopsCleanly(s)
  BY <1>6, ChildChanges DEF StopsCleanly, Become, ChildStates, SupervisorIInv, SupervisorTypeOK
<1>7. CASE OrphanListens(s) \/ OrphanEnds(s)
  BY <1>7 DEF OrphanListens, OrphanEnds, SupervisorIInv, SupervisorTypeOK, StartedInOrder, Excused, AllReaped
<1> QED BY <1>1, <1>2, <1>3, <1>4, <1>5, <1>6, <1>7

LEMMA SupervisorStepKeepsIInv == SupervisorIInv /\ [SupervisorNext]_supervisorVars => SupervisorIInv'
<1> SUFFICES ASSUME SupervisorIInv, [SupervisorNext]_supervisorVars PROVE SupervisorIInv'
  OBVIOUS
<1>1. CASE Signal
  BY <1>1, MainGoesOn DEF Signal
<1>2. CASE UNCHANGED supervisorVars
  BY <1>2 DEF supervisorVars, SupervisorIInv, SupervisorTypeOK, StartedInOrder, Excused, AllReaped
<1> QED BY <1>1, <1>2, MainKeepsIInv, CrashKeepsIInv, RestartKeepsIInv, ServiceKeepsIInv DEF SupervisorNext

-----------------------------------------------------------------------------
\* The services are started in order, and main() exits with none in hand.
THEOREM SupervisorInductive == SupervisorSpec => []SupervisorIInv
BY SupervisorStarts, SupervisorStepKeepsIInv, PTL DEF SupervisorSpec

\* main() never comes to wait for a service beyond the last, whichever health
\* checks fail.
THEOREM SupervisorTypeCorrect == SupervisorSpec => []SupervisorTypeOK
<1>1. SupervisorIInv => SupervisorTypeOK
  BY DEF SupervisorIInv
<1> QED BY <1>1, SupervisorInductive, PTL

\* However the supervisor of cmd/archgraph ends but by a kill, no child is
\* left, and no service but behind a `go run`.
THEOREM NothingLeftHolds == SupervisorSpec => []NothingLeft
<1>1. SupervisorIInv => NothingLeft
  BY DEF SupervisorIInv, NothingLeft, AllReaped, Excused
<1> QED BY <1>1, SupervisorInductive, PTL

=============================================================================
