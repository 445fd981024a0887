------------------------------ MODULE Analytics ------------------------------
(***************************************************************************)
(* The analytics of serving.  Audit takes one listing of a namespace and   *)
(* reports its circular dependencies, found by Tarjan's algorithm with the *)
(* call stack made explicit.  CalculateBlastRadius asks storage for the    *)
(* callers of one node after another, while the graph may change, and      *)
(* follows the probability that a change reaches them.                     *)
(***************************************************************************)
EXTENDS Naturals, Sequences, SequencesExt, FiniteSetsExt

CONSTANTS
    Nodes,
    Weights,     \* decay times confidence of an edge, in twentieths
    One,         \* the probability 1: 20^5 keeps every product of five exact
    AuditGraphs,     \* the edges of each graph that is audited
    CallEdges,   \* the edges that a graph may have whose impact is asked for
    Depths,      \* the depths that are asked for
    MaxMoves     \* bound on the changes of the graph under a request

NoEdge == 0

ASSUME AnalyticsAssumption ==
    /\ IsFiniteSet(Nodes) /\ Nodes # {}
    /\ Weights \subseteq 1 .. 20 /\ Weights # {}
    /\ One \in Nat \ {0}
    /\ AuditGraphs \subseteq SUBSET (Nodes \X Nodes)
    /\ CallEdges \subseteq Nodes \X Nodes
    /\ Depths \subseteq Nat /\ MaxMoves \in Nat

VARIABLES
    request,     \* "audit" or "impact"
    status,      \* "running", "answered" or "failed"
    weight,      \* the graph; NoEdge where there is no edge
    \* tarjanSCC
    calls,       \* the calls of strongconnect that have not returned
    index, lowlink,
    stack,
    sccs,
    cycles,      \* NodeIDs of the report's circular_dependency smells
    \* CalculateBlastRadius
    origin, maxDepth,
    queue,       \* frames: a node, its depth and its probability
    visited,     \* each node's best probability so far; 0 is unvisited
    affected,    \* the report's nodes with their probabilities
    low, high    \* auxiliary: the least and the greatest weights so far

audit == <<calls, index, lowlink, stack, sccs, cycles>>
impact == <<queue, visited, affected>>
asked == <<origin, maxDepth>>
vars == <<request, status, weight, audit, asked, impact, low, high>>

Asked(kind) == request = kind /\ status = "running"

Unset == 0

Edges == {e \in Nodes \X Nodes : weight[e] # NoEdge}

\* Sources and sinks.
Involved == UNION {{e[1], e[2]} : e \in Edges}

\* What the edges weigh does not matter to an audit.
AnyWeight == CHOOSE w \in Weights : TRUE

\* Broken: without the upper bound.
BoundedBelow(depth) == IF depth >= 1 THEN depth ELSE 5

\* MaxDepth is 5 by default and at most.
Bounded(depth) == IF depth \in 1 .. 5 THEN depth ELSE 5

Init ==
    /\ \/ /\ request = "audit"
          /\ \E edges \in AuditGraphs :
                weight = [e \in Nodes \X Nodes |-> IF e \in edges THEN AnyWeight ELSE NoEdge]
       \/ /\ request = "impact"
          /\ \E w \in [CallEdges -> Weights \cup {NoEdge}] :
                weight = [e \in Nodes \X Nodes |-> IF e \in CallEdges THEN w[e] ELSE NoEdge]
    /\ status = "running"
    /\ calls = << >>
    /\ index = [n \in Nodes |-> Unset]
    /\ lowlink = [n \in Nodes |-> Unset]
    /\ stack = << >>
    /\ sccs = << >>
    /\ cycles = {}
    /\ origin \in IF request = "impact" THEN Nodes ELSE {CHOOSE n \in Nodes : TRUE}
    /\ maxDepth \in {Bounded(d) : d \in IF request = "impact" THEN Depths ELSE {0}}
    /\ queue = << [node |-> origin, depth |-> 0, prob |-> One] >>
    /\ visited = [n \in Nodes |-> 0]
    /\ affected = << >>
    /\ low = weight /\ high = weight

-----------------------------------------------------------------------------
(* tarjanSCC: rest is what the loop over adj[v] has still to look at.  The *)
(* order of the nodes and of each one's edges is any.                      *)

Numbered == {n \in Nodes : index[n] # Unset}
OnStack == Range(stack)

Enter(v, above) ==
    /\ index' = [index EXCEPT ![v] = Cardinality(Numbered) + 1]
    /\ lowlink' = [lowlink EXCEPT ![v] = Cardinality(Numbered) + 1]
    /\ stack' = Append(stack, v)
    /\ calls' = Append(above, [node |-> v, rest |-> {w \in Nodes : <<v, w>> \in Edges}])

Lower(v, bound) == lowlink' = [lowlink EXCEPT ![v] = Min({@, bound})]

Root(v) ==
    /\ Asked("audit") /\ calls = << >>
    /\ v \in Involved /\ index[v] = Unset
    /\ Enter(v, << >>)
    /\ UNCHANGED <<request, status, weight, sccs, cycles, asked, impact, low, high>>

\* Broken: without asking whether w is on the stack.
LookAnywhere(w) ==
    /\ calls # << >> /\ w \in Last(calls).rest
    /\ LET v == Last(calls).node
           below == [calls EXCEPT ![Len(calls)].rest = @ \ {w}]
       IN  \/ /\ index[w] = Unset
              /\ Enter(w, below)
           \/ /\ index[w] # Unset
              /\ Lower(v, index[w])
              /\ calls' = below
              /\ UNCHANGED <<index, stack>>
    /\ UNCHANGED <<request, status, weight, sccs, cycles, asked, impact, low, high>>

Look(w) ==
    /\ calls # << >> /\ w \in Last(calls).rest
    /\ LET v == Last(calls).node
           below == [calls EXCEPT ![Len(calls)].rest = @ \ {w}]
       IN  \/ /\ index[w] = Unset
              /\ Enter(w, below)
           \/ /\ index[w] # Unset
              /\ IF w \in OnStack THEN Lower(v, index[w]) ELSE UNCHANGED lowlink
              /\ calls' = below
              /\ UNCHANGED <<index, stack>>
    /\ UNCHANGED <<request, status, weight, sccs, cycles, asked, impact, low, high>>

\* strongconnect(v) returns: v's component is popped if v is its root, and
\* the caller takes over v's lowlink.
Return ==
    /\ calls # << >> /\ Last(calls).rest = {}
    /\ LET v == Last(calls).node
           at == CHOOSE i \in DOMAIN stack : stack[i] = v
       IN  /\ \/ /\ lowlink[v] = index[v]
                 /\ sccs' = Append(sccs, Range(SubSeq(stack, at, Len(stack))))
                 /\ stack' = SubSeq(stack, 1, at - 1)
              \/ /\ lowlink[v] # index[v]
                 /\ UNCHANGED <<sccs, stack>>
           /\ calls' = Front(calls)
           /\ IF Len(calls) > 1 THEN Lower(calls[Len(calls) - 1].node, lowlink[v])
              ELSE UNCHANGED lowlink
    /\ UNCHANGED <<request, status, weight, index, cycles, asked, impact, low, high>>

\* Audit keeps the components of two or more nodes, and self-loops.
IsCycle(scc) == Cardinality(scc) >= 2 \/ \E n \in scc : <<n, n>> \in Edges

ReportCycles ==
    /\ Asked("audit") /\ calls = << >> /\ Involved \subseteq Numbered
    /\ cycles' = {scc \in Range(sccs) : IsCycle(scc)}
    /\ status' = "answered"
    /\ UNCHANGED <<request, weight, calls, index, lowlink, stack, sccs, asked, impact, low, high>>

-----------------------------------------------------------------------------
(* CalculateBlastRadius. *)

f == Head(queue)

\* A node comes up again, no likelier than before.
Skip ==
    /\ Asked("impact") /\ queue # << >>
    /\ visited[f.node] >= f.prob
    /\ queue' = Tail(queue)
    /\ UNCHANGED <<request, status, weight, audit, asked, visited, affected, low, high>>

\* The frames of f's callers, in the order in which storage lists the edges.
Callers ==
    LET onwards(e) == (f.prob * weight[e]) \div 20
        kept == {e \in Edges : e[2] = f.node /\ onwards(e) > One \div 10}
    IN  {[i \in DOMAIN order |->
             [node |-> order[i][1], depth |-> f.depth + 1, prob |-> onwards(order[i])]]
            : order \in SetToSeqs(kept)}

Visit(callers) ==
    /\ visited' = [visited EXCEPT ![f.node] = f.prob]
    /\ affected' = IF f.node = origin THEN affected
                   ELSE Append(affected, [node |-> f.node, prob |-> f.prob])
    /\ queue' = Tail(queue) \o (IF f.depth >= maxDepth THEN << >> ELSE callers)
    /\ UNCHANGED <<request, status, weight, audit, asked, low, high>>

\* Broken: a node is expanded once.
ExpandOnce ==
    /\ Asked("impact") /\ queue # << >>
    /\ visited[f.node] < f.prob
    /\ \/ visited[f.node] = 0 /\ \E callers \in Callers : Visit(callers)
       \/ /\ visited[f.node] # 0
          /\ queue' = Tail(queue)
          /\ UNCHANGED <<request, status, weight, audit, asked, visited, affected, low, high>>

Expand ==
    /\ Asked("impact") /\ queue # << >>
    /\ visited[f.node] < f.prob
    /\ \E callers \in Callers : Visit(callers)

\* Storage does not answer: there is no report.
ExpandFails ==
    /\ Asked("impact") /\ queue # << >> /\ visited[f.node] < f.prob
    /\ status' = "failed"
    /\ UNCHANGED <<request, weight, audit, asked, impact, low, high>>

\* The likeliest come first.  Which of two equally likely ones does, nobody tells.
Rank(i) ==
    Cardinality({j \in DOMAIN affected :
                    \/ affected[j].prob > affected[i].prob
                    \/ affected[j].prob = affected[i].prob /\ j <= i})

ByImpact == [k \in DOMAIN affected |-> affected[CHOOSE i \in DOMAIN affected : Rank(i) = k]]

ReportImpact ==
    /\ Asked("impact") /\ queue = << >>
    /\ status' = "answered"
    /\ affected' = ByImpact
    /\ UNCHANGED <<request, weight, audit, asked, queue, visited, low, high>>

\* The graph changes between two calls of storage.
Moves == Cardinality({e \in Nodes \X Nodes : low[e] # high[e]})

Move(e) ==
    /\ Asked("impact") /\ queue # << >> /\ Moves < MaxMoves
    /\ \E w \in (Weights \cup {NoEdge}) \ {weight[e]} :
          /\ weight' = [weight EXCEPT ![e] = w]
          /\ low' = [low EXCEPT ![e] = Min({@, w})]
          /\ high' = [high EXCEPT ![e] = Max({@, w})]
    /\ UNCHANGED <<request, status, audit, asked, impact>>

-----------------------------------------------------------------------------

Next ==
    \/ \E n \in Nodes : Root(n) \/ Look(n)
    \/ Return \/ ReportCycles
    \/ Skip \/ Expand \/ ExpandFails \/ ReportImpact
    \/ \E e \in CallEdges : Move(e)

Spec == Init /\ [][Next]_vars

-----------------------------------------------------------------------------

Probability == 0 .. One

TypeOK ==
    /\ request \in {"audit", "impact"} /\ status \in {"running", "answered", "failed"}
    /\ weight \in [Nodes \X Nodes -> Weights \cup {NoEdge}]
    /\ \A i \in DOMAIN calls : calls[i].node \in OnStack /\ calls[i].rest \subseteq Nodes
    /\ index \in [Nodes -> 0 .. Cardinality(Nodes)]
    /\ \A n \in Nodes : lowlink[n] \in 0 .. index[n]
    /\ stack \in Seq(Nodes) /\ IsInjective(stack)
    /\ \A i \in DOMAIN sccs : sccs[i] \subseteq Nodes
    /\ cycles \subseteq SUBSET Nodes
    /\ origin \in Nodes /\ maxDepth \in 1 .. 5
    /\ \A i \in DOMAIN queue :
          /\ queue[i].node \in Nodes
          /\ queue[i].depth \in 0 .. maxDepth
          /\ queue[i].prob \in Probability
    /\ visited \in [Nodes -> Probability]
    /\ \A i \in DOMAIN affected : affected[i].node \in Nodes \ {origin}

Condensation == INSTANCE Components WITH
    Nodes <- Nodes,
    edges <- IF request = "audit" THEN Edges ELSE {},
    found <- sccs,
    report <- cycles

\* Audit's circular dependencies are the sets of nodes that reach each other
\* and lie on a cycle, all of them and nothing else, whatever the order in
\* which the maps are walked.
ComponentsSpec == Condensation!Spec

\* Each node with the probability of each path of at most so many edges from it
\* to the goal, over edges of these weights.
Onwards(p, weights) ==
    {[node |-> m, prob |-> (p.prob * weights[<<m, p.node>>]) \div 20] : m \in Nodes}

Longer(shorter, weights) == shorter \cup UNION {Onwards(p, weights) : p \in shorter}

Paths(goal, weights) ==
    LET within[d \in 0 .. 5] ==
            IF d = 0 THEN {[node |-> goal, prob |-> One]} ELSE Longer(within[d - 1], weights)
    IN  within

BestWithin(weights, n) ==
    Max({0} \cup {p.prob : p \in {q \in Paths(origin, weights)[maxDepth] : q.node = n}})

\* What a reader finds first of n in the report; 0 if n is not there.
Reported(n) ==
    LET entries == {i \in DOMAIN affected : affected[i].node = n}
    IN  IF entries = {} THEN 0 ELSE affected[Min(entries)].prob

Likely(p) == IF p > One \div 10 THEN p ELSE 0

\* A node's probability is that of its likeliest path within the depth, though
\* nodes come up by depth and not by probability, and are cut off below 0.1.
\* If the graph moved under the request it lies between what the least and
\* the greatest weights give.
BestReported ==
    request = "impact" /\ status = "answered" =>
        \A n \in Nodes \ {origin} :
            /\ Reported(n) >= Likely(BestWithin(low, n))
            /\ Reported(n) <= Likely(BestWithin(high, n))

=============================================================================
