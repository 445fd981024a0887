--------------------------- MODULE AnalyticsProofs ---------------------------
(***************************************************************************)
(* Theorems of Analytics for any graph and any impact that is asked for:   *)
(* that Tarjan's algorithm, as the code runs it, finds the components in   *)
(* the way Components says, and that the search for callers reports each   *)
(* node's likeliest path.                                                  *)
(***************************************************************************)
EXTENDS Analytics, FiniteSetTheorems, WellFoundedInduction, TLAPS

\* The graph that is audited, and what a node of it leads to.
Arcs == IF request = "audit" THEN Edges ELSE {}

Reach(n) == Condensation!ReachFrom(n)

Placed == Condensation!Placed

\* The arc from x to z has been looked at.
Seen(x, z) ==
    /\ <<x, z>> \in Arcs /\ x \in Numbered
    /\ \A i \in DOMAIN calls : calls[i].node = x => z \notin calls[i].rest

AuditShape ==
    /\ calls \in Seq([node : Nodes, rest : SUBSET Nodes])
    /\ index \in [Nodes -> Nat] /\ lowlink \in [Nodes -> Nat]
    /\ stack \in Seq(Nodes)
    /\ sccs \in Seq(SUBSET Nodes)
    /\ request = "impact" => calls = << >>

\* The numbers are given once; what has one is on the stack or in a component.
NumberedOnce ==
    /\ \A n \in Nodes : index[n] <= Cardinality(Numbered) /\ lowlink[n] <= index[n]
    /\ \A m, n \in Numbered : index[m] = index[n] => m = n
    /\ Numbered \subseteq Condensation!Ends
    /\ Numbered = OnStack \cup Placed
    /\ OnStack \cap Placed = {}

\* The stack is in the order of the numbers, and so are the calls.
InNumberOrder ==
    /\ \A i, j \in DOMAIN stack : i < j => index[stack[i]] < index[stack[j]]
    /\ \A i, j \in DOMAIN calls : i < j => index[calls[i].node] < index[calls[j].node]
    /\ \A i \in DOMAIN calls :
          /\ calls[i].node \in OnStack
          /\ \A w \in calls[i].rest : <<calls[i].node, w>> \in Arcs

\* A node on the stack leads to a call under it, and every call under it leads
\* to the node.
Entangled ==
    /\ \A y \in OnStack : \E i \in DOMAIN calls :
          index[calls[i].node] <= index[y] /\ calls[i].node \in Reach(y)
    /\ \A y \in OnStack, i \in DOMAIN calls :
          index[calls[i].node] <= index[y] => y \in Reach(calls[i].node)

\* What has been looked at has a number, and nothing leads out of the
\* components.
Followed ==
    /\ \A x, z \in Nodes : Seen(x, z) => z \in Numbered
    /\ \A x, z \in Nodes : <<x, z>> \in Arcs /\ x \in Placed => z \in Placed

\* A lowlink is the number of a node on the stack that can be reached.
LowReached ==
    \A x \in OnStack : \E y \in OnStack : y \in Reach(x) /\ index[y] = lowlink[x]

\* The lowlink of a call covers the arcs that were looked at above it, up to
\* the next call.
LowCovers ==
    \A i \in DOMAIN calls, y, z \in OnStack :
        /\ index[calls[i].node] <= index[y]
        /\ i + 1 \in DOMAIN calls => index[y] < index[calls[i + 1].node]
        /\ Seen(y, z)
        => lowlink[calls[i].node] <= index[z]

Found ==
    \A i \in DOMAIN sccs :
        sccs[i] # {} /\ \A n \in sccs[i] : sccs[i] = Condensation!Mutual(n)

Search ==
    /\ AuditShape /\ NumberedOnce /\ InNumberOrder /\ Entangled
    /\ Followed /\ LowReached /\ LowCovers /\ Found

-----------------------------------------------------------------------------

Cut == One \div 10

ImpactShape ==
    /\ queue \in Seq([node : Nodes, depth : 0 .. maxDepth, prob : Probability])
    /\ affected \in Seq([node : Nodes \ {origin}, prob : Probability])
    /\ low \in [Nodes \X Nodes -> 0 .. 20] /\ high \in [Nodes \X Nodes -> 0 .. 20]
    /\ \A e \in Nodes \X Nodes : low[e] <= weight[e] /\ weight[e] <= high[e]
    /\ request = "impact" /\ status = "answered" => queue = << >>

\* Some path to n, of at most depth edges, is as likely as prob.
Attained(n, depth, prob) == \E q \in Paths(origin, high)[depth] : q.node = n /\ q.prob >= prob

\* What is followed or reported has a path, and one that is not cut off.
NothingInvented ==
    /\ \A i \in DOMAIN queue :
          /\ Attained(queue[i].node, queue[i].depth, queue[i].prob)
          /\ queue[i].prob > Cut
    /\ \A i \in DOMAIN affected :
          Attained(affected[i].node, maxDepth, affected[i].prob) /\ affected[i].prob > Cut

\* The best that is known of a node is in the report.
VisitedListed ==
    \A n \in Nodes \ {origin} : visited[n] > 0 =>
        \E i \in DOMAIN affected : affected[i].node = n /\ affected[i].prob = visited[n]

\* n is visited with prob or more, or a frame of one of these depths will see
\* to it.
Awaited(n, prob, depths) ==
    \/ visited[n] >= prob
    \/ \E i \in DOMAIN queue :
          queue[i].node = n /\ queue[i].prob >= prob /\ queue[i].depth \in depths

\* The search is at depth c: the paths of c edges are followed or about to be,
\* and those by one more edge of what is visited too.
Wave(c) ==
    /\ \A i \in DOMAIN queue : queue[i].depth \in {c, c + 1}
    /\ \A i, j \in DOMAIN queue : i < j => queue[i].depth <= queue[j].depth
    /\ \A q \in Paths(origin, low)[c] : q.prob > Cut => Awaited(q.node, q.prob, {c})
    /\ c < maxDepth =>
          \A m, n \in Nodes :
              LET onward == (visited[n] * low[<<m, n>>]) \div 20
              IN  onward > Cut => Awaited(m, onward, {c, c + 1})

Spread ==
    /\ ImpactShape /\ NothingInvented /\ VisitedListed
    /\ \E c \in 0 .. maxDepth : Wave(c)

IInv == TypeOK /\ Search /\ Spread /\ BestReported

-----------------------------------------------------------------------------
(* What is reached. *)

Closes(S) == \A x, z \in Nodes : <<x, z>> \in Arcs /\ x \in S => z \in S

LEMMA ArcsArePairs ==
    Arcs \subseteq Nodes \X Nodes
BY DEF Arcs, Edges

LEMMA ClosesIsClosed ==
    ASSUME NEW S
    PROVE  Condensation!Closed(S) <=> Closes(S)
<1>1. Condensation!Closed(S) <=> \A e \in Arcs : e[1] \in S => e[2] \in S
  BY DEF Condensation!Closed, Arcs
<1>2. ASSUME \A e \in Arcs : e[1] \in S => e[2] \in S PROVE Closes(S)
  BY <1>2 DEF Closes
<1>3. ASSUME Closes(S), NEW e \in Arcs, e[1] \in S PROVE e[2] \in S
  <2>1. e = <<e[1], e[2]>> /\ e[1] \in Nodes /\ e[2] \in Nodes
    BY ArcsArePairs
  <2> QED
    BY <1>3, <2>1 DEF Closes
<1> QED
  BY <1>1, <1>2, <1>3

LEMMA InReach ==
    ASSUME NEW n, NEW m
    PROVE  m \in Reach(n) <=>
              m \in Nodes /\ \A S \in SUBSET Nodes : n \in S /\ Closes(S) => m \in S
BY ClosesIsClosed DEF Reach, Condensation!ReachFrom

\* A node reaches itself, its successors, and what they reach.
LEMMA ReachSelf ==
    ASSUME NEW n \in Nodes
    PROVE  n \in Reach(n) /\ Reach(n) \subseteq Nodes
BY InReach

LEMMA ReachArc ==
    ASSUME NEW n, NEW x \in Reach(n), NEW z, <<x, z>> \in Arcs
    PROVE  z \in Reach(n)
<1>1. x \in Nodes /\ z \in Nodes
  BY InReach, ArcsArePairs
<1>2. ASSUME NEW S \in SUBSET Nodes, n \in S, Closes(S) PROVE z \in S
  <2>1. x \in S
    BY <1>2, InReach
  <2> QED
    BY <1>1, <1>2, <2>1 DEF Closes
<1> QED
  BY <1>1, <1>2, InReach

LEMMA ReachOn ==
    ASSUME NEW n, NEW x \in Reach(n), NEW z \in Reach(x)
    PROVE  z \in Reach(n)
<1>1. ASSUME NEW S \in SUBSET Nodes, n \in S, Closes(S) PROVE z \in S
  <2>1. x \in S
    BY <1>1, InReach
  <2> QED
    BY <1>1, <2>1, InReach
<1> QED
  BY <1>1, InReach

\* What no arc leads out of holds all that its nodes reach.
LEMMA ReachStays ==
    ASSUME NEW S \in SUBSET Nodes, Closes(S), NEW n \in S
    PROVE  Reach(n) \subseteq S
BY InReach

\* The first arc of a way to another node.
LEMMA ReachFirst ==
    ASSUME NEW n \in Nodes, NEW m \in Reach(n), m # n
    PROVE  \E x \in Nodes : <<n, x>> \in Arcs /\ m \in Reach(x)
<1> DEFINE after == {y \in Nodes : \E x \in Nodes : <<n, x>> \in Arcs /\ y \in Reach(x)}
           S == after \cup {n}
<1>1. S \in SUBSET Nodes /\ n \in S
  OBVIOUS
<1>2. ASSUME NEW x \in Nodes, NEW z \in Nodes, <<x, z>> \in Arcs, x \in S PROVE z \in S
  <2>1. CASE x = n
    BY <1>2, <2>1, ReachSelf
  <2>2. CASE x \in after
    <3>1. PICK y \in Nodes : <<n, y>> \in Arcs /\ x \in Reach(y)
      BY <2>2
    <3> QED
      BY <1>2, <3>1, ReachArc
  <2> QED
    BY <1>2, <2>1, <2>2
<1>3. Closes(S)
  BY <1>2 DEF Closes
<1>4. m \in S
  BY <1>1, <1>3, ReachStays
<1> QED
  BY <1>4

LEMMA InMutual ==
    ASSUME NEW n, NEW m
    PROVE  m \in Condensation!Mutual(n) <=> m \in Reach(n) /\ n \in Reach(m)
BY DEF Condensation!Mutual, Reach

LEMMA InPlaced ==
    ASSUME NEW n
    PROVE  n \in Placed <=> \E i \in DOMAIN sccs : n \in sccs[i]
BY DEF Placed, Condensation!Placed

LEMMA InEnds ==
    ASSUME NEW n
    PROVE  n \in Condensation!Ends <=>
              \E x, z \in Nodes : <<x, z>> \in Arcs /\ (n = x \/ n = z)
<1>1. Condensation!Ends = UNION {{e[1], e[2]} : e \in Arcs}
  BY DEF Condensation!Ends, Arcs
<1>2. n \in Condensation!Ends <=> \E e \in Arcs : n = e[1] \/ n = e[2]
  BY <1>1
<1>3. ASSUME NEW e \in Arcs PROVE e = <<e[1], e[2]>> /\ e[1] \in Nodes /\ e[2] \in Nodes
  BY ArcsArePairs
<1> QED
  BY <1>2, <1>3, ArcsArePairs

\* A step that keeps the audited graph keeps what it says of its nodes.
SameGraph == request' = request /\ (request = "audit" => weight' = weight)

LEMMA GraphKept ==
    ASSUME SameGraph
    PROVE  /\ Arcs' = Arcs
           /\ \A n : Reach(n)' = Reach(n)
           /\ \A n : Condensation!Mutual(n)' = Condensation!Mutual(n)
           /\ Condensation!Ends' = Condensation!Ends
<1>1. (IF request = "audit" THEN Edges ELSE {})' = (IF request = "audit" THEN Edges ELSE {})
  BY DEF SameGraph, Edges
<1>2. \A n : Condensation!ReachFrom(n)' = Condensation!ReachFrom(n)
  BY <1>1 DEF Condensation!ReachFrom, Condensation!Closed
<1> QED
  BY <1>1, <1>2 DEF Arcs, Reach, Condensation!Mutual, Condensation!Ends

-----------------------------------------------------------------------------
(* The search for components: what every step needs. *)

LEMMA NodesFinite ==
    IsFiniteSet(Nodes) /\ \A S \in SUBSET Nodes : IsFiniteSet(S) /\ Cardinality(S) \in Nat
BY AnalyticsAssumption, FS_Subset, FS_CardinalityType

LEMMA NumberedIs ==
    ASSUME index \in [Nodes -> Nat]
    PROVE  /\ Numbered \in SUBSET Nodes
           /\ \A n \in Nodes : n \in Numbered <=> index[n] > 0
BY DEF Numbered, Unset

LEMMA InRange ==
    ASSUME NEW s, NEW x
    PROVE  x \in Range(s) <=> \E i \in DOMAIN s : s[i] = x
BY DEF Range

LEMMA OnStackIs ==
    ASSUME NEW x
    PROVE  x \in OnStack <=> \E i \in DOMAIN stack : stack[i] = x
BY DEF OnStack, Range

\* Steps that have nothing to do with the search keep it.
LEMMA SearchKept ==
    ASSUME Search, SameGraph, UNCHANGED <<calls, index, lowlink, stack, sccs>>
    PROVE  Search'
<1>1. /\ Arcs' = Arcs
      /\ \A n : Reach(n)' = Reach(n)
      /\ \A n : Condensation!Mutual(n)' = Condensation!Mutual(n)
      /\ Condensation!Ends' = Condensation!Ends
  BY GraphKept
<1>2. Placed' = Placed /\ OnStack' = OnStack /\ Numbered' = Numbered /\ request' = request
  BY DEF Placed, Condensation!Placed, OnStack, Numbered, SameGraph
<1>3. \A x, z : Seen(x, z)' <=> Seen(x, z)
  BY <1>1, <1>2 DEF Seen
<1>4. AuditShape'
  BY <1>2 DEF AuditShape, Search
<1>5. NumberedOnce'
  BY <1>1, <1>2 DEF NumberedOnce, Search
<1>6. InNumberOrder'
  BY <1>1, <1>2 DEF InNumberOrder, Search
<1>7. Entangled'
  BY <1>1, <1>2 DEF Entangled, Search
<1>8. Followed'
  BY <1>1, <1>2, <1>3 DEF Followed, Search
<1>9. LowReached'
  BY <1>1, <1>2 DEF LowReached, Search
<1>10. LowCovers'
  BY <1>2, <1>3 DEF LowCovers, Search
<1>11. Found'
  BY <1>1 DEF Found, Search
<1> QED
  BY <1>4, <1>5, <1>6, <1>7, <1>8, <1>9, <1>10, <1>11 DEF Search

\* The calls under a call of v, that has just looked at v or is none.
CallsUnder(above, v) ==
    /\ above \in Seq([node : Nodes, rest : SUBSET Nodes]) /\ Len(above) = Len(calls)
    /\ \A i \in DOMAIN calls :
          /\ above[i].node = calls[i].node
          /\ above[i].rest \subseteq calls[i].rest
          /\ \A w \in calls[i].rest \ above[i].rest : w = v /\ i = Len(calls)
    /\ calls # << >> => <<calls[Len(calls)].node, v>> \in Arcs

LEMMA EnterShape ==
    ASSUME Search, request = "audit", NEW v \in Condensation!Ends, index[v] = Unset, NEW above,
           CallsUnder(above, v), Enter(v, above), UNCHANGED <<request, weight, sccs>>
    PROVE  LET k == Cardinality(Numbered) + 1 IN
           /\ AuditShape' /\ k \in Nat /\ v \in Nodes
           /\ v \notin Numbered /\ v \notin OnStack /\ v \notin Placed
           /\ index'[v] = k /\ lowlink'[v] = k
           /\ \A n \in Nodes : n # v => index'[n] = index[n] /\ lowlink'[n] = lowlink[n]
           /\ \A n \in Nodes : index[n] < k
           /\ Numbered' = Numbered \cup {v} /\ Cardinality(Numbered') = k
           /\ OnStack' = OnStack \cup {v} /\ Placed' = Placed
           /\ Len(stack') = Len(stack) + 1 /\ stack'[Len(stack) + 1] = v
           /\ \A i \in DOMAIN stack : stack'[i] = stack[i]
           /\ Len(calls') = Len(calls) + 1 /\ calls'[Len(calls) + 1].node = v
           /\ \A w : w \in calls'[Len(calls) + 1].rest <=> <<v, w>> \in Arcs
           /\ \A i \in DOMAIN calls : calls'[i] = above[i]
<1> DEFINE k == Cardinality(Numbered) + 1
           Call == [node : Nodes, rest : SUBSET Nodes]
           mine == [node |-> v, rest |-> {w \in Nodes : <<v, w>> \in Edges}]
<1>1. v \in Nodes
  BY InEnds
<1>2. calls \in Seq(Call) /\ index \in [Nodes -> Nat] /\ lowlink \in [Nodes -> Nat]
      /\ stack \in Seq(Nodes) /\ sccs \in Seq(SUBSET Nodes)
  BY DEF Search, AuditShape
<1>3. /\ Numbered \in SUBSET Nodes /\ v \notin Numbered /\ IsFiniteSet(Numbered)
      /\ Cardinality(Numbered) \in Nat /\ k \in Nat /\ k # 0
  BY <1>1, <1>2, NumberedIs, NodesFinite DEF Unset
<1>4. v \notin OnStack /\ v \notin Placed /\ \A n \in Nodes : index[n] < k
  <2>1. v \notin OnStack /\ v \notin Placed
    BY <1>3 DEF Search, NumberedOnce
  <2>2. \A n \in Nodes : index[n] <= Cardinality(Numbered)
    BY DEF Search, NumberedOnce
  <2> QED
    BY <1>2, <1>3, <2>1, <2>2
<1>5. /\ index' = [index EXCEPT ![v] = k] /\ lowlink' = [lowlink EXCEPT ![v] = k]
      /\ stack' = Append(stack, v) /\ calls' = Append(above, mine)
  BY DEF Enter
<1>6. above \in Seq(Call) /\ Len(above) = Len(calls) /\ mine \in Call /\ Len(calls) \in Nat
  BY <1>1, <1>2 DEF CallsUnder
<1>7. /\ index' \in [Nodes -> Nat] /\ lowlink' \in [Nodes -> Nat]
      /\ index'[v] = k /\ lowlink'[v] = k
      /\ \A n \in Nodes : n # v => index'[n] = index[n] /\ lowlink'[n] = lowlink[n]
  <2> HIDE DEF k
  <2> QED
    BY <1>1, <1>2, <1>3, <1>5
<1>8. Numbered' = Numbered \cup {v}
  <2>1. Numbered' = {n \in Nodes : index'[n] # Unset} /\ Numbered = {n \in Nodes : index[n] # Unset}
    BY DEF Numbered
  <2>2. index'[v] # Unset
    BY <1>3, <1>7 DEF Unset
  <2> QED
    BY <1>1, <1>7, <2>1, <2>2
<1>9. Cardinality(Numbered') = k
  BY <1>3, <1>8, FS_AddElement
<1>10. stack' \in Seq(Nodes) /\ Len(stack') = Len(stack) + 1 /\ stack'[Len(stack) + 1] = v
       /\ DOMAIN stack' = 1 .. Len(stack) + 1 /\ DOMAIN stack = 1 .. Len(stack)
       /\ \A i \in DOMAIN stack : stack'[i] = stack[i]
  BY <1>1, <1>2, <1>5
<1>11. OnStack' = OnStack \cup {v}
  <2>1. ASSUME NEW x PROVE x \in OnStack' <=> x \in OnStack \/ x = v
    <3>1. x \in OnStack' <=> \E i \in DOMAIN stack' : stack'[i] = x
      BY DEF OnStack, Range
    <3>2. Len(stack) + 1 \in DOMAIN stack' /\ \A i \in DOMAIN stack : i \in DOMAIN stack'
      BY <1>2, <1>10
    <3>3. \A i \in DOMAIN stack' : i \in DOMAIN stack \/ i = Len(stack) + 1
      BY <1>2, <1>10
    <3> QED
      BY <1>10, <3>1, <3>2, <3>3, OnStackIs
  <2> QED
    BY <2>1
<1>12. Placed' = Placed
  BY DEF Placed, Condensation!Placed
<1>13. calls' \in Seq(Call) /\ Len(calls') = Len(calls) + 1 /\ calls'[Len(calls) + 1] = mine
       /\ \A i \in DOMAIN calls : calls'[i] = above[i]
  <2> HIDE DEF Call, mine
  <2>1. DOMAIN calls = 1 .. Len(above)
    BY <1>2, <1>6
  <2> QED
    BY <1>5, <1>6, <2>1
<1>14. mine.node = v /\ \A w : w \in mine.rest <=> <<v, w>> \in Arcs
  BY ArcsArePairs DEF Arcs
<1>15. AuditShape'
  BY <1>2, <1>7, <1>10, <1>13 DEF AuditShape
<1> HIDE DEF k, mine
<1>16. calls'[Len(calls) + 1].node = v
       /\ \A w : w \in calls'[Len(calls) + 1].rest <=> <<v, w>> \in Arcs
  BY <1>13, <1>14
<1> QED
  BY <1>1, <1>3, <1>4, <1>7, <1>8, <1>9, <1>10, <1>11, <1>12, <1>13, <1>15, <1>16 DEF k

LEMMA SearchTypes ==
    ASSUME Search
    PROVE  /\ index \in [Nodes -> Nat] /\ lowlink \in [Nodes -> Nat]
           /\ Len(calls) \in Nat /\ DOMAIN calls = 1 .. Len(calls)
           /\ Len(stack) \in Nat /\ DOMAIN stack = 1 .. Len(stack)
           /\ OnStack \subseteq Nodes /\ Placed \subseteq Nodes /\ Numbered \subseteq Nodes
           /\ OnStack \subseteq Numbered
           /\ \A i \in DOMAIN calls : calls[i].node \in OnStack /\ calls[i].node \in Nodes
           /\ \A n \in Nodes : lowlink[n] <= index[n]
<1>1. /\ calls \in Seq([node : Nodes, rest : SUBSET Nodes])
      /\ index \in [Nodes -> Nat] /\ lowlink \in [Nodes -> Nat]
      /\ stack \in Seq(Nodes) /\ sccs \in Seq(SUBSET Nodes)
  BY DEF Search, AuditShape
<1>2. \A i \in DOMAIN calls : calls[i].node \in OnStack
  BY DEF Search, InNumberOrder
<1>3. Numbered = OnStack \cup Placed /\ \A n \in Nodes : lowlink[n] <= index[n]
  BY DEF Search, NumberedOnce
<1>4. Numbered \subseteq Nodes
  BY DEF Numbered
<1>5. OnStack \subseteq Nodes /\ Placed \subseteq Nodes
  BY <1>3, <1>4
<1> QED
  BY <1>1, <1>2, <1>3, <1>4, <1>5

\* strongconnect is called.
LEMMA EnterKeeps ==
    ASSUME Search, request = "audit", NEW v \in Condensation!Ends, index[v] = Unset, NEW above,
           CallsUnder(above, v), Enter(v, above), UNCHANGED <<request, weight, sccs>>
    PROVE  Search'
<1> DEFINE k == Cardinality(Numbered) + 1
           m == Len(calls) + 1
<1>1. /\ AuditShape' /\ k \in Nat /\ v \in Nodes
      /\ v \notin Numbered /\ v \notin OnStack /\ v \notin Placed
      /\ index'[v] = k /\ lowlink'[v] = k
      /\ \A n \in Nodes : n # v => index'[n] = index[n] /\ lowlink'[n] = lowlink[n]
      /\ \A n \in Nodes : index[n] < k
      /\ Numbered' = Numbered \cup {v} /\ Cardinality(Numbered') = k
      /\ OnStack' = OnStack \cup {v} /\ Placed' = Placed
      /\ Len(stack') = Len(stack) + 1 /\ stack'[Len(stack) + 1] = v
      /\ \A i \in DOMAIN stack : stack'[i] = stack[i]
      /\ Len(calls') = Len(calls) + 1 /\ calls'[m].node = v
      /\ \A w : w \in calls'[m].rest <=> <<v, w>> \in Arcs
      /\ \A i \in DOMAIN calls : calls'[i] = above[i]
  BY EnterShape
<1> HIDE DEF k, m
<1>2. /\ index \in [Nodes -> Nat] /\ lowlink \in [Nodes -> Nat]
      /\ Len(calls) \in Nat /\ DOMAIN calls = 1 .. Len(calls)
      /\ Len(stack) \in Nat /\ DOMAIN stack = 1 .. Len(stack)
      /\ OnStack \subseteq Nodes /\ Placed \subseteq Nodes /\ Numbered \subseteq Nodes
      /\ OnStack \subseteq Numbered
      /\ \A i \in DOMAIN calls : calls[i].node \in OnStack /\ calls[i].node \in Nodes
      /\ \A n \in Nodes : lowlink[n] <= index[n]
  BY SearchTypes
<1>3. /\ Arcs' = Arcs
      /\ \A n : Reach(n)' = Reach(n)
      /\ \A n : Condensation!Mutual(n)' = Condensation!Mutual(n)
      /\ Condensation!Ends' = Condensation!Ends
  BY GraphKept DEF SameGraph
<1>4. /\ DOMAIN calls' = 1 .. m /\ m \in DOMAIN calls' /\ m = Len(calls) + 1
      /\ \A i \in DOMAIN calls' : i # m => i \in DOMAIN calls
      /\ \A i \in DOMAIN calls : i \in DOMAIN calls' /\ i # m
      /\ DOMAIN stack' = 1 .. Len(stack) + 1
  <2>1. DOMAIN calls' = 1 .. Len(calls') /\ DOMAIN stack' = 1 .. Len(stack')
    BY <1>1 DEF AuditShape
  <2>2. m = Len(calls) + 1
    BY DEF m
  <2> QED
    BY <1>1, <1>2, <2>1, <2>2
<1>5. \A i \in DOMAIN calls :
          /\ calls'[i].node = calls[i].node /\ calls'[i].node # v
          /\ calls'[i].rest \subseteq calls[i].rest
          /\ \A w \in calls[i].rest \ calls'[i].rest : w = v /\ i = Len(calls)
          /\ index'[calls[i].node] = index[calls[i].node]
          /\ lowlink'[calls[i].node] = lowlink[calls[i].node]
  <2> TAKE i \in DOMAIN calls
  <2>1. /\ calls'[i].node = calls[i].node /\ calls'[i].rest \subseteq calls[i].rest
        /\ \A w \in calls[i].rest \ calls'[i].rest : w = v /\ i = Len(calls)
    BY <1>1 DEF CallsUnder
  <2>2. calls[i].node # v /\ calls[i].node \in Nodes
    BY <1>1, <1>2
  <2> QED
    BY <1>1, <2>1, <2>2
<1>6. \A y \in OnStack : y # v /\ index'[y] = index[y] /\ lowlink'[y] = lowlink[y]
  BY <1>1, <1>2
<1>7. ASSUME NEW x \in Nodes, NEW z \in Nodes, Seen(x, z)'
      PROVE  /\ x # v
             /\ Seen(x, z) \/ z = v
  <2>1. <<x, z>> \in Arcs /\ x \in Numbered'
        /\ \A i \in DOMAIN calls' : calls'[i].node = x => z \notin calls'[i].rest
    BY <1>3, <1>7 DEF Seen
  <2>2. x # v
    BY <1>1, <1>4, <2>1
  <2>3. ASSUME ~Seen(x, z) PROVE z = v
    <3>1. PICK i \in DOMAIN calls : calls[i].node = x /\ z \in calls[i].rest
      BY <1>1, <2>1, <2>2, <2>3 DEF Seen
    <3> QED
      BY <1>4, <1>5, <2>1, <3>1
  <2> QED
    BY <2>2, <2>3
<1>8. NumberedOnce'
  <2>1. \A n \in Nodes : index'[n] <= Cardinality(Numbered') /\ lowlink'[n] <= index'[n]
    BY <1>1, <1>2
  <2>2. ASSUME NEW x \in Numbered', NEW y \in Numbered', index'[x] = index'[y] PROVE x = y
    <3>1. (x \in Numbered \/ x = v) /\ (y \in Numbered \/ y = v) /\ x \in Nodes /\ y \in Nodes
      BY <1>1, <1>2
    <3>2. x # v /\ y # v => x = y
      BY <1>1, <2>2, <3>1 DEF Search, NumberedOnce
    <3> QED
      BY <1>1, <1>2, <2>2, <3>1, <3>2
  <2>3. Numbered' \subseteq Condensation!Ends /\ Numbered' = OnStack' \cup Placed'
        /\ OnStack' \cap Placed' = {}
    BY <1>1 DEF Search, NumberedOnce
  <2> QED
    BY <1>3, <2>1, <2>2, <2>3 DEF NumberedOnce
<1>9. InNumberOrder'
  <2>1. ASSUME NEW i \in DOMAIN stack', NEW j \in DOMAIN stack', i < j
        PROVE  index'[stack'[i]] < index'[stack'[j]]
    <3>1. i \in DOMAIN stack /\ stack[i] \in OnStack /\ stack'[i] = stack[i]
      BY <1>1, <1>2, <1>4, <2>1, OnStackIs
    <3>2. CASE j \in DOMAIN stack
      <4>1. stack[j] \in OnStack /\ stack'[j] = stack[j] /\ index[stack[i]] < index[stack[j]]
        BY <1>1, <2>1, <3>1, <3>2, OnStackIs DEF Search, InNumberOrder
      <4> QED
        BY <1>6, <3>1, <4>1
    <3>3. CASE j \notin DOMAIN stack
      <4>1. stack'[j] = v /\ stack[i] \in Nodes
        BY <1>1, <1>2, <1>4, <3>1, <3>3
      <4> QED
        BY <1>1, <1>6, <3>1, <4>1
    <3> QED
      BY <3>2, <3>3
  <2>2. ASSUME NEW i \in DOMAIN calls', NEW j \in DOMAIN calls', i < j
        PROVE  index'[calls'[i].node] < index'[calls'[j].node]
    <3>1. i \in DOMAIN calls
      BY <1>2, <1>4, <2>2
    <3>2. CASE j = m
      BY <1>1, <1>2, <1>5, <3>1, <3>2
    <3>3. CASE j # m
      <4>1. j \in DOMAIN calls /\ index[calls[i].node] < index[calls[j].node]
        BY <1>4, <2>2, <3>1, <3>3 DEF Search, InNumberOrder
      <4> QED
        BY <1>5, <3>1, <4>1
    <3> QED
      BY <3>2, <3>3
  <2>3. ASSUME NEW i \in DOMAIN calls'
        PROVE  /\ calls'[i].node \in OnStack'
               /\ \A w \in calls'[i].rest : <<calls'[i].node, w>> \in Arcs'
    <3>1. CASE i = m
      BY <1>1, <1>3, <3>1
    <3>2. CASE i # m
      <4>1. /\ i \in DOMAIN calls
            /\ \A w \in calls[i].rest : <<calls[i].node, w>> \in Arcs
        BY <1>4, <3>2 DEF Search, InNumberOrder
      <4> QED
        BY <1>1, <1>2, <1>3, <1>5, <4>1
    <3> QED
      BY <3>1, <3>2
  <2> QED
    BY <2>1, <2>2, <2>3 DEF InNumberOrder
<1>10. Entangled'
  <2>1. ASSUME NEW y \in OnStack'
        PROVE  \E i \in DOMAIN calls' :
                  index'[calls'[i].node] <= index'[y] /\ calls'[i].node \in Reach(y)
    <3>1. CASE y = v
      BY <1>1, <1>4, <3>1, ReachSelf
    <3>2. CASE y # v
      <4>1. y \in OnStack
        BY <1>1, <3>2
      <4>2. PICK i \in DOMAIN calls :
               index[calls[i].node] <= index[y] /\ calls[i].node \in Reach(y)
        BY <4>1 DEF Search, Entangled
      <4> QED
        BY <1>4, <1>5, <1>6, <4>1, <4>2
    <3> QED
      BY <3>1, <3>2
  <2>2. ASSUME NEW y \in OnStack', NEW i \in DOMAIN calls',
               index'[calls'[i].node] <= index'[y]
        PROVE  y \in Reach(calls'[i].node)
    <3>1. CASE i = m
      <4>1. y \in OnStack => index'[y] < k
        BY <1>1, <1>2, <1>6
      <4>2. y = v
        <5>1. y \notin OnStack
          BY <1>1, <1>2, <1>6, <2>2, <3>1, <4>1
        <5> QED
          BY <1>1, <5>1
      <4> QED
        BY <1>1, <3>1, <4>2, ReachSelf
    <3>2. CASE i # m /\ y # v
      <4>1. i \in DOMAIN calls /\ y \in OnStack
        BY <1>1, <1>4, <3>2
      <4>2. index[calls[i].node] <= index[y]
        BY <1>5, <1>6, <2>2, <4>1
      <4> QED
        BY <1>5, <4>1, <4>2 DEF Search, Entangled
    <3>3. CASE i # m /\ y = v
      <4> DEFINE l == Len(calls)
      <4>1. i \in DOMAIN calls /\ l \in DOMAIN calls /\ (i < l \/ i = l) /\ calls # << >>
        BY <1>2, <1>4, <3>3
      <4>2. index[calls[i].node] <= index[calls[l].node]
        <5>1. i < l => index[calls[i].node] < index[calls[l].node]
          BY <4>1 DEF Search, InNumberOrder
        <5> QED
          BY <1>2, <4>1, <5>1
      <4>3. calls[l].node \in Reach(calls[i].node)
        BY <1>2, <4>1, <4>2 DEF Search, Entangled
      <4>4. <<calls[l].node, v>> \in Arcs
        BY <4>1 DEF CallsUnder
      <4> QED
        BY <1>5, <3>3, <4>1, <4>3, <4>4, ReachArc
    <3> QED
      BY <3>1, <3>2, <3>3
  <2> QED
    BY <1>3, <2>1, <2>2 DEF Entangled
<1>11. Followed'
  <2>1. ASSUME NEW x \in Nodes, NEW z \in Nodes, Seen(x, z)' PROVE z \in Numbered'
    <3>1. Seen(x, z) \/ z = v
      BY <1>7, <2>1
    <3> QED
      BY <1>1, <3>1 DEF Search, Followed
  <2>2. \A x, z \in Nodes : <<x, z>> \in Arcs' /\ x \in Placed' => z \in Placed'
    BY <1>1, <1>3 DEF Search, Followed
  <2> QED
    BY <2>1, <2>2 DEF Followed
<1>12. LowReached'
  <2>1. ASSUME NEW x \in OnStack'
        PROVE  \E y \in OnStack' : y \in Reach(x) /\ index'[y] = lowlink'[x]
    <3>1. CASE x = v
      BY <1>1, <3>1, ReachSelf
    <3>2. CASE x # v
      <4>1. x \in OnStack
        BY <1>1, <3>2
      <4>2. PICK y \in OnStack : y \in Reach(x) /\ index[y] = lowlink[x]
        BY <4>1 DEF Search, LowReached
      <4> QED
        BY <1>1, <1>6, <4>1, <4>2
    <3> QED
      BY <3>1, <3>2
  <2> QED
    BY <1>3, <2>1 DEF LowReached
<1>13. LowCovers'
  <2> SUFFICES ASSUME NEW i \in DOMAIN calls', NEW y \in OnStack', NEW z \in OnStack',
                      index'[calls'[i].node] <= index'[y],
                      i + 1 \in DOMAIN calls' => index'[y] < index'[calls'[i + 1].node],
                      Seen(y, z)'
               PROVE  lowlink'[calls'[i].node] <= index'[z]
    BY DEF LowCovers
  <2>1. y # v /\ y \in OnStack /\ (Seen(y, z) \/ z = v) /\ y \in Nodes
    BY <1>1, <1>2, <1>7
  <2>2. i # m
    BY <1>1, <1>2, <1>6, <2>1
  <2>3. i \in DOMAIN calls /\ calls[i].node \in Nodes /\ calls'[i].node = calls[i].node
    BY <1>2, <1>4, <1>5, <2>2
  <2>4. CASE z = v
    BY <1>1, <1>2, <1>5, <2>3, <2>4
  <2>5. CASE z # v
    <3>1. z \in OnStack /\ Seen(y, z)
      BY <1>1, <2>1, <2>5
    <3>2. index[calls[i].node] <= index[y]
      BY <1>5, <1>6, <2>1, <2>3
    <3>3. ASSUME i + 1 \in DOMAIN calls PROVE index[y] < index[calls[i + 1].node]
      <4>1. i + 1 \in DOMAIN calls'
        BY <1>4, <3>3
      <4> QED
        BY <1>5, <1>6, <2>1, <3>3, <4>1
    <3>4. lowlink[calls[i].node] <= index[z]
      BY <2>1, <2>3, <3>1, <3>2, <3>3 DEF Search, LowCovers
    <3> QED
      BY <1>5, <1>6, <2>3, <3>1, <3>4
  <2> QED
    BY <2>4, <2>5
<1>14. Found'
  BY <1>3 DEF Search, Found
<1> QED
  BY <1>1, <1>8, <1>9, <1>10, <1>11, <1>12, <1>13, <1>14 DEF Search

LEMMA MinOfTwo ==
    ASSUME NEW a \in Nat, NEW b \in Nat
    PROVE  /\ Min({a, b}) \in Nat /\ Min({a, b}) <= a /\ Min({a, b}) <= b
           /\ Min({a, b}) = a \/ Min({a, b}) = b
<1>1. \E x \in {a, b} : \A y \in {a, b} : x <= y
  OBVIOUS
<1>2. Min({a, b}) \in {a, b} /\ \A y \in {a, b} : Min({a, b}) <= y
  BY <1>1 DEF Min
<1> QED
  BY <1>2

LEMMA LowerIs ==
    ASSUME NEW v \in Nodes, NEW bound \in Nat, lowlink \in [Nodes -> Nat], Lower(v, bound)
    PROVE  /\ lowlink' \in [Nodes -> Nat]
           /\ \A x \in Nodes : lowlink'[x] <= lowlink[x] /\ (x # v => lowlink'[x] = lowlink[x])
           /\ lowlink'[v] <= bound
           /\ lowlink'[v] = lowlink[v] \/ lowlink'[v] = bound
<1> DEFINE least == Min({lowlink[v], bound})
<1>1. lowlink' = [lowlink EXCEPT ![v] = least]
  BY DEF Lower
<1>2. /\ least \in Nat /\ least <= lowlink[v] /\ least <= bound
      /\ least = lowlink[v] \/ least = bound
  BY MinOfTwo
<1> HIDE DEF least
<1>3. \A x \in Nodes : lowlink[x] \in Nat
  OBVIOUS
<1> QED
  BY <1>1, <1>2, <1>3

LEMMA BelowIs ==
    ASSUME Search, calls # << >>, NEW w, NEW below,
           below = [calls EXCEPT ![Len(calls)].rest = @ \ {w}]
    PROVE  /\ below \in Seq([node : Nodes, rest : SUBSET Nodes]) /\ Len(below) = Len(calls)
           /\ DOMAIN below = DOMAIN calls /\ Len(calls) \in DOMAIN calls
           /\ \A i \in DOMAIN calls :
                 /\ below[i].node = calls[i].node
                 /\ below[i].rest = IF i = Len(calls) THEN calls[i].rest \ {w} ELSE calls[i].rest
<1> DEFINE Call == [node : Nodes, rest : SUBSET Nodes]
           l == Len(calls)
           c == calls[l]
           d == [c EXCEPT !.rest = c.rest \ {w}]
<1>1. calls \in Seq(Call) /\ l \in DOMAIN calls
  BY DEF Search, AuditShape
<1>2. below = [calls EXCEPT ![l] = d]
  OBVIOUS
<1> HIDE DEF Call, d
<1>3. c \in Call
  BY <1>1
<1>4. d \in Call /\ d.node = c.node /\ d.rest = c.rest \ {w}
  BY <1>3 DEF Call, d
<1>5. below \in Seq(Call) /\ Len(below) = l /\ DOMAIN below = DOMAIN calls
      /\ below[l] = d /\ \A i \in DOMAIN calls : i # l => below[i] = calls[i]
  <2>1. DOMAIN calls = 1 .. l /\ l \in Nat /\ \A i \in 1 .. l : calls[i] \in Call
    BY <1>1
  <2>2. below \in [1 .. l -> Call]
    BY <1>2, <1>4, <2>1
  <2>3. below \in Seq(Call) /\ Len(below) = l
    BY <2>1, <2>2
  <2> QED
    BY <1>1, <1>2, <2>1, <2>3
<1> QED
  BY <1>1, <1>4, <1>5 DEF Call

\* An arc to a node that has a number.
LEMMA LookedKeeps ==
    ASSUME Search, request = "audit", calls # << >>, NEW w \in calls[Len(calls)].rest,
           index[w] # Unset,
           IF w \in OnStack THEN Lower(calls[Len(calls)].node, index[w]) ELSE UNCHANGED lowlink,
           calls' = [calls EXCEPT ![Len(calls)].rest = @ \ {w}],
           UNCHANGED <<request, weight, index, stack, sccs>>
    PROVE  Search'
<1> DEFINE l == Len(calls)
           v == calls[l].node
<1>1. /\ index \in [Nodes -> Nat] /\ lowlink \in [Nodes -> Nat]
      /\ Len(calls) \in Nat /\ DOMAIN calls = 1 .. Len(calls)
      /\ OnStack \subseteq Nodes
      /\ \A i \in DOMAIN calls : calls[i].node \in OnStack /\ calls[i].node \in Nodes
      /\ \A n \in Nodes : lowlink[n] <= index[n]
  BY SearchTypes
<1>2. /\ Arcs' = Arcs
      /\ \A n : Reach(n)' = Reach(n)
      /\ \A n : Condensation!Mutual(n)' = Condensation!Mutual(n)
      /\ Condensation!Ends' = Condensation!Ends
  BY GraphKept DEF SameGraph
<1>3. Placed' = Placed /\ OnStack' = OnStack /\ Numbered' = Numbered
  BY DEF Placed, Condensation!Placed, OnStack, Numbered
<1>4. /\ calls' \in Seq([node : Nodes, rest : SUBSET Nodes])
      /\ DOMAIN calls' = DOMAIN calls /\ l \in DOMAIN calls
      /\ \A i \in DOMAIN calls :
            /\ calls'[i].node = calls[i].node
            /\ calls'[i].rest = IF i = l THEN calls[i].rest \ {w} ELSE calls[i].rest
  BY BelowIs
<1>5. v \in OnStack /\ v \in Nodes /\ <<v, w>> \in Arcs /\ w \in Nodes
  BY <1>1, <1>4, ArcsArePairs DEF Search, InNumberOrder
<1> HIDE DEF v
<1>6. /\ lowlink' \in [Nodes -> Nat]
      /\ \A x \in Nodes : lowlink'[x] <= lowlink[x] /\ (x # v => lowlink'[x] = lowlink[x])
      /\ w \in OnStack => lowlink'[v] <= index[w]
      /\ lowlink'[v] = lowlink[v] \/ (w \in OnStack /\ lowlink'[v] = index[w])
  <2>1. CASE w \in OnStack
    <3>1. index[w] \in Nat /\ Lower(v, index[w])
      BY <1>1, <1>5, <2>1 DEF v
    <3>2. /\ lowlink' \in [Nodes -> Nat]
          /\ \A x \in Nodes : lowlink'[x] <= lowlink[x] /\ (x # v => lowlink'[x] = lowlink[x])
          /\ lowlink'[v] <= index[w]
          /\ lowlink'[v] = lowlink[v] \/ lowlink'[v] = index[w]
      BY <1>1, <1>5, <3>1, LowerIs
    <3> QED
      BY <2>1, <3>2
  <2>2. CASE w \notin OnStack
    BY <1>1, <1>5, <2>2
  <2> QED
    BY <2>1, <2>2
<1>7. ASSUME NEW x, NEW z, Seen(x, z)' PROVE Seen(x, z) \/ (x = v /\ z = w)
  <2>1. <<x, z>> \in Arcs /\ x \in Numbered
        /\ \A i \in DOMAIN calls : calls'[i].node = x => z \notin calls'[i].rest
    BY <1>2, <1>3, <1>4, <1>7 DEF Seen
  <2>2. ASSUME ~Seen(x, z) PROVE x = v /\ z = w
    <3>1. PICK i \in DOMAIN calls : calls[i].node = x /\ z \in calls[i].rest
      BY <2>1, <2>2 DEF Seen
    <3> QED
      BY <1>4, <2>1, <3>1 DEF v
  <2> QED
    BY <2>2
<1>8. AuditShape'
  BY <1>4, <1>6 DEF Search, AuditShape
<1>9. NumberedOnce'
  <2>1. \A n \in Nodes : index[n] <= Cardinality(Numbered) /\ lowlink'[n] <= index[n]
    <3>1. \A n \in Nodes : lowlink'[n] \in Nat /\ lowlink[n] \in Nat /\ index[n] \in Nat
      BY <1>1, <1>6
    <3>2. \A n \in Nodes : lowlink'[n] <= index[n]
      BY <1>1, <1>6, <3>1
    <3> QED
      BY <3>2 DEF Search, NumberedOnce
  <2> QED
    BY <1>2, <1>3, <2>1 DEF Search, NumberedOnce
<1>10. InNumberOrder'
  <2>1. \A i, j \in DOMAIN stack : i < j => index[stack[i]] < index[stack[j]]
    BY DEF Search, InNumberOrder
  <2>2. \A i, j \in DOMAIN calls' : i < j => index'[calls'[i].node] < index'[calls'[j].node]
    BY <1>4 DEF Search, InNumberOrder
  <2>3. ASSUME NEW i \in DOMAIN calls'
        PROVE  /\ calls'[i].node \in OnStack
               /\ \A u \in calls'[i].rest : <<calls'[i].node, u>> \in Arcs
    BY <1>4 DEF Search, InNumberOrder
  <2> QED
    BY <1>2, <1>3, <2>1, <2>2, <2>3 DEF InNumberOrder
<1>11. Entangled'
  <2>1. \A y \in OnStack : \E i \in DOMAIN calls' :
           index[calls'[i].node] <= index[y] /\ calls'[i].node \in Reach(y)
    BY <1>4 DEF Search, Entangled
  <2>2. \A y \in OnStack, i \in DOMAIN calls' :
           index[calls'[i].node] <= index[y] => y \in Reach(calls'[i].node)
    BY <1>4 DEF Search, Entangled
  <2> QED
    BY <1>2, <1>3, <2>1, <2>2 DEF Entangled
<1>12. Followed'
  <2>1. w \in Numbered
    BY <1>5 DEF Numbered
  <2>2. \A x, z \in Nodes : Seen(x, z)' => z \in Numbered
    BY <1>7, <2>1 DEF Search, Followed
  <2> QED
    BY <1>2, <1>3, <2>2 DEF Search, Followed
<1>13. LowReached'
  <2>1. ASSUME NEW x \in OnStack
        PROVE  \E y \in OnStack : y \in Reach(x) /\ index[y] = lowlink'[x]
    <3>1. CASE lowlink'[x] = lowlink[x]
      BY <3>1 DEF Search, LowReached
    <3>2. CASE lowlink'[x] # lowlink[x]
      <4>1. x = v /\ w \in OnStack /\ lowlink'[v] = index[w]
        BY <1>1, <1>6, <3>2
      <4>2. w \in Reach(v)
        BY <1>5, ReachSelf, ReachArc
      <4> QED
        BY <4>1, <4>2
    <3> QED
      BY <3>1, <3>2
  <2> QED
    BY <1>2, <1>3, <2>1 DEF LowReached
<1>14. LowCovers'
  <2> SUFFICES ASSUME NEW i \in DOMAIN calls', NEW y \in OnStack', NEW z \in OnStack',
                      index'[calls'[i].node] <= index'[y],
                      i + 1 \in DOMAIN calls' => index'[y] < index'[calls'[i + 1].node],
                      Seen(y, z)'
               PROVE  lowlink'[calls'[i].node] <= index'[z]
    BY DEF LowCovers
  <2> DEFINE g == calls[i].node
  <2>1. /\ i \in DOMAIN calls /\ y \in OnStack /\ z \in OnStack
        /\ calls'[i].node = g /\ g \in Nodes /\ index[g] <= index[y]
        /\ i + 1 \in DOMAIN calls => index[y] < index[calls[i + 1].node]
    BY <1>1, <1>3, <1>4
  <2>2. CASE Seen(y, z)
    <3>1. lowlink[g] <= index[z]
      BY <2>1, <2>2 DEF Search, LowCovers
    <3>2. lowlink[g] \in Nat /\ lowlink'[g] \in Nat /\ index[z] \in Nat /\ lowlink'[g] <= lowlink[g]
      BY <1>1, <1>6, <2>1
    <3> QED
      BY <2>1, <3>1, <3>2
  <2>3. CASE y = v /\ z = w
    <3>1. i = l
      <4>1. SUFFICES ASSUME i # l PROVE FALSE
        OBVIOUS
      <4>2. i + 1 \in DOMAIN calls /\ (i + 1 < l \/ i + 1 = l)
        <5>1. i \in 1 .. l /\ l \in Nat /\ i # l /\ DOMAIN calls = 1 .. l
          BY <1>1, <1>4, <2>1, <4>1
        <5> QED
          BY <5>1
      <4>3. index[v] < index[calls[i + 1].node]
        BY <2>1, <2>3, <4>2
      <4>4. i + 1 < l => index[calls[i + 1].node] < index[v]
        BY <1>4, <4>2 DEF Search, InNumberOrder, v
      <4>5. index[v] \in Nat /\ index[calls[i + 1].node] \in Nat
        BY <1>1, <1>5, <4>2
      <4> QED
        BY <4>2, <4>3, <4>4, <4>5 DEF v
    <3> QED
      BY <1>6, <2>1, <2>3, <3>1 DEF v
  <2> QED
    BY <1>7, <2>2, <2>3
<1>15. Found'
  BY <1>2 DEF Search, Found
<1> QED
  BY <1>8, <1>9, <1>10, <1>11, <1>12, <1>13, <1>14, <1>15 DEF Search

LEMMA FrontIs ==
    ASSUME NEW S, NEW s \in Seq(S), s # << >>
    PROVE  /\ Front(s) \in Seq(S) /\ DOMAIN Front(s) = 1 .. Len(s) - 1
           /\ Len(Front(s)) = Len(s) - 1 /\ Len(s) \in DOMAIN s
           /\ \A i \in 1 .. Len(s) - 1 : Front(s)[i] = s[i]
<1>1. Len(s) \in Nat /\ Len(s) > 0 /\ DOMAIN s = 1 .. Len(s)
  OBVIOUS
<1>2. Front(s) = SubSeq(s, 1, Len(s) - 1)
  BY DEF Front
<1>3. Front(s) = [i \in 1 .. Len(s) - 1 |-> s[i]]
  BY <1>1, <1>2
<1>4. Front(s) \in [1 .. Len(s) - 1 -> S]
  BY <1>1, <1>3
<1> QED
  BY <1>1, <1>3, <1>4

\* What is common to the ways strongconnect returns: v is the last call, u the
\* call that made it.
LEMMA ReturnShape ==
    ASSUME Search, request = "audit", calls # << >>, calls[Len(calls)].rest = {},
           calls' = Front(calls),
           IF Len(calls) > 1
           THEN Lower(calls[Len(calls) - 1].node, lowlink[calls[Len(calls)].node])
           ELSE UNCHANGED lowlink,
           UNCHANGED <<request, weight, index>>
    PROVE  LET l == Len(calls)
               v == calls[l].node
               u == calls[l - 1].node
           IN  /\ l \in DOMAIN calls /\ v \in OnStack /\ v \in Nodes
               /\ calls' \in Seq([node : Nodes, rest : SUBSET Nodes])
               /\ DOMAIN calls' = 1 .. l - 1
               /\ \A i \in 1 .. l - 1 :
                     i \in DOMAIN calls /\ calls'[i] = calls[i] /\ index[calls[i].node] < index[v]
               /\ \A x, z : Seen(x, z)' => Seen(x, z)
               /\ lowlink' \in [Nodes -> Nat]
               /\ \A x \in Nodes : lowlink'[x] <= lowlink[x]
               /\ \A x \in Nodes : (l > 1 => x # u) => lowlink'[x] = lowlink[x]
               /\ l > 1 => /\ lowlink'[u] <= lowlink[v]
                           /\ lowlink'[u] = lowlink[u] \/ lowlink'[u] = lowlink[v]
<1> DEFINE l == Len(calls)
           v == calls[l].node
           u == calls[l - 1].node
           Call == [node : Nodes, rest : SUBSET Nodes]
<1>1. /\ index \in [Nodes -> Nat] /\ lowlink \in [Nodes -> Nat]
      /\ Len(calls) \in Nat /\ DOMAIN calls = 1 .. Len(calls)
      /\ OnStack \subseteq Nodes
      /\ \A i \in DOMAIN calls : calls[i].node \in OnStack /\ calls[i].node \in Nodes
  BY SearchTypes
<1>2. calls \in Seq(Call)
  BY DEF Search, AuditShape
<1> HIDE DEF Call
<1>3. /\ calls' \in Seq(Call) /\ DOMAIN calls' = 1 .. l - 1 /\ l \in DOMAIN calls
      /\ \A i \in 1 .. l - 1 : calls'[i] = calls[i]
  BY <1>2, FrontIs
<1>4. v \in OnStack /\ v \in Nodes
  BY <1>1, <1>3
<1>5. \A i \in 1 .. l - 1 :
         i \in DOMAIN calls /\ calls'[i] = calls[i] /\ index[calls[i].node] < index[v]
  <2> TAKE i \in 1 .. l - 1
  <2>1. i \in DOMAIN calls /\ i < l
    BY <1>1
  <2>2. \A j \in DOMAIN calls : i < j => index[calls[i].node] < index[calls[j].node]
    BY <2>1 DEF Search, InNumberOrder
  <2> QED
    BY <1>3, <2>1, <2>2
<1>6. Arcs' = Arcs /\ Numbered' = Numbered
  BY GraphKept DEF SameGraph, Numbered
<1>7. ASSUME NEW x, NEW z, Seen(x, z)' PROVE Seen(x, z)
  <2>1. <<x, z>> \in Arcs /\ x \in Numbered
        /\ \A i \in 1 .. l - 1 : calls[i].node = x => z \notin calls[i].rest
    BY <1>3, <1>6, <1>7 DEF Seen
  <2>2. ASSUME NEW i \in DOMAIN calls, calls[i].node = x PROVE z \notin calls[i].rest
    <3>1. i = l \/ i \in 1 .. l - 1
      BY <1>1
    <3> QED
      BY <2>1, <2>2, <3>1
  <2> QED
    BY <2>1, <2>2 DEF Seen
<1>8. /\ lowlink' \in [Nodes -> Nat]
      /\ \A x \in Nodes : lowlink'[x] <= lowlink[x]
      /\ \A x \in Nodes : (l > 1 => x # u) => lowlink'[x] = lowlink[x]
      /\ l > 1 => /\ lowlink'[u] <= lowlink[v]
                  /\ lowlink'[u] = lowlink[u] \/ lowlink'[u] = lowlink[v]
  <2>1. CASE l > 1
    <3>1. l - 1 \in DOMAIN calls
      BY <1>1, <2>1
    <3>2. u \in Nodes /\ lowlink[v] \in Nat /\ Lower(u, lowlink[v])
      BY <1>1, <1>4, <2>1, <3>1
    <3> HIDE DEF l, u, v
    <3>3. /\ lowlink' \in [Nodes -> Nat]
          /\ \A x \in Nodes : lowlink'[x] <= lowlink[x] /\ (x # u => lowlink'[x] = lowlink[x])
          /\ lowlink'[u] <= lowlink[v]
          /\ lowlink'[u] = lowlink[u] \/ lowlink'[u] = lowlink[v]
      BY <1>1, <3>2, LowerIs
    <3> QED
      BY <2>1, <3>3
  <2>2. CASE ~(l > 1)
    BY <1>1, <2>2
  <2> QED
    BY <2>1, <2>2
<1> QED
  BY <1>3, <1>4, <1>5, <1>7, <1>8 DEF Call

\* A call returns to the call that is further up the same component.
LEMMA LeaveKeeps ==
    ASSUME Search, request = "audit", calls # << >>, calls[Len(calls)].rest = {},
           lowlink[calls[Len(calls)].node] # index[calls[Len(calls)].node],
           calls' = Front(calls),
           IF Len(calls) > 1
           THEN Lower(calls[Len(calls) - 1].node, lowlink[calls[Len(calls)].node])
           ELSE UNCHANGED lowlink,
           UNCHANGED <<request, weight, index, stack, sccs>>
    PROVE  Search'
<1> DEFINE l == Len(calls)
           v == calls[l].node
           u == calls[l - 1].node
<1>1. /\ l \in DOMAIN calls /\ v \in OnStack /\ v \in Nodes
      /\ calls' \in Seq([node : Nodes, rest : SUBSET Nodes])
      /\ DOMAIN calls' = 1 .. l - 1
      /\ \A i \in 1 .. l - 1 :
            i \in DOMAIN calls /\ calls'[i] = calls[i] /\ index[calls[i].node] < index[v]
      /\ \A x, z : Seen(x, z)' => Seen(x, z)
      /\ lowlink' \in [Nodes -> Nat]
      /\ \A x \in Nodes : lowlink'[x] <= lowlink[x]
      /\ \A x \in Nodes : (l > 1 => x # u) => lowlink'[x] = lowlink[x]
      /\ l > 1 => /\ lowlink'[u] <= lowlink[v]
                  /\ lowlink'[u] = lowlink[u] \/ lowlink'[u] = lowlink[v]
  BY ReturnShape
<1>2. /\ index \in [Nodes -> Nat] /\ lowlink \in [Nodes -> Nat]
      /\ l \in Nat /\ DOMAIN calls = 1 .. l
      /\ OnStack \subseteq Nodes
      /\ \A i \in DOMAIN calls : calls[i].node \in OnStack /\ calls[i].node \in Nodes
      /\ \A n \in Nodes : lowlink[n] <= index[n]
  BY SearchTypes
<1>3. /\ Arcs' = Arcs
      /\ \A n : Reach(n)' = Reach(n)
      /\ \A n : Condensation!Mutual(n)' = Condensation!Mutual(n)
      /\ Condensation!Ends' = Condensation!Ends
  BY GraphKept DEF SameGraph
<1>4. Placed' = Placed /\ OnStack' = OnStack /\ Numbered' = Numbered
  BY DEF Placed, Condensation!Placed, OnStack, Numbered
<1>5. lowlink[v] # index[v]
  OBVIOUS
<1> HIDE DEF l, u, v
<1>6. PICK y0 \in OnStack : y0 \in Reach(v) /\ index[y0] = lowlink[v] /\ index[y0] < index[v]
  <2>1. PICK y0 \in OnStack : y0 \in Reach(v) /\ index[y0] = lowlink[v]
    BY <1>1 DEF Search, LowReached
  <2>2. lowlink[v] \in Nat /\ index[v] \in Nat /\ lowlink[v] <= index[v]
    BY <1>1, <1>2
  <2> QED
    BY <1>5, <2>1, <2>2
<1>7. AuditShape'
  BY <1>1 DEF Search, AuditShape
<1>8. NumberedOnce'
  <2>1. \A n \in Nodes : index[n] <= Cardinality(Numbered) /\ lowlink'[n] <= index[n]
    <3>1. \A n \in Nodes : lowlink'[n] \in Nat /\ lowlink[n] \in Nat /\ index[n] \in Nat
      BY <1>1, <1>2
    <3>2. \A n \in Nodes : lowlink'[n] <= index[n]
      BY <1>1, <1>2, <3>1
    <3> QED
      BY <3>2 DEF Search, NumberedOnce
  <2> QED
    BY <1>3, <1>4, <2>1 DEF Search, NumberedOnce
<1>9. InNumberOrder'
  <2>1. \A i, j \in DOMAIN stack : i < j => index[stack[i]] < index[stack[j]]
    BY DEF Search, InNumberOrder
  <2>2. \A i, j \in DOMAIN calls' : i < j => index[calls'[i].node] < index[calls'[j].node]
    BY <1>1 DEF Search, InNumberOrder
  <2>3. \A i \in DOMAIN calls' :
           calls'[i].node \in OnStack /\ \A w \in calls'[i].rest : <<calls'[i].node, w>> \in Arcs
    BY <1>1 DEF Search, InNumberOrder
  <2> QED
    BY <1>3, <1>4, <2>1, <2>2, <2>3 DEF InNumberOrder
<1>10. Entangled'
  <2>1. ASSUME NEW y \in OnStack
        PROVE  \E i \in DOMAIN calls' :
                  index[calls'[i].node] <= index[y] /\ calls'[i].node \in Reach(y)
    <3>1. PICK i \in DOMAIN calls :
             index[calls[i].node] <= index[y] /\ calls[i].node \in Reach(y)
      BY <2>1 DEF Search, Entangled
    <3>2. CASE i # l
      <4>1. i \in 1 .. l - 1
        BY <1>2, <3>2
      <4> QED
        BY <1>1, <3>1, <4>1
    <3>3. CASE i = l
      <4>1. PICK j \in DOMAIN calls :
               index[calls[j].node] <= index[y0] /\ calls[j].node \in Reach(y0)
        BY <1>6 DEF Search, Entangled
      <4>2. /\ index[calls[j].node] \in Nat /\ index[y0] \in Nat /\ index[v] \in Nat
            /\ index[y] \in Nat /\ v \in Reach(y) /\ index[v] <= index[y]
        BY <1>1, <1>2, <1>6, <2>1, <3>1, <3>3, <4>1 DEF v
      <4>3. j # l /\ index[calls[j].node] <= index[y]
        BY <1>6, <4>1, <4>2 DEF v
      <4>4. y0 \in Reach(y)
        BY <1>6, <4>2, ReachOn
      <4>5. calls[j].node \in Reach(y)
        BY <4>1, <4>4, ReachOn
      <4>6. j \in 1 .. l - 1
        BY <1>2, <4>3
      <4> QED
        BY <1>1, <4>3, <4>5, <4>6
    <3> QED
      BY <3>2, <3>3
  <2>2. \A y \in OnStack, i \in DOMAIN calls' :
           index[calls'[i].node] <= index[y] => y \in Reach(calls'[i].node)
    BY <1>1 DEF Search, Entangled
  <2> QED
    BY <1>3, <1>4, <2>1, <2>2 DEF Entangled
<1>11. Followed'
  BY <1>1, <1>3, <1>4 DEF Search, Followed
<1>12. LowReached'
  <2>1. ASSUME NEW x \in OnStack
        PROVE  \E y \in OnStack : y \in Reach(x) /\ index[y] = lowlink'[x]
    <3>1. CASE lowlink'[x] = lowlink[x]
      BY <3>1 DEF Search, LowReached
    <3>2. CASE lowlink'[x] # lowlink[x]
      <4>1. l > 1 /\ x = u /\ lowlink'[u] = lowlink[v]
        BY <1>1, <1>2, <3>2
      <4>2. l - 1 \in 1 .. l - 1
        BY <1>2, <4>1
      <4>3. l - 1 \in DOMAIN calls /\ u = calls[l - 1].node /\ index[u] < index[v]
        BY <1>1, <4>2 DEF u
      <4>4. v \in Reach(u)
        <5>1. index[u] \in Nat /\ index[v] \in Nat
          BY <1>1, <1>2, <4>3
        <5>2. index[calls[l - 1].node] <= index[v]
          BY <4>3, <5>1
        <5> QED
          BY <1>1, <4>3, <5>2 DEF Search, Entangled
      <4>5. y0 \in Reach(u)
        BY <1>6, <4>4, ReachOn
      <4> QED
        BY <1>6, <4>1, <4>5
    <3> QED
      BY <3>1, <3>2
  <2> QED
    BY <1>3, <1>4, <2>1 DEF LowReached
<1>13. LowCovers'
  <2> SUFFICES ASSUME NEW i \in DOMAIN calls', NEW y \in OnStack', NEW z \in OnStack',
                      index'[calls'[i].node] <= index'[y],
                      i + 1 \in DOMAIN calls' => index'[y] < index'[calls'[i + 1].node],
                      Seen(y, z)'
               PROVE  lowlink'[calls'[i].node] <= index'[z]
    BY DEF LowCovers
  <2> DEFINE g == calls[i].node
  <2>1. /\ i \in 1 .. l - 1 /\ i \in DOMAIN calls /\ y \in OnStack /\ z \in OnStack
        /\ calls'[i].node = g /\ g \in Nodes /\ index[g] <= index[y] /\ Seen(y, z)
        /\ i + 1 \in 1 .. l - 1 => index[y] < index[calls[i + 1].node]
    BY <1>1, <1>2, <1>4
  <2>2. /\ lowlink[g] \in Nat /\ lowlink'[g] \in Nat /\ index[z] \in Nat
        /\ index[y] \in Nat /\ index[v] \in Nat /\ lowlink'[g] <= lowlink[g]
        /\ lowlink[v] \in Nat
    BY <1>1, <1>2, <2>1
  <2>3. CASE i + 1 = l /\ index[v] <= index[y]
    <3>1. lowlink[v] <= index[z]
      <4>1. l + 1 \notin DOMAIN calls
        BY <1>2
      <4>2. l \in DOMAIN calls /\ index[calls[l].node] <= index[y]
        BY <1>1, <2>3 DEF v
      <4>3. LowCovers
        BY DEF Search
      <4> QED
        BY <2>1, <4>1, <4>2, <4>3 DEF LowCovers, v
    <3>2. g = u /\ l > 1
      <4>1. i \in 1 .. l - 1 /\ i + 1 = l
        BY <2>1, <2>3
      <4>2. l \in Nat
        BY <1>2
      <4>3. i \in Nat /\ i >= 1
        BY <4>1, <4>2
      <4>4. i = l - 1
        BY <4>1, <4>2, <4>3
      <4>5. l > 1
        BY <4>1, <4>2, <4>3
      <4> QED
        BY <4>4, <4>5 DEF u
    <3> QED
      BY <1>1, <2>1, <2>2, <3>1, <3>2
  <2>4. CASE ~(i + 1 = l /\ index[v] <= index[y])
    <3>1. i + 1 \in DOMAIN calls => index[y] < index[calls[i + 1].node]
      BY <1>2, <2>1, <2>2, <2>4 DEF v
    <3>2. lowlink[g] <= index[z]
      BY <2>1, <3>1 DEF Search, LowCovers
    <3> QED
      BY <2>1, <2>2, <3>2
  <2> QED
    BY <2>3, <2>4
<1>14. Found'
  BY <1>3 DEF Search, Found
<1> QED
  BY <1>7, <1>8, <1>9, <1>10, <1>11, <1>12, <1>13, <1>14 DEF Search

LEMMA PartIs ==
    ASSUME NEW S, NEW s \in Seq(S), NEW m \in Int, NEW n \in Int, 1 <= m, m <= n + 1, n <= Len(s)
    PROVE  /\ SubSeq(s, m, n) \in Seq(S) /\ DOMAIN SubSeq(s, m, n) = 1 .. n - m + 1
           /\ \A i \in 1 .. n - m + 1 : m + i - 1 \in DOMAIN s /\ SubSeq(s, m, n)[i] = s[m + i - 1]
<1>1. SubSeq(s, m, n) = [i \in 1 .. 1 + n - m |-> s[i + m - 1]]
  OBVIOUS
<1>2. \A i \in 1 .. 1 + n - m : i + m - 1 \in 1 .. Len(s)
  OBVIOUS
<1>3. SubSeq(s, m, n) \in [1 .. 1 + n - m -> S] /\ 1 + n - m \in Nat
  BY <1>1, <1>2
<1>4. SubSeq(s, m, n) \in Seq(S)
  BY <1>3
<1> QED
  BY <1>1, <1>2, <1>4

\* The nodes of the stack from that of v on, and those before it.
LEMMA StackSplit ==
    ASSUME Search, NEW v \in OnStack, NEW at \in DOMAIN stack, stack[at] = v
    PROVE  /\ SubSeq(stack, 1, at - 1) \in Seq(Nodes)
           /\ DOMAIN SubSeq(stack, 1, at - 1) = 1 .. at - 1
           /\ \A i \in 1 .. at - 1 :
                 i \in DOMAIN stack /\ SubSeq(stack, 1, at - 1)[i] = stack[i]
           /\ \A x : x \in Range(SubSeq(stack, 1, at - 1)) <=> x \in OnStack /\ index[x] < index[v]
           /\ \A x : x \in Range(SubSeq(stack, at, Len(stack))) <=>
                        x \in OnStack /\ index[v] <= index[x]
<1> DEFINE n == Len(stack)
           under == SubSeq(stack, 1, at - 1)
           over == SubSeq(stack, at, n)
<1>1. /\ index \in [Nodes -> Nat] /\ n \in Nat /\ DOMAIN stack = 1 .. n /\ OnStack \subseteq Nodes
      /\ stack \in Seq(Nodes)
  BY SearchTypes DEF Search, AuditShape
<1>2. at \in 1 .. n /\ stack[at] = v
  BY <1>1
<1>3. \A i, j \in 1 .. n : i < j => index[stack[i]] < index[stack[j]]
  BY <1>1 DEF Search, InNumberOrder
<1>4. \A i \in 1 .. n : stack[i] \in OnStack /\ stack[i] \in Nodes /\ index[stack[i]] \in Nat
  BY <1>1, OnStackIs
<1>5. \A i \in 1 .. n : index[stack[i]] < index[v] <=> i < at
  <2> TAKE i \in 1 .. n
  <2>1. i < at => index[stack[i]] < index[v]
    BY <1>2, <1>3
  <2>2. at < i => index[v] < index[stack[i]]
    BY <1>2, <1>3
  <2>3. i < at \/ at < i \/ i = at
    BY <1>1, <1>2
  <2> QED
    BY <1>2, <1>4, <2>1, <2>2, <2>3
<1>6. PICK p \in Int : p = at - 1 /\ 1 <= p + 1 /\ p <= n
  BY <1>1, <1>2
<1>7. /\ SubSeq(stack, 1, p) \in Seq(Nodes) /\ DOMAIN SubSeq(stack, 1, p) = 1 .. p - 1 + 1
      /\ \A i \in 1 .. p - 1 + 1 :
            1 + i - 1 \in DOMAIN stack /\ SubSeq(stack, 1, p)[i] = stack[1 + i - 1]
  BY <1>1, <1>6, PartIs
<1>8. under = SubSeq(stack, 1, p) /\ p - 1 + 1 = at - 1 /\ \A i \in 1 .. at - 1 : 1 + i - 1 = i
  BY <1>2, <1>6
<1>9. /\ under \in Seq(Nodes) /\ DOMAIN under = 1 .. at - 1
      /\ \A i \in 1 .. at - 1 : i \in DOMAIN stack /\ under[i] = stack[i]
  <2> HIDE DEF under
  <2> QED
    BY <1>7, <1>8
<1>10. DOMAIN over = 1 .. n - at + 1 /\ \A i \in 1 .. n - at + 1 : over[i] = stack[at + i - 1]
  <2>1. PICK q \in Int : q = n /\ at \in Int /\ 1 <= at /\ at <= q + 1 /\ q <= Len(stack)
    <3>1. n \in Nat /\ n = Len(stack) /\ stack \in Seq(Nodes)
      BY <1>1
    <3> HIDE DEF n
    <3> QED
      BY <1>2, <3>1
  <2>2. /\ DOMAIN SubSeq(stack, at, q) = 1 .. q - at + 1
        /\ \A i \in 1 .. q - at + 1 : SubSeq(stack, at, q)[i] = stack[at + i - 1]
    BY <1>1, <2>1, PartIs
  <2>3. over = SubSeq(stack, at, q)
    BY <2>1
  <2> HIDE DEF over, n
  <2> QED
    BY <2>1, <2>2, <2>3
<1> HIDE DEF n, under, over
<1>11. ASSUME NEW x PROVE x \in Range(under) <=> x \in OnStack /\ index[x] < index[v]
  <2>1. ASSUME x \in Range(under) PROVE x \in OnStack /\ index[x] < index[v]
    <3>1. PICK i \in 1 .. at - 1 : stack[i] = x
      BY <1>9, <2>1, InRange
    <3>2. i \in 1 .. n /\ i < at
      BY <1>1, <1>2, <3>1
    <3> QED
      BY <1>4, <1>5, <3>1, <3>2
  <2>2. ASSUME x \in OnStack, index[x] < index[v] PROVE x \in Range(under)
    <3>1. PICK i \in 1 .. n : stack[i] = x
      BY <1>1, <2>2, OnStackIs
    <3>2. i \in 1 .. at - 1
      BY <1>1, <1>2, <1>5, <2>2, <3>1
    <3> QED
      BY <1>9, <3>1, <3>2, InRange
  <2> QED
    BY <2>1, <2>2
<1>12. ASSUME NEW x PROVE x \in Range(over) <=> x \in OnStack /\ index[v] <= index[x]
  <2>1. ASSUME x \in Range(over) PROVE x \in OnStack /\ index[v] <= index[x]
    <3>1. PICK i \in DOMAIN over : over[i] = x
      BY <2>1, InRange
    <3>2. /\ at + i - 1 \in 1 .. n /\ ~(at + i - 1 < at)
          /\ stack[at + i - 1] = x
      <4>1. i \in 1 .. n - at + 1
        BY <1>10, <3>1
      <4>2. at + i - 1 \in 1 .. n /\ ~(at + i - 1 < at)
        BY <1>1, <1>2, <4>1
      <4> QED
        BY <1>10, <3>1, <4>1, <4>2
    <3>3. ~(index[x] < index[v]) /\ x \in OnStack /\ index[x] \in Nat /\ index[v] \in Nat
      BY <1>1, <1>2, <1>4, <1>5, <3>1, <3>2
    <3> QED
      BY <3>3
  <2>2. ASSUME x \in OnStack, index[v] <= index[x] PROVE x \in Range(over)
    <3>1. PICK i \in 1 .. n : stack[i] = x
      BY <1>1, <2>2, OnStackIs
    <3>2. ~(index[x] < index[v])
      BY <1>1, <2>2
    <3>3. ~(i < at)
      BY <1>5, <3>1, <3>2
    <3>4. i - at + 1 \in 1 .. n - at + 1 /\ at + (i - at + 1) - 1 = i
      BY <1>1, <1>2, <3>3
    <3>5. over[i - at + 1] = x
      BY <1>10, <3>1, <3>4
    <3> QED
      BY <1>10, <3>4, <3>5, InRange
  <2> QED
    BY <2>1, <2>2
<1> QED
  BY <1>9, <1>11, <1>12 DEF n, under, over

\* v's call is done and v is a root.
AtRoot(v) ==
    /\ Search /\ request = "audit" /\ calls # << >>
    /\ v = calls[Len(calls)].node /\ calls[Len(calls)].rest = {}
    /\ lowlink[v] = index[v]

Above(v) == {x \in OnStack : index[v] <= index[x]}

LEMMA RootFacts ==
    ASSUME NEW v, AtRoot(v)
    PROVE  /\ Search /\ v \in OnStack /\ v \in Nodes /\ v \in Above(v) /\ index[v] \in Nat
           /\ Len(calls) \in DOMAIN calls
           /\ \A i \in DOMAIN calls : i # Len(calls) =>
                 i \in 1 .. Len(calls) - 1 /\ index[calls[i].node] < index[v]
           /\ \A i \in DOMAIN calls :
                 /\ calls[i].node \in Nodes /\ index[calls[i].node] \in Nat
                 /\ index[calls[i].node] <= index[v]
<1> DEFINE l == Len(calls)
<1>1. /\ index \in [Nodes -> Nat] /\ l \in Nat /\ DOMAIN calls = 1 .. l
      /\ OnStack \subseteq Nodes
      /\ \A i \in DOMAIN calls : calls[i].node \in OnStack /\ calls[i].node \in Nodes
  BY SearchTypes DEF AtRoot
<1>2. l \in DOMAIN calls /\ v \in OnStack /\ v \in Nodes /\ index[v] \in Nat
  <2>1. calls \in Seq([node : Nodes, rest : SUBSET Nodes]) /\ calls # << >>
    BY DEF AtRoot, Search, AuditShape
  <2>2. l # 0
    BY <2>1
  <2>3. l \in DOMAIN calls
    BY <1>1, <2>2
  <2> QED
    BY <1>1, <2>3 DEF AtRoot
<1>3. ASSUME NEW i \in DOMAIN calls, i # l
      PROVE  i \in 1 .. l - 1 /\ index[calls[i].node] < index[v]
  <2>1. i < l /\ i \in 1 .. l - 1
    BY <1>1, <1>3
  <2>2. index[calls[i].node] < index[calls[l].node]
    BY <1>2, <2>1 DEF AtRoot, Search, InNumberOrder
  <2> QED
    BY <2>1, <2>2 DEF AtRoot
<1>4. ASSUME NEW i \in DOMAIN calls
      PROVE  /\ calls[i].node \in Nodes /\ index[calls[i].node] \in Nat
             /\ index[calls[i].node] <= index[v]
  <2>1. calls[i].node \in Nodes /\ index[calls[i].node] \in Nat
    BY <1>1
  <2>2. CASE i = l
    BY <1>2, <2>1, <2>2 DEF AtRoot
  <2>3. CASE i # l
    BY <1>2, <1>3, <2>1, <2>3
  <2> QED
    BY <2>1, <2>2, <2>3
<1>5. Search /\ v \in Above(v)
  BY <1>2 DEF AtRoot, Above
<1> QED
  BY <1>2, <1>3, <1>4, <1>5

\* Nothing leads from above a root to below it.
LEMMA RootCloses ==
    ASSUME NEW v, AtRoot(v)
    PROVE  Closes(Placed \cup Above(v))
<1>1. /\ Search /\ v \in OnStack /\ v \in Nodes /\ index[v] \in Nat
      /\ Len(calls) \in DOMAIN calls
      /\ \A i \in DOMAIN calls : i # Len(calls) => index[calls[i].node] < index[v]
  BY RootFacts
<1>2. /\ index \in [Nodes -> Nat] /\ lowlink \in [Nodes -> Nat]
      /\ Len(calls) \in Nat /\ DOMAIN calls = 1 .. Len(calls)
      /\ OnStack \subseteq Nodes /\ OnStack \subseteq Numbered
  BY <1>1, SearchTypes
<1> SUFFICES ASSUME NEW x \in Nodes, NEW z \in Nodes, <<x, z>> \in Arcs,
                    x \in Placed \cup Above(v)
             PROVE  z \in Placed \cup Above(v)
  BY DEF Closes
<1>3. CASE x \in Placed
  BY <1>1, <1>3 DEF Search, Followed
<1>4. CASE x \in Above(v)
  <2>1. x \in OnStack /\ index[v] <= index[x] /\ index[x] \in Nat
    BY <1>2, <1>4 DEF Above
  <2>2. Seen(x, z)
    <3>1. ASSUME NEW i \in DOMAIN calls, calls[i].node = x PROVE z \notin calls[i].rest
      <4>1. i = Len(calls)
        BY <1>1, <2>1, <3>1
      <4> QED
        BY <4>1 DEF AtRoot
    <3> QED
      BY <1>2, <2>1, <3>1 DEF Seen
  <2>3. z \in OnStack \/ z \in Placed
    BY <1>1, <2>2 DEF Search, Followed, NumberedOnce
  <2>4. CASE z \in OnStack
    <3>1. Len(calls) + 1 \notin DOMAIN calls
      BY <1>2
    <3>2. index[calls[Len(calls)].node] <= index[x]
      BY <2>1 DEF AtRoot
    <3>3. LowCovers
      BY <1>1 DEF Search
    <3>4. lowlink[calls[Len(calls)].node] <= index[z]
      BY <1>1, <2>1, <2>2, <2>4, <3>1, <3>2, <3>3 DEF LowCovers
    <3> QED
      BY <2>4, <3>4 DEF AtRoot, Above
  <2> QED
    BY <2>3, <2>4
<1> QED
  BY <1>3, <1>4

\* What is above a root is a component.
LEMMA RootComponent ==
    ASSUME NEW v, AtRoot(v)
    PROVE  /\ \A n \in Above(v) : Above(v) = Condensation!Mutual(n)
           /\ v \notin Placed
           /\ Condensation!ReachFrom(v) \ Condensation!Mutual(v) \subseteq Placed
<1>1. /\ Search /\ v \in OnStack /\ v \in Nodes /\ v \in Above(v) /\ index[v] \in Nat
      /\ Len(calls) \in DOMAIN calls
      /\ \A i \in DOMAIN calls :
            /\ calls[i].node \in Nodes /\ index[calls[i].node] \in Nat
            /\ index[calls[i].node] <= index[v]
  BY RootFacts
<1>2. OnStack \subseteq Nodes /\ Placed \subseteq Nodes /\ Placed \cap OnStack = {}
      /\ index \in [Nodes -> Nat]
  BY <1>1, SearchTypes DEF Search, NumberedOnce
<1>3. Placed \in SUBSET Nodes /\ Closes(Placed)
  BY <1>1, <1>2 DEF Search, Followed, Closes
<1>4. Placed \cup Above(v) \in SUBSET Nodes /\ Closes(Placed \cup Above(v))
  BY <1>2, RootCloses DEF Above
<1>5. ASSUME NEW y \in Above(v) PROVE y \in Reach(v) /\ v \in Reach(y)
  <2>1. y \in OnStack /\ index[v] <= index[y]
    BY DEF Above
  <2>2. y \in Reach(v)
    <3>1. index[calls[Len(calls)].node] <= index[y]
      BY <2>1 DEF AtRoot
    <3>2. y \in Reach(calls[Len(calls)].node)
      BY <1>1, <2>1, <3>1 DEF Search, Entangled
    <3> QED
      BY <3>2 DEF AtRoot
  <2>3. PICK i \in DOMAIN calls :
           index[calls[i].node] <= index[y] /\ calls[i].node \in Reach(y)
    BY <1>1, <2>1 DEF Search, Entangled
  <2>4. v \in Reach(calls[i].node)
    BY <1>1 DEF Search, Entangled
  <2>5. v \in Reach(y)
    BY <2>3, <2>4, ReachOn
  <2> QED
    BY <2>2, <2>5
<1>6. ASSUME NEW n \in Above(v) PROVE Above(v) = Condensation!Mutual(n)
  <2>1. ASSUME NEW x \in Above(v) PROVE x \in Condensation!Mutual(n)
    <3>1. x \in Reach(v) /\ v \in Reach(x) /\ n \in Reach(v) /\ v \in Reach(n)
      BY <1>5
    <3>2. x \in Reach(n) /\ n \in Reach(x)
      BY <3>1, ReachOn
    <3> QED
      BY <3>2, InMutual
  <2>2. ASSUME NEW x \in Condensation!Mutual(n) PROVE x \in Above(v)
    <3>1. x \in Reach(n) /\ n \in Reach(x)
      BY InMutual
    <3>2. Reach(n) \subseteq Placed \cup Above(v)
      BY <1>4, ReachStays
    <3>3. x \notin Placed
      <4>1. x \in Placed => Reach(x) \subseteq Placed
        BY <1>3, ReachStays
      <4>2. n \notin Placed
        BY <1>2, <1>6 DEF Above
      <4> QED
        BY <3>1, <4>1, <4>2
    <3> QED
      BY <3>1, <3>2, <3>3
  <2> QED
    BY <2>1, <2>2
<1>7. Reach(v) \ Condensation!Mutual(v) \subseteq Placed
  <2>1. Reach(v) \subseteq Placed \cup Above(v)
    BY <1>1, <1>4, ReachStays
  <2>2. Above(v) = Condensation!Mutual(v)
    BY <1>1, <1>6
  <2> QED
    BY <2>1, <2>2
<1> QED
  BY <1>1, <1>2, <1>6, <1>7 DEF Reach

\* A call returns that is a root: its component is popped.
LEMMA PopKeeps ==
    ASSUME NEW v, AtRoot(v), NEW at \in DOMAIN stack, stack[at] = v,
           calls' = Front(calls),
           IF Len(calls) > 1 THEN Lower(calls[Len(calls) - 1].node, lowlink[v])
           ELSE UNCHANGED lowlink,
           sccs' = Append(sccs, Range(SubSeq(stack, at, Len(stack)))),
           stack' = SubSeq(stack, 1, at - 1),
           UNCHANGED <<request, weight, index>>
    PROVE  Search' /\ sccs' = Append(sccs, Condensation!Mutual(v))
<1> DEFINE l == Len(calls)
           u == calls[l - 1].node
<1>1. /\ Search /\ request = "audit" /\ calls # << >> /\ calls[Len(calls)].rest = {}
      /\ v = calls[Len(calls)].node /\ lowlink[v] = index[v]
  BY DEF AtRoot
<1>2. /\ l \in DOMAIN calls /\ v \in OnStack /\ v \in Nodes
      /\ calls' \in Seq([node : Nodes, rest : SUBSET Nodes])
      /\ DOMAIN calls' = 1 .. l - 1
      /\ \A i \in 1 .. l - 1 :
            i \in DOMAIN calls /\ calls'[i] = calls[i] /\ index[calls[i].node] < index[v]
      /\ \A x, z : Seen(x, z)' => Seen(x, z)
      /\ lowlink' \in [Nodes -> Nat]
      /\ \A x \in Nodes : lowlink'[x] <= lowlink[x]
      /\ \A x \in Nodes : (l > 1 => x # u) => lowlink'[x] = lowlink[x]
      /\ l > 1 => /\ lowlink'[u] <= lowlink[v]
                  /\ lowlink'[u] = lowlink[u] \/ lowlink'[u] = lowlink[v]
  BY <1>1, ReturnShape
<1> HIDE DEF l, u
<1>3. /\ index \in [Nodes -> Nat] /\ lowlink \in [Nodes -> Nat]
      /\ l \in Nat /\ DOMAIN calls = 1 .. l
      /\ OnStack \subseteq Nodes /\ Placed \subseteq Nodes /\ OnStack \subseteq Numbered
      /\ \A i \in DOMAIN calls : calls[i].node \in OnStack /\ calls[i].node \in Nodes
      /\ \A n \in Nodes : lowlink[n] <= index[n]
      /\ DOMAIN stack = 1 .. Len(stack)
  BY <1>1, SearchTypes DEF l
<1>4. /\ Arcs' = Arcs
      /\ \A n : Reach(n)' = Reach(n)
      /\ \A n : Condensation!Mutual(n)' = Condensation!Mutual(n)
      /\ Condensation!Ends' = Condensation!Ends
  BY GraphKept DEF SameGraph
<1>5. Numbered' = Numbered
  BY DEF Numbered
<1>6. /\ stack' \in Seq(Nodes) /\ DOMAIN stack' = 1 .. at - 1
      /\ \A i \in 1 .. at - 1 : i \in DOMAIN stack /\ stack'[i] = stack[i]
      /\ \A x : x \in OnStack' <=> x \in OnStack /\ index[x] < index[v]
      /\ \A x : x \in Range(SubSeq(stack, at, Len(stack))) <=> x \in OnStack /\ index[v] <= index[x]
  BY <1>1, <1>2, StackSplit DEF OnStack
<1>7. Range(SubSeq(stack, at, Len(stack))) = Above(v)
  BY <1>6 DEF Above
<1>8. sccs' = Append(sccs, Above(v)) /\ sccs \in Seq(SUBSET Nodes) /\ Above(v) \in SUBSET Nodes
  BY <1>1, <1>3, <1>7 DEF Above, Search, AuditShape
<1>9. /\ sccs' \in Seq(SUBSET Nodes) /\ DOMAIN sccs' = 1 .. Len(sccs) + 1
      /\ DOMAIN sccs = 1 .. Len(sccs) /\ Len(sccs) \in Nat
      /\ sccs'[Len(sccs) + 1] = Above(v) /\ \A i \in DOMAIN sccs : sccs'[i] = sccs[i]
  <2> HIDE DEF Above
  <2> QED
    BY <1>8
<1>10. Placed' = Placed \cup Above(v)
  <2>1. ASSUME NEW x PROVE x \in Placed' <=> x \in Placed \/ x \in Above(v)
    <3>1. x \in Placed' <=> \E i \in DOMAIN sccs' : x \in sccs'[i]
      BY DEF Placed, Condensation!Placed
    <3>2. Len(sccs) + 1 \in DOMAIN sccs' /\ \A i \in DOMAIN sccs : i \in DOMAIN sccs'
      BY <1>9
    <3>3. \A i \in DOMAIN sccs' : i \in DOMAIN sccs \/ i = Len(sccs) + 1
      BY <1>9
    <3> QED
      BY <1>9, <3>1, <3>2, <3>3, InPlaced
  <2> QED
    BY <2>1
<1>11. \A x \in Nodes : index[x] \in Nat /\ lowlink[x] \in Nat /\ lowlink'[x] \in Nat
  BY <1>2, <1>3
<1>12. \A x \in OnStack : x \in OnStack' \/ x \in Above(v)
  <2> TAKE x \in OnStack
  <2>1. index[x] < index[v] \/ index[v] <= index[x]
    BY <1>2, <1>3, <1>11
  <2> QED
    BY <1>6, <2>1 DEF Above
<1>13. AuditShape'
  BY <1>1, <1>2, <1>3, <1>6, <1>9 DEF Search, AuditShape
<1>14. NumberedOnce'
  <2>1. \A n \in Nodes : index[n] <= Cardinality(Numbered) /\ lowlink'[n] <= index[n]
    <3>1. \A n \in Nodes : lowlink'[n] <= index[n]
      BY <1>2, <1>3, <1>11
    <3> QED
      BY <1>1, <3>1 DEF Search, NumberedOnce
  <2>2. Numbered = OnStack' \cup Placed'
    BY <1>1, <1>6, <1>10, <1>12 DEF Search, NumberedOnce, Above
  <2>3. OnStack' \cap Placed' = {}
    <3>1. ASSUME NEW x \in OnStack', x \in Placed' PROVE FALSE
      <4>1. x \in OnStack /\ index[x] < index[v] /\ x \in Nodes
        BY <1>3, <1>6, <3>1
      <4>2. x \notin Above(v)
        BY <1>2, <1>11, <4>1 DEF Above
      <4>3. x \notin Placed
        BY <1>1, <4>1 DEF Search, NumberedOnce
      <4> QED
        BY <1>10, <3>1, <4>2, <4>3
    <3> QED
      BY <3>1
  <2>4. \A m, n \in Numbered : index[m] = index[n] => m = n
    BY <1>1 DEF Search, NumberedOnce
  <2>5. Numbered \subseteq Condensation!Ends
    BY <1>1 DEF Search, NumberedOnce
  <2> QED
    BY <1>4, <1>5, <2>1, <2>2, <2>3, <2>4, <2>5 DEF NumberedOnce
<1>15. InNumberOrder'
  <2>1. /\ \A i, j \in DOMAIN stack : i < j => index[stack[i]] < index[stack[j]]
        /\ \A i, j \in DOMAIN calls : i < j => index[calls[i].node] < index[calls[j].node]
        /\ \A i \in DOMAIN calls : \A w \in calls[i].rest : <<calls[i].node, w>> \in Arcs
    BY <1>1 DEF Search, InNumberOrder
  <2>2. \A i, j \in DOMAIN stack' : i < j => index[stack'[i]] < index[stack'[j]]
    BY <1>6, <2>1
  <2>3. \A i \in DOMAIN calls' : i \in DOMAIN calls /\ calls'[i] = calls[i]
    BY <1>2
  <2>4. \A i, j \in DOMAIN calls' : i < j => index[calls'[i].node] < index[calls'[j].node]
    BY <2>1, <2>3
  <2>5. \A i \in DOMAIN calls' :
           calls'[i].node \in OnStack' /\ \A w \in calls'[i].rest : <<calls'[i].node, w>> \in Arcs
    BY <1>2, <1>3, <1>6, <2>1
  <2> QED
    BY <1>4, <2>2, <2>4, <2>5 DEF InNumberOrder
<1>16. Entangled'
  <2>1. ASSUME NEW y \in OnStack'
        PROVE  \E i \in DOMAIN calls' :
                  index[calls'[i].node] <= index[y] /\ calls'[i].node \in Reach(y)
    <3>1. y \in OnStack /\ index[y] < index[v]
      BY <1>6
    <3>2. PICK i \in DOMAIN calls :
             index[calls[i].node] <= index[y] /\ calls[i].node \in Reach(y)
      BY <1>1, <3>1 DEF Search, Entangled
    <3>3. i # l
      <4>1. calls[l].node = v
        BY <1>1 DEF l
      <4>2. index[y] \in Nat /\ index[v] \in Nat
        BY <1>2, <1>3, <1>11, <3>1
      <4> QED
        BY <3>1, <3>2, <4>1, <4>2
    <3>4. i \in 1 .. l - 1
      BY <1>3, <3>3
    <3> QED
      BY <1>2, <3>2, <3>4
  <2>2. ASSUME NEW y \in OnStack', NEW i \in DOMAIN calls', index[calls'[i].node] <= index[y]
        PROVE  y \in Reach(calls'[i].node)
    BY <1>1, <1>2, <1>6, <2>2 DEF Search, Entangled
  <2> QED
    BY <1>4, <2>1, <2>2 DEF Entangled
<1>17. Followed'
  <2>1. \A x, z \in Nodes : Seen(x, z)' => z \in Numbered
    BY <1>1, <1>2 DEF Search, Followed
  <2>2. Closes(Placed \cup Above(v))
    BY RootCloses
  <2> QED
    BY <1>4, <1>5, <1>10, <2>1, <2>2 DEF Followed, Closes
<1>18. \A x \in Nodes : lowlink'[x] = lowlink[x]
  <2>1. ASSUME l > 1 PROVE lowlink'[u] = lowlink[u]
    <3>1. l - 1 \in 1 .. l - 1
      BY <1>3, <2>1
    <3>2. l - 1 \in DOMAIN calls /\ index[u] < index[v] /\ u \in Nodes
      BY <1>2, <1>3, <3>1 DEF u
    <3>3. lowlink[u] <= index[u] /\ lowlink'[u] <= lowlink[u] /\ lowlink[v] = index[v]
      BY <1>1, <1>2, <1>3, <3>2
    <3>4. lowlink'[u] # lowlink[v]
      BY <1>2, <1>11, <3>2, <3>3
    <3> QED
      BY <1>2, <2>1, <3>4
  <2> QED
    BY <1>2, <2>1
<1>19. LowReached'
  <2>1. ASSUME NEW x \in OnStack'
        PROVE  \E y \in OnStack' : y \in Reach(x) /\ index[y] = lowlink'[x]
    <3>1. x \in OnStack /\ index[x] < index[v] /\ x \in Nodes
      BY <1>3, <1>6
    <3>2. PICK y \in OnStack : y \in Reach(x) /\ index[y] = lowlink[x]
      BY <1>1, <3>1 DEF Search, LowReached
    <3>3. index[y] < index[v]
      BY <1>2, <1>3, <1>11, <3>1, <3>2
    <3> QED
      BY <1>6, <1>18, <3>1, <3>2, <3>3
  <2> QED
    BY <1>4, <2>1 DEF LowReached
<1>20. LowCovers'
  <2> SUFFICES ASSUME NEW i \in DOMAIN calls', NEW y \in OnStack', NEW z \in OnStack',
                      index'[calls'[i].node] <= index'[y],
                      i + 1 \in DOMAIN calls' => index'[y] < index'[calls'[i + 1].node],
                      Seen(y, z)'
               PROVE  lowlink'[calls'[i].node] <= index'[z]
    BY DEF LowCovers
  <2> DEFINE g == calls[i].node
  <2>1. /\ i \in 1 .. l - 1 /\ i \in DOMAIN calls /\ y \in OnStack /\ z \in OnStack
        /\ calls'[i].node = g /\ g \in Nodes /\ index[g] <= index[y] /\ Seen(y, z)
        /\ i + 1 \in 1 .. l - 1 => index[y] < index[calls[i + 1].node]
        /\ index[y] < index[v]
    BY <1>2, <1>3, <1>6
  <2>2. i + 1 \in DOMAIN calls => index[y] < index[calls[i + 1].node]
    <3>1. i + 1 \in DOMAIN calls => i + 1 \in 1 .. l - 1 \/ i + 1 = l
      BY <1>3, <2>1
    <3>2. v = calls[l].node
      BY <1>1 DEF l
    <3> QED
      BY <2>1, <3>1, <3>2
  <2>3. lowlink[g] <= index[z]
    BY <1>1, <2>1, <2>2 DEF Search, LowCovers
  <2> QED
    BY <1>18, <2>1, <2>3
<1>21. Found'
  <2>1. ASSUME NEW i \in DOMAIN sccs'
        PROVE  sccs'[i] # {} /\ \A n \in sccs'[i] : sccs'[i] = Condensation!Mutual(n)
    <3>1. CASE i \in DOMAIN sccs
      BY <1>1, <1>9, <3>1 DEF Search, Found
    <3>2. CASE i \notin DOMAIN sccs
      <4>1. i = Len(sccs) + 1
        BY <1>9, <3>2
      <4> QED
        BY <1>9, <4>1, RootComponent, RootFacts
    <3> QED
      BY <3>1, <3>2
  <2> QED
    BY <1>4, <2>1 DEF Found
<1>22. Above(v) = Condensation!Mutual(v)
  BY RootComponent, RootFacts
<1> QED
  BY <1>8, <1>13, <1>14, <1>15, <1>16, <1>17, <1>19, <1>20, <1>21, <1>22 DEF Search

-----------------------------------------------------------------------------
(* The steps of the search, and the promise of Components that they keep. *)

LEMMA AuditGraph ==
    ASSUME request = "audit"
    PROVE  Arcs = Edges /\ Involved = Condensation!Ends
BY DEF Arcs, Involved, Condensation!Ends

LEMMA RootKeepsSearch ==
    ASSUME Search, NEW v \in Nodes, Root(v)
    PROVE  Search' /\ UNCHANGED Condensation!vars
<1>1. /\ request = "audit" /\ calls = << >> /\ v \in Condensation!Ends /\ index[v] = Unset
      /\ Enter(v, << >>) /\ UNCHANGED <<request, weight, sccs, cycles>>
  BY AuditGraph DEF Root, Asked
<1>2. CallsUnder(<< >>, v)
  BY <1>1 DEF CallsUnder
<1>3. Search'
  BY <1>1, <1>2, EnterKeeps
<1>4. UNCHANGED Condensation!vars
  BY <1>1 DEF Condensation!vars, Edges
<1> QED
  BY <1>3, <1>4

LEMMA LookKeepsSearch ==
    ASSUME Search, request \in {"audit", "impact"}, NEW w \in Nodes, Look(w)
    PROVE  Search' /\ UNCHANGED Condensation!vars
<1> DEFINE v == calls[Len(calls)].node
           below == [calls EXCEPT ![Len(calls)].rest = @ \ {w}]
<1>1. /\ calls # << >> /\ w \in calls[Len(calls)].rest
      /\ UNCHANGED <<request, status, weight, sccs, cycles, asked, impact, low, high>>
      /\ \/ /\ index[w] = Unset
            /\ Enter(w, below)
         \/ /\ index[w] # Unset
            /\ IF w \in OnStack THEN Lower(v, index[w]) ELSE UNCHANGED lowlink
            /\ calls' = below
            /\ UNCHANGED <<index, stack>>
  BY DEF Look, Last
<1>2. request = "audit"
  BY <1>1 DEF Search, AuditShape
<1>3. UNCHANGED Condensation!vars
  BY <1>1 DEF Condensation!vars, Edges
<1>4. /\ below \in Seq([node : Nodes, rest : SUBSET Nodes]) /\ Len(below) = Len(calls)
      /\ DOMAIN below = DOMAIN calls /\ Len(calls) \in DOMAIN calls
      /\ \A i \in DOMAIN calls :
            /\ below[i].node = calls[i].node
            /\ below[i].rest = IF i = Len(calls) THEN calls[i].rest \ {w} ELSE calls[i].rest
  BY <1>1, BelowIs
<1>5. <<v, w>> \in Arcs
  BY <1>1, <1>4 DEF Search, InNumberOrder
<1>6. CASE index[w] = Unset
  <2>1. CallsUnder(below, w)
    <3> HIDE DEF below
    <3> QED
      BY <1>4, <1>5 DEF CallsUnder
  <2>2. w \in Condensation!Ends
    BY <1>5, InEnds, ArcsArePairs
  <2>3. Enter(w, below)
    BY <1>1, <1>6
  <2> QED
    BY <1>1, <1>2, <1>3, <1>6, <2>1, <2>2, <2>3, EnterKeeps
<1>7. CASE index[w] # Unset
  <2>1. /\ IF w \in OnStack THEN Lower(v, index[w]) ELSE UNCHANGED lowlink
        /\ calls' = below /\ UNCHANGED <<index, stack>>
    BY <1>1, <1>7
  <2> QED
    BY <1>1, <1>2, <1>3, <1>7, <2>1, LookedKeeps
<1> QED
  BY <1>6, <1>7

\* The components come one by one, each after those that it leads to.
LEMMA ReturnKeepsSearch ==
    ASSUME Search, request \in {"audit", "impact"}, Return
    PROVE  Search' /\ [Condensation!Next]_Condensation!vars
<1> DEFINE v == calls[Len(calls)].node
           at == CHOOSE i \in DOMAIN stack : stack[i] = v
<1>1. /\ calls # << >> /\ calls[Len(calls)].rest = {}
      /\ \/ /\ lowlink[v] = index[v]
            /\ sccs' = Append(sccs, Range(SubSeq(stack, at, Len(stack))))
            /\ stack' = SubSeq(stack, 1, at - 1)
         \/ /\ lowlink[v] # index[v]
            /\ UNCHANGED <<sccs, stack>>
      /\ calls' = Front(calls)
      /\ IF Len(calls) > 1 THEN Lower(calls[Len(calls) - 1].node, lowlink[v])
         ELSE UNCHANGED lowlink
      /\ UNCHANGED <<request, status, weight, index, cycles, asked, impact, low, high>>
  BY DEF Return, Last
<1>2. request = "audit"
  BY <1>1 DEF Search, AuditShape
<1>3. CASE lowlink[v] # index[v]
  <2>1. UNCHANGED <<sccs, stack>>
    BY <1>1, <1>3
  <2>2. Search'
    BY <1>1, <1>2, <1>3, <2>1, LeaveKeeps
  <2>3. UNCHANGED Condensation!vars
    BY <1>1, <2>1 DEF Condensation!vars, Edges
  <2> QED
    BY <2>2, <2>3
<1>4. CASE lowlink[v] = index[v]
  <2>1. AtRoot(v)
    BY <1>1, <1>2, <1>4 DEF AtRoot
  <2>2. v \in OnStack
    BY <2>1, RootFacts
  <2>3. \E i \in DOMAIN stack : stack[i] = v
    BY <2>2, OnStackIs
  <2>4. at \in DOMAIN stack /\ stack[at] = v
    BY <2>3
  <2>5. /\ sccs' = Append(sccs, Range(SubSeq(stack, at, Len(stack))))
        /\ stack' = SubSeq(stack, 1, at - 1)
    BY <1>1, <1>4
  <2> HIDE DEF at
  <2>6. Search' /\ sccs' = Append(sccs, Condensation!Mutual(v))
    BY <1>1, <2>1, <2>4, <2>5, PopKeeps
  <2>7. v \notin Condensation!Placed
        /\ Condensation!ReachFrom(v) \ Condensation!Mutual(v) \subseteq Condensation!Placed
    BY <2>1, RootComponent DEF Placed
  <2>8. v \in Condensation!Ends
    <3>1. OnStack \subseteq Numbered
      BY SearchTypes
    <3> QED
      BY <2>2, <3>1 DEF Search, NumberedOnce
  <2>9. UNCHANGED <<IF request = "audit" THEN Edges ELSE {}, cycles>>
    BY <1>1 DEF Edges
  <2>10. Condensation!Find(v)
    BY <2>6, <2>7, <2>9 DEF Condensation!Find
  <2> QED
    BY <2>6, <2>8, <2>10 DEF Condensation!Next
<1> QED
  BY <1>3, <1>4

LEMMA TwoOrMore ==
    ASSUME NEW S \in SUBSET Nodes
    PROVE  Cardinality(S) >= 2 <=> \E x, y \in S : x # y
<1>1. IsFiniteSet(S) /\ Cardinality(S) \in Nat
  BY NodesFinite
<1>2. ASSUME NEW x \in S, NEW y \in S, x # y PROVE Cardinality(S) >= 2
  <2>1. IsFiniteSet({x}) /\ Cardinality({x}) = 1
    BY FS_Singleton
  <2>2. Cardinality({x}) <= Cardinality(S) /\ (Cardinality(S) = Cardinality({x}) => S = {x})
    BY <1>1, FS_Subset
  <2>3. S # {x}
    BY <1>2
  <2> QED
    BY <1>1, <2>1, <2>2, <2>3
<1>3. ASSUME Cardinality(S) >= 2 PROVE \E x, y \in S : x # y
  <2>1. SUFFICES ASSUME \A x, y \in S : x = y PROVE FALSE
    OBVIOUS
  <2>2. S # {}
    BY <1>1, <1>3, FS_EmptySet
  <2>3. PICK x \in S : TRUE
    BY <2>2
  <2>4. S = {x}
    BY <2>1, <2>3
  <2>5. Cardinality(S) = 1
    BY <2>4, FS_Singleton
  <2> QED
    BY <1>3, <2>5
<1> QED
  BY <1>2, <1>3

\* When no call is left, and all nodes have numbers, all are in components.
LEMMA AllPlaced ==
    ASSUME Search, calls = << >>, Condensation!Ends \subseteq Numbered
    PROVE  Placed = Condensation!Ends
<1>1. OnStack = {}
  BY DEF Search, Entangled
<1> QED
  BY <1>1 DEF Search, NumberedOnce

\* A component is a cycle for Audit if its nodes lie on one.
LEMMA CycleIsCycle ==
    ASSUME Search, request = "audit", NEW n \in Placed
    PROVE  /\ Condensation!Mutual(n) \in Range(sccs)
           /\ IsCycle(Condensation!Mutual(n)) <=> Condensation!OnCycle(n)
<1> DEFINE M == Condensation!Mutual(n)
<1>1. PICK i \in DOMAIN sccs : n \in sccs[i]
  BY InPlaced
<1>2. sccs[i] = M /\ M \in Range(sccs)
  BY <1>1, InRange DEF Search, Found
<1>3. n \in Nodes /\ Arcs = Edges
  BY SearchTypes, AuditGraph
<1>4. \A m : m \in M <=> m \in Reach(n) /\ n \in Reach(m)
  BY InMutual
<1>5. M \in SUBSET Nodes /\ n \in M
  BY <1>3, <1>4, ReachSelf
<1>6. Condensation!OnCycle(n) <=> \E x \in Nodes : <<n, x>> \in Arcs /\ n \in Reach(x)
  <2>1. Condensation!OnCycle(n) <=> \E e \in Arcs : e[1] = n /\ n \in Reach(e[2])
    BY DEF Condensation!OnCycle, Arcs, Reach
  <2>2. ASSUME NEW e \in Arcs, e[1] = n, n \in Reach(e[2])
        PROVE  \E x \in Nodes : <<n, x>> \in Arcs /\ n \in Reach(x)
    <3>1. e = <<n, e[2]>> /\ e[2] \in Nodes
      BY <2>2, ArcsArePairs
    <3> QED
      BY <2>2, <3>1
  <2>3. ASSUME NEW x \in Nodes, <<n, x>> \in Arcs, n \in Reach(x)
        PROVE  \E e \in Arcs : e[1] = n /\ n \in Reach(e[2])
    <3>1. <<n, x>>[1] = n /\ <<n, x>>[2] = x
      OBVIOUS
    <3> QED
      BY <2>3, <3>1
  <2> QED
    BY <2>1, <2>2, <2>3
<1> HIDE DEF M
<1>7. ASSUME IsCycle(M) PROVE \E x \in Nodes : <<n, x>> \in Arcs /\ n \in Reach(x)
  <2>1. CASE \E x, y \in M : x # y
    <3>1. PICK m \in M : m # n
      BY <1>5, <2>1
    <3>2. PICK x \in Nodes : <<n, x>> \in Arcs /\ m \in Reach(x)
      BY <1>3, <1>4, <3>1, ReachFirst
    <3>3. n \in Reach(x)
      BY <1>4, <3>2, ReachOn
    <3> QED
      BY <3>2, <3>3
  <2>2. CASE \E m \in M : <<m, m>> \in Arcs /\ ~\E x, y \in M : x # y
    BY <1>3, <1>5, <2>2, ReachSelf
  <2> QED
    BY <1>3, <1>5, <1>7, <2>1, <2>2, TwoOrMore DEF IsCycle
<1>8. ASSUME NEW x \in Nodes, <<n, x>> \in Arcs, n \in Reach(x) PROVE IsCycle(M)
  <2>1. x \in M
    BY <1>3, <1>4, <1>8, ReachSelf, ReachArc
  <2>2. CASE x = n
    BY <1>3, <1>5, <1>8, <2>2 DEF IsCycle
  <2>3. CASE x # n
    BY <1>5, <2>1, <2>3, TwoOrMore DEF IsCycle
  <2> QED
    BY <2>2, <2>3
<1> QED
  BY <1>2, <1>6, <1>7, <1>8 DEF M

LEMMA ReportKeepsSearch ==
    ASSUME Search, ReportCycles
    PROVE  Search' /\ Condensation!Report
<1>1. /\ request = "audit" /\ calls = << >> /\ Involved \subseteq Numbered
      /\ cycles' = {scc \in Range(sccs) : IsCycle(scc)}
      /\ UNCHANGED <<request, weight, calls, index, lowlink, stack, sccs>>
  BY DEF ReportCycles, Asked
<1>2. Search'
  BY <1>1, SearchKept DEF SameGraph
<1>3. Placed = Condensation!Ends
  BY <1>1, AuditGraph, AllPlaced
<1>4. cycles' = {Condensation!Mutual(n) : n \in {m \in Condensation!Ends : Condensation!OnCycle(m)}}
  <2>1. ASSUME NEW scc \in Range(sccs), IsCycle(scc)
        PROVE  \E n \in Condensation!Ends : Condensation!OnCycle(n) /\ scc = Condensation!Mutual(n)
    <3>1. PICK i \in DOMAIN sccs : sccs[i] = scc
      BY InRange
    <3>2. PICK n \in scc : scc = Condensation!Mutual(n)
      BY <3>1 DEF Search, Found
    <3>3. n \in Placed
      BY <3>1, InPlaced
    <3> QED
      BY <1>1, <1>3, <2>1, <3>2, <3>3, CycleIsCycle
  <2>2. ASSUME NEW n \in Condensation!Ends, Condensation!OnCycle(n)
        PROVE  Condensation!Mutual(n) \in Range(sccs) /\ IsCycle(Condensation!Mutual(n))
    BY <1>1, <1>3, <2>2, CycleIsCycle
  <2> QED
    BY <1>1, <2>1, <2>2
<1>5. UNCHANGED <<IF request = "audit" THEN Edges ELSE {}, sccs>>
  BY <1>1 DEF Edges
<1> QED
  BY <1>2, <1>3, <1>4, <1>5 DEF Condensation!Report, Placed

LEMMA ImpactKeepsSearch ==
    ASSUME Search, UNCHANGED <<request, audit>>, request = "impact" \/ UNCHANGED weight
    PROVE  Search' /\ UNCHANGED Condensation!vars
<1>1. SameGraph /\ UNCHANGED <<calls, index, lowlink, stack, sccs, cycles>>
  BY DEF SameGraph, audit
<1>2. Search'
  BY <1>1, SearchKept
<1>3. UNCHANGED Condensation!vars
  BY <1>1 DEF Condensation!vars, Edges, SameGraph
<1> QED
  BY <1>2, <1>3

LEMMA StepKeepsSearch ==
    ASSUME Search, request \in {"audit", "impact"}, [Next]_vars
    PROVE  Search' /\ [Condensation!Next]_Condensation!vars
<1>1. ASSUME NEW n \in Nodes, Root(n) PROVE Search' /\ UNCHANGED Condensation!vars
  BY <1>1, RootKeepsSearch
<1>2. ASSUME NEW n \in Nodes, Look(n) PROVE Search' /\ UNCHANGED Condensation!vars
  BY <1>2, LookKeepsSearch
<1>3. CASE Return
  BY <1>3, ReturnKeepsSearch
<1>4. CASE ReportCycles
  BY <1>4, ReportKeepsSearch DEF Condensation!Next
<1>5. CASE Skip
  BY <1>5, ImpactKeepsSearch DEF Skip
<1>6. CASE Expand
  BY <1>6, ImpactKeepsSearch DEF Expand, Visit
<1>7. CASE ExpandFails
  BY <1>7, ImpactKeepsSearch DEF ExpandFails
<1>8. CASE ReportImpact
  BY <1>8, ImpactKeepsSearch DEF ReportImpact
<1>9. ASSUME NEW e \in CallEdges, Move(e) PROVE Search' /\ UNCHANGED Condensation!vars
  BY <1>9, ImpactKeepsSearch DEF Move, Asked
<1>10. CASE UNCHANGED vars
  BY <1>10, ImpactKeepsSearch DEF vars
<1> QED
  BY <1>1, <1>2, <1>3, <1>4, <1>5, <1>6, <1>7, <1>8, <1>9, <1>10 DEF Next

LEMMA InitSearch ==
    ASSUME Init
    PROVE  Search /\ Condensation!Init
<1>1. /\ calls = << >> /\ stack = << >> /\ sccs = << >> /\ cycles = {}
      /\ index = [n \in Nodes |-> 0] /\ lowlink = [n \in Nodes |-> 0]
      /\ request \in {"audit", "impact"}
  BY DEF Init, Unset
<1>2. Numbered = {} /\ OnStack = {} /\ Placed = {} /\ DOMAIN calls = {} /\ DOMAIN sccs = {}
      /\ DOMAIN stack = {}
  BY <1>1 DEF Numbered, Unset, OnStack, Range, Placed, Condensation!Placed
<1>3. AuditShape /\ \A n \in Nodes : index[n] <= Cardinality(Numbered) /\ lowlink[n] <= index[n]
  BY <1>1, <1>2, FS_EmptySet DEF AuditShape
<1>4. \A x, z : ~Seen(x, z)
  BY <1>2 DEF Seen
<1>5. Search
  BY <1>2, <1>3, <1>4 DEF Search, NumberedOnce, InNumberOrder, Entangled, Followed, LowReached,
     LowCovers, Found
<1> QED
  BY <1>1, <1>5, ArcsArePairs DEF Condensation!Init, Arcs

-----------------------------------------------------------------------------
(* Probabilities and paths. *)

LEMMA Halves ==
    ASSUME NEW a \in Nat, NEW b \in Nat, a <= b
    PROVE  a \div 20 \in Nat /\ a \div 20 <= b \div 20
OBVIOUS

LEMMA Product ==
    ASSUME NEW p \in Nat, NEW q \in Nat, p <= q, NEW v \in 0 .. 20, NEW w \in 0 .. 20, v <= w
    PROVE  /\ (p * v) \div 20 \in Nat /\ (p * v) \div 20 <= p
           /\ (p * v) \div 20 <= (q * w) \div 20
<1>1. p * v \in Nat /\ q * v \in Nat /\ q * w \in Nat /\ p * 20 \in Nat
  OBVIOUS
<1>2. p * v <= q * v
  OBVIOUS
<1>3. q * v <= q * w
  OBVIOUS
<1>4. p * v <= p * 20
  OBVIOUS
<1>5. p * v <= q * w
  BY <1>1, <1>2, <1>3
<1>6. (p * 20) \div 20 = p
  OBVIOUS
<1> QED
  BY <1>1, <1>4, <1>5, <1>6, Halves

Pair == [node : Nodes, prob : Probability]

Graph == [Nodes \X Nodes -> 0 .. 20]

LEMMA InOnwards ==
    ASSUME NEW p \in Pair, NEW w \in Graph
    PROVE  /\ Onwards(p, w) \subseteq Pair
           /\ \A q \in Onwards(p, w) :
                 /\ q.node \in Nodes /\ q.prob = (p.prob * w[<<q.node, p.node>>]) \div 20
                 /\ q.prob <= p.prob
           /\ \A m \in Nodes : \E q \in Onwards(p, w) :
                 q.node = m /\ q.prob = (p.prob * w[<<m, p.node>>]) \div 20
<1>1. p.node \in Nodes /\ p.prob \in Nat /\ p.prob <= One /\ One \in Nat
  BY AnalyticsAssumption DEF Pair, Probability
<1>2. ASSUME NEW m \in Nodes
      PROVE  /\ w[<<m, p.node>>] \in 0 .. 20
             /\ (p.prob * w[<<m, p.node>>]) \div 20 \in Probability
             /\ (p.prob * w[<<m, p.node>>]) \div 20 <= p.prob
  <2>1. w[<<m, p.node>>] \in 0 .. 20
    BY <1>1 DEF Graph
  <2>2. PICK x \in 0 .. 20 : x = w[<<m, p.node>>]
    BY <2>1
  <2>3. (p.prob * x) \div 20 \in Nat /\ (p.prob * x) \div 20 <= p.prob
    BY <1>1, Product
  <2>4. (p.prob * x) \div 20 \in Probability
    BY <1>1, <2>3 DEF Probability
  <2> QED
    BY <2>1, <2>2, <2>3, <2>4
<1> DEFINE onward(m) == [node |-> m, prob |-> (p.prob * w[<<m, p.node>>]) \div 20]
<1>3. Onwards(p, w) = {onward(m) : m \in Nodes}
  BY DEF Onwards
<1>4. \A m \in Nodes : onward(m) \in Pair /\ onward(m).node = m
                       /\ onward(m).prob = (p.prob * w[<<m, p.node>>]) \div 20
  BY <1>2 DEF Pair
<1> HIDE DEF onward
<1>5. Onwards(p, w) \in SUBSET Pair
  BY <1>3, <1>4
<1>6. ASSUME NEW q \in Onwards(p, w)
      PROVE  /\ q.node \in Nodes /\ q.prob = (p.prob * w[<<q.node, p.node>>]) \div 20
             /\ q.prob <= p.prob
  <2>1. PICK m \in Nodes : q = onward(m)
    BY <1>3
  <2>2. q.node = m /\ q.prob = (p.prob * w[<<m, p.node>>]) \div 20
    BY <1>4, <2>1
  <2>3. (p.prob * w[<<m, p.node>>]) \div 20 <= p.prob
    BY <1>2
  <2> QED
    BY <2>2, <2>3
<1>7. ASSUME NEW m \in Nodes
      PROVE  \E q \in Onwards(p, w) :
                q.node = m /\ q.prob = (p.prob * w[<<m, p.node>>]) \div 20
  BY <1>3, <1>4
<1> QED
  BY <1>2, <1>5, <1>6, <1>7

LEMMA InLonger ==
    ASSUME NEW S \in SUBSET Pair, NEW w \in Graph
    PROVE  /\ Longer(S, w) \in SUBSET Pair /\ S \subseteq Longer(S, w)
           /\ \A q \in Longer(S, w) : q \in S \/ \E p \in S : q \in Onwards(p, w)
           /\ \A p \in S : Onwards(p, w) \subseteq Longer(S, w)
BY InOnwards DEF Longer

LEMMA UpToFive ==
    ASSUME NEW S, 0 \in S, \A d \in 0 .. 4 : d \in S => d + 1 \in S
    PROVE  0 .. 5 \subseteq S
<1>1. 1 \in S /\ 2 \in S /\ 3 \in S /\ 4 \in S /\ 5 \in S
  OBVIOUS
<1> QED
  BY <1>1

Start(goal) == {[node |-> goal, prob |-> One]}

ArePaths(g, goal, weights) ==
    g = [d \in 0 .. 5 |-> IF d = 0 THEN Start(goal) ELSE Longer(g[d - 1], weights)]

\* The recursive function of Paths exists.
LEMMA PathsExist ==
    ASSUME NEW goal, NEW weights
    PROVE  ArePaths(Paths(goal, weights), goal, weights)
<1> DEFINE p1 == Longer(Start(goal), weights)
           p2 == Longer(p1, weights)
           p3 == Longer(p2, weights)
           p4 == Longer(p3, weights)
           p5 == Longer(p4, weights)
           g == [d \in 0 .. 5 |->
                    IF d = 0 THEN Start(goal) ELSE IF d = 1 THEN p1 ELSE IF d = 2 THEN p2
                    ELSE IF d = 3 THEN p3 ELSE IF d = 4 THEN p4 ELSE p5]
           h == [d \in 0 .. 5 |-> IF d = 0 THEN Start(goal) ELSE Longer(g[d - 1], weights)]
<1>1. /\ g[0] = Start(goal) /\ g[1] = p1 /\ g[2] = p2 /\ g[3] = p3 /\ g[4] = p4 /\ g[5] = p5
      /\ DOMAIN g = 0 .. 5 /\ g = [d \in 0 .. 5 |-> g[d]]
  OBVIOUS
<1>2. \A d \in 0 .. 5 : h[d] = IF d = 0 THEN Start(goal) ELSE Longer(g[d - 1], weights)
  OBVIOUS
<1> HIDE DEF g
<1>3. p1 = Longer(g[0], weights) /\ p2 = Longer(g[1], weights) /\ p3 = Longer(g[2], weights)
      /\ p4 = Longer(g[3], weights) /\ p5 = Longer(g[4], weights)
  BY <1>1
<1> HIDE DEF p1, p2, p3, p4, p5
<1>4. \A d \in 0 .. 5 : g[d] = IF d = 0 THEN Start(goal) ELSE Longer(g[d - 1], weights)
  BY <1>1, <1>3
<1>5. h = g
  BY <1>1, <1>4
<1>6. ArePaths(g, goal, weights)
  BY <1>5 DEF ArePaths
<1>7. Paths(goal, weights) = CHOOSE f1 : ArePaths(f1, goal, weights)
  BY DEF Paths, ArePaths, Start
<1> QED
  BY <1>6, <1>7

LEMMA PathsAre ==
    ASSUME NEW goal \in Nodes, NEW w \in Graph
    PROVE  LET P == Paths(goal, w) IN
           /\ P[0] = Start(goal)
           /\ \A d \in 0 .. 4 : P[d + 1] = Longer(P[d], w)
           /\ \A d \in 0 .. 5 : P[d] \in SUBSET Pair
<1> DEFINE P == Paths(goal, w)
           S == {d \in 0 .. 5 : P[d] \in SUBSET Pair}
<1>1. P = [d \in 0 .. 5 |-> IF d = 0 THEN Start(goal) ELSE Longer(P[d - 1], w)]
  BY PathsExist DEF ArePaths
<1> HIDE DEF P
<1>2. P[0] = Start(goal)
  BY <1>1
<1>3. ASSUME NEW d \in 0 .. 4 PROVE P[d + 1] = Longer(P[d], w)
  <2>1. d + 1 \in 0 .. 5 /\ d + 1 # 0 /\ (d + 1) - 1 = d
    OBVIOUS
  <2>2. P[d + 1] = Longer(P[(d + 1) - 1], w)
    BY <1>1, <2>1
  <2> QED
    BY <2>1, <2>2
<1>4. 0 \in S
  BY <1>2, AnalyticsAssumption DEF Start, Pair, Probability
<1>5. ASSUME NEW d \in 0 .. 4, d \in S PROVE d + 1 \in S
  BY <1>3, <1>5, InLonger
<1>6. 0 .. 5 \subseteq S
  <2> HIDE DEF S
  <2> QED
    BY <1>4, <1>5, UpToFive
<1> QED
  BY <1>2, <1>3, <1>6 DEF P

\* A longer search has the paths of a shorter one.
LEMMA PathsGrow ==
    ASSUME NEW goal \in Nodes, NEW w \in Graph, NEW d \in 0 .. 5, NEW e \in 0 .. 5, d <= e
    PROVE  Paths(goal, w)[d] \subseteq Paths(goal, w)[e]
<1> DEFINE P == Paths(goal, w)
<1>1. ASSUME NEW i \in 0 .. 4 PROVE P[i] \subseteq P[i + 1]
  BY PathsAre, InLonger
<1> HIDE DEF P
<1> DEFINE S == {i \in 0 .. 5 : d <= i => P[d] \subseteq P[i]}
<1>2. 0 \in S
  OBVIOUS
<1>3. ASSUME NEW i \in 0 .. 4, i \in S PROVE i + 1 \in S
  <2>1. d <= i + 1 => d <= i \/ d = i + 1
    OBVIOUS
  <2> QED
    BY <1>1, <1>3, <2>1
<1>4. e \in S
  <2> HIDE DEF S
  <2> QED
    BY <1>2, <1>3, UpToFive
<1> QED
  BY <1>4 DEF P

\* Greater weights make likelier paths.
LEMMA PathsRise ==
    ASSUME NEW goal \in Nodes, NEW v \in Graph, NEW w \in Graph,
           \A e \in Nodes \X Nodes : v[e] <= w[e],
           NEW d \in 0 .. 5, NEW q \in Paths(goal, v)[d]
    PROVE  \E r \in Paths(goal, w)[d] : r.node = q.node /\ r.prob >= q.prob
<1> DEFINE V == Paths(goal, v)
           W == Paths(goal, w)
           S == {i \in 0 .. 5 : \A x \in V[i] : \E y \in W[i] : y.node = x.node /\ y.prob >= x.prob}
<1>1. /\ V[0] = Start(goal) /\ W[0] = Start(goal)
      /\ \A i \in 0 .. 4 : V[i + 1] = Longer(V[i], v) /\ W[i + 1] = Longer(W[i], w)
      /\ \A i \in 0 .. 5 : V[i] \in SUBSET Pair /\ W[i] \in SUBSET Pair
  BY PathsAre
<1>2. \A x \in Pair : x.node \in Nodes /\ x.prob \in Nat
  BY AnalyticsAssumption DEF Pair, Probability
<1> HIDE DEF V, W
<1>3. 0 \in S
  <2>1. \A x \in V[0] : x.prob >= x.prob
    BY <1>1, <1>2
  <2> QED
    BY <1>1, <2>1
<1>4. ASSUME NEW i \in 0 .. 4, i \in S PROVE i + 1 \in S
  <2>1. i \in 0 .. 5 /\ i + 1 \in 0 .. 5
    OBVIOUS
  <2> SUFFICES ASSUME NEW x \in V[i + 1]
               PROVE  \E y \in W[i + 1] : y.node = x.node /\ y.prob >= x.prob
    BY <2>1
  <2>2. W[i] \subseteq W[i + 1] /\ \A y \in W[i] : Onwards(y, w) \subseteq W[i + 1]
    BY <1>1, <2>1, InLonger
  <2>3. CASE x \in V[i]
    BY <1>4, <2>2, <2>3
  <2>4. CASE \E p \in V[i] : x \in Onwards(p, v)
    <3>1. PICK p \in V[i] : x \in Onwards(p, v)
      BY <2>4
    <3>2. PICK y \in W[i] : y.node = p.node /\ y.prob >= p.prob
      BY <1>4
    <3>3. p \in Pair /\ y \in Pair
      BY <1>1, <2>1
    <3>4. x.node \in Nodes /\ x.prob = (p.prob * v[<<x.node, p.node>>]) \div 20
      BY <3>1, <3>3, InOnwards
    <3>5. PICK z \in Onwards(y, w) :
             z.node = x.node /\ z.prob = (y.prob * w[<<x.node, y.node>>]) \div 20
      BY <3>3, <3>4, InOnwards
    <3>6. /\ p.prob \in Nat /\ y.prob \in Nat /\ <<x.node, p.node>> \in Nodes \X Nodes
          /\ p.prob <= y.prob
      BY <1>2, <3>2, <3>3, <3>4
    <3>7. PICK a \in 0 .. 20, b \in 0 .. 20 :
             a = v[<<x.node, p.node>>] /\ b = w[<<x.node, p.node>>] /\ a <= b
      BY <3>6 DEF Graph
    <3>8. (p.prob * a) \div 20 <= (y.prob * b) \div 20 /\ (p.prob * a) \div 20 \in Nat
      BY <3>6, <3>7, Product
    <3>9. (y.prob * b) \div 20 \in Nat
      BY <3>6, Product
    <3>10. z.prob >= x.prob
      BY <3>2, <3>4, <3>5, <3>7, <3>8, <3>9
    <3> QED
      BY <2>2, <3>2, <3>5, <3>10
  <2> QED
    BY <1>1, <2>1, <2>3, <2>4, InLonger
<1>5. d \in S
  <2> HIDE DEF S
  <2> QED
    BY <1>3, <1>4, UpToFive
<1> QED
  BY <1>5 DEF V, W

-----------------------------------------------------------------------------
(* The order of the report. *)

\* What is not behind i, by score and then by position.
NotBehind(score, n, i) ==
    {j \in 1 .. n : score[j] > score[i] \/ (score[j] = score[i] /\ j <= i)}

IsRank(rank, score, n) == rank = [i \in 1 .. n |-> Cardinality(NotBehind(score, n, i))]

IsPlace(place, rank, n) == place = [k \in 1 .. n |-> CHOOSE i \in 1 .. n : rank[i] = k]

\* Sorting by rank puts everything somewhere, the greatest scores first.
LEMMA RankSorts ==
    ASSUME NEW n \in Nat, NEW score \in [1 .. n -> Nat],
           NEW rank, IsRank(rank, score, n), NEW place, IsPlace(place, rank, n)
    PROVE  /\ \A k \in 1 .. n : place[k] \in 1 .. n
           /\ \A i \in 1 .. n : \E k \in 1 .. n : place[k] = i
           /\ \A k, l \in 1 .. n : k < l => score[place[k]] >= score[place[l]]
<1> DEFINE D == 1 .. n
           Before(i, j) == score[i] > score[j] \/ (score[i] = score[j] /\ i < j)
<1>1. IsFiniteSet(D) /\ Cardinality(D) = n
  BY FS_Interval
<1>2. \A i \in D : score[i] \in Nat /\ i \in Nat
  OBVIOUS
<1>3. ASSUME NEW i \in D
      PROVE  /\ IsFiniteSet(NotBehind(score, n, i)) /\ i \in NotBehind(score, n, i)
             /\ Cardinality(NotBehind(score, n, i)) \in 1 .. n
  <2>1. NotBehind(score, n, i) \in SUBSET D /\ i \in NotBehind(score, n, i)
    BY <1>2 DEF NotBehind
  <2> DEFINE S == NotBehind(score, n, i)
  <2> HIDE DEF D, S
  <2>2. IsFiniteSet(S) /\ Cardinality(S) <= n /\ Cardinality(S) \in Nat
    BY <1>1, <2>1, FS_Subset, FS_CardinalityType DEF S
  <2>3. Cardinality(S) # 0
    BY <2>1, <2>2, FS_EmptySet DEF S
  <2> QED
    BY <2>1, <2>2, <2>3 DEF S
<1>4. rank \in [D -> 1 .. n] /\ \A i \in D : rank[i] = Cardinality(NotBehind(score, n, i))
  BY <1>3 DEF IsRank
<1>5. ASSUME NEW i \in D, NEW j \in D, Before(i, j) PROVE rank[i] < rank[j]
  <2> DEFINE S == NotBehind(score, n, i)
             T == NotBehind(score, n, j)
  <2>1. S \in SUBSET T
    <3> SUFFICES ASSUME NEW k \in D, score[k] > score[i] \/ (score[k] = score[i] /\ k <= i)
                 PROVE  score[k] > score[j] \/ (score[k] = score[j] /\ k <= j)
      BY DEF NotBehind
    <3> QED
      BY <1>2, <1>5
  <2>2. j \in T /\ j \notin S
    BY <1>2, <1>5 DEF NotBehind
  <2>3. IsFiniteSet(T) /\ Cardinality(S) \in Nat /\ Cardinality(T) \in Nat
    BY <1>3
  <2>4. rank[i] = Cardinality(S) /\ rank[j] = Cardinality(T)
    BY <1>4
  <2> HIDE DEF S, T
  <2>5. Cardinality(S) <= Cardinality(T) /\ (Cardinality(T) = Cardinality(S) => T = S)
    BY <2>1, <2>3, FS_Subset
  <2> QED
    BY <2>2, <2>3, <2>4, <2>5
<1>6. \A i, j \in D : i # j => Before(i, j) \/ Before(j, i)
  BY <1>2
<1>7. \A i, j \in D : rank[i] = rank[j] => i = j
  <2> SUFFICES ASSUME NEW i \in D, NEW j \in D, rank[i] = rank[j], i # j PROVE FALSE
    OBVIOUS
  <2>1. rank[i] \in 1 .. n /\ rank[j] \in 1 .. n
    BY <1>4
  <2> HIDE DEF Before
  <2> QED
    BY <1>5, <1>6, <2>1
<1>8. \A k \in D : \E i \in D : rank[i] = k
  <2>1. rank \in Injection(D, D)
    BY <1>4, <1>7 DEF Injection, IsInjective
  <2> HIDE DEF D
  <2>2. rank \in Surjection(D, D)
    BY <1>1, <2>1, FS_Injection
  <2> QED
    BY <2>2 DEF Surjection
<1>9. \A k \in D : place[k] \in D /\ rank[place[k]] = k
  BY <1>8 DEF IsPlace
<1>10. \A i \in D : \E k \in D : place[k] = i
  <2> TAKE i \in D
  <2>1. rank[i] \in D
    BY <1>4
  <2>2. place[rank[i]] \in D /\ rank[place[rank[i]]] = rank[i]
    BY <1>9, <2>1
  <2> QED
    BY <1>7, <2>1, <2>2
<1>11. ASSUME NEW k \in D, NEW l \in D, k < l PROVE score[place[k]] >= score[place[l]]
  <2>1. place[k] \in D /\ place[l] \in D /\ rank[place[k]] = k /\ rank[place[l]] = l
    BY <1>9
  <2>2. ~Before(place[l], place[k])
    <3>1. Before(place[l], place[k]) => l < k
      BY <1>5, <2>1
    <3> QED
      BY <1>11, <3>1
  <2>3. score[place[k]] \in Nat /\ score[place[l]] \in Nat
    BY <2>1
  <2> QED
    BY <2>2, <2>3
<1> QED
  BY <1>9, <1>10, <1>11

\* The report is what was found, the likeliest first.
LEMMA ByImpactSorts ==
    ASSUME NEW R, affected \in Seq(R), \A x \in R : x.prob \in Nat
    PROVE  /\ ByImpact \in Seq(R) /\ DOMAIN ByImpact = DOMAIN affected
           /\ \A k \in DOMAIN affected : \E i \in DOMAIN affected : ByImpact[k] = affected[i]
           /\ \A i \in DOMAIN affected : \E k \in DOMAIN affected : ByImpact[k] = affected[i]
           /\ \A k, l \in DOMAIN affected : k < l => ByImpact[k].prob >= ByImpact[l].prob
<1> DEFINE n == Len(affected)
           score == [i \in 1 .. n |-> affected[i].prob]
           rank == [i \in 1 .. n |-> Cardinality(NotBehind(score, n, i))]
           place == [k \in 1 .. n |-> CHOOSE i \in 1 .. n : rank[i] = k]
           spot(k) == CHOOSE i \in DOMAIN affected : Rank(i) = k
<1>1. n \in Nat /\ DOMAIN affected = 1 .. n /\ \A i \in 1 .. n : affected[i] \in R
  OBVIOUS
<1>2. score \in [1 .. n -> Nat]
  BY <1>1
<1>3. ASSUME NEW i \in 1 .. n PROVE Rank(i) = rank[i]
  <2>1. NotBehind(score, n, i) =
           {j \in DOMAIN affected : \/ affected[j].prob > affected[i].prob
                                    \/ affected[j].prob = affected[i].prob /\ j <= i}
    BY <1>1 DEF NotBehind
  <2> QED
    BY <2>1 DEF Rank
<1> HIDE DEF rank
<1>4. ByImpact = [k \in 1 .. n |-> affected[place[k]]]
  <2>1. ASSUME NEW k \in 1 .. n PROVE spot(k) = place[k]
    BY <1>1, <1>3
  <2>2. ByImpact = [k \in DOMAIN affected |-> affected[spot(k)]]
    BY DEF ByImpact
  <2> HIDE DEF place, spot, n
  <2> QED
    BY <1>1, <2>1, <2>2
<1> HIDE DEF place, score
<1>5. /\ \A k \in 1 .. n : place[k] \in 1 .. n
      /\ \A i \in 1 .. n : \E k \in 1 .. n : place[k] = i
      /\ \A k, l \in 1 .. n : k < l => score[place[k]] >= score[place[l]]
  <2>1. IsRank(rank, score, n)
    BY DEF IsRank, rank
  <2>2. IsPlace(place, rank, n)
    BY DEF IsPlace, place
  <2> HIDE DEF n
  <2> QED
    BY <1>1, <1>2, <2>1, <2>2, RankSorts
<1>6. \A i \in 1 .. n : score[i] = affected[i].prob
  BY DEF score
<1>7. ByImpact \in [1 .. n -> R]
  BY <1>1, <1>4, <1>5
<1> HIDE DEF n
<1>8. ByImpact \in Seq(R) /\ DOMAIN ByImpact = 1 .. n
  BY <1>1, <1>7
<1>9. \A k \in 1 .. n : ByImpact[k] = affected[place[k]]
  BY <1>4
<1>10. \A i \in 1 .. n : \E k \in 1 .. n : ByImpact[k] = affected[i]
  BY <1>5, <1>9
<1>11. \A k \in 1 .. n : \E i \in 1 .. n : ByImpact[k] = affected[i]
  BY <1>5, <1>9
<1>12. ASSUME NEW k \in 1 .. n, NEW l \in 1 .. n, k < l PROVE ByImpact[k].prob >= ByImpact[l].prob
  <2>1. score[place[k]] >= score[place[l]] /\ place[k] \in 1 .. n /\ place[l] \in 1 .. n
    BY <1>5, <1>12
  <2> QED
    BY <1>6, <1>9, <2>1
<1> QED
  BY <1>1, <1>8, <1>10, <1>11, <1>12

-----------------------------------------------------------------------------
(* The greatest and the least of sets of numbers. *)

LEMMA LeastOf ==
    ASSUME NEW S \in SUBSET Nat, S # {}
    PROVE  \E n \in S : \A m \in S : n <= m
<1>1. PICK n \in S : \A m \in S : <<m, n>> \notin OpToRel(<, Nat)
  BY NatLessThanWellFounded, WFMin
<1>2. ASSUME NEW m \in S PROVE n <= m
  <2>1. <<m, n>> \in Nat \X Nat /\ <<m, n>>[1] = m /\ <<m, n>>[2] = n
    OBVIOUS
  <2>2. ~(m < n)
    BY <1>1, <2>1 DEF OpToRel
  <2> QED
    BY <2>1, <2>2
<1> QED
  BY <1>2

LEMMA MinOf ==
    ASSUME NEW S \in SUBSET Nat, S # {}
    PROVE  Min(S) \in S /\ \A y \in S : Min(S) <= y
BY LeastOf DEF Min

LEMMA MaxOf ==
    ASSUME NEW S \in SUBSET Nat, S # {}, NEW n \in Nat, \A s \in S : s <= n
    PROVE  Max(S) \in S /\ \A y \in S : Max(S) >= y
<1> DEFINE T == {n - s : s \in S}
<1>1. T \in SUBSET Nat /\ T # {}
  <2>1. \A s \in S : n - s \in Nat
    OBVIOUS
  <2> QED
    BY <2>1
<1>2. PICK m \in T : \A y \in T : m <= y
  BY <1>1, LeastOf
<1>3. PICK s \in S : m = n - s
  BY <1>2
<1>4. ASSUME NEW y \in S PROVE s >= y
  <2>1. n - y \in T
    OBVIOUS
  <2> QED
    BY <1>2, <1>3, <2>1
<1> QED
  BY <1>4 DEF Max

\* What BestWithin finds: no path is likelier, and one is as likely.
LEMMA BestIs ==
    ASSUME TypeOK, NEW w \in Graph, NEW n
    PROVE  /\ BestWithin(w, n) \in Nat
           /\ \A q \in Paths(origin, w)[maxDepth] : q.node = n => q.prob <= BestWithin(w, n)
           /\ BestWithin(w, n) > 0 =>
                 \E q \in Paths(origin, w)[maxDepth] : q.node = n /\ q.prob = BestWithin(w, n)
<1> DEFINE P == Paths(origin, w)[maxDepth]
           S == {0} \cup {p.prob : p \in {q \in P : q.node = n}}
<1>1. origin \in Nodes /\ maxDepth \in 0 .. 5 /\ One \in Nat
  BY AnalyticsAssumption DEF TypeOK
<1>2. P \in SUBSET Pair
  BY <1>1, PathsAre
<1>3. BestWithin(w, n) = Max(S)
  BY DEF BestWithin
<1> HIDE DEF P
<1>4. S \in SUBSET Nat /\ S # {} /\ \A s \in S : s <= One
  BY <1>1, <1>2 DEF Pair, Probability
<1>5. \A q \in P : q.node = n => q.prob \in S
  OBVIOUS
<1>6. \A s \in S : s > 0 => \E q \in P : q.node = n /\ q.prob = s
  OBVIOUS
<1> HIDE DEF S
<1>7. Max(S) \in S /\ \A y \in S : Max(S) >= y
  BY <1>1, <1>4, MaxOf
<1>8. ASSUME NEW q \in P, q.node = n PROVE q.prob <= Max(S)
  BY <1>4, <1>5, <1>7, <1>8
<1> QED
  BY <1>3, <1>4, <1>6, <1>7, <1>8 DEF P

-----------------------------------------------------------------------------
(* The search for callers. *)

LEMMA SpreadTypes ==
    ASSUME TypeOK, ImpactShape
    PROVE  /\ origin \in Nodes /\ maxDepth \in Nat /\ maxDepth \in 0 .. 5
           /\ One \in Nat /\ Cut \in Nat
           /\ low \in Graph /\ high \in Graph /\ weight \in Graph
           /\ \A n \in Nodes : visited[n] \in Nat /\ visited[n] <= One
           /\ Len(queue) \in Nat /\ DOMAIN queue = 1 .. Len(queue)
           /\ \A i \in DOMAIN queue :
                 /\ queue[i].node \in Nodes /\ queue[i].depth \in Nat /\ queue[i].prob \in Nat
                 /\ queue[i].depth <= maxDepth /\ queue[i].prob <= One
<1>1. One \in Nat
  BY AnalyticsAssumption
<1>2. Cut \in Nat
  BY <1>1 DEF Cut
<1>3. weight \in Graph
  <2>1. Weights \cup {NoEdge} \subseteq 0 .. 20
    BY AnalyticsAssumption DEF NoEdge
  <2>2. weight \in [Nodes \X Nodes -> Weights \cup {NoEdge}]
    BY DEF TypeOK
  <2> QED
    BY <2>1, <2>2 DEF Graph
<1>4. low \in Graph /\ high \in Graph
  BY DEF ImpactShape, Graph
<1>5. origin \in Nodes /\ maxDepth \in 1 .. 5 /\ visited \in [Nodes -> Probability]
  BY DEF TypeOK
<1> DEFINE R == [node : Nodes, depth : 0 .. maxDepth, prob : Probability]
<1>6. \A r \in R : /\ r.node \in Nodes /\ r.depth \in Nat /\ r.prob \in Nat
                   /\ r.depth <= maxDepth /\ r.prob <= One
  BY <1>1, <1>5 DEF Probability
<1>7. queue \in Seq(R)
  BY DEF ImpactShape
<1> HIDE DEF R
<1>8. Len(queue) \in Nat /\ DOMAIN queue = 1 .. Len(queue) /\ \A i \in DOMAIN queue : queue[i] \in R
  BY <1>7
<1> QED
  BY <1>1, <1>2, <1>3, <1>4, <1>5, <1>6, <1>8 DEF Probability

LEMMA AwaitedLess ==
    ASSUME TypeOK, ImpactShape, NEW n \in Nodes, NEW p \in Nat, NEW q \in Nat, q <= p,
           NEW D, NEW E, Awaited(n, p, D),
           \A i \in DOMAIN queue : queue[i].depth \in D => queue[i].depth \in E
    PROVE  Awaited(n, q, E)
<1>1. visited[n] \in Nat /\ \A i \in DOMAIN queue : queue[i].prob \in Nat
  BY SpreadTypes
<1>2. CASE visited[n] >= p
  BY <1>1, <1>2 DEF Awaited
<1>3. ASSUME NEW i \in DOMAIN queue,
             queue[i].node = n /\ queue[i].prob >= p /\ queue[i].depth \in D
      PROVE  Awaited(n, q, E)
  <2>1. queue[i].prob >= q
    BY <1>1, <1>3
  <2> QED
    BY <1>3, <2>1 DEF Awaited
<1> QED
  BY <1>2, <1>3 DEF Awaited

\* When no frame of depth c is left, the search is at the next depth.
LEMMA Advance ==
    ASSUME TypeOK, ImpactShape, NEW c \in Nat, c < maxDepth, Wave(c),
           \A i \in DOMAIN queue : queue[i].depth # c
    PROVE  Wave(c + 1)
<1> DEFINE P == Paths(origin, low)
<1>1. c \in 0 .. 4 /\ c \in 0 .. 5 /\ c + 1 \in 0 .. 5 /\ maxDepth \in Nat /\ c # c + 1
  BY SpreadTypes
<1>2. \A i \in DOMAIN queue : queue[i].depth \in {c, c + 1} /\ queue[i].depth \in {c + 1}
  BY DEF Wave
<1>3. P[c + 1] = Longer(P[c], low) /\ P[c] \in SUBSET Pair /\ P[c + 1] \in SUBSET Pair
      /\ low \in Graph
  BY <1>1, PathsAre, SpreadTypes
<1>4. \A q \in Pair : q.node \in Nodes /\ q.prob \in Nat
  BY AnalyticsAssumption DEF Pair, Probability
<1>5. Cut \in Nat /\ \A n \in Nodes : visited[n] \in Nat
  BY SpreadTypes
<1>6. ASSUME NEW q \in P[c], q.prob > Cut
      PROVE  visited[q.node] >= q.prob
  BY <1>2, <1>6 DEF Wave, Awaited
<1>7. ASSUME NEW m \in Nodes, NEW n \in Nodes, NEW p \in Nat,
             p = (visited[n] * low[<<m, n>>]) \div 20, p > Cut
      PROVE  Awaited(m, p, {c, c + 1})
  BY <1>7 DEF Wave
<1> HIDE DEF P
<1>8. ASSUME NEW q \in P[c + 1], q.prob > Cut
      PROVE  Awaited(q.node, q.prob, {c + 1})
  <2>1. q \in Pair /\ q.node \in Nodes /\ q.prob \in Nat
    BY <1>3, <1>4
  <2>2. CASE q \in P[c]
    BY <1>6, <1>8, <2>2 DEF Awaited
  <2>3. CASE \E p \in P[c] : q \in Onwards(p, low)
    <3>1. PICK p \in P[c] : q \in Onwards(p, low)
      BY <2>3
    <3>2. p \in Pair /\ p.node \in Nodes /\ p.prob \in Nat
      BY <1>3, <1>4
    <3>3. q.prob = (p.prob * low[<<q.node, p.node>>]) \div 20 /\ q.prob <= p.prob
      BY <1>3, <3>1, <3>2, InOnwards
    <3>4. visited[p.node] >= p.prob
      BY <1>5, <1>6, <1>8, <2>1, <3>2, <3>3
    <3>5. PICK l \in 0 .. 20 : l = low[<<q.node, p.node>>]
      BY <1>3, <2>1, <3>2 DEF Graph
    <3>6. PICK v \in Nat : v = visited[p.node] /\ p.prob <= v
      BY <1>5, <3>2, <3>4
    <3> DEFINE onward == (v * l) \div 20
    <3>7. onward \in Nat
      BY Product
    <3>8. q.prob <= onward
      BY <3>2, <3>3, <3>5, <3>6, Product
    <3> HIDE DEF onward
    <3>9. onward > Cut
      BY <1>5, <1>8, <2>1, <3>7, <3>8
    <3>10. Awaited(q.node, onward, {c, c + 1})
      BY <1>7, <2>1, <3>2, <3>5, <3>6, <3>7, <3>9 DEF onward
    <3> QED
      BY <1>2, <2>1, <3>7, <3>8, <3>10, AwaitedLess
  <2> QED
    BY <1>3, <1>8, <2>2, <2>3, InLonger
<1>9. ASSUME NEW m \in Nodes, NEW n \in Nodes, (visited[n] * low[<<m, n>>]) \div 20 > Cut
      PROVE  Awaited(m, (visited[n] * low[<<m, n>>]) \div 20, {c + 1, (c + 1) + 1})
  <2>1. PICK l \in 0 .. 20 : l = low[<<m, n>>]
    BY <1>3 DEF Graph
  <2>2. PICK v \in Nat : v = visited[n]
    BY <1>5
  <2> DEFINE onward == (v * l) \div 20
  <2>3. onward \in Nat
    BY Product
  <2>4. onward > Cut /\ onward = (visited[n] * low[<<m, n>>]) \div 20
    BY <1>9, <2>1, <2>2
  <2> HIDE DEF onward
  <2>5. Awaited(m, onward, {c, c + 1}) /\ onward <= onward
    BY <1>7, <2>3, <2>4
  <2>6. Awaited(m, onward, {c + 1, (c + 1) + 1})
    BY <1>2, <2>3, <2>5, AwaitedLess
  <2> QED
    BY <2>4, <2>6
<1>10. /\ \A i \in DOMAIN queue : queue[i].depth \in {c + 1, (c + 1) + 1}
       /\ \A i, j \in DOMAIN queue : i < j => queue[i].depth <= queue[j].depth
  BY <1>2 DEF Wave
<1> QED
  BY <1>8, <1>9, <1>10 DEF Wave, P

\* The search is at the depth of its first frame.
LEMMA HeadWave ==
    ASSUME TypeOK, Spread, queue # << >>
    PROVE  Wave(f.depth)
<1>1. ImpactShape /\ \E c \in 0 .. maxDepth : Wave(c)
  BY DEF Spread
<1>2. PICK c \in 0 .. maxDepth : Wave(c)
  BY <1>1
<1>3. /\ maxDepth \in Nat /\ Len(queue) \in Nat /\ DOMAIN queue = 1 .. Len(queue)
      /\ \A i \in DOMAIN queue : queue[i].depth \in Nat /\ queue[i].depth <= maxDepth
  BY <1>1, SpreadTypes
<1>4. 1 \in DOMAIN queue /\ f = queue[1]
  BY <1>1, <1>3 DEF f, ImpactShape
<1>5. CASE f.depth = c
  BY <1>2, <1>5
<1>6. CASE f.depth # c
  <2>1. f.depth = c + 1
    BY <1>2, <1>4, <1>6 DEF Wave
  <2>2. c \in Nat /\ c < maxDepth
    BY <1>3, <1>4, <2>1
  <2>3. ASSUME NEW i \in DOMAIN queue PROVE queue[i].depth # c
    <3>1. CASE i = 1
      BY <1>4, <1>6, <3>1
    <3>2. CASE i # 1
      <4>1. 1 < i
        BY <1>3, <3>2
      <4>2. queue[1].depth <= queue[i].depth
        BY <1>2, <1>4, <4>1 DEF Wave
      <4> QED
        BY <1>3, <1>4, <2>1, <2>2, <4>2
    <3> QED
      BY <3>1, <3>2
  <2> QED
    BY <1>1, <1>2, <2>1, <2>2, <2>3, Advance
<1> QED
  BY <1>5, <1>6

\* When no frame is left, the search has been to every depth.
LEMMA LastWave ==
    ASSUME TypeOK, Spread, queue = << >>
    PROVE  Wave(maxDepth)
<1>1. ImpactShape /\ \E c \in 0 .. maxDepth : Wave(c)
  BY DEF Spread
<1>2. PICK c \in 0 .. maxDepth : Wave(c)
  BY <1>1
<1>3. maxDepth \in 0 .. 5 /\ maxDepth \in Nat /\ c \in Nat /\ DOMAIN queue = {}
  BY <1>1, SpreadTypes
<1> DEFINE S == {d \in 0 .. 5 : c <= d /\ d <= maxDepth => Wave(d)}
<1>4. 0 \in S
  BY <1>2, <1>3
<1>5. ASSUME NEW d \in 0 .. 4, d \in S PROVE d + 1 \in S
  <2>1. CASE c <= d /\ d + 1 <= maxDepth
    <3>1. Wave(d) /\ d \in Nat /\ d < maxDepth
      BY <1>3, <1>5, <2>1
    <3>2. Wave(d + 1)
      BY <1>1, <1>3, <3>1, Advance
    <3> QED
      BY <3>2
  <2>2. CASE c = d + 1
    BY <1>2, <2>2
  <2>3. c <= d + 1 => c <= d \/ c = d + 1
    BY <1>3
  <2> QED
    BY <2>1, <2>2, <2>3
<1>6. maxDepth \in S
  <2> HIDE DEF S
  <2> QED
    BY <1>3, <1>4, <1>5, UpToFive
<1> QED
  BY <1>3, <1>6

\* Steps that have nothing to do with the search for callers keep it.
LEMMA SpreadKept ==
    ASSUME Spread, BestReported, UNCHANGED <<request, weight, asked, impact, low, high>>,
           request = "impact" /\ status' = "answered" => status = "answered"
    PROVE  Spread' /\ BestReported'
<1>1. UNCHANGED <<request, weight, origin, maxDepth, queue, visited, affected, low, high>>
  BY DEF asked, impact
<1>2. ImpactShape'
  BY <1>1 DEF Spread, ImpactShape
<1>3. NothingInvented'
  BY <1>1 DEF Spread, NothingInvented, Attained
<1>4. VisitedListed'
  BY <1>1 DEF Spread, VisitedListed
<1>5. PICK c \in 0 .. maxDepth : Wave(c)
  BY DEF Spread
<1>6. Wave(c)'
  BY <1>1, <1>5 DEF Wave, Awaited
<1>7. Spread'
  BY <1>1, <1>2, <1>3, <1>4, <1>5, <1>6 DEF Spread
<1>8. \A n : Reported(n)' = Reported(n)
  BY <1>1 DEF Reported
<1>9. \A n : /\ BestWithin(low, n)' = BestWithin(low, n)
             /\ BestWithin(high, n)' = BestWithin(high, n)
  BY <1>1 DEF BestWithin
<1>10. BestReported'
  BY <1>1, <1>8, <1>9 DEF BestReported
<1> QED
  BY <1>7, <1>10

\* While a request runs, what it will report is not judged.
LEMMA NotYet ==
    ASSUME status' # "answered"
    PROVE  BestReported'
BY DEF BestReported

\* The tail of the frames.
LEMMA TailIs ==
    ASSUME TypeOK, ImpactShape, queue # << >>
    PROVE  /\ f = queue[1] /\ 1 \in DOMAIN queue
           /\ Tail(queue) \in Seq([node : Nodes, depth : 0 .. maxDepth, prob : Probability])
           /\ Len(Tail(queue)) = Len(queue) - 1
           /\ DOMAIN Tail(queue) = 1 .. Len(queue) - 1
           /\ \A i \in 1 .. Len(queue) - 1 : i + 1 \in DOMAIN queue /\ Tail(queue)[i] = queue[i + 1]
<1> DEFINE R == [node : Nodes, depth : 0 .. maxDepth, prob : Probability]
<1>1. queue \in Seq(R)
  BY DEF ImpactShape
<1> HIDE DEF R
<1>2. /\ f = queue[1] /\ 1 \in DOMAIN queue /\ Tail(queue) \in Seq(R)
      /\ Len(Tail(queue)) = Len(queue) - 1 /\ DOMAIN Tail(queue) = 1 .. Len(queue) - 1
      /\ \A i \in 1 .. Len(queue) - 1 : i + 1 \in DOMAIN queue /\ Tail(queue)[i] = queue[i + 1]
  BY <1>1 DEF f
<1> QED
  BY <1>2 DEF R

\* What is awaited stays so when only the first frame goes, and its node has
\* been visited.
LEMMA AwaitedKept ==
    ASSUME TypeOK, ImpactShape, queue # << >>,
           \A i \in 1 .. Len(queue) - 1 : i \in DOMAIN queue' /\ queue'[i] = queue[i + 1],
           \A n \in Nodes : visited'[n] \in Nat /\ visited'[n] >= visited[n],
           visited'[f.node] >= f.prob,
           NEW n \in Nodes, NEW p \in Nat, NEW D, Awaited(n, p, D)
    PROVE  visited'[n] >= p \/ \E i \in DOMAIN queue' :
                queue'[i].node = n /\ queue'[i].prob >= p /\ queue'[i].depth \in D
<1>1. visited[n] \in Nat /\ visited'[n] \in Nat /\ visited'[n] >= visited[n]
      /\ Len(queue) \in Nat /\ DOMAIN queue = 1 .. Len(queue) /\ f = queue[1]
      /\ \A i \in DOMAIN queue : queue[i].prob \in Nat
  BY SpreadTypes, TailIs
<1>2. CASE visited[n] >= p
  BY <1>1, <1>2
<1>3. ASSUME NEW i \in DOMAIN queue, i # 1,
             queue[i].node = n /\ queue[i].prob >= p /\ queue[i].depth \in D
      PROVE  \E j \in DOMAIN queue' :
                queue'[j].node = n /\ queue'[j].prob >= p /\ queue'[j].depth \in D
  <2>1. i - 1 \in 1 .. Len(queue) - 1 /\ (i - 1) + 1 = i
    BY <1>1, <1>3
  <2>2. i - 1 \in DOMAIN queue' /\ queue'[i - 1] = queue[i]
    BY <2>1
  <2> QED
    BY <1>3, <2>2
<1>4. ASSUME queue[1].node = n, queue[1].prob >= p, 1 \in DOMAIN queue PROVE visited'[n] >= p
  BY <1>1, <1>4
<1> QED
  BY <1>2, <1>3, <1>4 DEF Awaited

LEMMA SkipKeepsSpread ==
    ASSUME TypeOK, Spread, Skip
    PROVE  Spread'
<1>1. /\ queue # << >> /\ visited[f.node] >= f.prob /\ queue' = Tail(queue) /\ status' = "running"
      /\ UNCHANGED <<request, weight, origin, maxDepth, visited, affected, low, high>>
  BY DEF Skip, Asked, asked
<1>2. ImpactShape /\ NothingInvented /\ VisitedListed /\ Wave(f.depth)
  BY <1>1, HeadWave DEF Spread
<1>3. PICK c \in Nat : c = f.depth
  BY <1>1, <1>2, TailIs, SpreadTypes
<1> DEFINE R == [node : Nodes, depth : 0 .. maxDepth, prob : Probability]
           l == Len(queue) - 1
<1>4. /\ queue' \in Seq(R) /\ DOMAIN queue' = 1 .. l
      /\ \A i \in 1 .. l : i + 1 \in DOMAIN queue /\ queue'[i] = queue[i + 1]
      /\ f = queue[1] /\ 1 \in DOMAIN queue
  BY <1>1, <1>2, TailIs
<1>5. /\ \A n \in Nodes : visited'[n] \in Nat /\ visited'[n] >= visited[n]
      /\ Len(queue) \in Nat /\ l \in Nat /\ c \in Nat /\ c <= maxDepth /\ maxDepth \in Nat
      /\ low \in Graph /\ Cut \in Nat /\ origin \in Nodes /\ maxDepth \in 0 .. 5
  <2>1. /\ \A n \in Nodes : visited[n] \in Nat
        /\ Len(queue) \in Nat /\ DOMAIN queue = 1 .. Len(queue) /\ maxDepth \in Nat
        /\ low \in Graph /\ Cut \in Nat /\ origin \in Nodes /\ maxDepth \in 0 .. 5
        /\ c \in Nat /\ c <= maxDepth
    BY <1>2, <1>3, <1>4, SpreadTypes
  <2> QED
    BY <1>1, <1>4, <2>1
<1>6. ImpactShape'
  BY <1>1, <1>2, <1>4 DEF ImpactShape
<1> HIDE DEF R, l
<1>7. NothingInvented'
  BY <1>1, <1>2, <1>4 DEF NothingInvented, Attained
<1>8. VisitedListed'
  BY <1>1, <1>2 DEF VisitedListed
<1>9. ASSUME NEW n \in Nodes, NEW p \in Nat, NEW D, Awaited(n, p, D)
      PROVE  visited'[n] >= p \/ \E i \in DOMAIN queue' :
                queue'[i].node = n /\ queue'[i].prob >= p /\ queue'[i].depth \in D
  BY <1>1, <1>2, <1>4, <1>5, <1>9, AwaitedKept DEF l
<1>10. Wave(c)
  BY <1>2, <1>3
<1>11. Wave(c)'
  <2>1. /\ \A i \in DOMAIN queue' : queue'[i].depth \in {c, c + 1}
        /\ \A i, j \in DOMAIN queue' : i < j => queue'[i].depth <= queue'[j].depth
    <3>1. \A i, j \in 1 .. l : i < j => i + 1 < j + 1
      BY <1>5
    <3> QED
      BY <1>10, <1>4, <3>1 DEF Wave
  <2>2. ASSUME NEW q \in Paths(origin, low)[c], q.prob > Cut
        PROVE  Awaited(q.node, q.prob, {c})'
    <3>1. Awaited(q.node, q.prob, {c})
      BY <1>10, <2>2 DEF Wave
    <3>2. q.node \in Nodes /\ q.prob \in Nat
      <4>1. c \in 0 .. 5
        BY <1>5
      <4>2. Paths(origin, low)[c] \in SUBSET Pair
        BY <1>5, <4>1, PathsAre
      <4> QED
        BY <4>2, AnalyticsAssumption DEF Pair, Probability
    <3> QED
      BY <1>9, <3>1, <3>2 DEF Awaited
  <2>3. ASSUME c < maxDepth, NEW m \in Nodes, NEW n \in Nodes,
               (visited[n] * low[<<m, n>>]) \div 20 > Cut
        PROVE  Awaited(m, (visited[n] * low[<<m, n>>]) \div 20, {c, c + 1})'
    <3>1. Awaited(m, (visited[n] * low[<<m, n>>]) \div 20, {c, c + 1})
      BY <1>10, <2>3 DEF Wave
    <3>2. PICK a \in 0 .. 20 : a = low[<<m, n>>]
      BY <1>5 DEF Graph
    <3>3. PICK v \in Nat : v = visited[n]
      BY <1>1, <1>5
    <3>4. PICK p \in Nat : p = (v * a) \div 20
      BY Product
    <3>5. p = (visited[n] * low[<<m, n>>]) \div 20
      BY <3>2, <3>3, <3>4
    <3>6. (visited'[n] * low'[<<m, n>>]) \div 20 = p
      BY <1>1, <3>5
    <3>7. Awaited(m, p, {c, c + 1})'
      BY <1>9, <3>1, <3>5 DEF Awaited
    <3> QED
      BY <3>6, <3>7
  <2> QED
    BY <1>1, <2>1, <2>2, <2>3 DEF Wave
<1>12. c \in 0 .. maxDepth'
  BY <1>1, <1>5
<1> QED
  BY <1>6, <1>7, <1>8, <1>11, <1>12 DEF Spread

\* An order of a finite set has all of it.
LEMMA OrderHasAll ==
    ASSUME NEW S, IsFiniteSet(S), NEW order \in SetToSeqs(S)
    PROVE  /\ order \in Seq(S)
           /\ \A x \in S : \E i \in DOMAIN order : order[i] = x
<1> DEFINE n == Cardinality(S)
           D == 1 .. n
<1>1. n \in Nat /\ IsFiniteSet(D) /\ Cardinality(D) = n
  BY FS_CardinalityType, FS_Interval
<1>2. order \in [D -> S] /\ \A i, j \in D : i # j => order[i] # order[j]
  BY DEF SetToSeqs
<1> HIDE DEF n
<1>3. order \in Seq(S) /\ DOMAIN order = D
  BY <1>1, <1>2
<1>4. order \in Injection(D, S)
  BY <1>2 DEF Injection, IsInjective
<1> HIDE DEF D
<1>5. order \in Surjection(D, S)
  BY <1>1, <1>4, FS_Injection DEF n
<1> QED
  BY <1>3, <1>5 DEF Surjection

Onward(m) == (f.prob * weight[<<m, f.node>>]) \div 20

\* The callers that the search goes on to: those that are likely enough, each
\* once, at the next depth.
LEMMA CallersAre ==
    ASSUME TypeOK, ImpactShape, queue # << >>, NEW callers \in Callers
    PROVE  /\ \E n \in Nat : callers \in
                 [1 .. n -> [node : Nodes, depth : {f.depth + 1}, prob : Probability]]
           /\ \A k \in DOMAIN callers : 
                 /\ callers[k].node \in Nodes /\ callers[k].depth = f.depth + 1
                 /\ callers[k].prob = Onward(callers[k].node) /\ callers[k].prob > Cut
           /\ \A m \in Nodes : Onward(m) > Cut => \E k \in DOMAIN callers : callers[k].node = m
<1> DEFINE onwards(e) == (f.prob * weight[e]) \div 20
           kept == {e \in Edges : e[2] = f.node /\ onwards(e) > Cut}
           frame(e) == [node |-> e[1], depth |-> f.depth + 1, prob |-> onwards(e)]
           R == [node : Nodes, depth : {f.depth + 1}, prob : Probability]
<1>1. PICK order \in SetToSeqs(kept) : callers = [i \in DOMAIN order |-> frame(order[i])]
  BY DEF Callers, Cut
<1>2. /\ f.node \in Nodes /\ f.prob \in Nat /\ f.prob <= One /\ One \in Nat /\ Cut \in Nat
      /\ weight \in Graph /\ 1 \in DOMAIN queue
  BY TailIs, SpreadTypes
<1>3. \A e \in Nodes \X Nodes : onwards(e) \in Nat /\ onwards(e) <= f.prob
                                /\ (onwards(e) > Cut => weight[e] # 0)
  <2> TAKE e \in Nodes \X Nodes
  <2>1. PICK w \in 0 .. 20 : w = weight[e]
    BY <1>2 DEF Graph
  <2>2. PICK p \in Nat : p = f.prob
    BY <1>2
  <2>3. (p * w) \div 20 \in Nat /\ (p * w) \div 20 <= p
    BY Product
  <2>4. w = 0 => (p * w) \div 20 = 0
    <3>1. p * 0 = 0
      OBVIOUS
    <3> QED
      BY <3>1
  <2> QED
    BY <1>2, <2>1, <2>2, <2>3, <2>4
<1>4. \A e \in kept : /\ e \in Nodes \X Nodes /\ e = <<e[1], f.node>> /\ e[1] \in Nodes
                      /\ onwards(e) > Cut
  BY DEF Edges
<1>5. \A e \in Nodes \X Nodes : e[2] = f.node /\ onwards(e) > Cut => e \in kept
  BY <1>3 DEF Edges, NoEdge
<1> HIDE DEF kept
<1>6. IsFiniteSet(kept)
  <2>1. IsFiniteSet(Nodes \X Nodes)
    BY NodesFinite, FS_Product
  <2> QED
    BY <1>4, <2>1, FS_Subset
<1>7. order \in Seq(kept) /\ \A x \in kept : \E i \in DOMAIN order : order[i] = x
  BY <1>1, <1>6, OrderHasAll
<1>8. ASSUME NEW e \in kept
      PROVE  /\ frame(e) \in R /\ frame(e).node = e[1] /\ frame(e).depth = f.depth + 1
             /\ frame(e).prob = Onward(e[1])
  <2>1. frame(e).node = e[1] /\ frame(e).depth = f.depth + 1 /\ frame(e).prob = onwards(e)
    OBVIOUS
  <2>2. e \in Nodes \X Nodes /\ e[1] \in Nodes /\ e = <<e[1], f.node>>
    BY <1>4
  <2>3. onwards(e) \in Probability /\ onwards(e) = Onward(e[1])
    BY <1>2, <1>3, <2>2 DEF Probability, Onward
  <2> HIDE DEF onwards
  <2> QED
    BY <2>1, <2>2, <2>3
<1> HIDE DEF frame
<1>9. Len(order) \in Nat /\ DOMAIN order = 1 .. Len(order)
      /\ \A i \in DOMAIN order : order[i] \in kept
  BY <1>7
<1>10. callers \in [1 .. Len(order) -> R] /\ DOMAIN callers = DOMAIN order
  BY <1>1, <1>8, <1>9
<1>11. ASSUME NEW k \in DOMAIN callers
       PROVE  /\ callers[k].node \in Nodes /\ callers[k].depth = f.depth + 1
              /\ callers[k].prob = Onward(callers[k].node) /\ callers[k].prob > Cut
  <2>1. callers[k] = frame(order[k]) /\ order[k] \in kept
    BY <1>1, <1>9, <1>10
  <2>2. onwards(order[k]) > Cut /\ order[k][1] \in Nodes /\ order[k] = <<order[k][1], f.node>>
    BY <1>4, <2>1
  <2>3. Onward(order[k][1]) = onwards(order[k])
    BY <2>2 DEF Onward
  <2> HIDE DEF onwards
  <2> QED
    BY <1>8, <2>1, <2>2, <2>3
<1>12. ASSUME NEW m \in Nodes, Onward(m) > Cut
       PROVE  \E k \in DOMAIN callers : callers[k].node = m
  <2>1. /\ <<m, f.node>> \in Nodes \X Nodes /\ <<m, f.node>>[2] = f.node /\ <<m, f.node>>[1] = m
        /\ onwards(<<m, f.node>>) > Cut
    BY <1>2, <1>12 DEF Onward
  <2> HIDE DEF onwards
  <2>2. <<m, f.node>> \in kept
    BY <1>5, <2>1
  <2>3. PICK k \in DOMAIN order : order[k] = <<m, f.node>>
    BY <1>7, <2>2
  <2>4. callers[k] = frame(<<m, f.node>>)
    BY <1>1, <2>3
  <2> QED
    BY <1>8, <1>10, <2>1, <2>2, <2>4
<1> QED
  BY <1>9, <1>10, <1>11, <1>12

LEMMA Joined ==
    ASSUME NEW R, NEW s \in Seq(R), NEW t \in Seq(R)
    PROVE  /\ s \o t \in Seq(R)
           /\ Len(s) \in Nat /\ Len(t) \in Nat /\ DOMAIN t = 1 .. Len(t)
           /\ DOMAIN (s \o t) = 1 .. Len(s) + Len(t)
           /\ \A i \in 1 .. Len(s) + Len(t) :
                 (s \o t)[i] = IF i <= Len(s) THEN s[i] ELSE t[i - Len(s)]
OBVIOUS

\* The frames after f's callers have been put behind the others.
LEMMA ExpandQueue ==
    ASSUME TypeOK, ImpactShape, queue # << >>, NEW callers \in Callers,
           queue' = Tail(queue) \o (IF f.depth >= maxDepth THEN << >> ELSE callers)
    PROVE  /\ queue' \in Seq([node : Nodes, depth : 0 .. maxDepth, prob : Probability])
           /\ \A i \in 1 .. Len(queue) - 1 :
                 i \in DOMAIN queue' /\ i + 1 \in DOMAIN queue /\ queue'[i] = queue[i + 1]
           /\ \A i \in DOMAIN queue' : i \in Nat /\ i >= 1
           /\ \A i \in DOMAIN queue' : i \notin 1 .. Len(queue) - 1 =>
                 /\ f.depth < maxDepth /\ i > Len(queue) - 1
                 /\ queue'[i].node \in Nodes /\ queue'[i].depth = f.depth + 1
                 /\ queue'[i].prob = Onward(queue'[i].node) /\ queue'[i].prob > Cut
           /\ \A m \in Nodes : f.depth < maxDepth /\ Onward(m) > Cut =>
                 \E i \in DOMAIN queue' :
                    /\ queue'[i].node = m /\ queue'[i].depth = f.depth + 1
                    /\ queue'[i].prob = Onward(m)
<1> DEFINE R == [node : Nodes, depth : 0 .. maxDepth, prob : Probability]
           added == IF f.depth >= maxDepth THEN << >> ELSE callers
           tail == Tail(queue)
           l == Len(queue) - 1
<1>1. /\ tail \in Seq(R) /\ Len(tail) = l /\ DOMAIN tail = 1 .. l
      /\ \A i \in 1 .. l : i + 1 \in DOMAIN queue /\ tail[i] = queue[i + 1]
      /\ f = queue[1] /\ 1 \in DOMAIN queue
  BY TailIs
<1>2. l \in Nat /\ f.depth \in Nat /\ maxDepth \in Nat
  <2>1. Len(tail) \in Nat
    BY <1>1
  <2> QED
    BY <1>1, <2>1, SpreadTypes
<1>3. PICK n \in Nat :
         callers \in [1 .. n -> [node : Nodes, depth : {f.depth + 1}, prob : Probability]]
  BY CallersAre
<1>4. /\ \A k \in DOMAIN callers : 
            /\ callers[k].node \in Nodes /\ callers[k].depth = f.depth + 1
            /\ callers[k].prob = Onward(callers[k].node) /\ callers[k].prob > Cut
      /\ \A m \in Nodes : Onward(m) > Cut => \E k \in DOMAIN callers : callers[k].node = m
  BY CallersAre
<1>5. added \in Seq(R)
  <2>1. CASE f.depth >= maxDepth
    BY <2>1
  <2>2. CASE ~(f.depth >= maxDepth)
    <3>1. f.depth + 1 \in 0 .. maxDepth
      BY <1>2, <2>2
    <3>2. \A r \in [node : Nodes, depth : {f.depth + 1}, prob : Probability] : r \in R
      BY <3>1
    <3>3. callers \in [1 .. n -> R]
      BY <1>3, <3>2
    <3> HIDE DEF R
    <3>4. callers \in Seq(R)
      BY <3>3
    <3> QED
      BY <2>2, <3>4
  <2> QED
    BY <2>1, <2>2
<1>6. \A k \in DOMAIN added : k \in DOMAIN callers /\ added[k] = callers[k] /\ f.depth < maxDepth
  BY <1>2
<1>7. f.depth < maxDepth => DOMAIN callers = DOMAIN added
  BY <1>2
<1>8. queue' = tail \o added
  OBVIOUS
<1> HIDE DEF R, added, tail, l
<1>9. /\ queue' \in Seq(R) /\ DOMAIN queue' = 1 .. l + Len(added)
      /\ Len(added) \in Nat /\ DOMAIN added = 1 .. Len(added)
      /\ \A i \in 1 .. l : queue'[i] = tail[i]
      /\ \A i \in l + 1 .. l + Len(added) : queue'[i] = added[i - l]
  <2>1. Len(tail) = l /\ l \in Nat /\ tail \in Seq(R) /\ added \in Seq(R)
    BY <1>1, <1>2, <1>5
  <2>2. queue' \in Seq(R) /\ DOMAIN queue' = 1 .. l + Len(added) /\ Len(added) \in Nat
        /\ DOMAIN added = 1 .. Len(added)
    <3>1. /\ tail \o added \in Seq(R) /\ Len(added) \in Nat /\ DOMAIN added = 1 .. Len(added)
          /\ DOMAIN (tail \o added) = 1 .. Len(tail) + Len(added)
      BY <2>1, Joined
    <3>2. DOMAIN (tail \o added) = 1 .. l + Len(added)
      BY <2>1, <3>1
    <3> QED
      BY <1>8, <3>1, <3>2
  <2>3. \A i \in 1 .. l + Len(added) :
           queue'[i] = IF i <= l THEN tail[i] ELSE added[i - l]
    <3>1. \A i \in 1 .. Len(tail) + Len(added) :
             (tail \o added)[i] = IF i <= Len(tail) THEN tail[i] ELSE added[i - Len(tail)]
      BY <2>1, Joined
    <3> QED
      BY <1>8, <2>1, <3>1
  <2>4. \A i \in 1 .. l : i \in 1 .. l + Len(added) /\ i <= l
    BY <2>1, <2>2
  <2>5. \A i \in l + 1 .. l + Len(added) : i \in 1 .. l + Len(added) /\ ~(i <= l)
    BY <2>1, <2>2
  <2> QED
    BY <2>2, <2>3, <2>4, <2>5
<1>10. \A i \in 1 .. l : i \in DOMAIN queue' /\ i + 1 \in DOMAIN queue /\ queue'[i] = queue[i + 1]
  BY <1>1, <1>2, <1>9
<1>11. ASSUME NEW i \in DOMAIN queue', i \notin 1 .. l
       PROVE  /\ f.depth < maxDepth /\ i > l
              /\ queue'[i].node \in Nodes /\ queue'[i].depth = f.depth + 1
              /\ queue'[i].prob = Onward(queue'[i].node) /\ queue'[i].prob > Cut
  <2>1. i > l /\ i \in l + 1 .. l + Len(added) /\ i - l \in DOMAIN added
    BY <1>2, <1>9, <1>11
  <2>2. queue'[i] = callers[i - l] /\ i - l \in DOMAIN callers /\ f.depth < maxDepth
    BY <1>6, <1>9, <2>1
  <2> QED
    BY <1>4, <2>1, <2>2
<1>12. ASSUME NEW m \in Nodes, f.depth < maxDepth, Onward(m) > Cut
       PROVE  \E i \in DOMAIN queue' :
                 /\ queue'[i].node = m /\ queue'[i].depth = f.depth + 1
                 /\ queue'[i].prob = Onward(m)
  <2>1. PICK k \in DOMAIN callers : callers[k].node = m
    BY <1>4, <1>12
  <2>2. k \in DOMAIN added /\ added[k] = callers[k]
    BY <1>6, <1>7, <1>12, <2>1
  <2>3. l + k \in DOMAIN queue' /\ l + k \in l + 1 .. l + Len(added) /\ (l + k) - l = k
    BY <1>2, <1>9, <2>2
  <2>4. queue'[l + k] = callers[k]
    BY <1>9, <2>2, <2>3
  <2> QED
    BY <1>4, <2>1, <2>3, <2>4
<1>13. \A i \in DOMAIN queue' : i \in Nat /\ i >= 1
  BY <1>9
<1> QED
  BY <1>9, <1>10, <1>11, <1>12, <1>13 DEF R, l

\* How likely f's callers are made: no likelier than a path to them, and no
\* less likely than the least weights give.
LEMMA OnwardIs ==
    ASSUME TypeOK, ImpactShape, queue # << >>, NEW m \in Nodes
    PROVE  /\ Onward(m) \in Nat
           /\ (f.prob * low[<<m, f.node>>]) \div 20 \in Nat
           /\ (f.prob * low[<<m, f.node>>]) \div 20 <= Onward(m)
           /\ Attained(f.node, f.depth, f.prob) /\ f.depth < maxDepth =>
                 Attained(m, f.depth + 1, Onward(m))
<1> DEFINE e == <<m, f.node>>
<1>1. /\ f.node \in Nodes /\ f.prob \in Nat /\ f.depth \in Nat
      /\ origin \in Nodes /\ maxDepth \in 0 .. 5
      /\ low \in Graph /\ weight \in Graph /\ high \in Graph
  BY TailIs, SpreadTypes
<1>2. e \in Nodes \X Nodes
  BY <1>1
<1>3. PICK a \in 0 .. 20, w \in 0 .. 20, b \in 0 .. 20 :
         a = low[e] /\ w = weight[e] /\ b = high[e] /\ a <= w /\ w <= b
  <2>1. low[e] \in 0 .. 20 /\ weight[e] \in 0 .. 20 /\ high[e] \in 0 .. 20
    BY <1>1, <1>2 DEF Graph
  <2>2. low[e] <= weight[e] /\ weight[e] <= high[e]
    BY <1>2 DEF ImpactShape
  <2> QED
    BY <2>1, <2>2
<1>4. PICK p \in Nat : p = f.prob /\ p <= p
  BY <1>1
<1>5. (p * a) \div 20 \in Nat /\ (p * w) \div 20 \in Nat /\ (p * a) \div 20 <= (p * w) \div 20
  BY <1>3, <1>4, Product
<1>6. Onward(m) = (p * w) \div 20 /\ (f.prob * low[e]) \div 20 = (p * a) \div 20
  BY <1>3, <1>4 DEF Onward
<1>7. ASSUME Attained(f.node, f.depth, f.prob), f.depth < maxDepth
      PROVE  Attained(m, f.depth + 1, Onward(m))
  <2>1. f.depth \in 0 .. 4 /\ f.depth \in 0 .. 5
    BY <1>1, <1>7
  <2>2. PICK q \in Paths(origin, high)[f.depth] : q.node = f.node /\ q.prob >= p
    BY <1>4, <1>7 DEF Attained
  <2>3. q \in Pair /\ q.prob \in Nat /\ p <= q.prob
        /\ Paths(origin, high)[f.depth] \in SUBSET Pair
    <3>1. Paths(origin, high)[f.depth] \in SUBSET Pair
      BY <1>1, <2>1, PathsAre
    <3>2. q \in Pair /\ q.prob \in Nat
      BY <3>1, AnalyticsAssumption DEF Pair, Probability
    <3> QED
      BY <1>4, <2>2, <3>1, <3>2
  <2>4. PICK r \in Onwards(q, high) : r.node = m /\ r.prob = (q.prob * b) \div 20
    <3>1. PICK r \in Onwards(q, high) :
             r.node = m /\ r.prob = (q.prob * high[<<m, q.node>>]) \div 20
      BY <1>1, <2>3, InOnwards
    <3>2. high[<<m, q.node>>] = b
      BY <1>3, <2>2
    <3> QED
      BY <3>1, <3>2
  <2>5. PICK s \in Nat : s = q.prob /\ p <= s
    BY <2>3
  <2>6. (p * w) \div 20 <= (s * b) \div 20 /\ (s * b) \div 20 \in Nat
    <3>1. p <= s /\ s <= s /\ w <= b /\ b <= b
      BY <1>3, <2>5
    <3>2. (p * w) \div 20 <= (s * b) \div 20
      BY <3>1, Product
    <3>3. (s * b) \div 20 \in Nat
      BY <3>1, Product
    <3> QED
      BY <3>2, <3>3
  <2>7. r.prob >= Onward(m)
    BY <1>5, <1>6, <2>4, <2>5, <2>6
  <2>8. r \in Paths(origin, high)[f.depth + 1]
    <3>1. Paths(origin, high)[f.depth + 1] = Longer(Paths(origin, high)[f.depth], high)
      BY <1>1, <2>1, PathsAre
    <3> HIDE DEF f
    <3> QED
      BY <1>1, <2>2, <2>3, <2>4, <3>1, InLonger
  <2> QED
    BY <2>4, <2>7, <2>8 DEF Attained
<1> QED
  BY <1>5, <1>6, <1>7

LEMMA ExpandKeepsSpread ==
    ASSUME TypeOK, Spread, Expand
    PROVE  Spread'
<1>1. /\ queue # << >> /\ visited[f.node] < f.prob /\ status' = "running"
      /\ visited' = [visited EXCEPT ![f.node] = f.prob]
      /\ affected' = IF f.node = origin THEN affected
                     ELSE Append(affected, [node |-> f.node, prob |-> f.prob])
      /\ UNCHANGED <<request, weight, origin, maxDepth, low, high>>
  BY DEF Expand, Visit, Asked, asked
<1>2. PICK callers \in Callers :
         queue' = Tail(queue) \o (IF f.depth >= maxDepth THEN << >> ELSE callers)
  BY DEF Expand, Visit
<1>3. ImpactShape /\ NothingInvented /\ VisitedListed /\ Wave(f.depth)
  BY <1>1, HeadWave DEF Spread
<1>4. /\ f = queue[1] /\ 1 \in DOMAIN queue /\ f.node \in Nodes
      /\ f.depth \in Nat /\ f.depth <= maxDepth /\ f.prob \in Nat /\ f.prob <= One /\ f.prob > Cut
      /\ maxDepth \in 0 .. 5 /\ maxDepth \in Nat /\ origin \in Nodes /\ One \in Nat /\ Cut \in Nat
      /\ low \in Graph /\ high \in Graph
      /\ visited \in [Nodes -> Probability]
      /\ \A n \in Nodes : visited[n] \in Nat
      /\ Len(queue) \in Nat /\ DOMAIN queue = 1 .. Len(queue)
      /\ Attained(f.node, f.depth, f.prob)
  BY <1>1, <1>3, TailIs, SpreadTypes DEF NothingInvented, TypeOK
<1>5. PICK c \in Nat, v \in Nodes, p \in Nat : c = f.depth /\ v = f.node /\ p = f.prob
  BY <1>4
<1> DEFINE R == [node : Nodes, depth : 0 .. maxDepth, prob : Probability]
           l == Len(queue) - 1
<1>6. /\ queue' \in Seq(R)
      /\ \A i \in 1 .. l : i \in DOMAIN queue' /\ i + 1 \in DOMAIN queue /\ queue'[i] = queue[i + 1]
      /\ \A i \in DOMAIN queue' : i \in Nat /\ i >= 1
      /\ \A i \in DOMAIN queue' : i \notin 1 .. l =>
            /\ c < maxDepth /\ i > l
            /\ queue'[i].node \in Nodes /\ queue'[i].depth = c + 1
            /\ queue'[i].prob = Onward(queue'[i].node) /\ queue'[i].prob > Cut
      /\ \A m \in Nodes : c < maxDepth /\ Onward(m) > Cut =>
            \E i \in DOMAIN queue' :
               queue'[i].node = m /\ queue'[i].depth = c + 1 /\ queue'[i].prob = Onward(m)
  BY <1>1, <1>2, <1>3, <1>5, ExpandQueue
<1>7. /\ \A n \in Nodes : visited'[n] = IF n = v THEN p ELSE visited[n]
      /\ \A n \in Nodes : visited'[n] \in Nat /\ visited'[n] >= visited[n]
  BY <1>1, <1>4, <1>5
<1>8. l \in Nat
  BY <1>4
<1> HIDE DEF R, l
<1>9. affected \in Seq([node : Nodes \ {origin}, prob : Probability])
  BY <1>3 DEF ImpactShape
<1>10. /\ affected' \in Seq([node : Nodes \ {origin}, prob : Probability])
       /\ \A i \in DOMAIN affected : i \in DOMAIN affected' /\ affected'[i] = affected[i]
       /\ \A i \in DOMAIN affected' : \/ i \in DOMAIN affected /\ affected'[i] = affected[i]
                                      \/ affected'[i].node = v /\ affected'[i].prob = p
       /\ v # origin => \E i \in DOMAIN affected' : affected'[i].node = v /\ affected'[i].prob = p
  <2> DEFINE A == [node : Nodes \ {origin}, prob : Probability]
             x == [node |-> v, prob |-> p]
  <2>1. CASE v = origin
    BY <1>1, <1>5, <1>9, <2>1
  <2>2. CASE v # origin
    <3>1. x \in A /\ x.node = v /\ x.prob = p
      BY <1>4, <1>5, <2>2 DEF Probability
    <3>2. affected' = Append(affected, x)
      BY <1>1, <1>5, <2>2
    <3> HIDE DEF A, x
    <3>3. affected \in Seq(A)
      BY <1>9 DEF A
    <3>4. Len(affected) \in Nat /\ DOMAIN affected = 1 .. Len(affected)
      BY <3>3
    <3>5. /\ Append(affected, x) \in Seq(A)
          /\ DOMAIN Append(affected, x) = 1 .. Len(affected) + 1
          /\ \A i \in 1 .. Len(affected) : Append(affected, x)[i] = affected[i]
          /\ Append(affected, x)[Len(affected) + 1] = x
      BY <3>1, <3>3
    <3>6. \A i \in 1 .. Len(affected) + 1 : i \in 1 .. Len(affected) \/ i = Len(affected) + 1
      BY <3>4
    <3>7. \A i \in 1 .. Len(affected) : i \in 1 .. Len(affected) + 1
      BY <3>4
    <3>8. Len(affected) + 1 \in 1 .. Len(affected) + 1
      BY <3>4
    <3> QED
      BY <3>1, <3>2, <3>4, <3>5, <3>6, <3>7, <3>8 DEF A
  <2> QED
    BY <2>1, <2>2
<1>11. ImpactShape'
  BY <1>1, <1>3, <1>6, <1>10 DEF ImpactShape, R
<1>12. NothingInvented'
  <2>1. ASSUME NEW i \in DOMAIN queue'
        PROVE  Attained(queue'[i].node, queue'[i].depth, queue'[i].prob) /\ queue'[i].prob > Cut
    <3>1. CASE i \in 1 .. l
      BY <1>3, <1>6, <3>1 DEF NothingInvented
    <3>2. CASE i \notin 1 .. l
      BY <1>1, <1>3, <1>4, <1>5, <1>6, <3>2, OnwardIs
    <3> QED
      BY <3>1, <3>2
  <2>2. Attained(v, maxDepth, p) /\ p > Cut
    <3>1. c \in 0 .. 5 /\ c <= maxDepth
      BY <1>4, <1>5
    <3>2. Paths(origin, high)[c] \subseteq Paths(origin, high)[maxDepth]
      BY <1>4, <3>1, PathsGrow
    <3>3. Attained(v, c, p)
      BY <1>4, <1>5
    <3> QED
      BY <1>4, <1>5, <3>2, <3>3 DEF Attained
  <2>3. ASSUME NEW i \in DOMAIN affected'
        PROVE  Attained(affected'[i].node, maxDepth, affected'[i].prob) /\ affected'[i].prob > Cut
    BY <1>3, <1>10, <2>2 DEF NothingInvented
  <2> QED
    BY <1>1, <2>1, <2>3 DEF NothingInvented, Attained
<1>13. VisitedListed'
  BY <1>1, <1>3, <1>7, <1>10 DEF VisitedListed
<1>14. ASSUME NEW n \in Nodes, NEW s \in Nat, NEW D, Awaited(n, s, D)
       PROVE  visited'[n] >= s \/ \E i \in DOMAIN queue' :
                 queue'[i].node = n /\ queue'[i].prob >= s /\ queue'[i].depth \in D
  <2>1. visited'[f.node] >= f.prob
    BY <1>4, <1>5, <1>7
  <2>2. \A i \in 1 .. Len(queue) - 1 : i \in DOMAIN queue' /\ queue'[i] = queue[i + 1]
    BY <1>6 DEF l
  <2> QED
    BY <1>1, <1>3, <1>7, <1>14, <2>1, <2>2, AwaitedKept
<1>15. Wave(c)
  BY <1>3, <1>5
<1>16. Wave(c)'
  <2>1. \A i \in DOMAIN queue' : queue'[i].depth \in {c, c + 1}
    BY <1>6, <1>15 DEF Wave
  <2>2. \A i, j \in DOMAIN queue' : i < j => queue'[i].depth <= queue'[j].depth
    <3> SUFFICES ASSUME NEW i \in DOMAIN queue', NEW j \in DOMAIN queue', i < j
                 PROVE  queue'[i].depth <= queue'[j].depth
      OBVIOUS
    <3>1. i \in Nat /\ j \in Nat /\ i >= 1 /\ j >= 1
      BY <1>6
    <3>2. CASE j \in 1 .. l
      <4>1. i \in 1 .. l /\ i + 1 < j + 1
        BY <1>8, <3>1, <3>2
      <4> QED
        BY <1>6, <1>15, <3>2, <4>1 DEF Wave
    <3>3. CASE j \notin 1 .. l
      <4>1. queue'[j].depth = c + 1
        BY <1>6, <3>3
      <4> QED
        BY <1>5, <2>1, <4>1
    <3> QED
      BY <3>2, <3>3
  <2>3. ASSUME NEW q \in Paths(origin, low)[c], q.prob > Cut
        PROVE  Awaited(q.node, q.prob, {c})'
    <3>1. Awaited(q.node, q.prob, {c})
      BY <1>15, <2>3 DEF Wave
    <3>2. q.node \in Nodes /\ q.prob \in Nat
      <4>1. c \in 0 .. 5
        BY <1>4, <1>5
      <4>2. Paths(origin, low)[c] \in SUBSET Pair
        BY <1>4, <4>1, PathsAre
      <4> QED
        BY <4>2, AnalyticsAssumption DEF Pair, Probability
    <3> QED
      BY <1>14, <3>1, <3>2 DEF Awaited
  <2>4. ASSUME c < maxDepth, NEW m \in Nodes, NEW n \in Nodes, NEW s \in Nat,
               s = (visited'[n] * low[<<m, n>>]) \div 20, s > Cut
        PROVE  Awaited(m, s, {c, c + 1})'
    <3>1. CASE n # v
      <4>1. s = (visited[n] * low[<<m, n>>]) \div 20
        BY <1>7, <2>4, <3>1
      <4>2. Awaited(m, s, {c, c + 1})
        BY <1>15, <2>4, <4>1 DEF Wave
      <4> QED
        BY <1>14, <4>2 DEF Awaited
    <3>2. CASE n = v
      <4>1. s = (f.prob * low[<<m, f.node>>]) \div 20
        BY <1>5, <1>7, <2>4, <3>2
      <4>2. Onward(m) \in Nat /\ s <= Onward(m)
        BY <1>1, <1>3, <4>1, OnwardIs
      <4>3. Onward(m) > Cut
        BY <1>4, <2>4, <4>2
      <4>4. PICK i \in DOMAIN queue' :
               queue'[i].node = m /\ queue'[i].depth = c + 1 /\ queue'[i].prob = Onward(m)
        BY <1>6, <2>4, <4>3
      <4> QED
        BY <4>2, <4>4 DEF Awaited
    <3> QED
      BY <3>1, <3>2
  <2>5. ASSUME c < maxDepth, NEW m \in Nodes, NEW n \in Nodes,
               (visited'[n] * low[<<m, n>>]) \div 20 > Cut
        PROVE  Awaited(m, (visited[n] * low[<<m, n>>]) \div 20, {c, c + 1})'
    <3>1. PICK a \in 0 .. 20 : a = low[<<m, n>>]
      BY <1>4 DEF Graph
    <3>2. PICK x \in Nat : x = visited'[n]
      BY <1>7
    <3>3. (x * a) \div 20 \in Nat
      BY Product
    <3>4. PICK s \in Nat : s = (visited'[n] * low[<<m, n>>]) \div 20
      BY <3>1, <3>2, <3>3
    <3>5. Awaited(m, s, {c, c + 1})'
      BY <2>4, <2>5, <3>4
    <3>6. (visited'[n] * low'[<<m, n>>]) \div 20 = s
      BY <1>1, <3>4
    <3> QED
      BY <3>5, <3>6
  <2> QED
    BY <1>1, <2>1, <2>2, <2>3, <2>5 DEF Wave
<1>17. c \in 0 .. maxDepth'
  BY <1>1, <1>4, <1>5
<1> QED
  BY <1>11, <1>12, <1>13, <1>16, <1>17 DEF Spread

\* When the graph changes, the least weights only fall and the greatest only
\* rise, and the new weights lie between them.
LEMMA MoveIs ==
    ASSUME TypeOK, ImpactShape, NEW e \in Nodes \X Nodes, Move(e)
    PROVE  /\ weight' \in Graph /\ low' \in Graph /\ high' \in Graph
           /\ weight' \in [Nodes \X Nodes -> Weights \cup {NoEdge}]
           /\ \A x \in Nodes \X Nodes : /\ low'[x] <= weight'[x] /\ weight'[x] <= high'[x]
                                        /\ low'[x] <= low[x] /\ high[x] <= high'[x]
<1>1. PICK w \in Weights \cup {NoEdge} :
         /\ weight' = [weight EXCEPT ![e] = w]
         /\ low' = [low EXCEPT ![e] = Min({@, w})]
         /\ high' = [high EXCEPT ![e] = Max({@, w})]
  BY DEF Move
<1>2. low \in Graph /\ high \in Graph /\ weight \in Graph
      /\ weight \in [Nodes \X Nodes -> Weights \cup {NoEdge}]
  BY SpreadTypes DEF TypeOK
<1>3. w \in 0 .. 20
  BY AnalyticsAssumption DEF NoEdge
<1> DEFINE least == Min({low[e], w})
           most == Max({high[e], w})
<1>4. low' = [low EXCEPT ![e] = least] /\ high' = [high EXCEPT ![e] = most]
  BY <1>1
<1>5. \A x \in Nodes \X Nodes :
         low[x] \in 0 .. 20 /\ weight[x] \in 0 .. 20 /\ high[x] \in 0 .. 20
  BY <1>2 DEF Graph
<1>6. least \in 0 .. 20 /\ least <= low[e] /\ least <= w
  <2>1. low[e] \in Nat /\ w \in Nat
    BY <1>3, <1>5
  <2>2. least \in Nat /\ least <= low[e] /\ least <= w
    BY <2>1, MinOfTwo
  <2> HIDE DEF least
  <2> QED
    BY <1>3, <2>1, <2>2
<1>7. most \in 0 .. 20 /\ high[e] <= most /\ w <= most
  <2>1. {high[e], w} \in SUBSET Nat /\ {high[e], w} # {} /\ 20 \in Nat
        /\ \A y \in {high[e], w} : y <= 20 /\ y \in 0 .. 20
    BY <1>3, <1>5
  <2>2. most \in {high[e], w} /\ \A y \in {high[e], w} : most >= y
    BY <2>1, MaxOf
  <2> HIDE DEF most
  <2> QED
    BY <1>3, <1>5, <2>1, <2>2
<1> HIDE DEF least, most
<1>8. weight' \in Graph /\ low' \in Graph /\ high' \in Graph
      /\ weight' \in [Nodes \X Nodes -> Weights \cup {NoEdge}]
  BY <1>1, <1>2, <1>3, <1>4, <1>6, <1>7 DEF Graph
<1>9. ASSUME NEW x \in Nodes \X Nodes
      PROVE  /\ low'[x] <= weight'[x] /\ weight'[x] <= high'[x]
             /\ low'[x] <= low[x] /\ high[x] <= high'[x]
  <2>1. low[x] <= weight[x] /\ weight[x] <= high[x]
    BY DEF ImpactShape
  <2>2. CASE x = e
    <3>1. low'[x] = least /\ weight'[x] = w /\ high'[x] = most
      BY <1>1, <1>2, <1>4, <2>2 DEF Graph
    <3> QED
      BY <1>6, <1>7, <2>2, <3>1
  <2>3. CASE x # e
    <3>1. low'[x] = low[x] /\ weight'[x] = weight[x] /\ high'[x] = high[x]
      BY <1>1, <1>2, <1>4, <2>3 DEF Graph
    <3> QED
      BY <1>5, <2>1, <3>1
  <2> QED
    BY <2>2, <2>3
<1> QED
  BY <1>8, <1>9

LEMMA MoveKeepsSpread ==
    ASSUME TypeOK, Spread, NEW e \in Nodes \X Nodes, Move(e)
    PROVE  Spread'
<1>1. /\ status' = "running"
      /\ UNCHANGED <<request, origin, maxDepth, queue, visited, affected>>
  BY DEF Move, Asked, asked, impact
<1>2. ImpactShape /\ NothingInvented /\ VisitedListed
  BY DEF Spread
<1>3. /\ weight' \in Graph /\ low' \in Graph /\ high' \in Graph
      /\ \A x \in Nodes \X Nodes : /\ low'[x] <= weight'[x] /\ weight'[x] <= high'[x]
                                   /\ low'[x] <= low[x] /\ high[x] <= high'[x]
  BY <1>2, MoveIs
<1>4. /\ origin \in Nodes /\ maxDepth \in 0 .. 5 /\ maxDepth \in Nat /\ Cut \in Nat
      /\ low \in Graph /\ high \in Graph
      /\ \A n \in Nodes : visited[n] \in Nat
      /\ \A i \in DOMAIN queue : /\ queue[i].depth \in Nat /\ queue[i].depth <= maxDepth
                                 /\ queue[i].prob \in Nat
  BY <1>2, SpreadTypes
<1>5. PICK c \in 0 .. maxDepth : Wave(c)
  BY DEF Spread
<1>6. c \in 0 .. 5
  BY <1>4
<1>7. ImpactShape'
  BY <1>1, <1>2, <1>3 DEF ImpactShape, Graph
<1>8. ASSUME NEW n, NEW d \in 0 .. 5, NEW s \in Nat, Attained(n, d, s)
      PROVE  \E q \in Paths(origin, high')[d] : q.node = n /\ q.prob >= s
  <2>1. PICK q \in Paths(origin, high)[d] : q.node = n /\ q.prob >= s
    BY <1>8 DEF Attained
  <2>2. PICK r \in Paths(origin, high')[d] : r.node = q.node /\ r.prob >= q.prob
    BY <1>3, <1>4, PathsRise
  <2>3. q.prob \in Nat /\ r.prob \in Nat
    <3>1. Paths(origin, high)[d] \in SUBSET Pair /\ Paths(origin, high')[d] \in SUBSET Pair
      BY <1>3, <1>4, PathsAre
    <3> QED
      BY <3>1, AnalyticsAssumption DEF Pair, Probability
  <2>4. r.prob >= s
    BY <2>1, <2>2, <2>3
  <2> QED
    BY <2>1, <2>2, <2>4
<1>9. NothingInvented'
  <2>1. ASSUME NEW i \in DOMAIN queue
        PROVE  /\ Attained(queue[i].node, queue[i].depth, queue[i].prob)'
               /\ queue[i].prob > Cut
    <3>1. queue[i].depth \in 0 .. 5 /\ queue[i].prob \in Nat
      BY <1>4
    <3> QED
      BY <1>1, <1>2, <1>8, <3>1 DEF NothingInvented, Attained
  <2>2. ASSUME NEW i \in DOMAIN affected
        PROVE  /\ Attained(affected[i].node, maxDepth, affected[i].prob)'
               /\ affected[i].prob > Cut
    <3>1. affected[i].prob \in Nat
      <4> DEFINE A == [node : Nodes \ {origin}, prob : Probability]
      <4>1. affected \in Seq(A)
        BY <1>2 DEF ImpactShape
      <4>2. \A x \in A : x.prob \in Nat
        BY AnalyticsAssumption DEF Probability
      <4> HIDE DEF A
      <4> QED
        BY <4>1, <4>2
    <3>2. Attained(affected[i].node, maxDepth, affected[i].prob) /\ affected[i].prob > Cut
      BY <1>2 DEF NothingInvented
    <3>3. \E q \in Paths(origin, high')[maxDepth] :
             q.node = affected[i].node /\ q.prob >= affected[i].prob
      BY <1>4, <1>8, <3>1, <3>2
    <3> QED
      BY <1>1, <3>2, <3>3 DEF Attained
  <2> QED
    BY <1>1, <2>1, <2>2 DEF NothingInvented
<1>10. VisitedListed'
  BY <1>1, <1>2 DEF VisitedListed
<1>11. \A n, s, D : Awaited(n, s, D) => Awaited(n, s, D)'
  BY <1>1 DEF Awaited
<1>12. Wave(c)'
  <2>1. /\ \A i \in DOMAIN queue' : queue'[i].depth \in {c, c + 1}
        /\ \A i, j \in DOMAIN queue' : i < j => queue'[i].depth <= queue'[j].depth
    BY <1>1, <1>5 DEF Wave
  <2>2. ASSUME NEW q \in Paths(origin, low')[c], q.prob > Cut
        PROVE  Awaited(q.node, q.prob, {c})'
    <3>1. PICK r \in Paths(origin, low)[c] : r.node = q.node /\ r.prob >= q.prob
      BY <1>3, <1>4, <1>6, PathsRise
    <3>2. q.node \in Nodes /\ q.prob \in Nat /\ r.prob \in Nat
      <4>1. Paths(origin, low)[c] \in SUBSET Pair /\ Paths(origin, low')[c] \in SUBSET Pair
        BY <1>3, <1>4, <1>6, PathsAre
      <4> QED
        BY <4>1, AnalyticsAssumption DEF Pair, Probability
    <3>3. r.prob > Cut
      BY <1>4, <2>2, <3>1, <3>2
    <3>4. Awaited(q.node, r.prob, {c})
      BY <1>5, <3>1, <3>3 DEF Wave
    <3>5. Awaited(q.node, q.prob, {c})
      BY <1>2, <3>1, <3>2, <3>4, AwaitedLess
    <3> QED
      BY <1>11, <3>5
  <2>3. ASSUME c < maxDepth, NEW m \in Nodes, NEW n \in Nodes,
               (visited[n] * low'[<<m, n>>]) \div 20 > Cut
        PROVE  Awaited(m, (visited[n] * low[<<m, n>>]) \div 20, {c, c + 1})'
    <3>1. PICK a \in 0 .. 20, b \in 0 .. 20 : a = low'[<<m, n>>] /\ b = low[<<m, n>>] /\ a <= b
      <4>1. <<m, n>> \in Nodes \X Nodes
        OBVIOUS
      <4> QED
        BY <1>3, <1>4, <4>1 DEF Graph
    <3>2. PICK v \in Nat : v = visited[n] /\ v <= v
      BY <1>4
    <3>3. (v * a) \div 20 <= (v * b) \div 20 /\ (v * a) \div 20 \in Nat
      BY <3>1, <3>2, Product
    <3>4. (v * b) \div 20 \in Nat
      BY <3>2, Product
    <3>5. PICK s \in Nat, t \in Nat :
             s = (visited[n] * low'[<<m, n>>]) \div 20 /\ t = (visited[n] * low[<<m, n>>]) \div 20
             /\ s <= t
      BY <3>1, <3>2, <3>3, <3>4
    <3>6. t > Cut
      BY <1>4, <2>3, <3>5
    <3>7. Awaited(m, t, {c, c + 1})
      BY <1>5, <2>3, <3>5, <3>6 DEF Wave
    <3>8. Awaited(m, s, {c, c + 1})
      BY <1>2, <3>5, <3>7, AwaitedLess
    <3>9. Awaited(m, s, {c, c + 1})'
      BY <1>11, <3>8
    <3>10. (visited'[n] * low'[<<m, n>>]) \div 20 = s
      BY <1>1, <3>5
    <3> QED
      BY <3>9, <3>10
  <2> QED
    BY <1>1, <2>1, <2>2, <2>3 DEF Wave
<1>13. c \in 0 .. maxDepth'
  BY <1>1
<1> QED
  BY <1>7, <1>9, <1>10, <1>12, <1>13 DEF Spread

\* When the search is over, each node's likeliest path has been reported.
LEMMA ReportKeepsSpread ==
    ASSUME TypeOK, Spread, ReportImpact
    PROVE  Spread' /\ BestReported'
<1>1. /\ queue = << >> /\ affected' = ByImpact
      /\ UNCHANGED <<request, weight, origin, maxDepth, queue, visited, low, high>>
  BY DEF ReportImpact, asked
<1>2. ImpactShape /\ NothingInvented /\ VisitedListed /\ Wave(maxDepth)
  BY <1>1, LastWave DEF Spread
<1>3. /\ origin \in Nodes /\ maxDepth \in 0 .. 5 /\ maxDepth \in Nat /\ Cut \in Nat /\ One \in Nat
      /\ low \in Graph /\ high \in Graph
      /\ \A n \in Nodes : visited[n] \in Nat
  BY <1>2, SpreadTypes
<1> DEFINE A == [node : Nodes \ {origin}, prob : Probability]
<1>4. affected \in Seq(A) /\ \A x \in A : x.prob \in Nat
  BY <1>2, <1>3 DEF ImpactShape, Probability
<1> HIDE DEF A
<1>5. /\ affected' \in Seq(A) /\ DOMAIN affected' = DOMAIN affected
      /\ \A k \in DOMAIN affected : \E i \in DOMAIN affected : affected'[k] = affected[i]
      /\ \A i \in DOMAIN affected : \E k \in DOMAIN affected : affected'[k] = affected[i]
      /\ \A k, l \in DOMAIN affected : k < l => affected'[k].prob >= affected'[l].prob
  BY <1>1, <1>4, ByImpactSorts
<1>6. ImpactShape'
  BY <1>1, <1>2, <1>5 DEF ImpactShape, A
<1>7. \A k \in DOMAIN affected' :
         Attained(affected'[k].node, maxDepth, affected'[k].prob) /\ affected'[k].prob > Cut
  BY <1>2, <1>5 DEF NothingInvented
<1>8. NothingInvented'
  BY <1>1, <1>2, <1>7 DEF NothingInvented, Attained
<1>9. \A n \in Nodes \ {origin} : visited[n] > 0 =>
         \E k \in DOMAIN affected' : affected'[k].node = n /\ affected'[k].prob = visited[n]
  <2> TAKE n \in Nodes \ {origin}
  <2> HAVE visited[n] > 0
  <2>1. PICK i \in DOMAIN affected : affected[i].node = n /\ affected[i].prob = visited[n]
    BY <1>2 DEF VisitedListed
  <2>2. PICK k \in DOMAIN affected : affected'[k] = affected[i]
    BY <1>5
  <2> QED
    BY <1>5, <2>1, <2>2
<1>10. VisitedListed'
  BY <1>1, <1>9 DEF VisitedListed
<1>11. PICK d \in Nat : d = maxDepth
  BY <1>3
<1>12. Spread'
  <2>1. Wave(d)
    BY <1>2, <1>11
  <2>2. Wave(d)'
    BY <1>1, <2>1 DEF Wave, Awaited
  <2>3. d \in 0 .. maxDepth'
    BY <1>1, <1>3, <1>11
  <2> QED
    BY <1>6, <1>8, <1>10, <2>2, <2>3 DEF Spread
<1>13. ASSUME NEW n \in Nodes \ {origin}
       PROVE  /\ Reported(n)' >= Likely(BestWithin(low, n))
              /\ Reported(n)' <= Likely(BestWithin(high, n))
  <2> DEFINE entries == {i \in DOMAIN affected' : affected'[i].node = n}
             least == BestWithin(low, n)
             most == BestWithin(high, n)
  <2>1. Reported(n)' = IF entries = {} THEN 0 ELSE affected'[Min(entries)].prob
    BY DEF Reported
  <2>2. /\ least \in Nat
        /\ least > 0 => \E q \in Paths(origin, low)[maxDepth] : q.node = n /\ q.prob = least
    BY <1>3, BestIs
  <2>3. /\ most \in Nat
        /\ \A q \in Paths(origin, high)[maxDepth] : q.node = n => q.prob <= most
    BY <1>3, BestIs
  <2> HIDE DEF least, most
  <2>4. Len(affected') \in Nat /\ DOMAIN affected' = 1 .. Len(affected')
        /\ \A i \in DOMAIN affected' : affected'[i].prob \in Nat
    BY <1>4, <1>5
  <2>5. entries \in SUBSET Nat /\ entries \in SUBSET DOMAIN affected'
    BY <2>4
  <2>6. ASSUME least > Cut
        PROVE  \E k \in entries : affected'[k].prob >= least
    <3>1. PICK q \in Paths(origin, low)[maxDepth] : q.node = n /\ q.prob = least
      BY <1>3, <2>2, <2>6
    <3>2. Awaited(n, least, {maxDepth})
      BY <1>2, <2>6, <3>1 DEF Wave
    <3>3. visited[n] >= least
      BY <1>1, <3>2 DEF Awaited
    <3>4. visited[n] > 0
      BY <1>3, <2>2, <2>6, <3>3
    <3>5. PICK k \in DOMAIN affected' : affected'[k].node = n /\ affected'[k].prob = visited[n]
      BY <1>9, <3>4
    <3> QED
      BY <3>3, <3>5
  <2>7. ASSUME NEW k \in entries
        PROVE  affected'[k].prob > Cut /\ affected'[k].prob <= most /\ affected'[k].prob \in Nat
    <3>1. Attained(n, maxDepth, affected'[k].prob) /\ affected'[k].prob > Cut
      BY <1>7
    <3>2. PICK q \in Paths(origin, high)[maxDepth] :
             q.node = n /\ q.prob >= affected'[k].prob
      BY <3>1 DEF Attained
    <3>3. q.prob \in Nat
      <4>1. Paths(origin, high)[maxDepth] \in SUBSET Pair
        BY <1>3, PathsAre
      <4> QED
        BY <4>1, <1>3 DEF Pair, Probability
    <3>4. q.prob <= most
      BY <2>3, <3>2
    <3>5. affected'[k].prob \in Nat
      BY <2>4
    <3> QED
      BY <2>3, <3>1, <3>2, <3>3, <3>4, <3>5
  <2> HIDE DEF entries
  <2>8. CASE entries = {}
    <3>1. Reported(n)' = 0
      BY <2>1, <2>8
    <3>2. Likely(least) = 0
      BY <2>6, <2>8 DEF Likely, Cut
    <3>3. Likely(most) \in Nat
      BY <2>3 DEF Likely
    <3>4. Reported(n)' >= Likely(least) /\ Reported(n)' <= Likely(most)
      BY <3>1, <3>2, <3>3
    <3> QED
      BY <3>4 DEF least, most
  <2>9. CASE entries # {}
    <3>1. Min(entries) \in entries /\ \A y \in entries : Min(entries) <= y
      BY <2>5, <2>9, MinOf
    <3>2. PICK m \in entries : m = Min(entries) /\ \A y \in entries : m <= y
      BY <3>1
    <3>3. Reported(n)' = affected'[m].prob
      BY <2>1, <2>9, <3>2
    <3>4. \A k \in entries : affected'[m].prob >= affected'[k].prob
      <4> TAKE k \in entries
      <4>1. m \in DOMAIN affected /\ k \in DOMAIN affected /\ m <= k /\ m \in Nat /\ k \in Nat
            /\ affected'[k].prob \in Nat
        BY <1>5, <2>4, <2>5, <3>2
      <4>2. CASE m < k
        BY <1>5, <4>1, <4>2
      <4>3. CASE m = k
        BY <4>1, <4>3
      <4> QED
        BY <4>1, <4>2, <4>3
    <3>5. affected'[m].prob > Cut /\ affected'[m].prob <= most /\ affected'[m].prob \in Nat
      BY <2>7
    <3>6. Likely(most) = most
      BY <1>3, <2>3, <3>5 DEF Likely, Cut
    <3>7. affected'[m].prob >= Likely(least)
      <4>1. CASE least > Cut
        <5>1. PICK k \in entries : affected'[k].prob >= least
          BY <2>6, <4>1
        <5>2. affected'[k].prob \in Nat /\ affected'[m].prob >= affected'[k].prob
          BY <2>7, <3>4
        <5>3. affected'[m].prob >= least
          BY <2>2, <3>5, <5>1, <5>2
        <5> QED
          BY <4>1, <5>3 DEF Likely, Cut
      <4>2. CASE ~(least > Cut)
        <5>1. Likely(least) = 0
          BY <4>2 DEF Likely, Cut
        <5> QED
          BY <3>5, <5>1
      <4> QED
        BY <4>1, <4>2
    <3>8. Reported(n)' >= Likely(least) /\ Reported(n)' <= Likely(most)
      BY <3>3, <3>5, <3>6, <3>7
    <3> QED
      BY <3>8 DEF least, most
  <2> QED
    BY <2>8, <2>9
<1>14. \A n : /\ BestWithin(low, n)' = BestWithin(low, n)
              /\ BestWithin(high, n)' = BestWithin(high, n)
  BY <1>1 DEF BestWithin
<1>15. BestReported'
  <2>1. ASSUME NEW n \in Nodes \ {origin'}
        PROVE  /\ Reported(n)' >= Likely(BestWithin(low, n)')
               /\ Reported(n)' <= Likely(BestWithin(high, n)')
    BY <1>1, <1>13, <1>14
  <2>2. \A n : /\ Likely(BestWithin(low, n))' = Likely(BestWithin(low, n)')
               /\ Likely(BestWithin(high, n))' = Likely(BestWithin(high, n)')
    BY DEF Likely
  <2> QED
    BY <2>1, <2>2 DEF BestReported
<1> QED
  BY <1>12, <1>15

-----------------------------------------------------------------------------
(* Types. *)

AuditTypes ==
    /\ \A i \in DOMAIN calls : calls[i].node \in OnStack /\ calls[i].rest \subseteq Nodes
    /\ index \in [Nodes -> 0 .. Cardinality(Nodes)]
    /\ \A n \in Nodes : lowlink[n] \in 0 .. index[n]
    /\ stack \in Seq(Nodes) /\ IsInjective(stack)
    /\ \A i \in DOMAIN sccs : sccs[i] \subseteq Nodes

ImpactTypes ==
    /\ \A i \in DOMAIN queue :
          /\ queue[i].node \in Nodes
          /\ queue[i].depth \in 0 .. maxDepth
          /\ queue[i].prob \in Probability
    /\ \A i \in DOMAIN affected : affected[i].node \in Nodes \ {origin}

RestTypes ==
    /\ request \in {"audit", "impact"} /\ status \in {"running", "answered", "failed"}
    /\ weight \in [Nodes \X Nodes -> Weights \cup {NoEdge}]
    /\ cycles \subseteq SUBSET Nodes
    /\ origin \in Nodes /\ maxDepth \in 1 .. 5
    /\ visited \in [Nodes -> Probability]

LEMMA TypeParts ==
    TypeOK <=> AuditTypes /\ ImpactTypes /\ RestTypes
BY DEF TypeOK, AuditTypes, ImpactTypes, RestTypes

LEMMA SearchHasTypes ==
    Search => AuditTypes
<1> SUFFICES ASSUME Search PROVE AuditTypes
  OBVIOUS
<1>1. /\ index \in [Nodes -> Nat] /\ lowlink \in [Nodes -> Nat] /\ stack \in Seq(Nodes)
      /\ sccs \in Seq(SUBSET Nodes) /\ calls \in Seq([node : Nodes, rest : SUBSET Nodes])
  BY DEF Search, AuditShape
<1>2. /\ \A n \in Nodes : index[n] <= Cardinality(Numbered) /\ lowlink[n] <= index[n]
      /\ \A i, j \in DOMAIN stack : i < j => index[stack[i]] < index[stack[j]]
      /\ \A i \in DOMAIN calls : calls[i].node \in OnStack
  BY DEF Search, NumberedOnce, InNumberOrder
<1>3. Cardinality(Numbered) <= Cardinality(Nodes) /\ Cardinality(Numbered) \in Nat
      /\ Cardinality(Nodes) \in Nat
  BY <1>1, NumberedIs, NodesFinite, FS_Subset
<1>4. \A n \in Nodes : index[n] \in 0 .. Cardinality(Nodes)
  BY <1>1, <1>2, <1>3
<1>5. \A n \in Nodes : lowlink[n] \in 0 .. index[n]
  BY <1>1, <1>2
<1>6. IsInjective(stack)
  <2> SUFFICES ASSUME NEW i \in DOMAIN stack, NEW j \in DOMAIN stack, stack[i] = stack[j], i # j
               PROVE  FALSE
    BY DEF IsInjective
  <2>1. i \in Nat /\ j \in Nat /\ index[stack[i]] \in Nat
    BY <1>1
  <2>2. i < j \/ j < i
    BY <2>1
  <2> QED
    BY <1>2, <2>1, <2>2
<1>7. \A i \in DOMAIN calls : calls[i].rest \subseteq Nodes
  <2> DEFINE C == [node : Nodes, rest : SUBSET Nodes]
  <2>1. calls \in Seq(C) /\ \A x \in C : x.rest \subseteq Nodes
    BY <1>1
  <2> HIDE DEF C
  <2> QED
    BY <2>1
<1>8. \A i \in DOMAIN sccs : sccs[i] \subseteq Nodes
  <2>1. \A i \in DOMAIN sccs : sccs[i] \in SUBSET Nodes
    BY <1>1
  <2> QED
    BY <2>1
<1> QED
  BY <1>1, <1>2, <1>4, <1>5, <1>6, <1>7, <1>8 DEF AuditTypes

LEMMA SpreadHasTypes ==
    Spread => ImpactTypes
<1> SUFFICES ASSUME Spread PROVE ImpactTypes
  OBVIOUS
<1> DEFINE R == [node : Nodes, depth : 0 .. maxDepth, prob : Probability]
           A == [node : Nodes \ {origin}, prob : Probability]
<1>1. queue \in Seq(R) /\ affected \in Seq(A)
  BY DEF Spread, ImpactShape
<1>2. \A r \in R : r.node \in Nodes /\ r.depth \in 0 .. maxDepth /\ r.prob \in Probability
  OBVIOUS
<1>3. \A x \in A : x.node \in Nodes \ {origin}
  OBVIOUS
<1> HIDE DEF R, A
<1>4. (\A i \in DOMAIN queue : queue[i] \in R) /\ (\A i \in DOMAIN affected : affected[i] \in A)
  BY <1>1
<1> QED
  BY <1>2, <1>3, <1>4 DEF ImpactTypes

\* The types that neither search has a part in.
LEMMA StepKeepsRest ==
    ASSUME TypeOK, Search, Spread, [Next]_vars
    PROVE  RestTypes'
<1>1. RestTypes
  BY TypeParts
<1>2. ASSUME UNCHANGED <<request, weight, cycles, asked, visited>>,
             status' \in {"running", "answered", "failed"}
      PROVE  RestTypes'
  BY <1>1, <1>2 DEF RestTypes, asked
<1>3. status \in {"running", "answered", "failed"}
  BY <1>1 DEF RestTypes
<1>4. ASSUME NEW n \in Nodes, Root(n) PROVE RestTypes'
  BY <1>2, <1>3, <1>4 DEF Root, impact
<1>5. ASSUME NEW n \in Nodes, Look(n) PROVE RestTypes'
  BY <1>2, <1>3, <1>5 DEF Look, impact
<1>6. CASE Return
  BY <1>2, <1>3, <1>6 DEF Return, impact
<1>7. CASE ReportCycles
  <2>1. \A scc \in Range(sccs) : scc \in SUBSET Nodes
    BY InRange DEF TypeOK
  <2>2. cycles' \subseteq SUBSET Nodes
    BY <1>7, <2>1 DEF ReportCycles
  <2>3. UNCHANGED <<request, weight, origin, maxDepth, visited>> /\ status' = "answered"
    BY <1>7 DEF ReportCycles, asked, impact
  <2> QED
    BY <1>1, <2>2, <2>3 DEF RestTypes
<1>8. CASE Skip
  BY <1>2, <1>3, <1>8 DEF Skip, audit
<1>9. CASE Expand
  <2>1. /\ UNCHANGED <<request, status, weight, cycles, origin, maxDepth>> /\ queue # << >>
        /\ visited' = [visited EXCEPT ![f.node] = f.prob]
    BY <1>9 DEF Expand, Visit, audit, asked
  <2>2. f.prob \in Probability
    BY <2>1, TailIs, SpreadTypes DEF Spread, Probability
  <2> QED
    BY <1>1, <2>1, <2>2 DEF RestTypes
<1>10. CASE ExpandFails
  BY <1>2, <1>3, <1>10 DEF ExpandFails, audit, impact
<1>11. CASE ReportImpact
  BY <1>2, <1>3, <1>11 DEF ReportImpact, audit
<1>12. ASSUME NEW e \in CallEdges, Move(e) PROVE RestTypes'
  <2>1. e \in Nodes \X Nodes
    BY AnalyticsAssumption
  <2>2. weight' \in [Nodes \X Nodes -> Weights \cup {NoEdge}]
    BY <1>12, <2>1, MoveIs DEF Spread
  <2>3. UNCHANGED <<request, status, cycles, origin, maxDepth, visited>>
    BY <1>12 DEF Move, audit, asked, impact
  <2> QED
    BY <1>1, <2>2, <2>3 DEF RestTypes
<1>13. CASE UNCHANGED vars
  BY <1>2, <1>3, <1>13 DEF vars, audit, impact
<1> QED
  BY <1>4, <1>5, <1>6, <1>7, <1>8, <1>9, <1>10, <1>11, <1>12, <1>13 DEF Next

LEMMA StepKeepsSpread ==
    ASSUME TypeOK, Search, Spread, BestReported, [Next]_vars
    PROVE  Spread' /\ BestReported'
<1>1. ASSUME NEW n \in Nodes, Root(n) PROVE Spread' /\ BestReported'
  BY <1>1, SpreadKept DEF Root
<1>2. ASSUME NEW n \in Nodes, Look(n) PROVE Spread' /\ BestReported'
  BY <1>2, SpreadKept DEF Look
<1>3. CASE Return
  BY <1>3, SpreadKept DEF Return
<1>4. CASE ReportCycles
  BY <1>4, SpreadKept DEF ReportCycles, Asked
<1>5. CASE Skip
  <2>1. status' # "answered"
    BY <1>5 DEF Skip, Asked
  <2> QED
    BY <1>5, <2>1, SkipKeepsSpread, NotYet
<1>6. CASE Expand
  <2>1. status' # "answered"
    BY <1>6 DEF Expand, Visit, Asked
  <2> QED
    BY <1>6, <2>1, ExpandKeepsSpread, NotYet
<1>7. CASE ExpandFails
  BY <1>7, SpreadKept DEF ExpandFails
<1>8. CASE ReportImpact
  BY <1>8, ReportKeepsSpread
<1>9. ASSUME NEW e \in CallEdges, Move(e) PROVE Spread' /\ BestReported'
  <2>1. status' # "answered"
    BY <1>9 DEF Move, Asked
  <2>2. e \in Nodes \X Nodes
    BY AnalyticsAssumption
  <2> QED
    BY <1>9, <2>1, <2>2, MoveKeepsSpread, NotYet
<1>10. CASE UNCHANGED vars
  BY <1>10, SpreadKept DEF vars
<1> QED
  BY <1>1, <1>2, <1>3, <1>4, <1>5, <1>6, <1>7, <1>8, <1>9, <1>10 DEF Next

-----------------------------------------------------------------------------
(* The invariant. *)

LEMMA InitWeights ==
    ASSUME Init
    PROVE  weight \in [Nodes \X Nodes -> Weights \cup {NoEdge}]
<1>1. AnyWeight \in Weights
  BY AnalyticsAssumption DEF AnyWeight
<1>2. CASE \E edges \in AuditGraphs :
              weight = [e \in Nodes \X Nodes |-> IF e \in edges THEN AnyWeight ELSE NoEdge]
  BY <1>1, <1>2
<1>3. CASE \E w \in [CallEdges -> Weights \cup {NoEdge}] :
              weight = [e \in Nodes \X Nodes |-> IF e \in CallEdges THEN w[e] ELSE NoEdge]
  BY <1>3
<1> QED
  BY <1>2, <1>3 DEF Init

LEMMA InitRest ==
    ASSUME Init
    PROVE  RestTypes
<1>1. origin \in Nodes
  <2>1. (CHOOSE n \in Nodes : TRUE) \in Nodes
    BY AnalyticsAssumption
  <2> QED
    BY <2>1 DEF Init
<1>2. maxDepth \in 1 .. 5
  <2>1. \A d : Bounded(d) \in 1 .. 5
    BY DEF Bounded
  <2> QED
    BY <2>1 DEF Init
<1>3. visited \in [Nodes -> Probability]
  BY AnalyticsAssumption DEF Init, Probability
<1>4. request \in {"audit", "impact"} /\ status = "running" /\ cycles = {}
  BY DEF Init
<1> QED
  BY <1>1, <1>2, <1>3, <1>4, InitWeights DEF RestTypes

LEMMA InitSpread ==
    ASSUME Init
    PROVE  Spread /\ BestReported
<1> DEFINE R == [node : Nodes, depth : 0 .. maxDepth, prob : Probability]
           first == [node |-> origin, depth |-> 0, prob |-> One]
<1>1. /\ queue = <<first>> /\ affected = << >> /\ visited = [n \in Nodes |-> 0]
      /\ low = weight /\ high = weight /\ status = "running"
  BY DEF Init
<1>2. origin \in Nodes /\ maxDepth \in 1 .. 5 /\ One \in Nat /\ One > 0
  BY InitRest, AnalyticsAssumption DEF RestTypes
<1>3. weight \in Graph
  <2>1. Weights \cup {NoEdge} \subseteq 0 .. 20
    BY AnalyticsAssumption DEF NoEdge
  <2> QED
    BY <2>1, InitWeights DEF Graph
<1>4. Cut \in Nat /\ One > Cut
  BY <1>2 DEF Cut
<1>5. first \in R /\ first.node = origin /\ first.depth = 0 /\ first.prob = One
  BY <1>2 DEF Probability
<1> HIDE DEF R, first
<1>6. queue \in Seq(R) /\ DOMAIN queue = {1} /\ queue[1] = first
  BY <1>1, <1>5
<1>7. affected \in Seq([node : Nodes \ {origin}, prob : Probability]) /\ DOMAIN affected = {}
  BY <1>1
<1>8. ImpactShape
  <2>1. \A e \in Nodes \X Nodes : low[e] <= weight[e] /\ weight[e] <= high[e]
    BY <1>1, <1>3 DEF Graph
  <2> QED
    BY <1>1, <1>3, <1>6, <1>7, <2>1 DEF ImpactShape, R, Graph
<1>9. /\ Paths(origin, low)[0] = Start(origin) /\ Paths(origin, high)[0] = Start(origin)
  BY <1>1, <1>2, <1>3, PathsAre
<1>10. Attained(origin, 0, One)
  BY <1>2, <1>9 DEF Attained, Start
<1>11. NothingInvented
  BY <1>4, <1>5, <1>6, <1>7, <1>10 DEF NothingInvented
<1>12. VisitedListed
  BY <1>1 DEF VisitedListed
<1>13. Wave(0)
  <2>1. /\ \A i \in DOMAIN queue : queue[i].depth \in {0, 0 + 1}
        /\ \A i, j \in DOMAIN queue : i < j => queue[i].depth <= queue[j].depth
    BY <1>5, <1>6
  <2>2. ASSUME NEW q \in Paths(origin, low)[0] PROVE Awaited(q.node, q.prob, {0})
    <3>1. q.node = origin /\ q.prob = One
      BY <1>9 DEF Start
    <3>2. 1 \in DOMAIN queue /\ queue[1].node = q.node /\ queue[1].prob >= q.prob
          /\ queue[1].depth \in {0}
      BY <1>2, <1>5, <1>6, <3>1
    <3> QED
      BY <3>2 DEF Awaited
  <2>3. ASSUME NEW m \in Nodes, NEW n \in Nodes
        PROVE  ~((visited[n] * low[<<m, n>>]) \div 20 > Cut)
    <3>1. PICK a \in 0 .. 20 : a = low[<<m, n>>]
      BY <1>1, <1>3 DEF Graph
    <3>2. visited[n] = 0
      BY <1>1
    <3>3. (0 * a) \div 20 = 0
      OBVIOUS
    <3>4. ~((0 * a) \div 20 > Cut)
      BY <1>4, <3>3
    <3> QED
      BY <3>1, <3>2, <3>4
  <2> QED
    BY <2>1, <2>2, <2>3 DEF Wave
<1>14. Spread
  BY <1>2, <1>8, <1>11, <1>12, <1>13 DEF Spread
<1>15. BestReported
  BY <1>1 DEF BestReported
<1> QED
  BY <1>14, <1>15

LEMMA InitIInv ==
    Init => IInv /\ Condensation!Init
BY InitSearch, InitSpread, InitRest, SearchHasTypes, SpreadHasTypes, TypeParts DEF IInv

LEMMA NextKeepsIInv ==
    IInv /\ [Next]_vars => IInv' /\ [Condensation!Next]_Condensation!vars
<1> SUFFICES ASSUME IInv, [Next]_vars
             PROVE  IInv' /\ [Condensation!Next]_Condensation!vars
  OBVIOUS
<1>1. TypeOK /\ Search /\ Spread /\ BestReported /\ request \in {"audit", "impact"}
  BY DEF IInv, TypeOK
<1>2. Search' /\ [Condensation!Next]_Condensation!vars
  BY <1>1, StepKeepsSearch
<1>3. Spread' /\ BestReported'
  BY <1>1, StepKeepsSpread
<1>4. RestTypes'
  BY <1>1, StepKeepsRest
<1>5. AuditTypes'
  <2>1. Search' => AuditTypes'
    BY SearchHasTypes, PTL
  <2> QED
    BY <1>2, <2>1
<1>6. ImpactTypes'
  <2>1. Spread' => ImpactTypes'
    BY SpreadHasTypes, PTL
  <2> QED
    BY <1>3, <2>1
<1>7. TypeOK'
  <2>1. AuditTypes' /\ ImpactTypes' /\ RestTypes' => TypeOK'
    BY TypeParts, PTL
  <2> QED
    BY <1>4, <1>5, <1>6, <2>1
<1> QED
  BY <1>2, <1>3, <1>7 DEF IInv

LEMMA InductiveInvariant ==
    Spec => []IInv
BY InitIInv, NextKeepsIInv, PTL DEF Spec

-----------------------------------------------------------------------------

\* Whatever graph is audited and whatever impact is asked for: the calls of
\* strongconnect keep to the stack, no node is on it twice, a lowlink is never
\* above its number, no frame is deeper than was asked for, and no probability
\* passes 1.
THEOREM TypeCorrect ==
    Spec => []TypeOK
<1>1. IInv => TypeOK
  BY DEF IInv
<1> QED
  BY <1>1, InductiveInvariant, PTL

\* For every graph, changing under the request, CalculateBlastRadius reports
\* each node with the probability of its likeliest path within the depth that
\* was asked for, although it takes nodes by depth and drops what falls below
\* 0.1.
THEOREM BlastRadiusReportsBest ==
    Spec => []BestReported
<1>1. IInv => BestReported
  BY DEF IInv
<1> QED
  BY <1>1, InductiveInvariant, PTL

\* For every graph, tarjanSCC finds the sets of nodes that reach each other,
\* each whole and after those that it leads to, and Audit reports those of them
\* that hold a cycle: Analytics implements Components.
THEOREM AuditImplementsComponents ==
    Spec => ComponentsSpec
<1>1. Init => Condensation!Init
  BY InitIInv
<1>2. IInv /\ [Next]_vars => [Condensation!Next]_Condensation!vars
  BY NextKeepsIInv
<1> QED
  BY <1>1, <1>2, InductiveInvariant, PTL DEF Spec, ComponentsSpec, Condensation!Spec

==============================================================================
