------------------------------ MODULE Components ------------------------------
(***************************************************************************)
(* What the search for circular dependencies promises: it finds every set  *)
(* of nodes that reach each other, a set after the sets that it leads to,  *)
(* and reports those of them that hold a cycle.                            *)
(***************************************************************************)
EXTENDS Sequences

CONSTANT Nodes

VARIABLES
    edges,     \* the graph: pairs of nodes
    found,     \* the components in the order in which they are found
    report     \* the sets that lie on a cycle, once all are found

vars == <<edges, found, report>>

Ends == UNION {{e[1], e[2]} : e \in edges}

\* No edge leads out of S.
Closed(S) == \A e \in edges : e[1] \in S => e[2] \in S

\* What n leads to by any number of edges, by none too.
ReachFrom(n) == {m \in Nodes : \A S \in SUBSET Nodes : n \in S /\ Closed(S) => m \in S}

Mutual(n) == {m \in ReachFrom(n) : n \in ReachFrom(m)}

Placed == UNION {found[i] : i \in DOMAIN found}

\* n lies on a cycle, of one edge or of more.
OnCycle(n) == \E e \in edges : e[1] = n /\ n \in ReachFrom(e[2])

Init ==
    /\ edges \subseteq Nodes \X Nodes
    /\ found = << >>
    /\ report = {}

Find(n) ==
    /\ n \notin Placed
    /\ ReachFrom(n) \ Mutual(n) \subseteq Placed
    /\ found' = Append(found, Mutual(n))
    /\ UNCHANGED <<edges, report>>

Report ==
    /\ Placed = Ends
    /\ report' = {Mutual(n) : n \in {m \in Ends : OnCycle(m)}}
    /\ UNCHANGED <<edges, found>>

Next == Report \/ \E n \in Ends : Find(n)

Spec == Init /\ [][Next]_vars

=============================================================================
