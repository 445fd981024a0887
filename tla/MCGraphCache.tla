----------------------------- MODULE MCGraphCache -----------------------------
EXTENDS GraphCache, TLC

CONSTANTS e1, e2, e3, e4, r1, r2

MCEntIDs == {e1, e2, e3}
MCRelIDs == {r1, r2}

\* The chain e1 -> e2 -> e3, and e1 -> e2 before e3 is known.
MCDatabases ==
    LET Arrow(a, b) == [from |-> a, to |-> b, active |-> TRUE, gen |-> 0]
    IN  {[row |-> [e \in MCEntIDs |-> 1],
          edge |-> [r \in MCRelIDs |-> IF r = r1 THEN Arrow(e1, e2) ELSE Arrow(e2, e3)]],
         [row |-> [e \in MCEntIDs |-> IF e = e3 THEN 0 ELSE 1],
          edge |-> [r \in MCRelIDs |-> IF r = r1 THEN Arrow(e1, e2) ELSE Absent]]}

\* Two hops out of e1.
MCKeys == {<<e1, 2, "out">>}

\* One edge, and two entities it may be moved to.
MovedEntIDs == {e1, e2, e3, e4}
MovedDatabases ==
    {[row |-> [e \in MovedEntIDs |-> 1],
      edge |-> [r \in {r1} |->
                   [from |-> e1, to |-> e2, active |-> TRUE, gen |-> 0]]]}
MovedKeys == {<<e1, 1, "out">>}

Symm == Permutations(Readers) \cup Permutations(Writers)

=============================================================================
