----------------------------- MODULE MCAnalytics -----------------------------
(* Every graph on three nodes, and every part of one on four, to audit;     *)
(* callers with two weights, over four nodes, for the impact of each.       *)
EXTENDS Analytics

CONSTANTS a, b, c, d

Three == {a, b, c}

\* Cycles of two and three nodes that share nodes, shortcuts and a loop.
Knot == {<<a, b>>, <<b, c>>, <<c, a>>, <<b, d>>, <<d, b>>, <<c, d>>, <<a, d>>, <<d, c>>,
         <<a, c>>, <<d, d>>}

Audited == SUBSET (Three \X Three) \cup SUBSET Knot

\* A shortcut beside longer ways, with a cycle through d.
Calling == {<<b, a>>, <<c, a>>, <<c, b>>, <<d, b>>, <<d, c>>, <<b, d>>}

=============================================================================
