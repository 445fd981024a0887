------------------------------- MODULE DeltaLog -------------------------------
(***************************************************************************)
(* What storage promises of its mutation log, whatever happens inside a    *)
(* batch: the log only grows, one transaction's block at a time, and the   *)
(* graph is at every moment the projection of the log.                     *)
(***************************************************************************)
EXTENDS GraphRows

VARIABLES graph, log

Init ==
    /\ graph = EmptyGraph
    /\ log = <<>>

Commit ==
    /\ Len(log') > Len(log)
    /\ \A i \in DOMAIN log : log'[i] = log[i]
    /\ OneTransaction(log', Len(log))
    /\ Chained(log')
    /\ Projects(graph', log')

Spec == Init /\ [][Commit]_<<graph, log>>

=============================================================================
