----------------------------- MODULE RequestReply -----------------------------
(***************************************************************************)
(* What a server on standard input and output promises: an accepted        *)
(* request is answered once, in any order, by a line of its own, and is    *)
(* given up only together with the server.                                 *)
(***************************************************************************)
EXTENDS Sequences

CONSTANT Requests

VARIABLES
    stage,     \* what has become of each request
    out,       \* the requests in the order of their answers
    stopped    \* whether the server has ended

vars == <<stage, out, stopped>>

Init ==
    /\ stage = [r \in Requests |-> "new"]
    /\ out = << >>
    /\ stopped = FALSE

Accept(r) ==
    /\ ~stopped /\ stage[r] = "new"
    /\ stage' = [stage EXCEPT ![r] = "pending"]
    /\ UNCHANGED <<out, stopped>>

Answer(r) ==
    /\ ~stopped /\ stage[r] = "pending"
    /\ stage' = [stage EXCEPT ![r] = "answered"]
    /\ out' = Append(out, r)
    /\ UNCHANGED stopped

Stop ==
    /\ ~stopped
    /\ stopped' = TRUE
    /\ stage' = [r \in Requests |-> IF stage[r] = "pending" THEN "dropped" ELSE stage[r]]
    /\ UNCHANGED out

Next == Stop \/ \E r \in Requests : Accept(r) \/ Answer(r)

Spec == Init /\ [][Next]_vars

=============================================================================
