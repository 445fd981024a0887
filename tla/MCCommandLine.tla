---------------------------- MODULE MCCommandLine ----------------------------
(* One job of every kind, beside one that calls both zones or one that the *)
(* reading loop answers itself.                                            *)
EXTENDS CommandLine

CONSTANTS j1, j2

EveryKindBesideTwo ==
    [j \in Jobs |-> IF j = j1 THEN Kinds ELSE {"suggestions", "malformed"}]

=============================================================================
