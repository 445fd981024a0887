------------------------------ MODULE MCPipeline ------------------------------
(* Two sources know the thing named a, by ids of their own. *)
EXTENDS Pipeline

CONSTANTS gitA, astA, b, l, z, a, x, c1, c2

MCEntIDs == {gitA, astA, b, l, z}
MCRelIDs == MCEntIDs \X MCEntIDs
MCNameOf == (gitA :> a) @@ (astA :> a) @@ (b :> x) @@
            (l :> Long) @@ (z :> Blank)
MCBatches ==
    {[ids |-> <<gitA, b>>, relationships |-> {<<gitA, b>>}, data |-> c1],
     [ids |-> <<b, astA>>, relationships |-> {<<astA, b>>, <<astA, gitA>>}, data |-> c2],
     [ids |-> <<z>>, relationships |-> {<<z, b>>}, data |-> c1],
     [ids |-> <<l>>, relationships |-> {<<l, b>>}, data |-> c2]}

=============================================================================
