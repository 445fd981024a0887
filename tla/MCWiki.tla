------------------------------- MODULE MCWiki -------------------------------
(* Seven entities: three large directories, of which the cap keeps two; or *)
(* two large ones, and a small one that joins one of them while e5 and e1  *)
(* are related, and Misc otherwise.  B and C have the same slug.           *)
EXTENDS Wiki

CONSTANTS e1, e2, e3, e4, e5, e6, e7, A, B, C

DirsByName == <<A, B, C, Misc>>

\* B and C are spelled differently and have the same slug.
Slugs == [d \in Dir |-> IF d = C THEN B ELSE d]

Layout(d1, d2, d3, d4, d5, d6, d7) ==
    (e1 :> d1) @@ (e2 :> d2) @@ (e3 :> d3) @@ (e4 :> d4) @@ (e5 :> d5) @@ (e6 :> d6) @@
    (e7 :> d7)

ThreeLayouts ==
    {Layout(A, A, B, B, C, A, B), Layout(A, A, B, B, C, C, Misc),
     Layout(B, B, C, C, A, Misc, C)}

Relations == {<<e5, e1>>}

Symmetry == Permutations(Calls)

=============================================================================
