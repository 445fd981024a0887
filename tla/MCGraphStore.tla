----------------------------- MODULE MCGraphStore -----------------------------
EXTENDS GraphStore, TLC

Symm == Permutations(Clients) \cup Permutations(Data) \cup Permutations(EntIDs)

=============================================================================
