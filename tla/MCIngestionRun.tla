--------------------------- MODULE MCIngestionRun ---------------------------
EXTENDS IngestionRun, TLC

\* Runs and contents are interchangeable.
Symmetry == Permutations(Runs) \cup Permutations(Contents)

=============================================================================
