--------------------------- MODULE MCSharedBudget ---------------------------
EXTENDS SharedBudget, TLC

\* The processes are interchangeable.
ProcessSymmetry == Permutations(Process)
=============================================================================
