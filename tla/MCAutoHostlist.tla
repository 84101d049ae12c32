--------------------------- MODULE MCAutoHostlist ---------------------------
EXTENDS AutoHostlist, TLC

\* flows are interchangeable
Symmetry == Permutations(Flows)
=============================================================================
