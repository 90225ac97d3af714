----------------------------- MODULE MCDataPlane -----------------------------
EXTENDS DataPlane

Symmetry == Permutations(Threads) \cup Permutations(Places)
=============================================================================
