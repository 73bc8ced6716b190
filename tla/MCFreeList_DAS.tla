--------------------------- MODULE MCFreeList_DAS ---------------------------
EXTENDS FreeList_DASProps, TLC

Symmetry == Permutations(Threads) \union Permutations(Nodes)
=============================================================================
