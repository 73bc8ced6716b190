---------------------------- MODULE MCSlowQueue ----------------------------
EXTENDS SlowQueueProps, TLC

Symmetry == Permutations(Consumers) \union Permutations(Blocks \ PoolBlocks)
               \union Permutations(PoolBlocks)
=============================================================================
