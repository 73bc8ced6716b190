--------------------------- MODULE MCBlockManager ---------------------------
EXTENDS BlockManagerProps

CONSTANTS n1, n2
PoolOfOne == <<n1>>
=============================================================================
