CONSTANTS
    b1 = b1
    b2 = b2
    b3 = b3
    b4 = b4
    c1 = c1
    c2 = c2
    NoBlock = NoBlock
    Raw = Raw
    BlockSize = 2
    InitialIndexSize = 2
    Consumers = {c1, c2}
    Blocks = {b1, b2, b3, b4}
    PoolBlocks = {b1, b2}
    Modes = {"CanAlloc", "CannotAlloc"}
    BulkCounts = {3}
    ClaimCounts = {1, 3}
    MaxTail = 7
    Faults = {"ctor", "indexAlloc", "blockAlloc"}
SYMMETRY Symmetry
SPECIFICATION Spec
INVARIANTS
    TakesOwnItems
    LiveAreUntaken
    BlocksAccounted
    ClearReturnsBlocks
CHECK_DEADLOCK FALSE
