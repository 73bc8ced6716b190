CONSTANTS
    InitialBlocks = 1
    InitialSize = 2
    EXPECTED_BLOCK_SIZE = 4
    MaxBlocks = 3
    MaxItems = 10
    Raw = Raw
    StaleTail = FALSE
SPECIFICATION Spec
INVARIANTS
    TakesOldest
    NextBlockHasItem
    NeverOverwrites
    SizeIsExact
    DestructorDestroysAll
PROPERTIES
    NoSpuriousEmpty
    EachIsDequeued
CHECK_DEADLOCK FALSE
