CONSTANTS
    b1 = b1
    b2 = b2
    b3 = b3
    b4 = b4
    b5 = b5
    c1 = c1
    NoBlock = NoBlock
    Raw = Raw
    BlockSize = 2
    InitialIndexSize = 4
    JunkEntries <- Zeroed
    Consumers = {c1}
    Blocks = {b1, b2, b3, b4, b5}
    Programs <- RollBacks
SYMMETRY Symmetry
SPECIFICATION Spec
INVARIANT WholeRingTakesOwnItems
CHECK_DEADLOCK FALSE
