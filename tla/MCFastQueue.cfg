CONSTANTS
    b1 = b1
    b2 = b2
    b3 = b3
    b4 = b4
    b5 = b5
    c1 = c1
    c2 = c2
    NoBlock = NoBlock
    Raw = Raw
    BlockSize = 2
    InitialIndexSize = 4
    JunkEntries <- Zeroed
    Consumers = {c1, c2}
    Blocks = {b1, b2, b3, b4, b5}
    Programs <- WithAndWithoutFaults
SYMMETRY Symmetry
SPECIFICATION Spec
INVARIANTS
    TakesOwnItems
    LiveAreUntaken
    ClearDestroysObjects
    BlocksAccounted
    DrainedIsReusable
PROPERTIES
    NoEntryRace
CHECK_DEADLOCK FALSE
