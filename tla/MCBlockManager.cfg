CONSTANTS
    t1 = t1
    t2 = t2
    t3 = t3
    n1 = n1
    n2 = n2
    NoNode = NoNode
    Threads = {t1, t2, t3}
    Nodes = {n1, n2}
    PoolBlocks <- PoolOfOne
    AddFlag = 8
    RepeatedAdds = FALSE
SPECIFICATION FairManagerSpec
INVARIANTS
    RefsAreExact
    NothingLost
PROPERTIES
    ImplementsNodePool
    LockFree
CHECK_DEADLOCK FALSE
