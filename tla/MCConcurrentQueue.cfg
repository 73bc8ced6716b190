CONSTANTS
    k1 = k1
    k2 = k2
    i1 = i1
    c1 = c1
    c2 = c2
    x1 = x1
    x2 = x2
    n1 = n1
    n2 = n2
    n3 = n3
    Null = Null
    Tokens = {k1, k2}
    ImplicitThreads = {i1}
    Consumers = {c1, c2}
    TokensOf <- Own2AndNone
    Nodes = {n1, n2, n3}
    QUOTA = 1
    OffsetSize = 4
    MaxOffset = 1
    CallSets <- Programs
    Wants = {2}
    MaxSize = 1
SYMMETRY Symmetry
SPECIFICATION Spec
INVARIANTS
    OneOwner
    NoneLost
    CountCoversList
    NoFalseEmpty
    DequeuesFromListed
CHECK_DEADLOCK FALSE
