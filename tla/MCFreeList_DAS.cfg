CONSTANTS
    t1 = t1
    t2 = t2
    t3 = t3
    n1 = n1
    n2 = n2
    n3 = n3
    NoNode = NoNode
    Threads = {t1, t2, t3}
    Nodes = {n1, n2, n3}
    TagSize = 4
SYMMETRY Symmetry
SPECIFICATION Spec
INVARIANTS
    Inv
PROPERTIES
    ImplementsNodePool
CHECK_DEADLOCK FALSE
