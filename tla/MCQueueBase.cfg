CONSTANTS
    c1 = c1
    c2 = c2
    c3 = c3
    Consumers = {c1, c2, c3}
    MaxCounts = {1, 2}
    PublishCounts = {1, 2}
    MaxTail = 2
    MaxAttempts = 5
    StaleLoads = TRUE
SYMMETRY ConsumerSymmetry
SPECIFICATION Spec
INVARIANTS
    TicketsAccounted
    Inv
PROPERTIES
    ImplementsSharedQueue
CHECK_DEADLOCK FALSE
