CONSTANTS
    t1 = t1
    t2 = t2
    t3 = t3
    k1 = k1
    k2 = k2
    k3 = k3
    k4 = k4
    v1 = v1
    v2 = v2
    INVALID_KEY = INVALID_KEY
    NoValue = NoValue
    Threads = {t1, t2}
    Keys = {k1, k2, k3, k4}
    Values = {v1, v2}
    INITIAL_HASH_SIZE = 2
    Hash <- SomeCollide
    KeysOf <- TwoAndTwo
    ValuesOf <- TwoForOne
    Faults = {"alloc"}
    Programs <- LookingUpAndFilling
SPECIFICATION Spec
INVARIANTS
    FindsLatest
    ProbesEnd
PROPERTIES
    CallsReturn
CHECK_DEADLOCK FALSE
