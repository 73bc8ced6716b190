CONSTANTS
    Capacity = 6
    MaxCount = 7
    Timeouts = {"none", "forever", "poll", "timed"}
    Version = "legacy"
SPECIFICATION BQSpec
INVARIANTS
    GrantedFindsItem
    Inv
    QuietCountIsExact
PROPERTIES
    SleeperIsWoken
    TimedOutReturns
CHECK_DEADLOCK FALSE
