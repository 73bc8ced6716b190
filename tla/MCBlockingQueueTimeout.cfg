CONSTANTS
    Capacity = 3
    MaxCount = 6
    Timeouts = {"none", "forever", "poll", "timed"}
    Version = "cpp20"
SPECIFICATION BQSpec
INVARIANTS
    GrantedFindsItem

CHECK_DEADLOCK FALSE
