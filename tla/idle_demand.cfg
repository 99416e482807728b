SPECIFICATION Spec
CONSTANTS
    NumUsers = 2
    TimeRange = 2
    Rates <- Slow
    Capacity = 3
    MaxWait = 4
    MaxCount = 2
    MaxNow = 6
    WinSize = 2
    MaxUses = 2
INVARIANTS
    DemandIsPositive
CHECK_DEADLOCK FALSE
