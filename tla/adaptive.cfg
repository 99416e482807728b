SPECIFICATION Spec
CONSTANTS
    NumUsers = 2
    TimeRange = 2
    Rates <- SlowAndFast
    Capacity = 3
    MaxWait = 4
    MaxCount = 2
    MaxNow = 6
    WinSize = 2
    MaxUses = 2
INVARIANTS
    TypeOK
    NeverAheadOfRate
PROPERTIES
    UseIsDemanded
CHECK_DEADLOCK FALSE
