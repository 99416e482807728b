SPECIFICATION LimiterSpec
CONSTANTS
    Users = {u1, u2}
    Capacities <- AllKinds
    MaxUpdates = 2
    MaxCancels = 1
INVARIANTS
    LimiterOK
    

    
CHECK_DEADLOCK FALSE
