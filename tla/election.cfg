SPECIFICATION Spec
CONSTANTS
    Servers = {s1, s2}
    None = None
    Delay = 6
    MaxRPC = 1
    Faults = {"rpc", "watch", "crash"}
    MaxFaults = 3
INVARIANTS
    TypeOK
    MastersHoldTheLock
PROPERTIES
    NoNeedlessHandover
    Elected
    StaleMasterIsForgotten
