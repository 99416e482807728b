CONSTANTS
    Handles = {"h1", "h2"}
    IdOf <- SameId
    Servers = {"s1", "s2"}
    Home = "s1"
    None = None
    Wants = {1, 2}
    Capacities = {0, 1}
    ChannelSize = 1
    MaxFaults = 1
SPECIFICATION Spec
INVARIANTS TypeOK ClaimsAreExclusive WakeUpsAreTimely ReleasedCapacityIsFree
PROPERTIES CallsReturn AsksAreHeard
CHECK_DEADLOCK FALSE
