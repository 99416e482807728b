SPECIFICATION Spec
CONSTANTS
    NumClients = 2
    Resources = {"r1"}
    Configs <- OneStatic
    Methods = {"GetCapacity", "GetServerCapacity", "ReleaseCapacity"}
    Wants = {50}
    Claims = {0}
    SubclientCounts = {1}
    Outcomes = {TRUE, FALSE}
    MaxTerms = 1
    MaxAge = 0
    MaxRaces = 1
PROPERTIES
    LeasesSurviveOthers
    CallsComplete
