SPECIFICATION Spec
CONSTANTS
    NumClients = 2
    Resources = {"r1", "r2"}
    Configs <- SharingConfigs
    Methods = {"GetCapacity"}
    Wants = {50}
    Claims = {0}
    SubclientCounts = {1}
    Outcomes = {TRUE}
    MaxTerms = 1
    MaxAge = 1
    MaxRaces = 1
INVARIANTS
    TypeOK
    
    ConfigInForce
    
    AnswersAreRecorded
    NobodyOvercommits
