SPECIFICATION Spec
CONSTANTS
    NumClients = 2
    Templates <- ChangingTemplates
    Expiries <- ParentExpiries
    Ages = {0, 1}
    Wants <- TwoWants
    Claims <- SomeClaims
    SubclientCounts = {1, 2}
INVARIANTS
    TypeOK
    SumsMatchLeases
    
PROPERTIES
    LiveLeasesAreKept
    SharingNeverOvercommits
    ImplementsPool
