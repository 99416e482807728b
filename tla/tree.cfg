SPECIFICATION Spec
CONSTANTS
    NumClients = 2
    RootTemplates <- RoomyOrTight
    Default <- DefaultTemplate
    Demands <- FitsRoomy
    OtherWants = {10}
    MinBackoff = 10
    MaxBackoff = 15
    MaxRetries = 2
    MaxEvents = 2
INVARIANTS
    TypeOK
PROPERTIES
    LeavesWithinGrant
    
    
CHECK_DEADLOCK FALSE
