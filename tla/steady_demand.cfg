SPECIFICATION Spec
CONSTANTS
    NumClients = 3
    Scenarios <- BothAlgorithms
    Demands <- ThreeDemands
    MaxChanges = 1
PROPERTIES
    EveryoneIsSatisfied
    EqualShareIsGuaranteed
    LeasesSettle
