\* One orchestrator whose calls succeed and that does not crash, one cycle allowed.
SPECIFICATION Spec
CONSTANTS
    A1 = A1
    A2 = A2
    Orchestrators <- OneOrchestrator
    Reviewers <- OneReviewer
    Addressers <- OneAddresser
    Home <- HomeOne
    MaxCycles = 1
    MaxHead = 2
    MaxReviews = 2
    PeoplePost <- Comments
    PeopleAsk = FALSE
    Hangs = FALSE
    MaxStops = 0
    MayFail <- NoCalls
PROPERTY CapStopsAddressing
CHECK_DEADLOCK FALSE
