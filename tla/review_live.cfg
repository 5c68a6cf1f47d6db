\* One orchestrator whose calls succeed and that does not crash.
SPECIFICATION FairSpec
CONSTANTS
    A1 = A1
    A2 = A2
    Orchestrators <- OneOrchestrator
    Reviewers <- OneReviewer
    Addressers <- OneAddresser
    Home <- HomeOne
    MaxCycles = 3
    MaxHead = 2
    MaxReviews = 2
    PeoplePost <- Nothing
    PeopleAsk = FALSE
    Hangs = FALSE
    MaxStops = 0
    MayFail <- NoCalls
PROPERTIES HeadIsReviewed ReviewIsAnswered
