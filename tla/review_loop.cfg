\* One orchestrator, releasing may fail, one crash, containers may outlast their dispatch.
SPECIFICATION Spec
CONSTANTS
    A1 = A1
    A2 = A2
    Orchestrators <- OneOrchestrator
    Reviewers <- OneReviewer
    Addressers <- TwoAddressers
    Home <- HomeSolo
    MaxCycles = 2
    MaxHead = 2
    MaxReviews = 1
    PeoplePost <- AskForChanges
    PeopleAsk = TRUE
    Hangs = TRUE
    MaxStops = 1
    MayFail <- Deletions
INVARIANTS TypeOK AnsweredOnce
PROPERTY ReviewedHeadNotRequeued
SYMMETRY AddresserSymmetry
