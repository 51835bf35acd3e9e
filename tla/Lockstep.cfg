SPECIFICATION Spec
CONSTANTS
    Schedule <- CompletedByShared
    Hosts <- OneCoreEach
    Workers <- MCWorkers
    Clients <- MCClients
    AssignedWorker <- MCAssignedWorker
    NumRows <- MCNumRows
    Allocations <- MCAllocations
    MaxRequests = 1
    Quiet = FALSE
    Faults = TRUE
    PromptStart = FALSE
INVARIANTS
    TypeOK
    CompletionsCounted
    OneReasonToDrive
    EventsAreJustified
    SampleInOnePlace
PROPERTY
    StepsInLockstep
CHECK_DEADLOCK FALSE
