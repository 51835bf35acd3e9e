SPECIFICATION FairSpec
CONSTANTS
    Schedule <- CompletedBy
    Hosts <- OneCoreEach
    Workers <- MCWorkers
    Clients <- MCClients
    AssignedWorker <- MCAssignedWorker
    NumRows <- MCNumRows
    Allocations <- MCAllocations
    MaxRequests = 1
    Quiet = TRUE
    Faults = TRUE
    PromptStart = TRUE
INVARIANT
    JoinPointsComplete
PROPERTY
    BenchmarkEnds
CHECK_DEADLOCK FALSE
