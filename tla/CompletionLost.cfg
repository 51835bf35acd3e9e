SPECIFICATION FairSpec
CONSTANTS
    Schedule <- CompletedBy
    Hosts <- OneCoreEach
    Workers <- MCWorkers
    Clients <- MCClients
    AssignedWorker <- MCAssignedWorker
    NumRows <- MCNumRows
    Allocations <- MCAllocations
    MaxRequests = 1
    Quiet = TRUE
    Faults = FALSE
    PromptStart = FALSE
PROPERTY BenchmarkEnds
CHECK_DEADLOCK FALSE
