SPECIFICATION Spec
CONSTANTS
    MaxElements = 2
    MaxSubTasks = 3
    MaxSubClients = 2
    MaxHosts = 3
    MaxCores = 2
    CorpusSizes = {1, 4, 7}
    BulkConfigurations <- SomeBulks
    OffsetEvery = 2
    MaxCalls = 4
    WorkloadSpecs <- SomeSpecs
    LoadOptions <- SomeOptions
    Queries <- SomeQueries
    PoolSize = 3
    Weights <- Harmonic
    Steps = 6
    MaxDraws = 9
INVARIANTS
    AllocationIsExact
    DocumentsAreShared
    WorkloadIsKept
    BranchFits
PROPERTY
    QueriesRepeat
CHECK_DEADLOCK FALSE
