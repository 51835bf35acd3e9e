SPECIFICATION Spec
CONSTANTS
    Order <- SomeDevices
    MaxSteps = 2
    MaxDocs = 3
    CheckEvery = 2
    MaxWarnings = 1
    Filesystem = TRUE
    Sources = {"v", "w"}
    Bucket = 2
    Horizon = 7
    Batch = 3
    Lag = 1
    MaxBatch = 3
    Tasks = {"index", "commit", "search_2_clients", "search_4_clients"}
    Reported = {"index", "search_2_clients", "search_4_clients"}
    Clients <- NamedClients
    Portions = {1, 4, 11}
    MaxRecords = 2
    LatencyLists = {{5000, 9000, 9990, 10000}, {2500, 3300}}
    ThroughputLists = {{}, {5000, 9900}}
INVARIANTS
    RecordsArrive
    ThroughputIsComplete
    StatisticsAreRight
    ResultsAreShown
PROPERTY
    FlowEnds
CHECK_DEADLOCK FALSE
