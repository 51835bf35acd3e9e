SPECIFICATION Spec
CONSTANTS
    h1 = h1
    h2 = h2
    e1 = e1
    e2 = e2
    e3 = e3
    Hosts <- TwoHosts
    Executors <- ThreeExecutors
    HostOf <- TwoAndOne
    Processors = 2
    TaskCount <- SomeTasks
    MaxFailures = 2
    MaxCrashes = 1
    c1 = c1
    c2 = c2
    c3 = c3
    Consumers <- ThreeConsumers
    NumChunks = 4
    Plimsoll = 2
    Ballast = 1
    PromptOpen = TRUE
INVARIANT
    ChunksAreReadOnce
PROPERTIES
    PreparationIsOrderly
    DocumentsArrive
CHECK_DEADLOCK FALSE
