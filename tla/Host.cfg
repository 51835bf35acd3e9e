SPECIFICATION Spec
CONSTANTS
    DocumentSets <- SomeDocumentSets
    MaxVersion = 2
    MaxDiskFaults = 2
    Hosts = {"a", "b"}
    Coordinator = "a"
    Requests <- SomeRequests
    MaxPushes = 2
    MaxRevision = 2
    MaxSupplyFaults = 1
    Caching = {TRUE, FALSE}
    HasRemote = {TRUE, FALSE}
    MaxHostFaults = 3
    Pids = {1, 2}
    MaxNodeFaults = 2
    Commands = {"p", "q"}
    Accounts = {"u", "v"}
    MaxIterations = 2
    MaxActorFaults = 1
INVARIANTS
    PreparedIsUsable
    SameRevisionEverywhere
    SuppliedIsRequested
    OwnSolrOnly
PROPERTIES
    NodesAreAccounted
    CommandsDoNotInterfere
    LaterRunsSucceed
CHECK_DEADLOCK FALSE
