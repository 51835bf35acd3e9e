SPECIFICATION FairSpec
CONSTANTS
    w1 = w1
    w2 = w2
    c1 = c1
    c2 = c2
    c3 = c3
    Workers <- TwoWorkers
    Clients <- ThreeClients
    AssignedWorker <- ThreeOnTwo
    NumberOfSteps = 2
    ScaleStep = 2
    ScaleDownPct = 10
    SleepSeconds = 4
    ErrorCeiling = 5
    ProbeInterval = 2
    QueueSize = 2
    MaxDelay = 2
    MaxErrors = 3
INVARIANT
    ActiveCounted
PROPERTIES
    ErrorsLowerLoad
    RecoveryAfterSleep
    FullLoadReached
CHECK_DEADLOCK FALSE
