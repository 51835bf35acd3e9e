SPECIFICATION Spec
CONSTANTS
    c1 = c1
    c2 = c2
    Clients <- TwoClients
    Scenarios <- AllScenarios
    Weights = {1, 2}
    BaseTimeout = 2
    ErrorQueueSize = 2
    MaxTime = 14
    o1 = o1
    o2 = o2
    coll = coll
    Callers <- Two
    Scripts <- AllScripts
    Names = {coll}
    PoolSize = 2
    MaxPolls = 2
    MaxFaults = 2
INVARIANTS
    ErrorsHaveConsequences
    OperationsAreHonest
PROPERTIES
    ScheduleIsKept
    ClientsEnd
CHECK_DEADLOCK FALSE
