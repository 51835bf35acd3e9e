SPECIFICATION FairSpec
CONSTANTS
    local = local
    remote = remote
    NoChild = NoChild
    Hosts <- LocalAndRemote
    Local <- OneLocal
    Tasks = 2
    FaultKinds = {"raise", "death", "poison", "interrupt", "cancel", "timeout"}
    MaxFaults = 2
INVARIANTS
    AnswersAreCounted
    SuccessIsComplete
PROPERTIES
    NothingPublishedAfterAnswer
    EndsCleanly
CHECK_DEADLOCK FALSE
