SPECIFICATION StreamFairSpec
CONSTANTS
    c1 = c1
    c2 = c2
    c3 = c3
    Consumers <- TwoConsumers
    NumChunks = 4
    Plimsoll = 2
    Ballast = 1
    PromptOpen = TRUE
PROPERTY ChunkProcessedLater
CHECK_DEADLOCK FALSE
