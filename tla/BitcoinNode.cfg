SPECIFICATION MinerSpec
CONSTANTS
    Chunks = 2
    Retries = 2
    ToAvoid = {1}
    MaxHeight = 2
    Address = {"a", "b"}
    Blocks <- RichBlocks
    MaxLost = 1
    Last6 <- Endings
    Elsewhere <- Twin
CHECK_DEADLOCK FALSE
INVARIANTS
    TypeOK
    MinerAgrees
    SynchronisedPasses
    PassIsEarned
    EveryBlockOnce
    NewerIsLikelier
PROPERTIES
    TerminateEndsCreation
