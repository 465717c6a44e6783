SPECIFICATION FairSpec
CONSTANT
    MaxSignals = 2
INVARIANT
    EndsInOrder
PROPERTIES
    TerminateEndsProcess
    EpochsGoOn
\* The handler may wait for ever for a lock its own thread holds.
CHECK_DEADLOCK FALSE
