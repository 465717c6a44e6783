SPECIFICATION FairSpec
CONSTANT
    MaxSignals = 1
PROPERTY
    SignalEndsProcess
CHECK_DEADLOCK FALSE
