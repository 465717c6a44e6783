SPECIFICATION Spec
CONSTANTS
    Threshold = 1
    Confirmations = 1
    MaxReorg = 1
    InitTip <- OverlapTips
    MaxHeight = 2
    MaxFork = 1
    MaxClock = 3
INVARIANT
    KeyIsChallengedBlock
