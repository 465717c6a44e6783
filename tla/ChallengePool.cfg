SPECIFICATION Spec
CONSTRAINT Explored
CONSTANTS
    Threshold = 2
    Confirmations = 1
    MaxReorg = 1
    InitTip <- ApartTips
    MaxHeight = 4
    MaxFork = 1
    MaxClock = 3
INVARIANTS
    TypeOK
    ThresholdBound
    HonestMinerPasses
PROPERTIES
    PoolsServed
    FundsFlowPool
    BalancePool
