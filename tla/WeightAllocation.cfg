SPECIFICATION Spec
CONSTANTS
    BaseBitcoin = 67
    BaseCommune = 33
    Few = 3
    AllowedCounts <- MCAllowedCounts
    Spare = 1
    Multipliers <- MCMultipliers
    PromptCounts <- MCPrompts
CONSTRAINT
    Explored
INVARIANTS
    TypeOK
    ScoreAtMostOne
    InfluenceFloor
    VoteFollowsScores
    VoteWithinBudget
    EveryScoreCounts
