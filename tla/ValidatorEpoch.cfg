SPECIFICATION FairSpec
CONSTANTS
    v = v
    a = a
    b = b
    c = c
    Keys <- MCKeys
    Self = v
    Uids <- ThreeUids
    InitOwner <- ThreeOwners
    Unaddressed = {c}
    Multipliers = {100}
    BaseBitcoin = 67
    BaseCommune = 33
    MaxAllowed = 2
    MaxChurn = 1
    MaxFaults = 1
    MaxTotal = 4
INVARIANTS
    VoteIsEarned
    CountersAgree
    FileReadable
PROPERTIES
    EpochsVote
    ScoringGoesOn
