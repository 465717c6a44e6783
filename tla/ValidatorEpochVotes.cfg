SPECIFICATION FairSpec
CONSTANTS
    v = v
    a = a
    b = b
    c = c
    Keys <- MCKeys
    Self = v
    Uids <- TwoUids
    InitOwner <- TwoOwners
    Unaddressed = {c}
    Multipliers = {100}
    BaseBitcoin = 67
    BaseCommune = 33
    MaxAllowed = 2
    MaxChurn = 0
    MaxFaults = 1
    MaxTotal = 2
PROPERTY
    VotesGoOn
