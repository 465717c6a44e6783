SPECIFICATION ApiSpec
CONSTANTS
    Addresses = {"x", "y", "z"}
    Transactions = {"p", "q", "mint"}
    Sent <- SmallSent
    Queries = {"blocks", "around", "address", "right", "left"}
    Hops = 4
    MaxRecords = 3
    MaxRequests = 2
    Window = 3
    MaxNow = 4
INVARIANTS
    TypeOK
    DrawnOnce
    EdgesHaveNodes
    SentAsPaid
    LimitHolds
