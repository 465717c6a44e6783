SPECIFICATION ApiSpec
CONSTANTS
    Addresses = {"x", "y", "z"}
    Transactions = {"p", "q", "mint"}
    Sent <- SmallSent
    Queries = {"blocks"}
    Hops = 4
    MaxRecords = 1
    MaxRequests = 1
    Window = 1
    MaxNow = 2
INVARIANTS
    EdgesArePayments
