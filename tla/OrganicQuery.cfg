SPECIFICATION QuerySpec
CONSTANTS
    Miners = {m1, m2, m3, m4}
    Clients = {c1}
    SampleSize = 3
    SelectCount = 2
    MaxStores = 4
INVARIANTS
    QueryTypeOK

    
