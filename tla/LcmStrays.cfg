SPECIFICATION StoreSpec
CONSTANTS
    FreshTail = 1
    MinFanout = 2
    Sessions = {general, other}
    General = general
    Payloads = {p}
    Paths = {a, b}
    ListCap = 1
    Nothing = Nothing
    MaxStored = 4
    MaxBreaks = 1
INVARIANT FoundFromHere
