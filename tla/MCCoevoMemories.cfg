SPECIFICATION CoevoSpec
CONSTANTS
    Rows = {r1, r2}
    r1 = r1
    r2 = r2
    r3 = r3
    Rank <- ByRelevance
    Empties = {}
    Ties = FALSE
    Sessions = {s1}
    Limit = 1
    Lookback = 9
    MaxTime = 3
    MaxFaults = 0
    NoMark = NoMark
INVARIANTS
    NothingSkipped
