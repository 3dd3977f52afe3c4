SPECIFICATION WorkersSpec
CONSTANTS
    Workers = {w1}
    Checkers = {h, m}
    Maintainers = {m}
    Threshold = 1
    MaxLapses = 1
    NoEntry = NoEntry
    Count = 1
    MinWorkers = 1
    MaxWorkers = 2
    MaxDeaths = 1
    None = None
INVARIANTS
    AtMostMax
    OneServerPerId
PROPERTIES
    LiveWorkerOffered
CHECK_DEADLOCK FALSE
