SPECIFICATION ProgressSpec
CONSTANTS
    Sockets = {s1, s2}
    ClientIds = {i1, i2}
    ChosenIds = {}
    Users = {u1}
    Tasks = {t1}
    Callbacks = {}
    Others = {"timeout"}
    MaxDeliveries = 1
    Anonymous = Anonymous
    None = None
    Workers = {w1}
    Checkers = {m}
    Maintainers = {m}
    Threshold = 3
    MaxLapses = 1
    NoEntry = NoEntry
    Rows = {r1, r2, r3}
    r1 = r1
    r2 = r2
    r3 = r3
    Rank <- ByTime
    Empties = {r3}
    Ties = FALSE
    Sessions = {x1}
    Limit = 2
    Lookback = 2
    MaxTime = 3
    MaxFaults = 1
    NoMark = NoMark
    Conversations <- TwoOfThem
    Runs = {x1, x2}
    Batch = 1
    MaxStops = 1
    MaxCount = 2
    Components = {gateway, workers}
    MaxPid = 4
    MaxSignals = 2
    MaxStopped = 1
    NoComponent = NoComponent
    Messages = {m1}
    Retries = 3
    MaxOutages = 2
INVARIANTS
    ProgressTypesOK
    NothingSkipped
    ExtractedOnce
    OneOfEach
PROPERTIES
    SnapshotServed
    FailsAreConsecutive
    GoneNeverChosen
    ImplementsCopy
    NoneForgotten
    ComponentRestarted
    ReplyFinal
    ReplyShown
CHECK_DEADLOCK FALSE
