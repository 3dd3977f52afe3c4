SPECIFICATION FairSpec
CONSTANTS
    Tasks = {t1}
    Workers = {w1, w2}
    Consumers = {c1}
    Reapers = {"watchdog", "maintainer"}
    Attempts = {a1, a2}
    Capacity = 2
    MaxFaults = 1
    None = None
PROPERTIES
    ImplementsResult
    PushedTaskRuns
    FreeWorkerAdvertised
