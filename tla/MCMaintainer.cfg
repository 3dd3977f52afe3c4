SPECIFICATION SchedulerFairSpec
CONSTANTS
    Jobs = {j1}
    Internals = {m}
    Lambdas = {m}
    Crons = {c1}
    BuiltIn = BuiltIn
    Truncated = Truncated
    MaxChanges = 0
    MaxEnds = 0
PROPERTIES
    MaintainerRuns
CHECK_DEADLOCK FALSE
