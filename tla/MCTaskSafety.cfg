SPECIFICATION Spec
CONSTANTS
    Tasks = {t1, t2}
    Workers = {w1}
    Consumers = {c1, c2}
    Reapers = {"watchdog"}
    Attempts = {a1, a2}
    Capacity = 1
    MaxFaults = 1
    None = None
SYMMETRY Symmetry
INVARIANTS
    SlotsMatchAttempts
    AtMostOnce
    Accounted
PROPERTIES
    CompletedStays
