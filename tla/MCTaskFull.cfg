SPECIFICATION Spec
CONSTANTS
    Tasks = {t1, t2}
    Workers = {w1}
    Consumers = {c1, c2}
    Reapers = {"watchdog"}
    Attempts = {a1, a2}
    Capacity = 1
    MaxFaults = 0
    None = None
INVARIANTS
    NothingLostWithoutFault
