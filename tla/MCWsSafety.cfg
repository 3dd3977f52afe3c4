SPECIFICATION Spec
CONSTANTS
    Sockets = {s1, s2}
    ClientIds = {i1, i2}
    ChosenIds = {i1}
    Users = {u1, u2}
    Tasks = {t1}
    Callbacks = {"result"}
    Others = {"timeout", "progress"}
    MaxDeliveries = 2
    Anonymous = Anonymous
    None = None
SYMMETRY Symmetry
INVARIANTS
    NoGhost
    LiveIsReachable
    DeliveredToAddressee
CHECK_DEADLOCK FALSE
