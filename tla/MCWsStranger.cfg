SPECIFICATION Spec
CONSTANTS
    Sockets = {s1, s2}
    ClientIds = {i1, i2}
    ChosenIds = {}
    Users = {u1, u2}
    Tasks = {t1}
    Callbacks = {"result"}
    Others = {}
    MaxDeliveries = 2
    Anonymous = Anonymous
    None = None
INVARIANTS
    ResultOnlyToOwner
CHECK_DEADLOCK FALSE
