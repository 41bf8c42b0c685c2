SPECIFICATION Spec
CONSTANTS
    c1 = c1
    c2 = c2
    Clients = {c1, c2}
    MaxBuffer = 4
    MaxQueue = 4
    MaxEvents = 3
    MaxConnects = 1
INVARIANT NoEventTwice
CHECK_DEADLOCK FALSE
