SPECIFICATION FairSpec
CONSTANTS
    c1 = c1
    c2 = c2
    Clients = {c1}
    MaxBuffer = 3
    MaxQueue = 2
    MaxEvents = 4
    MaxConnects = 2
INVARIANTS TypeOK NoLostWakeup NewestJobEventKept NothingSkipped
PROPERTIES JobEventsLeaveLast NewestJobEventArrives
CHECK_DEADLOCK FALSE
