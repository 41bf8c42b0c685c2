SPECIFICATION FairSpec
CONSTANTS
    u1 = u1
    u2 = u2
    Units = {u1, u2}
    Rude = {u2}
    MaxParallel = 2
    MaxTries = 2
INVARIANTS TypeOK NoAgentLeaks FulfilledIsValid
PROPERTIES CompletionIsEarned StopStartsNothing StopEndsUnits
CHECK_DEADLOCK FALSE
