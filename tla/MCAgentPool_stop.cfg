SPECIFICATION Spec
CONSTANTS
    u1 = u1
    u2 = u2
    Units = {u1, u2}
    Rude = {}
    MaxParallel = 2
    MaxTries = 1
INVARIANT AgentsEndWithJob
CHECK_DEADLOCK FALSE
