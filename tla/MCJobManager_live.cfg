SPECIFICATION FairSpec
CONSTANTS
    r1 = r1
    r2 = r2
    t1 = t1
    t2 = t2
    j1 = j1
    j2 = j2
    Runs = {r1}
    Targets = {t1, t2}
    TargetOf <- OnlyOne
    Jobs = {j1, j2}
    NoJob = NoJob
    NoRun = NoRun
    MaxConcurrent = 1
    MaxCrashes = 1
    Preempt = FALSE
    Obedient = {j1}
    Faulty = {"create"}
PROPERTIES StopCompletes ShutdownEnds
INVARIANT ConcurrencyLimit
