SPECIFICATION Spec
CONSTANTS
    r1 = r1
    r2 = r2
    t1 = t1
    t2 = t2
    j1 = j1
    j2 = j2
    Runs = {r1}
    Targets = {t1}
    TargetOf <- OnlyOne
    Jobs = {j1, j2}
    NoJob = NoJob
    NoRun = NoRun
    MaxConcurrent = 2
    MaxCrashes = 0
    Preempt = TRUE
    Obedient = {j1, j2}
    Faulty = {}
INVARIANT OneJobPerCheckout
