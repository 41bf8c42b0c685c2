SPECIFICATION Spec
CONSTANTS
    r1 = r1
    r2 = r2
    t1 = t1
    t2 = t2
    j1 = j1
    j2 = j2
    Runs = {r1, r2}
    Targets = {t1, t2}
    TargetOf <- TwoCheckouts
    Jobs = {j1, j2}
    NoJob = NoJob
    NoRun = NoRun
    MaxConcurrent = 2
    MaxCrashes = 1
    Preempt = FALSE
    Obedient = {j1, j2}
    Faulty = {"finish", "artifacts", "reproduction"}
SYMMETRY JobSymmetry
VIEW UsedSlots
INVARIANTS TypeOK OneJobPerCheckout RunningRowHasOwner WorkingAuditHasRunningRow ReportedIsRecorded
PROPERTIES CompletionIsFinal ResultNotDropped InterruptedIsResumable
