SPECIFICATION MCSpec
CONSTANTS
  Runs = {r1, r2}
  Dirs = {d1}
  Keys = {k1, k2}
  Jobs = {j1}
  Requests = {q1, q2}
  None = None
  u1 = u1  f = f  g = g
  r1 = r1  r2 = r2  d1 = d1  k1 = k1  q2 = q2  e1 = e1
  Units = {u1}
  Findings = {f, g}
  UnitOf <- MCUnitOf
  Severe = {f}
  Commits = {old, new}
  FirstCommit = old
  Forbidding = {new}
  MaxParallel = 2
  MaxAttempts = 2
  Invalid = Invalid
  Calls = {c1}
  MaxSteps = 5
  MaxTokens = 2
  MaxCharged = 3
  AgentTasks = {t1, t2, t3}
  Heavy = {t3}
  MaxBackfill = 1
  MaxRuns = 2
  MaxCalls = 3
  Invocations = {i1, i2}
  Executions = {e1, e2}
INVARIANTS AllTyped EvaluatedAsFound DoneMeansSettled DisclosureHasEvidence LastStageIsOfThisAttempt RecordIsFaithful IndexIsComplete CleanupIsExact LinkedEvidenceExists OriginalKept
CHECK_DEADLOCK FALSE
