SPECIFICATION Spec
CONSTANTS
  u1 = u1  f = f  g = g  old = old  new = new
  Units = {u1}
  Findings = {f, g}
  UnitOf <- OneUnit
  Severe = {f, g}
  Commits = {old, new}
  FirstCommit = old
  Forbidding = {new}
  MaxParallel = 2
  MaxAttempts = 2
  None = None  Invalid = Invalid
INVARIANT ReusedResultsAreOfTheCommit
SYMMETRY Symmetric
CHECK_DEADLOCK FALSE
