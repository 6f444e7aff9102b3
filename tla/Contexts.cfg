SPECIFICATION Spec
CONSTANTS
  Problems <- TwoProblems
  HashThreshold = 1
  MaxEvals = 2
  NULL = NULL
INVARIANTS
  NothingDangles
  HashAgrees
  EvaluationsIsolated
CHECK_DEADLOCK FALSE
