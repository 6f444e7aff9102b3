SPECIFICATION Spec
CONSTANTS
  levels_needed = 5
  n_workers = 4
  Queries <- FiveRels
  Eval <- PlanCost
  NULL = NULL
  DBL_MAX = 100000
CHECK_DEADLOCK FALSE
INVARIANT
  OptimalOrder
