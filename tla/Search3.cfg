SPECIFICATION Spec
CONSTANTS
  levels_needed = 3
  n_workers = 4
  Queries <- ScatteredQueries
  Eval <- TiedEval
  NULL = NULL
PROPERTIES
  Terminates
  ImplementsPlanner
CHECK_DEADLOCK FALSE
