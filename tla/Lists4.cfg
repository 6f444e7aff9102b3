SPECIFICATION Spec
CONSTANTS
  levels_needed = 4
  n_workers = 4
  Queries <- CheapResults
  Eval <- TiedEval
  NULL = NULL
INVARIANTS
  ListsWithoutRepetition
PROPERTIES
  ImplementsSearch
CHECK_DEADLOCK FALSE
