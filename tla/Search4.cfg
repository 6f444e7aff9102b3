SPECIFICATION Spec
CONSTANTS
  levels_needed = 4
  n_workers = 4
  Queries <- ScatteredQueries
  Eval <- TiedEval
  NULL = NULL
INVARIANTS
  TypeOK
  NoNullDeref
  JoinResultsExact
  TableSound
  ResultSound
  TableOptimal
  Optimal
PROPERTIES
  SubplansFinal
CHECK_DEADLOCK FALSE
