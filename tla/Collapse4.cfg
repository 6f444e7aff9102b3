SPECIFICATION Spec
CONSTANTS
  n_rels = 4
  JoinTypes = {"INNER", "LEFT", "FULL", "SEMI", "ANTI"}
  MaxQuals = 1
  MaxQualRels = 2
  MaxFroms = 1
  from_collapse_limit = 2
  join_collapse_limit = 2
  DBL_MAX = 1000000
  NoRel = NoRel
INVARIANTS
  ScopesRespected
  JoinlistsNest
  EveryOrderBuilds
CHECK_DEADLOCK FALSE
