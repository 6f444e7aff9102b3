SPECIFICATION Spec
CONSTANTS
  n_rels = 4
  JoinTypes = {"INNER", "LEFT", "FULL", "SEMI", "ANTI"}
  MaxQuals = 1
  MaxQualRels = 2
  MaxFroms = 0
  from_collapse_limit = 8
  join_collapse_limit = 8
  DBL_MAX = 1000000
  NoRel = NoRel
INVARIANTS
  TypeOK
  ScopesRespected
  EveryOrderBuilds
  EveryRelJoined
  SpecialJoinsPerformed
  LeftDeepIfInner
CHECK_DEADLOCK FALSE
