SPECIFICATION Spec
CONSTANTS
  n_rels = 3
  JoinTypes = {"INNER", "LEFT", "FULL", "SEMI", "ANTI"}
  MaxQuals = 2
  MaxQualRels = 3
  MaxFroms = 1
  from_collapse_limit = 8
  join_collapse_limit = 8
  DBL_MAX = 1000000
  NoRel = NoRel
INVARIANTS
  EveryOrderBuilds
  SpecialJoinsPerformed
CHECK_DEADLOCK FALSE
