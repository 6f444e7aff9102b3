SPECIFICATION Spec
CONSTANTS
  n_rels = 4
  JoinTypes = {"INNER", "LEFT"}
  MaxQuals = 1
  MaxQualRels = 2
  MaxFroms = 0
  from_collapse_limit = 8
  join_collapse_limit = 8
  DBL_MAX = 1000000
  NoRel = NoRel
INVARIANT
  NoBushyPlans
CHECK_DEADLOCK FALSE
