SPECIFICATION RSpec
CONSTANTS
  n_rels = 3
  JoinTypes = {"INNER", "LEFT", "FULL", "SEMI", "ANTI"}
  MaxQuals = 1
  MaxQualRels = 2
  MaxFroms = 1
  FromJoinTypes = {"LEFT"}
  from_collapse_limit = 8
  join_collapse_limit = 8
  DBL_MAX = 1000000
  NoRel = NoRel
INVARIANT
  PlansEquivalent
CHECK_DEADLOCK FALSE
