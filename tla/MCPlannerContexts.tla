------------------------- MODULE MCPlannerContexts --------------------------
(***************************************************************************)
(* Two join problems: rels 1 to 3, then their join with rels 4 and 5.      *)
(***************************************************************************)
EXTENDS PlannerContexts

TwoProblems ==
  <<[items |-> {{1}, {2}, {3}},
     joins |-> {{1, 2}, {1, 3}, {1, 2, 3}}],
    [items |-> {{1, 2, 3}, {4}, {5}},
     joins |-> {{4, 5}, {1, 2, 3, 4}, {1, 2, 3, 4, 5}}]>>
=============================================================================
