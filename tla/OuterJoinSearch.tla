--------------------------- MODULE OuterJoinSearch --------------------------
(***************************************************************************)
(* The search run with the costs that parallel_eval finds for a query with *)
(* outer joins.  A query is a root of module ParallelEval.                 *)
(***************************************************************************)
EXTENDS ListJoinSearch

CONSTANT DBL_MAX

PE == INSTANCE ParallelEval WITH NoRel <- NULL

PlanCost(r, o) == PE!parallel_eval(r, o)

(***************************************************************************)
(* README.md, Algorithm: "We find the optimal left deep join plan. [...]   *)
(* Simplest way of finding the optimal plan is to enumerate all            *)
(* permutations and estimate their costs."  No permutation of the          *)
(* relations has a lower cost than the plan that is built.                 *)
(***************************************************************************)
OptimalOrder ==
  pc = "done" => \A o \in Search!Orders(Search!Rels) : best.cost <= Eval(root, o)
=============================================================================
