------------------------- MODULE LeftDeepOptimality -------------------------
(***************************************************************************)
(* What the search promises when the cost of a join order depends on its   *)
(* prefix only through the prefix's set of relations and cost: the plan of *)
(* least cost among all left-deep join orders.                             *)
(***************************************************************************)
EXTENDS ParallelJoinSearch

(***************************************************************************)
(* A dearer way to join the same relations never makes a later join        *)
(* cheaper.                                                                *)
(***************************************************************************)
ASSUME OptimalSubstructure ==
  \A r \in Queries : \A S \in (SUBSET Rels) \ {{}} : \A u \in Rels \ S :
    \A s, t \in Orders(S) :
      Eval(r, s) <= Eval(r, t) =>
        Eval(r, merge(s, create_leaf(u))) <= Eval(r, merge(t, create_leaf(u)))

(***************************************************************************)
(* Every subset the worker is done with has the cheapest of its admissible *)
(* orders in the DP table.                                                 *)
(***************************************************************************)
TableOptimal ==
  pc = "next" =>
    \A S \in SUBSET Rels :
      Cardinality(S) > 1 /\ Admissible(constr, S) /\ S \notin join_res =>
        /\ P[S] # NULL
        /\ \A o \in AdmissibleOrders(constr, S) : P[S].cost <= Eval(root, o)

(***************************************************************************)
(* The order built is the cheapest of all left-deep orders ("We find the   *)
(* optimal left deep join plan", src/README.md): the partitions of the     *)
(* workers cover the whole space and each is searched to its optimum.      *)
(***************************************************************************)
Optimal == pc = "done" => \A o \in Orders(Rels) : Eval(root, result) <= Eval(root, o)

(***************************************************************************)
(* The search implements OptimalPlanner over the left-deep orders.         *)
(***************************************************************************)
Planner == INSTANCE OptimalPlanner WITH Plans <- Orders(Rels), Cost <- Eval

ImplementsPlanner == Planner!Spec

(***************************************************************************)
(* An inductive strengthening of Optimal, on top of IInv: the subsets done *)
(* are at their optimum, the splits tried so far are not cheaper than the  *)
(* entry, and no order of an earlier worker's partition beats best.        *)
(***************************************************************************)
SubsetsOptimal ==
  pc \in {"next", "split"} =>
    \A S \in AdmissibleSubsets(constr, Rels) :
      Cardinality(S) > 1 /\ S \notin join_res /\ ~ (pc = "split" /\ S = q) =>
        \A o \in AdmissibleOrders(constr, S) : P[S].cost <= Eval(root, o)

TriedSplits ==
  pc = "split" =>
    \A u \in q \ us :
      valid(constr, q, u) =>
        P[q] # NULL /\ P[q].cost <= Eval(root, merge(P[q \ {u}].root, create_leaf(u)))

BestOptimal ==
  \A w \in 0 .. part_id - 1 :
    \A o \in AdmissibleOrders(part_constraints(w), Rels) : best.cost <= Eval(root, o)

OInv == SubsetsOptimal /\ TriedSplits /\ BestOptimal /\ (pc # "done" => result = NULL)
=============================================================================
