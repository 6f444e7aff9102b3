--------------------------- MODULE QueryPlanning ----------------------------
(***************************************************************************)
(* Composition of deconstruct_jointree with parallel_eval: what the join   *)
(* orders that the search proposes come to for the queries that reach it.  *)
(* make_rel_from_joinlist turns every sub-joinlist of the query into a     *)
(* join problem of its own, with one initial_rel per item.                 *)
(***************************************************************************)
EXTENDS DeconstructJointree, ParallelEval

\* NULL is not a RelOptInfo.
ASSUME NoRelAssumption == NoRel \notin [relids : SUBSET BaseRels, joins : SUBSET SUBSET SUBSET BaseRels]

Finished == Len(forest) = 1

Problems == problems \cup Cut(forest[1])

Query(problem) ==
  [join_info_list |-> join_info_list, clauses |-> clauses, initial_rels |-> problem]

OrdersOfLength == [n \in 1 .. n_rels |-> {o \in [1 .. n -> 0 .. n - 1] : IsInjective(o)}]

JoinOrders(problem) == OrdersOfLength[Len(problem)]

-----------------------------------------------------------------------------
(***************************************************************************)
(* Whatever join order the search settles on, the final call of            *)
(* construct_rel_based_on_plan returns a rel and not NULL: the outer joins *)
(* of the query never leave force_merge_clump with two clumps it cannot    *)
(* join.                                                                   *)
(***************************************************************************)
EveryOrderBuilds ==
  Finished => \A problem \in Problems : \A o \in JoinOrders(problem) :
    construct_rel_based_on_plan(Query(problem), o) # NoRel

(***************************************************************************)
(* The rel built for a join order joins every item of the problem: the     *)
(* clumps that force_merge_clump takes out of its list, enlarges and puts  *)
(* back by size never lose a base relation of the query.                   *)
(***************************************************************************)
EveryRelJoined ==
  Finished => \A problem \in Problems : \A o \in JoinOrders(problem) :
    LET rel == construct_rel_based_on_plan(Query(problem), o) IN
    rel # NoRel => rel.relids = Whole(problem)

(***************************************************************************)
(* In the rel built for any join order, each special join of the query is  *)
(* performed by exactly one join: join_is_legal neither loses an outer     *)
(* join by letting its two sides meet in pieces, nor performs one twice.   *)
(* (A special join inside one item of the problem was performed when that  *)
(* item was planned.)                                                      *)
(***************************************************************************)
InItem(sj, problem) ==
  \E i \in DOMAIN problem : sj.min_lefthand \cup sj.min_righthand \subseteq problem[i]

SpecialJoinsPerformed ==
  Finished => \A problem \in Problems : \A o \in JoinOrders(problem) :
    LET rel == construct_rel_based_on_plan(Query(problem), o) IN
    rel # NoRel => \A sj \in join_info_list :
      sj.min_lefthand \cup sj.min_righthand \subseteq rel.relids /\ ~ InItem(sj, problem) =>
        Cardinality({join \in rel.joins : PerformedAt(sj, join)}) = 1

(***************************************************************************)
(* For a query of inner joins the rel built is the left-deep one that the  *)
(* search had in mind: the k-th join adds item k+1 of the order to the     *)
(* first k, also where try_merge_clump finds no join clause and leaves the *)
(* rest to force_merge_clump.                                              *)
(***************************************************************************)
LeftDeepJoins(problem, o) ==
  {{UNION {problem[o[l] + 1] : l \in 1 .. k}, problem[o[k + 1] + 1]} : k \in 1 .. Len(o) - 1}

LeftDeepIfInner ==
  Finished /\ join_info_list = {} => \A problem \in Problems : \A o \in JoinOrders(problem) :
    construct_rel_based_on_plan(Query(problem), o).joins = LeftDeepJoins(problem, o)

(***************************************************************************)
(* README.md, Limitations: "Doesn't evaluate bushy plans or arbitrary      *)
(* binary trees."  Every join has an item of the problem as an input.      *)
(***************************************************************************)
NoBushyPlans ==
  Finished => \A problem \in Problems : \A o \in JoinOrders(problem) :
    \A join \in construct_rel_based_on_plan(Query(problem), o).joins :
      \E i \in DOMAIN problem : problem[i] \in join
=============================================================================
