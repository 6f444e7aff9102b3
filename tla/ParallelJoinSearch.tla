------------------------- MODULE ParallelJoinSearch -------------------------
(***************************************************************************)
(* The join-order search of src/src/backend/optimizer/parallel:            *)
(* parallel_join_search runs n_workers workers one after the other; worker *)
(* part_id searches, by dynamic programming over subsets of the relations, *)
(* the left-deep join orders that respect its partition constraints; the   *)
(* cheapest of the workers' plans is built.                                *)
(*                                                                         *)
(* A left-deep BinaryTree is represented by its relids, the order in which *)
(* the relations are joined; a bitmap and an int list without repetitions  *)
(* are represented by the set of relations they hold.  The order of such a *)
(* list only settles which of several equally cheap plans is kept, and the *)
(* model allows any of them (module ListJoinSearch keeps the lists).       *)
(***************************************************************************)
EXTENDS Integers, Sequences, FiniteSets

CONSTANTS
  levels_needed,  \* number of join list items, at least 2
  n_workers,      \* number of partitions of the search space
  Queries,        \* the planner inputs (PlannerInfo *root) considered
  Eval(_, _),     \* Eval(root, order): what parallel_eval returns
  NULL            \* the null pointer

Rels == 0 .. levels_needed - 1

(***************************************************************************)
(* The join orders of a set of relations.                                  *)
(***************************************************************************)
Orders(S) ==
  {o \in [1 .. Cardinality(S) -> S] :
     \A k, l \in 1 .. Cardinality(S) : o[k] = o[l] => k = l}

Plan == [root : Seq(Rels), cost : Nat]

ASSUME LevelsAssumption == levels_needed \in Nat /\ levels_needed >= 2
ASSUME WorkersAssumption == n_workers \in {1, 2, 4}
ASSUME NullAssumption == NULL \notin Plan
ASSUME EvalAssumption ==
  \A r \in Queries : \A S \in (SUBSET Rels) \ {{}} : \A o \in Orders(S) : Eval(r, o) \in Nat

-----------------------------------------------------------------------------
(***************************************************************************)
(* parallel_worker.c: the constraints of a partition.  <<a, b>> says that  *)
(* a is joined before b.                                                   *)
(***************************************************************************)
Shl1 == [i \in 0 .. 30 |-> 2^i]  \* 1 << i, for the shifts a signed int holds

ConstrainedPairs == {i \in 0 .. 30 : Shl1[i] < n_workers /\ 2*i + 1 < levels_needed}

\* Mutant: every worker orients its pairs the same way.
BitSetIgnored(part_id, i) == FALSE

BitSet(part_id, i) == (part_id \div Shl1[i]) % 2 = 1

PairConstraint(part_id, i) ==
  IF BitSet(part_id, i) THEN <<2*i + 1, 2*i>> ELSE <<2*i, 2*i + 1>>

part_constraints(part_id) == {PairConstraint(part_id, i) : i \in ConstrainedPairs}

(***************************************************************************)
(* The nonempty subsets of {q1, q2} that hold no second relation of a      *)
(* constraint without the first.                                           *)
(***************************************************************************)
constrained_power_set(constr, q1, q2) ==
  {S \in {{q1}, {q2}} : \A c \in constr : {c[2]} # S} \cup {{q1, q2}}

\* Mutant: the product alone, without the members of the arguments.
ProductOnly(a, b) ==
  IF a = {} THEN b
  ELSE IF b = {} THEN a
  ELSE {x \cup y : x \in a, y \in b}

(***************************************************************************)
(* parallel_utils.c: in spite of its name, also keeps the members of both  *)
(* arguments.                                                              *)
(***************************************************************************)
cartesian_product(a, b) ==
  IF a = {} THEN b
  ELSE IF b = {} THEN a
  ELSE a \cup b \cup {x \cup y : x \in a, y \in b}

\* Mutant: the wrong member of a constraint is barred.
ValidSwapped(constr, q, u) == \A c \in constr : c[2] = u => c[1] \notin q

(***************************************************************************)
(* try_splits: u may be the right input of the last join of q unless a     *)
(* constraint wants u before another member of q.                          *)
(***************************************************************************)
valid(constr, q, u) == \A c \in constr : c[1] = u => c[2] \notin q

create_leaf(r) == <<r>>

merge(l, r) == l \o r

create_parallel_plan(order, cost) == [root |-> order, cost |-> cost]

-----------------------------------------------------------------------------
VARIABLES
  root,      \* the planner input; no step changes it
  pc,        \* where parallel_join_search and its current worker are
  part_id,   \* the worker that runs; main's loop index
  pair,      \* adm_join_results: index of the next pair of relations
  join_res,  \* adm_join_results: the subsets found; worker: those still to try
  q,         \* try_splits: the subset being split
  us,        \* try_splits: the members of q not yet tried on the right
  P,         \* the worker's DP table
  best,      \* main: the cheapest plan so far
  result     \* the join order that is built and returned, NULL before

vars == <<root, pc, part_id, pair, join_res, q, us, P, best, result>>

constr == part_constraints(part_id)

EmptyTable == [S \in SUBSET Rels |-> NULL]

(***************************************************************************)
(* P[1 << r] for each r, everything else NULL.                             *)
(***************************************************************************)
LeafTable ==
  [S \in SUBSET Rels |->
     IF \E r \in Rels : S = {r}
     THEN create_parallel_plan(create_leaf(CHOOSE r \in Rels : S = {r}), 0)
     ELSE NULL]

Init ==
  /\ root \in Queries
  /\ pc = "adm"
  /\ part_id = 0
  /\ pair = 0
  /\ join_res = {}
  /\ q = {}
  /\ us = {}
  /\ P = EmptyTable
  /\ best = NULL
  /\ result = NULL

\* Mutants: the loop runs once too often; its index is not advanced.
AdmPairOnceMore ==
  /\ pc = "adm"
  /\ 2*pair <= levels_needed
  /\ join_res' = cartesian_product(join_res, constrained_power_set(constr, 2*pair, 2*pair + 1))
  /\ pair' = pair + 1
  /\ UNCHANGED <<root, pc, part_id, q, us, P, best, result>>

AdmPairStays ==
  /\ pc = "adm"
  /\ 2*pair + 1 < levels_needed
  /\ join_res' = cartesian_product(join_res, constrained_power_set(constr, 2*pair, 2*pair + 1))
  /\ UNCHANGED <<root, pc, part_id, pair, q, us, P, best, result>>

(***************************************************************************)
(* One iteration of the loop of adm_join_results.                          *)
(***************************************************************************)
AdmPair ==
  /\ pc = "adm"
  /\ 2*pair + 1 < levels_needed
  /\ join_res' = cartesian_product(join_res, constrained_power_set(constr, 2*pair, 2*pair + 1))
  /\ pair' = pair + 1
  /\ UNCHANGED <<root, pc, part_id, q, us, P, best, result>>

(***************************************************************************)
(* The rest of adm_join_results (an unpaired last relation), and the       *)
(* worker's initialisation of its table.                                   *)
(***************************************************************************)
AdmDone ==
  /\ pc = "adm"
  /\ 2*pair + 1 >= levels_needed
  /\ join_res' = IF 2*pair < levels_needed
                 THEN cartesian_product(join_res, {{2*pair}})
                 ELSE join_res
  /\ P' = LeafTable
  /\ pc' = "next"
  /\ UNCHANGED <<root, part_id, pair, q, us, best, result>>

\* Mutant: the list is not sorted.
UnsortedFirst(S) == S \in join_res

(***************************************************************************)
(* list_qsort(join_res, ptr_less) and the worker's loop over the sorted    *)
(* list: the next subset is one of the smallest left.  qsort is not        *)
(* stable: subsets of one size come in any order.                          *)
(***************************************************************************)
SortedFirst(S) == S \in join_res /\ \A T \in join_res : Cardinality(S) <= Cardinality(T)

NextSubset ==
  /\ pc = "next"
  /\ \E S \in join_res :
       /\ SortedFirst(S)
       /\ join_res' = join_res \ {S}
       /\ IF Cardinality(S) > 1
          THEN q' = S /\ us' = S /\ pc' = "split"
          ELSE UNCHANGED <<q, us, pc>>
  /\ UNCHANGED <<root, part_id, pair, P, best, result>>

(***************************************************************************)
(* One iteration of the loop of try_splits.  A table entry that is NULL is *)
(* dereferenced by merge: "crash".                                         *)
(***************************************************************************)
Splits(u) == P[q \ {u}] # NULL /\ P[{u}] # NULL

NewPlan(u) ==
  LET bt == merge(P[q \ {u}].root, P[{u}].root)
  IN  create_parallel_plan(bt, Eval(root, bt))

\* Mutant: the dearer plan is kept.
Dearer(old, new) == old = NULL \/ old.cost < new.cost

Cheaper(old, new) == old = NULL \/ old.cost > new.cost

\* Mutant: merge extends the left tree's list instead of a copy of it.
TrySplitInPlace ==
  /\ pc = "split"
  /\ \E u \in us :
       /\ us' = us \ {u}
       /\ pc' = IF valid(constr, q, u) /\ ~ Splits(u) THEN "crash"
                ELSE IF us = {u} THEN "next" ELSE "split"
       /\ P' = IF valid(constr, q, u) /\ Splits(u)
               THEN [P EXCEPT ![q \ {u}].root = NewPlan(u).root,
                              ![q] = IF Cheaper(@, NewPlan(u)) THEN NewPlan(u) ELSE @]
               ELSE P
  /\ UNCHANGED <<root, part_id, pair, join_res, q, best, result>>

TrySplit ==
  /\ pc = "split"
  /\ \E u \in us :
       /\ us' = us \ {u}
       /\ pc' = IF valid(constr, q, u) /\ ~ Splits(u) THEN "crash"
                ELSE IF us = {u} THEN "next" ELSE "split"
       /\ P' = IF valid(constr, q, u) /\ Splits(u) /\ Cheaper(P[q], NewPlan(u))
               THEN [P EXCEPT ![q] = NewPlan(u)]
               ELSE P
  /\ UNCHANGED <<root, part_id, pair, join_res, q, best, result>>

\* Mutant: main keeps the last worker's plan.
LastWorkerReturns ==
  /\ pc = "next"
  /\ join_res = {}
  /\ best' = P[Rels]
  /\ pc' = IF part_id + 1 < n_workers THEN "adm" ELSE "construct"
  /\ part_id' = part_id + 1
  /\ pair' = 0
  /\ UNCHANGED <<root, join_res, q, us, P, result>>

(***************************************************************************)
(* The worker returns P[(1 << levels_needed) - 1]; main keeps the cheaper  *)
(* plan and starts the next worker.                                        *)
(***************************************************************************)
WorkerReturns ==
  /\ pc = "next"
  /\ join_res = {}
  /\ LET that == P[Rels] IN
     /\ best' = IF part_id = 0 THEN that
                ELSE IF that # NULL /\ best # NULL /\ that.cost < best.cost THEN that
                ELSE best
     /\ pc' = IF part_id > 0 /\ (that = NULL \/ best = NULL) THEN "crash"
              ELSE IF part_id + 1 < n_workers THEN "adm" ELSE "construct"
  /\ part_id' = part_id + 1
  /\ pair' = 0
  /\ UNCHANGED <<root, join_res, q, us, P, result>>

\* Mutant: the last worker's plan is built instead of the best one.
ConstructLast ==
  /\ pc = "construct"
  /\ pc' = IF P[Rels] = NULL THEN "crash" ELSE "done"
  /\ result' = IF P[Rels] = NULL THEN NULL ELSE P[Rels].root
  /\ UNCHANGED <<root, part_id, pair, join_res, q, us, P, best>>

(***************************************************************************)
(* construct_rel_based_on_plan(root, levels_needed, initial_rels,          *)
(* best->root).                                                            *)
(***************************************************************************)
Construct ==
  /\ pc = "construct"
  /\ pc' = IF best = NULL THEN "crash" ELSE "done"
  /\ result' = IF best = NULL THEN NULL ELSE best.root
  /\ UNCHANGED <<root, part_id, pair, join_res, q, us, P, best>>

Next == AdmPair \/ AdmDone \/ NextSubset \/ TrySplit \/ WorkerReturns \/ Construct

(***************************************************************************)
(* The backend runs the search to its end without waiting for anything, so *)
(* a step that can be taken is taken.                                      *)
(***************************************************************************)
Spec == Init /\ [][Next]_vars /\ WF_vars(Next)

-----------------------------------------------------------------------------
TypeOK ==
  /\ root \in Queries
  /\ pc \in {"adm", "next", "split", "construct", "done", "crash"}
  /\ part_id \in 0 .. n_workers
  /\ pair \in Nat
  /\ join_res \subseteq SUBSET Rels
  /\ q \subseteq Rels
  /\ us \subseteq q
  /\ P \in [SUBSET Rels -> Plan \cup {NULL}]
  /\ best \in Plan \cup {NULL}
  /\ result \in Seq(Rels) \cup {NULL}

(***************************************************************************)
(* A set of relations the constraints allow as an intermediate join        *)
(* result, and a join order they allow.                                    *)
(***************************************************************************)
Closed(cs, S) == \A c \in cs : c[2] \in S => c[1] \in S

Admissible(cs, S) == S # {} /\ Closed(cs, S)

AdmissibleSubsets(cs, A) == {S \in SUBSET A : Admissible(cs, S)}

Respects(cs, o) == \A c \in cs : \A k, l \in DOMAIN o : o[k] = c[1] /\ o[l] = c[2] => k < l

AdmissibleOrders(cs, S) == {o \in Orders(S) : Respects(cs, o)}

(***************************************************************************)
(* No null pointer is dereferenced: when try_splits combines P[l_bitmp]    *)
(* and P[1 << u] both have been filled (the sort by size, the choice of    *)
(* join_res and of valid[] see to that), and every worker returns a plan.  *)
(***************************************************************************)
NoNullDeref == pc # "crash"

(***************************************************************************)
(* adm_join_results: after the first pairs of relations join_res holds     *)
(* exactly the admissible subsets of these relations.                      *)
(***************************************************************************)
JoinResultsExact ==
  pc = "adm" =>
    join_res = AdmissibleSubsets(constr, 0 .. 2*pair - 1)

(***************************************************************************)
(* Every table entry is a plan for exactly the relations of its bitmap,    *)
(* joins them in an order the worker's constraints allow, and carries the  *)
(* cost of that order.                                                     *)
(***************************************************************************)
TableSound ==
  pc \in {"next", "split"} =>
    \A S \in SUBSET Rels :
      P[S] # NULL =>
        /\ P[S].root \in AdmissibleOrders(constr, S)
        /\ Cardinality(S) > 1 => P[S].cost = Eval(root, P[S].root)

(***************************************************************************)
(* parallel_join_search returns a join of every relation exactly once, and *)
(* the cost it compared is the cost of that join.                          *)
(***************************************************************************)
ResultSound ==
  pc = "done" => result \in Orders(Rels) /\ best.cost = Eval(root, result)

(***************************************************************************)
(* The rest of an inductive invariant, which module                        *)
(* ParallelJoinSearchProofs proves.                                        *)
(*                                                                         *)
(* Phases: how far main and adm_join_results are.                          *)
(* Worklist: the worker's list holds admissible subsets only, and every    *)
(* admissible subset is in the list, being split, or in the table.         *)
(* Splitting: the subset being split is no larger than those still to      *)
(* come, no smaller than those in the table, and gets an entry.            *)
(* BestSound: main's best plan joins all relations at the cost it carries. *)
(***************************************************************************)
Phases ==
  /\ pc \in {"adm", "next", "split"} => part_id < n_workers
  /\ pc \in {"construct", "done"} => part_id = n_workers
  /\ pc = "adm" => 2*pair <= levels_needed

Worklist ==
  pc \in {"next", "split"} =>
    /\ join_res \subseteq AdmissibleSubsets(constr, Rels)
    /\ \A S \in AdmissibleSubsets(constr, Rels) :
         S \in join_res \/ P[S] # NULL \/ (pc = "split" /\ S = q)
    /\ \A r \in Rels : P[{r}] # NULL
    /\ \A S \in SUBSET Rels : \A T \in join_res :
         P[S] # NULL /\ Cardinality(S) > 1 => Cardinality(S) <= Cardinality(T)

Splitting ==
  pc = "split" =>
    /\ q \in AdmissibleSubsets(constr, Rels)
    /\ Cardinality(q) > 1
    /\ us # {}
    /\ \A T \in join_res : Cardinality(q) <= Cardinality(T)
    /\ \A S \in SUBSET Rels : P[S] # NULL /\ Cardinality(S) > 1 => Cardinality(S) <= Cardinality(q)
    /\ P[q] = NULL => \E u \in us : valid(constr, q, u)

BestSound ==
  /\ part_id > 0 =>
       /\ best # NULL
       /\ best.root \in Orders(Rels)
       /\ best.cost = Eval(root, best.root)
  /\ pc = "done" => result = best.root

IInv ==
  /\ TypeOK
  /\ NoNullDeref
  /\ Phases
  /\ JoinResultsExact
  /\ Worklist
  /\ Splitting
  /\ TableSound
  /\ BestSound

(***************************************************************************)
(* merge does not copy the tree of the smaller plan: an entry of the table *)
(* changes only as long as no plan for a larger subset has been built.     *)
(***************************************************************************)
SubplansFinal ==
  [][pc = "split" =>
       \A S, T \in SUBSET Rels : P'[S] # P[S] /\ S \subseteq T /\ S # T => P[T] = NULL]_vars

(***************************************************************************)
(* The search ends with a plan.                                            *)
(***************************************************************************)
Terminates == <>(pc = "done")
=============================================================================
