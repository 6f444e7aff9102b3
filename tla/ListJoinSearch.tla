--------------------------- MODULE ListJoinSearch ---------------------------
(***************************************************************************)
(* The search of module ParallelJoinSearch with the lists of the code in   *)
(* place of sets: a subset of the relations is the int list that           *)
(* cartesian_product puts together, and try_splits takes the relations in  *)
(* the order of that list, which settles the ties between equally cheap    *)
(* plans.                                                                  *)
(***************************************************************************)
EXTENDS Integers, Sequences, FiniteSets, Functions

CONSTANTS levels_needed, n_workers, Queries, Eval(_, _), NULL

ASSUME LevelsAssumption == levels_needed \in Nat /\ levels_needed >= 2
ASSUME WorkersAssumption == n_workers \in {1, 2, 4}

VARIABLES
  root, pc, part_id, pair,
  join_res,   \* list of int lists
  sub_rels,   \* try_splits: the subset being split
  next,       \* try_splits: index of the next relation to try on the right
  P, best, result

vars == <<root, pc, part_id, pair, join_res, sub_rels, next, P, best, result>>

(***************************************************************************)
(* The sets that the lists stand for.                                      *)
(***************************************************************************)
Sets(l) == {Range(x) : x \in Range(l)}

Search == INSTANCE ParallelJoinSearch WITH
            join_res <- Sets(join_res),
            q        <- Range(sub_rels),
            us       <- Range(SubSeq(sub_rels, next, Len(sub_rels)))

ASSUME NullAssumption == NULL \notin Search!Plan
ASSUME EvalAssumption ==
  \A r \in Queries : \A S \in (SUBSET Search!Rels) \ {{}} :
    \A o \in Search!Orders(S) : Eval(r, o) \in Nat

constr == Search!part_constraints(part_id)

constrained_power_set(cs, q1, q2) ==
  LET Include(r) == IF \E c \in cs : c[2] = r THEN <<>> ELSE << <<r>> >>
  IN  Include(q1) \o Include(q2) \o << <<q1, q2>> >>

\* The lists of a list of lists, one after the other.
Flatten(ll) ==
  LET upto[i \in 1 .. Len(ll)] == IF i = 1 THEN ll[i] ELSE upto[i - 1] \o ll[i]
  IN  upto[Len(ll)]

\* Mutant: the members of b are appended twice.
SecondTwice(a, b) ==
  IF a = <<>> THEN b
  ELSE IF b = <<>> THEN a
  ELSE a \o b \o b \o Flatten([i \in DOMAIN b |-> [j \in DOMAIN a |-> b[i] \o a[j]]])

(***************************************************************************)
(* b is the outer loop, and its list comes first in each concatenation.    *)
(***************************************************************************)
cartesian_product(a, b) ==
  IF a = <<>> THEN b
  ELSE IF b = <<>> THEN a
  ELSE a \o b \o Flatten([i \in DOMAIN b |-> [j \in DOMAIN a |-> b[i] \o a[j]]])

Init ==
  /\ root \in Queries
  /\ pc = "adm"
  /\ part_id = 0
  /\ pair = 0
  /\ join_res = <<>>
  /\ sub_rels = <<>>
  /\ next = 1
  /\ P = Search!EmptyTable
  /\ best = NULL
  /\ result = NULL

AdmPair ==
  /\ pc = "adm"
  /\ 2*pair + 1 < levels_needed
  /\ join_res' = cartesian_product(join_res, constrained_power_set(constr, 2*pair, 2*pair + 1))
  /\ pair' = pair + 1
  /\ UNCHANGED <<root, pc, part_id, sub_rels, next, P, best, result>>

AdmDone ==
  /\ pc = "adm"
  /\ 2*pair + 1 >= levels_needed
  /\ join_res' = IF 2*pair < levels_needed
                 THEN cartesian_product(join_res, << <<2*pair>> >>)
                 ELSE join_res
  /\ P' = Search!LeafTable
  /\ pc' = "next"
  /\ UNCHANGED <<root, part_id, pair, sub_rels, next, best, result>>

(***************************************************************************)
(* ptr_less compares lengths; lists of one length come in any order.       *)
(***************************************************************************)
SortedFirst(i) == \A j \in DOMAIN join_res : Len(join_res[i]) <= Len(join_res[j])

Without(l, i) == SubSeq(l, 1, i - 1) \o SubSeq(l, i + 1, Len(l))

NextSubset ==
  /\ pc = "next"
  /\ \E i \in DOMAIN join_res :
       /\ SortedFirst(i)
       /\ join_res' = Without(join_res, i)
       /\ IF Len(join_res[i]) > 1
          THEN sub_rels' = join_res[i] /\ next' = 1 /\ pc' = "split"
          ELSE UNCHANGED <<sub_rels, next, pc>>
  /\ UNCHANGED <<root, part_id, pair, P, best, result>>

\* Mutant: the loop stops one short of the list's end.
TrySplitButLast ==
  LET u == sub_rels[next]  bitmap == Range(sub_rels) IN
  /\ pc = "split"
  /\ next' = next + 1
  /\ pc' = IF Search!valid(constr, bitmap, u) /\ ~ Search!Splits(u) THEN "crash"
           ELSE IF next >= Len(sub_rels) - 1 THEN "next" ELSE "split"
  /\ P' = IF /\ Search!valid(constr, bitmap, u)
             /\ Search!Splits(u)
             /\ Search!Cheaper(P[bitmap], Search!NewPlan(u))
          THEN [P EXCEPT ![bitmap] = Search!NewPlan(u)]
          ELSE P
  /\ UNCHANGED <<root, part_id, pair, join_res, sub_rels, best, result>>

TrySplit ==
  LET u == sub_rels[next]  bitmap == Range(sub_rels) IN
  /\ pc = "split"
  /\ next' = next + 1
  /\ pc' = IF Search!valid(constr, bitmap, u) /\ ~ Search!Splits(u) THEN "crash"
           ELSE IF next = Len(sub_rels) THEN "next" ELSE "split"
  /\ P' = IF /\ Search!valid(constr, bitmap, u)
             /\ Search!Splits(u)
             /\ Search!Cheaper(P[bitmap], Search!NewPlan(u))
          THEN [P EXCEPT ![bitmap] = Search!NewPlan(u)]
          ELSE P
  /\ UNCHANGED <<root, part_id, pair, join_res, sub_rels, best, result>>

(***************************************************************************)
(* The next worker starts with an empty list.                              *)
(***************************************************************************)
WorkerReturns ==
  LET that == P[Search!Rels] IN
  /\ pc = "next"
  /\ join_res = <<>>
  /\ best' = IF part_id = 0 \/ (that # NULL /\ best # NULL /\ that.cost < best.cost) THEN that ELSE best
  /\ pc' = IF part_id > 0 /\ (that = NULL \/ best = NULL) THEN "crash"
           ELSE IF part_id + 1 < n_workers THEN "adm" ELSE "construct"
  /\ part_id' = part_id + 1
  /\ pair' = 0
  /\ UNCHANGED <<root, join_res, sub_rels, next, P, result>>

Construct ==
  /\ pc = "construct"
  /\ pc' = IF best = NULL THEN "crash" ELSE "done"
  /\ result' = IF best = NULL THEN NULL ELSE best.root
  /\ UNCHANGED <<root, part_id, pair, join_res, sub_rels, next, P, best>>

Next == AdmPair \/ AdmDone \/ NextSubset \/ TrySplit \/ WorkerReturns \/ Construct

Spec == Init /\ [][Next]_vars /\ WF_vars(Next)

-----------------------------------------------------------------------------
(***************************************************************************)
(* adm_join_results lists each subset once and each relation of it once:   *)
(* no subset is split a second time, and no bit of a bitmap is set twice.  *)
(***************************************************************************)
ListsWithoutRepetition ==
  /\ \A i, j \in DOMAIN join_res : Range(join_res[i]) = Range(join_res[j]) => i = j
  /\ \A i \in DOMAIN join_res : IsInjective(join_res[i])

(***************************************************************************)
(* The lists implement the sets of ParallelJoinSearch, termination         *)
(* included.                                                               *)
(***************************************************************************)
ImplementsSearch == Search!Spec
=============================================================================
