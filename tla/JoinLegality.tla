---------------------------- MODULE JoinLegality ----------------------------
(***************************************************************************)
(* Which joins the planner may and wants to make: join_is_legal,           *)
(* has_legal_joinclause and have_join_order_restriction of joinrels.c, and *)
(* have_relevant_joinclause of joininfo.c.                                 *)
(*                                                                         *)
(* A RelOptInfo is represented by its relids.  root holds the special      *)
(* joins (join_info_list, a set: its order does not matter here), the      *)
(* required_relids of the join clauses, and the rels of the current join   *)
(* problem (initial_rels).  An equivalence class counts as one clause per  *)
(* pair of its members.  LATERAL references and PlaceHolderVars are left   *)
(* out (hasLateralRTEs is false, placeholder_list is empty).               *)
(***************************************************************************)
EXTENDS Integers, Sequences, FiniteSets

bms_overlap(a, b) == a \cap b # {}

have_relevant_joinclause(root, rel1, rel2) ==
  \E rinfo \in root.clauses :
    bms_overlap(rinfo.required_relids, rel1) /\ bms_overlap(rinfo.required_relids, rel2)

(***************************************************************************)
(* One input holds the required left side, the other the right side.       *)
(***************************************************************************)
Performs(sj, rel1, rel2) == sj.min_lefthand \subseteq rel1 /\ sj.min_righthand \subseteq rel2

CanPerform(sj, rel1, rel2) == Performs(sj, rel1, rel2) \/ Performs(sj, rel2, rel1)

(***************************************************************************)
(* join_is_legal: the special joins its scan does not pass over, those     *)
(* that the join performs, and those whose right side both inputs already  *)
(* reach into.                                                             *)
(***************************************************************************)
\* Mutant: a special join performed within the second input still counts.
DoneInSecondCounts(sj, rel1, rel2) ==
  /\ bms_overlap(sj.min_righthand, rel1 \cup rel2)
  /\ ~ (rel1 \cup rel2 \subseteq sj.min_righthand)
  /\ ~ (sj.min_lefthand \cup sj.min_righthand \subseteq rel1)

ConcernedBy(sj, rel1, rel2) ==
  /\ bms_overlap(sj.min_righthand, rel1 \cup rel2)
  /\ ~ (rel1 \cup rel2 \subseteq sj.min_righthand)
  /\ \A rel \in {rel1, rel2} :
       /\ ~ (sj.min_lefthand \cup sj.min_righthand \subseteq rel)
       /\ ~ (sj.jointype = "SEMI" /\ sj.syn_righthand \subseteq rel /\ sj.syn_righthand # rel)

UniqueRhs(sj, rel) == sj.jointype = "SEMI" /\ sj.syn_righthand = rel /\ sj.semi_can_unique

Matches(sj, rel1, rel2) ==
  CanPerform(sj, rel1, rel2) \/ UniqueRhs(sj, rel1) \/ UniqueRhs(sj, rel2)

\* The special join is the one that the join of two rels performs.
PerformedAt(sj, join) ==
  \E rel1, rel2 \in join :
    join = {rel1, rel2} /\ ConcernedBy(sj, rel1, rel2) /\ Matches(sj, rel1, rel2)

\* Mutants: one input suffices; no earlier violation is tolerated.
ReachedByEither(sj, rel1, rel2) ==
  bms_overlap(rel1, sj.min_righthand) \/ bms_overlap(rel2, sj.min_righthand)

NeverTolerated(sj, rel1, rel2) == FALSE

RhsViolatedBefore(sj, rel1, rel2) ==
  bms_overlap(rel1, sj.min_righthand) /\ bms_overlap(rel2, sj.min_righthand)

(***************************************************************************)
(* At most one special join is performed by the join, and the join may     *)
(* associate into the right side of another one only if that is a left     *)
(* join, its left side stays out, and the join performed is a strict left  *)
(* join itself (outer-join identity 3).                                    *)
(***************************************************************************)
join_is_legal(root, rel1, rel2) ==
  LET concerned == {sj \in root.join_info_list : ConcernedBy(sj, rel1, rel2)}
      match     == {sj \in concerned : Matches(sj, rel1, rel2)}
      violated  == {sj \in concerned \ match : ~ RhsViolatedBefore(sj, rel1, rel2)}
  IN  /\ Cardinality(match) <= 1
      /\ \A sj \in violated :
           sj.jointype = "LEFT" /\ ~ bms_overlap(rel1 \cup rel2, sj.min_lefthand)
      /\ violated # {} => \E sj \in match : sj.jointype = "LEFT" /\ sj.lhs_strict

has_legal_joinclause(root, rel) ==
  \E i \in DOMAIN root.initial_rels :
    LET rel2 == root.initial_rels[i] IN
      /\ ~ bms_overlap(rel, rel2)
      /\ have_relevant_joinclause(root, rel, rel2)
      /\ join_is_legal(root, rel, rel2)

have_join_order_restriction(root, rel1, rel2) ==
  /\ \E sj \in root.join_info_list :
       /\ sj.jointype # "FULL"
       /\ \/ CanPerform(sj, rel1, rel2)
          \/ bms_overlap(sj.min_righthand, rel1) /\ bms_overlap(sj.min_righthand, rel2)
          \/ bms_overlap(sj.min_lefthand, rel1) /\ bms_overlap(sj.min_lefthand, rel2)
  /\ ~ has_legal_joinclause(root, rel1)
  /\ ~ has_legal_joinclause(root, rel2)

desirable_join(root, rel1, rel2) ==
  have_relevant_joinclause(root, rel1, rel2) \/ have_join_order_restriction(root, rel1, rel2)
=============================================================================
