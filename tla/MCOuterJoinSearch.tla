-------------------------- MODULE MCOuterJoinSearch -------------------------
(***************************************************************************)
(* A query with left joins for OuterJoinSearch, with the special joins and *)
(* join clauses that deconstruct_jointree finds for it.  A join result has *)
(* 100 rows, plus a code that tells it from others, less 90 if it is one   *)
(* of the cheap ones.                                                      *)
(***************************************************************************)
EXTENDS OuterJoinSearch, FiniteSetsExt

Code(S) == SumSet({2^r : r \in S})

Rows(cheap) ==
  [S \in SUBSET (0 .. levels_needed - 1) |-> 100 + Code(S) - (IF S \in cheap THEN 90 ELSE 0)]

LeftJoin(lhs, rhs) ==
  [jointype |-> "LEFT", min_lefthand |-> lhs, min_righthand |-> rhs, syn_lefthand |-> lhs, syn_righthand |-> rhs,
   lhs_strict |-> TRUE, semi_can_unique |-> FALSE, delay_upper_joins |-> FALSE]

Query(left_joins, clauses, cheap) ==
  [join_info_list |-> left_joins,
   clauses        |-> {[required_relids |-> relids] : relids \in clauses},
   initial_rels   |-> [i \in 1 .. levels_needed |-> {i - 1}],
   rows           |-> Rows(cheap)]

\* (a LEFT JOIN (b JOIN c)) JOIN (d LEFT JOIN e), with few rows in d LEFT JOIN e
\* and in its join with a: the order d, e, a, b, c is the cheapest.
FiveRels ==
  {Query({LeftJoin({0}, {1, 2}), LeftJoin({3}, {4})}, {{0, 1, 2}, {1, 2}, {3, 4}, {0, 3}},
         {{3, 4}, {0, 3, 4}})}
=============================================================================
