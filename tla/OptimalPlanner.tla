--------------------------- MODULE OptimalPlanner ---------------------------
(***************************************************************************)
(* What a join-order optimizer promises its caller (the comments of        *)
(* parallel_main.c and src/README.md): it returns once, with a plan no     *)
(* other plan of its search space beats.                                   *)
(***************************************************************************)
EXTENDS Integers

CONSTANTS Queries, Plans, Cost(_, _), NULL

VARIABLES root, result

vars == <<root, result>>

Init == root \in Queries /\ result = NULL

Return ==
  /\ result = NULL
  /\ result' \in {p \in Plans : \A o \in Plans : Cost(root, p) <= Cost(root, o)}
  /\ UNCHANGED root

Next == Return

Spec == Init /\ [][Next]_vars /\ WF_vars(Next)
=============================================================================
