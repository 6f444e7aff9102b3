---------------------------- MODULE ParallelEval ----------------------------
(***************************************************************************)
(* parallel_eval.c: the RelOptInfo a left-deep join order leads to, and    *)
(* its cost.  Clumps of joined rels are merged as the order says where     *)
(* that is legal and desirable; what is left over is force-joined in some  *)
(* legal order.                                                            *)
(*                                                                         *)
(* A RelOptInfo is a record of its relids and the set of the joins that    *)
(* made it, each the pair of its inputs' relids.  root is the query of     *)
(* JoinLegality with one more field, rows, the size estimate of each join  *)
(* result: the cost of a rel is the sum of the sizes of its joins.         *)
(***************************************************************************)
EXTENDS JoinLegality, FiniteSetsExt

CONSTANTS DBL_MAX, NoRel

BaseRel(relids) == [relids |-> relids, joins |-> {}]

(***************************************************************************)
(* make_join_rel, NoRel if the join is not legal.                          *)
(***************************************************************************)
make_join_rel(root, rel1, rel2) ==
  IF join_is_legal(root, rel1.relids, rel2.relids)
  THEN [relids |-> rel1.relids \cup rel2.relids,
        joins  |-> rel1.joins \cup rel2.joins \cup {{rel1.relids, rel2.relids}}]
  ELSE NoRel

(***************************************************************************)
(* One node of the left-deep tree: the list of the left subtree and the    *)
(* leaf on the right.                                                      *)
(***************************************************************************)
\* Mutant: a leaf joins the last of several clumps.
MergeLastClump(root, relList, rel) ==
  LET last    == relList[Len(relList)]
      joinrel == make_join_rel(root, last, rel)
  IN  IF desirable_join(root, last.relids, rel.relids) /\ joinrel # NoRel
      THEN [relList EXCEPT ![Len(relList)] = joinrel]
      ELSE Append(relList, rel)

MergeLeaf(root, relList, rel) ==
  LET joinrel == make_join_rel(root, relList[1], rel)
  IN  IF Len(relList) = 1 /\ desirable_join(root, relList[1].relids, rel.relids) /\ joinrel # NoRel
      THEN <<joinrel>>
      ELSE Append(relList, rel)

try_merge_clump(root, order) ==
  LET Leaf(i) == BaseRel(root.initial_rels[order[i] + 1])
      relList[i \in 1 .. Len(order)] ==
        IF i = 1 THEN <<Leaf(1)>> ELSE MergeLeaf(root, relList[i - 1], Leaf(i))
  IN  relList[Len(order)]

bms_num_members(rel) == Cardinality(rel.relids)

(***************************************************************************)
(* Clumps are kept by decreasing size, a new one after those of its size.  *)
(***************************************************************************)
\* Mutant: the new clump takes the place of the first smaller one.
InsertClumpOver(frelList, rel) ==
  LET smaller == {i \in DOMAIN frelList : bms_num_members(frelList[i]) < bms_num_members(rel)}
      pos     == Min(smaller \cup {Len(frelList) + 1})
  IN  SubSeq(frelList, 1, pos - 1) \o <<rel>> \o SubSeq(frelList, pos + 1, Len(frelList))

InsertClump(frelList, rel) ==
  LET smaller == {i \in DOMAIN frelList : bms_num_members(frelList[i]) < bms_num_members(rel)}
      pos     == Min(smaller \cup {Len(frelList) + 1})
  IN  SubSeq(frelList, 1, pos - 1) \o <<rel>> \o SubSeq(frelList, pos, Len(frelList))

(***************************************************************************)
(* Joins rel to the first clump it can legally be joined to, then the      *)
(* larger clump to the others, until no clump is left that it can be       *)
(* joined to.  A clump is a pair of the others and the rel that grows.     *)
(***************************************************************************)
MergeFirst(root, clump) ==
  LET legal == {i \in DOMAIN clump.others : make_join_rel(root, clump.others[i], clump.rel) # NoRel}
      pos   == Min(legal)
  IN  IF legal = {}
      THEN clump
      ELSE [others |-> SubSeq(clump.others, 1, pos - 1) \o SubSeq(clump.others, pos + 1, Len(clump.others)),
            rel    |-> make_join_rel(root, clump.others[pos], clump.rel)]

\* Mutant: the enlarged clump is not tried against the others.
MergeOnce(root, frelList, rel) ==
  LET clump == MergeFirst(root, [others |-> frelList, rel |-> rel])
  IN  InsertClump(clump.others, clump.rel)

force_merge_clump(root, frelList, rel) ==
  LET clump[k \in 0 .. Len(frelList)] ==
        IF k = 0 THEN [others |-> frelList, rel |-> rel] ELSE MergeFirst(root, clump[k - 1])
      grown == clump[Len(frelList)]
  IN  InsertClump(grown.others, grown.rel)

construct_rel_based_on_plan(root, order) ==
  LET tried   == try_merge_clump(root, order)
      frelList[i \in 0 .. Len(tried)] ==
        IF i = 0 THEN <<>> ELSE force_merge_clump(root, frelList[i - 1], tried[i])
      relList == IF Len(tried) > 1 THEN frelList[Len(tried)] ELSE tried
  IN  IF Len(relList) = 1 THEN relList[1] ELSE NoRel

total_cost(root, rel) == MapThenSumSet(LAMBDA join : root.rows[UNION join], rel.joins)

parallel_eval(root, order) ==
  LET joinrel == construct_rel_based_on_plan(root, order)
  IN  IF joinrel = NoRel THEN DBL_MAX ELSE total_cost(root, joinrel)
=============================================================================
