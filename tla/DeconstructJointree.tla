------------------------- MODULE DeconstructJointree ------------------------
(***************************************************************************)
(* deconstruct_jointree of initsplan.c: the special joins, join clauses    *)
(* and join problems of a query.  The recursion over the jointree is       *)
(* modelled bottom-up: the jointree is a forest whose neighbouring trees   *)
(* are joined one step at a time, each step choosing a join type and       *)
(* quals, so that the states with one tree are the queries the planner can *)
(* meet.                                                                   *)
(*                                                                         *)
(* A qual is the set of rels it mentions and those it is strict for; one   *)
(* strict for all of them stands for an equality of its two sides (an      *)
(* equivalence class is one clause per equality written in the query, and  *)
(* is not closed transitively).  Quals for which reduce_outer_joins would  *)
(* have simplified an outer join below are not chosen, nor quals that      *)
(* mention the right side of a SEMI join (a pulled-up sub-select) from     *)
(* above.  An ANTI join is a NOT EXISTS or a LEFT join that                *)
(* reduce_outer_joins turned into one.  Left out: quals without rels,      *)
(* LATERAL references, PlaceHolderVars, row marks, security levels.        *)
(***************************************************************************)
EXTENDS JoinLegality, Functions

CONSTANTS
  n_rels,               \* number of base relations
  JoinTypes,            \* the join types tried
  MaxQuals,             \* bound on the quals of one join
  MaxQualRels,          \* bound on the rels a qual mentions
  MaxFroms,             \* bound on the FromExprs
  from_collapse_limit,
  join_collapse_limit

ASSUME JoinTypesAssumption == JoinTypes \subseteq {"INNER", "LEFT", "FULL", "SEMI", "ANTI"}
ASSUME BoundsAssumption == n_rels \in Nat /\ MaxFroms \in Nat

BaseRels == 0 .. n_rels - 1

VARIABLES
  forest,          \* the trees built so far, left to right
  join_info_list,  \* the SpecialJoinInfos
  clauses,         \* the RestrictInfos of the join clauses
  problems,        \* the joinlists with more than one item that are complete
  froms            \* number of FromExprs met so far

vars == <<forest, join_info_list, clauses, problems, froms>>

(***************************************************************************)
(* A tree: its rels (qualscope), those in inner joins (inner_join_rels),   *)
(* those quals above may mention, the nullable sides whose outer join a    *)
(* strict qual above would reduce, and its joinlist, each item by relids.  *)
(***************************************************************************)
Leaf(r) ==
  [relids |-> {r}, inners |-> {}, visible |-> {r}, reducible |-> {}, joinlist |-> <<{r}>>]

Init ==
  /\ forest = [i \in 1 .. n_rels |-> Leaf(i - 1)]
  /\ join_info_list = {}
  /\ clauses = {}
  /\ problems = {}
  /\ froms = 0

Quals(scope) ==
  UNION {{[relids |-> relids, strict |-> {}], [relids |-> relids, strict |-> relids]} :
           relids \in {R \in SUBSET scope : Cardinality(R) \in 1 .. MaxQualRels}}

QualLists(scope) ==
  {quals \in {{}} \cup {{a, b} : a, b \in Quals(scope)} : Cardinality(quals) <= MaxQuals}

pull_varnos(quals) == UNION {qual.relids : qual \in quals}
find_nonnullable_rels(quals) == UNION {qual.strict : qual \in quals}

-----------------------------------------------------------------------------
(***************************************************************************)
(* make_outerjoininfo.                                                     *)
(***************************************************************************)
compute_semijoin_info(right_rels, quals) ==
  LET both == {qual \in quals : bms_overlap(qual.relids, right_rels) /\ ~ (qual.relids \subseteq right_rels)}
  IN  both # {} /\ \A qual \in both : qual.strict = qual.relids

\* The relids a lower special join adds to min_lefthand and min_righthand.
LowerLeft(other, left_rels, jointype, quals) ==
  IF \/ other.jointype = "FULL" /\ bms_overlap(left_rels, other.syn_lefthand \cup other.syn_righthand)
     \/ /\ other.jointype # "FULL"
        /\ bms_overlap(left_rels, other.syn_righthand)
        /\ bms_overlap(pull_varnos(quals), other.syn_righthand)
        /\ \/ jointype \in {"SEMI", "ANTI"}
           \/ ~ bms_overlap(find_nonnullable_rels(quals), other.min_righthand)
  THEN other.syn_lefthand \cup other.syn_righthand
  ELSE {}

\* Mutant: the lower join need not be strict for its left side.
StrictOrNot(other, jointype, quals) ==
  \/ bms_overlap(pull_varnos(quals), other.syn_righthand)
  \/ ~ bms_overlap(pull_varnos(quals), other.min_lefthand)
  \/ {jointype, other.jointype} \cap {"SEMI", "ANTI"} # {}
  \/ other.delay_upper_joins

\* Mutant: quals between the two joins are forgotten.
DelayForgotten(other, jointype, quals) ==
  \/ bms_overlap(pull_varnos(quals), other.syn_righthand)
  \/ ~ bms_overlap(pull_varnos(quals), other.min_lefthand)
  \/ {jointype, other.jointype} \cap {"SEMI", "ANTI"} # {}
  \/ ~ other.lhs_strict

KeepsOrder(other, jointype, quals) ==
  \/ bms_overlap(pull_varnos(quals), other.syn_righthand)
  \/ ~ bms_overlap(pull_varnos(quals), other.min_lefthand)
  \/ {jointype, other.jointype} \cap {"SEMI", "ANTI"} # {}
  \/ ~ other.lhs_strict
  \/ other.delay_upper_joins

LowerRight(other, right_rels, jointype, quals) ==
  IF \/ other.jointype = "FULL" /\ bms_overlap(right_rels, other.syn_lefthand \cup other.syn_righthand)
     \/ other.jointype # "FULL" /\ bms_overlap(right_rels, other.syn_righthand) /\ KeepsOrder(other, jointype, quals)
  THEN other.syn_lefthand \cup other.syn_righthand
  ELSE {}

OrAll(relids, all) == IF relids = {} THEN all ELSE relids

MinLefthand(left, right, jointype, quals) ==
  LET lower == UNION {LowerLeft(other, left.relids, jointype, quals) : other \in join_info_list}
  IN  IF jointype = "FULL" THEN left.relids
      ELSE OrAll((pull_varnos(quals) \cap left.relids) \cup lower, left.relids)

\* Mutant: the inner joins of the left side are not taken out.
MinRighthandWithLeft(left, right, jointype, quals) ==
  LET lower == UNION {LowerRight(other, right.relids, jointype, quals) : other \in join_info_list}
  IN  IF jointype = "FULL" THEN right.relids
      ELSE OrAll((pull_varnos(quals) \cap right.relids) \cup left.inners \cup right.inners \cup lower, right.relids)

MinRighthand(left, right, jointype, quals) ==
  LET lower == UNION {LowerRight(other, right.relids, jointype, quals) : other \in join_info_list}
  IN  IF jointype = "FULL" THEN right.relids
      ELSE OrAll(((pull_varnos(quals) \cup left.inners \cup right.inners) \cap right.relids) \cup lower, right.relids)

make_outerjoininfo(left, right, jointype, quals) ==
  [jointype          |-> jointype,
   syn_lefthand      |-> left.relids,
   syn_righthand     |-> right.relids,
   min_lefthand      |-> MinLefthand(left, right, jointype, quals),
   min_righthand     |-> MinRighthand(left, right, jointype, quals),
   lhs_strict        |-> jointype # "FULL" /\ bms_overlap(find_nonnullable_rels(quals), left.relids),
   semi_can_unique   |-> jointype = "SEMI" /\ compute_semijoin_info(right.relids, quals),
   delay_upper_joins |-> FALSE]

-----------------------------------------------------------------------------
(***************************************************************************)
(* check_outerjoin_delay: the rels a qual has to wait for, the least       *)
(* superset of those it mentions that takes in each special join of which  *)
(* it meets a nullable side.                                               *)
(***************************************************************************)
Nulls(sj, relids) ==
  bms_overlap(relids, sj.min_righthand) \/ (sj.jointype = "FULL" /\ bms_overlap(relids, sj.min_lefthand))

DelayedRelids(relids) ==
  LET Settled(R) == \A sj \in join_info_list : Nulls(sj, R) => sj.min_lefthand \cup sj.min_righthand \subseteq R
  IN  {r \in BaseRels : \A R \in SUBSET BaseRels : relids \subseteq R /\ Settled(R) => r \in R}

(***************************************************************************)
(* distribute_qual_to_rels: the RestrictInfo of a qual, and the special    *)
(* joins whose delay_upper_joins it sets.                                  *)
(***************************************************************************)
RestrictInfo(qual, qualscope, ojscope, nonnullable_rels) ==
  LET is_pushed_down == ~ bms_overlap(qual.relids, nonnullable_rels)
  IN  [required_relids |-> IF is_pushed_down THEN DelayedRelids(qual.relids) ELSE ojscope,
       is_pushed_down  |-> is_pushed_down,
       qualscope       |-> qualscope]

Delays(sj, rinfo) ==
  rinfo.is_pushed_down /\ sj.jointype # "FULL" /\ Nulls(sj, rinfo.required_relids)

Distribute(rinfos, new_sjinfos) ==
  /\ clauses' = clauses \cup {rinfo \in rinfos : Cardinality(rinfo.required_relids) > 1}
  /\ join_info_list' = new_sjinfos \cup
       {[sj EXCEPT !.delay_upper_joins = @ \/ \E rinfo \in rinfos : Delays(sj, rinfo)] : sj \in join_info_list}

-----------------------------------------------------------------------------
(***************************************************************************)
(* The joinlist of a join, and the sub-joinlists it cuts off.              *)
(***************************************************************************)
\* Mutant: one-element joinlists become join problems too.
CutAlways(tree) == {tree.joinlist}

Cut(tree) == IF Len(tree.joinlist) > 1 THEN {tree.joinlist} ELSE {}

Collapses(left, right) == Len(left.joinlist) + Len(right.joinlist) <= join_collapse_limit

\* Mutant: only the first item of a sub-joinlist is kept.
JoinlistOfHeads(left, right, jointype) ==
  IF jointype = "FULL" THEN <<left.relids \cup right.relids>>
  ELSE IF Collapses(left, right) THEN left.joinlist \o right.joinlist
  ELSE <<Head(left.joinlist), Head(right.joinlist)>>

Joinlist(left, right, jointype) ==
  IF jointype = "FULL" THEN <<left.relids \cup right.relids>>
  ELSE IF Collapses(left, right) THEN left.joinlist \o right.joinlist
  ELSE <<left.relids, right.relids>>

NewProblems(left, right, jointype) ==
  IF jointype = "FULL" THEN Cut(left) \cup Cut(right) \cup {<<left.relids, right.relids>>}
  ELSE IF Collapses(left, right) THEN {}
  ELSE Cut(left) \cup Cut(right)

-----------------------------------------------------------------------------
(***************************************************************************)
(* deconstruct_recurse at a JoinExpr over two finished trees.              *)
(***************************************************************************)
Scope(i) == forest[i].visible \cup forest[i + 1].visible

\* The rels that a qual of the join may not be pushed down into.
NonnullableRels(left, right, jointype) ==
  CASE jointype \in {"INNER", "SEMI"} -> {}
    [] jointype \in {"LEFT", "ANTI"}  -> left.relids
    [] jointype = "FULL"              -> left.relids \cup right.relids

SpecialJoinInfos(left, right, jointype, quals) ==
  IF jointype = "INNER" THEN {} ELSE {make_outerjoininfo(left, right, jointype, quals)}

Ojscope(left, right, jointype, quals) ==
  UNION {sj.min_lefthand \cup sj.min_righthand :
           sj \in {info \in SpecialJoinInfos(left, right, jointype, quals) : info.jointype # "SEMI"}}

JoinQualInfo(left, right, jointype, quals, qual) ==
  RestrictInfo(qual, left.relids \cup right.relids, Ojscope(left, right, jointype, quals),
               NonnullableRels(left, right, jointype))

\* reduce_outer_joins: the nullable sides that a strict qual of the join would
\* have reduced, and those that one above the join would have.
Constrained(left, right, jointype) ==
  CASE jointype \in {"INNER", "SEMI"} -> left.reducible \cup right.reducible
    [] jointype \in {"LEFT", "ANTI"}  -> right.reducible
    [] jointype = "FULL"              -> {}

Reducible(left, right, jointype) ==
  CASE jointype \in {"INNER", "SEMI"} -> left.reducible \cup right.reducible
    [] jointype \in {"LEFT", "ANTI"}  -> left.reducible \cup {right.relids}
    [] jointype = "FULL"              -> {left.relids, right.relids}

Irreducible(quals, sides) == \A side \in sides : ~ bms_overlap(find_nonnullable_rels(quals), side)

JoinedTree(left, right, jointype) ==
  [relids    |-> left.relids \cup right.relids,
   inners    |-> IF jointype = "INNER" THEN left.relids \cup right.relids ELSE left.inners \cup right.inners,
   visible   |-> left.visible \cup (IF jointype = "SEMI" THEN {} ELSE right.visible),
   reducible |-> Reducible(left, right, jointype),
   joinlist  |-> Joinlist(left, right, jointype)]

\* The k items from position i on give way to one.
Replaced(seq, i, k, item) == SubSeq(seq, 1, i - 1) \o <<item>> \o SubSeq(seq, i + k, Len(seq))

JoinExpr(i, jointype, quals) ==
  LET left == forest[i]  right == forest[i + 1] IN
  /\ Irreducible(quals, Constrained(left, right, jointype))
  /\ jointype \in {"SEMI", "ANTI"} => bms_overlap(pull_varnos(quals), left.relids)
  /\ Distribute({JoinQualInfo(left, right, jointype, quals, qual) : qual \in quals},
                SpecialJoinInfos(left, right, jointype, quals))
  /\ forest' = Replaced(forest, i, 2, JoinedTree(left, right, jointype))
  /\ problems' = problems \cup NewProblems(left, right, jointype)
  /\ UNCHANGED froms

(***************************************************************************)
(* deconstruct_recurse at a FromExpr over k finished trees.  Its joinlist  *)
(* collapses a sub-joinlist if that leaves room for the items to come.     *)
(***************************************************************************)
Items(i, k) == SubSeq(forest, i, i + k - 1)

All(items, Field(_)) == UNION {Field(items[j]) : j \in DOMAIN items}

FromScope(i, k) == All(Items(i, k), LAMBDA tree : tree.visible)

AddItem(items, acc, j) ==
  LET sub == items[j].joinlist IN
  IF Len(sub) <= 1 \/ Len(acc.joinlist) + Len(sub) + (Len(items) - j) <= from_collapse_limit
  THEN [acc EXCEPT !.joinlist = @ \o sub]
  ELSE [joinlist |-> Append(acc.joinlist, items[j].relids), cut |-> acc.cut \cup Cut(items[j])]

Accumulated(items) ==
  LET acc[j \in 0 .. Len(items)] ==
        IF j = 0 THEN [joinlist |-> <<>>, cut |-> {}] ELSE AddItem(items, acc[j - 1], j)
  IN  acc

FromJoinlist(items) == Accumulated(items)[Len(items)]

FromTree(items) ==
  LET qualscope == All(items, LAMBDA tree : tree.relids)
  IN  [relids    |-> qualscope,
       inners    |-> IF Len(items) > 1 THEN qualscope ELSE items[1].inners,
       visible   |-> All(items, LAMBDA tree : tree.visible),
       reducible |-> All(items, LAMBDA tree : tree.reducible),
       joinlist  |-> FromJoinlist(items).joinlist]

FromQualInfo(items, qual) == RestrictInfo(qual, FromTree(items).relids, {}, {})

FromExpr(i, k, quals) ==
  LET items == Items(i, k) IN
  /\ froms < MaxFroms
  /\ froms' = froms + 1
  /\ Irreducible(quals, FromTree(items).reducible)
  /\ Distribute({FromQualInfo(items, qual) : qual \in quals}, {})
  /\ forest' = Replaced(forest, i, k, FromTree(items))
  /\ problems' = problems \cup FromJoinlist(items).cut

Next ==
  \/ \E i \in 1 .. Len(forest) - 1, jointype \in JoinTypes :
       \E quals \in QualLists(Scope(i)) : JoinExpr(i, jointype, quals)
  \/ \E i, k \in DOMAIN forest :
       i + k - 1 <= Len(forest) /\ \E quals \in QualLists(FromScope(i, k)) : FromExpr(i, k, quals)

Spec == Init /\ [][Next]_vars

-----------------------------------------------------------------------------
TypeOK ==
  /\ forest \in Seq([relids : SUBSET BaseRels, inners : SUBSET BaseRels, visible : SUBSET BaseRels,
                     reducible : SUBSET SUBSET BaseRels, joinlist : Seq(SUBSET BaseRels)])
  /\ join_info_list \subseteq
       [jointype : JoinTypes, syn_lefthand : SUBSET BaseRels, syn_righthand : SUBSET BaseRels,
        min_lefthand : SUBSET BaseRels, min_righthand : SUBSET BaseRels,
        lhs_strict : BOOLEAN, semi_can_unique : BOOLEAN, delay_upper_joins : BOOLEAN]
  /\ clauses \subseteq [required_relids : SUBSET BaseRels, is_pushed_down : BOOLEAN, qualscope : SUBSET BaseRels]
  /\ \A problem \in problems : problem \in Seq(SUBSET BaseRels) /\ Len(problem) > 1
  /\ froms \in 0 .. MaxFroms

(***************************************************************************)
(* The relids that a special join waits for stay on its two sides, and a   *)
(* clause waits for no rel outside the part of the query it was written    *)
(* in, however the joins below it delay it: a clause or a join that waits  *)
(* for a rel that is not below it could never be placed.  (The asserts of  *)
(* make_outerjoininfo and distribute_qual_to_rels.)                        *)
(***************************************************************************)
ScopesRespected ==
  /\ \A sj \in join_info_list :
       /\ sj.min_lefthand # {} /\ sj.min_lefthand \subseteq sj.syn_lefthand
       /\ sj.min_righthand # {} /\ sj.min_righthand \subseteq sj.syn_righthand
  /\ \A rinfo \in clauses : rinfo.required_relids \subseteq rinfo.qualscope

(***************************************************************************)
(* However the collapse limits cut the query into join problems, these     *)
(* make up one tree over the base relations: each rel and each result of a *)
(* problem is an item of exactly one joinlist, so that                     *)
(* make_rel_from_joinlist joins every rel exactly once.                    *)
(***************************************************************************)
Whole(problem) == UNION Range(problem)

JoinlistsNest ==
  LET open  == {forest[i].joinlist : i \in DOMAIN forest}
      items == {{r} : r \in BaseRels} \cup {Whole(problem) : problem \in problems}
  IN  /\ \A problem \in problems \cup open : IsInjective(problem)
      /\ \A item \in items : Cardinality({p \in problems \cup open : item \in Range(p)}) = 1
      /\ \A problem \in problems \cup open : Range(problem) \subseteq items
=============================================================================
