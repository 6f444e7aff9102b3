---------------------------- MODULE QueryResults ----------------------------
(***************************************************************************)
(* What the planned query returns.  Next to deconstruct_jointree the       *)
(* module computes what the query means, join by join as it is written,    *)
(* and, at the end, what the executor computes for the joins that a join   *)
(* order was turned into; the two have to agree.                           *)
(*                                                                         *)
(* The database has one row in each base relation.  A row of a join is     *)
(* then the set of the rels whose columns are not null in it, and results  *)
(* are sets of rows.  A qual gets its meaning, a choice of the sets of     *)
(* non-null rels (among those it mentions) for which it holds, when it is  *)
(* written: never when a rel it is strict for is null.                     *)
(***************************************************************************)
EXTENDS QueryPlanning, SequencesExt

CONSTANT FromJoinTypes  \* bound: the special joins tried in a query with a FromExpr

VARIABLES
  results,  \* the rows of each tree of the forest
  placed    \* the quals with their RestrictInfos

rvars == <<vars, results, placed>>

Holds(qual, row) == qual.relids \cap row \in qual.holds

AllHold(quals, row) == \A qual \in quals : Holds(qual, row)

(***************************************************************************)
(* A strict qual holds for the rows or does not.  One that is not strict   *)
(* is IS NULL of one of its rels, or holds whatever is null.               *)
(***************************************************************************)
Meanings(qual) ==
  IF qual.strict = {}
  THEN {SUBSET qual.relids} \cup {SUBSET (qual.relids \ {r}) : r \in qual.relids}
  ELSE {{}, {qual.relids}}

MeaningfulQuals(scope) ==
  UNION {{[relids |-> qual.relids, strict |-> qual.strict, holds |-> holds] : holds \in Meanings(qual)} :
           qual \in Quals(scope)}

\* At most one qual to a join.
MeaningfulQualLists(scope) == {{}} \cup {{qual} : qual \in MeaningfulQuals(scope)}

(***************************************************************************)
(* A join node of the executor.                                            *)
(***************************************************************************)
ExecJoin(outer, inner, jointype, joinquals) ==
  LET Joins(l, r) == AllHold(joinquals, l \cup r)
      joined      == UNION {{l \cup r : r \in {row \in inner : Joins(l, row)}} : l \in outer}
      outer_only  == {l \in outer : \A r \in inner : ~ Joins(l, r)}
      inner_only  == {r \in inner : \A l \in outer : ~ Joins(l, r)}
  IN  CASE jointype = "INNER" -> joined
        [] jointype = "LEFT"  -> joined \cup outer_only
        [] jointype = "FULL"  -> joined \cup outer_only \cup inner_only
        [] jointype = "SEMI"  -> outer \ outer_only
        [] jointype = "ANTI"  -> outer_only

-----------------------------------------------------------------------------
(***************************************************************************)
(* The steps of DeconstructJointree, with the meaning of what they parse.  *)
(***************************************************************************)
RInit ==
  /\ Init
  /\ results = [i \in 1 .. n_rels |-> {{i - 1}}]
  /\ placed = {}

Bounded == froms' > 0 => \A sj \in join_info_list' : sj.jointype \in FromJoinTypes

RJoinExpr(i, jointype, quals) ==
  /\ JoinExpr(i, jointype, quals)
  /\ Bounded
  /\ results' = Replaced(results, i, 2, ExecJoin(results[i], results[i + 1], jointype, quals))
  /\ placed' = placed \cup
       {[qual  |-> qual,
         rinfo |-> JoinQualInfo(forest[i], forest[i + 1], jointype, quals, qual)] : qual \in quals}

CrossProduct(rows) == FoldLeft(LAMBDA left, right : ExecJoin(left, right, "INNER", {}), rows[1], Tail(rows))

RFromExpr(i, k, quals) ==
  /\ FromExpr(i, k, quals)
  /\ Bounded
  /\ results' = Replaced(results, i, k,
       {row \in CrossProduct(SubSeq(results, i, i + k - 1)) : AllHold(quals, row)})
  /\ placed' = placed \cup {[qual |-> qual, rinfo |-> FromQualInfo(Items(i, k), qual)] : qual \in quals}

RNext ==
  \/ \E i \in 1 .. Len(forest) - 1, jointype \in JoinTypes :
       \E quals \in MeaningfulQualLists(Scope(i)) : RJoinExpr(i, jointype, quals)
  \/ \E i, k \in DOMAIN forest :
       i + k - 1 <= Len(forest) /\ \E quals \in MeaningfulQualLists(FromScope(i, k)) : RFromExpr(i, k, quals)

RSpec == RInit /\ [][RNext]_rvars

-----------------------------------------------------------------------------
(***************************************************************************)
(* Execution of the joins of a rel.  A join applies the clauses that its   *)
(* inputs could not (build_joinrel_restrictlist); an outer join uses those *)
(* that were not pushed down as join quals and applies the others to the   *)
(* rows it returns (extract_actual_join_clauses).                          *)
(***************************************************************************)
build_joinrel_restrictlist(relids, inputs) ==
  {p \in placed : /\ p.rinfo.required_relids \subseteq relids
                  /\ \A input \in inputs : ~ (p.rinfo.required_relids \subseteq input)}

joinquals(restrictlist) == {p.qual : p \in {p \in restrictlist : ~ p.rinfo.is_pushed_down}}
otherquals(restrictlist) == {p.qual : p \in {p \in restrictlist : p.rinfo.is_pushed_down}}
allquals(restrictlist) == joinquals(restrictlist) \cup otherquals(restrictlist)

\* The special join a join of rel1 and rel2, in this order, performs.
SpecialJoins(rel1, rel2) ==
  {sj \in join_info_list : ConcernedBy(sj, rel1, rel2) /\ Performs(sj, rel1, rel2)}

\* populate_joinrel_with_paths; a semijoin with a unique-ified right side is an
\* inner join on sets of rows.
JoinPath(rel1, rel2, rows1, rows2) ==
  LET restrictlist == build_joinrel_restrictlist(rel1 \cup rel2, {rel1, rel2})
      sjinfos      == SpecialJoins(rel1, rel2)
  IN  IF sjinfos = {}
      THEN ExecJoin(rows1, rows2, "INNER", allquals(restrictlist))
      ELSE LET jointype == (CHOOSE sj \in sjinfos : TRUE).jointype
           IN  IF jointype = "SEMI"
               THEN ExecJoin(rows1, rows2, "SEMI", allquals(restrictlist))
               ELSE {row \in ExecJoin(rows1, rows2, jointype, joinquals(restrictlist)) :
                       AllHold(otherquals(restrictlist), row)}

\* make_join_rel swaps its inputs where the special join needs it.
Oriented(inputs) ==
  LET pairs == {<<rel1, rel2>> \in inputs \X inputs : rel1 # rel2}
      fit   == {p \in pairs : SpecialJoins(p[1], p[2]) # {}}
  IN  CHOOSE p \in pairs : fit = {} \/ p \in fit

RECURSIVE Execute(_, _)
Execute(joins, relids) ==
  IF \A join \in joins : UNION join # relids
  THEN {row \in {relids} : AllHold(allquals(build_joinrel_restrictlist(relids, {})), row)}
  ELSE LET p == Oriented(CHOOSE join \in joins : UNION join = relids)
       IN  JoinPath(p[1], p[2], Execute(joins, p[1]), Execute(joins, p[2]))

Output(rows) == {row \cap forest[1].visible : row \in rows}

(***************************************************************************)
(* The joins of a plan of the query: one problem planned in any order, the *)
(* others in the order of their joinlists.                                 *)
(***************************************************************************)
Identity(problem) == [i \in 1 .. Len(problem) |-> i - 1]

JoinsOf(problem, o) == construct_rel_based_on_plan(Query(problem), o).joins

PlannedJoins(problem) ==
  LET others == UNION {JoinsOf(p, Identity(p)) : p \in Problems \ {problem}}
  IN  {others \cup JoinsOf(problem, o) : o \in JoinOrders(problem)}

(***************************************************************************)
(* Whatever join order the search settles on for a join problem of the     *)
(* query, the plan built for it returns the rows the query asks for: the   *)
(* legality rules, the minimal sides of the special joins and the places   *)
(* of the clauses together allow no reordering of outer joins that changes *)
(* the result.                                                             *)
(***************************************************************************)
PlansEquivalent ==
  Finished => \A problem \in Problems : \A joins \in PlannedJoins(problem) :
    Output(Execute(joins, BaseRels)) = Output(results[1])
=============================================================================
