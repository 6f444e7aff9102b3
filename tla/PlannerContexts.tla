--------------------------- MODULE PlannerContexts --------------------------
(***************************************************************************)
(* What parallel_eval leaves behind in the PlannerInfo.  Each evaluation   *)
(* of a join order builds join rels in a memory context of its own, nested *)
(* in that of the search, and adds them to root->join_rel_list and         *)
(* root->join_rel_hash; when it ends the list is truncated, the hash table *)
(* put back and the context deleted.                                       *)
(*                                                                         *)
(* A context is the sequence of the numbers under which it and those it is *)
(* nested in were created, the planner's being <<>>; it goes with all that *)
(* extend it.  Of an object the model keeps the context it lies in.  The   *)
(* planner works on the join problems of the query one after the other.    *)
(***************************************************************************)
EXTENDS Integers, FiniteSets, SequencesExt

CONSTANTS
  Problems,       \* sequence of join problems: the relids of the items and of the joins
  HashThreshold,  \* the length up to which find_join_rel searches the list, 32
  MaxEvals,       \* bound on the evaluations of a search
  NULL

Contexts == Seq(Nat)
Joins == UNION {Problems[i].joins : i \in 1 .. Len(Problems)}
RelOptInfo == [relids : Joins, cxt : Contexts]
List == [cxt : Contexts, cells : Seq([cxt : Contexts, rel : RelOptInfo])]
Saved == [length : Nat, hash : Nat \cup {NULL}]

ASSUME ConstantsAssumption ==
  /\ Len(Problems) \in Nat /\ HashThreshold \in Nat /\ MaxEvals \in Nat
  /\ NULL \notin Nat /\ NULL \notin List /\ NULL \notin Saved

\* The join problems of a query nest: a join is of several items, and all joins of
\* a problem lie within one item of the problem above.
ASSUME ProblemsAssumption ==
  \A i, j \in 1 .. Len(Problems) :
    /\ Problems[i].items \cap Problems[i].joins = {}
    /\ i # j => Problems[i].joins \cap Problems[j].joins = {}

VARIABLES
  phase,          \* "plan", "search", "eval", "construct"
  problem,        \* number of the join problem
  evals,          \* number of evaluations begun in this search
  live,           \* the memory contexts that exist
  CurrentMemoryContext,
  join_rel_list,  \* NULL (NIL), or the context of its header and the cells
  tables,         \* the hash tables built so far, each its context and its join rels
  join_rel_hash,  \* NULL, or which of them is in use
  saved,          \* parallel_eval's savelength and savehash
  made,           \* relids of the joins made in this evaluation or construction
  paths           \* the contexts of the paths cached in items of the join problems

vars == <<phase, problem, evals, live, CurrentMemoryContext, join_rel_list, tables, join_rel_hash,
          saved, made, paths>>

root == <<join_rel_list, tables, join_rel_hash, paths>>

Cells == IF join_rel_list = NULL THEN <<>> ELSE join_rel_list.cells

Rels == {Cells[i].rel : i \in DOMAIN Cells}

Init ==
  /\ phase = "plan" /\ problem = 1 /\ evals = 0
  /\ live = {<<>>} /\ CurrentMemoryContext = <<>>
  /\ join_rel_list = NULL /\ tables = <<>> /\ join_rel_hash = NULL /\ saved = NULL
  /\ made = {} /\ paths = {}

MemoryContextDelete(context) == live' = {c \in live : ~ IsPrefix(context, c)}

-----------------------------------------------------------------------------
(***************************************************************************)
(* relnode.c: find_join_rel switches to a hash table when the list has     *)
(* grown long; build_join_rel adds the rel it makes to both.               *)
(***************************************************************************)
build_join_rel_hash == [cxt |-> CurrentMemoryContext, rels |-> Rels]

BuildsHash == join_rel_hash = NULL /\ Len(Cells) > HashThreshold

Tables == IF BuildsHash THEN Append(tables, build_join_rel_hash) ELSE tables

Hash == IF BuildsHash THEN Len(tables) + 1 ELSE join_rel_hash

find_join_rel(relids) == {rel \in (IF Hash # NULL THEN Tables[Hash].rels ELSE Rels) : rel.relids = relids}

lappend(rel) ==
  [cxt   |-> IF join_rel_list = NULL THEN CurrentMemoryContext ELSE join_rel_list.cxt,
   cells |-> Append(Cells, [cxt |-> CurrentMemoryContext, rel |-> rel])]

\* Mutant: the hash table does not get the new rel.
AddToListOnly(rel) ==
  /\ join_rel_list' = lappend(rel)
  /\ join_rel_hash' = Hash
  /\ tables' = Tables

add_join_rel(rel) ==
  /\ join_rel_list' = lappend(rel)
  /\ join_rel_hash' = Hash
  /\ tables' = IF Hash = NULL THEN Tables ELSE [Tables EXCEPT ![Hash].rels = @ \cup {rel}]

build_join_rel(relids) ==
  /\ phase \in {"eval", "construct"}
  /\ relids \in Problems[problem].joins \ made
  /\ made' = made \cup {relids}
  /\ IF find_join_rel(relids) = {}
     THEN add_join_rel([relids |-> relids, cxt |-> CurrentMemoryContext])
     ELSE join_rel_hash' = Hash /\ tables' = Tables /\ UNCHANGED join_rel_list
  /\ UNCHANGED <<phase, problem, evals, live, CurrentMemoryContext, saved, paths>>

(***************************************************************************)
(* create_unique_path, and mark_dummy_rel: a path attached to an item of   *)
(* the problem lies in the context the item lies in.                       *)
(***************************************************************************)
GetMemoryChunkContext(relids) ==
  LET found == {rel \in Rels : rel.relids = relids}
  IN  IF found = {} THEN <<>> ELSE (CHOOSE rel \in found : TRUE).cxt

\* Mutant: the path lies in the current context.
CachePathHere(relids) ==
  /\ phase \in {"eval", "construct"}
  /\ relids \in Problems[problem].items
  /\ paths' = paths \cup {CurrentMemoryContext}
  /\ UNCHANGED <<phase, problem, evals, live, CurrentMemoryContext, join_rel_list, tables, join_rel_hash,
                 saved, made>>

CachePath(relids) ==
  /\ phase \in {"eval", "construct"}
  /\ relids \in Problems[problem].items
  /\ paths' = paths \cup {GetMemoryChunkContext(relids)}
  /\ UNCHANGED <<phase, problem, evals, live, CurrentMemoryContext, join_rel_list, tables, join_rel_hash,
                 saved, made>>

-----------------------------------------------------------------------------
(***************************************************************************)
(* parallel_eval.                                                          *)
(***************************************************************************)
NewContext(context) == live' = live \cup {context} /\ CurrentMemoryContext' = context

StartEval ==
  /\ phase = "search" /\ evals < MaxEvals
  /\ phase' = "eval" /\ evals' = evals + 1 /\ made' = {}
  /\ NewContext(Append(CurrentMemoryContext, evals + 1))
  /\ saved' = [length |-> Len(Cells), hash |-> join_rel_hash]
  /\ join_rel_hash' = NULL
  /\ UNCHANGED <<problem, join_rel_list, tables, paths>>

list_truncate(new_size) ==
  IF new_size <= 0 THEN NULL
  ELSE IF new_size >= Len(Cells) THEN join_rel_list
  ELSE [join_rel_list EXCEPT !.cells = SubSeq(@, 1, new_size)]

\* Mutant: the join rels and their context are kept for the next evaluation.
EndEvalKeepsRels ==
  /\ phase = "eval"
  /\ phase' = "search"
  /\ join_rel_hash' = saved.hash
  /\ saved' = NULL
  /\ CurrentMemoryContext' = Front(CurrentMemoryContext)
  /\ UNCHANGED <<problem, evals, live, join_rel_list, tables, made, paths>>

EndEval ==
  /\ phase = "eval"
  /\ phase' = "search"
  /\ join_rel_list' = list_truncate(saved.length)
  /\ join_rel_hash' = saved.hash
  /\ saved' = NULL
  /\ CurrentMemoryContext' = Front(CurrentMemoryContext)
  /\ MemoryContextDelete(CurrentMemoryContext)
  /\ UNCHANGED <<problem, evals, tables, made, paths>>

(***************************************************************************)
(* parallel_join_search: the best plan is built for good in the caller's   *)
(* context, while that of the search, which holds the plan, still exists.  *)
(***************************************************************************)
StartSearch ==
  /\ phase = "plan" /\ problem <= Len(Problems)
  /\ phase' = "search" /\ evals' = 0
  /\ NewContext(Append(CurrentMemoryContext, problem))
  /\ UNCHANGED <<problem, root, saved, made>>

StartConstruct ==
  /\ phase = "search"
  /\ phase' = "construct" /\ made' = {}
  /\ CurrentMemoryContext' = Front(CurrentMemoryContext)
  /\ UNCHANGED <<problem, evals, live, root, saved>>

EndSearch ==
  /\ phase = "construct"
  /\ phase' = "plan" /\ problem' = problem + 1
  /\ MemoryContextDelete(<<problem>>)
  /\ UNCHANGED <<evals, CurrentMemoryContext, root, saved, made>>

Next ==
  \/ StartSearch \/ StartEval \/ EndEval \/ StartConstruct \/ EndSearch
  \/ problem <= Len(Problems) /\ \E relids \in Problems[problem].joins : build_join_rel(relids)
  \/ problem <= Len(Problems) /\ \E relids \in Problems[problem].items : CachePath(relids)

Spec == Init /\ [][Next]_vars

-----------------------------------------------------------------------------
(***************************************************************************)
(* Nothing that the planner can reach from root lies in a context that has *)
(* been deleted: neither the header, cells and join rels of join_rel_list, *)
(* nor the hash table in use or put aside, nor a path cached in an item of *)
(* the join problem while one join order was evaluated.                    *)
(***************************************************************************)
ListContexts ==
  IF join_rel_list = NULL THEN {}
  ELSE {join_rel_list.cxt} \cup UNION {{Cells[i].cxt, Cells[i].rel.cxt} : i \in DOMAIN Cells}

HashContexts(hash) == IF hash = NULL THEN {} ELSE {tables[hash].cxt} \cup {rel.cxt : rel \in tables[hash].rels}

NothingDangles ==
  /\ ListContexts \cup HashContexts(join_rel_hash) \cup paths \cup {CurrentMemoryContext} \subseteq live
  /\ saved # NULL => HashContexts(saved.hash) \subseteq live

(***************************************************************************)
(* The hash table, where there is one, holds the join rels of the list, so *)
(* that a lookup does not depend on which of the two find_join_rel uses.   *)
(***************************************************************************)
HashAgrees == join_rel_hash # NULL => tables[join_rel_hash].rels = Rels

(***************************************************************************)
(* No evaluation sees another one's join rels: a join not made in this     *)
(* evaluation, or in the final construction, is not found either, so that  *)
(* its paths are those of the join order under evaluation alone.           *)
(***************************************************************************)
EvaluationsIsolated ==
  phase \in {"eval", "construct"} =>
    \A relids \in Problems[problem].joins \ made : find_join_rel(relids) = {}
=============================================================================
