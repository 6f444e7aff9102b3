----------------------- MODULE PlannerContextsProofs ------------------------
(***************************************************************************)
(* For any join problems and any number of evaluations: what parallel_eval *)
(* and parallel_join_search leave in the PlannerInfo lies in memory that   *)
(* exists, the hash table agrees with the list, and no evaluation sees the *)
(* join rels of another.                                                   *)
(***************************************************************************)
EXTENDS PlannerContexts, SequenceTheorems, TLAPS

Table == [cxt : Contexts, rels : SUBSET RelOptInfo]

Types ==
  /\ phase \in {"plan", "search", "eval", "construct"}
  /\ problem \in Nat \ {0}
  /\ phase # "plan" => problem <= Len(Problems)
  /\ evals \in Nat
  /\ join_rel_list \in List \cup {NULL}
  /\ tables \in Seq(Table)
  /\ join_rel_hash \in DOMAIN tables \cup {NULL}
  /\ saved \in Saved \cup {NULL}
  /\ saved # NULL <=> phase = "eval"
  /\ phase \in {"eval", "construct"} => made \subseteq Problems[problem].joins

\* The contexts nest: the planner's, that of the search, that of the evaluation.
Nesting ==
  /\ <<>> \in live
  /\ phase # "plan" => <<problem>> \in live
  /\ phase = "eval" => <<problem, evals>> \in live
  /\ phase \in {"plan", "construct"} => CurrentMemoryContext = <<>>
  /\ phase = "search" => CurrentMemoryContext = <<problem>>
  /\ phase = "eval" => CurrentMemoryContext = <<problem, evals>>

\* A cell from before this search, and one from this evaluation or construction.
Older(cell) ==
  /\ cell.cxt = <<>> /\ cell.rel.cxt = <<>>
  /\ \A j \in 1 .. Len(Problems) : j >= problem => cell.rel.relids \notin Problems[j].joins

Newer(cell) ==
  /\ phase \in {"eval", "construct"}
  /\ cell.cxt = CurrentMemoryContext /\ cell.rel.cxt = CurrentMemoryContext
  /\ cell.rel.relids \in made

ListOK ==
  /\ \A i \in DOMAIN Cells : Older(Cells[i]) \/ Newer(Cells[i])
  /\ \A i \in DOMAIN Cells : phase = "eval" /\ i <= saved.length => Older(Cells[i])
  /\ phase = "eval" => saved.length <= Len(Cells)
  /\ join_rel_list # NULL =>
       \/ join_rel_list.cxt = <<>>
       \/ phase = "eval" /\ saved.length = 0 /\ join_rel_list.cxt = CurrentMemoryContext

HashOK ==
  /\ join_rel_hash # NULL =>
       /\ tables[join_rel_hash].cxt = CurrentMemoryContext \/ tables[join_rel_hash].cxt = <<>>
       /\ phase # "eval" => tables[join_rel_hash].cxt = <<>>
       /\ tables[join_rel_hash].rels = Rels
  /\ phase = "eval" /\ saved.hash # NULL =>
       /\ saved.hash \in DOMAIN tables /\ saved.hash # join_rel_hash
       /\ tables[saved.hash].cxt = <<>>
       /\ tables[saved.hash].rels = {Cells[i].rel : i \in 1 .. saved.length}

PathsOK == paths \subseteq {<<>>}

IInv == Types /\ Nesting /\ ListOK /\ HashOK /\ PathsOK

-----------------------------------------------------------------------------
(* Sequences. *)

Cell == [cxt : Contexts, rel : RelOptInfo]

\* Contexts nest two deep, and deleting one leaves those it is nested in.
LEMMA ContextFacts ==
  ASSUME NEW p \in Nat, NEW e \in Nat
  PROVE  /\ Append(<<>>, p) = <<p>> /\ Append(<<p>>, e) = <<p, e>>
         /\ Front(<<p>>) = <<>> /\ Front(<<p, e>>) = <<p>>
         /\ ~IsPrefix(<<p>>, <<>>)
         /\ ~IsPrefix(<<p, e>>, <<>>) /\ ~IsPrefix(<<p, e>>, <<p>>)
         /\ <<>> \in Contexts /\ <<p>> \in Contexts /\ <<p, e>> \in Contexts
<1>1. /\ <<p>> \in Seq(Nat) /\ Len(<<p>>) = 1 /\ <<p>>[1] = p
      /\ <<p, e>> \in Seq(Nat) /\ Len(<<p, e>>) = 2 /\ <<p, e>>[1] = p /\ <<p, e>>[2] = e
  OBVIOUS
<1>2. Append(<<>>, p) = <<p>>
  <2>1. /\ Append(<<>>, p) \in Seq(Nat) /\ Len(Append(<<>>, p)) = 1
        /\ Append(<<>>, p)[1] = p
    OBVIOUS
  <2> QED  BY <1>1, <2>1, SeqEqual
<1>3. Append(<<p>>, e) = <<p, e>>
  <2>1. /\ Append(<<p>>, e) \in Seq(Nat) /\ Len(Append(<<p>>, e)) = 2
        /\ Append(<<p>>, e)[1] = p /\ Append(<<p>>, e)[2] = e
    BY <1>1
  <2>2. \A i \in 1 .. 2 : Append(<<p>>, e)[i] = <<p, e>>[i]
    BY <1>1, <2>1
  <2> QED  BY <1>1, <2>1, <2>2, SeqEqual, Zenon
<1>6. Front(<<p>>) = <<>>
  BY <1>1, SubSeqEmpty DEF Front
<1>7. Front(<<p, e>>) = <<p>>
  <2>1. /\ SubSeq(<<p, e>>, 1, 1) \in Seq(Nat) /\ Len(SubSeq(<<p, e>>, 1, 1)) = 1
        /\ SubSeq(<<p, e>>, 1, 1)[1] = p
    BY <1>1, SubSeqProperties
  <2>2. \A i \in 1 .. 1 : SubSeq(<<p, e>>, 1, 1)[i] = <<p>>[i]
    BY <1>1, <2>1
  <2>3. SubSeq(<<p, e>>, 1, 1) = <<p>>
    BY <1>1, <2>1, <2>2, SeqEqual, Zenon
  <2> QED  BY <1>1, <2>3 DEF Front
<1>4. ~IsPrefix(<<p>>, <<>>) /\ ~IsPrefix(<<p, e>>, <<>>) /\ ~IsPrefix(<<p, e>>, <<p>>)
  BY DEF IsPrefix
<1>5. <<>> \in Contexts /\ <<p>> \in Contexts /\ <<p, e>> \in Contexts
  BY DEF Contexts
<1> QED  BY Zenon, <1>2, <1>3, <1>4, <1>5, <1>6, <1>7

\* The cells and join rels of the list, which may be NIL.
LEMMA CellsType ==
  ASSUME Types
  PROVE  /\ Cells \in Seq(Cell)
         /\ Len(Cells) \in Nat /\ DOMAIN Cells = 1 .. Len(Cells)
         /\ \A i \in DOMAIN Cells : Cells[i] \in Cell
         /\ Rels \subseteq RelOptInfo
<1>1. Cells \in Seq(Cell)
  <2>1. CASE join_rel_list = NULL
    BY <2>1 DEF Cells
  <2>2. CASE join_rel_list # NULL
    BY Zenon, <2>2 DEF Types, Cells, Cell, List
  <2> QED  BY Zenon, <2>1, <2>2
<1>2. /\ Len(Cells) \in Nat /\ DOMAIN Cells = 1 .. Len(Cells)
      /\ \A i \in DOMAIN Cells : Cells[i] \in Cell
  BY <1>1
<1>3. Rels \subseteq RelOptInfo
  BY Zenon, <1>2 DEF Rels, Cell
<1> QED  BY Zenon, <1>1, <1>2, <1>3

\* The current context is one of those that nest.
LEMMA CurrentType ==
  ASSUME Types, Nesting
  PROVE  CurrentMemoryContext \in Contexts
BY Zenon, ContextFacts DEF Types, Nesting

-----------------------------------------------------------------------------
(* The steps. *)

\* A planner that has met no join problem yet has no list and no hash table.
LEMMA InitInv == Init => IInv
<1> SUFFICES ASSUME Init PROVE IInv
  BY Zenon
<1>1. Types
  BY DEF Init, Types
<1>2. Nesting
  BY Zenon DEF Init, Nesting
<1>3. Cells = <<>>
  BY Zenon DEF Init, Cells
<1>4. ListOK /\ HashOK /\ PathsOK
  BY <1>3 DEF Init, ListOK, HashOK, PathsOK
<1> QED  BY Zenon, <1>1, <1>2, <1>4 DEF IInv

\* parallel_join_search creates a context below the planner's and touches no list.
LEMMA SearchStarts == IInv /\ StartSearch => IInv'
<1> SUFFICES ASSUME IInv, StartSearch PROVE IInv'
  BY Zenon
<1>0. Types /\ Nesting /\ ListOK /\ HashOK /\ PathsOK
  BY Zenon DEF IInv
<1>1. Types'
  BY Zenon, <1>0 DEF StartSearch, NewContext, root, Types
<1>2. Nesting'
  BY Zenon, <1>0, ContextFacts DEF StartSearch, NewContext, Nesting, Types
<1>3. Cells' = Cells /\ Rels' = Rels
  BY Zenon DEF StartSearch, root, Cells, Rels
<1>4. ListOK'
  BY Zenon, <1>0, <1>3 DEF StartSearch, root, ListOK, Older, Newer
<1>5. HashOK'
  BY Zenon, <1>0, <1>3 DEF StartSearch, root, HashOK
<1>6. PathsOK'
  BY Zenon, <1>0 DEF StartSearch, root, PathsOK
<1> QED  BY Zenon, <1>1, <1>2, <1>4, <1>5, <1>6 DEF IInv

\* parallel_eval puts the hash table aside and remembers the length of the list.
LEMMA EvalStarts == IInv /\ StartEval => IInv'
<1> SUFFICES ASSUME IInv, StartEval PROVE IInv'
  BY Zenon
<1>0. Types /\ Nesting /\ ListOK /\ HashOK /\ PathsOK
  BY Zenon DEF IInv
<1>a. Len(Cells) \in Nat /\ DOMAIN Cells = 1 .. Len(Cells)
  BY Zenon, <1>0, CellsType
<1>1. Types'
  <2>1. saved' \in Saved
    BY <1>0, <1>a DEF StartEval, Types, Saved
  <2>2. saved' # NULL
    BY Zenon, <2>1, ConstantsAssumption
  <2> QED  BY <1>0, <2>1, <2>2 DEF StartEval, Types
<1>2. Nesting'
  <2>1. /\ CurrentMemoryContext = <<problem>> /\ phase' = "eval" /\ problem' = problem
        /\ evals' = evals + 1 /\ evals + 1 \in Nat /\ problem \in Nat
        /\ CurrentMemoryContext' = Append(CurrentMemoryContext, evals + 1)
        /\ live' = live \cup {CurrentMemoryContext'}
    BY <1>0 DEF StartEval, NewContext, Nesting, Types
  <2>2. CurrentMemoryContext' = <<problem', evals'>>
    BY Zenon, <2>1, ContextFacts
  <2> QED  BY Zenon, <1>0, <2>1, <2>2 DEF StartEval, Nesting
<1>3. Cells' = Cells /\ Rels' = Rels
  BY Zenon DEF StartEval, Cells, Rels
<1>4. ListOK'
  BY <1>0, <1>a, <1>3 DEF StartEval, ListOK, Older, Newer
<1>5. HashOK'
  BY Zenon, <1>0, <1>a, <1>3 DEF StartEval, HashOK, Rels, Types
<1>6. PathsOK'
  BY Zenon, <1>0 DEF StartEval, PathsOK
<1> QED  BY Zenon, <1>1, <1>2, <1>4, <1>5, <1>6 DEF IInv

\* What list_truncate leaves of the list.
LEMMA Truncated ==
  ASSUME Types, NEW n \in Nat, n <= Len(Cells), join_rel_list' = list_truncate(n)
  PROVE  /\ join_rel_list' \in List \cup {NULL}
         /\ join_rel_list' # NULL => n > 0 /\ join_rel_list # NULL /\ join_rel_list'.cxt = join_rel_list.cxt
         /\ DOMAIN Cells' = 1 .. n
         /\ \A i \in 1 .. n : Cells'[i] = Cells[i]
<1>0. Cells \in Seq(Cell) /\ Len(Cells) \in Nat /\ DOMAIN Cells = 1 .. Len(Cells)
  BY Zenon, CellsType
<1>1. CASE n = 0
  BY <1>1 DEF list_truncate, Cells
<1>2. CASE n > 0 /\ n >= Len(Cells)
  <2>1. join_rel_list' = join_rel_list
    BY <1>2 DEF list_truncate
  <2>2. Cells' = Cells
    BY Zenon, <2>1 DEF Cells
  <2>3. join_rel_list # NULL
    BY <1>2, <1>0 DEF Cells
  <2>4. n = Len(Cells)
    <3>1. \A a, b \in Nat : a <= b /\ a >= b => a = b
      OBVIOUS
    <3> QED  BY <1>0, <1>2, <3>1, Zenon
  <2> QED  BY Zenon, <1>0, <1>2, <2>1, <2>2, <2>3, <2>4 DEF Types
<1>3. CASE n > 0 /\ n < Len(Cells)
  <2>1. join_rel_list # NULL /\ Cells = join_rel_list.cells /\ join_rel_list \in List
    BY <1>3, <1>0 DEF Cells, Types
  <2>2. join_rel_list' = [join_rel_list EXCEPT !.cells = SubSeq(@, 1, n)]
    BY <1>0, <1>3 DEF list_truncate
  <2>3. /\ SubSeq(Cells, 1, n) \in Seq(Cell) /\ Len(SubSeq(Cells, 1, n)) = n
        /\ \A i \in 1 .. n : SubSeq(Cells, 1, n)[i] = Cells[i]
    <3>1. \A i \in 1 .. n : Cells[i] \in Cell
      BY <1>0, <1>3
    <3>2. /\ SubSeq(Cells, 1, n) \in Seq(Cell) /\ Len(SubSeq(Cells, 1, n)) = n
          /\ \A i \in 1 .. n - 1 + 1 : SubSeq(Cells, 1, n)[i] = Cells[1 + i - 1]
      BY <1>3, <3>1, SubSeqProperties
    <3> QED  BY <3>2
  <2>4. join_rel_list' \in List /\ join_rel_list'.cxt = join_rel_list.cxt
        /\ join_rel_list'.cells = SubSeq(Cells, 1, n)
    BY Zenon, <2>1, <2>2, <2>3 DEF List, Cell
  <2>5. join_rel_list' # NULL
    BY Zenon, <2>4, ConstantsAssumption
  <2>6. Cells' = SubSeq(Cells, 1, n)
    BY Zenon, <2>4, <2>5 DEF Cells
  <2> QED  BY <1>3, <2>1, <2>3, <2>4, <2>5, <2>6
<1> QED  BY <1>0, <1>1, <1>2, <1>3

\* parallel_eval truncates the list to what it was, puts the hash table back and
\* deletes only what lies in its own context.
LEMMA EvalEnds == IInv /\ EndEval => IInv'
<1> SUFFICES ASSUME IInv, EndEval PROVE IInv'
  BY Zenon
<1>0. Types /\ Nesting /\ ListOK /\ HashOK /\ PathsOK
  BY Zenon DEF IInv
<1>a. Len(Cells) \in Nat /\ DOMAIN Cells = 1 .. Len(Cells)
  BY Zenon, <1>0, CellsType
<1>b. /\ phase = "eval" /\ saved # NULL /\ saved \in Saved /\ saved.length \in Nat
      /\ saved.length <= Len(Cells)
  BY Zenon, <1>0 DEF EndEval, Types, ListOK, Saved
<1>c. /\ join_rel_list' \in List \cup {NULL}
      /\ join_rel_list' # NULL => /\ saved.length > 0 /\ join_rel_list # NULL
                                  /\ join_rel_list'.cxt = join_rel_list.cxt
      /\ DOMAIN Cells' = 1 .. saved.length
      /\ \A i \in 1 .. saved.length : Cells'[i] = Cells[i]
  BY Zenon, <1>0, <1>b, Truncated DEF EndEval
<1>1. Types'
  BY Zenon, <1>0, <1>b, <1>c DEF EndEval, Types, HashOK, Saved
<1>2. Nesting'
  <2>1. /\ CurrentMemoryContext = <<problem, evals>> /\ problem \in Nat /\ evals \in Nat
        /\ phase' = "search" /\ problem' = problem
        /\ CurrentMemoryContext' = Front(CurrentMemoryContext)
        /\ <<>> \in live /\ <<problem>> \in live
    BY Zenon, <1>0 DEF EndEval, Nesting, Types
  <2>2. CurrentMemoryContext' = <<problem>>
    BY Zenon, <2>1, ContextFacts
  <2>3. <<>> \in live' /\ <<problem>> \in live'
    BY Zenon, <2>1, ContextFacts DEF EndEval, MemoryContextDelete
  <2> QED  BY Zenon, <2>1, <2>2, <2>3 DEF Nesting
<1>4. ListOK'
  <2>1. \A i \in DOMAIN Cells' : Older(Cells[i])'
    BY <1>0, <1>a, <1>b, <1>c DEF ListOK, Older, EndEval
  <2>2. join_rel_list' # NULL => join_rel_list'.cxt = <<>>
    BY <1>0, <1>b, <1>c DEF ListOK
  <2> QED  BY Zenon, <2>1, <2>2 DEF ListOK, EndEval
<1>5. HashOK'
  <2>1. Rels' = {Cells[i].rel : i \in 1 .. saved.length}
    BY Zenon, <1>c DEF Rels
  <2> QED  BY Zenon, <1>0, <1>b, <2>1 DEF HashOK, EndEval
<1>6. PathsOK'
  BY Zenon, <1>0 DEF EndEval, PathsOK
<1> QED  BY Zenon, <1>1, <1>2, <1>4, <1>5, <1>6 DEF IInv

\* The best plan is built in the planner's own context.
LEMMA ConstructStarts == IInv /\ StartConstruct => IInv'
<1> SUFFICES ASSUME IInv, StartConstruct PROVE IInv'
  BY Zenon
<1>0. Types /\ Nesting /\ ListOK /\ HashOK /\ PathsOK
  BY Zenon DEF IInv
<1>1. Types'
  BY Zenon, <1>0 DEF StartConstruct, root, Types
<1>2. Nesting'
  BY Zenon, <1>0, ContextFacts DEF StartConstruct, Nesting, Types
<1>3. Cells' = Cells /\ Rels' = Rels
  BY Zenon DEF StartConstruct, root, Cells, Rels
<1>4. ListOK'
  BY Zenon, <1>0, <1>3 DEF StartConstruct, root, ListOK, Older, Newer
<1>5. HashOK'
  BY Zenon, <1>0, <1>3 DEF StartConstruct, root, HashOK
<1>6. PathsOK'
  BY Zenon, <1>0 DEF StartConstruct, root, PathsOK
<1> QED  BY Zenon, <1>1, <1>2, <1>4, <1>5, <1>6 DEF IInv

\* The joins of one problem are none of the next, so what is left is from before it.
LEMMA SearchEnds == IInv /\ EndSearch => IInv'
<1> SUFFICES ASSUME IInv, EndSearch PROVE IInv'
  BY Zenon
<1>0. Types /\ Nesting /\ ListOK /\ HashOK /\ PathsOK
  BY Zenon DEF IInv
<1>1. Types'
  BY <1>0 DEF EndSearch, root, Types
<1>2. Nesting'
  <2>1. /\ CurrentMemoryContext' = <<>> /\ phase' = "plan" /\ problem \in Nat /\ <<>> \in live
    BY Zenon, <1>0 DEF EndSearch, Nesting, Types
  <2>2. <<>> \in live'
    BY Zenon, <2>1, ContextFacts DEF EndSearch, MemoryContextDelete
  <2> QED  BY Zenon, <2>1, <2>2 DEF Nesting
<1>3. Cells' = Cells /\ Rels' = Rels
  BY Zenon DEF EndSearch, root, Cells, Rels
<1>4. ListOK'
  <2>1. /\ problem \in 1 .. Len(Problems) /\ problem' = problem + 1 /\ problem \in Nat
        /\ phase = "construct" /\ phase' = "plan" /\ CurrentMemoryContext = <<>>
        /\ made \subseteq Problems[problem].joins /\ Len(Problems) \in Nat
    BY <1>0, ConstantsAssumption DEF EndSearch, Types, Nesting
  <2>2. ASSUME NEW i \in DOMAIN Cells
        PROVE  Older(Cells[i])'
    <3>1. CASE Older(Cells[i])
      BY <1>3, <2>1, <3>1 DEF Older
    <3>2. CASE Newer(Cells[i])
      <4>1. Cells[i].cxt = <<>> /\ Cells[i].rel.cxt = <<>> /\ Cells[i].rel.relids \in Problems[problem].joins
        BY Zenon, <2>1, <3>2 DEF Newer
      <4>2. \A j \in 1 .. Len(Problems) : j >= problem + 1 => Cells[i].rel.relids \notin Problems[j].joins
        BY <2>1, <4>1, ProblemsAssumption
      <4> QED  BY Zenon, <1>3, <2>1, <4>1, <4>2 DEF Older
    <3> QED  BY Zenon, <1>0, <3>1, <3>2 DEF ListOK
  <2>3. join_rel_list' # NULL => join_rel_list'.cxt = <<>>
    BY Zenon, <1>0, <2>1 DEF ListOK, EndSearch, root
  <2>4. \A i \in DOMAIN Cells' : Older(Cells[i])'
    BY Zenon, <1>3, <2>2
  <2> QED  BY Zenon, <2>1, <2>3, <2>4 DEF ListOK
<1>5. HashOK'
  BY Zenon, <1>0, <1>3 DEF EndSearch, root, HashOK
<1>6. PathsOK'
  BY Zenon, <1>0 DEF EndSearch, root, PathsOK
<1> QED  BY Zenon, <1>1, <1>2, <1>4, <1>5, <1>6 DEF IInv

\* An item of the join problem is a base rel or lies in the planner's own context.
LEMMA PathCached ==
  ASSUME IInv, NEW relids, CachePath(relids)
  PROVE  IInv'
<1>0. Types /\ Nesting /\ ListOK /\ HashOK /\ PathsOK
  BY Zenon DEF IInv
<1>1. /\ Types' /\ Nesting'
  BY Zenon, <1>0 DEF CachePath, Types, Nesting
<1>3. Cells' = Cells /\ Rels' = Rels
  BY Zenon DEF CachePath, Cells, Rels
<1>4. ListOK'
  BY Zenon, <1>0, <1>3 DEF CachePath, ListOK, Older, Newer
<1>5. HashOK'
  BY Zenon, <1>0, <1>3 DEF CachePath, HashOK
<1>6. PathsOK'
  <2>1. /\ problem \in 1 .. Len(Problems) /\ made \subseteq Problems[problem].joins
        /\ relids \in Problems[problem].items
    BY <1>0, ConstantsAssumption DEF CachePath, Types
  <2>2. relids \notin made
    BY Zenon, <2>1, ProblemsAssumption
  <2>3. \A rel \in Rels : rel.relids = relids => rel.cxt = <<>>
    BY Zenon, <1>0, <2>2 DEF Rels, ListOK, Older, Newer
  <2>4. GetMemoryChunkContext(relids) = <<>>
    <3> DEFINE found == {rel \in Rels : rel.relids = relids}
    <3>1. CASE found = {}
      BY Zenon, <3>1 DEF GetMemoryChunkContext
    <3>2. CASE found # {}
      <4>1. (CHOOSE rel \in found : TRUE) \in found
        BY Zenon, <3>2
      <4> QED  BY Zenon, <2>3, <3>2, <4>1 DEF GetMemoryChunkContext
    <3> QED  BY Zenon, <3>1, <3>2
  <2> QED  BY Zenon, <1>0, <2>4 DEF CachePath, PathsOK
<1> QED  BY Zenon, <1>1, <1>4, <1>5, <1>6 DEF IInv

\* The tables and the one in use, once find_join_rel has had a look.
LEMMA HashBuilt ==
  ASSUME IInv, phase \in {"eval", "construct"}
  PROVE  /\ Tables \in Seq(Table) /\ Len(Tables) >= Len(tables) /\ Len(tables) \in Nat
         /\ \A h \in DOMAIN tables : Tables[h] = tables[h]
         /\ Hash \in DOMAIN Tables \cup {NULL}
         /\ Hash # NULL => /\ Tables[Hash].rels = Rels
                           /\ Tables[Hash].cxt = CurrentMemoryContext \/ Tables[Hash].cxt = <<>>
         /\ Hash # NULL /\ saved # NULL => Hash # saved.hash
<1>0. Types /\ Nesting /\ ListOK /\ HashOK /\ PathsOK
  BY Zenon DEF IInv
<1>1. CASE ~BuildsHash
  BY <1>0, <1>1 DEF Tables, Hash, Types, HashOK
<1>2. CASE BuildsHash
  <2>1. build_join_rel_hash \in Table
    BY Zenon, <1>0, CellsType, CurrentType DEF build_join_rel_hash, Table
  <2>2. /\ Tables = Append(tables, build_join_rel_hash) /\ Hash = Len(tables) + 1
        /\ tables \in Seq(Table)
    BY Zenon, <1>0, <1>2 DEF Tables, Hash, Types
  <2>3. /\ Tables \in Seq(Table) /\ Len(Tables) = Len(tables) + 1 /\ Len(tables) \in Nat
        /\ \A h \in DOMAIN tables : Tables[h] = tables[h]
        /\ Tables[Len(tables) + 1] = build_join_rel_hash
        /\ DOMAIN tables = 1 .. Len(tables) /\ DOMAIN Tables = 1 .. Len(tables) + 1
    BY <2>1, <2>2
  <2>4. Hash # NULL /\ Hash \in DOMAIN Tables
    BY <2>2, <2>3, ConstantsAssumption
  <2>5. Tables[Hash].rels = Rels /\ Tables[Hash].cxt = CurrentMemoryContext
    BY <2>2, <2>3 DEF build_join_rel_hash
  <2>6. saved # NULL => Hash # saved.hash
    BY <1>0, <2>2, <2>3, <2>4, ConstantsAssumption DEF HashOK, Types
  <2> QED  BY <2>3, <2>4, <2>5, <2>6
<1> QED  BY Zenon, <1>1, <1>2

\* The list and the hash table with one more rel.
LEMMA RelAdded ==
  ASSUME IInv, phase \in {"eval", "construct"}, NEW rel \in RelOptInfo, add_join_rel(rel)
  PROVE  /\ join_rel_list' \in List /\ join_rel_list' # NULL
         /\ join_rel_list'.cxt = IF join_rel_list = NULL THEN CurrentMemoryContext ELSE join_rel_list.cxt
         /\ DOMAIN Cells' = 1 .. Len(Cells) + 1
         /\ \A i \in 1 .. Len(Cells) : Cells'[i] = Cells[i]
         /\ Cells'[Len(Cells) + 1] = [cxt |-> CurrentMemoryContext, rel |-> rel]
         /\ Len(Cells') = Len(Cells) + 1
         /\ Rels' = Rels \cup {rel}
         /\ tables' \in Seq(Table) /\ join_rel_hash' \in DOMAIN tables' \cup {NULL}
         /\ join_rel_hash' = Hash
         /\ \A h \in DOMAIN tables : h # Hash => h \in DOMAIN tables' /\ tables'[h] = tables[h]
         /\ Hash # NULL => tables'[Hash].rels = Rels' /\ tables'[Hash].cxt = Tables[Hash].cxt
<1>0. Types /\ Nesting
  BY Zenon DEF IInv
<1>1. Cells \in Seq(Cell) /\ Len(Cells) \in Nat /\ DOMAIN Cells = 1 .. Len(Cells)
  BY Zenon, <1>0, CellsType
<1>2. CurrentMemoryContext \in Contexts
  BY Zenon, <1>0, CurrentType
<1> DEFINE cell == [cxt |-> CurrentMemoryContext, rel |-> rel]
<1>3. cell \in Cell
  BY Zenon, <1>2 DEF Cell
<1>4. /\ Append(Cells, cell) \in Seq(Cell) /\ Len(Append(Cells, cell)) = Len(Cells) + 1
      /\ DOMAIN Append(Cells, cell) = 1 .. Len(Cells) + 1
      /\ \A i \in 1 .. Len(Cells) : Append(Cells, cell)[i] = Cells[i]
      /\ Append(Cells, cell)[Len(Cells) + 1] = cell
  BY <1>1, <1>3
<1>5. /\ join_rel_list' \in List /\ join_rel_list'.cells = Append(Cells, cell)
      /\ join_rel_list'.cxt = IF join_rel_list = NULL THEN CurrentMemoryContext ELSE join_rel_list.cxt
  <2>1. join_rel_list' = [cxt   |-> IF join_rel_list = NULL THEN CurrentMemoryContext ELSE join_rel_list.cxt,
                          cells |-> Append(Cells, cell)]
    BY Zenon DEF add_join_rel, lappend
  <2>2. (IF join_rel_list = NULL THEN CurrentMemoryContext ELSE join_rel_list.cxt) \in Contexts
    BY Zenon, <1>0, <1>2 DEF Types, List
  <2> QED  BY Zenon, <1>4, <2>1, <2>2 DEF List, Cell
<1>6. join_rel_list' # NULL
  BY Zenon, <1>5, ConstantsAssumption
<1>7. Cells' = Append(Cells, cell)
  BY Zenon, <1>5, <1>6 DEF Cells
<1>8. /\ DOMAIN Cells' = 1 .. Len(Cells) + 1 /\ Len(Cells') = Len(Cells) + 1
      /\ \A i \in 1 .. Len(Cells) : Cells'[i] = Cells[i]
      /\ Cells'[Len(Cells) + 1] = cell
  BY Zenon, <1>4, <1>7
<1>9. Rels' = Rels \cup {rel}
  <2>1. Rels' = {Cells'[i].rel : i \in 1 .. Len(Cells) + 1}
    BY Zenon, <1>8 DEF Rels
  <2>2. Rels = {Cells[i].rel : i \in 1 .. Len(Cells)}
    BY Zenon, <1>1 DEF Rels
  <2>3. ASSUME NEW r \in Rels' PROVE r \in Rels \cup {rel}
    <3>1. PICK i \in 1 .. Len(Cells) + 1 : r = Cells'[i].rel
      BY Zenon, <2>1
    <3>2. CASE i = Len(Cells) + 1
      BY <1>8, <3>1, <3>2
    <3>3. CASE i \in 1 .. Len(Cells)
      BY Zenon, <1>8, <2>2, <3>1, <3>3
    <3> QED  BY <1>1, <3>2, <3>3
  <2>4. ASSUME NEW r \in Rels \cup {rel} PROVE r \in Rels'
    <3>1. CASE r = rel
      <4>1. Len(Cells) + 1 \in 1 .. Len(Cells) + 1 /\ Cells'[Len(Cells) + 1].rel = rel
        BY <1>1, <1>8
      <4> QED  BY Zenon, <2>1, <3>1, <4>1
    <3>2. CASE r \in Rels
      <4>1. PICK i \in 1 .. Len(Cells) : r = Cells[i].rel
        BY Zenon, <2>2, <3>2
      <4>2. i \in 1 .. Len(Cells) + 1 /\ r = Cells'[i].rel
        BY <1>1, <1>8, <4>1
      <4> QED  BY Zenon, <2>1, <4>2
    <3> QED  BY Zenon, <3>1, <3>2
  <2> QED  BY Zenon, <2>3, <2>4
<1>10. /\ tables' \in Seq(Table) /\ join_rel_hash' \in DOMAIN tables' \cup {NULL}
       /\ join_rel_hash' = Hash
       /\ \A h \in DOMAIN tables : h # Hash => h \in DOMAIN tables' /\ tables'[h] = tables[h]
       /\ Hash # NULL => tables'[Hash].rels = Rels' /\ tables'[Hash].cxt = Tables[Hash].cxt
  <2>1. /\ Tables \in Seq(Table) /\ Len(Tables) >= Len(tables) /\ Len(tables) \in Nat
        /\ \A h \in DOMAIN tables : Tables[h] = tables[h]
        /\ Hash \in DOMAIN Tables \cup {NULL}
        /\ Hash # NULL => Tables[Hash].rels = Rels
        /\ tables \in Seq(Table)
    BY Zenon, <1>0, HashBuilt DEF Types
  <2>2. /\ DOMAIN tables = 1 .. Len(tables) /\ DOMAIN Tables = 1 .. Len(Tables)
        /\ \A h \in DOMAIN tables : h \in DOMAIN Tables
    BY <2>1
  <2>3. CASE Hash = NULL
    BY Zenon, <2>1, <2>2, <2>3 DEF add_join_rel
  <2>4. CASE Hash # NULL
    <3>1. /\ tables' = [Tables EXCEPT ![Hash].rels = @ \cup {rel}] /\ Hash \in DOMAIN Tables
          /\ join_rel_hash' = Hash
      BY Zenon, <2>1, <2>4 DEF add_join_rel
    <3> DEFINE t == [Tables[Hash] EXCEPT !.rels = @ \cup {rel}]
    <3>2. t \in Table /\ t.rels = Rels' /\ t.cxt = Tables[Hash].cxt
      <4>1. Tables[Hash] \in Table /\ Tables[Hash].rels = Rels
        BY <2>1, <2>2, <2>4, <3>1
      <4>2. /\ Tables[Hash].cxt \in Contexts /\ Rels \subseteq RelOptInfo
            /\ Tables[Hash] = [cxt |-> Tables[Hash].cxt, rels |-> Tables[Hash].rels]
        BY Zenon, <4>1 DEF Table
      <4>3. t = [cxt |-> Tables[Hash].cxt, rels |-> Rels']
        BY <1>9, <4>1, <4>2
      <4> QED  BY <1>9, <4>2, <4>3 DEF Table
    <3>3. tables' = [Tables EXCEPT ![Hash] = t]
      BY Zenon, <3>1
    <3> HIDE DEF t
    <3>4. /\ tables' \in Seq(Table) /\ DOMAIN tables' = DOMAIN Tables
          /\ tables'[Hash] = t
          /\ \A h \in DOMAIN Tables : h # Hash => tables'[h] = Tables[h]
      <4>1. Hash \in 1 .. Len(Tables)
        BY Zenon, <2>2, <3>1
      <4>2. tables' \in Seq(Table)
        BY Zenon, <2>1, <3>2, <3>3, <4>1, ExceptSeq
      <4> QED  BY Zenon, <2>1, <3>1, <3>3, <4>2
    <3> QED  BY Zenon, <2>1, <2>2, <3>1, <3>2, <3>4
  <2> QED  BY Zenon, <2>3, <2>4
<1> QED  BY Zenon, <1>5, <1>6, <1>8, <1>9, <1>10

\* A join rel is added behind those from before the evaluation, to the list and to
\* a hash table that is not the one put aside.
LEMMA JoinRelBuilt ==
  ASSUME IInv, NEW relids, build_join_rel(relids)
  PROVE  IInv'
<1>0. Types /\ Nesting /\ ListOK /\ HashOK /\ PathsOK
  BY Zenon DEF IInv
<1>1. /\ phase \in {"eval", "construct"} /\ relids \in Problems[problem].joins
      /\ problem \in 1 .. Len(Problems)
      /\ made' = made \cup {relids}
      /\ UNCHANGED <<phase, problem, evals, live, CurrentMemoryContext, saved, paths>>
  BY <1>0, ConstantsAssumption DEF build_join_rel, Types
<1>2. /\ Nesting' /\ PathsOK'
  BY Zenon, <1>0, <1>1 DEF Nesting, PathsOK
<1>3. Len(Cells) \in Nat /\ DOMAIN Cells = 1 .. Len(Cells)
  BY Zenon, <1>0, CellsType
<1>4. ASSUME NEW cell
      PROVE  Older(cell)' <=> Older(cell)
  BY Zenon, <1>1 DEF Older
<1>5. ASSUME NEW cell, Newer(cell)
      PROVE  Newer(cell)'
  BY Zenon, <1>1, <1>5 DEF Newer
<1>6. CASE find_join_rel(relids) # {}
  <2>1. join_rel_hash' = Hash /\ tables' = Tables /\ UNCHANGED join_rel_list
    BY Zenon, <1>6 DEF build_join_rel
  <2>2. Cells' = Cells /\ Rels' = Rels
    BY Zenon, <2>1 DEF Cells, Rels
  <2>3. /\ Tables \in Seq(Table) /\ Len(Tables) >= Len(tables) /\ Len(tables) \in Nat
        /\ \A h \in DOMAIN tables : Tables[h] = tables[h]
        /\ Hash \in DOMAIN Tables \cup {NULL}
        /\ Hash # NULL => /\ Tables[Hash].rels = Rels
                          /\ Tables[Hash].cxt = CurrentMemoryContext \/ Tables[Hash].cxt = <<>>
        /\ Hash # NULL /\ saved # NULL => Hash # saved.hash
    BY Zenon, <1>1, HashBuilt
  <2>4. Types'
    BY Zenon, <1>0, <1>1, <2>1, <2>3 DEF Types
  <2>5. ListOK'
    <3>1. \A i \in DOMAIN Cells : Older(Cells[i])' \/ Newer(Cells[i])'
      BY Zenon, <1>0, <1>1, <2>2 DEF ListOK, Older, Newer
    <3>2. \A i \in DOMAIN Cells : phase = "eval" /\ i <= saved.length => Older(Cells[i])'
      BY Zenon, <1>0, <1>1, <2>2 DEF ListOK, Older
    <3> QED  BY Zenon, <1>0, <1>1, <2>1, <2>2, <3>1, <3>2 DEF ListOK
  <2>6. HashOK'
    <3>1. DOMAIN tables = 1 .. Len(tables) /\ DOMAIN Tables = 1 .. Len(Tables)
      BY <1>0, <2>3 DEF Types
    <3>2. \A h \in DOMAIN tables : h \in DOMAIN Tables
      BY <2>3, <3>1
    <3>3. phase # "eval" => CurrentMemoryContext = <<>>
      BY Zenon, <1>0, <1>1 DEF Nesting
    <3>4. phase = "eval" => saved # NULL
      BY Zenon, <1>0 DEF Types
    <3> QED  BY <1>0, <1>1, <2>1, <2>2, <2>3, <3>2, <3>3, <3>4 DEF HashOK
  <2> QED  BY Zenon, <1>2, <2>4, <2>5, <2>6 DEF IInv
<1>7. CASE find_join_rel(relids) = {}
  <2> DEFINE rel == [relids |-> relids, cxt |-> CurrentMemoryContext]
  <2>1. add_join_rel(rel)
    BY Zenon, <1>7 DEF build_join_rel
  <2>2. rel \in RelOptInfo
    BY Zenon, <1>0, <1>1, CurrentType DEF RelOptInfo, Joins
  <2>3. /\ join_rel_list' \in List /\ join_rel_list' # NULL
        /\ join_rel_list'.cxt = IF join_rel_list = NULL THEN CurrentMemoryContext ELSE join_rel_list.cxt
        /\ DOMAIN Cells' = 1 .. Len(Cells) + 1
        /\ \A i \in 1 .. Len(Cells) : Cells'[i] = Cells[i]
        /\ Cells'[Len(Cells) + 1] = [cxt |-> CurrentMemoryContext, rel |-> rel]
        /\ Len(Cells') = Len(Cells) + 1
        /\ Rels' = Rels \cup {rel}
        /\ tables' \in Seq(Table) /\ join_rel_hash' \in DOMAIN tables' \cup {NULL}
        /\ join_rel_hash' = Hash
        /\ \A h \in DOMAIN tables : h # Hash => h \in DOMAIN tables' /\ tables'[h] = tables[h]
        /\ Hash # NULL => tables'[Hash].rels = Rels' /\ tables'[Hash].cxt = Tables[Hash].cxt
    BY Zenon, <1>1, <2>1, <2>2, RelAdded
  <2>4. Types'
    BY Zenon, <1>0, <1>1, <2>3 DEF Types
  <2>5. ListOK'
    <3>1. \A i \in 1 .. Len(Cells) : Older(Cells[i])' \/ Newer(Cells[i])'
      <4>1. ASSUME NEW i \in 1 .. Len(Cells)  PROVE Older(Cells[i])' \/ Newer(Cells[i])'
        <5>1. Cells'[i] = Cells[i] /\ (Older(Cells[i]) \/ Newer(Cells[i]))
          BY Zenon, <1>0, <1>3, <2>3, <4>1 DEF ListOK
        <5>2. CASE Older(Cells[i])
          BY Zenon, <1>1, <5>1, <5>2 DEF Older
        <5>3. CASE Newer(Cells[i])
          BY Zenon, <1>1, <5>1, <5>3 DEF Newer
        <5> QED
          BY Zenon, <5>1, <5>2, <5>3
      <4> QED
        BY Zenon, <4>1
    <3>2. \A i \in 1 .. Len(Cells) : phase = "eval" /\ i <= saved.length => Older(Cells[i])'
      BY Zenon, <1>0, <1>1, <1>3, <2>3 DEF ListOK, Older
    <3>3. PICK k : k = Len(Cells) + 1
      BY Zenon
    <3>4. Newer(Cells[k])'
      BY <1>1, <2>3, <3>3 DEF Newer
    <3>5. \A i \in DOMAIN Cells' : i \in 1 .. Len(Cells) \/ i = k
      BY <1>3, <2>3, <3>3
    <3>6. phase = "eval" => saved.length \in Nat /\ saved.length <= Len(Cells)
      BY Zenon, <1>0 DEF Types, Saved, ListOK
    <3>7. \A i \in DOMAIN Cells' : Older(Cells[i])' \/ Newer(Cells[i])'
      BY Zenon, <3>1, <3>4, <3>5
    <3>8. \A i \in DOMAIN Cells' : phase = "eval" /\ i <= saved.length => Older(Cells[i])'
      BY <1>3, <3>2, <3>3, <3>5, <3>6
    <3>9. \/ join_rel_list'.cxt = <<>>
          \/ phase = "eval" /\ saved.length = 0 /\ join_rel_list'.cxt = CurrentMemoryContext
      <4>1. CASE join_rel_list # NULL
        BY Zenon, <1>0, <2>3, <4>1 DEF ListOK
      <4>2. CASE join_rel_list = NULL
        <5>1. Len(Cells) = 0
          BY Zenon, <4>2 DEF Cells
        <5> QED  BY <1>0, <1>1, <2>3, <3>6, <4>2, <5>1 DEF Nesting
      <4> QED  BY Zenon, <4>1, <4>2
    <3> QED  BY <1>1, <1>3, <2>3, <3>6, <3>7, <3>8, <3>9 DEF ListOK
  <2>6. HashOK'
    <3>1. Hash # NULL => /\ Tables[Hash].cxt = CurrentMemoryContext \/ Tables[Hash].cxt = <<>>
                         /\ saved # NULL => Hash # saved.hash
      BY Zenon, <1>1, HashBuilt
    <3>2. phase # "eval" => CurrentMemoryContext = <<>>
      BY Zenon, <1>0, <1>1 DEF Nesting
    <3>3. join_rel_hash' # NULL =>
            /\ tables'[join_rel_hash'].cxt = CurrentMemoryContext \/ tables'[join_rel_hash'].cxt = <<>>
            /\ phase # "eval" => tables'[join_rel_hash'].cxt = <<>>
            /\ tables'[join_rel_hash'].rels = Rels'
      BY Zenon, <2>3, <3>1, <3>2
    <3>4. ASSUME phase = "eval", saved.hash # NULL
          PROVE  /\ saved.hash \in DOMAIN tables' /\ saved.hash # Hash
                 /\ tables'[saved.hash].cxt = <<>>
                 /\ tables'[saved.hash].rels = {Cells'[i].rel : i \in 1 .. saved.length}
      <4>1. saved # NULL /\ saved.length \in Nat /\ saved.length <= Len(Cells)
        BY Zenon, <1>0, <3>4 DEF Types, Saved, ListOK
      <4>2. saved.hash # Hash
        BY Zenon, <3>1, <3>4, <4>1
      <4>3. /\ saved.hash \in DOMAIN tables /\ tables[saved.hash].cxt = <<>>
            /\ tables[saved.hash].rels = {Cells[i].rel : i \in 1 .. saved.length}
        BY Zenon, <1>0, <3>4 DEF HashOK
      <4>4. {Cells'[i].rel : i \in 1 .. saved.length} = {Cells[i].rel : i \in 1 .. saved.length}
        BY <1>3, <2>3, <4>1
      <4> QED  BY Zenon, <2>3, <4>2, <4>3, <4>4
    <3> QED  BY Zenon, <1>1, <2>3, <3>3, <3>4 DEF HashOK
  <2> QED  BY Zenon, <1>2, <2>4, <2>5, <2>6 DEF IInv
<1> QED  BY Zenon, <1>6, <1>7

-----------------------------------------------------------------------------
(***************************************************************************)
(* The inductive invariant: outside an evaluation all that root reaches    *)
(* lies in the planner's own context; within one, what was there before    *)
(* it still does, and comes first in the list.                             *)
(***************************************************************************)
THEOREM Invariance == Spec => []IInv
<1>1. Init => IInv
  BY Zenon, InitInv
<1>2. IInv /\ [Next]_vars => IInv'
  <2> SUFFICES ASSUME IInv, [Next]_vars PROVE IInv'
    BY Zenon
  <2>1. CASE StartSearch
    BY Zenon, <2>1, SearchStarts
  <2>2. CASE StartEval
    BY Zenon, <2>2, EvalStarts
  <2>3. CASE EndEval
    BY Zenon, <2>3, EvalEnds
  <2>4. CASE StartConstruct
    BY Zenon, <2>4, ConstructStarts
  <2>5. CASE EndSearch
    BY Zenon, <2>5, SearchEnds
  <2>6. ASSUME NEW relids, build_join_rel(relids) PROVE IInv'
    BY Zenon, <2>6, JoinRelBuilt
  <2>7. ASSUME NEW relids, CachePath(relids) PROVE IInv'
    BY Zenon, <2>7, PathCached
  <2>8. CASE UNCHANGED vars
    <3>1. Types' /\ Nesting'
      BY Zenon, <2>8 DEF IInv, vars, Types, Nesting
    <3>2. Cells' = Cells /\ Rels' = Rels
      BY Zenon, <2>8 DEF vars, Cells, Rels
    <3>3. ListOK'
      BY Zenon, <2>8, <3>2 DEF IInv, vars, ListOK, Older, Newer
    <3>4. HashOK' /\ PathsOK'
      BY Zenon, <2>8, <3>2 DEF IInv, vars, HashOK, PathsOK
    <3> QED  BY Zenon, <3>1, <3>3, <3>4 DEF IInv
  <2> QED  BY Zenon, <2>1, <2>2, <2>3, <2>4, <2>5, <2>6, <2>7, <2>8 DEF Next
<1> QED  BY <1>1, <1>2, PTL DEF Spec

(***************************************************************************)
(* Nothing that the planner reaches from root lies in a context that       *)
(* parallel_eval or parallel_join_search has deleted.                      *)
(***************************************************************************)
THEOREM MemoryExists == Spec => []NothingDangles
<1>1. IInv => NothingDangles
  <2> SUFFICES ASSUME IInv PROVE NothingDangles
    BY Zenon
  <2>0. Types /\ Nesting /\ ListOK /\ HashOK /\ PathsOK
    BY Zenon DEF IInv
  <2>1. <<>> \in live /\ CurrentMemoryContext \in live
    BY Zenon, <2>0 DEF Nesting, Types
  <2>2. \A i \in DOMAIN Cells : Cells[i].cxt \in live /\ Cells[i].rel.cxt \in live
    BY Zenon, <2>0, <2>1 DEF ListOK, Older, Newer
  <2>3. ListContexts \subseteq live
    BY Zenon, <2>0, <2>1, <2>2 DEF ListContexts, ListOK
  <2>4. \A rel \in Rels : rel.cxt \in live
    BY Zenon, <2>2 DEF Rels
  <2>5. HashContexts(join_rel_hash) \subseteq live
    BY Zenon, <2>0, <2>1, <2>4 DEF HashContexts, HashOK
  <2>6. paths \subseteq live
    BY Zenon, <2>0, <2>1 DEF PathsOK
  <2>7. ASSUME saved # NULL PROVE HashContexts(saved.hash) \subseteq live
    <3>1. phase = "eval" /\ saved.length \in Nat /\ saved.length <= Len(Cells)
      BY Zenon, <2>0, <2>7 DEF Types, Saved, ListOK
    <3>2. Len(Cells) \in Nat /\ DOMAIN Cells = 1 .. Len(Cells)
      BY Zenon, <2>0, CellsType
    <3>3. \A i \in 1 .. saved.length : Cells[i].rel.cxt \in live
      BY <2>2, <3>1, <3>2
    <3>4. saved.hash # NULL => /\ tables[saved.hash].cxt \in live
                               /\ \A rel \in tables[saved.hash].rels : rel.cxt \in live
      BY Zenon, <2>0, <2>1, <3>1, <3>3 DEF HashOK
    <3> QED  BY Zenon, <3>4 DEF HashContexts
  <2> QED  BY Zenon, <2>1, <2>3, <2>5, <2>6, <2>7 DEF NothingDangles
<1> QED  BY <1>1, Invariance, PTL

(***************************************************************************)
(* The hash table that find_join_rel uses holds the rels of the list.      *)
(***************************************************************************)
THEOREM LookupsAgree == Spec => []HashAgrees
<1>1. IInv => HashAgrees
  BY Zenon DEF IInv, HashOK, HashAgrees
<1> QED  BY <1>1, Invariance, PTL

(***************************************************************************)
(* build_join_rel never finds a join that this evaluation, or the final    *)
(* construction, has not made itself.                                      *)
(***************************************************************************)
THEOREM Isolation == Spec => []EvaluationsIsolated
<1>1. IInv => EvaluationsIsolated
  <2> SUFFICES ASSUME IInv, phase \in {"eval", "construct"},
                      NEW relids \in Problems[problem].joins \ made
               PROVE  find_join_rel(relids) = {}
    BY Zenon DEF EvaluationsIsolated
  <2>1. problem \in 1 .. Len(Problems) /\ problem \in Nat
    BY ConstantsAssumption DEF IInv, Types
  <2>2. \A i \in DOMAIN Cells : Cells[i].rel.relids # relids
    BY <2>1 DEF IInv, ListOK, Older, Newer
  <2>3. \A rel \in Rels : rel.relids # relids
    BY Zenon, <2>2 DEF Rels
  <2>4. Hash # NULL => Tables[Hash].rels = Rels
    BY Zenon, HashBuilt
  <2> QED  BY Zenon, <2>3, <2>4 DEF find_join_rel
<1> QED  BY <1>1, Invariance, PTL
=============================================================================
