------------------------ MODULE QueryPlanningProofs -------------------------
(***************************************************************************)
(* Proofs about deconstruct_jointree and about the rels that parallel_eval *)
(* builds for its join problems, for any number of relations, any mix of   *)
(* join types and quals, any nesting, any collapse limits and any join     *)
(* order.                                                                  *)
(*                                                                         *)
(* The invariant IInv says that the trees of the forest share no rels and  *)
(* that no special join reaches beyond its tree.  That keeps what          *)
(* make_outerjoininfo and check_outerjoin_delay add on the right side.     *)
(* For the joinlists it says (Nested) that those which are complete and    *)
(* those of the trees split disjoint sets of rels: one lemma, Grown,       *)
(* covers every way in which trees grow together.  SInv adds that no item  *)
(* of a joinlist straddles a special join, which is what the lemmas of     *)
(* ParallelEvalProofs about trees of joins need.                           *)
(***************************************************************************)
EXTENDS QueryPlanning, ParallelEvalProofs

Tree == [relids : SUBSET BaseRels, inners : SUBSET BaseRels, visible : SUBSET BaseRels,
         reducible : SUBSET SUBSET BaseRels, joinlist : Seq(SUBSET BaseRels)]

SpecialJoins ==
  [jointype : JoinTypes, syn_lefthand : SUBSET BaseRels, syn_righthand : SUBSET BaseRels,
   min_lefthand : SUBSET BaseRels, min_righthand : SUBSET BaseRels,
   lhs_strict : BOOLEAN, semi_can_unique : BOOLEAN, delay_upper_joins : BOOLEAN]
RestrictInfos == [required_relids : SUBSET BaseRels, is_pushed_down : BOOLEAN, qualscope : SUBSET BaseRels]

\* The trees are parts of the query that have no rel in common.
TreesApart ==
  /\ \A i \in DOMAIN forest : forest[i].inners \subseteq forest[i].relids /\ forest[i].visible \subseteq forest[i].relids
  /\ \A i \in DOMAIN forest : forest[i].relids # {}
  /\ \A i, j \in DOMAIN forest : i # j => forest[i].relids \cap forest[j].relids = {}

\* No special join reaches beyond its tree.
JoinsWithin ==
  \A sj \in join_info_list : \E i \in DOMAIN forest : sj.syn_lefthand \cup sj.syn_righthand \subseteq forest[i].relids

\* The items of a joinlist are disjoint, and make up the whole.
Splits(list, whole) ==
  /\ IsInjective(list) /\ UNION Range(list) = whole
  /\ \A x \in Range(list) : x # {}
  /\ \A x, y \in Range(list) : x # y => x \cap y = {}

ItemsOf(done) == {{r} : r \in BaseRels} \cup {Whole(problem) : problem \in done}

\* Some joinlists are done, the others those of trees; a list that is done is not
\* that of a tree and lies within one.
Nested(trees, done) ==
  /\ \A t \in trees : t.relids # {} /\ Splits(t.joinlist, t.relids)
  /\ \A s, t \in trees : s # t => s.relids \cap t.relids = {}
  /\ \A p \in done : /\ Splits(p, Whole(p)) /\ Whole(p) # {} /\ Whole(p) \notin Range(p)
                     /\ \E t \in trees : Whole(p) \subseteq t.relids
  /\ \A p \in done, t \in trees : Range(p) \cap Range(t.joinlist) = {}
  /\ \A p, r \in done : p # r => Range(p) \cap Range(r) = {}
  /\ \A x \in ItemsOf(done) : \/ \E p \in done : x \in Range(p)
                              \/ \E t \in trees : x \in Range(t.joinlist)
  /\ \A p \in done : Range(p) \subseteq ItemsOf(done)
  /\ \A t \in trees : Range(t.joinlist) \subseteq ItemsOf(done)

IInv == TypeOK /\ TreesApart /\ JoinsWithin /\ ScopesRespected /\ Nested(Range(forest), problems)

-----------------------------------------------------------------------------
(* Joinlists are concatenated. *)

LEMMA ConcatRange ==
  ASSUME NEW S, NEW s \in Seq(S), NEW t \in Seq(S)
  PROVE  Range(s \o t) = Range(s) \cup Range(t)
<1> DEFINE u == s \o t
<1>1. /\ DOMAIN u = 1 .. Len(s) + Len(t) /\ DOMAIN s = 1 .. Len(s) /\ DOMAIN t = 1 .. Len(t)
      /\ Len(s) \in Nat /\ Len(t) \in Nat
  OBVIOUS
<1>2. \A j \in 1 .. Len(s) + Len(t) : u[j] = IF j <= Len(s) THEN s[j] ELSE t[j - Len(s)]
  BY Zenon, Concat
<1> HIDE DEF u
<1>3. ASSUME NEW j \in DOMAIN u PROVE u[j] \in Range(s) \cup Range(t)
  <2>1. CASE j <= Len(s)
    <3>1. j \in DOMAIN s /\ u[j] = s[j]
      BY <1>1, <1>2, <2>1
    <3> QED  BY Zenon, <3>1 DEF Range
  <2>2. CASE ~ (j <= Len(s))
    <3>1. j - Len(s) \in DOMAIN t /\ u[j] = t[j - Len(s)]
      BY <1>1, <1>2, <2>2
    <3> QED  BY Zenon, <3>1 DEF Range
  <2> QED  BY Zenon, <2>1, <2>2
<1>4. ASSUME NEW j \in DOMAIN s PROVE s[j] \in Range(u)
  <2>1. j \in DOMAIN u /\ u[j] = s[j]
    BY <1>1, <1>2
  <2> QED  BY Zenon, <2>1 DEF Range
<1>5. ASSUME NEW j \in DOMAIN t PROVE t[j] \in Range(u)
  <2>1. Len(s) + j \in DOMAIN u /\ u[Len(s) + j] = t[j]
    <3>1. Len(s) + j \in 1 .. Len(s) + Len(t) /\ ~ (Len(s) + j <= Len(s)) /\ (Len(s) + j) - Len(s) = j
      BY <1>1
    <3> QED  BY Zenon, <1>1, <1>2, <3>1
  <2> QED  BY Zenon, <2>1 DEF Range
<1>6. Range(u) = Range(s) \cup Range(t)
  BY Zenon, <1>3, <1>4, <1>5 DEF Range
<1> QED  BY Zenon, <1>6 DEF u

LEMMA SameSeq ==
  ASSUME NEW S, NEW s \in Seq(S), NEW t \in Seq(S), Len(s) = Len(t), \A j \in 1 .. Len(s) : s[j] = t[j]
  PROVE  s = t
  OBVIOUS

LEMMA AppendConcat ==
  ASSUME NEW S, NEW s \in Seq(S), NEW x \in S
  PROVE  Append(s, x) = s \o <<x>>
<1>1. PICK one : one = <<x>>
  BY Zenon
<1>2. one \in Seq(S) /\ Len(one) = 1 /\ one[1] = x
  BY <1>1
<1>3. PICK a : a = Append(s, x)
  BY Zenon
<1>4. /\ a \in Seq(S) /\ Len(a) = Len(s) + 1 /\ Len(s) \in Nat
      /\ \A j \in 1 .. Len(s) : a[j] = s[j]
      /\ a[Len(s) + 1] = x
  BY <1>3
<1>5. PICK b : b = s \o one
  BY Zenon
<1>6. /\ b \in Seq(S) /\ Len(b) = Len(s) + Len(one)
      /\ \A j \in 1 .. Len(s) + Len(one) : b[j] = IF j <= Len(s) THEN s[j] ELSE one[j - Len(s)]
  BY Zenon, <1>2, <1>5, Concat
<1>7. ASSUME NEW j \in 1 .. Len(a) PROVE a[j] = b[j]
  BY <1>2, <1>4, <1>6
<1>8. Len(a) = Len(b)
  BY Zenon, <1>2, <1>4, <1>6
<1>9. a = b
  BY Zenon, <1>4, <1>6, <1>7, <1>8, SameSeq
<1> QED  BY Zenon, <1>1, <1>3, <1>5, <1>9

\* The recursion over the items of a FromExpr is well-defined.
LEMMA AccumulatedDef ==
  ASSUME NEW items, Len(items) \in Nat
  PROVE  /\ Accumulated(items)[0] = [joinlist |-> <<>>, cut |-> {}]
         /\ \A j \in 1 .. Len(items) : Accumulated(items)[j] = AddItem(items, Accumulated(items)[j - 1], j)
<1> DEFINE G(f, n) == [j \in 0 .. n |-> IF j = 0 THEN [joinlist |-> <<>>, cut |-> {}]
                                       ELSE AddItem(items, f[j - 1], j)]
           T == {n \in Nat : \E f : f = G(f, n)}
<1>1. 0 \in T
  <2>1. [j \in 0 .. 0 |-> [joinlist |-> <<>>, cut |-> {}]] = G([j \in 0 .. 0 |-> [joinlist |-> <<>>, cut |-> {}]], 0)
    OBVIOUS
  <2> QED  BY <2>1
<1>2. ASSUME NEW n \in T PROVE n + 1 \in T
  <2>1. PICK f : f = G(f, n)
    OBVIOUS
  <2> DEFINE g == [j \in 0 .. n + 1 |-> IF j = n + 1 THEN AddItem(items, f[n], n + 1) ELSE f[j]]
  <2>2. n \in Nat
    OBVIOUS
  <2>3. \A j \in 0 .. n + 1 : g[j] = G(g, n + 1)[j]
    <3> SUFFICES ASSUME NEW j \in 0 .. n + 1 PROVE g[j] = G(g, n + 1)[j]
      OBVIOUS
    <3>1. CASE j = n + 1
      BY <2>2, <3>1
    <3>2. CASE j \in 0 .. n
      <4>1. f[j] = G(f, n)[j]
        BY <2>1
      <4> QED BY <2>2, <3>2, <4>1
    <3> QED  BY <2>2, <3>1, <3>2
  <2>4. g = G(g, n + 1)
    BY <2>3
  <2> HIDE DEF g, G
  <2>5. \E h : h = G(h, n + 1)
    BY <2>4, Zenon
  <2> QED  BY <2>2, <2>5
<1>3. T = Nat
  <2>1. \A n \in T : n + 1 \in T
    BY <1>2
  <2> HIDE DEF T
  <2>2. T \in SUBSET Nat
    BY DEF T
  <2> QED  BY <1>1, <2>1, <2>2, NatSetInduction
<1>4. \E f : f = G(f, Len(items))
  BY <1>3
<1>5. Accumulated(items) = G(Accumulated(items), Len(items))
  BY <1>4 DEF Accumulated
<1>6. PICK acc : acc = Accumulated(items)
  OBVIOUS
<1>7. acc = G(acc, Len(items))
  BY <1>5, <1>6
<1>8. acc[0] = G(acc, Len(items))[0] /\ \A j \in 1 .. Len(items) : acc[j] = G(acc, Len(items))[j]
  BY <1>7, Zenon
<1>9. 0 \in 0 .. Len(items) /\ \A j \in 1 .. Len(items) : j \in 0 .. Len(items) /\ j # 0
  OBVIOUS
<1>10. /\ acc[0] = [joinlist |-> <<>>, cut |-> {}]
       /\ \A j \in 1 .. Len(items) : acc[j] = AddItem(items, acc[j - 1], j)
  BY <1>8, <1>9, Zenon
<1> QED  BY <1>6, <1>10

-----------------------------------------------------------------------------
(* Joinlists nest. *)

\* Some trees grow together into one, whose joinlist takes over the items of those
\* that are kept and has the others, whose joinlists are done, as items.
LEMMA Grown ==
  ASSUME NEW trees, NEW done, Nested(trees, done),
         NEW parts \in SUBSET trees, NEW kept \in SUBSET parts, NEW tree,
         parts # {},
         tree.relids = UNION {t.relids : t \in parts},
         IsInjective(tree.joinlist),
         \A x : x \in Range(tree.joinlist) <=>
                \/ \E t \in kept : x \in Range(t.joinlist)
                \/ \E t \in parts \ kept : x = t.relids,
         \A t \in parts \ kept : t.relids \notin Range(t.joinlist)
  PROVE  Nested((trees \ parts) \cup {tree}, done \cup {t.joinlist : t \in parts \ kept})
<1> DEFINE cut == {t.joinlist : t \in parts \ kept}
           trees1 == (trees \ parts) \cup {tree}
           done1 == done \cup cut
<1>1. /\ \A t \in trees : t.relids # {} /\ Splits(t.joinlist, t.relids)
      /\ \A s, t \in trees : s # t => s.relids \cap t.relids = {}
      /\ \A p \in done : /\ Splits(p, Whole(p)) /\ Whole(p) # {} /\ Whole(p) \notin Range(p)
                         /\ \E t \in trees : Whole(p) \subseteq t.relids
      /\ \A p \in done, t \in trees : Range(p) \cap Range(t.joinlist) = {}
      /\ \A p, r \in done : p # r => Range(p) \cap Range(r) = {}
      /\ \A x \in ItemsOf(done) : \/ \E p \in done : x \in Range(p)
                                  \/ \E t \in trees : x \in Range(t.joinlist)
      /\ \A p \in done : Range(p) \subseteq ItemsOf(done)
      /\ \A t \in trees : Range(t.joinlist) \subseteq ItemsOf(done)
  BY DEF Nested
<1>2. \A t \in trees : Whole(t.joinlist) = t.relids /\ \A x \in Range(t.joinlist) : x # {} /\ x \subseteq t.relids
  BY <1>1 DEF Splits, Whole
<1>3. \A t \in parts : t.relids \subseteq tree.relids
  OBVIOUS
<1>4. \A x \in Range(tree.joinlist) : x # {} /\ \E t \in parts : x \subseteq t.relids
  BY <1>1, <1>2
<1>5. \A s, t \in trees : \A x \in Range(s.joinlist), y \in Range(t.joinlist) : s # t => x # y
  BY <1>1, <1>2
<1>6. tree.relids # {} /\ Splits(tree.joinlist, tree.relids)
  <2>1. tree.relids # {}
    BY <1>1
  <2>2. UNION Range(tree.joinlist) = tree.relids
    <3>1. \A t \in trees : UNION Range(t.joinlist) = t.relids
      BY <1>1 DEF Splits
    <3>2. ASSUME NEW r PROVE r \in UNION Range(tree.joinlist) <=> \E t \in parts : r \in t.relids
      <4>1. \A t \in parts : r \in t.relids <=> \E x \in Range(t.joinlist) : r \in x
        BY <3>1
      <4> QED  BY <4>1
    <3> QED  BY <3>2
  <2>3. ASSUME NEW x \in Range(tree.joinlist), NEW y \in Range(tree.joinlist), x # y PROVE x \cap y = {}
    <3>1. PICK s \in parts : (x = s.relids /\ s \notin kept) \/ (x \in Range(s.joinlist) /\ s \in kept)
      OBVIOUS
    <3>2. PICK t \in parts : (y = t.relids /\ t \notin kept) \/ (y \in Range(t.joinlist) /\ t \in kept)
      OBVIOUS
    <3>3. x \subseteq s.relids /\ y \subseteq t.relids
      BY <1>2, <3>1, <3>2
    <3>4. CASE s # t
      BY <1>1, <3>3, <3>4
    <3>5. CASE s = t
      BY <1>1, <2>3, <3>1, <3>2, <3>5 DEF Splits
    <3> QED  BY <3>4, <3>5
  <2> QED  BY <1>4, <2>1, <2>2, <2>3 DEF Splits
<1>7. \A s, t \in trees1 : s # t => s.relids \cap t.relids = {}
  BY <1>1
<1>8. \A p \in done1 : /\ Splits(p, Whole(p)) /\ Whole(p) # {} /\ Whole(p) \notin Range(p)
                       /\ \E t \in trees1 : Whole(p) \subseteq t.relids
  BY <1>1, <1>2, <1>3
<1>9. \A p \in done, t \in parts : t.relids \notin Range(p)
  <2> SUFFICES ASSUME NEW p \in done, NEW t \in parts, t.relids \in Range(p) PROVE FALSE
    OBVIOUS
  <2>1. t.relids \subseteq Whole(p)
    BY DEF Whole
  <2>2. PICK s \in trees : Whole(p) \subseteq s.relids
    BY <1>1
  <2>3. s = t
    BY <1>1, <2>1, <2>2
  <2>4. Whole(p) = t.relids
    BY <2>1, <2>2, <2>3
  <2> QED  BY <1>1, <2>4
<1>10. \A p \in done1, t \in trees1 : Range(p) \cap Range(t.joinlist) = {}
  <2>1. ASSUME NEW p \in done PROVE Range(p) \cap Range(tree.joinlist) = {}
    BY <1>1, <1>9
  <2>2. ASSUME NEW s \in parts \ kept, NEW t \in trees \ parts PROVE Range(s.joinlist) \cap Range(t.joinlist) = {}
    BY <1>5
  <2>3. ASSUME NEW s \in parts \ kept PROVE Range(s.joinlist) \cap Range(tree.joinlist) = {}
    <3> SUFFICES ASSUME NEW x \in Range(s.joinlist), x \in Range(tree.joinlist) PROVE FALSE
      OBVIOUS
    <3>1. PICK t \in parts : (x = t.relids /\ t \notin kept) \/ (x \in Range(t.joinlist) /\ t \in kept)
      OBVIOUS
    <3>2. s = t
      BY <1>1, <1>2, <3>1
    <3> QED  BY <3>1, <3>2
  <2> QED  BY <1>1, <2>1, <2>2, <2>3
<1>11. \A p, r \in done1 : p # r => Range(p) \cap Range(r) = {}
  BY <1>1, <1>5
<1>12. ItemsOf(done1) = ItemsOf(done) \cup {t.relids : t \in parts \ kept}
  BY <1>2 DEF ItemsOf
<1>13. \A x \in ItemsOf(done1) : \/ \E p \in done1 : x \in Range(p)
                                 \/ \E t \in trees1 : x \in Range(t.joinlist)
  BY <1>1, <1>12
<1>14. \A p \in done1 : Range(p) \subseteq ItemsOf(done1)
  BY <1>1, <1>12
<1>15. \A t \in trees1 : Range(t.joinlist) \subseteq ItemsOf(done1)
  BY <1>1, <1>12
<1>16. \A t \in trees1 : t.relids # {} /\ Splits(t.joinlist, t.relids)
  BY <1>1, <1>6
<1> HIDE DEF trees1, done1
<1>17. Nested(trees1, done1)
  BY <1>7, <1>8, <1>10, <1>11, <1>13, <1>14, <1>15, <1>16 DEF Nested
<1> QED  BY <1>17 DEF trees1, done1

\* The joinlists that are done and those of the trees make up one tree over the rels.
LEMMA NestedJoinlists == Nested(Range(forest), problems) => JoinlistsNest
<1> SUFFICES ASSUME Nested(Range(forest), problems) PROVE JoinlistsNest
  OBVIOUS
<1> DEFINE open == {forest[i].joinlist : i \in DOMAIN forest}
           items == ItemsOf(problems)
<1>1. open = {t.joinlist : t \in Range(forest)}
  BY DEF Range
<1>2. \A p \in problems \cup open : IsInjective(p) /\ Range(p) \subseteq items
  BY <1>1 DEF Nested, Splits
<1>3. ASSUME NEW item \in items PROVE Cardinality({p \in problems \cup open : item \in Range(p)}) = 1
  <2>1. PICK p \in problems \cup open : item \in Range(p)
    BY <1>1 DEF Nested
  <2>2. ASSUME NEW r \in problems \cup open, item \in Range(r) PROVE r = p
    <3>1. \A s, t \in Range(forest) : item \in Range(s.joinlist) /\ item \in Range(t.joinlist) => s = t
      <4>1. \A t \in Range(forest) : item \in Range(t.joinlist) => item # {} /\ item \subseteq t.relids
        BY DEF Nested, Splits
      <4>2. \A s, t \in Range(forest) : s # t => s.relids \cap t.relids = {}
        BY DEF Nested
      <4> QED  BY <4>1, <4>2
    <3>2. /\ \A a \in problems, t \in Range(forest) : Range(a) \cap Range(t.joinlist) = {}
          /\ \A a, b \in problems : a # b => Range(a) \cap Range(b) = {}
      BY DEF Nested
    <3> QED  BY <1>1, <2>1, <2>2, <3>1, <3>2
  <2>3. {s \in problems \cup open : item \in Range(s)} = {p}
    BY <2>1, <2>2
  <2> QED  BY <2>3, FS_Singleton
<1> QED  BY <1>2, <1>3 DEF JoinlistsNest, ItemsOf

-----------------------------------------------------------------------------
(* The joinlist of a FromExpr. *)

LEMMA InjectiveConcat ==
  ASSUME NEW S, NEW s \in Seq(S), NEW t \in Seq(S), IsInjective(s), IsInjective(t), Range(s) \cap Range(t) = {}
  PROVE  IsInjective(s \o t)
<1> SUFFICES ASSUME NEW a \in DOMAIN (s \o t), NEW b \in DOMAIN (s \o t), (s \o t)[a] = (s \o t)[b]
             PROVE  a = b
  BY DEF IsInjective
<1>1. /\ Len(s) \in Nat /\ Len(t) \in Nat /\ a \in 1 .. Len(s) + Len(t) /\ b \in 1 .. Len(s) + Len(t)
      /\ DOMAIN s = 1 .. Len(s) /\ DOMAIN t = 1 .. Len(t)
  OBVIOUS
<1>2. \A i \in 1 .. Len(s) + Len(t) : (s \o t)[i] = IF i <= Len(s) THEN s[i] ELSE t[i - Len(s)]
  OBVIOUS
<1>3. \A i \in 1 .. Len(s), j \in 1 .. Len(t) : s[i] # t[j]
  BY <1>1 DEF Range
<1>4. CASE a <= Len(s) /\ b <= Len(s)
  BY <1>1, <1>2, <1>4 DEF IsInjective
<1>5. CASE a > Len(s) /\ b > Len(s)
  <2>1. a - Len(s) \in 1 .. Len(t) /\ b - Len(s) \in 1 .. Len(t) /\ t[a - Len(s)] = t[b - Len(s)]
    BY <1>1, <1>2, <1>5
  <2>2. a - Len(s) = b - Len(s)
    BY <1>1, <2>1 DEF IsInjective
  <2> QED  BY <1>1, <2>2
<1>6. CASE a <= Len(s) /\ b > Len(s)
  <2>1. a \in 1 .. Len(s) /\ b - Len(s) \in 1 .. Len(t) /\ s[a] = t[b - Len(s)]
    BY <1>1, <1>2, <1>6
  <2> QED  BY <1>3, <2>1
<1>7. CASE a > Len(s) /\ b <= Len(s)
  <2>1. b \in 1 .. Len(s) /\ a - Len(s) \in 1 .. Len(t) /\ s[b] = t[a - Len(s)]
    BY <1>1, <1>2, <1>7
  <2> QED  BY <1>3, <2>1
<1> QED  BY <1>1, <1>4, <1>5, <1>6, <1>7

\* acc after n items: the joinlists of those that are kept, the others as items.
Taken(items, n, kept, acc) ==
  /\ kept \subseteq 1 .. n
  /\ acc \in [joinlist : Seq(SUBSET BaseRels), cut : SUBSET Seq(SUBSET BaseRels)]
  /\ IsInjective(acc.joinlist)
  /\ \A x : x \in Range(acc.joinlist) <=>
            \/ \E j \in kept : x \in Range(items[j].joinlist)
            \/ \E j \in (1 .. n) \ kept : x = items[j].relids
  /\ acc.cut = {items[j].joinlist : j \in (1 .. n) \ kept}
  /\ \A j \in (1 .. n) \ kept : Len(items[j].joinlist) > 1

LEMMA ItemAdded ==
  ASSUME NEW items \in Seq(Tree), NEW n \in Nat, n + 1 <= Len(items), NEW kept, NEW acc,
         Taken(items, n, kept, acc),
         \A i \in 1 .. Len(items) : items[i].relids # {} /\ Splits(items[i].joinlist, items[i].relids),
         \A i, j \in 1 .. Len(items) : i # j => items[i].relids \cap items[j].relids = {}
  PROVE  \E kept1 : Taken(items, n + 1, kept1, AddItem(items, acc, n + 1))
<1>0. PICK it : it = items[n + 1]
  OBVIOUS
<1>1. /\ Len(items) \in Nat /\ n + 1 \in 1 .. Len(items) /\ 1 .. n \subseteq 1 .. Len(items)
      /\ 1 .. n + 1 = (1 .. n) \cup {n + 1} /\ n + 1 \notin 1 .. n
  OBVIOUS
<1>2. it.joinlist \in Seq(SUBSET BaseRels) /\ it.relids \in SUBSET BaseRels /\ Len(it.joinlist) \in Nat
  <2>1. it \in Tree
    BY <1>0, <1>1
  <2> QED  BY <2>1 DEF Tree
<1>3. \A i \in 1 .. Len(items) : \A x \in Range(items[i].joinlist) : x # {} /\ x \subseteq items[i].relids
  BY DEF Splits
<1>4. /\ kept \subseteq 1 .. n /\ acc \in [joinlist : Seq(SUBSET BaseRels), cut : SUBSET Seq(SUBSET BaseRels)]
      /\ IsInjective(acc.joinlist)
      /\ \A x : x \in Range(acc.joinlist) <=>
                \/ \E j \in kept : x \in Range(items[j].joinlist)
                \/ \E j \in (1 .. n) \ kept : x = items[j].relids
      /\ acc.cut = {items[j].joinlist : j \in (1 .. n) \ kept}
      /\ \A j \in (1 .. n) \ kept : Len(items[j].joinlist) > 1
  BY DEF Taken
<1>5. acc.joinlist \in Seq(SUBSET BaseRels)
  BY <1>4
<1>6. \A x \in Range(acc.joinlist) : x # {} /\ x \cap it.relids = {}
  <2> SUFFICES ASSUME NEW x \in Range(acc.joinlist) PROVE x # {} /\ x \cap it.relids = {}
    OBVIOUS
  <2>1. PICK j \in 1 .. n : x \in Range(items[j].joinlist) \/ x = items[j].relids
    BY <1>4
  <2>2. j \in 1 .. Len(items) /\ j # n + 1
    BY <1>1
  <2>3. x # {} /\ x \subseteq items[j].relids
    BY <1>3, <2>1, <2>2
  <2> QED  BY <1>0, <1>1, <2>2, <2>3
<1>7. CASE Len(it.joinlist) <= 1 \/ Len(acc.joinlist) + Len(it.joinlist) + (Len(items) - (n + 1)) <= from_collapse_limit
  <2>1. AddItem(items, acc, n + 1) = [acc EXCEPT !.joinlist = acc.joinlist \o it.joinlist]
    BY <1>0, <1>7 DEF AddItem
  <2>2. PICK acc1 : acc1 = AddItem(items, acc, n + 1)
    OBVIOUS
  <2>3. /\ acc1 \in [joinlist : Seq(SUBSET BaseRels), cut : SUBSET Seq(SUBSET BaseRels)]
        /\ acc1.joinlist = acc.joinlist \o it.joinlist /\ acc1.cut = acc.cut
    <3>1. PICK list : list = acc.joinlist \o it.joinlist
      OBVIOUS
    <3>2. list \in Seq(SUBSET BaseRels)
      BY <1>2, <1>5, <3>1, Concat
    <3> QED  BY <1>4, <2>1, <2>2, <3>1, <3>2
  <2>4. IsInjective(acc1.joinlist)
    <3>1. IsInjective(it.joinlist)
      BY <1>0, <1>1 DEF Splits
    <3>2. Range(acc.joinlist) \cap Range(it.joinlist) = {}
      BY <1>0, <1>1, <1>3, <1>6
    <3> QED  BY <1>2, <1>4, <1>5, <2>3, <3>1, <3>2, InjectiveConcat
  <2>5. Range(acc1.joinlist) = Range(acc.joinlist) \cup Range(it.joinlist)
    BY <1>2, <1>5, <2>3, ConcatRange
  <2> DEFINE kept1 == kept \cup {n + 1}
  <2>6. kept1 \subseteq 1 .. n + 1 /\ (1 .. n + 1) \ kept1 = (1 .. n) \ kept
    BY <1>1, <1>4
  <2>7. \A x : x \in Range(acc1.joinlist) <=>
                \/ \E j \in kept1 : x \in Range(items[j].joinlist)
                \/ \E j \in (1 .. n + 1) \ kept1 : x = items[j].relids
    BY <1>0, <1>4, <2>5, <2>6
  <2>8. acc1.cut = {items[j].joinlist : j \in (1 .. n + 1) \ kept1}
    BY <1>4, <2>3, <2>6
  <2>9. Taken(items, n + 1, kept1, acc1)
    BY <1>4, <2>3, <2>4, <2>6, <2>7, <2>8 DEF Taken
  <2> QED  BY <2>2, <2>9
<1>8. CASE ~ (Len(it.joinlist) <= 1 \/ Len(acc.joinlist) + Len(it.joinlist) + (Len(items) - (n + 1)) <= from_collapse_limit)
  <2>1. Len(it.joinlist) > 1
    <3>1. ~ (Len(it.joinlist) <= 1)
      BY <1>8, Zenon
    <3> QED  BY <1>2, <3>1
  <2>2. AddItem(items, acc, n + 1) = [joinlist |-> Append(acc.joinlist, it.relids), cut |-> acc.cut \cup {it.joinlist}]
    BY <1>0, <1>8, <2>1 DEF AddItem, Cut
  <2>3. PICK acc1 : acc1 = AddItem(items, acc, n + 1)
    OBVIOUS
  <2>4. PICK one : one = <<it.relids>>
    OBVIOUS
  <2>5. one \in Seq(SUBSET BaseRels) /\ Range(one) = {it.relids} /\ IsInjective(one)
    BY <1>2, <2>4 DEF Range, IsInjective
  <2>6. /\ acc1 \in [joinlist : Seq(SUBSET BaseRels), cut : SUBSET Seq(SUBSET BaseRels)]
        /\ acc1.joinlist = acc.joinlist \o one /\ acc1.cut = acc.cut \cup {it.joinlist}
    <3>1. PICK list : list = acc.joinlist \o one
      OBVIOUS
    <3>2. list \in Seq(SUBSET BaseRels)
      BY <1>5, <2>5, <3>1, Concat
    <3>3. Append(acc.joinlist, it.relids) = list
      BY <1>2, <1>5, <2>4, <3>1, AppendConcat
    <3>4. PICK cut : cut = acc.cut \cup {it.joinlist}
      OBVIOUS
    <3>5. cut \in SUBSET Seq(SUBSET BaseRels)
      BY <1>2, <1>4, <3>4
    <3>6. acc1 = [joinlist |-> list, cut |-> cut]
      BY <2>2, <2>3, <3>3, <3>4, Zenon
    <3> QED  BY <3>1, <3>2, <3>4, <3>5, <3>6
  <2>7. /\ IsInjective(acc1.joinlist)
        /\ Range(acc1.joinlist) = Range(acc.joinlist) \cup {it.relids}
    <3>1. Range(acc.joinlist) \cap Range(one) = {}
      BY <1>6, <2>5
    <3>2. IsInjective(acc.joinlist \o one)
      BY <1>4, <1>5, <2>5, <3>1, InjectiveConcat
    <3> QED  BY <1>5, <2>5, <2>6, <3>2, ConcatRange
  <2>8. kept \subseteq 1 .. n + 1 /\ (1 .. n + 1) \ kept = ((1 .. n) \ kept) \cup {n + 1}
    BY <1>1, <1>4
  <2>9. \A x : x \in Range(acc1.joinlist) <=>
                \/ \E j \in kept : x \in Range(items[j].joinlist)
                \/ \E j \in (1 .. n + 1) \ kept : x = items[j].relids
    BY <1>0, <1>4, <2>7, <2>8
  <2>10. acc1.cut = {items[j].joinlist : j \in (1 .. n + 1) \ kept}
    BY <1>0, <1>4, <2>6, <2>8
  <2>11. Taken(items, n + 1, kept, acc1)
    BY <1>0, <1>4, <2>1, <2>6, <2>7, <2>8, <2>9, <2>10 DEF Taken
  <2> QED  BY <2>3, <2>11
<1> QED  BY <1>7, <1>8

\* FromJoinlist, by induction over the items.
LEMMA ItemsTaken ==
  ASSUME NEW items \in Seq(Tree),
         \A i \in 1 .. Len(items) : items[i].relids # {} /\ Splits(items[i].joinlist, items[i].relids),
         \A i, j \in 1 .. Len(items) : i # j => items[i].relids \cap items[j].relids = {}
  PROVE  \E kept : Taken(items, Len(items), kept, FromJoinlist(items))
<1> DEFINE T == {n \in Nat : n <= Len(items) => \E kept : Taken(items, n, kept, Accumulated(items)[n])}
<1>0. Len(items) \in Nat
  OBVIOUS
<1>1. 0 \in T
  <2>1. Accumulated(items)[0] = [joinlist |-> <<>>, cut |-> {}]
    BY <1>0, AccumulatedDef
  <2>2. PICK acc : acc = Accumulated(items)[0]
    OBVIOUS
  <2>3. /\ acc \in [joinlist : Seq(SUBSET BaseRels), cut : SUBSET Seq(SUBSET BaseRels)]
        /\ acc.joinlist = <<>> /\ acc.cut = {}
    BY <2>1, <2>2
  <2>4. IsInjective(acc.joinlist) /\ Range(acc.joinlist) = {} /\ 1 .. 0 = {}
    BY <2>3 DEF IsInjective, Range
  <2>5. Taken(items, 0, {}, acc)
    BY <2>3, <2>4 DEF Taken
  <2> QED  BY <2>2, <2>5
<1>2. ASSUME NEW n \in T PROVE n + 1 \in T
  <2>1. SUFFICES ASSUME n + 1 <= Len(items)
                 PROVE  \E kept : Taken(items, n + 1, kept, Accumulated(items)[n + 1])
    OBVIOUS
  <2>2. n \in Nat /\ n <= Len(items) /\ n + 1 \in 1 .. Len(items) /\ (n + 1) - 1 = n
    BY <1>0, <2>1
  <2>3. PICK kept : Taken(items, n, kept, Accumulated(items)[n])
    BY <2>2
  <2>4. Accumulated(items)[n + 1] = AddItem(items, Accumulated(items)[n], n + 1)
    BY <1>0, <2>2, AccumulatedDef
  <2>5. PICK acc : acc = Accumulated(items)[n]
    OBVIOUS
  <2>6. \E kept1 : Taken(items, n + 1, kept1, AddItem(items, acc, n + 1))
    BY <2>1, <2>2, <2>3, <2>5, ItemAdded
  <2> QED  BY <2>4, <2>5, <2>6
<1>3. T = Nat
  <2>1. \A n \in T : n + 1 \in T
    BY <1>2
  <2> HIDE DEF T
  <2>2. T \in SUBSET Nat
    BY DEF T
  <2> QED  BY <1>1, <2>1, <2>2, NatSetInduction
<1>4. Len(items) \in T
  BY <1>0, <1>3
<1>5. Len(items) <= Len(items)
  BY <1>0
<1> QED  BY <1>4, <1>5 DEF FromJoinlist

-----------------------------------------------------------------------------
(* Joinlists of one item and of several. *)

LEMMA One == ASSUME NEW n \in Nat, NEW j \in 1 .. n, ~ (n > 1) PROVE n = 1
  OBVIOUS

\* A joinlist of one item has the whole as its item.
LEMMA OneItem ==
  ASSUME NEW S, NEW list \in Seq(S), NEW whole, Splits(list, whole), whole # {}, ~ (Len(list) > 1)
  PROVE  Range(list) = {whole}
<1>1. UNION Range(list) = whole
  BY Zenon DEF Splits
<1>0. Len(list) \in Nat
  OBVIOUS
<1>2. Range(list) = {list[j] : j \in 1 .. Len(list)}
  BY DEF Range
<1>3. PICK j \in 1 .. Len(list) : TRUE
  BY Zenon, <1>1, <1>2
<1>4. Len(list) = 1
  BY Zenon, <1>0, <1>3, One
<1>5. Range(list) = {list[1]}
  BY <1>2, <1>4
<1> QED  BY Zenon, <1>1, <1>5

\* A joinlist of several items does not have the whole among them.
LEMMA WholeNoItem ==
  ASSUME NEW S, NEW list \in Seq(S), NEW whole, Splits(list, whole), Len(list) > 1
  PROVE  whole \notin Range(list)
<1> SUFFICES ASSUME whole \in Range(list) PROVE FALSE
  BY Zenon
<1>1. DOMAIN list = 1 .. Len(list) /\ Len(list) \in Nat /\ 1 \in DOMAIN list /\ 2 \in DOMAIN list /\ 1 # 2
  OBVIOUS
<1>2. list[1] # list[2] /\ list[1] \in Range(list) /\ list[2] \in Range(list)
  BY Zenon, <1>1 DEF Splits, IsInjective, Range
<1>3. PICK x \in Range(list) : x # whole
  BY Zenon, <1>2
<1>4. x \subseteq whole /\ x # {} /\ x \cap whole = {}
  BY Zenon, <1>3 DEF Splits
<1> QED  BY Zenon, <1>4

-----------------------------------------------------------------------------
(* Trees give way to the tree they grow into. *)

LEMMA ReplacedFacts ==
  ASSUME NEW S, NEW seq \in Seq(S), NEW i \in 1 .. Len(seq), NEW k \in Nat, k >= 1, i + k - 1 <= Len(seq),
         NEW item \in S
  PROVE  /\ Replaced(seq, i, k, item) \in Seq(S)
         /\ DOMAIN Replaced(seq, i, k, item) = 1 .. Len(seq) - k + 1
         /\ \A j \in 1 .. i - 1 : Replaced(seq, i, k, item)[j] = seq[j]
         /\ Replaced(seq, i, k, item)[i] = item
         /\ \A j \in i + k .. Len(seq) : Replaced(seq, i, k, item)[j - k + 1] = seq[j]
<1>0. Len(seq) \in Nat /\ i \in Nat
  OBVIOUS
<1>1. PICK a : a = SubSeq(seq, 1, i - 1)
  BY Zenon
<1>2. PICK b : b = <<item>>
  BY Zenon
<1>3. PICK c : c = SubSeq(seq, i + k, Len(seq))
  BY Zenon
<1>4. a \in Seq(S) /\ Len(a) = i - 1 /\ \A j \in 1 .. i - 1 : a[j] = seq[j]
  BY <1>0, <1>1
<1>5. b \in Seq(S) /\ Len(b) = 1 /\ b[1] = item
  BY <1>2
<1>6. /\ c \in Seq(S) /\ Len(c) = Len(seq) - (i + k) + 1
      /\ \A j \in 1 .. Len(seq) - (i + k) + 1 : c[j] = seq[i + k + j - 1]
  BY <1>0, <1>3
<1>7. PICK d : d = a \o b
  BY Zenon
<1>8. d \in Seq(S) /\ Len(d) = i /\ d[i] = item /\ \A j \in 1 .. i - 1 : d[j] = seq[j]
  <2>1. d \in Seq(S)
    BY Zenon, <1>4, <1>5, <1>7, Concat
  <2>2. /\ Len(d) = Len(a) + Len(b)
        /\ \A j \in 1 .. Len(a) + Len(b) : d[j] = IF j <= Len(a) THEN a[j] ELSE b[j - Len(a)]
    BY Zenon, <1>4, <1>5, <1>7, Concat
  <2>3. Len(d) = i
    BY <1>0, <1>4, <1>5, <2>2
  <2>4. d[i] = item
    BY <1>0, <1>4, <1>5, <2>2
  <2>5. \A j \in 1 .. i - 1 : d[j] = seq[j]
    BY <1>0, <1>4, <1>5, <2>2
  <2> QED  BY Zenon, <2>1, <2>3, <2>4, <2>5
<1>9. PICK e : e = d \o c
  BY Zenon
<1>10. /\ e \in Seq(S) /\ Len(e) = Len(seq) - k + 1
       /\ \A j \in 1 .. i : e[j] = d[j]
       /\ \A j \in i + 1 .. Len(seq) - k + 1 : e[j] = c[j - i]
  <2>1. e \in Seq(S)
    BY Zenon, <1>6, <1>8, <1>9, Concat
  <2>2. /\ Len(e) = Len(d) + Len(c)
        /\ \A j \in 1 .. Len(d) + Len(c) : e[j] = IF j <= Len(d) THEN d[j] ELSE c[j - Len(d)]
    BY Zenon, <1>6, <1>8, <1>9, Concat
  <2>3. Len(e) = Len(seq) - k + 1
    BY <1>0, <1>6, <1>8, <2>2
  <2>4. ASSUME NEW j \in 1 .. i PROVE e[j] = d[j]
    <3>1. j \in 1 .. Len(d) + Len(c) /\ j <= Len(d)
      BY <1>0, <1>6, <1>8
    <3> QED  BY Zenon, <2>2, <3>1
  <2>5. \A j \in i + 1 .. Len(seq) - k + 1 : e[j] = c[j - i]
    BY <1>0, <1>6, <1>8, <2>2
  <2> QED  BY Zenon, <2>1, <2>3, <2>4, <2>5
<1>11. ASSUME NEW j \in i + k .. Len(seq) PROVE e[j - k + 1] = seq[j]
  <2>1. j - k + 1 \in i + 1 .. Len(seq) - k + 1 /\ (j - k + 1) - i \in 1 .. Len(seq) - (i + k) + 1
    BY <1>0
  <2>2. i + k + ((j - k + 1) - i) - 1 = j
    BY <1>0
  <2> QED  BY Zenon, <1>6, <1>10, <2>1, <2>2
<1>12. e = Replaced(seq, i, k, item)
  BY Zenon, <1>1, <1>2, <1>3, <1>7, <1>9 DEF Replaced
<1>13. DOMAIN e = 1 .. Len(seq) - k + 1 /\ i \in 1 .. i /\ \A j \in 1 .. i - 1 : j \in 1 .. i
  BY <1>0, <1>10
<1> QED  BY Zenon, <1>8, <1>10, <1>11, <1>12, <1>13

\* The k trees from position i on grow into one.
LEMMA TreeStep ==
  ASSUME forest \in Seq(Tree), TreesApart,
         NEW i \in 1 .. Len(forest), NEW k \in Nat, k >= 1, i + k - 1 <= Len(forest),
         NEW tree \in Tree, forest' = Replaced(forest, i, k, tree),
         \A r : r \in tree.relids <=> \E j \in i .. i + k - 1 : r \in forest[j].relids,
         tree.inners \subseteq tree.relids, tree.visible \subseteq tree.relids
  PROVE  /\ forest' \in Seq(Tree) /\ TreesApart'
         /\ Range(forest') = (Range(forest) \ {forest[j] : j \in i .. i + k - 1}) \cup {tree}
         /\ \A j \in DOMAIN forest : \E m \in DOMAIN forest' : forest[j].relids \subseteq forest'[m].relids
         /\ \E m \in DOMAIN forest' : forest'[m] = tree
<1> DEFINE old(m) == IF m < i THEN m ELSE m + k - 1
<1>0. Len(forest) \in Nat /\ i \in Nat /\ DOMAIN forest = 1 .. Len(forest)
  OBVIOUS
<1>1. PICK f : f = Replaced(forest, i, k, tree)
  BY Zenon
<1>f. f = forest'
  BY Zenon, <1>1
<1>2. /\ f \in Seq(Tree) /\ DOMAIN f = 1 .. Len(forest) - k + 1
      /\ \A j \in 1 .. i - 1 : f[j] = forest[j]
      /\ f[i] = tree
      /\ \A j \in i + k .. Len(forest) : f[j - k + 1] = forest[j]
  BY <1>1, ReplacedFacts
<1>3. \A j \in i .. i + k - 1 : j \in DOMAIN forest
  BY <1>0
<1>4. i \in DOMAIN f /\ i \in i .. i + k - 1
  BY <1>0, <1>2
<1>5. ASSUME NEW m \in DOMAIN f, m # i
      PROVE  old(m) \in DOMAIN forest /\ old(m) \notin i .. i + k - 1 /\ f[m] = forest[old(m)]
  <2>0. m \in Nat
    BY <1>2
  <2>1. CASE m < i
    <3>1. m \in 1 .. i - 1 /\ m \in 1 .. Len(forest) /\ m \notin i .. i + k - 1
      BY <1>0, <1>2, <2>0, <2>1
    <3> QED  BY Zenon, <1>0, <1>2, <2>1, <3>1
  <2>2. CASE ~ (m < i)
    <3>1. m + k - 1 \in i + k .. Len(forest) /\ (m + k - 1) - k + 1 = m
      BY <1>0, <1>2, <1>5, <2>0, <2>2
    <3>2. m + k - 1 \in 1 .. Len(forest) /\ m + k - 1 \notin i .. i + k - 1
      BY <1>0, <2>0, <3>1
    <3> QED  BY Zenon, <1>0, <1>2, <2>2, <3>1, <3>2
  <2> QED  BY Zenon, <2>1, <2>2
<1>6. ASSUME NEW m \in DOMAIN f, NEW n \in DOMAIN f, m # i, n # i, m # n PROVE old(m) # old(n)
  BY <1>0, <1>2, <1>6
<1>7. ASSUME NEW j \in DOMAIN forest, j \notin i .. i + k - 1
      PROVE  \E m \in DOMAIN f : m # i /\ f[m] = forest[j]
  <2>1. CASE j < i
    <3>1. j \in 1 .. i - 1 /\ j \in 1 .. Len(forest) - k + 1 /\ j # i
      BY <1>0, <2>1
    <3> QED  BY Zenon, <1>2, <3>1
  <2>2. CASE ~ (j < i)
    <3>1. j \in i + k .. Len(forest) /\ j - k + 1 \in 1 .. Len(forest) - k + 1 /\ j - k + 1 # i
      BY <1>0, <1>7, <2>2
    <3> QED  BY Zenon, <1>2, <3>1
  <2> QED  BY Zenon, <2>1, <2>2
<1> HIDE DEF old
<1>8. /\ \A j \in DOMAIN forest : forest[j].inners \subseteq forest[j].relids /\ forest[j].visible \subseteq forest[j].relids
      /\ \A j \in DOMAIN forest : forest[j].relids # {}
      /\ \A j, m \in DOMAIN forest : j # m => forest[j].relids \cap forest[m].relids = {}
  BY Zenon DEF TreesApart
<1>9. tree.relids # {}
  <2>1. forest[i].relids # {}
    BY Zenon, <1>3, <1>4, <1>8
  <2>2. PICK r : r \in forest[i].relids
    BY Zenon, <2>1
  <2> QED  BY Zenon, <1>4, <2>2
<1>10. \A j \in DOMAIN forest : j \notin i .. i + k - 1 => forest[j].relids \cap tree.relids = {}
  BY <1>3, <1>8
<1>11. ASSUME NEW m \in DOMAIN f
       PROVE  f[m].inners \subseteq f[m].relids /\ f[m].visible \subseteq f[m].relids /\ f[m].relids # {}
  BY <1>2, <1>5, <1>8, <1>9
<1>12. ASSUME NEW m \in DOMAIN f, NEW n \in DOMAIN f, m # n PROVE f[m].relids \cap f[n].relids = {}
  <2>1. CASE m = i
    BY Zenon, <1>2, <1>5, <1>10, <1>12, <2>1
  <2>2. CASE n = i
    BY Zenon, <1>2, <1>5, <1>10, <1>12, <2>2
  <2>3. CASE m # i /\ n # i
    BY <1>5, <1>6, <1>8, <1>12, <2>3
  <2> QED  BY Zenon, <2>1, <2>2, <2>3
<1>13. Range(f) = (Range(forest) \ {forest[j] : j \in i .. i + k - 1}) \cup {tree}
  <2>1. ASSUME NEW x \in Range(f) PROVE x \in (Range(forest) \ {forest[j] : j \in i .. i + k - 1}) \cup {tree}
    <3>1. PICK m \in DOMAIN f : x = f[m]
      BY Zenon DEF Range
    <3>2. CASE m = i
      BY Zenon, <1>2, <3>1, <3>2
    <3>3. CASE m # i
      <4>1. x = forest[old(m)] /\ old(m) \in DOMAIN forest /\ old(m) \notin i .. i + k - 1
        BY Zenon, <1>5, <3>1, <3>3
      <4>2. ASSUME NEW j \in i .. i + k - 1 PROVE x # forest[j]
        <5>1. j \in DOMAIN forest /\ j # old(m)
          BY Zenon, <1>3, <4>1, <4>2
        <5>2. forest[j].relids \cap forest[old(m)].relids = {} /\ forest[j].relids # {}
          BY Zenon, <1>8, <4>1, <5>1
        <5> QED  BY Zenon, <4>1, <5>2
      <4> QED  BY Zenon, <4>1, <4>2 DEF Range
    <3> QED  BY Zenon, <3>2, <3>3
  <2>2. ASSUME NEW x \in (Range(forest) \ {forest[j] : j \in i .. i + k - 1}) \cup {tree} PROVE x \in Range(f)
    <3>1. CASE x = tree
      BY Zenon, <1>2, <1>4, <3>1 DEF Range
    <3>2. CASE x # tree
      <4>1. PICK j \in DOMAIN forest : x = forest[j] /\ j \notin i .. i + k - 1
        BY Zenon, <3>2 DEF Range
      <4> QED  BY Zenon, <1>7, <4>1 DEF Range
    <3> QED  BY Zenon, <3>1, <3>2
  <2> QED  BY Zenon, <2>1, <2>2
<1>14. ASSUME NEW j \in DOMAIN forest PROVE \E m \in DOMAIN f : forest[j].relids \subseteq f[m].relids
  <2>1. CASE j \in i .. i + k - 1
    BY Zenon, <1>2, <1>4, <2>1
  <2>2. CASE j \notin i .. i + k - 1
    BY Zenon, <1>7, <2>2
  <2> QED  BY Zenon, <2>1, <2>2
<1>15. TreesApart'
  BY <1>f, <1>11, <1>12 DEF TreesApart
<1> QED  BY Zenon, <1>f, <1>2, <1>4, <1>13, <1>14, <1>15

-----------------------------------------------------------------------------
(* What special joins and clauses wait for. *)

\* A qual mentions rels of its scope only.
LEMMA QualFacts ==
  ASSUME NEW scope, NEW quals \in QualLists(scope), NEW qual \in quals
  PROVE  qual.relids \subseteq scope /\ qual.strict \subseteq scope
<1>1. qual \in Quals(scope)
  <2>1. quals \in {{}} \cup {{a, b} : a, b \in Quals(scope)}
    BY DEF QualLists
  <2>2. PICK a, b \in Quals(scope) : quals = {a, b}
    BY <2>1
  <2> QED  BY Zenon, <2>2
<1>2. PICK R \in SUBSET scope : qual \in {[relids |-> R, strict |-> {}], [relids |-> R, strict |-> R]}
  BY Zenon, <1>1 DEF Quals
<1>3. qual.relids = R /\ (qual.strict = {} \/ qual.strict = R)
  BY <1>2
<1> QED  BY Zenon, <1>3

\* A special join that meets a tree lies within it.
LEMMA JoinMeets ==
  ASSUME TreesApart, JoinsWithin, NEW sj \in join_info_list, NEW j \in DOMAIN forest, NEW r \in forest[j].relids,
         r \in sj.syn_lefthand \cup sj.syn_righthand
  PROVE  sj.syn_lefthand \cup sj.syn_righthand \subseteq forest[j].relids
<1>1. PICK i \in DOMAIN forest : sj.syn_lefthand \cup sj.syn_righthand \subseteq forest[i].relids
  BY Zenon DEF JoinsWithin
<1>2. r \in forest[i].relids
  BY Zenon, <1>1
<1>3. i = j
  BY Zenon, <1>2 DEF TreesApart
<1> QED  BY Zenon, <1>1, <1>3

\* check_outerjoin_delay does not look beyond the trees that the qual is over.
LEMMA DelayWithin ==
  ASSUME TypeOK, TreesApart, JoinsWithin, ScopesRespected,
         NEW scope \in SUBSET BaseRels, NEW I \in SUBSET DOMAIN forest,
         \A r : r \in scope <=> \E j \in I : r \in forest[j].relids,
         NEW relids \in SUBSET scope
  PROVE  DelayedRelids(relids) \subseteq scope
<1> DEFINE Settled(R) == \A sj \in join_info_list : Nulls(sj, R) => sj.min_lefthand \cup sj.min_righthand \subseteq R
<1>1. ASSUME NEW sj \in join_info_list, Nulls(sj, scope) PROVE sj.min_lefthand \cup sj.min_righthand \subseteq scope
  <2>1. sj.min_lefthand \subseteq sj.syn_lefthand /\ sj.min_righthand \subseteq sj.syn_righthand
    BY Zenon DEF ScopesRespected
  <2>2. PICK r \in scope : r \in sj.syn_lefthand \cup sj.syn_righthand
    BY Zenon, <1>1, <2>1 DEF Nulls, bms_overlap
  <2>3. PICK j \in I : r \in forest[j].relids
    BY Zenon, <2>2
  <2>4. sj.syn_lefthand \cup sj.syn_righthand \subseteq forest[j].relids
    BY Zenon, <2>2, <2>3, JoinMeets
  <2> QED  BY Zenon, <2>1, <2>3, <2>4
<1>2. Settled(scope)
  BY Zenon, <1>1
<1> QED  BY Zenon, <1>2 DEF DelayedRelids

\* A lower special join adds only rels of the side it is on.
LEMMA LowerWithin ==
  ASSUME TreesApart, JoinsWithin, NEW j \in DOMAIN forest, NEW other \in join_info_list, NEW jointype, NEW quals
  PROVE  /\ LowerLeft(other, forest[j].relids, jointype, quals) \subseteq forest[j].relids
         /\ LowerRight(other, forest[j].relids, jointype, quals) \subseteq forest[j].relids
<1>1. /\ bms_overlap(forest[j].relids, other.syn_lefthand \cup other.syn_righthand) =>
           other.syn_lefthand \cup other.syn_righthand \subseteq forest[j].relids
      /\ bms_overlap(forest[j].relids, other.syn_righthand) =>
           other.syn_lefthand \cup other.syn_righthand \subseteq forest[j].relids
  BY Zenon, JoinMeets DEF bms_overlap
<1> QED  BY Zenon, <1>1 DEF LowerLeft, LowerRight

\* make_outerjoininfo keeps each side's minimum on that side.
LEMMA MinSides ==
  ASSUME TreesApart, JoinsWithin, NEW i \in DOMAIN forest, NEW j \in DOMAIN forest, NEW jointype, NEW quals
  PROVE  /\ MinLefthand(forest[i], forest[j], jointype, quals) # {}
         /\ MinLefthand(forest[i], forest[j], jointype, quals) \subseteq forest[i].relids
         /\ MinRighthand(forest[i], forest[j], jointype, quals) # {}
         /\ MinRighthand(forest[i], forest[j], jointype, quals) \subseteq forest[j].relids
<1>1. forest[i].relids # {} /\ forest[j].relids # {}
  BY Zenon DEF TreesApart
<1>2. UNION {LowerLeft(other, forest[i].relids, jointype, quals) : other \in join_info_list} \subseteq forest[i].relids
  <2>1. \A other \in join_info_list : LowerLeft(other, forest[i].relids, jointype, quals) \subseteq forest[i].relids
    BY Zenon, LowerWithin
  <2> QED  BY Zenon, <2>1
<1>3. UNION {LowerRight(other, forest[j].relids, jointype, quals) : other \in join_info_list} \subseteq forest[j].relids
  <2>1. \A other \in join_info_list : LowerRight(other, forest[j].relids, jointype, quals) \subseteq forest[j].relids
    BY Zenon, LowerWithin
  <2> QED  BY Zenon, <2>1
<1>4. ASSUME NEW R, NEW all, R \subseteq all, all # {} PROVE OrAll(R, all) # {} /\ OrAll(R, all) \subseteq all
  BY Zenon, <1>4 DEF OrAll
<1>5. MinLefthand(forest[i], forest[j], jointype, quals) # {} /\ MinLefthand(forest[i], forest[j], jointype, quals) \subseteq forest[i].relids
  BY <1>1, <1>2, <1>4 DEF MinLefthand
<1>6. MinRighthand(forest[i], forest[j], jointype, quals) # {} /\ MinRighthand(forest[i], forest[j], jointype, quals) \subseteq forest[j].relids
  BY <1>1, <1>3, <1>4 DEF MinRighthand
<1> QED  BY Zenon, <1>5, <1>6

-----------------------------------------------------------------------------
(* The steps. *)

LEMMA DelaySet ==
  ASSUME NEW sj \in SpecialJoins, NEW d \in BOOLEAN, NEW s, s = [sj EXCEPT !.delay_upper_joins = d]
  PROVE  /\ s \in SpecialJoins
         /\ s.syn_lefthand = sj.syn_lefthand /\ s.syn_righthand = sj.syn_righthand
         /\ s.min_lefthand = sj.min_lefthand /\ s.min_righthand = sj.min_righthand
  BY DEF SpecialJoins

\* Distributing quals keeps the special joins and the clauses where they belong.
LEMMA DistributeStep ==
  ASSUME TypeOK, ScopesRespected, JoinsWithin,
         NEW rinfos \in SUBSET RestrictInfos, NEW sjs \in SUBSET SpecialJoins, Distribute(rinfos, sjs),
         \A rinfo \in rinfos : rinfo.required_relids \subseteq rinfo.qualscope,
         \A sj \in sjs : SidesKept(sj),
         \A sj \in sjs : \E m \in DOMAIN forest' : sj.syn_lefthand \cup sj.syn_righthand \subseteq forest'[m].relids,
         \A j \in DOMAIN forest : \E m \in DOMAIN forest' : forest[j].relids \subseteq forest'[m].relids
  PROVE  /\ join_info_list' \subseteq SpecialJoins /\ clauses' \subseteq RestrictInfos
         /\ ScopesRespected' /\ JoinsWithin'
<1>1. join_info_list \subseteq SpecialJoins /\ clauses \subseteq RestrictInfos
  BY Zenon DEF TypeOK, SpecialJoins, RestrictInfos
<1>2. ASSUME NEW s \in join_info_list', s \notin sjs
      PROVE  /\ s \in SpecialJoins /\ SidesKept(s)
             /\ \E m \in DOMAIN forest' : s.syn_lefthand \cup s.syn_righthand \subseteq forest'[m].relids
  <2>1. PICK sj \in join_info_list : s = [sj EXCEPT !.delay_upper_joins = @ \/ \E rinfo \in rinfos : Delays(sj, rinfo)]
    BY Zenon, <1>2 DEF Distribute
  <2>2. sj \in SpecialJoins /\ SidesKept(sj)
    BY Zenon, <1>1 DEF ScopesRespected, SidesKept
  <2>3. PICK d \in BOOLEAN : s = [sj EXCEPT !.delay_upper_joins = d]
    <3>1. (sj.delay_upper_joins \/ \E rinfo \in rinfos : Delays(sj, rinfo)) \in BOOLEAN
      BY Zenon
    <3> QED  BY Zenon, <2>1, <3>1
  <2>4. /\ s \in SpecialJoins
        /\ s.syn_lefthand = sj.syn_lefthand /\ s.syn_righthand = sj.syn_righthand
        /\ s.min_lefthand = sj.min_lefthand /\ s.min_righthand = sj.min_righthand
    BY Zenon, <2>2, <2>3, DelaySet
  <2>5. SidesKept(s)
    BY Zenon, <2>2, <2>4 DEF SidesKept
  <2>6. PICK j \in DOMAIN forest : sj.syn_lefthand \cup sj.syn_righthand \subseteq forest[j].relids
    BY Zenon DEF JoinsWithin
  <2>7. PICK m \in DOMAIN forest' : forest[j].relids \subseteq forest'[m].relids
    BY Zenon
  <2>8. s.syn_lefthand \cup s.syn_righthand \subseteq forest'[m].relids
    BY Zenon, <2>4, <2>6, <2>7
  <2> QED  BY Zenon, <2>4, <2>5, <2>8
<1>3. ASSUME NEW s \in join_info_list'
      PROVE  /\ s \in SpecialJoins /\ SidesKept(s)
             /\ \E m \in DOMAIN forest' : s.syn_lefthand \cup s.syn_righthand \subseteq forest'[m].relids
  BY Zenon, <1>2
<1>4. \A rinfo \in clauses' : rinfo \in RestrictInfos /\ rinfo.required_relids \subseteq rinfo.qualscope
  BY Zenon, <1>1 DEF Distribute, ScopesRespected
<1>5. ScopesRespected'
  BY Zenon, <1>3, <1>4 DEF ScopesRespected, SidesKept
<1>6. JoinsWithin'
  BY Zenon, <1>3 DEF JoinsWithin
<1> QED  BY Zenon, <1>3, <1>4, <1>5, <1>6

\* What the types say of a tree of the forest.
LEMMA TreeTypes ==
  ASSUME forest \in Seq(Tree), NEW j \in DOMAIN forest
  PROVE  /\ forest[j] \in Tree
         /\ forest[j].relids \in SUBSET BaseRels /\ forest[j].inners \in SUBSET BaseRels
         /\ forest[j].visible \in SUBSET BaseRels /\ forest[j].reducible \in SUBSET SUBSET BaseRels
         /\ forest[j].joinlist \in Seq(SUBSET BaseRels)
<1>1. forest[j] \in Tree
  OBVIOUS
<1>2. PICK t : t = forest[j]
  BY Zenon
<1>3. /\ t.relids \in SUBSET BaseRels /\ t.inners \in SUBSET BaseRels
      /\ t.visible \in SUBSET BaseRels /\ t.reducible \in SUBSET SUBSET BaseRels
      /\ t.joinlist \in Seq(SUBSET BaseRels)
  BY <1>1, <1>2 DEF Tree
<1> QED  BY Zenon, <1>1, <1>2, <1>3

\* make_outerjoininfo's SpecialJoinInfo, over the trees at i and j.
LEMMA OuterJoinInfo ==
  ASSUME forest \in Seq(Tree), TreesApart, JoinsWithin, NEW i \in DOMAIN forest, NEW j \in DOMAIN forest,
         NEW jointype \in JoinTypes, NEW quals, NEW s, s = make_outerjoininfo(forest[i], forest[j], jointype, quals)
  PROVE  /\ s \in SpecialJoins /\ SidesKept(s)
         /\ s.syn_lefthand = forest[i].relids /\ s.syn_righthand = forest[j].relids
<1>1. PICK minleft : minleft = MinLefthand(forest[i], forest[j], jointype, quals)
  BY Zenon
<1>2. PICK minright : minright = MinRighthand(forest[i], forest[j], jointype, quals)
  BY Zenon
<1>3. PICK strict \in BOOLEAN : strict = (jointype # "FULL" /\ bms_overlap(find_nonnullable_rels(quals), forest[i].relids))
  BY Zenon
<1>4. PICK unique \in BOOLEAN : unique = (jointype = "SEMI" /\ compute_semijoin_info(forest[j].relids, quals))
  BY Zenon
<1>5. minleft # {} /\ minleft \subseteq forest[i].relids /\ minright # {} /\ minright \subseteq forest[j].relids
  BY Zenon, <1>1, <1>2, MinSides
<1>6. PICK synleft \in SUBSET BaseRels : synleft = forest[i].relids
  BY Zenon, TreeTypes
<1>7. PICK synright \in SUBSET BaseRels : synright = forest[j].relids
  BY Zenon, TreeTypes
<1>8. minleft \in SUBSET BaseRels /\ minright \in SUBSET BaseRels
  BY Zenon, <1>5, <1>6, <1>7
<1>9. s = [jointype |-> jointype, syn_lefthand |-> synleft, syn_righthand |-> synright,
           min_lefthand |-> minleft, min_righthand |-> minright, lhs_strict |-> strict,
           semi_can_unique |-> unique, delay_upper_joins |-> FALSE]
  BY Zenon, <1>1, <1>2, <1>3, <1>4, <1>6, <1>7 DEF make_outerjoininfo
<1>10. /\ s \in SpecialJoins
       /\ s.syn_lefthand = synleft /\ s.syn_righthand = synright
       /\ s.min_lefthand = minleft /\ s.min_righthand = minright
  BY <1>8, <1>9 DEF SpecialJoins
<1> QED  BY Zenon, <1>5, <1>6, <1>7, <1>10 DEF SidesKept

\* distribute_qual_to_rels: a clause waits for rels of its scope.
LEMMA InfoScoped ==
  ASSUME TypeOK, TreesApart, JoinsWithin, ScopesRespected,
         NEW scope \in SUBSET BaseRels, NEW I \in SUBSET DOMAIN forest,
         \A r : r \in scope <=> \E j \in I : r \in forest[j].relids,
         NEW qual, qual.relids \subseteq scope, NEW ojscope \in SUBSET scope, NEW nonnullable_rels,
         NEW rinfo, rinfo = RestrictInfo(qual, scope, ojscope, nonnullable_rels)
  PROVE  rinfo \in RestrictInfos /\ rinfo.required_relids \subseteq rinfo.qualscope
<1>1. PICK pushed \in BOOLEAN : pushed = ~ bms_overlap(qual.relids, nonnullable_rels)
  BY Zenon
<1>2. DelayedRelids(qual.relids) \subseteq scope
  BY Zenon, DelayWithin
<1>3. PICK required : required = IF pushed THEN DelayedRelids(qual.relids) ELSE ojscope
  BY Zenon
<1>4. required \subseteq scope /\ required \in SUBSET BaseRels
  BY Zenon, <1>2, <1>3
<1>5. rinfo = [required_relids |-> required, is_pushed_down |-> pushed, qualscope |-> scope]
  BY Zenon, <1>1, <1>3 DEF RestrictInfo
<1> QED  BY <1>4, <1>5 DEF RestrictInfos

-----------------------------------------------------------------------------
(* Two trees grow together. *)

\* Two trees become the items of a joinlist, after those with several items of
\* their own are done.
LEMMA PairGrown ==
  ASSUME NEW trees, NEW done, Nested(trees, done),
         NEW left \in trees, NEW right \in trees, left # right,
         left.joinlist \in Seq(SUBSET BaseRels), right.joinlist \in Seq(SUBSET BaseRels),
         NEW tree, tree.relids = left.relids \cup right.relids, tree.joinlist = <<left.relids, right.relids>>
  PROVE  Nested((trees \ {left, right}) \cup {tree}, done \cup Cut(left) \cup Cut(right))
<1> DEFINE parts == {left, right}
           kept == {t \in parts : ~ (Len(t.joinlist) > 1)}
<1>1. /\ \A t \in parts : t.relids # {} /\ Splits(t.joinlist, t.relids) /\ t.joinlist \in Seq(SUBSET BaseRels)
      /\ left.relids \cap right.relids = {}
  BY Zenon DEF Nested
<1>2. \A t \in kept : Range(t.joinlist) = {t.relids}
  BY Zenon, <1>1, OneItem
<1>3. \A t \in parts \ kept : t.relids \notin Range(t.joinlist)
  BY Zenon, <1>1, WholeNoItem
<1>4. left.relids # right.relids
  BY Zenon, <1>1
<1>5. IsInjective(tree.joinlist) /\ Range(tree.joinlist) = {left.relids, right.relids}
  BY <1>4 DEF IsInjective, Range
<1>6. \A x : x \in Range(tree.joinlist) <=>
                \/ \E t \in kept : x \in Range(t.joinlist)
                \/ \E t \in parts \ kept : x = t.relids
  BY Zenon, <1>2, <1>5
<1>7. tree.relids = UNION {t.relids : t \in parts}
  BY <1>1
<1>8. parts \in SUBSET trees /\ kept \in SUBSET parts /\ parts # {}
  BY Zenon
<1>9. {t.joinlist : t \in parts \ kept} = Cut(left) \cup Cut(right)
  BY Zenon DEF Cut
<1>10. done \cup Cut(left) \cup Cut(right) = done \cup {t.joinlist : t \in parts \ kept}
  BY Zenon, <1>9
<1> HIDE DEF parts, kept
<1>11. Nested((trees \ parts) \cup {tree}, done \cup {t.joinlist : t \in parts \ kept})
  BY Zenon, <1>3, <1>5, <1>6, <1>7, <1>8, Grown
<1> QED  BY Zenon, <1>10, <1>11 DEF parts

\* deconstruct_recurse at a JoinExpr.
LEMMA JoinGrown ==
  ASSUME NEW trees, NEW done, Nested(trees, done),
         NEW left \in trees, NEW right \in trees, left # right,
         left.joinlist \in Seq(SUBSET BaseRels), right.joinlist \in Seq(SUBSET BaseRels), NEW jointype,
         NEW tree, tree.relids = left.relids \cup right.relids, tree.joinlist = Joinlist(left, right, jointype)
  PROVE  Nested((trees \ {left, right}) \cup {tree}, done \cup NewProblems(left, right, jointype))
<1>1. /\ \A t \in trees : t.relids # {} /\ Splits(t.joinlist, t.relids)
      /\ \A s, t \in trees : s # t => s.relids \cap t.relids = {}
  BY Zenon DEF Nested
<1>2. CASE jointype # "FULL" /\ Collapses(left, right)
  <2>1. tree.joinlist = left.joinlist \o right.joinlist /\ NewProblems(left, right, jointype) = {}
    BY Zenon, <1>2 DEF Joinlist, NewProblems
  <2>2. IsInjective(left.joinlist) /\ IsInjective(right.joinlist)
    BY Zenon, <1>1 DEF Splits
  <2>3. Range(left.joinlist) \cap Range(right.joinlist) = {}
    <3>1. /\ \A x \in Range(left.joinlist) : x # {} /\ x \subseteq left.relids
          /\ \A x \in Range(right.joinlist) : x \subseteq right.relids
      BY <1>1 DEF Splits
    <3>2. left.relids \cap right.relids = {}
      BY Zenon, <1>1
    <3> QED  BY <3>1, <3>2
  <2>4. IsInjective(tree.joinlist)
    BY Zenon, <2>1, <2>2, <2>3, InjectiveConcat
  <2>5. Range(tree.joinlist) = Range(left.joinlist) \cup Range(right.joinlist)
    BY <2>1, ConcatRange
  <2>6. \A x : x \in Range(tree.joinlist) <=>
                \/ \E t \in {left, right} : x \in Range(t.joinlist)
                \/ \E t \in {left, right} \ {left, right} : x = t.relids
    BY Zenon, <2>5
  <2>7. tree.relids = UNION {t.relids : t \in {left, right}}
    BY <1>1
  <2>8. Nested((trees \ {left, right}) \cup {tree}, done \cup {t.joinlist : t \in {left, right} \ {left, right}})
    <3>1. {left, right} \in SUBSET trees /\ {left, right} \in SUBSET {left, right} /\ {left, right} # {}
      BY Zenon
    <3>2. \A t \in {left, right} \ {left, right} : t.relids \notin Range(t.joinlist)
      BY Zenon
    <3> QED  BY Zenon, <2>4, <2>6, <2>7, <3>1, <3>2, Grown
  <2>9. done \cup {t.joinlist : t \in {left, right} \ {left, right}} = done \cup NewProblems(left, right, jointype)
    BY Zenon, <2>1
  <2> QED  BY Zenon, <2>8, <2>9
<1>3. CASE jointype # "FULL" /\ ~ Collapses(left, right)
  <2>1. tree.joinlist = <<left.relids, right.relids>> /\ NewProblems(left, right, jointype) = Cut(left) \cup Cut(right)
    BY Zenon, <1>3 DEF Joinlist, NewProblems
  <2>2. Nested((trees \ {left, right}) \cup {tree}, done \cup Cut(left) \cup Cut(right))
    BY Zenon, <2>1, PairGrown
  <2>3. done \cup Cut(left) \cup Cut(right) = done \cup NewProblems(left, right, jointype)
    BY Zenon, <2>1
  <2> QED  BY Zenon, <2>2, <2>3
<1>4. CASE jointype = "FULL"
  <2>1. PICK mid : mid.relids = left.relids \cup right.relids /\ mid.joinlist = <<left.relids, right.relids>>
    <3>1. PICK pair : pair = <<left.relids, right.relids>>
      BY Zenon
    <3>2. PICK whole : whole = left.relids \cup right.relids
      BY Zenon
    <3>3. [relids |-> whole, joinlist |-> pair].relids = whole /\ [relids |-> whole, joinlist |-> pair].joinlist = pair
      OBVIOUS
    <3> QED  BY Zenon, <3>1, <3>2, <3>3
  <2>2. /\ tree.joinlist = <<mid.relids>>
        /\ NewProblems(left, right, jointype) = Cut(left) \cup Cut(right) \cup {mid.joinlist}
    BY Zenon, <1>4, <2>1 DEF Joinlist, NewProblems
  <2>3. PICK trees1 : trees1 = (trees \ {left, right}) \cup {mid}
    BY Zenon
  <2>4. PICK done1 : done1 = done \cup Cut(left) \cup Cut(right)
    BY Zenon
  <2>5. Nested(trees1, done1)
    BY Zenon, <2>1, <2>3, <2>4, PairGrown
  <2>6. left.relids # {} /\ right.relids # {} /\ left.relids \cap right.relids = {}
    BY Zenon, <1>1
  <2>7. mid \notin trees \ {left, right}
    BY Zenon, <1>1, <2>1, <2>6
  <2>8. mid.relids \notin Range(mid.joinlist)
    <3>1. Range(mid.joinlist) = {left.relids, right.relids}
      BY <2>1 DEF Range
    <3> QED  BY Zenon, <2>1, <2>6, <3>1
  <2>9. IsInjective(tree.joinlist) /\ Range(tree.joinlist) = {mid.relids}
    BY <2>2 DEF IsInjective, Range
  <2>10. \A x : x \in Range(tree.joinlist) <=>
                \/ \E t \in {} : x \in Range(t.joinlist)
                \/ \E t \in {mid} \ {} : x = t.relids
    BY Zenon, <2>9
  <2>11. tree.relids = UNION {t.relids : t \in {mid}}
    BY <2>1
  <2>12. Nested((trees1 \ {mid}) \cup {tree}, done1 \cup {t.joinlist : t \in {mid} \ {}})
    <3>1. {mid} \in SUBSET trees1 /\ {} \in SUBSET {mid} /\ {mid} # {}
      BY Zenon, <2>3
    <3>2. \A t \in {mid} \ {} : t.relids \notin Range(t.joinlist)
      BY Zenon, <2>8
    <3> QED  BY Zenon, <2>5, <2>9, <2>10, <2>11, <3>1, <3>2, Grown
  <2>13. trees1 \ {mid} = trees \ {left, right}
    BY Zenon, <2>3, <2>7
  <2>14. done1 \cup {t.joinlist : t \in {mid} \ {}} = done \cup NewProblems(left, right, jointype)
    BY Zenon, <2>2, <2>4
  <2> QED  BY Zenon, <2>12, <2>13, <2>14
<1> QED  BY Zenon, <1>2, <1>3, <1>4

\* The types, once each part is known.
LEMMA TypeParts ==
  TypeOK <=> /\ forest \in Seq(Tree) /\ join_info_list \subseteq SpecialJoins /\ clauses \subseteq RestrictInfos
             /\ \A problem \in problems : problem \in Seq(SUBSET BaseRels) /\ Len(problem) > 1
             /\ froms \in 0 .. MaxFroms
  BY Zenon DEF TypeOK, Tree, SpecialJoins, RestrictInfos

LEMMA JoinTypesCases ==
  ASSUME NEW jointype \in JoinTypes
  PROVE  jointype = "INNER" \/ jointype = "LEFT" \/ jointype = "FULL" \/ jointype = "SEMI" \/ jointype = "ANTI"
  BY Zenon, JoinTypesAssumption

\* The tree of a JoinExpr.
LEMMA JoinedTreeFacts ==
  ASSUME forest \in Seq(Tree), TreesApart, NEW i \in DOMAIN forest, NEW j \in DOMAIN forest,
         NEW jointype \in JoinTypes, NEW tree, tree = JoinedTree(forest[i], forest[j], jointype)
  PROVE  /\ tree \in Tree
         /\ tree.relids = forest[i].relids \cup forest[j].relids
         /\ tree.joinlist = Joinlist(forest[i], forest[j], jointype)
         /\ tree.inners \subseteq tree.relids /\ tree.visible \subseteq tree.relids
<1>1. PICK left : left = forest[i]
  BY Zenon
<1>2. PICK right : right = forest[j]
  BY Zenon
<1>3. /\ left.relids \in SUBSET BaseRels /\ left.inners \in SUBSET left.relids /\ left.visible \in SUBSET left.relids
      /\ left.reducible \in SUBSET SUBSET BaseRels /\ left.joinlist \in Seq(SUBSET BaseRels)
      /\ right.relids \in SUBSET BaseRels /\ right.inners \in SUBSET right.relids /\ right.visible \in SUBSET right.relids
      /\ right.reducible \in SUBSET SUBSET BaseRels /\ right.joinlist \in Seq(SUBSET BaseRels)
  BY Zenon, <1>1, <1>2, TreeTypes DEF TreesApart
<1>4. PICK relids : relids = left.relids \cup right.relids
  BY Zenon
<1>5. PICK inners : inners = IF jointype = "INNER" THEN relids ELSE left.inners \cup right.inners
  BY Zenon
<1>6. PICK visible : visible = left.visible \cup (IF jointype = "SEMI" THEN {} ELSE right.visible)
  BY Zenon
<1>7. PICK reducible : reducible = Reducible(left, right, jointype)
  BY Zenon
<1>8. PICK joinlist : joinlist = Joinlist(left, right, jointype)
  BY Zenon
<1>9. tree = [relids |-> relids, inners |-> inners, visible |-> visible, reducible |-> reducible, joinlist |-> joinlist]
  BY Zenon, <1>1, <1>2, <1>4, <1>5, <1>6, <1>7, <1>8 DEF JoinedTree
<1>10. relids \in SUBSET BaseRels /\ inners \in SUBSET relids /\ visible \in SUBSET relids
  BY <1>3, <1>4, <1>5, <1>6
<1>11. reducible \in SUBSET SUBSET BaseRels
  <2>1. Reducible(left, right, jointype) \in {left.reducible \cup right.reducible, left.reducible \cup {right.relids},
                                              {left.relids, right.relids}}
    BY Zenon, JoinTypesCases DEF Reducible
  <2> QED  BY Zenon, <1>3, <1>7, <2>1
<1>12. joinlist \in Seq(SUBSET BaseRels)
  <2>1. PICK both : both = left.joinlist \o right.joinlist
    BY Zenon
  <2>2. both \in Seq(SUBSET BaseRels)
    BY Zenon, <1>3, <2>1, Concat
  <2>3. <<relids>> \in Seq(SUBSET BaseRels) /\ <<left.relids, right.relids>> \in Seq(SUBSET BaseRels)
    BY <1>3, <1>10
  <2> QED  BY Zenon, <1>4, <1>8, <2>1, <2>2, <2>3 DEF Joinlist
<1>13. /\ tree \in Tree /\ tree.relids = relids /\ tree.inners = inners /\ tree.visible = visible
       /\ tree.joinlist = joinlist
  <2>1. inners \in SUBSET BaseRels /\ visible \in SUBSET BaseRels
    BY Zenon, <1>10
  <2> QED  BY <1>9, <1>10, <1>11, <1>12, <2>1 DEF Tree
<1> QED  BY Zenon, <1>1, <1>2, <1>4, <1>8, <1>10, <1>13

\* The joinlists that a JoinExpr completes have several items.
LEMMA NewProblemsTypes ==
  ASSUME NEW left, NEW right, left.relids \in SUBSET BaseRels, right.relids \in SUBSET BaseRels,
         left.joinlist \in Seq(SUBSET BaseRels), right.joinlist \in Seq(SUBSET BaseRels), NEW jointype,
         NEW problem \in NewProblems(left, right, jointype)
  PROVE  problem \in Seq(SUBSET BaseRels) /\ Len(problem) > 1
<1>1. problem \in Cut(left) \cup Cut(right) \/ problem = <<left.relids, right.relids>>
  BY Zenon DEF NewProblems
<1>2. CASE problem \in Cut(left) \cup Cut(right)
  BY Zenon, <1>2 DEF Cut
<1>3. CASE problem = <<left.relids, right.relids>>
  BY <1>3
<1> QED  BY Zenon, <1>1, <1>2, <1>3

\* Positions of the trees of a JoinExpr.
LEMMA Neighbours ==
  ASSUME NEW n \in Nat, NEW i \in 1 .. n - 1
  PROVE  /\ i \in 1 .. n /\ i + 1 \in 1 .. n /\ i # i + 1 /\ i + 2 - 1 <= n /\ 2 >= 1 /\ 2 \in Nat
         /\ \A j : j \in i .. i + 2 - 1 <=> j = i \/ j = i + 1
  OBVIOUS

LEMMA JoinExprStep ==
  ASSUME IInv, NEW i \in 1 .. Len(forest) - 1, NEW jointype \in JoinTypes, NEW quals \in QualLists(Scope(i)),
         JoinExpr(i, jointype, quals)
  PROVE  IInv'
<1>0. /\ TypeOK /\ TreesApart /\ JoinsWithin /\ ScopesRespected /\ Nested(Range(forest), problems)
  BY Zenon DEF IInv
<1>1. /\ forest \in Seq(Tree) /\ join_info_list \subseteq SpecialJoins /\ clauses \subseteq RestrictInfos
      /\ \A problem \in problems : problem \in Seq(SUBSET BaseRels) /\ Len(problem) > 1
      /\ froms \in 0 .. MaxFroms
  BY Zenon, <1>0, TypeParts
<1>2. Len(forest) \in Nat /\ DOMAIN forest = 1 .. Len(forest)
  BY <1>1
<1>3. /\ i \in DOMAIN forest /\ i + 1 \in DOMAIN forest /\ i # i + 1 /\ i + 2 - 1 <= Len(forest) /\ 2 >= 1 /\ 2 \in Nat
      /\ \A j : j \in i .. i + 2 - 1 <=> j = i \/ j = i + 1
  BY Zenon, <1>2, Neighbours
<1>4. PICK left : left = forest[i]
  BY Zenon
<1>5. PICK right : right = forest[i + 1]
  BY Zenon
<1>6. PICK tree : tree = JoinedTree(left, right, jointype)
  BY Zenon
<1>7. /\ left.relids \in SUBSET BaseRels /\ left.joinlist \in Seq(SUBSET BaseRels) /\ left.visible \subseteq left.relids
      /\ right.relids \in SUBSET BaseRels /\ right.joinlist \in Seq(SUBSET BaseRels) /\ right.visible \subseteq right.relids
      /\ left.relids # {} /\ left.relids \cap right.relids = {}
  BY Zenon, <1>0, <1>1, <1>3, <1>4, <1>5, TreeTypes DEF TreesApart
<1>8. /\ tree \in Tree /\ tree.relids = left.relids \cup right.relids
      /\ tree.joinlist = Joinlist(left, right, jointype)
      /\ tree.inners \subseteq tree.relids /\ tree.visible \subseteq tree.relids
  <2>1. tree = JoinedTree(forest[i], forest[i + 1], jointype)
    BY Zenon, <1>4, <1>5, <1>6
  <2>2. /\ tree \in Tree /\ tree.relids = forest[i].relids \cup forest[i + 1].relids
        /\ tree.joinlist = Joinlist(forest[i], forest[i + 1], jointype)
        /\ tree.inners \subseteq tree.relids /\ tree.visible \subseteq tree.relids
    BY <1>0, <1>1, <1>3, <2>1, JoinedTreeFacts
  <2> QED  BY Zenon, <1>4, <1>5, <2>2
<1>9. PICK scope : scope = left.relids \cup right.relids
  BY Zenon
<1>10. PICK rinfos : rinfos = {JoinQualInfo(left, right, jointype, quals, qual) : qual \in quals}
  BY Zenon
<1>11. PICK sjs : sjs = SpecialJoinInfos(left, right, jointype, quals)
  BY Zenon
<1>12. /\ Distribute(rinfos, sjs) /\ forest' = Replaced(forest, i, 2, tree)
       /\ problems' = problems \cup NewProblems(left, right, jointype) /\ froms' = froms
  BY Zenon, <1>4, <1>5, <1>6, <1>10, <1>11 DEF JoinExpr
<1>13. /\ forest' \in Seq(Tree) /\ TreesApart'
       /\ Range(forest') = (Range(forest) \ {left, right}) \cup {tree}
       /\ \A j \in DOMAIN forest : \E m \in DOMAIN forest' : forest[j].relids \subseteq forest'[m].relids
       /\ \E m \in DOMAIN forest' : forest'[m] = tree
  <2>1. \A r : r \in tree.relids <=> \E j \in i .. i + 2 - 1 : r \in forest[j].relids
    BY Zenon, <1>3, <1>4, <1>5, <1>8
  <2>2. i \in 1 .. Len(forest)
    BY Zenon, <1>2, <1>3
  <2>3. {forest[j] : j \in i .. i + 2 - 1} = {left, right}
    BY Zenon, <1>3, <1>4, <1>5
  <2>4. /\ forest' \in Seq(Tree) /\ TreesApart'
        /\ Range(forest') = (Range(forest) \ {forest[j] : j \in i .. i + 2 - 1}) \cup {tree}
        /\ \A j \in DOMAIN forest : \E m \in DOMAIN forest' : forest[j].relids \subseteq forest'[m].relids
        /\ \E m \in DOMAIN forest' : forest'[m] = tree
    BY Zenon, <1>0, <1>1, <1>3, <1>8, <1>12, <2>1, <2>2, TreeStep
  <2> QED  BY Zenon, <2>3, <2>4
<1>14. /\ sjs \in SUBSET SpecialJoins /\ \A sj \in sjs : SidesKept(sj)
       /\ \A sj \in sjs : sj.syn_lefthand = left.relids /\ sj.syn_righthand = right.relids
  <2>1. ASSUME NEW sj \in sjs
        PROVE  sj \in SpecialJoins /\ SidesKept(sj) /\ sj.syn_lefthand = left.relids /\ sj.syn_righthand = right.relids
    <3>1. sj = make_outerjoininfo(forest[i], forest[i + 1], jointype, quals)
      BY Zenon, <1>4, <1>5, <1>11 DEF SpecialJoinInfos
    <3>2. /\ sj \in SpecialJoins /\ SidesKept(sj)
          /\ sj.syn_lefthand = forest[i].relids /\ sj.syn_righthand = forest[i + 1].relids
      BY <1>0, <1>1, <1>3, <3>1, OuterJoinInfo
    <3> QED  BY Zenon, <1>4, <1>5, <3>2
  <2> QED  BY Zenon, <2>1
<1>15. \A sj \in sjs : \E m \in DOMAIN forest' : sj.syn_lefthand \cup sj.syn_righthand \subseteq forest'[m].relids
  BY Zenon, <1>8, <1>13, <1>14
<1>16. ASSUME NEW rinfo \in rinfos PROVE rinfo \in RestrictInfos /\ rinfo.required_relids \subseteq rinfo.qualscope
  <2>1. PICK qual \in quals : rinfo = JoinQualInfo(left, right, jointype, quals, qual)
    BY Zenon, <1>10
  <2>2. PICK ojscope : ojscope = Ojscope(left, right, jointype, quals)
    BY Zenon
  <2>3. rinfo = RestrictInfo(qual, scope, ojscope, NonnullableRels(left, right, jointype))
    BY Zenon, <1>9, <2>1, <2>2 DEF JoinQualInfo
  <2>4. qual.relids \subseteq scope
    <3>1. qual.relids \subseteq Scope(i)
      BY Zenon, QualFacts
    <3> QED  BY Zenon, <1>4, <1>5, <1>7, <1>9, <3>1 DEF Scope
  <2>5. ojscope \in SUBSET scope
    <3>1. \A sj \in sjs : sj.min_lefthand \cup sj.min_righthand \subseteq scope
      BY Zenon, <1>9, <1>14 DEF SidesKept
    <3> QED  BY Zenon, <1>11, <2>2, <3>1 DEF Ojscope
  <2>6. /\ scope \in SUBSET BaseRels /\ {i, i + 1} \in SUBSET DOMAIN forest
        /\ \A r : r \in scope <=> \E j \in {i, i + 1} : r \in forest[j].relids
    BY Zenon, <1>3, <1>4, <1>5, <1>7, <1>9
  <2> QED  BY Zenon, <1>0, <2>3, <2>4, <2>5, <2>6, InfoScoped
<1>17. /\ join_info_list' \subseteq SpecialJoins /\ clauses' \subseteq RestrictInfos
       /\ ScopesRespected' /\ JoinsWithin'
  <2>1. rinfos \in SUBSET RestrictInfos
    BY Zenon, <1>16
  <2> QED  BY Zenon, <1>0, <1>12, <1>13, <1>14, <1>15, <1>16, <2>1, DistributeStep
<1>18. Nested(Range(forest'), problems')
  <2>1. left \in Range(forest) /\ right \in Range(forest) /\ left # right
    BY Zenon, <1>3, <1>4, <1>5, <1>7 DEF Range
  <2>2. Nested((Range(forest) \ {left, right}) \cup {tree}, problems \cup NewProblems(left, right, jointype))
    BY Zenon, <1>0, <1>7, <1>8, <2>1, JoinGrown
  <2> QED  BY Zenon, <1>12, <1>13, <2>2
<1>19. \A problem \in problems' : problem \in Seq(SUBSET BaseRels) /\ Len(problem) > 1
  BY Zenon, <1>1, <1>7, <1>12, NewProblemsTypes
<1>20. TypeOK'
  BY Zenon, <1>1, <1>12, <1>13, <1>17, <1>19 DEF TypeOK, Tree, SpecialJoins, RestrictInfos
<1> QED  BY Zenon, <1>13, <1>17, <1>18, <1>20 DEF IInv

\* The items of a FromExpr are the k trees from position i on.
Part(items, seq, i, k) ==
  /\ Len(items) = k /\ DOMAIN items = 1 .. k
  /\ \A j \in 1 .. k : i + j - 1 \in i .. i + k - 1 /\ i + j - 1 \in 1 .. Len(seq) /\ items[j] = seq[i + j - 1]
  /\ \A m \in i .. i + k - 1 : m - i + 1 \in 1 .. k /\ items[m - i + 1] = seq[m]
  /\ \A j, m \in 1 .. k : j # m => i + j - 1 # i + m - 1

LEMMA ItemsFacts ==
  ASSUME NEW S, NEW seq \in Seq(S), NEW i \in 1 .. Len(seq), NEW k \in Nat, k >= 1, i + k - 1 <= Len(seq),
         NEW items, items = SubSeq(seq, i, i + k - 1)
  PROVE  items \in Seq(S) /\ Part(items, seq, i, k)
  BY DEF Part

\* The tree of a FromExpr.
LEMMA FromTreeFacts ==
  ASSUME NEW items \in Seq(Tree), NEW k \in Nat, k >= 1, Len(items) = k,
         \A j \in 1 .. k : items[j].inners \subseteq items[j].relids /\ items[j].visible \subseteq items[j].relids,
         FromJoinlist(items).joinlist \in Seq(SUBSET BaseRels),
         NEW tree, tree = FromTree(items)
  PROVE  /\ tree \in Tree
         /\ tree.relids = UNION {items[j].relids : j \in 1 .. k}
         /\ tree.joinlist = FromJoinlist(items).joinlist
         /\ tree.inners \subseteq tree.relids /\ tree.visible = UNION {items[j].visible : j \in 1 .. k}
<1>1. DOMAIN items = 1 .. k /\ 1 \in 1 .. k
  OBVIOUS
<1>2. ASSUME NEW j \in 1 .. k
      PROVE  items[j].relids \in SUBSET BaseRels /\ items[j].reducible \in SUBSET SUBSET BaseRels
  <2>1. PICK t \in Tree : t = items[j]
    BY <1>1
  <2>2. t.relids \in SUBSET BaseRels /\ t.reducible \in SUBSET SUBSET BaseRels
    BY DEF Tree
  <2> QED  BY Zenon, <2>1, <2>2
<1>3. PICK relids : relids = UNION {items[j].relids : j \in 1 .. k}
  BY Zenon
<1>4. PICK visible : visible = UNION {items[j].visible : j \in 1 .. k}
  BY Zenon
<1>5. PICK reducible : reducible = UNION {items[j].reducible : j \in 1 .. k}
  BY Zenon
<1>6. PICK inners : inners = IF Len(items) > 1 THEN relids ELSE items[1].inners
  BY Zenon
<1>7. PICK joinlist : joinlist = FromJoinlist(items).joinlist
  BY Zenon
<1>8. tree = [relids |-> relids, inners |-> inners, visible |-> visible, reducible |-> reducible, joinlist |-> joinlist]
  BY Zenon, <1>1, <1>3, <1>4, <1>5, <1>6, <1>7 DEF FromTree, All
<1>9. relids \in SUBSET BaseRels /\ visible \in SUBSET relids /\ inners \in SUBSET relids
  <2>1. relids \in SUBSET BaseRels
    BY <1>2, <1>3
  <2>2. visible \in SUBSET relids
    BY <1>3, <1>4
  <2>3. items[1].inners \subseteq relids
    BY Zenon, <1>1, <1>3
  <2> QED  BY Zenon, <1>6, <2>1, <2>2, <2>3
<1>10. reducible \in SUBSET SUBSET BaseRels
  BY <1>2, <1>5
<1>11. inners \in SUBSET BaseRels /\ visible \in SUBSET BaseRels
  BY Zenon, <1>9
<1>12. joinlist \in Seq(SUBSET BaseRels)
  BY Zenon, <1>7
<1>13. /\ tree \in Tree /\ tree.relids = relids /\ tree.inners = inners /\ tree.visible = visible
       /\ tree.joinlist = joinlist
  BY <1>8, <1>9, <1>10, <1>11, <1>12 DEF Tree
<1> QED  BY Zenon, <1>3, <1>4, <1>7, <1>9, <1>13

\* deconstruct_recurse at a FromExpr.
LEMMA FromGrown ==
  ASSUME NEW trees, NEW done, Nested(trees, done),
         NEW items \in Seq(Tree), NEW k \in Nat, k >= 1, Len(items) = k,
         \A j \in 1 .. k : items[j] \in trees,
         \A j, m \in 1 .. k : j # m => items[j] # items[m],
         NEW kept, NEW acc, Taken(items, k, kept, acc), NEW parts, parts = {items[j] : j \in 1 .. k},
         NEW tree, tree.relids = UNION {items[j].relids : j \in 1 .. k}, tree.joinlist = acc.joinlist
  PROVE  Nested((trees \ parts) \cup {tree}, done \cup acc.cut)
<1> DEFINE split == {items[j] : j \in 1 .. k}
           whole == {items[j] : j \in kept}
<1>1. /\ kept \subseteq 1 .. k /\ IsInjective(acc.joinlist)
      /\ \A x : x \in Range(acc.joinlist) <=>
                \/ \E j \in kept : x \in Range(items[j].joinlist)
                \/ \E j \in (1 .. k) \ kept : x = items[j].relids
      /\ acc.cut = {items[j].joinlist : j \in (1 .. k) \ kept}
      /\ \A j \in (1 .. k) \ kept : Len(items[j].joinlist) > 1
  BY Zenon DEF Taken
<1>2. \A t \in trees : Splits(t.joinlist, t.relids)
  BY Zenon DEF Nested
<1>3. ASSUME NEW j \in 1 .. k PROVE items[j].joinlist \in Seq(SUBSET BaseRels)
  <2>1. PICK t \in Tree : t = items[j]
    OBVIOUS
  <2>2. t.joinlist \in Seq(SUBSET BaseRels)
    BY DEF Tree
  <2> QED  BY Zenon, <2>1, <2>2
<1>4. \A t : t \in split \ whole <=> \E j \in (1 .. k) \ kept : t = items[j]
  BY <1>1
<1>5. \A x : x \in Range(tree.joinlist) <=>
             \/ \E t \in whole : x \in Range(t.joinlist)
             \/ \E t \in split \ whole : x = t.relids
  BY <1>1, <1>4
<1>6. \A t \in split \ whole : t.relids \notin Range(t.joinlist)
  <2> SUFFICES ASSUME NEW j \in (1 .. k) \ kept PROVE items[j].relids \notin Range(items[j].joinlist)
    BY Zenon, <1>4
  <2>1. items[j].joinlist \in Seq(SUBSET BaseRels) /\ Len(items[j].joinlist) > 1 /\ Splits(items[j].joinlist, items[j].relids)
    BY Zenon, <1>1, <1>2, <1>3
  <2> QED  BY Zenon, <2>1, WholeNoItem
<1>7. tree.relids = UNION {t.relids : t \in split}
  OBVIOUS
<1>8. split \in SUBSET trees /\ whole \in SUBSET split /\ split # {}
  <2>1. 1 \in 1 .. k
    OBVIOUS
  <2>2. items[1] \in split
    BY Zenon, <2>1
  <2> QED  BY <1>1, <2>2
<1>9. acc.cut = {t.joinlist : t \in split \ whole}
  BY <1>1, <1>4
<1>10. IsInjective(tree.joinlist)
  BY Zenon, <1>1
<1> HIDE DEF split, whole
<1>11. Nested((trees \ split) \cup {tree}, done \cup {t.joinlist : t \in split \ whole})
  BY Zenon, <1>5, <1>6, <1>7, <1>8, <1>10, Grown
<1>12. Nested((trees \ split) \cup {tree}, done \cup acc.cut)
  BY Zenon, <1>9, <1>11
<1>13. parts = split
  BY Zenon DEF split
<1> QED  BY Zenon, <1>12, <1>13

LEMMA FromExprStep ==
  ASSUME IInv, NEW i \in DOMAIN forest, NEW k \in DOMAIN forest, i + k - 1 <= Len(forest),
         NEW quals \in QualLists(FromScope(i, k)), FromExpr(i, k, quals)
  PROVE  IInv'
<1>0. /\ TypeOK /\ TreesApart /\ JoinsWithin /\ ScopesRespected /\ Nested(Range(forest), problems)
  BY Zenon DEF IInv
<1>1. /\ forest \in Seq(Tree) /\ join_info_list \subseteq SpecialJoins /\ clauses \subseteq RestrictInfos
      /\ \A problem \in problems : problem \in Seq(SUBSET BaseRels) /\ Len(problem) > 1
      /\ froms \in 0 .. MaxFroms
  BY Zenon, <1>0, TypeParts
<1>2. Len(forest) \in Nat /\ DOMAIN forest = 1 .. Len(forest) /\ i \in 1 .. Len(forest) /\ k \in Nat /\ k >= 1
  BY <1>1
<1>3. PICK items : items = SubSeq(forest, i, i + k - 1)
  BY Zenon
<1>i. items = Items(i, k)
  BY Zenon, <1>3 DEF Items
<1>4. /\ items \in Seq(Tree) /\ Len(items) = k /\ DOMAIN items = 1 .. k
      /\ \A j \in 1 .. k : i + j - 1 \in i .. i + k - 1 /\ i + j - 1 \in DOMAIN forest /\ items[j] = forest[i + j - 1]
      /\ \A m \in i .. i + k - 1 : m - i + 1 \in 1 .. k /\ items[m - i + 1] = forest[m]
      /\ \A j, m \in 1 .. k : j # m => i + j - 1 # i + m - 1
  <2>1. items \in Seq(Tree) /\ Part(items, forest, i, k)
    BY Zenon, <1>1, <1>2, <1>3, ItemsFacts
  <2> QED  BY Zenon, <1>2, <2>1 DEF Part
<1>5. /\ \A j \in 1 .. k : items[j] \in Range(forest) /\ items[j].relids # {}
      /\ \A j \in 1 .. k : items[j].inners \subseteq items[j].relids /\ items[j].visible \subseteq items[j].relids
      /\ \A j \in 1 .. k : Splits(items[j].joinlist, items[j].relids)
      /\ \A j, m \in 1 .. k : j # m => items[j].relids \cap items[m].relids = {}
  <2>1. /\ \A j \in DOMAIN forest : forest[j] \in Range(forest) /\ forest[j].relids # {}
        /\ \A j \in DOMAIN forest : forest[j].inners \subseteq forest[j].relids /\ forest[j].visible \subseteq forest[j].relids
        /\ \A j, m \in DOMAIN forest : j # m => forest[j].relids \cap forest[m].relids = {}
    BY Zenon, <1>0 DEF TreesApart, Range
  <2>2. \A t \in Range(forest) : Splits(t.joinlist, t.relids)
    BY Zenon, <1>0 DEF Nested
  <2>3. ASSUME NEW j \in 1 .. k
        PROVE  /\ items[j] \in Range(forest) /\ items[j].relids # {}
               /\ items[j].inners \subseteq items[j].relids /\ items[j].visible \subseteq items[j].relids
               /\ Splits(items[j].joinlist, items[j].relids)
    <3>1. PICK a \in DOMAIN forest : items[j] = forest[a]
      BY Zenon, <1>4
    <3> QED  BY Zenon, <2>1, <2>2, <3>1
  <2>4. ASSUME NEW j \in 1 .. k, NEW m \in 1 .. k, j # m PROVE items[j].relids \cap items[m].relids = {}
    <3>1. PICK a, b \in DOMAIN forest : a # b /\ items[j] = forest[a] /\ items[m] = forest[b]
      BY Zenon, <1>4, <2>4
    <3> QED  BY Zenon, <2>1, <3>1
  <2> QED  BY Zenon, <2>3, <2>4
<1>6. PICK acc : acc = FromJoinlist(items)
  BY Zenon
<1>7. PICK kept : Taken(items, k, kept, acc)
  BY Zenon, <1>4, <1>5, <1>6, ItemsTaken
<1>8. /\ acc.joinlist \in Seq(SUBSET BaseRels)
      /\ \A problem \in acc.cut : problem \in Seq(SUBSET BaseRels) /\ Len(problem) > 1
  <2>1. /\ acc \in [joinlist : Seq(SUBSET BaseRels), cut : SUBSET Seq(SUBSET BaseRels)]
        /\ acc.cut = {items[j].joinlist : j \in (1 .. k) \ kept}
        /\ \A j \in (1 .. k) \ kept : Len(items[j].joinlist) > 1
    BY Zenon, <1>7 DEF Taken
  <2>2. acc.joinlist \in Seq(SUBSET BaseRels) /\ acc.cut \in SUBSET Seq(SUBSET BaseRels)
    BY <2>1
  <2> QED  BY Zenon, <2>1, <2>2
<1>9. PICK tree : tree = FromTree(items)
  BY Zenon
<1>10. /\ tree \in Tree
       /\ tree.relids = UNION {items[j].relids : j \in 1 .. k}
       /\ tree.joinlist = acc.joinlist
       /\ tree.inners \subseteq tree.relids /\ tree.visible = UNION {items[j].visible : j \in 1 .. k}
  <2>1. FromJoinlist(items).joinlist \in Seq(SUBSET BaseRels)
    BY Zenon, <1>6, <1>8
  <2>2. /\ tree \in Tree
        /\ tree.relids = UNION {items[j].relids : j \in 1 .. k}
        /\ tree.joinlist = FromJoinlist(items).joinlist
        /\ tree.inners \subseteq tree.relids /\ tree.visible = UNION {items[j].visible : j \in 1 .. k}
    <3>1. /\ items \in Seq(Tree) /\ k \in Nat /\ k >= 1 /\ Len(items) = k
          /\ \A j \in 1 .. k : items[j].inners \subseteq items[j].relids /\ items[j].visible \subseteq items[j].relids
      BY Zenon, <1>2, <1>4, <1>5
    <3> QED  BY Zenon, <1>9, <2>1, <3>1, FromTreeFacts
  <2> QED  BY Zenon, <1>6, <2>2
<1>11. tree.visible \subseteq tree.relids
  BY <1>5, <1>10
<1>12. PICK rinfos : rinfos = {FromQualInfo(items, qual) : qual \in quals}
  BY Zenon
<1>13. /\ froms < MaxFroms /\ froms' = froms + 1
       /\ Distribute(rinfos, {}) /\ forest' = Replaced(forest, i, k, tree)
       /\ problems' = problems \cup acc.cut
  BY Zenon, <1>i, <1>6, <1>9, <1>12 DEF FromExpr
<1>14. \A r : r \in tree.relids <=> \E j \in i .. i + k - 1 : r \in forest[j].relids
  <2>1. ASSUME NEW r \in tree.relids PROVE \E j \in i .. i + k - 1 : r \in forest[j].relids
    <3>1. PICK m \in 1 .. k : r \in items[m].relids
      BY Zenon, <1>10
    <3> QED  BY Zenon, <1>4, <3>1
  <2>2. ASSUME NEW r, NEW j \in i .. i + k - 1, r \in forest[j].relids PROVE r \in tree.relids
    <3>1. PICK m \in 1 .. k : items[m] = forest[j]
      BY Zenon, <1>4
    <3> QED  BY Zenon, <1>10, <2>2, <3>1
  <2> QED  BY Zenon, <2>1, <2>2
<1>15. {forest[j] : j \in i .. i + k - 1} = {items[j] : j \in 1 .. k}
  <2>1. ASSUME NEW x \in {forest[j] : j \in i .. i + k - 1} PROVE x \in {items[j] : j \in 1 .. k}
    <3>1. PICK j \in i .. i + k - 1 : x = forest[j]
      BY Zenon, <2>1
    <3>2. PICK m \in 1 .. k : forest[j] = items[m]
      BY Zenon, <1>4
    <3> QED  BY Zenon, <3>1, <3>2
  <2>2. ASSUME NEW x \in {items[j] : j \in 1 .. k} PROVE x \in {forest[j] : j \in i .. i + k - 1}
    <3>1. PICK m \in 1 .. k : x = items[m]
      BY Zenon, <2>2
    <3>2. PICK j \in i .. i + k - 1 : forest[j] = items[m]
      BY Zenon, <1>4
    <3> QED  BY Zenon, <3>1, <3>2
  <2> QED  BY Zenon, <2>1, <2>2
<1>16. /\ forest' \in Seq(Tree) /\ TreesApart'
       /\ Range(forest') = (Range(forest) \ {items[j] : j \in 1 .. k}) \cup {tree}
       /\ \A j \in DOMAIN forest : \E m \in DOMAIN forest' : forest[j].relids \subseteq forest'[m].relids
  <2>1. /\ forest' \in Seq(Tree) /\ TreesApart'
        /\ Range(forest') = (Range(forest) \ {forest[j] : j \in i .. i + k - 1}) \cup {tree}
        /\ \A j \in DOMAIN forest : \E m \in DOMAIN forest' : forest[j].relids \subseteq forest'[m].relids
    BY Zenon, <1>0, <1>1, <1>2, <1>10, <1>11, <1>13, <1>14, TreeStep
  <2> QED  BY Zenon, <1>15, <2>1
<1>17. ASSUME NEW rinfo \in rinfos PROVE rinfo \in RestrictInfos /\ rinfo.required_relids \subseteq rinfo.qualscope
  <2>1. PICK qual \in quals : rinfo = FromQualInfo(items, qual)
    BY Zenon, <1>12
  <2>2. rinfo = RestrictInfo(qual, tree.relids, {}, {})
    BY Zenon, <1>9, <2>1 DEF FromQualInfo
  <2>3. qual.relids \subseteq tree.relids
    <3>1. qual.relids \subseteq FromScope(i, k)
      BY Zenon, QualFacts
    <3>2. FromScope(i, k) = tree.visible
      BY <1>i, <1>4, <1>10 DEF FromScope, All
    <3> QED  BY Zenon, <1>11, <3>1, <3>2
  <2>4. tree.relids \in SUBSET BaseRels /\ i .. i + k - 1 \in SUBSET DOMAIN forest /\ {} \in SUBSET tree.relids
    <3>1. tree.relids \in SUBSET BaseRels
      BY <1>10 DEF Tree
    <3>2. i .. i + k - 1 \in SUBSET DOMAIN forest
      BY <1>2
    <3> QED  BY Zenon, <3>1, <3>2
  <2> QED  BY Zenon, <1>0, <1>14, <2>2, <2>3, <2>4, InfoScoped
<1>18. /\ join_info_list' \subseteq SpecialJoins /\ clauses' \subseteq RestrictInfos
       /\ ScopesRespected' /\ JoinsWithin'
  <2>0. PICK none : none = {}
    BY Zenon
  <2>1. rinfos \in SUBSET RestrictInfos /\ none \in SUBSET SpecialJoins /\ Distribute(rinfos, none)
    BY Zenon, <1>13, <1>17, <2>0
  <2>2. /\ \A sj \in none : SidesKept(sj)
        /\ \A sj \in none : \E m \in DOMAIN forest' : sj.syn_lefthand \cup sj.syn_righthand \subseteq forest'[m].relids
    BY Zenon, <2>0
  <2>3. \A rinfo \in rinfos : rinfo.required_relids \subseteq rinfo.qualscope
    BY Zenon, <1>17
  <2> QED  BY Zenon, <1>0, <1>16, <2>1, <2>2, <2>3, DistributeStep
<1>19. Nested(Range(forest'), problems')
  <2>1. ASSUME NEW j \in 1 .. k, NEW m \in 1 .. k, j # m, items[j] = items[m] PROVE FALSE
    <3>1. items[j].relids \cap items[m].relids = {} /\ items[j].relids # {}
      BY Zenon, <1>5, <2>1
    <3> QED  BY Zenon, <2>1, <3>1
  <2>2. \A j, m \in 1 .. k : j # m => items[j] # items[m]
    BY Zenon, <2>1
  <2>3. PICK parts : parts = {items[j] : j \in 1 .. k}
    BY Zenon
  <2>4. /\ items \in Seq(Tree) /\ k \in Nat /\ k >= 1 /\ Len(items) = k
        /\ tree.relids = UNION {items[j].relids : j \in 1 .. k} /\ tree.joinlist = acc.joinlist
        /\ \A j \in 1 .. k : items[j] \in Range(forest)
        /\ Nested(Range(forest), problems)
    BY Zenon, <1>0, <1>2, <1>4, <1>5, <1>10
  <2>5. Nested((Range(forest) \ parts) \cup {tree}, problems \cup acc.cut)
    BY Zenon, <1>7, <2>2, <2>3, <2>4, FromGrown
  <2> QED  BY Zenon, <1>13, <1>16, <2>3, <2>5
<1>20. \A problem \in problems' : problem \in Seq(SUBSET BaseRels) /\ Len(problem) > 1
  BY Zenon, <1>1, <1>8, <1>13
<1>21. froms' \in 0 .. MaxFroms
  BY <1>1, <1>13, BoundsAssumption
<1>22. TypeOK'
  BY Zenon, <1>16, <1>18, <1>20, <1>21 DEF TypeOK, Tree, SpecialJoins, RestrictInfos
<1> QED  BY Zenon, <1>16, <1>18, <1>19, <1>22 DEF IInv

LEMMA InitIInv == Init => IInv
<1> SUFFICES ASSUME Init PROVE IInv
  BY Zenon
<1>0. n_rels \in Nat /\ MaxFroms \in Nat
  BY Zenon, BoundsAssumption
<1>1. forest = [i \in 1 .. n_rels |-> Leaf(i - 1)] /\ join_info_list = {} /\ clauses = {} /\ problems = {} /\ froms = 0
  BY Zenon DEF Init
<1>2. ASSUME NEW i \in 1 .. n_rels
      PROVE  i - 1 \in BaseRels
  BY <1>0 DEF BaseRels
<1>3. ASSUME NEW r \in BaseRels, NEW t, t = Leaf(r)
      PROVE  /\ t \in Tree /\ t.relids = {r} /\ t.inners = {} /\ t.visible = {r} /\ t.joinlist = <<{r}>>
             /\ Range(t.joinlist) = {{r}} /\ IsInjective(t.joinlist)
  <2>1. PICK list : list = <<{r}>>
    BY Zenon
  <2>2. list \in Seq(SUBSET BaseRels) /\ Range(list) = {{r}} /\ IsInjective(list)
    BY <2>1 DEF Range, IsInjective
  <2>3. t = [relids |-> {r}, inners |-> {}, visible |-> {r}, reducible |-> {}, joinlist |-> list]
    BY Zenon, <1>3, <2>1 DEF Leaf
  <2>4. t \in Tree /\ t.relids = {r} /\ t.inners = {} /\ t.visible = {r} /\ t.joinlist = list
    BY <2>2, <2>3 DEF Tree
  <2> QED  BY Zenon, <2>1, <2>2, <2>4
<1>4. /\ forest \in Seq(Tree) /\ DOMAIN forest = 1 .. n_rels
      /\ \A i \in 1 .. n_rels : forest[i] = Leaf(i - 1)
  <2>1. DOMAIN forest = 1 .. n_rels /\ \A i \in 1 .. n_rels : forest[i] = Leaf(i - 1)
    BY Zenon, <1>1
  <2>2. \A i \in 1 .. n_rels : Leaf(i - 1) \in Tree
    BY Zenon, <1>2, <1>3
  <2>3. forest \in [1 .. n_rels -> Tree]
    BY Zenon, <1>1, <2>2
  <2> QED  BY <1>0, <2>1, <2>3
<1>5. /\ \A i \in DOMAIN forest : forest[i].relids = {i - 1} /\ forest[i].inners = {} /\ forest[i].visible = {i - 1}
      /\ \A i \in DOMAIN forest : Range(forest[i].joinlist) = {{i - 1}} /\ IsInjective(forest[i].joinlist)
  BY <1>2, <1>3, <1>4
<1>6. TypeOK
  <2>1. froms \in 0 .. MaxFroms
    BY <1>0, <1>1
  <2> QED  BY Zenon, <1>1, <1>4, <2>1, TypeParts
<1>7. \A i, j \in DOMAIN forest : i # j => i - 1 # j - 1
  BY <1>0, <1>4
<1>8. TreesApart
  <2>1. \A i, j \in DOMAIN forest : i # j => forest[i].relids \cap forest[j].relids = {}
    BY <1>5, <1>7
  <2> QED  BY Zenon, <1>5, <2>1 DEF TreesApart
<1>9. ScopesRespected /\ JoinsWithin
  BY Zenon, <1>1 DEF ScopesRespected, JoinsWithin
<1>10. Nested(Range(forest), {})
  <2>1. ASSUME NEW t \in Range(forest)
        PROVE  \E i \in DOMAIN forest : t = forest[i] /\ i - 1 \in BaseRels /\ t.relids = {i - 1} /\ Range(t.joinlist) = {{i - 1}} /\ IsInjective(t.joinlist)
    <3>1. PICK i \in DOMAIN forest : t = forest[i]
      BY Zenon DEF Range
    <3>2. i - 1 \in BaseRels
      BY Zenon, <1>2, <1>4
    <3> QED  BY Zenon, <1>5, <3>1, <3>2
  <2>2. \A t \in Range(forest) : t.relids # {} /\ Splits(t.joinlist, t.relids)
    <3> SUFFICES ASSUME NEW t \in Range(forest) PROVE t.relids # {} /\ Splits(t.joinlist, t.relids)
      BY Zenon
    <3>1. PICK r : t.relids = {r} /\ Range(t.joinlist) = {{r}} /\ IsInjective(t.joinlist)
      BY Zenon, <2>1
    <3>2. UNION {{r}} = {r}
      BY Zenon
    <3> QED  BY Zenon, <3>1, <3>2 DEF Splits
  <2>3. \A s, t \in Range(forest) : s # t => s.relids \cap t.relids = {}
    BY Zenon, <1>8 DEF TreesApart, Range
  <2>4. ItemsOf({}) = {{r} : r \in BaseRels}
    BY Zenon DEF ItemsOf
  <2>5. ASSUME NEW x \in ItemsOf({}) PROVE \E t \in Range(forest) : x \in Range(t.joinlist)
    <3>1. PICK r \in BaseRels : x = {r}
      BY Zenon, <2>4
    <3>2. r + 1 \in 1 .. n_rels /\ (r + 1) - 1 = r
      BY <1>0 DEF BaseRels
    <3>3. Range(forest[r + 1].joinlist) = {{r}} /\ forest[r + 1] \in Range(forest)
      BY Zenon, <1>4, <1>5, <3>2 DEF Range
    <3> QED  BY Zenon, <3>1, <3>3
  <2>6. \A t \in Range(forest) : Range(t.joinlist) \subseteq ItemsOf({})
    BY Zenon, <2>1, <2>4
  <2> QED  BY Zenon, <2>2, <2>3, <2>5, <2>6 DEF Nested
<1> QED  BY Zenon, <1>1, <1>6, <1>8, <1>9, <1>10 DEF IInv

LEMMA NextIInv == ASSUME IInv, [Next]_vars PROVE IInv'
<1>1. CASE Next
  <2>1. CASE \E i \in 1 .. Len(forest) - 1, jointype \in JoinTypes :
               \E quals \in QualLists(Scope(i)) : JoinExpr(i, jointype, quals)
    BY Zenon, <2>1, JoinExprStep
  <2>2. CASE \E i, k \in DOMAIN forest :
               i + k - 1 <= Len(forest) /\ \E quals \in QualLists(FromScope(i, k)) : FromExpr(i, k, quals)
    BY Zenon, <2>2, FromExprStep
  <2> QED  BY Zenon, <1>1, <2>1, <2>2 DEF Next
<1>2. CASE UNCHANGED vars
  <2>1. /\ forest' = forest /\ join_info_list' = join_info_list /\ clauses' = clauses /\ problems' = problems
        /\ froms' = froms
    BY Zenon, <1>2 DEF vars
  <2> QED  BY Zenon, <2>1 DEF IInv, TypeOK, TreesApart, JoinsWithin, ScopesRespected
<1> QED  BY Zenon, <1>1, <1>2

(***************************************************************************)
(* The inductive invariant of deconstruct_recurse: the trees of the forest *)
(* share no relation and no join, and what a tree reports of its joins,    *)
(* quals and joinlists lies within its own relations.                      *)
(***************************************************************************)
THEOREM Invariance == Spec => []IInv
  BY InitIInv, NextIInv, PTL DEF Spec

(***************************************************************************)
(* Whatever jointree deconstruct_jointree is given, its state keeps the    *)
(* types of initsplan.c's structs, and every joinlist that                 *)
(* make_rel_from_joinlist is given to search has more than one item.       *)
(***************************************************************************)
THEOREM TypeCorrect == Spec => []TypeOK
  BY Invariance, PTL DEF IInv

(***************************************************************************)
(* For every number of relations, every mix of join types and quals and    *)
(* every depth of nesting, the minimum sides that make_outerjoininfo       *)
(* computes are on their own sides of the join, and check_outerjoin_delay  *)
(* delays no qual beyond the part of the query it was written in.          *)
(***************************************************************************)
THEOREM ScopesAreRespected == Spec => []ScopesRespected
  BY Invariance, PTL DEF IInv

(***************************************************************************)
(* For every from_collapse_limit and join_collapse_limit, the joinlists    *)
(* that deconstruct_recurse builds make up one tree over the base          *)
(* relations: make_rel_from_joinlist joins every relation exactly once.    *)
(***************************************************************************)
THEOREM JoinlistsAreNested == Spec => []JoinlistsNest
<1>1. IInv => JoinlistsNest
  BY Zenon, NestedJoinlists DEF IInv
<1> QED  BY <1>1, Invariance, PTL

-----------------------------------------------------------------------------
(* The special joins and the joinlists of a query. *)

\* The two sides of a special join have no rel in common.
SidesApart == \A sj \in join_info_list : sj.syn_lefthand \cap sj.syn_righthand = {}

\* No item of a joinlist straddles a special join.
ItemsSided == \A sj \in join_info_list : \A x \in ItemsOf(problems) : Sided(x, sj)

SInv == SidesApart /\ ItemsSided

\* A tree, or two of them together, hold a special join or none of it.
LEMMA TreesSided ==
  ASSUME TreesApart, JoinsWithin, NEW sj \in join_info_list, NEW s \in Range(forest), NEW t \in Range(forest)
  PROVE  Sided(s.relids, sj) /\ Sided(s.relids \cup t.relids, sj)
<1>1. PICK i \in DOMAIN forest : sj.syn_lefthand \cup sj.syn_righthand \subseteq forest[i].relids
  BY Zenon DEF JoinsWithin
<1>2. ASSUME NEW u \in Range(forest)
      PROVE  u.relids = forest[i].relids \/ u.relids \cap forest[i].relids = {}
  BY Zenon DEF TreesApart, Range
<1> QED  BY Zenon, <1>1, <1>2 DEF Sided

\* No item straddles the special join of two trees.
LEMMA NewSided ==
  ASSUME Nested(Range(forest), problems), NEW left \in Range(forest), NEW right \in Range(forest), left # right,
         NEW sj, sj.syn_lefthand = left.relids, sj.syn_righthand = right.relids,
         NEW x,
         \/ x \in ItemsOf(problems)
         \/ \E t \in Range(forest) : x = t.relids
         \/ x = left.relids \cup right.relids
  PROVE  Sided(x, sj)
<1>1. /\ \A s, t \in Range(forest) : s # t => s.relids \cap t.relids = {}
      /\ \A p \in problems : \E t \in Range(forest) : Whole(p) \subseteq t.relids
  BY Zenon DEF Nested
<1>2. CASE \E t \in Range(forest) : x \subseteq t.relids
  <2>1. PICK t \in Range(forest) : x \subseteq t.relids
    BY Zenon, <1>2
  <2>2. t = left \/ t = right \/ (t.relids \cap left.relids = {} /\ t.relids \cap right.relids = {})
    BY Zenon, <1>1
  <2> QED  BY Zenon, <2>1, <2>2 DEF Sided
<1>3. CASE \E r : x = {r}
  BY Zenon, <1>3 DEF Sided
<1>4. CASE x = left.relids \cup right.relids
  BY Zenon, <1>4 DEF Sided
<1>5. \/ \E t \in Range(forest) : x \subseteq t.relids
      \/ \E r : x = {r}
      \/ x = left.relids \cup right.relids
  BY Zenon, <1>1 DEF ItemsOf
<1> QED  BY Zenon, <1>2, <1>3, <1>4, <1>5

\* Where the special joins and the items after a step come from.
LEMMA SidesStep ==
  ASSUME IInv, SInv,
         \A s \in join_info_list' :
           \/ \E sj \in join_info_list : s.syn_lefthand = sj.syn_lefthand /\ s.syn_righthand = sj.syn_righthand
           \/ /\ s.syn_lefthand \cap s.syn_righthand = {}
              /\ \A x \in ItemsOf(problems') : Sided(x, s),
         \A x \in ItemsOf(problems') :
           \/ x \in ItemsOf(problems)
           \/ \E s, t \in Range(forest) : x = s.relids \/ x = s.relids \cup t.relids
  PROVE  SInv'
<1>1. ASSUME NEW s \in join_info_list', NEW x \in ItemsOf(problems')
      PROVE  s.syn_lefthand \cap s.syn_righthand = {} /\ Sided(x, s)
  <2>1. CASE \E sj \in join_info_list : s.syn_lefthand = sj.syn_lefthand /\ s.syn_righthand = sj.syn_righthand
    <3>1. PICK sj \in join_info_list : s.syn_lefthand = sj.syn_lefthand /\ s.syn_righthand = sj.syn_righthand
      BY Zenon, <2>1
    <3>2. Sided(x, sj)
      <4>1. CASE x \in ItemsOf(problems)
        BY Zenon, <4>1 DEF SInv, ItemsSided
      <4>2. CASE \E u, t \in Range(forest) : x = u.relids \/ x = u.relids \cup t.relids
        <5>1. PICK u, t \in Range(forest) : x = u.relids \/ x = u.relids \cup t.relids
          BY Zenon, <4>2
        <5>2. Sided(u.relids, sj) /\ Sided(u.relids \cup t.relids, sj)
          BY Zenon, TreesSided DEF IInv
        <5> QED  BY Zenon, <5>1, <5>2
      <4> QED  BY Zenon, <4>1, <4>2
    <3>3. sj.syn_lefthand \cap sj.syn_righthand = {}
      BY Zenon DEF SInv, SidesApart
    <3> QED  BY Zenon, <3>1, <3>2, <3>3 DEF Sided
  <2> QED  BY Zenon, <2>1
<1>2. ASSUME NEW s \in join_info_list' PROVE s.syn_lefthand \cap s.syn_righthand = {}
  BY Zenon DEF SInv, SidesApart
<1> QED  BY Zenon, <1>1, <1>2 DEF SInv, SidesApart, ItemsSided

\* Distributing quals leaves the sides of the special joins alone.
LEMMA DistributeSides ==
  ASSUME join_info_list \subseteq SpecialJoins, NEW rinfos, NEW sjs, Distribute(rinfos, sjs), NEW s \in join_info_list'
  PROVE  \/ s \in sjs
         \/ \E sj \in join_info_list : s.syn_lefthand = sj.syn_lefthand /\ s.syn_righthand = sj.syn_righthand
<1> SUFFICES ASSUME s \notin sjs
             PROVE  \E sj \in join_info_list : s.syn_lefthand = sj.syn_lefthand /\ s.syn_righthand = sj.syn_righthand
  BY Zenon
<1>1. PICK sj \in join_info_list : s = [sj EXCEPT !.delay_upper_joins = @ \/ \E rinfo \in rinfos : Delays(sj, rinfo)]
  BY Zenon DEF Distribute
<1>2. PICK d \in BOOLEAN : s = [sj EXCEPT !.delay_upper_joins = d]
  <2>1. (sj.delay_upper_joins \/ \E rinfo \in rinfos : Delays(sj, rinfo)) \in BOOLEAN
    BY Zenon
  <2> QED  BY Zenon, <1>1, <2>1
<1>3. sj \in SpecialJoins
  BY Zenon
<1> QED  BY Zenon, <1>2, <1>3, DelaySet

\* The joinlists that a step completes are over whole trees.
LEMMA CutWhole ==
  ASSUME Nested(Range(forest), problems), NEW t \in Range(forest), NEW p \in Cut(t)
  PROVE  Whole(p) = t.relids
<1>1. p = t.joinlist
  BY Zenon DEF Cut
<1>2. UNION Range(t.joinlist) = t.relids
  BY Zenon DEF Nested, Splits
<1> QED  BY Zenon, <1>1, <1>2 DEF Whole

LEMMA PairWhole == ASSUME NEW a, NEW b PROVE Whole(<<a, b>>) = a \cup b
<1>1. Range(<<a, b>>) = {a, b}
  BY DEF Range
<1> QED  BY <1>1 DEF Whole

LEMMA JoinExprSides ==
  ASSUME IInv, SInv, NEW i \in 1 .. Len(forest) - 1, NEW jointype \in JoinTypes, NEW quals \in QualLists(Scope(i)),
         JoinExpr(i, jointype, quals)
  PROVE  SInv'
<1>0. /\ TypeOK /\ TreesApart /\ JoinsWithin /\ ScopesRespected /\ Nested(Range(forest), problems)
  BY Zenon DEF IInv
<1>1. forest \in Seq(Tree) /\ join_info_list \subseteq SpecialJoins
  BY Zenon, <1>0, TypeParts
<1>2. Len(forest) \in Nat /\ DOMAIN forest = 1 .. Len(forest)
  BY <1>1
<1>3. i \in DOMAIN forest /\ i + 1 \in DOMAIN forest /\ i # i + 1
  BY Zenon, <1>2, Neighbours
<1>4. PICK left, right : left = forest[i] /\ right = forest[i + 1]
  BY Zenon
<1>5. /\ left \in Range(forest) /\ right \in Range(forest) /\ left # right
      /\ left.relids \cap right.relids = {}
  <2>1. left \in Range(forest) /\ right \in Range(forest)
    BY Zenon, <1>3, <1>4 DEF Range
  <2>2. left.relids # {} /\ left.relids \cap right.relids = {}
    BY Zenon, <1>0, <1>3, <1>4 DEF TreesApart
  <2> QED  BY Zenon, <2>1, <2>2
<1>6. PICK rinfos : Distribute(rinfos, SpecialJoinInfos(left, right, jointype, quals))
  BY Zenon, <1>4 DEF JoinExpr
<1>7. problems' = problems \cup NewProblems(left, right, jointype)
  BY Zenon, <1>4 DEF JoinExpr
<1>8. ASSUME NEW p \in NewProblems(left, right, jointype)
      PROVE  Whole(p) \in {left.relids, right.relids, left.relids \cup right.relids}
  <2>1. p \in Cut(left) \/ p \in Cut(right) \/ p = <<left.relids, right.relids>>
    BY Zenon DEF NewProblems
  <2> QED  BY Zenon, <1>0, <1>5, <2>1, CutWhole, PairWhole
<1>9. ASSUME NEW x \in ItemsOf(problems')
      PROVE  x \in ItemsOf(problems) \/ x \in {left.relids, right.relids, left.relids \cup right.relids}
  BY Zenon, <1>7, <1>8 DEF ItemsOf
<1>10. ASSUME NEW s \in SpecialJoinInfos(left, right, jointype, quals)
       PROVE  s.syn_lefthand = left.relids /\ s.syn_righthand = right.relids
  <2>1. s = make_outerjoininfo(left, right, jointype, quals)
    BY Zenon DEF SpecialJoinInfos
  <2> QED  BY <2>1 DEF make_outerjoininfo
<1>11. ASSUME NEW s \in SpecialJoinInfos(left, right, jointype, quals), NEW x \in ItemsOf(problems')
       PROVE  Sided(x, s)
  <2>1. \/ x \in ItemsOf(problems)
        \/ \E t \in Range(forest) : x = t.relids
        \/ x = left.relids \cup right.relids
    BY Zenon, <1>5, <1>9
  <2> QED  BY <1>0, <1>5, <1>10, <2>1, NewSided
<1>12. \A s \in join_info_list' :
           \/ \E sj \in join_info_list : s.syn_lefthand = sj.syn_lefthand /\ s.syn_righthand = sj.syn_righthand
           \/ /\ s.syn_lefthand \cap s.syn_righthand = {}
              /\ \A x \in ItemsOf(problems') : Sided(x, s)
  BY Zenon, <1>1, <1>5, <1>6, <1>10, <1>11, DistributeSides
<1>13. \A x \in ItemsOf(problems') :
           \/ x \in ItemsOf(problems)
           \/ \E s, t \in Range(forest) : x = s.relids \/ x = s.relids \cup t.relids
  BY Zenon, <1>5, <1>9
<1> QED  BY Zenon, <1>12, <1>13, SidesStep

LEMMA FromExprSides ==
  ASSUME IInv, SInv, NEW i \in DOMAIN forest, NEW k \in DOMAIN forest, i + k - 1 <= Len(forest),
         NEW quals \in QualLists(FromScope(i, k)), FromExpr(i, k, quals)
  PROVE  SInv'
<1>0. /\ TypeOK /\ TreesApart /\ JoinsWithin /\ ScopesRespected /\ Nested(Range(forest), problems)
  BY Zenon DEF IInv
<1>1. forest \in Seq(Tree) /\ join_info_list \subseteq SpecialJoins
  BY Zenon, <1>0, TypeParts
<1>2. Len(forest) \in Nat /\ DOMAIN forest = 1 .. Len(forest) /\ i \in 1 .. Len(forest) /\ k \in Nat /\ k >= 1
  BY <1>1
<1>3. PICK items : items = SubSeq(forest, i, i + k - 1)
  BY Zenon
<1>4. /\ items \in Seq(Tree) /\ Len(items) = k /\ DOMAIN items = 1 .. k
      /\ \A j \in 1 .. k : i + j - 1 \in DOMAIN forest /\ items[j] = forest[i + j - 1]
      /\ \A j, m \in 1 .. k : j # m => i + j - 1 # i + m - 1
  <2>1. items \in Seq(Tree) /\ Part(items, forest, i, k)
    BY Zenon, <1>1, <1>2, <1>3, ItemsFacts
  <2> QED  BY Zenon, <1>2, <2>1 DEF Part
<1>5. ASSUME NEW j \in 1 .. k
      PROVE  items[j] \in Range(forest) /\ items[j].relids # {} /\ Splits(items[j].joinlist, items[j].relids)
  <2>1. items[j] \in Range(forest)
    BY Zenon, <1>4 DEF Range
  <2> QED  BY Zenon, <1>0, <2>1 DEF Nested
<1>6. ASSUME NEW j \in 1 .. k, NEW m \in 1 .. k, j # m PROVE items[j].relids \cap items[m].relids = {}
  <2>1. PICK a, b \in DOMAIN forest : a # b /\ items[j] = forest[a] /\ items[m] = forest[b]
    BY Zenon, <1>4, <1>6
  <2> QED  BY Zenon, <1>0, <2>1 DEF TreesApart
<1>7. PICK kept : Taken(items, k, kept, FromJoinlist(items))
  BY Zenon, <1>4, <1>5, <1>6, ItemsTaken
<1>8. problems' = problems \cup FromJoinlist(items).cut /\ \E rinfos : Distribute(rinfos, {})
  BY Zenon, <1>3 DEF FromExpr, Items
<1>9. ASSUME NEW p \in FromJoinlist(items).cut PROVE \E t \in Range(forest) : Whole(p) = t.relids
  <2>1. PICK j \in 1 .. k : p = items[j].joinlist
    BY Zenon, <1>7 DEF Taken
  <2> QED  BY Zenon, <1>5, <2>1 DEF Splits, Whole
<1>10. \A x \in ItemsOf(problems') :
           \/ x \in ItemsOf(problems)
           \/ \E s, t \in Range(forest) : x = s.relids \/ x = s.relids \cup t.relids
  BY Zenon, <1>8, <1>9 DEF ItemsOf
<1>11. \A s \in join_info_list' :
           \E sj \in join_info_list : s.syn_lefthand = sj.syn_lefthand /\ s.syn_righthand = sj.syn_righthand
  <2> SUFFICES ASSUME NEW s \in join_info_list'
               PROVE  \E sj \in join_info_list : s.syn_lefthand = sj.syn_lefthand /\ s.syn_righthand = sj.syn_righthand
    BY Zenon
  <2>1. PICK rinfos, none : none = {} /\ Distribute(rinfos, none)
    BY Zenon, <1>8
  <2>2. \/ s \in none
        \/ \E sj \in join_info_list : s.syn_lefthand = sj.syn_lefthand /\ s.syn_righthand = sj.syn_righthand
    BY Zenon, <1>1, <2>1, DistributeSides
  <2> QED  BY Zenon, <2>1, <2>2
<1> QED  BY Zenon, <1>10, <1>11, SidesStep

LEMMA NextSInv == ASSUME IInv, SInv, [Next]_vars PROVE SInv'
<1>1. CASE Next
  <2>1. CASE \E i \in 1 .. Len(forest) - 1, jointype \in JoinTypes :
               \E quals \in QualLists(Scope(i)) : JoinExpr(i, jointype, quals)
    BY Zenon, <2>1, JoinExprSides
  <2>2. CASE \E i, k \in DOMAIN forest :
               i + k - 1 <= Len(forest) /\ \E quals \in QualLists(FromScope(i, k)) : FromExpr(i, k, quals)
    BY Zenon, <2>2, FromExprSides
  <2> QED  BY Zenon, <1>1, <2>1, <2>2 DEF Next
<1>2. CASE UNCHANGED vars
  <2>1. join_info_list' = join_info_list /\ problems' = problems
    BY Zenon, <1>2 DEF vars
  <2> QED  BY Zenon, <2>1 DEF SInv, SidesApart, ItemsSided
<1> QED  BY Zenon, <1>1, <1>2

(***************************************************************************)
(* In every step of deconstruct_jointree the sides of a special join are   *)
(* disjoint and no item of a completed joinlist straddles it: an item that *)
(* deconstruct_recurse cuts off lies on one side, outside of the special   *)
(* join, or holds all of it.                                               *)
(***************************************************************************)
THEOREM SidesInvariance == Spec => []SInv
<1>1. Init => SInv
  BY Zenon DEF Init, SInv, SidesApart, ItemsSided
<1>2. IInv /\ SInv /\ [Next]_vars => SInv'
  BY Zenon, NextSInv
<1> QED  BY <1>1, <1>2, Invariance, PTL DEF Spec

-----------------------------------------------------------------------------
(* The queries that reach parallel_eval. *)

\* A join problem: at least two disjoint items, each a rel or the result of another
\* problem.
LEMMA ProblemFacts ==
  ASSUME IInv, Finished, NEW problem \in Problems
  PROVE  /\ problem \in Seq(SUBSET BaseRels) /\ Len(problem) > 1
         /\ Splits(problem, Whole(problem)) /\ Range(problem) \subseteq ItemsOf(problems)
<1>0. TypeOK /\ Nested(Range(forest), problems)
  BY Zenon DEF IInv
<1>1. CASE problem \in problems
  BY Zenon, <1>0, <1>1 DEF TypeOK, Nested
<1>2. CASE problem \in Cut(forest[1])
  <2>1. problem = forest[1].joinlist /\ Len(problem) > 1
    BY Zenon, <1>2 DEF Cut
  <2>2. 1 \in DOMAIN forest /\ forest[1] \in Tree
    <3>1. forest \in Seq(Tree)
      BY Zenon, <1>0, TypeParts
    <3> QED  BY <3>1 DEF Finished
  <2>3. forest[1] \in Range(forest)
    BY Zenon, <2>2 DEF Range
  <2>4. problem \in Seq(SUBSET BaseRels)
    <3>1. PICK t \in Tree : t = forest[1]
      BY Zenon, <2>2
    <3>2. t.joinlist \in Seq(SUBSET BaseRels)
      BY DEF Tree
    <3> QED  BY Zenon, <2>1, <3>1, <3>2
  <2>5. Splits(problem, forest[1].relids) /\ Range(problem) \subseteq ItemsOf(problems)
    BY Zenon, <1>0, <2>1, <2>3 DEF Nested
  <2> QED  BY Zenon, <2>1, <2>4, <2>5 DEF Splits, Whole
<1> QED  BY Zenon, <1>1, <1>2 DEF Problems

\* A problem has no more items than the query has rels.
LEMMA ProblemLength ==
  ASSUME NEW problem \in Seq(SUBSET BaseRels), NEW whole, Splits(problem, whole)
  PROVE  Len(problem) <= n_rels
<1>0. n_rels \in Nat /\ Len(problem) \in Nat /\ DOMAIN problem = 1 .. Len(problem)
  BY BoundsAssumption
<1> DEFINE f == [j \in 1 .. Len(problem) |-> CHOOSE r : r \in problem[j]]
<1>1. ASSUME NEW j \in 1 .. Len(problem) PROVE problem[j] \in Range(problem) /\ f[j] \in problem[j] /\ f[j] \in BaseRels
  <2>1. problem[j] \in Range(problem) /\ problem[j] \in SUBSET BaseRels
    BY <1>0 DEF Range
  <2>2. problem[j] # {}
    BY Zenon, <2>1 DEF Splits
  <2> QED  BY Zenon, <2>1, <2>2
<1>2. DOMAIN f = 1 .. Len(problem) /\ f \in [1 .. Len(problem) -> BaseRels]
  BY Zenon, <1>1
<1> HIDE DEF f
<1>3. ASSUME NEW j \in 1 .. Len(problem), NEW k \in 1 .. Len(problem), f[j] = f[k] PROVE j = k
  <2>1. problem[j] = problem[k]
    BY Zenon, <1>1, <1>3 DEF Splits
  <2> QED  BY Zenon, <1>0, <2>1 DEF Splits, IsInjective
<1>4. f \in Injection(1 .. Len(problem), BaseRels)
  BY Zenon, <1>2, <1>3 DEF Injection, IsInjective
<1>5. IsFiniteSet(BaseRels) /\ Cardinality(BaseRels) = n_rels
  <2>1. PICK last \in Int : last = n_rels - 1
    BY <1>0
  <2>2. 0 \in Int /\ IsFiniteSet(0 .. last) /\ Cardinality(0 .. last) = IF 0 > last THEN 0 ELSE last - 0 + 1
    BY FS_Interval
  <2>3. (IF 0 > last THEN 0 ELSE last - 0 + 1) = n_rels
    BY <1>0, <2>1
  <2> QED  BY Zenon, <2>1, <2>2, <2>3 DEF BaseRels
<1>6. Cardinality(1 .. Len(problem)) <= Cardinality(BaseRels)
  BY <1>4, <1>5, FS_Injection
<1>7. Cardinality(1 .. Len(problem)) = Len(problem)
  <2>1. Cardinality(1 .. Len(problem)) = IF 1 > Len(problem) THEN 0 ELSE Len(problem) - 1 + 1
    BY <1>0, FS_Interval
  <2> QED  BY <1>0, <2>1
<1> QED  BY Zenon, <1>5, <1>6, <1>7

\* The join orders that the search tries name every item once.
LEMMA OrdersOf ==
  ASSUME IInv, Finished, NEW problem \in Problems, NEW o \in JoinOrders(problem)
  PROVE  /\ OrderOf(Query(problem), Range(problem), BaseRels, o) /\ Len(o) = Len(problem)
         /\ \A i \in 1 .. Len(o) : ItemAt(Query(problem), o, i) = problem[o[i] + 1]
<1>1. /\ problem \in Seq(SUBSET BaseRels) /\ Len(problem) > 1
      /\ Splits(problem, Whole(problem)) /\ Range(problem) \subseteq ItemsOf(problems)
  BY Zenon, ProblemFacts
<1>2. PICK n : n = Len(problem)
  BY Zenon
<1>3. n \in Nat /\ n > 1 /\ n <= n_rels /\ DOMAIN problem = 1 .. n
  <2>1. n <= n_rels
    BY Zenon, <1>1, <1>2, ProblemLength
  <2> QED  BY <1>1, <1>2, <2>1
<1>4. o \in [1 .. n -> 0 .. n - 1] /\ IsInjective(o)
  <2>1. n \in 1 .. n_rels
    BY <1>3, BoundsAssumption
  <2>2. JoinOrders(problem) = {q \in [1 .. n -> 0 .. n - 1] : IsInjective(q)}
    BY Zenon, <1>2, <2>1 DEF JoinOrders, OrdersOfLength
  <2> QED  BY Zenon, <2>2
<1>5. Len(o) = n /\ DOMAIN o = 1 .. n
  BY <1>3, <1>4
<1>6. \A i : ItemAt(Query(problem), o, i) = problem[o[i] + 1]
  BY DEF ItemAt, Query
<1>7. ASSUME NEW i \in 1 .. n PROVE o[i] + 1 \in 1 .. n /\ o[i] \in Int
  BY <1>3, <1>4
<1>8. ASSUME NEW i \in 1 .. n, NEW j \in 1 .. n, i # j PROVE problem[o[i] + 1] # problem[o[j] + 1]
  <2>1. o[i] # o[j]
    BY Zenon, <1>5, <1>4, <1>8 DEF IsInjective
  <2>2. o[i] + 1 # o[j] + 1
    BY <1>7, <2>1
  <2>3. o[i] + 1 \in DOMAIN problem /\ o[j] + 1 \in DOMAIN problem
    BY Zenon, <1>3, <1>7
  <2>4. IsInjective(problem)
    BY Zenon, <1>1 DEF Splits
  <2> QED  BY Zenon, <2>2, <2>3, <2>4 DEF IsInjective
<1>9. \A i \in 1 .. n : problem[o[i] + 1] \in Range(problem)
  BY Zenon, <1>3, <1>7 DEF Range
<1>10. ItemsApart(Range(problem))
  BY Zenon, <1>1 DEF Splits, ItemsApart
<1>11. Range(problem) \subseteq SUBSET BaseRels
  BY <1>1 DEF Range
<1>12. Len(o) \in Nat \ {0}
  BY <1>3, <1>5
<1> QED  BY Zenon, <1>2, <1>5, <1>6, <1>8, <1>9, <1>10, <1>11, <1>12 DEF OrderOf

\* A join order over a problem leaves no item out.
LEMMA OrderCovers ==
  ASSUME IInv, Finished, NEW problem \in Problems, NEW o \in JoinOrders(problem)
  PROVE  UNION {ItemAt(Query(problem), o, i) : i \in 1 .. Len(o)} = Whole(problem)
<1>1. problem \in Seq(SUBSET BaseRels) /\ Len(problem) > 1 /\ Splits(problem, Whole(problem))
  BY Zenon, ProblemFacts
<1>2. PICK n : n = Len(problem)
  BY Zenon
<1>3. n \in Nat /\ n > 1 /\ n <= n_rels /\ DOMAIN problem = 1 .. n
  <2>1. n <= n_rels
    BY Zenon, <1>1, <1>2, ProblemLength
  <2> QED  BY <1>1, <1>2, <2>1
<1>4. o \in [1 .. n -> 0 .. n - 1] /\ IsInjective(o)
  <2>1. n \in 1 .. n_rels
    BY <1>3, BoundsAssumption
  <2>2. JoinOrders(problem) = {q \in [1 .. n -> 0 .. n - 1] : IsInjective(q)}
    BY Zenon, <1>2, <2>1 DEF JoinOrders, OrdersOfLength
  <2> QED  BY Zenon, <2>2
<1>5. Len(o) = n /\ DOMAIN o = 1 .. n
  BY <1>3, <1>4
<1>6. \A i : ItemAt(Query(problem), o, i) = problem[o[i] + 1]
  BY DEF ItemAt, Query
<1>7. o \in Injection(1 .. n, 0 .. n - 1)
  BY Zenon, <1>4, <1>5 DEF IsInjective, Injection
<1>8. IsFiniteSet(0 .. n - 1) /\ Cardinality(1 .. n) = Cardinality(0 .. n - 1)
  <2>1. PICK last : last = n - 1
    BY Zenon
  <2>2. last \in Int /\ 0 \in Int /\ 1 \in Int /\ n \in Int
    BY <1>3, <2>1
  <2>3. IsFiniteSet(0 .. last) /\ Cardinality(0 .. last) = IF 0 > last THEN 0 ELSE last - 0 + 1
    BY <2>2, FS_Interval
  <2>4. Cardinality(1 .. n) = IF 1 > n THEN 0 ELSE n - 1 + 1
    BY <2>2, FS_Interval
  <2>5. (IF 0 > last THEN 0 ELSE last - 0 + 1) = (IF 1 > n THEN 0 ELSE n - 1 + 1)
    BY <1>3, <2>1
  <2> QED  BY Zenon, <2>1, <2>3, <2>4, <2>5
<1>9. o \in Surjection(1 .. n, 0 .. n - 1)
  BY <1>7, <1>8, FS_Injection
<1>10. ASSUME NEW j \in 1 .. n PROVE \E i \in 1 .. n : o[i] + 1 = j
  <2>1. j - 1 \in 0 .. n - 1 /\ (j - 1) + 1 = j
    BY <1>3
  <2>2. \E i \in 1 .. n : o[i] = j - 1
    BY Zenon, <1>9, <2>1 DEF Surjection
  <2> QED  BY Zenon, <2>1, <2>2
<1>11. ASSUME NEW i \in 1 .. n PROVE o[i] + 1 \in 1 .. n
  BY <1>3, <1>4
<1>12. {ItemAt(Query(problem), o, i) : i \in 1 .. n} = Range(problem)
  <2>1. Range(problem) = {problem[j] : j \in 1 .. n}
    BY Zenon, <1>3 DEF Range
  <2>2. ASSUME NEW i \in 1 .. n PROVE ItemAt(Query(problem), o, i) \in {problem[j] : j \in 1 .. n}
    BY Zenon, <1>6, <1>11
  <2>3. ASSUME NEW j \in 1 .. n PROVE problem[j] \in {ItemAt(Query(problem), o, i) : i \in 1 .. n}
    <3>1. PICK i \in 1 .. n : o[i] + 1 = j
      BY Zenon, <1>10
    <3>2. ItemAt(Query(problem), o, i) = problem[j]
      BY Zenon, <1>6, <3>1
    <3> QED  BY Zenon, <3>2
  <2> QED  BY Zenon, <2>1, <2>2, <2>3
<1> QED  BY Zenon, <1>5, <1>12 DEF Whole

LEMMA RelsJoined == IInv => EveryRelJoined
<1> SUFFICES ASSUME IInv, Finished, NEW problem \in Problems, NEW o \in JoinOrders(problem), NEW rel,
                    rel = construct_rel_based_on_plan(Query(problem), o), rel # NoRel
             PROVE  rel.relids = Whole(problem)
  BY Zenon DEF EveryRelJoined
<1>1. PICK root, items : root = Query(problem) /\ items = Range(problem)
  BY Zenon
<1>2. OrderOf(root, items, BaseRels, o)
  BY Zenon, <1>1, OrdersOf
<1>3. rel = construct_rel_based_on_plan(root, o)
  BY Zenon, <1>1
<1>4. rel.relids = UNION {ItemAt(root, o, i) : i \in 1 .. Len(o)}
  BY <1>2, <1>3, ConstructTree
<1> QED  BY Zenon, <1>1, <1>4, OrderCovers

LEMMA JoinsPerformed == IInv /\ SInv => SpecialJoinsPerformed
<1> SUFFICES ASSUME IInv, SInv, Finished, NEW problem \in Problems, NEW o \in JoinOrders(problem), NEW rel,
                    rel = construct_rel_based_on_plan(Query(problem), o), rel # NoRel,
                    NEW sj \in join_info_list,
                    sj.min_lefthand \cup sj.min_righthand \subseteq rel.relids, ~ InItem(sj, problem)
             PROVE  Cardinality({join \in rel.joins : PerformedAt(sj, join)}) = 1
  BY Zenon DEF SpecialJoinsPerformed
<1>1. PICK root, items : root = Query(problem) /\ items = Range(problem)
  BY Zenon
<1>2. OrderOf(root, items, BaseRels, o)
  BY Zenon, <1>1, OrdersOf
<1>3. rel = construct_rel_based_on_plan(root, o)
  BY Zenon, <1>1
<1>4. Clump(root, items, BaseRels, rel)
  BY <1>2, <1>3, ConstructTree
<1>5. JoinTree(root, items, rel) /\ rel.relids \in SUBSET BaseRels
  BY <1>4 DEF Clump, RelsOver
<1>6. IsFiniteSet(rel.relids)
  <2>1. IsFiniteSet(BaseRels)
    <3>1. 0 \in Int /\ n_rels - 1 \in Int
      BY BoundsAssumption
    <3> QED  BY <3>1, FS_Interval DEF BaseRels
  <2> QED  BY <1>5, <2>1, FS_Subset
<1>7. root.join_info_list = join_info_list
  BY <1>1 DEF Query
<1>8. SidesKept(sj) /\ sj.syn_lefthand \cap sj.syn_righthand = {}
  BY Zenon DEF IInv, ScopesRespected, SidesKept, SInv, SidesApart
<1>9. ASSUME NEW x \in items PROVE Sided(x, sj) /\ ~ (sj.min_lefthand \cup sj.min_righthand \subseteq x)
  <2>1. Sided(x, sj)
    BY Zenon, <1>1, ProblemFacts DEF SInv, ItemsSided
  <2>2. \E i \in DOMAIN problem : x = problem[i]
    BY Zenon, <1>1 DEF Range
  <2> QED  BY Zenon, <2>1, <2>2 DEF InItem
<1>10. Setting(root, items, rel, sj)
  BY Zenon, <1>5, <1>6, <1>7, <1>8, <1>9 DEF Setting
<1> QED  BY <1>10, ExactlyOne

(***************************************************************************)
(* Whatever the query and the join order, a rel that                       *)
(* construct_rel_based_on_plan returns joins all the items of its problem: *)
(* try_merge_clump and force_merge_clump lose no relation.                 *)
(***************************************************************************)
THEOREM RelsAreJoined == Spec => []EveryRelJoined
  BY RelsJoined, Invariance, PTL

(***************************************************************************)
(* Whatever the query and the join order, join_is_legal lets exactly one   *)
(* join of the rel built perform each special join of the query.           *)
(***************************************************************************)
THEOREM JoinsArePerformed == Spec => []SpecialJoinsPerformed
  BY JoinsPerformed, Invariance, SidesInvariance, PTL

LEMMA InnerBuilds == IInv /\ join_info_list = {} => EveryOrderBuilds
<1> SUFFICES ASSUME IInv, Finished, join_info_list = {}, NEW problem \in Problems, NEW o \in JoinOrders(problem)
             PROVE  construct_rel_based_on_plan(Query(problem), o) # NoRel
  BY Zenon DEF EveryOrderBuilds
<1>1. PICK root, items : root = Query(problem) /\ items = Range(problem)
  BY Zenon
<1>2. OrderOf(root, items, BaseRels, o) /\ root.join_info_list = {}
  <2>1. root.join_info_list = join_info_list
    BY <1>1 DEF Query
  <2> QED  BY Zenon, <1>1, <2>1, OrdersOf
<1>3. InnerOrder(root, items, BaseRels, o)
  BY Zenon, <1>2, NoRelAssumption DEF InnerOrder, RelsOver
<1>4. construct_rel_based_on_plan(root, o) = LeftDeep(root, o, Len(o))
  BY <1>3, ConstructDeep
<1>5. LeftDeep(root, o, Len(o)) \in RelsOver(BaseRels)
  <2>1. Len(o) \in 1 .. Len(o)
    <3>1. Len(o) \in Nat \ {0}
      BY Zenon, <1>2 DEF OrderOf
    <3> QED  BY <3>1
  <2> QED  BY <1>2, <2>1, LeftDeepType
<1> QED  BY Zenon, <1>1, <1>4, <1>5, NoRelAssumption DEF RelsOver

LEMMA InnerLeftDeep == IInv => LeftDeepIfInner
<1> SUFFICES ASSUME IInv, Finished, join_info_list = {}, NEW problem \in Problems, NEW o \in JoinOrders(problem)
             PROVE  construct_rel_based_on_plan(Query(problem), o).joins = LeftDeepJoins(problem, o)
  BY Zenon DEF LeftDeepIfInner
<1>1. PICK root, items : root = Query(problem) /\ items = Range(problem)
  BY Zenon
<1>2. OrderOf(root, items, BaseRels, o) /\ root.join_info_list = {}
  <2>1. root.join_info_list = join_info_list
    BY <1>1 DEF Query
  <2> QED  BY Zenon, <1>1, <2>1, OrdersOf
<1>3. InnerOrder(root, items, BaseRels, o)
  BY Zenon, <1>2, NoRelAssumption DEF InnerOrder, RelsOver
<1>4. construct_rel_based_on_plan(root, o) = LeftDeep(root, o, Len(o))
  BY <1>3, ConstructDeep
<1>5. LeftDeep(root, o, Len(o)).joins =
        {{UNION {ItemAt(root, o, l) : l \in 1 .. m}, ItemAt(root, o, m + 1)} : m \in 1 .. Len(o) - 1}
  BY DEF LeftDeep
<1>6. \A i : ItemAt(root, o, i) = problem[o[i] + 1]
  BY <1>1 DEF ItemAt, Query
<1>7. LeftDeep(root, o, Len(o)).joins = LeftDeepJoins(problem, o)
  <2>1. ASSUME NEW m
        PROVE  {UNION {ItemAt(root, o, l) : l \in 1 .. m}, ItemAt(root, o, m + 1)}
                 = {UNION {problem[o[l] + 1] : l \in 1 .. m}, problem[o[m + 1] + 1]}
    <3>1. UNION {ItemAt(root, o, l) : l \in 1 .. m} = UNION {problem[o[l] + 1] : l \in 1 .. m}
      BY Zenon, <1>6
    <3> QED  BY Zenon, <1>6, <3>1
  <2> QED  BY Zenon, <1>5, <2>1 DEF LeftDeepJoins
<1> QED  BY Zenon, <1>1, <1>4, <1>7

(***************************************************************************)
(* For every query of inner joins and every join order,                    *)
(* construct_rel_based_on_plan performs the left-deep joins that the       *)
(* search costed, with or without join clauses.                            *)
(***************************************************************************)
THEOREM InnerJoinsLeftDeep == Spec => []LeftDeepIfInner
  BY InnerLeftDeep, Invariance, PTL

(***************************************************************************)
(* For every query of inner joins and every join order,                    *)
(* construct_rel_based_on_plan returns a rel and not NULL:                 *)
(* force_merge_clump is never left with two clumps.                        *)
(***************************************************************************)
THEOREM InnerOrdersBuild == Spec => [](join_info_list = {} => EveryOrderBuilds)
  BY InnerBuilds, Invariance, PTL
=============================================================================
