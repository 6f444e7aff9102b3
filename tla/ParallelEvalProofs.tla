------------------------- MODULE ParallelEvalProofs -------------------------
(***************************************************************************)
(* Proofs about parallel_eval.c, for any join problem, any join order and  *)
(* any set of join clauses.                                                *)
(*                                                                         *)
(* The rel that construct_rel_based_on_plan builds is a tree of legal      *)
(* joins over the items of its problem (JoinTree): its nodes are laminar,  *)
(* and every join is one that join_is_legal lets through.  ConstructTree   *)
(* carries that through the clump lists of try_merge_clump and             *)
(* force_merge_clump, together with the rels that they hold.  ExactlyOne   *)
(* is about such trees alone: the lowest join that reaches both sides of a *)
(* special join performs it, and no other join does.  For inner joins      *)
(* every join is legal and the tree can be computed (ConstructDeep).       *)
(***************************************************************************)
EXTENDS ParallelEval, FiniteSetTheorems, TLAPS

-----------------------------------------------------------------------------
(* Trees of joins. *)

\* The inputs and results of the joins of a rel over the items.
Nodes(rel, items) == {x \in items : x \subseteq rel.relids} \cup {UNION join : join \in rel.joins}

Laminar(nodes) == \A x, y \in nodes : x \subseteq y \/ y \subseteq x \/ x \cap y = {}

\* The join takes two disjoint nodes and is legal.
LegalJoin(root, nodes, join) ==
  \E a, b \in nodes : join = {a, b} /\ a \cap b = {} /\ join_is_legal(root, a, b)

\* The rel is a tree of legal joins over the items.
JoinTree(root, items, rel) ==
  /\ rel.relids \in Nodes(rel, items)
  /\ \A x \in Nodes(rel, items) : x # {} /\ x \subseteq rel.relids
  /\ Laminar(Nodes(rel, items))
  /\ \A join \in rel.joins : LegalJoin(root, Nodes(rel, items), join)
  /\ \A j, k \in rel.joins : UNION j = UNION k => j = k
  /\ \A x \in items : x \subseteq rel.relids \/ x \cap rel.relids = {}

\* The item lies on one side of the special join, outside of it, or holds it all.
Sided(x, sj) ==
  \/ sj.syn_lefthand \cup sj.syn_righthand \subseteq x
  \/ x \subseteq sj.syn_lefthand
  \/ x \subseteq sj.syn_righthand
  \/ x \cap (sj.syn_lefthand \cup sj.syn_righthand) = {}

\* The special join stays on its two sides.
SidesKept(sj) ==
  /\ sj.min_lefthand # {} /\ sj.min_lefthand \subseteq sj.syn_lefthand
  /\ sj.min_righthand # {} /\ sj.min_righthand \subseteq sj.syn_righthand

-----------------------------------------------------------------------------
(* A special join in a tree of legal joins. *)

\* A nonempty set of subsets of a finite set has a minimal one.
LEMMA MinimalSet ==
  ASSUME NEW F, IsFiniteSet(F), NEW C \in SUBSET SUBSET F, C # {}
  PROVE  \E x \in C : \A y \in C : y \subseteq x => y = x
<1>1. IsWellFoundedOn(StrictSubsetOrdering(F), FiniteSubsetsOf(F))
  BY FS_StrictSubsetOrderingWellFounded
<1>2. FiniteSubsetsOf(F) = SUBSET F
  BY FS_FiniteSubsetsOfFinite
<1>3. PICK x \in C : \A y \in C : ~ (<<y, x>> \in StrictSubsetOrdering(F))
  BY Zenon, <1>1, <1>2, WFMin
<1>4. ASSUME NEW y \in C, y \subseteq x, y # x PROVE <<y, x>> \in StrictSubsetOrdering(F)
  BY <1>4 DEF StrictSubsetOrdering
<1>5. \A y \in C : y \subseteq x => y = x
  BY Zenon, <1>3, <1>4
<1> QED  BY <1>5

\* The same for the joins of a rel and their results.
LEMMA LowestJoin ==
  \A F, C : IsFiniteSet(F) /\ C # {} /\ (\A join \in C : UNION join \subseteq F)
             => \E join \in C : \A k \in C : UNION k \subseteq UNION join => UNION k = UNION join
<1> SUFFICES ASSUME NEW F, NEW C, IsFiniteSet(F), C # {}, \A join \in C : UNION join \subseteq F
             PROVE  \E join \in C : \A k \in C : UNION k \subseteq UNION join => UNION k = UNION join
  BY Zenon
<1> DEFINE U == {UNION join : join \in C}
<1>1. U \in SUBSET SUBSET F /\ U # {}
  OBVIOUS
<1> HIDE DEF U
<1>2. PICK x \in U : \A y \in U : y \subseteq x => y = x
  BY <1>1, MinimalSet
<1>3. PICK join \in C : x = UNION join
  BY Zenon DEF U
<1>4. \A k \in C : UNION k \in U
  BY Zenon DEF U
<1> QED  BY Zenon, <1>2, <1>3, <1>4

\* A join concerned with a special join it neither matches nor finds violated
\* before stays out of its left side, and the special join is a left join.
LEMMA LegalUnmatched ==
  ASSUME NEW root, NEW a, NEW b, join_is_legal(root, a, b),
         NEW sj \in root.join_info_list, ConcernedBy(sj, a, b), ~ Matches(sj, a, b), ~ RhsViolatedBefore(sj, a, b)
  PROVE  sj.jointype = "LEFT" /\ (a \cup b) \cap sj.min_lefthand = {}
  BY Zenon DEF join_is_legal, bms_overlap

LEMMA UnionPair == ASSUME NEW a, NEW b PROVE UNION {a, b} = a \cup b
  BY Zenon

\* The joins of a tree.
LEMMA JoinInputs ==
  ASSUME NEW root, NEW items, NEW rel, JoinTree(root, items, rel), NEW join \in rel.joins
  PROVE  \E a, b \in Nodes(rel, items) :
           /\ join = {a, b} /\ a \cap b = {} /\ join_is_legal(root, a, b)
           /\ UNION join = a \cup b /\ a # {} /\ b # {}
           /\ a # UNION join /\ b # UNION join
<1>1. PICK a, b \in Nodes(rel, items) : join = {a, b} /\ a \cap b = {} /\ join_is_legal(root, a, b)
  BY Zenon DEF JoinTree, LegalJoin
<1>2. a # {} /\ b # {}
  BY Zenon DEF JoinTree
<1>3. UNION join = a \cup b
  BY Zenon, <1>1, UnionPair
<1>4. a # a \cup b /\ b # a \cup b
  BY Zenon, <1>1, <1>2
<1> QED  BY Zenon, <1>1, <1>2, <1>3, <1>4

\* A node below the result of a join is below one of its inputs.
LEMMA BelowInput ==
  ASSUME NEW nodes, Laminar(nodes), NEW x \in nodes, NEW a \in nodes, NEW b \in nodes,
         a # {}, b # {}, a \cap b = {}, x \subseteq a \cup b, x # a \cup b
  PROVE  x \subseteq a \/ x \subseteq b
<1>1. x \subseteq a \/ a \subseteq x \/ x \cap a = {}
  BY Zenon DEF Laminar
<1>2. x \subseteq b \/ b \subseteq x \/ x \cap b = {}
  BY Zenon DEF Laminar
<1> QED  BY <1>1, <1>2

\* What the lemmas below assume of a special join, the tree of a rel and the items.
Setting(root, items, rel, sj) ==
  /\ JoinTree(root, items, rel) /\ IsFiniteSet(rel.relids)
  /\ sj \in root.join_info_list /\ SidesKept(sj) /\ sj.syn_lefthand \cap sj.syn_righthand = {}
  /\ \A x \in items : Sided(x, sj) /\ ~ (sj.min_lefthand \cup sj.min_righthand \subseteq x)

\* An item lies on one side of the special join or outside of it.
LEMMA ItemSide ==
  ASSUME NEW root, NEW items, NEW rel, NEW sj, Setting(root, items, rel, sj), NEW x \in items
  PROVE  \/ x \subseteq sj.syn_lefthand
         \/ x \subseteq sj.syn_righthand
         \/ x \cap (sj.syn_lefthand \cup sj.syn_righthand) = {}
<1>1. /\ sj.min_lefthand \subseteq sj.syn_lefthand /\ sj.min_righthand \subseteq sj.syn_righthand
      /\ Sided(x, sj) /\ ~ (sj.min_lefthand \cup sj.min_righthand \subseteq x)
  BY Zenon DEF Setting, SidesKept
<1> QED  BY <1>1 DEF Sided

\* A join whose inputs reach the two sides of a special join separately performs it.
LEMMA SidesMeet ==
  ASSUME NEW root, NEW items, NEW rel, NEW sj, Setting(root, items, rel, sj), sj.jointype # "SEMI",
         NEW d, NEW e, join_is_legal(root, d, e),
         d \cap sj.min_lefthand # {}, d \cap sj.min_righthand = {},
         e \cap sj.min_righthand # {}, e \cap sj.min_lefthand = {}
  PROVE  sj.min_lefthand \cup sj.min_righthand \subseteq d \cup e
<1>1. /\ sj.min_lefthand # {} /\ sj.min_righthand # {} /\ sj.min_lefthand \cap sj.min_righthand = {}
      /\ sj \in root.join_info_list
  BY DEF Setting, SidesKept
<1>2. ConcernedBy(sj, d, e)
  BY <1>1 DEF ConcernedBy, bms_overlap
<1>3. ~ RhsViolatedBefore(sj, d, e)
  BY Zenon DEF RhsViolatedBefore, bms_overlap
<1>4. Matches(sj, d, e)
  <2>1. (d \cup e) \cap sj.min_lefthand # {}
    BY Zenon
  <2> QED  BY Zenon, <1>1, <1>2, <1>3, <2>1, LegalUnmatched
<1>5. CanPerform(sj, d, e)
  BY Zenon, <1>4 DEF Matches, UniqueRhs
<1> QED  BY <1>1, <1>5 DEF CanPerform, Performs

\* The symmetric form.
LEMMA LegalSymmetric ==
  ASSUME NEW root, NEW a, NEW b, join_is_legal(root, a, b)
  PROVE  join_is_legal(root, b, a)
<1>1. ASSUME NEW sj PROVE /\ ConcernedBy(sj, a, b) <=> ConcernedBy(sj, b, a)
                          /\ Matches(sj, a, b) <=> Matches(sj, b, a)
                          /\ RhsViolatedBefore(sj, a, b) <=> RhsViolatedBefore(sj, b, a)
  <2>1. a \cup b = b \cup a /\ {a, b} = {b, a}
    BY Zenon
  <2>2. ConcernedBy(sj, a, b) <=> ConcernedBy(sj, b, a)
    BY <2>1 DEF ConcernedBy
  <2>3. Matches(sj, a, b) <=> Matches(sj, b, a)
    BY Zenon DEF Matches, CanPerform
  <2>4. RhsViolatedBefore(sj, a, b) <=> RhsViolatedBefore(sj, b, a)
    BY Zenon DEF RhsViolatedBefore
  <2> QED  BY Zenon, <2>2, <2>3, <2>4
<1>2. {sj \in root.join_info_list : ConcernedBy(sj, a, b)} = {sj \in root.join_info_list : ConcernedBy(sj, b, a)}
  BY Zenon, <1>1
<1> DEFINE C == {sj \in root.join_info_list : ConcernedBy(sj, a, b)}
<1>3. {sj \in C : Matches(sj, a, b)} = {sj \in C : Matches(sj, b, a)}
  BY Zenon, <1>1
<1> DEFINE M == {sj \in C : Matches(sj, a, b)}
<1>4. {sj \in C \ M : ~ RhsViolatedBefore(sj, a, b)} = {sj \in C \ M : ~ RhsViolatedBefore(sj, b, a)}
  BY Zenon, <1>1
<1>5. a \cup b = b \cup a
  BY Zenon
<1> QED  BY Zenon, <1>2, <1>3, <1>4, <1>5 DEF join_is_legal

\* No node of the tree reaches both sides of a special join, other than a SEMI join,
\* without holding all that the special join waits for.
LEMMA NotInPieces ==
  ASSUME NEW root, NEW items, NEW rel, NEW sj, Setting(root, items, rel, sj), sj.jointype # "SEMI",
         NEW c \in Nodes(rel, items), c \cap sj.min_lefthand # {}, c \cap sj.min_righthand # {}
  PROVE  sj.min_lefthand \cup sj.min_righthand \subseteq c
<1> DEFINE Both(x) == x \cap sj.min_lefthand # {} /\ x \cap sj.min_righthand # {}
           D == {k \in rel.joins : UNION k \subseteq c /\ Both(UNION k)}
<1>1. /\ JoinTree(root, items, rel) /\ IsFiniteSet(rel.relids)
      /\ sj.min_lefthand # {} /\ sj.min_righthand # {}
      /\ sj.min_lefthand \subseteq sj.syn_lefthand /\ sj.min_righthand \subseteq sj.syn_righthand
      /\ sj.syn_lefthand \cap sj.syn_righthand = {}
  BY Zenon DEF Setting, SidesKept
<1>2. ASSUME NEW x \in Nodes(rel, items), Both(x), x \subseteq c PROVE \E k \in D : x = UNION k
  <2>1. CASE x \in items
    <3>1. \/ x \subseteq sj.syn_lefthand
          \/ x \subseteq sj.syn_righthand
          \/ x \cap (sj.syn_lefthand \cup sj.syn_righthand) = {}
      BY Zenon, <2>1, ItemSide
    <3> QED  BY <1>1, <1>2, <3>1
  <2>2. CASE \E join \in rel.joins : x = UNION join
    BY Zenon, <1>2, <2>2
  <2>3. x \in items \/ \E join \in rel.joins : x = UNION join
    BY Zenon DEF Nodes
  <2> QED  BY Zenon, <2>1, <2>2, <2>3
<1>3. D # {}
  BY Zenon, <1>2
<1>4. \A k \in D : k \in rel.joins /\ UNION k \subseteq rel.relids
  BY Zenon, <1>1 DEF JoinTree, Nodes
<1>5. PICK k \in D : \A j \in D : UNION j \subseteq UNION k => UNION j = UNION k
  <2> HIDE DEF D
  <2>1. \A join \in D : UNION join \subseteq rel.relids
    BY Zenon, <1>4
  <2>2. IsFiniteSet(rel.relids)
    BY Zenon, <1>1
  <2> QED  BY Zenon, <1>3, <2>1, <2>2, LowestJoin
<1>6. PICK d, e \in Nodes(rel, items) :
        /\ join_is_legal(root, d, e) /\ UNION k = d \cup e
        /\ d # UNION k /\ e # UNION k
  <2> HIDE DEF D
  <2>1. k \in rel.joins /\ JoinTree(root, items, rel)
    BY Zenon, <1>1, <1>4
  <2>2. \E a, b \in Nodes(rel, items) :
          /\ k = {a, b} /\ a \cap b = {} /\ join_is_legal(root, a, b)
          /\ UNION k = a \cup b /\ a # {} /\ b # {}
          /\ a # UNION k /\ b # UNION k
    BY <2>1, JoinInputs
  <2> QED  BY Zenon, <2>2
<1>7. ~ Both(d) /\ ~ Both(e)
  <2>1. d \subseteq c /\ e \subseteq c /\ d \subseteq UNION k /\ e \subseteq UNION k
    BY Zenon, <1>6
  <2> QED  BY Zenon, <1>2, <1>5, <1>6, <2>1
<1>8. Both(d \cup e) /\ d \cup e \subseteq c
  BY Zenon, <1>6
<1>9. join_is_legal(root, e, d)
  BY Zenon, <1>6, LegalSymmetric
<1>10. sj.min_lefthand \cup sj.min_righthand \subseteq d \cup e
  <2>1. \/ d \cap sj.min_lefthand # {} /\ d \cap sj.min_righthand = {} /\ e \cap sj.min_righthand # {} /\ e \cap sj.min_lefthand = {}
        \/ e \cap sj.min_lefthand # {} /\ e \cap sj.min_righthand = {} /\ d \cap sj.min_righthand # {} /\ d \cap sj.min_lefthand = {}
    BY <1>7, <1>8
  <2>2. d \cup e = e \cup d
    BY Zenon
  <2> HIDE DEF D
  <2>3. CASE d \cap sj.min_lefthand # {} /\ d \cap sj.min_righthand = {} /\ e \cap sj.min_righthand # {} /\ e \cap sj.min_lefthand = {}
    BY Zenon, <1>6, <2>3, SidesMeet
  <2>4. CASE e \cap sj.min_lefthand # {} /\ e \cap sj.min_righthand = {} /\ d \cap sj.min_righthand # {} /\ d \cap sj.min_lefthand = {}
    <3>1. sj.min_lefthand \cup sj.min_righthand \subseteq e \cup d
      BY Zenon, <1>9, <2>4, SidesMeet
    <3> QED  BY Zenon, <2>2, <3>1
  <2> QED  BY Zenon, <2>1, <2>3, <2>4
<1> QED  BY Zenon, <1>8, <1>10

\* The result of the tree is not an item, if a special join is not within one.
LEMMA TopJoin ==
  ASSUME NEW root, NEW items, NEW rel, NEW sj, Setting(root, items, rel, sj),
         NEW x \in Nodes(rel, items), sj.min_lefthand \cup sj.min_righthand \subseteq x
  PROVE  \E join \in rel.joins : x = UNION join
<1>1. x \notin items
  BY Zenon DEF Setting
<1> QED  BY Zenon, <1>1 DEF Nodes

\* An outer join or antijoin is performed where its two sides meet.
LEMMA OuterPerformed ==
  ASSUME NEW root, NEW items, NEW rel, NEW sj, Setting(root, items, rel, sj), sj.jointype # "SEMI",
         sj.min_lefthand \cup sj.min_righthand \subseteq rel.relids
  PROVE  \E join \in rel.joins : PerformedAt(sj, join)
<1> DEFINE both == sj.min_lefthand \cup sj.min_righthand
           D == {k \in rel.joins : both \subseteq UNION k}
<1>1. /\ JoinTree(root, items, rel) /\ IsFiniteSet(rel.relids)
      /\ sj.min_lefthand # {} /\ sj.min_righthand # {}
      /\ sj.min_lefthand \subseteq sj.syn_lefthand /\ sj.min_righthand \subseteq sj.syn_righthand
      /\ sj.syn_lefthand \cap sj.syn_righthand = {}
  BY Zenon DEF Setting, SidesKept
<1>2. ASSUME NEW x \in Nodes(rel, items), both \subseteq x PROVE \E k \in D : x = UNION k
  <2>1. \E join \in rel.joins : x = UNION join
    BY <1>2, TopJoin
  <2> QED  BY Zenon, <1>2, <2>1
<1>3. D # {}
  <2>1. rel.relids \in Nodes(rel, items)
    BY Zenon, <1>1 DEF JoinTree
  <2> QED  BY Zenon, <1>2, <2>1
<1>4. \A k \in D : k \in rel.joins /\ UNION k \subseteq rel.relids /\ both \subseteq UNION k
  <2>0. \A k \in rel.joins : UNION k \in Nodes(rel, items)
    BY Zenon DEF Nodes
  <2>1. \A k \in rel.joins : UNION k \subseteq rel.relids
    BY Zenon, <1>1, <2>0 DEF JoinTree
  <2> QED  BY Zenon, <2>1
<1> HIDE DEF D
<1>5. PICK k \in D : \A j \in D : UNION j \subseteq UNION k => UNION j = UNION k
  <2>1. \A join \in D : UNION join \subseteq rel.relids
    BY Zenon, <1>4
  <2>2. IsFiniteSet(rel.relids)
    BY Zenon, <1>1
  <2> QED  BY Zenon, <1>3, <2>1, <2>2, LowestJoin
<1>6. PICK a, b \in Nodes(rel, items) :
        /\ k = {a, b} /\ UNION k = a \cup b /\ a # UNION k /\ b # UNION k
  <2>1. k \in rel.joins /\ JoinTree(root, items, rel)
    BY Zenon, <1>1, <1>4
  <2>2. \E a, b \in Nodes(rel, items) :
          /\ k = {a, b} /\ a \cap b = {} /\ join_is_legal(root, a, b)
          /\ UNION k = a \cup b /\ a # {} /\ b # {}
          /\ a # UNION k /\ b # UNION k
    BY <2>1, JoinInputs
  <2> QED  BY Zenon, <2>2
<1>7. ~ (both \subseteq a) /\ ~ (both \subseteq b)
  <2>1. a \subseteq UNION k /\ b \subseteq UNION k
    BY Zenon, <1>6
  <2> QED  BY Zenon, <1>2, <1>5, <1>6, <2>1
<1>8. ASSUME NEW c \in Nodes(rel, items), ~ (both \subseteq c)
      PROVE  c \cap sj.min_lefthand = {} \/ c \cap sj.min_righthand = {}
  BY <1>8, NotInPieces
<1>9. /\ a \cap sj.min_lefthand = {} \/ a \cap sj.min_righthand = {}
      /\ b \cap sj.min_lefthand = {} \/ b \cap sj.min_righthand = {}
      /\ both \subseteq a \cup b
  BY Zenon, <1>4, <1>6, <1>7, <1>8
<1>10. CanPerform(sj, a, b)
  BY <1>1, <1>9 DEF CanPerform, Performs
<1>11. ConcernedBy(sj, a, b)
  BY <1>1, <1>7, <1>9 DEF ConcernedBy, bms_overlap
<1>12. PerformedAt(sj, k)
  BY Zenon, <1>6, <1>10, <1>11 DEF PerformedAt, Matches
<1> QED  BY Zenon, <1>4, <1>12

\* A SEMI join is performed where its right side first meets anything else.
LEMMA SemiPerformed ==
  ASSUME NEW root, NEW items, NEW rel, NEW sj, Setting(root, items, rel, sj), sj.jointype = "SEMI",
         sj.min_lefthand \cup sj.min_righthand \subseteq rel.relids
  PROVE  \E join \in rel.joins : PerformedAt(sj, join)
<1> DEFINE Mixed(x) == x \cap sj.min_righthand # {} /\ ~ (x \subseteq sj.syn_righthand)
           D == {k \in rel.joins : Mixed(UNION k)}
<1>1. /\ JoinTree(root, items, rel) /\ IsFiniteSet(rel.relids) /\ sj \in root.join_info_list
      /\ sj.min_lefthand # {} /\ sj.min_righthand # {}
      /\ sj.min_lefthand \subseteq sj.syn_lefthand /\ sj.min_righthand \subseteq sj.syn_righthand
      /\ sj.syn_lefthand \cap sj.syn_righthand = {}
  BY Zenon DEF Setting, SidesKept
<1>2. ASSUME NEW x \in Nodes(rel, items), Mixed(x) PROVE \E k \in D : x = UNION k
  <2>1. CASE x \in items
    <3>1. \/ x \subseteq sj.syn_lefthand
          \/ x \subseteq sj.syn_righthand
          \/ x \cap (sj.syn_lefthand \cup sj.syn_righthand) = {}
      BY Zenon, <2>1, ItemSide
    <3> QED  BY <1>1, <1>2, <3>1
  <2>2. CASE \E join \in rel.joins : x = UNION join
    BY Zenon, <1>2, <2>2
  <2>3. x \in items \/ \E join \in rel.joins : x = UNION join
    BY Zenon DEF Nodes
  <2> QED  BY Zenon, <2>1, <2>2, <2>3
<1>3. D # {}
  <2>1. rel.relids \in Nodes(rel, items)
    BY Zenon, <1>1 DEF JoinTree
  <2>2. Mixed(rel.relids)
    BY <1>1
  <2> QED  BY Zenon, <1>2, <2>1, <2>2
<1>4. \A k \in D : k \in rel.joins /\ UNION k \subseteq rel.relids /\ Mixed(UNION k)
  BY Zenon, <1>1 DEF JoinTree, Nodes
<1> HIDE DEF D
<1>5. PICK k \in D : \A j \in D : UNION j \subseteq UNION k => UNION j = UNION k
  <2>1. \A join \in D : UNION join \subseteq rel.relids
    BY Zenon, <1>4
  <2>2. IsFiniteSet(rel.relids)
    BY Zenon, <1>1
  <2> QED  BY Zenon, <1>3, <2>1, <2>2, LowestJoin
<1>6. PICK a, b \in Nodes(rel, items) :
        /\ k = {a, b} /\ a \cap b = {} /\ join_is_legal(root, a, b)
        /\ UNION k = a \cup b /\ a # {} /\ b # {}
        /\ a # UNION k /\ b # UNION k
  <2>1. k \in rel.joins /\ JoinTree(root, items, rel)
    BY Zenon, <1>1, <1>4
  <2> QED  BY <2>1, JoinInputs
<1>7. ~ Mixed(a) /\ ~ Mixed(b)
  <2>1. a \subseteq UNION k /\ b \subseteq UNION k
    BY Zenon, <1>6
  <2> QED  BY Zenon, <1>2, <1>5, <1>6, <2>1
<1>8. Mixed(a \cup b)
  BY Zenon, <1>4, <1>6
\* One input is within the right side, the other does not reach it.
<1>9. \/ a \cap sj.min_righthand = {} /\ b \subseteq sj.syn_righthand /\ b \cap sj.min_righthand # {}
      \/ b \cap sj.min_righthand = {} /\ a \subseteq sj.syn_righthand /\ a \cap sj.min_righthand # {}
  BY <1>7, <1>8
<1>10. ConcernedBy(sj, a, b)
  <2>1. bms_overlap(sj.min_righthand, a \cup b) /\ ~ (a \cup b \subseteq sj.min_righthand)
    BY <1>6, <1>9 DEF bms_overlap
  <2>2. ASSUME NEW c \in {a, b}
        PROVE  /\ ~ (sj.min_lefthand \cup sj.min_righthand \subseteq c)
               /\ ~ (sj.syn_righthand \subseteq c /\ sj.syn_righthand # c)
    <3>1. c \cap sj.min_righthand = {} \/ c \subseteq sj.syn_righthand
      BY Zenon, <1>9, <2>2
    <3> QED  BY <1>1, <3>1
  <2> QED  BY Zenon, <2>1, <2>2 DEF ConcernedBy
<1>11. ~ RhsViolatedBefore(sj, a, b)
  BY Zenon, <1>9 DEF RhsViolatedBefore, bms_overlap
<1>12. Matches(sj, a, b)
  <2> SUFFICES ASSUME ~ Matches(sj, a, b) PROVE FALSE
    BY Zenon
  <2>1. sj.jointype = "LEFT"
    BY <1>1, <1>6, <1>10, <1>11, LegalUnmatched
  <2> QED  BY <2>1
<1>13. PerformedAt(sj, k)
  BY Zenon, <1>6, <1>10, <1>12 DEF PerformedAt
<1> QED  BY Zenon, <1>4, <1>13

\* A join that performs a special join holds its right side, and what it leaves no
\* join above it to be concerned about.
LEMMA PerformedHolds ==
  ASSUME NEW root, NEW items, NEW rel, NEW sj, Setting(root, items, rel, sj),
         NEW join \in rel.joins, PerformedAt(sj, join)
  PROVE  /\ sj.min_righthand \subseteq UNION join
         /\ \/ sj.min_lefthand \cup sj.min_righthand \subseteq UNION join
            \/ sj.jointype = "SEMI" /\ sj.syn_righthand \subseteq UNION join /\ sj.syn_righthand # UNION join
<1>1. PICK a, b \in join : join = {a, b} /\ ConcernedBy(sj, a, b) /\ Matches(sj, a, b)
  BY Zenon DEF PerformedAt
<1>2. UNION join = a \cup b
  BY Zenon, <1>1, UnionPair
<1>3. PICK c, d \in Nodes(rel, items) : join = {c, d} /\ c # UNION join /\ d # UNION join
  <2>1. JoinTree(root, items, rel)
    BY Zenon DEF Setting
  <2>2. \E c, d \in Nodes(rel, items) :
          /\ join = {c, d} /\ c \cap d = {} /\ join_is_legal(root, c, d)
          /\ UNION join = c \cup d /\ c # {} /\ d # {}
          /\ c # UNION join /\ d # UNION join
    BY <2>1, JoinInputs
  <2> QED  BY Zenon, <2>2
<1>4. a # UNION join /\ b # UNION join
  BY Zenon, <1>1, <1>3
<1>5. sj.min_righthand \subseteq sj.syn_righthand
  BY Zenon DEF Setting, SidesKept
<1>6. CASE CanPerform(sj, a, b)
  BY <1>2, <1>6 DEF CanPerform, Performs
<1>7. CASE UniqueRhs(sj, a) \/ UniqueRhs(sj, b)
  BY Zenon, <1>2, <1>4, <1>5, <1>7 DEF UniqueRhs
<1> QED  BY Zenon, <1>1, <1>6, <1>7 DEF Matches

\* No special join is performed twice.
LEMMA PerformedOnce ==
  ASSUME NEW root, NEW items, NEW rel, NEW sj, Setting(root, items, rel, sj),
         NEW j \in rel.joins, NEW k \in rel.joins, PerformedAt(sj, j), PerformedAt(sj, k),
         UNION j \subseteq UNION k
  PROVE  j = k
<1>1. JoinTree(root, items, rel)
  BY Zenon DEF Setting
<1>2. UNION j = UNION k => j = k
  BY Zenon, <1>1 DEF JoinTree
<1> SUFFICES ASSUME UNION j # UNION k PROVE FALSE
  BY Zenon, <1>2
<1>3. PICK a, b \in k : k = {a, b} /\ ConcernedBy(sj, a, b)
  BY Zenon DEF PerformedAt
<1>4. PICK c, d \in Nodes(rel, items) : k = {c, d} /\ c \cap d = {} /\ c # {} /\ d # {} /\ UNION k = c \cup d
  <2>1. \E c, d \in Nodes(rel, items) :
          /\ k = {c, d} /\ c \cap d = {} /\ join_is_legal(root, c, d)
          /\ UNION k = c \cup d /\ c # {} /\ d # {}
          /\ c # UNION k /\ d # UNION k
    BY <1>1, JoinInputs
  <2> QED  BY Zenon, <2>1
<1>5. UNION j \subseteq c \/ UNION j \subseteq d
  <2>1. UNION j \in Nodes(rel, items) /\ Laminar(Nodes(rel, items))
    BY Zenon, <1>1 DEF JoinTree, Nodes
  <2>2. UNION j \subseteq c \cup d /\ UNION j # c \cup d
    BY Zenon, <1>4
  <2>3. PICK x : x = UNION j
    BY Zenon
  <2> QED  BY <1>4, <2>1, <2>2, <2>3, BelowInput
<1>6. PICK e \in {a, b} : UNION j \subseteq e
  <2>1. c \in {a, b} /\ d \in {a, b}
    BY Zenon, <1>3, <1>4
  <2> QED  BY Zenon, <1>5, <2>1
<1>7. \/ sj.min_lefthand \cup sj.min_righthand \subseteq UNION j
      \/ sj.jointype = "SEMI" /\ sj.syn_righthand \subseteq UNION j /\ sj.syn_righthand # UNION j
  BY PerformedHolds
<1>8. \/ sj.min_lefthand \cup sj.min_righthand \subseteq e
      \/ sj.jointype = "SEMI" /\ sj.syn_righthand \subseteq e /\ sj.syn_righthand # e
  BY Zenon, <1>6, <1>7
<1> QED  BY Zenon, <1>3, <1>8 DEF ConcernedBy

\* Every special join that lies within the rel, and not within an item, is performed
\* by exactly one of its joins.
LEMMA ExactlyOne ==
  ASSUME NEW root, NEW items, NEW rel, NEW sj, Setting(root, items, rel, sj),
         sj.min_lefthand \cup sj.min_righthand \subseteq rel.relids
  PROVE  Cardinality({join \in rel.joins : PerformedAt(sj, join)}) = 1
<1>1. PICK j \in rel.joins : PerformedAt(sj, j)
  BY OuterPerformed, SemiPerformed
<1>2. ASSUME NEW k \in rel.joins, PerformedAt(sj, k) PROVE k = j
  <2>1. sj.min_righthand \subseteq UNION j /\ sj.min_righthand \subseteq UNION k
    BY <1>1, <1>2, PerformedHolds
  <2>2. JoinTree(root, items, rel) /\ sj.min_righthand # {}
    BY Zenon DEF Setting, SidesKept
  <2>3. UNION j \in Nodes(rel, items) /\ UNION k \in Nodes(rel, items) /\ Laminar(Nodes(rel, items))
    BY Zenon, <2>2 DEF JoinTree, Nodes
  <2>4. UNION j \subseteq UNION k \/ UNION k \subseteq UNION j
    BY Zenon, <2>1, <2>2, <2>3 DEF Laminar
  <2>5. CASE UNION j \subseteq UNION k
    BY <1>1, <1>2, <2>5, PerformedOnce
  <2>6. CASE UNION k \subseteq UNION j
    BY <1>1, <1>2, <2>6, PerformedOnce
  <2> QED  BY Zenon, <2>4, <2>5, <2>6
<1>3. {join \in rel.joins : PerformedAt(sj, join)} = {j}
  BY Zenon, <1>1, <1>2
<1> QED  BY Zenon, <1>3, FS_Singleton

-----------------------------------------------------------------------------
(* Trees are joined. *)

\* The items of a join problem.
ItemsApart(items) ==
  /\ \A x \in items : x # {}
  /\ \A x, y \in items : x # y => x \cap y = {}

\* A single item is a tree.
LEMMA LeafTree ==
  ASSUME NEW root, NEW items, ItemsApart(items), NEW x \in items, NEW rel, rel = BaseRel(x)
  PROVE  JoinTree(root, items, rel)
<1>1. rel.relids = x /\ rel.joins = {}
  BY DEF BaseRel
<1>2. Nodes(rel, items) = {x}
  <2>1. \A y \in items : y \subseteq x => y = x
    BY DEF ItemsApart
  <2> QED  BY Zenon, <1>1, <2>1 DEF Nodes
<1>3. x # {}
  BY Zenon DEF ItemsApart
<1>4. \A y \in items : y \subseteq x \/ y \cap x = {}
  BY Zenon DEF ItemsApart
<1> QED  BY Zenon, <1>1, <1>2, <1>3, <1>4 DEF JoinTree, Laminar

\* A legal join of two trees that share no rels is a tree.
LEMMA TreesJoin ==
  ASSUME NEW root, NEW items, ItemsApart(items), NEW rel1, NEW rel2,
         JoinTree(root, items, rel1), JoinTree(root, items, rel2), rel1.relids \cap rel2.relids = {},
         join_is_legal(root, rel1.relids, rel2.relids),
         NEW rel, rel.relids = rel1.relids \cup rel2.relids,
         rel.joins = rel1.joins \cup rel2.joins \cup {{rel1.relids, rel2.relids}}
  PROVE  JoinTree(root, items, rel)
<1>1. PICK N1, N2, N : N1 = Nodes(rel1, items) /\ N2 = Nodes(rel2, items) /\ N = Nodes(rel, items)
  BY Zenon
<1>2. /\ rel1.relids \in N1 /\ rel2.relids \in N2
      /\ \A x \in N1 : x # {} /\ x \subseteq rel1.relids
      /\ \A x \in N2 : x # {} /\ x \subseteq rel2.relids
      /\ Laminar(N1) /\ Laminar(N2)
      /\ \A join \in rel1.joins : LegalJoin(root, N1, join)
      /\ \A join \in rel2.joins : LegalJoin(root, N2, join)
  BY Zenon, <1>1 DEF JoinTree
<1>3. \A x \in items : /\ x \subseteq rel1.relids \/ x \cap rel1.relids = {}
                       /\ x \subseteq rel2.relids \/ x \cap rel2.relids = {}
  BY Zenon DEF JoinTree
<1>4. UNION {rel1.relids, rel2.relids} = rel.relids
  BY Zenon, UnionPair
<1>5. N = N1 \cup N2 \cup {rel.relids}
  <2>1. ASSUME NEW x \in N PROVE x \in N1 \cup N2 \cup {rel.relids}
    <3>1. CASE x \in items /\ x \subseteq rel.relids
      <4>1. x # {}
        BY Zenon, <3>1 DEF ItemsApart
      <4>2. x \subseteq rel1.relids \/ x \subseteq rel2.relids
        BY <1>3, <3>1, <4>1
      <4> QED  BY Zenon, <1>1, <3>1, <4>2 DEF Nodes
    <3>2. CASE \E join \in rel.joins : x = UNION join
      <4>1. PICK join \in rel.joins : x = UNION join
        BY Zenon, <3>2
      <4>2. join \in rel1.joins \/ join \in rel2.joins \/ join = {rel1.relids, rel2.relids}
        BY Zenon
      <4> QED  BY Zenon, <1>1, <1>4, <4>1, <4>2 DEF Nodes
    <3> QED  BY Zenon, <1>1, <3>1, <3>2 DEF Nodes
  <2>2. N1 \subseteq N
    BY Zenon, <1>1 DEF Nodes
  <2>3. N2 \subseteq N
    BY Zenon, <1>1 DEF Nodes
  <2>4. rel.relids \in N
    <3>1. {rel1.relids, rel2.relids} \in rel.joins
      BY Zenon
    <3> QED  BY Zenon, <1>1, <1>4, <3>1 DEF Nodes
  <2> QED  BY Zenon, <2>1, <2>2, <2>3, <2>4
<1>6. \A x \in N : x # {} /\ x \subseteq rel.relids
  BY <1>2, <1>5
<1>7. Laminar(N)
  <2> SUFFICES ASSUME NEW x \in N, NEW y \in N PROVE x \subseteq y \/ y \subseteq x \/ x \cap y = {}
    BY Zenon DEF Laminar
  <2>1. CASE x \in N1 /\ y \in N1
    BY Zenon, <1>2, <2>1 DEF Laminar
  <2>2. CASE x \in N2 /\ y \in N2
    BY Zenon, <1>2, <2>2 DEF Laminar
  <2>3. CASE x \in N1 /\ y \in N2
    BY Zenon, <1>2, <2>3
  <2>4. CASE x \in N2 /\ y \in N1
    BY Zenon, <1>2, <2>4
  <2>5. CASE x = rel.relids \/ y = rel.relids
    <3>1. x \subseteq rel.relids /\ y \subseteq rel.relids
      BY Zenon, <1>6
    <3> QED  BY Zenon, <2>5, <3>1
  <2> QED  BY Zenon, <1>5, <2>1, <2>2, <2>3, <2>4, <2>5
<1>8. ASSUME NEW join \in rel.joins PROVE LegalJoin(root, N, join)
  <2>1. CASE join \in rel1.joins
    BY Zenon, <1>2, <1>5, <2>1 DEF LegalJoin
  <2>2. CASE join \in rel2.joins
    BY Zenon, <1>2, <1>5, <2>2 DEF LegalJoin
  <2>3. CASE join = {rel1.relids, rel2.relids}
    BY Zenon, <1>2, <1>5, <2>3 DEF LegalJoin
  <2> QED  BY Zenon, <2>1, <2>2, <2>3
<1>9. ASSUME NEW j \in rel.joins, NEW k \in rel.joins, UNION j = UNION k PROVE j = k
  <2>1. \A i \in rel1.joins : UNION i # {} /\ UNION i \subseteq rel1.relids
    <3>1. \A i \in rel1.joins : UNION i \in N1
      BY Zenon, <1>1 DEF Nodes
    <3> QED  BY Zenon, <1>2, <3>1
  <2>2. \A i \in rel2.joins : UNION i # {} /\ UNION i \subseteq rel2.relids
    <3>1. \A i \in rel2.joins : UNION i \in N2
      BY Zenon, <1>1 DEF Nodes
    <3> QED  BY Zenon, <1>2, <3>1
  <2>3. rel1.relids # {} /\ rel2.relids # {}
    BY Zenon, <1>2
  <2>4. CASE j \in rel1.joins /\ k \in rel1.joins
    BY Zenon, <1>9, <2>4 DEF JoinTree
  <2>5. CASE j \in rel2.joins /\ k \in rel2.joins
    BY Zenon, <1>9, <2>5 DEF JoinTree
  <2>6. ~ (j \in rel1.joins /\ k \in rel2.joins) /\ ~ (j \in rel2.joins /\ k \in rel1.joins)
    BY Zenon, <1>9, <2>1, <2>2
  <2>7. \A i \in rel1.joins \cup rel2.joins : UNION i # rel.relids
    BY <2>1, <2>2, <2>3
  <2>8. (j = {rel1.relids, rel2.relids} => UNION j = rel.relids) /\ (k = {rel1.relids, rel2.relids} => UNION k = rel.relids)
    BY Zenon, <1>4
  <2>9. CASE j = {rel1.relids, rel2.relids} \/ k = {rel1.relids, rel2.relids}
    <3>1. UNION j = rel.relids /\ UNION k = rel.relids
      BY Zenon, <1>9, <2>8, <2>9
    <3>2. j \notin rel1.joins \cup rel2.joins /\ k \notin rel1.joins \cup rel2.joins
      BY Zenon, <2>7, <3>1
    <3>3. j \in rel1.joins \cup rel2.joins \cup {{rel1.relids, rel2.relids}} /\ k \in rel1.joins \cup rel2.joins \cup {{rel1.relids, rel2.relids}}
      BY Zenon
    <3> QED  BY Zenon, <3>2, <3>3
  <2> QED  BY Zenon, <2>4, <2>5, <2>6, <2>9
<1>10. \A x \in items : x \subseteq rel.relids \/ x \cap rel.relids = {}
  BY <1>3
<1>11. rel.relids \in N
  BY Zenon, <1>5
<1> QED  BY Zenon, <1>1, <1>6, <1>7, <1>8, <1>9, <1>10, <1>11 DEF JoinTree

-----------------------------------------------------------------------------
(* The list operations on clumps. *)

\* Concatenation.
LEMMA Concat ==
  ASSUME NEW S, NEW s \in Seq(S), NEW t \in Seq(S)
  PROVE  /\ s \o t \in Seq(S) /\ Len(s \o t) = Len(s) + Len(t)
         /\ \A j \in 1 .. Len(s) + Len(t) : (s \o t)[j] = IF j <= Len(s) THEN s[j] ELSE t[j - Len(s)]
  OBVIOUS

\* An element is taken out of a sequence.
Removed(seq, pos, r) ==
  Len(r) = Len(seq) - 1 /\ \A j \in 1 .. Len(seq) - 1 : r[j] = seq[IF j < pos THEN j ELSE j + 1]

LEMMA RemoveFacts ==
  ASSUME NEW S, NEW seq \in Seq(S), NEW pos \in 1 .. Len(seq), NEW r,
         r = SubSeq(seq, 1, pos - 1) \o SubSeq(seq, pos + 1, Len(seq))
  PROVE  r \in Seq(S) /\ Removed(seq, pos, r)
<1>0. Len(seq) \in Nat /\ pos \in Nat /\ pos >= 1
  OBVIOUS
<1>1. PICK a : a = SubSeq(seq, 1, pos - 1)
  BY Zenon
<1>2. PICK c : c = SubSeq(seq, pos + 1, Len(seq))
  BY Zenon
<1>3. a \in Seq(S) /\ Len(a) = pos - 1 /\ \A j \in 1 .. pos - 1 : a[j] = seq[j]
  BY <1>0, <1>1
<1>4. c \in Seq(S) /\ Len(c) = Len(seq) - pos /\ \A j \in 1 .. Len(seq) - pos : c[j] = seq[pos + j]
  BY <1>0, <1>2
<1>5. PICK e : e = a \o c
  BY Zenon
<1>6. /\ e \in Seq(S) /\ Len(e) = Len(a) + Len(c)
      /\ \A j \in 1 .. Len(a) + Len(c) : e[j] = IF j <= Len(a) THEN a[j] ELSE c[j - Len(a)]
  <2>1. e \in Seq(S)
    BY Zenon, <1>3, <1>4, <1>5, Concat
  <2>2. /\ Len(e) = Len(a) + Len(c)
        /\ \A j \in 1 .. Len(a) + Len(c) : e[j] = IF j <= Len(a) THEN a[j] ELSE c[j - Len(a)]
    BY Zenon, <1>3, <1>4, <1>5, Concat
  <2> QED  BY Zenon, <2>1, <2>2
<1>7. Len(a) + Len(c) = Len(seq) - 1
  BY <1>0, <1>3, <1>4
<1>8. ASSUME NEW j \in 1 .. Len(seq) - 1 PROVE e[j] = seq[IF j < pos THEN j ELSE j + 1]
  <2>1. e[j] = IF j <= Len(a) THEN a[j] ELSE c[j - Len(a)]
    BY Zenon, <1>6, <1>7
  <2>2. CASE j < pos
    <3>1. j <= Len(a) /\ j \in 1 .. pos - 1
      BY <1>0, <1>3, <2>2
    <3> QED  BY Zenon, <1>3, <2>1, <2>2, <3>1
  <2>3. CASE ~ (j < pos)
    <3>1. ~ (j <= Len(a)) /\ j - Len(a) \in 1 .. Len(seq) - pos /\ pos + (j - Len(a)) = j + 1
      BY <1>0, <1>3, <2>3
    <3> QED  BY Zenon, <1>4, <2>1, <2>3, <3>1
  <2> QED  BY Zenon, <2>2, <2>3
<1>9. r = e
  BY Zenon, <1>1, <1>2, <1>5
<1> QED  BY Zenon, <1>6, <1>7, <1>8, <1>9 DEF Removed

\* An element is put into a sequence.
Inserted(seq, pos, x, r) ==
  /\ Len(r) = Len(seq) + 1
  /\ \A j \in 1 .. Len(seq) + 1 : r[j] = IF j = pos THEN x ELSE seq[IF j < pos THEN j ELSE j - 1]

LEMMA InsertFacts ==
  ASSUME NEW S, NEW seq \in Seq(S), NEW pos \in 1 .. Len(seq) + 1, NEW x \in S, NEW r,
         r = SubSeq(seq, 1, pos - 1) \o <<x>> \o SubSeq(seq, pos, Len(seq))
  PROVE  r \in Seq(S) /\ Inserted(seq, pos, x, r)
<1>0. Len(seq) \in Nat /\ pos \in Nat /\ pos >= 1
  OBVIOUS
<1>1. PICK a : a = SubSeq(seq, 1, pos - 1)
  BY Zenon
<1>2. PICK b : b = <<x>>
  BY Zenon
<1>3. PICK c : c = SubSeq(seq, pos, Len(seq))
  BY Zenon
<1>4. a \in Seq(S) /\ Len(a) = pos - 1 /\ \A j \in 1 .. pos - 1 : a[j] = seq[j]
  BY <1>0, <1>1
<1>5. b \in Seq(S) /\ Len(b) = 1 /\ b[1] = x
  BY <1>2
<1>6. c \in Seq(S) /\ Len(c) = Len(seq) - pos + 1 /\ \A j \in 1 .. Len(seq) - pos + 1 : c[j] = seq[pos + j - 1]
  BY <1>0, <1>3
<1>7. PICK d : d = a \o b
  BY Zenon
<1>8. /\ d \in Seq(S) /\ Len(d) = Len(a) + Len(b)
      /\ \A j \in 1 .. Len(a) + Len(b) : d[j] = IF j <= Len(a) THEN a[j] ELSE b[j - Len(a)]
  BY Zenon, <1>4, <1>5, <1>7, Concat
<1>9. Len(d) = pos /\ d[pos] = x /\ \A j \in 1 .. pos - 1 : d[j] = seq[j]
  <2>1. Len(d) = pos
    BY <1>0, <1>4, <1>5, <1>8
  <2>2. d[pos] = x
    BY <1>0, <1>4, <1>5, <1>8
  <2>3. ASSUME NEW j \in 1 .. pos - 1 PROVE d[j] = seq[j]
    <3>1. j \in 1 .. Len(a) + Len(b) /\ j <= Len(a)
      BY <1>0, <1>4, <1>5
    <3> QED  BY Zenon, <1>4, <1>8, <3>1
  <2> QED  BY Zenon, <2>1, <2>2, <2>3
<1>10. PICK e : e = d \o c
  BY Zenon
<1>11. /\ e \in Seq(S) /\ Len(e) = Len(d) + Len(c)
       /\ \A j \in 1 .. Len(d) + Len(c) : e[j] = IF j <= Len(d) THEN d[j] ELSE c[j - Len(d)]
  <2>0. d \in Seq(S) /\ c \in Seq(S)
    BY Zenon, <1>6, <1>8
  <2>1. e \in Seq(S)
    BY Zenon, <2>0, <1>10, Concat
  <2>2. /\ Len(e) = Len(d) + Len(c)
        /\ \A j \in 1 .. Len(d) + Len(c) : e[j] = IF j <= Len(d) THEN d[j] ELSE c[j - Len(d)]
    BY Zenon, <2>0, <1>10, Concat
  <2> QED  BY Zenon, <2>1, <2>2
<1>12. Len(d) + Len(c) = Len(seq) + 1
  BY <1>0, <1>6, <1>9
<1>13. ASSUME NEW j \in 1 .. Len(seq) + 1 PROVE e[j] = IF j = pos THEN x ELSE seq[IF j < pos THEN j ELSE j - 1]
  <2>1. e[j] = IF j <= Len(d) THEN d[j] ELSE c[j - Len(d)]
    BY Zenon, <1>11, <1>12
  <2>2. CASE j < pos
    <3>1. j <= Len(d) /\ j \in 1 .. pos - 1 /\ j # pos
      BY <1>0, <1>9, <2>2
    <3> QED  BY Zenon, <1>9, <2>1, <2>2, <3>1
  <2>3. CASE j = pos
    <3>1. j <= Len(d)
      BY <1>0, <1>9, <2>3
    <3> QED  BY Zenon, <1>9, <2>1, <2>3, <3>1
  <2>4. CASE ~ (j < pos) /\ j # pos
    <3>1. ~ (j <= Len(d)) /\ j - Len(d) \in 1 .. Len(seq) - pos + 1 /\ pos + (j - Len(d)) - 1 = j - 1
      BY <1>0, <1>9, <2>4
    <3> QED  BY Zenon, <1>6, <2>1, <2>4, <3>1
  <2> QED  BY Zenon, <2>2, <2>3, <2>4
<1>14. r = e
  BY Zenon, <1>1, <1>2, <1>3, <1>7, <1>10
<1> QED  BY Zenon, <1>11, <1>12, <1>13, <1>14 DEF Inserted

\* The least of some numbers.
LEMMA MinFacts ==
  ASSUME NEW S \in SUBSET Nat, S # {}
  PROVE  Min(S) \in S
<1>1. PICK m \in S : \A k \in S : ~ (<<k, m>> \in OpToRel(<, Nat))
  BY NatLessThanWellFounded, WFMin
<1>2. ASSUME NEW k \in S PROVE m =< k
  <2>1. k \in Nat /\ m \in Nat
    BY Zenon
  <2>2. k < m => <<k, m>> \in OpToRel(<, Nat)
    BY <2>1 DEF OpToRel
  <2>3. ~ (k < m)
    BY Zenon, <1>1, <2>2
  <2> QED  BY <2>1, <2>3
<1> QED  BY <1>2 DEF Min

-----------------------------------------------------------------------------
(* Lists of clumps. *)

RelsOver(F) == [relids : SUBSET F, joins : SUBSET SUBSET SUBSET F]

\* A clump is a tree of legal joins over the items.
Clump(root, items, F, rel) ==
  rel \in RelsOver(F) /\ JoinTree(root, items, rel)

\* Clumps that share no rels.
Clumps(root, items, F, list) ==
  /\ list \in Seq(RelsOver(F))
  /\ \A i \in 1 .. Len(list) : Clump(root, items, F, list[i])
  /\ \A i, j \in 1 .. Len(list) : i # j => list[i].relids \cap list[j].relids = {}

Avoids(list, X) == \A i \in 1 .. Len(list) : list[i].relids \cap X = {}

\* The list r holds the rels that list and rel hold.
Keeps(list, rel, r) == \A X : Avoids(r, X) <=> Avoids(list, X) /\ rel.relids \cap X = {}

\* others and last hold the rels that list and rel hold.
KeptIn(list, rel, others, last) ==
  \A X : Avoids(others, X) /\ last.relids \cap X = {} <=> Avoids(list, X) /\ rel.relids \cap X = {}

\* A join of two clumps that make_join_rel makes is a clump.
LEMMA ClumpsJoin ==
  ASSUME NEW root, NEW items, NEW F, ItemsApart(items), NEW rel1, NEW rel2,
         Clump(root, items, F, rel1), Clump(root, items, F, rel2), rel1.relids \cap rel2.relids = {},
         NEW rel, rel = make_join_rel(root, rel1, rel2), rel # NoRel
  PROVE  Clump(root, items, F, rel) /\ rel.relids = rel1.relids \cup rel2.relids
<1>1. /\ rel = [relids |-> rel1.relids \cup rel2.relids,
                joins  |-> rel1.joins \cup rel2.joins \cup {{rel1.relids, rel2.relids}}]
      /\ join_is_legal(root, rel1.relids, rel2.relids)
  BY Zenon DEF make_join_rel
<1>2. /\ rel.relids = rel1.relids \cup rel2.relids
      /\ rel.joins = rel1.joins \cup rel2.joins \cup {{rel1.relids, rel2.relids}}
  BY <1>1
<1>3. rel \in RelsOver(F)
  BY <1>1 DEF Clump, RelsOver
<1>4. JoinTree(root, items, rel)
  BY Zenon, <1>1, <1>2, TreesJoin DEF Clump
<1> QED  BY Zenon, <1>2, <1>3, <1>4 DEF Clump

LEMMA RemoveClump ==
  ASSUME NEW root, NEW items, NEW F, NEW list, Clumps(root, items, F, list), NEW pos \in 1 .. Len(list), NEW r,
         r \in Seq(RelsOver(F)), Removed(list, pos, r)
  PROVE  /\ Clumps(root, items, F, r) /\ Avoids(r, list[pos].relids)
         /\ \A X : Avoids(list, X) <=> Avoids(r, X) /\ list[pos].relids \cap X = {}
<1>1. list \in Seq(RelsOver(F)) /\ Len(list) \in Nat
  BY DEF Clumps
<1>2. /\ r \in Seq(RelsOver(F)) /\ Len(r) = Len(list) - 1
      /\ \A j \in 1 .. Len(list) - 1 : r[j] = list[IF j < pos THEN j ELSE j + 1]
  BY Zenon DEF Removed
<1> DEFINE old(j) == IF j < pos THEN j ELSE j + 1
<1>3. /\ \A j \in 1 .. Len(r) : old(j) \in 1 .. Len(list) /\ old(j) # pos
      /\ \A i, j \in 1 .. Len(r) : i # j => old(i) # old(j)
      /\ \A i \in 1 .. Len(list) : i = pos \/ \E j \in 1 .. Len(r) : i = old(j)
  <2>1. PICK n \in Nat : n = Len(list)
    BY Zenon, <1>1
  <2>2. Len(r) = n - 1 /\ pos \in 1 .. n
    BY Zenon, <1>2, <2>1
  <2>3. ASSUME NEW j \in 1 .. n - 1 PROVE old(j) \in 1 .. n /\ old(j) # pos
    BY <2>2
  <2>4. ASSUME NEW i \in 1 .. n - 1, NEW j \in 1 .. n - 1, i # j PROVE old(i) # old(j)
    BY <2>2, <2>4
  <2>5. ASSUME NEW i \in 1 .. n, i # pos PROVE \E j \in 1 .. n - 1 : i = old(j)
    <3>1. CASE i < pos
      <4>1. i \in 1 .. n - 1 /\ old(i) = i
        BY <2>2, <3>1
      <4> QED  BY Zenon, <4>1
    <3>2. CASE ~ (i < pos)
      <4>1. i - 1 \in 1 .. n - 1 /\ old(i - 1) = i
        BY <2>2, <2>5, <3>2
      <4> QED  BY Zenon, <4>1
    <3> QED  BY Zenon, <3>1, <3>2
  <2> QED  BY Zenon, <2>1, <2>2, <2>3, <2>4, <2>5
<1>4. \A j \in 1 .. Len(r) : r[j] = list[old(j)]
  BY Zenon, <1>2
<1> HIDE DEF old
<1>5. /\ \A i \in 1 .. Len(list) : Clump(root, items, F, list[i])
      /\ \A i, j \in 1 .. Len(list) : i # j => list[i].relids \cap list[j].relids = {}
  BY Zenon DEF Clumps
<1>6. Clumps(root, items, F, r)
  <2>1. \A i \in 1 .. Len(r) : Clump(root, items, F, r[i])
    BY Zenon, <1>3, <1>4, <1>5
  <2>2. ASSUME NEW i \in 1 .. Len(r), NEW j \in 1 .. Len(r), i # j PROVE r[i].relids \cap r[j].relids = {}
    <3>1. old(i) \in 1 .. Len(list) /\ old(j) \in 1 .. Len(list) /\ old(i) # old(j)
      BY Zenon, <1>3, <2>2
    <3> QED  BY Zenon, <1>4, <1>5, <3>1
  <2> QED  BY Zenon, <1>2, <2>1, <2>2 DEF Clumps
<1>7. Avoids(r, list[pos].relids)
  BY Zenon, <1>3, <1>4, <1>5 DEF Avoids
<1>8. ASSUME NEW X PROVE Avoids(list, X) <=> Avoids(r, X) /\ list[pos].relids \cap X = {}
  BY Zenon, <1>3, <1>4 DEF Avoids
<1> QED  BY Zenon, <1>6, <1>7, <1>8

LEMMA AddClump ==
  ASSUME NEW root, NEW items, NEW F, NEW list, Clumps(root, items, F, list),
         NEW rel, Clump(root, items, F, rel), Avoids(list, rel.relids),
         NEW pos \in 1 .. Len(list) + 1, NEW r, r \in Seq(RelsOver(F)), Inserted(list, pos, rel, r)
  PROVE  /\ Clumps(root, items, F, r)
         /\ Keeps(list, rel, r)
<1>1. list \in Seq(RelsOver(F)) /\ Len(list) \in Nat
  BY DEF Clumps
<1>2. /\ Len(r) = Len(list) + 1
      /\ \A j \in 1 .. Len(list) + 1 : r[j] = IF j = pos THEN rel ELSE list[IF j < pos THEN j ELSE j - 1]
  BY Zenon DEF Inserted
<1> DEFINE old(j) == IF j < pos THEN j ELSE j - 1
<1>3. /\ \A j \in 1 .. Len(r) : j # pos => old(j) \in 1 .. Len(list)
      /\ \A i, j \in 1 .. Len(r) : i # j /\ i # pos /\ j # pos => old(i) # old(j)
  BY <1>1, <1>2
<1>a. ASSUME NEW i \in 1 .. Len(list) PROVE \E j \in 1 .. Len(r) : j # pos /\ i = old(j)
  <2>1. CASE i < pos
    <3>1. i \in 1 .. Len(r) /\ i # pos /\ old(i) = i
      BY <1>1, <1>2, <2>1
    <3> QED  BY Zenon, <3>1
  <2>2. CASE ~ (i < pos)
    <3>1. i + 1 \in 1 .. Len(r) /\ i + 1 # pos /\ old(i + 1) = i
      BY <1>1, <1>2, <2>2
    <3> QED  BY Zenon, <3>1
  <2> QED  BY Zenon, <2>1, <2>2
<1>b. pos \in 1 .. Len(r)
  BY Zenon, <1>2
<1>4. /\ \A j \in 1 .. Len(r) : j # pos => r[j] = list[old(j)]
      /\ \A j \in 1 .. Len(r) : j = pos => r[j] = rel
  BY Zenon, <1>2
<1> HIDE DEF old
<1>5. /\ \A i \in 1 .. Len(list) : Clump(root, items, F, list[i])
      /\ \A i, j \in 1 .. Len(list) : i # j => list[i].relids \cap list[j].relids = {}
      /\ \A i \in 1 .. Len(list) : list[i].relids \cap rel.relids = {}
  BY Zenon DEF Clumps, Avoids
<1>6. \A i \in 1 .. Len(r) : Clump(root, items, F, r[i])
  BY Zenon, <1>3, <1>4, <1>5
<1>7. ASSUME NEW i \in 1 .. Len(r), NEW j \in 1 .. Len(r), i # j PROVE r[i].relids \cap r[j].relids = {}
  <2>1. CASE i # pos /\ j # pos
    BY Zenon, <1>3, <1>4, <1>5, <1>7, <2>1
  <2>2. CASE i = pos
    <3>1. r[j].relids \cap rel.relids = {}
      BY Zenon, <1>3, <1>4, <1>5, <1>7, <2>2
    <3> QED  BY Zenon, <1>4, <2>2, <3>1
  <2>3. CASE j = pos
    <3>1. r[i].relids \cap rel.relids = {}
      BY Zenon, <1>3, <1>4, <1>5, <1>7, <2>3
    <3> QED  BY Zenon, <1>4, <2>3, <3>1
  <2> QED  BY Zenon, <2>1, <2>2, <2>3
<1>8. ASSUME NEW X PROVE Avoids(r, X) <=> Avoids(list, X) /\ rel.relids \cap X = {}
  <2>1. ASSUME Avoids(r, X) PROVE Avoids(list, X) /\ rel.relids \cap X = {}
    BY Zenon, <1>a, <1>b, <1>4, <2>1 DEF Avoids
  <2>2. ASSUME Avoids(list, X), rel.relids \cap X = {} PROVE Avoids(r, X)
    BY Zenon, <1>3, <1>4, <2>2 DEF Avoids
  <2> QED  BY Zenon, <2>1, <2>2
<1> QED  BY Zenon, <1>6, <1>7, <1>8 DEF Clumps, Keeps

\* What a step of parallel_eval.c makes of a list of clumps: clumps again, of the
\* same rels.
LEMMA InsertClumps ==
  ASSUME NEW root, NEW items, NEW F, NEW list, Clumps(root, items, F, list),
         NEW rel, Clump(root, items, F, rel), Avoids(list, rel.relids), NEW r, r = InsertClump(list, rel)
  PROVE  /\ Clumps(root, items, F, r)
         /\ Keeps(list, rel, r)
<1>1. list \in Seq(RelsOver(F)) /\ Len(list) \in Nat /\ DOMAIN list = 1 .. Len(list) /\ rel \in RelsOver(F)
  BY DEF Clumps, Clump
<1>2. PICK smaller : smaller = {i \in DOMAIN list : bms_num_members(list[i]) < bms_num_members(rel)}
  BY Zenon
<1>3. PICK S : S = smaller \cup {Len(list) + 1}
  BY Zenon
<1>4. PICK pos : pos = Min(S)
  BY Zenon
<1>5. pos \in 1 .. Len(list) + 1
  <2>1. smaller \subseteq 1 .. Len(list)
    BY Zenon, <1>1, <1>2
  <2>2. S \subseteq 1 .. Len(list) + 1 /\ S \in SUBSET Nat /\ S # {}
    <3>1. \A i \in 1 .. Len(list) : i \in 1 .. Len(list) + 1
      BY <1>1
    <3>2. Len(list) + 1 \in 1 .. Len(list) + 1 /\ \A i \in 1 .. Len(list) + 1 : i \in Nat
      BY <1>1
    <3> QED  BY Zenon, <1>3, <2>1, <3>1, <3>2
  <2>3. Min(S) \in S
    BY Zenon, <2>2, MinFacts
  <2> QED  BY Zenon, <1>4, <2>2, <2>3
<1>6. r = SubSeq(list, 1, pos - 1) \o <<rel>> \o SubSeq(list, pos, Len(list))
  BY Zenon, <1>2, <1>3, <1>4 DEF InsertClump
<1>7. r \in Seq(RelsOver(F)) /\ Inserted(list, pos, rel, r)
  BY Zenon, <1>1, <1>5, <1>6, InsertFacts
<1> QED  BY <1>5, <1>7, AddClump

LEMMA AppendClumps ==
  ASSUME NEW root, NEW items, NEW F, NEW list, Clumps(root, items, F, list),
         NEW rel, Clump(root, items, F, rel), Avoids(list, rel.relids), NEW r, r = Append(list, rel)
  PROVE  /\ Clumps(root, items, F, r)
         /\ Keeps(list, rel, r)
<1>1. list \in Seq(RelsOver(F)) /\ Len(list) \in Nat /\ rel \in RelsOver(F)
  BY DEF Clumps, Clump
<1>2. PICK pos : pos = Len(list) + 1
  BY Zenon
<1>3. pos \in 1 .. Len(list) + 1
  BY <1>1, <1>2
<1>4. r \in Seq(RelsOver(F)) /\ Len(r) = Len(list) + 1
  BY <1>1
<1>5. \A j \in 1 .. Len(list) + 1 : r[j] = IF j = pos THEN rel ELSE list[IF j < pos THEN j ELSE j - 1]
  BY <1>1, <1>2
<1>6. Inserted(list, pos, rel, r)
  BY Zenon, <1>4, <1>5 DEF Inserted
<1> QED  BY <1>3, <1>4, <1>6, AddClump

LEMMA OneClump ==
  ASSUME NEW root, NEW items, NEW F, NEW rel, Clump(root, items, F, rel), NEW r, r = <<rel>>
  PROVE  /\ Clumps(root, items, F, r) /\ Len(r) = 1 /\ r[1] = rel
         /\ \A X : Avoids(r, X) <=> rel.relids \cap X = {}
<1>1. rel \in RelsOver(F)
  BY DEF Clump
<1>2. r \in Seq(RelsOver(F)) /\ Len(r) = 1 /\ r[1] = rel /\ \A i : i \in 1 .. Len(r) <=> i = 1
  BY <1>1
<1>3. Clumps(root, items, F, r)
  <2>1. \A i \in 1 .. Len(r) : Clump(root, items, F, r[i])
    BY Zenon, <1>2
  <2>2. \A i, j \in 1 .. Len(r) : i # j => r[i].relids \cap r[j].relids = {}
    BY <1>2
  <2> QED  BY Zenon, <1>2, <2>1, <2>2 DEF Clumps
<1>4. ASSUME NEW X PROVE Avoids(r, X) <=> rel.relids \cap X = {}
  BY Zenon, <1>2 DEF Avoids
<1> QED  BY Zenon, <1>2, <1>3, <1>4

LEMMA MergeLeafClumps ==
  ASSUME NEW root, NEW items, NEW F, ItemsApart(items), NEW list, Clumps(root, items, F, list),
         NEW rel, Clump(root, items, F, rel), Avoids(list, rel.relids), NEW r, r = MergeLeaf(root, list, rel)
  PROVE  /\ Clumps(root, items, F, r)
         /\ Keeps(list, rel, r)
<1>1. PICK joinrel : joinrel = make_join_rel(root, list[1], rel)
  BY Zenon
<1>2. CASE Len(list) = 1 /\ desirable_join(root, list[1].relids, rel.relids) /\ joinrel # NoRel
  <2>1. r = <<joinrel>>
    BY Zenon, <1>1, <1>2 DEF MergeLeaf
  <2>2. 1 \in 1 .. Len(list)
    BY <1>2
  <2>3. Clump(root, items, F, list[1]) /\ list[1].relids \cap rel.relids = {}
    BY Zenon, <2>2 DEF Clumps, Avoids
  <2>4. Clump(root, items, F, joinrel) /\ joinrel.relids = list[1].relids \cup rel.relids
    BY <1>1, <1>2, <2>3, ClumpsJoin
  <2>5. Clumps(root, items, F, r) /\ \A X : Avoids(r, X) <=> joinrel.relids \cap X = {}
    <3>1. Clump(root, items, F, joinrel)
      BY Zenon, <2>4
    <3> QED  BY <2>1, <3>1, OneClump
  <2>6. ASSUME NEW X PROVE Avoids(list, X) /\ rel.relids \cap X = {} <=> joinrel.relids \cap X = {}
    <3>1. \A i : i \in 1 .. Len(list) <=> i = 1
      BY <1>2
    <3>2. Avoids(list, X) <=> list[1].relids \cap X = {}
      BY Zenon, <3>1 DEF Avoids
    <3> QED  BY Zenon, <2>4, <3>2
  <2> QED  BY Zenon, <2>5, <2>6 DEF Keeps
<1>3. CASE ~ (Len(list) = 1 /\ desirable_join(root, list[1].relids, rel.relids) /\ joinrel # NoRel)
  <2>1. r = Append(list, rel)
    BY Zenon, <1>1, <1>3 DEF MergeLeaf
  <2> QED  BY Zenon, <2>1, AppendClumps
<1> QED  BY Zenon, <1>2, <1>3

\* One clump grows, the others are left.
LEMMA MergeFirstClumps ==
  ASSUME NEW root, NEW items, NEW F, ItemsApart(items), NEW others, Clumps(root, items, F, others),
         NEW rel, Clump(root, items, F, rel), Avoids(others, rel.relids),
         NEW clump, clump.others = others, clump.rel = rel, NEW r, r = MergeFirst(root, clump)
  PROVE  /\ Clumps(root, items, F, r.others) /\ Clump(root, items, F, r.rel) /\ Avoids(r.others, r.rel.relids)
         /\ KeptIn(others, rel, r.others, r.rel)
<1>1. PICK legal : legal = {i \in DOMAIN others : make_join_rel(root, others[i], rel) # NoRel}
  BY Zenon
<1>2. PICK pos : pos = Min(legal)
  BY Zenon
<1>3. others \in Seq(RelsOver(F)) /\ Len(others) \in Nat /\ DOMAIN others = 1 .. Len(others)
  BY DEF Clumps
<1>4. CASE legal = {}
  <2>1. r = clump
    BY Zenon, <1>1, <1>4 DEF MergeFirst
  <2> QED  BY Zenon, <2>1 DEF KeptIn
<1>5. CASE legal # {}
  <2>1. PICK left : left = SubSeq(others, 1, pos - 1) \o SubSeq(others, pos + 1, Len(others))
    BY Zenon
  <2>2. PICK old, joinrel : old = others[pos] /\ joinrel = make_join_rel(root, old, rel)
    BY Zenon
  <2>3. r.others = left /\ r.rel = joinrel
    <3>1. r = [others |-> left, rel |-> joinrel]
      BY Zenon, <1>1, <1>2, <1>5, <2>1, <2>2 DEF MergeFirst
    <3> QED  BY <3>1
  <2>4. pos \in 1 .. Len(others) /\ joinrel # NoRel
    <3>1. legal \in SUBSET Nat
      BY <1>1, <1>3
    <3>2. pos \in legal
      BY Zenon, <1>2, <1>5, <3>1, MinFacts
    <3> QED  BY Zenon, <1>1, <1>3, <2>2, <3>2
  <2>5. /\ Clumps(root, items, F, left) /\ Avoids(left, old.relids)
        /\ \A X : Avoids(others, X) <=> Avoids(left, X) /\ old.relids \cap X = {}
    <3>1. pos \in 1 .. Len(others)
      BY Zenon, <2>4
    <3>2. /\ Clumps(root, items, F, left) /\ Avoids(left, others[pos].relids)
          /\ \A X : Avoids(others, X) <=> Avoids(left, X) /\ others[pos].relids \cap X = {}
      <4>1. left \in Seq(RelsOver(F)) /\ Removed(others, pos, left)
        BY Zenon, <1>3, <2>1, <3>1, RemoveFacts
      <4> QED  BY <3>1, <4>1, RemoveClump
    <3> QED  BY Zenon, <2>2, <3>2
  <2>6. Clump(root, items, F, old) /\ old.relids \cap rel.relids = {}
    BY Zenon, <2>2, <2>4 DEF Clumps, Avoids
  <2>7. Clump(root, items, F, joinrel) /\ joinrel.relids = old.relids \cup rel.relids
    <3>1. joinrel = make_join_rel(root, old, rel) /\ joinrel # NoRel
      BY Zenon, <2>2, <2>4
    <3> QED  BY <2>6, <3>1, ClumpsJoin
  <2>8. Avoids(left, rel.relids)
    BY Zenon, <2>5
  <2>9. Avoids(left, joinrel.relids)
    BY Zenon, <2>5, <2>7, <2>8 DEF Avoids
  <2>10. ASSUME NEW X
         PROVE  Avoids(left, X) /\ joinrel.relids \cap X = {} <=> Avoids(others, X) /\ rel.relids \cap X = {}
    <3>1. joinrel.relids \cap X = {} <=> old.relids \cap X = {} /\ rel.relids \cap X = {}
      BY Zenon, <2>7
    <3> QED  BY Zenon, <2>5, <3>1
  <2> QED  BY Zenon, <2>3, <2>5, <2>7, <2>9, <2>10 DEF KeptIn
<1> QED  BY Zenon, <1>4, <1>5

-----------------------------------------------------------------------------
(* The recursions of parallel_eval. *)

\* Induction, on a set of numbers.
LEMMA NatSetInduction ==
  ASSUME NEW T \in SUBSET Nat, 0 \in T, \A n \in T : n + 1 \in T
  PROVE  T = Nat
<1> SUFFICES ASSUME Nat \ T # {} PROVE FALSE
  OBVIOUS
<1>1. PICK m \in Nat \ T : \A k \in Nat \ T : ~ (<<k, m>> \in OpToRel(<, Nat))
  BY NatLessThanWellFounded, WFMin
<1>2. m - 1 \in T
  <2>1. m # 0
    OBVIOUS
  <2>2. m - 1 \in Nat /\ m - 1 < m
    BY <2>1
  <2>3. <<m - 1, m>> \in OpToRel(<, Nat)
    BY <2>2 DEF OpToRel
  <2> QED  BY <1>1, <2>2, <2>3
<1>3. m - 1 + 1 = m
  OBVIOUS
<1> QED  BY <1>2, <1>3

\* The leaf for the i-th item of a join order.
LeafAt(root, order, i) == BaseRel(root.initial_rels[order[i] + 1])

\* The recursion over the left-deep tree is well-defined.
LEMMA TryDef ==
  ASSUME NEW root, NEW order, Len(order) \in Nat \ {0}
  PROVE  \E f : /\ f[1] = <<LeafAt(root, order, 1)>>
                /\ \A i \in 2 .. Len(order) : f[i] = MergeLeaf(root, f[i - 1], LeafAt(root, order, i))
                /\ try_merge_clump(root, order) = f[Len(order)]
<1> DEFINE Zero == <<LeafAt(root, order, 1)>>
           Step(x, i) == MergeLeaf(root, x, LeafAt(root, order, i))
           G(f, n) == [i \in 1 .. n |-> IF i = 1 THEN Zero ELSE Step(f[i - 1], i)]
           T == {n \in Nat : \E f : f = G(f, n)}
           H == CHOOSE f : f = G(f, Len(order))
<1> HIDE DEF Zero, Step
<1>1. 0 \in T
  <2>1. [i \in 1 .. 0 |-> Zero] = G([i \in 1 .. 0 |-> Zero], 0)
    OBVIOUS
  <2> QED  BY <2>1
<1>2. ASSUME NEW n \in T PROVE n + 1 \in T
  <2>1. PICK f : f = G(f, n)
    OBVIOUS
  <2> DEFINE g == [i \in 1 .. n + 1 |-> IF i = n + 1 THEN (IF i = 1 THEN Zero ELSE Step(f[n], i)) ELSE f[i]]
  <2>2. n \in Nat
    OBVIOUS
  <2>3. ASSUME NEW i \in 1 .. n + 1 PROVE g[i] = G(g, n + 1)[i]
    <3>1. CASE i = n + 1
      <4>1. CASE i = 1
        BY <2>2, <3>1, <4>1
      <4>2. CASE i # 1
        <5>1. i - 1 = n /\ i - 1 \in 1 .. n + 1 /\ i - 1 # n + 1
          BY <2>2, <3>1, <4>2
        <5> QED  BY <3>1, <4>2, <5>1
      <4> QED  BY Zenon, <4>1, <4>2
    <3>2. CASE i \in 1 .. n
      <4>1. f[i] = G(f, n)[i]
        BY <2>1
      <4>2. i # n + 1 /\ i - 1 # n + 1 /\ (i # 1 => i - 1 \in 1 .. n + 1)
        BY <2>2, <3>2
      <4> QED  BY <2>2, <3>2, <4>1, <4>2
    <3> QED  BY <2>2, <3>1, <3>2
  <2>4. g = G(g, n + 1)
    BY <2>3
  <2> HIDE DEF g, G
  <2>5. \E h : h = G(h, n + 1)
    BY Zenon, <2>4
  <2> QED  BY <2>2, <2>5
<1>3. T = Nat
  <2>1. \A n \in T : n + 1 \in T
    BY <1>2
  <2> HIDE DEF T
  <2>2. T \in SUBSET Nat
    BY DEF T
  <2> QED  BY <1>1, <2>1, <2>2, NatSetInduction
<1>4. \E f : f = G(f, Len(order))
  BY <1>3
<1>5. H = G(H, Len(order))
  BY <1>4
<1>6. try_merge_clump(root, order) = H[Len(order)]
  BY Zenon DEF try_merge_clump, LeafAt, Zero, Step
<1>7. PICK f : f = H
  BY Zenon
<1>8. \A i \in 1 .. Len(order) : f[i] = IF i = 1 THEN Zero ELSE Step(f[i - 1], i)
  <2>1. f = G(f, Len(order))
    <3> HIDE DEF G, H
    <3> QED  BY Zenon, <1>5, <1>7
  <2>2. \A i \in 1 .. Len(order) : f[i] = G(f, Len(order))[i]
    BY Zenon, <2>1
  <2> QED  BY Zenon, <2>2
<1>9. 1 \in 1 .. Len(order) /\ \A i \in 2 .. Len(order) : i \in 1 .. Len(order) /\ i # 1
  OBVIOUS
<1>10. f[1] = Zero /\ \A i \in 2 .. Len(order) : f[i] = Step(f[i - 1], i)
  BY Zenon, <1>8, <1>9
<1> QED  BY Zenon, <1>6, <1>7, <1>10 DEF Zero, Step

\* The recursion of force_merge_clump is well-defined.
LEMMA ForceDef ==
  ASSUME NEW root, NEW list, NEW rel, Len(list) \in Nat
  PROVE  \E f : /\ f[0] = [others |-> list, rel |-> rel]
                /\ \A i \in 1 .. Len(list) : f[i] = MergeFirst(root, f[i - 1])
                /\ force_merge_clump(root, list, rel) = InsertClump(f[Len(list)].others, f[Len(list)].rel)
<1> DEFINE Zero == [others |-> list, rel |-> rel]
           Step(x, i) == MergeFirst(root, x)
           G(f, n) == [i \in 0 .. n |-> IF i = 0 THEN Zero ELSE Step(f[i - 1], i)]
           T == {n \in Nat : \E f : f = G(f, n)}
           H == CHOOSE f : f = G(f, Len(list))
<1> HIDE DEF Zero, Step
<1>1. 0 \in T
  <2>1. [i \in 0 .. 0 |-> Zero] = G([i \in 0 .. 0 |-> Zero], 0)
    OBVIOUS
  <2> QED  BY <2>1
<1>2. ASSUME NEW n \in T PROVE n + 1 \in T
  <2>1. PICK f : f = G(f, n)
    OBVIOUS
  <2> DEFINE g == [i \in 0 .. n + 1 |-> IF i = n + 1 THEN (IF i = 0 THEN Zero ELSE Step(f[n], i)) ELSE f[i]]
  <2>2. n \in Nat
    OBVIOUS
  <2>3. ASSUME NEW i \in 0 .. n + 1 PROVE g[i] = G(g, n + 1)[i]
    <3>1. CASE i = n + 1
      <4>1. CASE i = 0
        BY <2>2, <3>1, <4>1
      <4>2. CASE i # 0
        <5>1. i - 1 = n /\ i - 1 \in 0 .. n + 1 /\ i - 1 # n + 1
          BY <2>2, <3>1, <4>2
        <5> QED  BY <3>1, <4>2, <5>1
      <4> QED  BY Zenon, <4>1, <4>2
    <3>2. CASE i \in 0 .. n
      <4>1. f[i] = G(f, n)[i]
        BY <2>1
      <4>2. i # n + 1 /\ i - 1 # n + 1 /\ (i # 0 => i - 1 \in 0 .. n + 1)
        BY <2>2, <3>2
      <4> QED  BY <2>2, <3>2, <4>1, <4>2
    <3> QED  BY <2>2, <3>1, <3>2
  <2>4. g = G(g, n + 1)
    BY <2>3
  <2> HIDE DEF g, G
  <2>5. \E h : h = G(h, n + 1)
    BY Zenon, <2>4
  <2> QED  BY <2>2, <2>5
<1>3. T = Nat
  <2>1. \A n \in T : n + 1 \in T
    BY <1>2
  <2> HIDE DEF T
  <2>2. T \in SUBSET Nat
    BY DEF T
  <2> QED  BY <1>1, <2>1, <2>2, NatSetInduction
<1>4. \E f : f = G(f, Len(list))
  BY <1>3
<1>5. H = G(H, Len(list))
  BY <1>4
<1>6. force_merge_clump(root, list, rel) = InsertClump(H[Len(list)].others, H[Len(list)].rel)
  BY Zenon DEF force_merge_clump, Zero, Step
<1>7. PICK f : f = H
  BY Zenon
<1>8. \A i \in 0 .. Len(list) : f[i] = IF i = 0 THEN Zero ELSE Step(f[i - 1], i)
  <2>1. f = G(f, Len(list))
    BY Zenon, <1>5, <1>7
  <2>2. \A i \in 0 .. Len(list) : f[i] = G(f, Len(list))[i]
    BY Zenon, <2>1
  <2> QED  BY Zenon, <2>2
<1>9. 0 \in 0 .. Len(list) /\ \A i \in 1 .. Len(list) : i \in 0 .. Len(list) /\ i # 0
  OBVIOUS
<1>10. f[0] = Zero /\ \A i \in 1 .. Len(list) : f[i] = Step(f[i - 1], i)
  BY Zenon, <1>8, <1>9
<1> QED  BY Zenon, <1>6, <1>7, <1>10 DEF Zero, Step

\* The result of construct_rel_based_on_plan, from the lists that its two passes leave.
Built(tried, forced) ==
  LET relList == IF Len(tried) > 1 THEN forced ELSE tried
  IN  IF Len(relList) = 1 THEN relList[1] ELSE NoRel

\* The recursion over the clumps that try_merge_clump leaves is well-defined.
LEMMA ConstructDef ==
  ASSUME NEW root, NEW order, Len(try_merge_clump(root, order)) \in Nat
  PROVE  \E f : /\ f[0] = <<>>
                /\ \A i \in 1 .. Len(try_merge_clump(root, order)) : f[i] = force_merge_clump(root, f[i - 1], try_merge_clump(root, order)[i])
                /\ construct_rel_based_on_plan(root, order) = Built(try_merge_clump(root, order), f[Len(try_merge_clump(root, order))])
<1> DEFINE Zero == <<>>
           Step(x, i) == force_merge_clump(root, x, try_merge_clump(root, order)[i])
           G(f, n) == [i \in 0 .. n |-> IF i = 0 THEN Zero ELSE Step(f[i - 1], i)]
           T == {n \in Nat : \E f : f = G(f, n)}
           H == CHOOSE f : f = G(f, Len(try_merge_clump(root, order)))
<1> HIDE DEF Zero, Step
<1>1. 0 \in T
  <2>1. [i \in 0 .. 0 |-> Zero] = G([i \in 0 .. 0 |-> Zero], 0)
    OBVIOUS
  <2> QED  BY <2>1
<1>2. ASSUME NEW n \in T PROVE n + 1 \in T
  <2>1. PICK f : f = G(f, n)
    OBVIOUS
  <2> DEFINE g == [i \in 0 .. n + 1 |-> IF i = n + 1 THEN (IF i = 0 THEN Zero ELSE Step(f[n], i)) ELSE f[i]]
  <2>2. n \in Nat
    OBVIOUS
  <2>3. ASSUME NEW i \in 0 .. n + 1 PROVE g[i] = G(g, n + 1)[i]
    <3>1. CASE i = n + 1
      <4>1. CASE i = 0
        BY <2>2, <3>1, <4>1
      <4>2. CASE i # 0
        <5>1. i - 1 = n /\ i - 1 \in 0 .. n + 1 /\ i - 1 # n + 1
          BY <2>2, <3>1, <4>2
        <5> QED  BY <3>1, <4>2, <5>1
      <4> QED  BY Zenon, <4>1, <4>2
    <3>2. CASE i \in 0 .. n
      <4>1. f[i] = G(f, n)[i]
        BY <2>1
      <4>2. i # n + 1 /\ i - 1 # n + 1 /\ (i # 0 => i - 1 \in 0 .. n + 1)
        BY <2>2, <3>2
      <4> QED  BY <2>2, <3>2, <4>1, <4>2
    <3> QED  BY <2>2, <3>1, <3>2
  <2>4. g = G(g, n + 1)
    BY <2>3
  <2> HIDE DEF g, G
  <2>5. \E h : h = G(h, n + 1)
    BY Zenon, <2>4
  <2> QED  BY <2>2, <2>5
<1>3. T = Nat
  <2>1. \A n \in T : n + 1 \in T
    BY <1>2
  <2> HIDE DEF T
  <2>2. T \in SUBSET Nat
    BY DEF T
  <2> QED  BY <1>1, <2>1, <2>2, NatSetInduction
<1>4. \E f : f = G(f, Len(try_merge_clump(root, order)))
  BY <1>3
<1>5. H = G(H, Len(try_merge_clump(root, order)))
  BY <1>4
<1>6. construct_rel_based_on_plan(root, order) = Built(try_merge_clump(root, order), H[Len(try_merge_clump(root, order))])
  BY Zenon DEF construct_rel_based_on_plan, Built, Zero, Step
<1>7. PICK f : f = H
  BY Zenon
<1>8. \A i \in 0 .. Len(try_merge_clump(root, order)) : f[i] = IF i = 0 THEN Zero ELSE Step(f[i - 1], i)
  <2>1. f = G(f, Len(try_merge_clump(root, order)))
    BY Zenon, <1>5, <1>7
  <2>2. \A i \in 0 .. Len(try_merge_clump(root, order)) : f[i] = G(f, Len(try_merge_clump(root, order)))[i]
    BY Zenon, <2>1
  <2> QED  BY Zenon, <2>2
<1>9. 0 \in 0 .. Len(try_merge_clump(root, order)) /\ \A i \in 1 .. Len(try_merge_clump(root, order)) : i \in 0 .. Len(try_merge_clump(root, order)) /\ i # 0
  OBVIOUS
<1>10. f[0] = Zero /\ \A i \in 1 .. Len(try_merge_clump(root, order)) : f[i] = Step(f[i - 1], i)
  BY Zenon, <1>8, <1>9
<1> QED  BY Zenon, <1>6, <1>7, <1>10 DEF Zero, Step

-----------------------------------------------------------------------------
(* construct_rel_based_on_plan builds a tree of joins. *)

\* A clump that grows out of rel and a list of other clumps.
Grows(root, items, F, list, rel, clump) ==
  /\ Clumps(root, items, F, clump.others) /\ Clump(root, items, F, clump.rel)
  /\ Avoids(clump.others, clump.rel.relids)
  /\ KeptIn(list, rel, clump.others, clump.rel)

LEMMA GrowsOn ==
  ASSUME NEW root, NEW items, NEW F, ItemsApart(items), NEW list, NEW rel, NEW clump,
         Grows(root, items, F, list, rel, clump)
  PROVE  Grows(root, items, F, list, rel, MergeFirst(root, clump))
<1>1. PICK others, old : others = clump.others /\ old = clump.rel
  BY Zenon
<1>2. /\ Clumps(root, items, F, others) /\ Clump(root, items, F, old) /\ Avoids(others, old.relids)
      /\ KeptIn(list, rel, others, old)
  BY Zenon, <1>1 DEF Grows
<1>3. PICK r : r = MergeFirst(root, clump)
  BY Zenon
<1>4. /\ Clumps(root, items, F, r.others) /\ Clump(root, items, F, r.rel) /\ Avoids(r.others, r.rel.relids)
      /\ KeptIn(others, old, r.others, r.rel)
  <2>1. Clumps(root, items, F, others) /\ Clump(root, items, F, old) /\ Avoids(others, old.relids)
    BY Zenon, <1>2
  <2>2. clump.others = others /\ clump.rel = old
    BY Zenon, <1>1
  <2> QED  BY <1>3, <2>1, <2>2, MergeFirstClumps
<1>5. KeptIn(list, rel, r.others, r.rel)
  BY Zenon, <1>2, <1>4 DEF KeptIn
<1>6. Grows(root, items, F, list, rel, r)
  BY Zenon, <1>4, <1>5 DEF Grows
<1> QED  BY Zenon, <1>3, <1>6

LEMMA ForceClumps ==
  ASSUME NEW root, NEW items, NEW F, ItemsApart(items), NEW list, Clumps(root, items, F, list),
         NEW rel, Clump(root, items, F, rel), Avoids(list, rel.relids), NEW r, r = force_merge_clump(root, list, rel)
  PROVE  Clumps(root, items, F, r) /\ Keeps(list, rel, r)
<1>1. PICK n : n = Len(list)
  BY Zenon
<1>2. n \in Nat
  BY <1>1 DEF Clumps
<1>3. PICK f : /\ f[0] = [others |-> list, rel |-> rel]
               /\ \A i \in 1 .. n : f[i] = MergeFirst(root, f[i - 1])
               /\ r = InsertClump(f[n].others, f[n].rel)
  <2>1. Len(list) \in Nat
    BY Zenon, <1>1, <1>2
  <2>2. \E f : /\ f[0] = [others |-> list, rel |-> rel]
               /\ \A i \in 0 + 1 .. Len(list) : f[i] = MergeFirst(root, f[i - 1])
               /\ force_merge_clump(root, list, rel) = InsertClump(f[Len(list)].others, f[Len(list)].rel)
    BY <2>1, ForceDef
  <2>3. 0 + 1 = 1
    OBVIOUS
  <2> QED  BY Zenon, <1>1, <2>2, <2>3
<1> DEFINE T == {k \in Nat : k <= n => Grows(root, items, F, list, rel, f[k])}
<1>4. 0 \in T
  <2>1. f[0].others = list /\ f[0].rel = rel
    BY <1>3
  <2>2. Grows(root, items, F, list, rel, f[0])
    BY Zenon, <2>1 DEF Grows, KeptIn
  <2> QED  BY <2>2
<1>5. ASSUME NEW k \in T PROVE k + 1 \in T
  <2>1. k \in Nat /\ k + 1 \in Nat
    OBVIOUS
  <2>2. ASSUME k + 1 <= n PROVE Grows(root, items, F, list, rel, f[k + 1])
    <3>1. k <= n /\ k + 1 \in 1 .. n /\ (k + 1) - 1 = k
      BY <1>2, <2>1, <2>2
    <3>2. Grows(root, items, F, list, rel, f[k])
      BY Zenon, <3>1
    <3>3. f[k + 1] = MergeFirst(root, f[k])
      BY Zenon, <1>3, <3>1
    <3>4. Grows(root, items, F, list, rel, MergeFirst(root, f[k]))
      BY <3>2, GrowsOn
    <3> QED  BY Zenon, <3>3, <3>4
  <2> QED  BY Zenon, <2>1, <2>2
<1>6. T = Nat
  <2>1. T \in SUBSET Nat /\ \A k \in T : k + 1 \in T
    BY Zenon, <1>5
  <2> HIDE DEF T
  <2> QED  BY <1>4, <2>1, NatSetInduction
<1>7. Grows(root, items, F, list, rel, f[n])
  <2>1. n \in T /\ n <= n
    BY <1>2, <1>6
  <2> QED  BY Zenon, <2>1
<1>8. PICK others, last : others = f[n].others /\ last = f[n].rel
  BY Zenon
<1>9. /\ Clumps(root, items, F, others) /\ Clump(root, items, F, last) /\ Avoids(others, last.relids)
      /\ KeptIn(list, rel, others, last)
  BY Zenon, <1>7, <1>8 DEF Grows
<1>10. r = InsertClump(others, last)
  BY Zenon, <1>3, <1>8
<1>11. Clumps(root, items, F, r) /\ Keeps(others, last, r)
  <2>1. Clumps(root, items, F, others) /\ Clump(root, items, F, last) /\ Avoids(others, last.relids)
    BY Zenon, <1>9
  <2> HIDE DEF T
  <2> QED  BY <1>10, <2>1, InsertClumps
<1> QED  BY Zenon, <1>9, <1>11 DEF Keeps, KeptIn

\* The item at a position of the join order.
ItemAt(root, order, i) == root.initial_rels[order[i] + 1]

\* A join order over the items of a problem.
OrderOf(root, items, F, order) ==
  /\ ItemsApart(items) /\ items \subseteq SUBSET F
  /\ Len(order) \in Nat \ {0}
  /\ \A i \in 1 .. Len(order) : ItemAt(root, order, i) \in items
  /\ \A i, j \in 1 .. Len(order) : i # j => ItemAt(root, order, i) # ItemAt(root, order, j)

LEMMA LeafClump ==
  ASSUME NEW root, NEW items, NEW F, NEW order, OrderOf(root, items, F, order), NEW i \in 1 .. Len(order)
  PROVE  /\ Clump(root, items, F, LeafAt(root, order, i))
         /\ LeafAt(root, order, i).relids = ItemAt(root, order, i)
         /\ \A j \in 1 .. Len(order) : i # j => ItemAt(root, order, i) \cap ItemAt(root, order, j) = {}
<1>1. PICK x, leaf : x = ItemAt(root, order, i) /\ leaf = LeafAt(root, order, i)
  BY Zenon
<1>2. leaf = BaseRel(x)
  BY Zenon, <1>1 DEF LeafAt, ItemAt
<1>3. leaf.relids = x /\ leaf.joins = {} /\ leaf = [relids |-> x, joins |-> {}]
  BY <1>2 DEF BaseRel
<1>4. x \in items /\ x \in SUBSET F /\ ItemsApart(items)
  BY Zenon, <1>1 DEF OrderOf
<1>5. leaf \in RelsOver(F)
  BY <1>3, <1>4 DEF RelsOver
<1>6. JoinTree(root, items, leaf)
  BY Zenon, <1>2, <1>4, LeafTree
<1>7. \A j \in 1 .. Len(order) : i # j => x \cap ItemAt(root, order, j) = {}
  BY Zenon, <1>1 DEF OrderOf, ItemsApart
<1> QED  BY Zenon, <1>1, <1>3, <1>5, <1>6, <1>7 DEF Clump

\* The clumps made of the first i items of the order.
Tried(root, items, F, order, i, list) ==
  /\ Clumps(root, items, F, list)
  /\ \A X : Avoids(list, X) <=> \A m \in 1 .. i : ItemAt(root, order, m) \cap X = {}

LEMMA TryClumps ==
  ASSUME NEW root, NEW items, NEW F, NEW order, OrderOf(root, items, F, order)
  PROVE  Tried(root, items, F, order, Len(order), try_merge_clump(root, order))
<1>1. PICK n : n = Len(order)
  BY Zenon
<1>2. n \in Nat \ {0} /\ ItemsApart(items)
  BY Zenon, <1>1 DEF OrderOf
<1>3. PICK f : /\ f[1] = <<LeafAt(root, order, 1)>>
               /\ \A i \in 2 .. n : f[i] = MergeLeaf(root, f[i - 1], LeafAt(root, order, i))
               /\ try_merge_clump(root, order) = f[n]
  <2>1. Len(order) \in Nat \ {0}
    BY Zenon, <1>1, <1>2
  <2>2. \E f : /\ f[1] = <<LeafAt(root, order, 1)>>
               /\ \A i \in 2 .. Len(order) : f[i] = MergeLeaf(root, f[i - 1], LeafAt(root, order, i))
               /\ try_merge_clump(root, order) = f[Len(order)]
    BY <2>1, TryDef
  <2> QED  BY Zenon, <1>1, <2>2
<1>4. \A i \in 1 .. n : /\ Clump(root, items, F, LeafAt(root, order, i))
                        /\ LeafAt(root, order, i).relids = ItemAt(root, order, i)
                        /\ \A j \in 1 .. n : i # j => ItemAt(root, order, i) \cap ItemAt(root, order, j) = {}
  <2> SUFFICES ASSUME NEW i \in 1 .. n
               PROVE  /\ Clump(root, items, F, LeafAt(root, order, i))
                      /\ LeafAt(root, order, i).relids = ItemAt(root, order, i)
                      /\ \A j \in 1 .. n : i # j => ItemAt(root, order, i) \cap ItemAt(root, order, j) = {}
    BY Zenon
  <2>1. i \in 1 .. Len(order)
    BY Zenon, <1>1
  <2>2. /\ Clump(root, items, F, LeafAt(root, order, i))
        /\ LeafAt(root, order, i).relids = ItemAt(root, order, i)
        /\ \A j \in 1 .. Len(order) : i # j => ItemAt(root, order, i) \cap ItemAt(root, order, j) = {}
    BY <2>1, LeafClump
  <2> QED  BY Zenon, <1>1, <2>2
<1> DEFINE T == {k \in Nat : k + 1 <= n => Tried(root, items, F, order, k + 1, f[k + 1])}
<1>5. 0 \in T
  <2>1. 1 \in 1 .. n /\ \A m : m \in 1 .. 1 <=> m = 1
    BY <1>2
  <2>2. PICK leaf, list : leaf = LeafAt(root, order, 1) /\ list = f[1]
    BY Zenon
  <2>3. Clump(root, items, F, leaf) /\ list = <<leaf>>
    BY Zenon, <1>3, <1>4, <2>1, <2>2
  <2>4. Clumps(root, items, F, list) /\ \A X : Avoids(list, X) <=> leaf.relids \cap X = {}
    BY <2>3, OneClump
  <2>5. leaf.relids = ItemAt(root, order, 1)
    BY Zenon, <1>4, <2>1, <2>2
  <2>6. Tried(root, items, F, order, 1, list)
    BY Zenon, <2>1, <2>4, <2>5 DEF Tried
  <2>7. 0 + 1 = 1 /\ 0 \in Nat
    OBVIOUS
  <2> QED  BY Zenon, <2>2, <2>6, <2>7
<1>6. ASSUME NEW k \in T PROVE k + 1 \in T
  <2>1. k \in Nat /\ k + 1 \in Nat
    OBVIOUS
  <2>2. ASSUME (k + 1) + 1 <= n PROVE Tried(root, items, F, order, (k + 1) + 1, f[(k + 1) + 1])
    <3>1. PICK j : j = k + 1
      BY Zenon
    <3>2. /\ j \in Nat /\ j <= n /\ j + 1 \in 1 .. n /\ j + 1 \in 2 .. n /\ (j + 1) - 1 = j
          /\ \A m : m \in 1 .. j + 1 <=> m \in 1 .. j \/ m = j + 1
          /\ \A m \in 1 .. j : m \in 1 .. n /\ m # j + 1
      BY <1>2, <2>1, <2>2, <3>1
    <3>3. Tried(root, items, F, order, j, f[j])
      BY Zenon, <3>1, <3>2
    <3>4. PICK list, leaf, r : list = f[j] /\ leaf = LeafAt(root, order, j + 1) /\ r = f[j + 1]
      BY Zenon
    <3>5. /\ Clumps(root, items, F, list)
          /\ \A X : Avoids(list, X) <=> \A m \in 1 .. j : ItemAt(root, order, m) \cap X = {}
      BY Zenon, <3>3, <3>4 DEF Tried
    <3>6. Clump(root, items, F, leaf) /\ Avoids(list, leaf.relids) /\ leaf.relids = ItemAt(root, order, j + 1)
      <4>1. Clump(root, items, F, leaf) /\ leaf.relids = ItemAt(root, order, j + 1)
        BY Zenon, <1>4, <3>2, <3>4
      <4>2. \A m \in 1 .. j : ItemAt(root, order, m) \cap leaf.relids = {}
        BY Zenon, <1>4, <3>2, <4>1
      <4> QED  BY Zenon, <3>5, <4>1, <4>2
    <3>7. r = MergeLeaf(root, list, leaf)
      BY Zenon, <1>3, <3>2, <3>4
    <3>8. Clumps(root, items, F, r) /\ Keeps(list, leaf, r)
      <4>1. Clumps(root, items, F, list) /\ ItemsApart(items)
        BY Zenon, <1>2, <3>5
      <4> HIDE DEF T
      <4> QED  BY <3>6, <3>7, <4>1, MergeLeafClumps
    <3>9. ASSUME NEW X PROVE Avoids(r, X) <=> \A m \in 1 .. j + 1 : ItemAt(root, order, m) \cap X = {}
      <4>1. Avoids(r, X) <=> Avoids(list, X) /\ ItemAt(root, order, j + 1) \cap X = {}
        BY Zenon, <3>6, <3>8 DEF Keeps
      <4> QED  BY Zenon, <3>2, <3>5, <4>1
    <3>10. Tried(root, items, F, order, j + 1, r)
      BY Zenon, <3>8, <3>9 DEF Tried
    <3> QED  BY Zenon, <3>1, <3>4, <3>10
  <2> QED  BY Zenon, <2>1, <2>2
<1>7. T = Nat
  <2>1. T \in SUBSET Nat /\ \A k \in T : k + 1 \in T
    BY Zenon, <1>6
  <2> HIDE DEF T
  <2> QED  BY <1>5, <2>1, NatSetInduction
<1>8. Tried(root, items, F, order, n, f[n])
  <2>1. n - 1 \in T /\ (n - 1) + 1 <= n /\ (n - 1) + 1 = n
    <3>1. n - 1 \in Nat /\ (n - 1) + 1 <= n /\ (n - 1) + 1 = n
      BY <1>2
    <3> QED  BY Zenon, <1>7, <3>1
  <2> QED  BY Zenon, <2>1
<1> QED  BY Zenon, <1>1, <1>3, <1>8

\* Whatever the join order, the rel that construct_rel_based_on_plan returns is a tree
\* of legal joins over the items of the order.
LEMMA ConstructTree ==
  ASSUME NEW root, NEW items, NEW F, NEW order, OrderOf(root, items, F, order),
         NEW rel, rel = construct_rel_based_on_plan(root, order), rel # NoRel
  PROVE  /\ Clump(root, items, F, rel)
         /\ rel.relids = UNION {ItemAt(root, order, i) : i \in 1 .. Len(order)}
<1>1. PICK tried, n : tried = try_merge_clump(root, order) /\ n = Len(tried)
  BY Zenon
<1>2. /\ ItemsApart(items) /\ Clumps(root, items, F, tried)
      /\ \A X : Avoids(tried, X) <=> \A m \in 1 .. Len(order) : ItemAt(root, order, m) \cap X = {}
  BY Zenon, <1>1, TryClumps DEF OrderOf, Tried
<1>3. n \in Nat
  BY <1>1, <1>2 DEF Clumps
<1>4. PICK f : /\ f[0] = <<>>
               /\ \A i \in 1 .. n : f[i] = force_merge_clump(root, f[i - 1], tried[i])
               /\ rel = Built(tried, f[n])
  <2>1. Len(try_merge_clump(root, order)) \in Nat
    BY Zenon, <1>1, <1>3
  <2>2. \E f : /\ f[0] = <<>>
               /\ \A i \in 0 + 1 .. Len(try_merge_clump(root, order)) :
                    f[i] = force_merge_clump(root, f[i - 1], try_merge_clump(root, order)[i])
               /\ construct_rel_based_on_plan(root, order) =
                    Built(try_merge_clump(root, order), f[Len(try_merge_clump(root, order))])
    BY <2>1, ConstructDef
  <2>3. 0 + 1 = 1
    OBVIOUS
  <2> QED  BY Zenon, <1>1, <2>2, <2>3
<1>5. /\ \A i \in 1 .. n : Clump(root, items, F, tried[i])
      /\ \A i, j \in 1 .. n : i # j => tried[i].relids \cap tried[j].relids = {}
  BY Zenon, <1>1, <1>2 DEF Clumps
<1> DEFINE Forced(i) == /\ Clumps(root, items, F, f[i])
                        /\ \A X : Avoids(f[i], X) <=> \A m \in 1 .. i : tried[m].relids \cap X = {}
           T == {k \in Nat : k <= n => Forced(k)}
<1>6. 0 \in T
  <2>1. PICK list : list = f[0]
    BY Zenon
  <2>2. list \in Seq(RelsOver(F)) /\ \A i \in 1 .. Len(list) : FALSE
    BY <1>4, <2>1
  <2>3. Clumps(root, items, F, list) /\ \A X : Avoids(list, X)
    BY Zenon, <2>2 DEF Clumps, Avoids
  <2>4. 0 \in Nat /\ \A m \in 1 .. 0 : FALSE
    OBVIOUS
  <2>5. Forced(0)
    BY Zenon, <2>1, <2>3, <2>4
  <2> QED  BY Zenon, <2>4, <2>5
<1>7. ASSUME NEW k \in T PROVE k + 1 \in T
  <2>1. k \in Nat /\ k + 1 \in Nat
    OBVIOUS
  <2>2. ASSUME k + 1 <= n PROVE Forced(k + 1)
    <3>1. /\ k <= n /\ k + 1 \in 1 .. n /\ (k + 1) - 1 = k
          /\ \A m : m \in 1 .. k + 1 <=> m \in 1 .. k \/ m = k + 1
          /\ \A m \in 1 .. k : m \in 1 .. n /\ m # k + 1
      BY <1>3, <2>1, <2>2
    <3>2. Forced(k)
      BY Zenon, <3>1
    <3>3. PICK list, last, r : list = f[k] /\ last = tried[k + 1] /\ r = f[k + 1]
      BY Zenon
    <3>4. /\ Clumps(root, items, F, list)
          /\ \A X : Avoids(list, X) <=> \A m \in 1 .. k : tried[m].relids \cap X = {}
      BY Zenon, <3>2, <3>3
    <3>5. Clump(root, items, F, last) /\ Avoids(list, last.relids)
      <4>1. Clump(root, items, F, last)
        BY Zenon, <1>5, <3>1, <3>3
      <4>2. \A m \in 1 .. k : tried[m].relids \cap last.relids = {}
        BY Zenon, <1>5, <3>1, <3>3
      <4> QED  BY Zenon, <3>4, <4>1, <4>2
    <3>6. r = force_merge_clump(root, list, last)
      BY Zenon, <1>4, <3>1, <3>3
    <3>7. Clumps(root, items, F, r) /\ Keeps(list, last, r)
      <4>1. Clumps(root, items, F, list) /\ ItemsApart(items)
        BY Zenon, <1>2, <3>4
      <4> HIDE DEF T, Forced
      <4> QED  BY <3>5, <3>6, <4>1, ForceClumps
    <3>8. ASSUME NEW X PROVE Avoids(r, X) <=> \A m \in 1 .. k + 1 : tried[m].relids \cap X = {}
      <4>1. Avoids(r, X) <=> Avoids(list, X) /\ tried[k + 1].relids \cap X = {}
        BY Zenon, <3>3, <3>7 DEF Keeps
      <4> QED  BY Zenon, <3>1, <3>4, <4>1
    <3> QED  BY Zenon, <3>3, <3>7, <3>8
  <2> QED  BY Zenon, <2>1, <2>2
<1>8. T = Nat
  <2>1. T \in SUBSET Nat /\ \A k \in T : k + 1 \in T
    BY Zenon, <1>7
  <2> HIDE DEF T
  <2> QED  BY <1>6, <2>1, NatSetInduction
<1>9. Clumps(root, items, F, f[n]) /\ \A X : Avoids(f[n], X) <=> Avoids(tried, X)
  <2>1. n \in T /\ n <= n
    BY <1>3, <1>8
  <2>2. Forced(n)
    BY Zenon, <2>1
  <2> QED  BY Zenon, <1>1, <2>2 DEF Avoids
<1>10. PICK list : /\ Clumps(root, items, F, list) /\ \A X : Avoids(list, X) <=> Avoids(tried, X)
                   /\ rel = IF Len(list) = 1 THEN list[1] ELSE NoRel
  <2>1. PICK forced : forced = f[n]
    BY Zenon
  <2>2. /\ rel = Built(tried, forced) /\ Clumps(root, items, F, forced) /\ Clumps(root, items, F, tried)
        /\ \A X : Avoids(forced, X) <=> Avoids(tried, X)
    BY Zenon, <1>2, <1>4, <1>9, <2>1
  <2> HIDE DEF T, Forced
  <2>3. CASE Len(tried) > 1
    <3>1. rel = IF Len(forced) = 1 THEN forced[1] ELSE NoRel
      BY Zenon, <2>2, <2>3 DEF Built
    <3> QED  BY Zenon, <2>2, <3>1
  <2>4. CASE ~ (Len(tried) > 1)
    <3>1. rel = IF Len(tried) = 1 THEN tried[1] ELSE NoRel
      BY Zenon, <2>2, <2>4 DEF Built
    <3> QED  BY Zenon, <2>2, <3>1
  <2> QED  BY Zenon, <2>3, <2>4
<1>11. Len(list) = 1 /\ rel = list[1] /\ \A i : i \in 1 .. 1 <=> i = 1
  BY <1>10
<1>12. Clump(root, items, F, rel)
  BY Zenon, <1>10, <1>11 DEF Clumps
<1>13. ASSUME NEW x PROVE x \in rel.relids <=> \E m \in 1 .. Len(order) : x \in ItemAt(root, order, m)
  <2>1. Avoids(list, {x}) <=> rel.relids \cap {x} = {}
    BY Zenon, <1>11 DEF Avoids
  <2>2. Avoids(list, {x}) <=> \A m \in 1 .. Len(order) : ItemAt(root, order, m) \cap {x} = {}
    BY Zenon, <1>2, <1>10
  <2>3. \A S : S \cap {x} = {} <=> x \notin S
    BY Zenon
  <2> QED  BY Zenon, <2>1, <2>2, <2>3
<1>14. rel.relids = UNION {ItemAt(root, order, i) : i \in 1 .. Len(order)}
  BY Zenon, <1>13
<1> QED  BY Zenon, <1>12, <1>14

-----------------------------------------------------------------------------
(* Queries of inner joins. *)

\* The rel of the first k items of a join order, joined from the left.
LeftDeep(root, order, k) ==
  [relids |-> UNION {ItemAt(root, order, l) : l \in 1 .. k},
   joins  |-> {{UNION {ItemAt(root, order, l) : l \in 1 .. m}, ItemAt(root, order, m + 1)} : m \in 1 .. k - 1}]

\* A join order of a query without special joins.
InnerOrder(root, items, F, order) ==
  OrderOf(root, items, F, order) /\ root.join_info_list = {} /\ NoRel \notin RelsOver(F)

LEMMA LegalInner == ASSUME NEW root, root.join_info_list = {}, NEW a, NEW b PROVE join_is_legal(root, a, b)
<1>1. PICK concerned, match, violated :
        /\ concerned = {sj \in root.join_info_list : ConcernedBy(sj, a, b)}
        /\ match = {sj \in concerned : Matches(sj, a, b)}
        /\ violated = {sj \in concerned \ match : ~ RhsViolatedBefore(sj, a, b)}
  BY Zenon
<1>2. match = {} /\ violated = {}
  BY Zenon, <1>1
<1>3. Cardinality(match) = 0
  BY Zenon, <1>2, FS_EmptySet
<1>4. Cardinality(match) <= 1
  BY <1>3
<1> QED  BY Zenon, <1>1, <1>2, <1>4 DEF join_is_legal

LEMMA LeftDeepType ==
  ASSUME NEW root, NEW items, NEW F, NEW order, OrderOf(root, items, F, order), NEW k \in 1 .. Len(order)
  PROVE  /\ LeftDeep(root, order, k) \in RelsOver(F) /\ LeafAt(root, order, k) \in RelsOver(F)
         /\ LeafAt(root, order, 1) = LeftDeep(root, order, 1)
<1>0. Len(order) \in Nat \ {0} /\ \A l \in 1 .. Len(order) : ItemAt(root, order, l) \in SUBSET F
  BY Zenon DEF OrderOf
<1>1. \A l \in 1 .. k : l \in 1 .. Len(order)
  BY <1>0
<1>2. \A m \in 1 .. k - 1 : m + 1 \in 1 .. Len(order) /\ \A l \in 1 .. m : l \in 1 .. Len(order)
  BY <1>0
<1>3. PICK relids : relids = UNION {ItemAt(root, order, l) : l \in 1 .. k}
  BY Zenon
<1>4. PICK joins : joins = {{UNION {ItemAt(root, order, l) : l \in 1 .. m}, ItemAt(root, order, m + 1)} : m \in 1 .. k - 1}
  BY Zenon
<1>5. relids \in SUBSET F
  BY Zenon, <1>0, <1>1, <1>3
<1>6. joins \in SUBSET SUBSET SUBSET F
  <2>1. ASSUME NEW m \in 1 .. k - 1
        PROVE  {UNION {ItemAt(root, order, l) : l \in 1 .. m}, ItemAt(root, order, m + 1)} \in SUBSET SUBSET F
    <3>1. UNION {ItemAt(root, order, l) : l \in 1 .. m} \in SUBSET F
      BY Zenon, <1>0, <1>2
    <3>2. ItemAt(root, order, m + 1) \in SUBSET F
      BY Zenon, <1>0, <1>2
    <3> QED  BY Zenon, <3>1, <3>2
  <2> QED  BY Zenon, <1>4, <2>1
<1>7. LeftDeep(root, order, k) = [relids |-> relids, joins |-> joins]
  BY Zenon, <1>3, <1>4 DEF LeftDeep
<1>8. LeftDeep(root, order, k) \in RelsOver(F)
  BY <1>5, <1>6, <1>7 DEF RelsOver
<1>9. LeafAt(root, order, k) \in RelsOver(F)
  <2>1. LeafAt(root, order, k) = BaseRel(ItemAt(root, order, k))
    BY Zenon DEF LeafAt, ItemAt
  <2>2. ItemAt(root, order, k) \in SUBSET F
    BY Zenon, <1>0
  <2> QED  BY <2>1, <2>2 DEF BaseRel, RelsOver
<1>10. LeafAt(root, order, 1) = LeftDeep(root, order, 1)
  <2>1. LeafAt(root, order, 1) = [relids |-> ItemAt(root, order, 1), joins |-> {}]
    BY Zenon DEF LeafAt, ItemAt, BaseRel
  <2>2. \A l : l \in 1 .. 1 <=> l = 1
    OBVIOUS
  <2>3. \A l : l \notin 1 .. 1 - 1
    OBVIOUS
  <2>4. UNION {ItemAt(root, order, l) : l \in 1 .. 1} = ItemAt(root, order, 1)
    BY Zenon, <2>2
  <2>5. {{UNION {ItemAt(root, order, l) : l \in 1 .. m}, ItemAt(root, order, m + 1)} : m \in 1 .. 1 - 1} = {}
    BY Zenon, <2>3
  <2> QED  BY Zenon, <2>1, <2>4, <2>5 DEF LeftDeep
<1> QED  BY Zenon, <1>8, <1>9, <1>10

\* The next item joins the rel of the ones before.
LEMMA LeftDeepJoin ==
  ASSUME NEW root, NEW items, NEW F, NEW order, InnerOrder(root, items, F, order),
         NEW k \in Nat, k >= 1, k + 1 <= Len(order)
  PROVE  /\ make_join_rel(root, LeftDeep(root, order, k), LeafAt(root, order, k + 1)) = LeftDeep(root, order, k + 1)
         /\ LeftDeep(root, order, k + 1) # NoRel
<1>0. OrderOf(root, items, F, order) /\ root.join_info_list = {} /\ NoRel \notin RelsOver(F)
  BY Zenon DEF InnerOrder
<1>1. Len(order) \in Nat \ {0}
  BY Zenon, <1>0 DEF OrderOf
<1>2. k + 1 \in 1 .. Len(order)
  BY <1>1
<1>3. LeftDeep(root, order, k + 1) \in RelsOver(F)
  BY <1>0, <1>2, LeftDeepType
<1>4. PICK R, x : R = UNION {ItemAt(root, order, l) : l \in 1 .. k} /\ x = ItemAt(root, order, k + 1)
  BY Zenon
<1>5. PICK J : J = {{UNION {ItemAt(root, order, l) : l \in 1 .. m}, ItemAt(root, order, m + 1)} : m \in 1 .. k - 1}
  BY Zenon
<1>6. PICK old, leaf : old = LeftDeep(root, order, k) /\ leaf = LeafAt(root, order, k + 1)
  BY Zenon
<1>7. old.relids = R /\ old.joins = J /\ leaf.relids = x /\ leaf.joins = {}
  <2>1. old = [relids |-> R, joins |-> J]
    BY Zenon, <1>4, <1>5, <1>6 DEF LeftDeep
  <2>2. leaf = [relids |-> x, joins |-> {}]
    BY Zenon, <1>4, <1>6 DEF LeafAt, ItemAt, BaseRel
  <2> QED  BY <2>1, <2>2
<1>8. make_join_rel(root, old, leaf) = [relids |-> R \cup x, joins |-> J \cup {} \cup {{R, x}}]
  <2>1. join_is_legal(root, R, x)
    BY <1>0, LegalInner
  <2> QED  BY Zenon, <1>7, <2>1 DEF make_join_rel
<1>9. UNION {ItemAt(root, order, l) : l \in 1 .. k + 1} = R \cup x
  <2>1. \A l : l \in 1 .. k + 1 <=> l \in 1 .. k \/ l = k + 1
    OBVIOUS
  <2> QED  BY Zenon, <1>4, <2>1
<1>10. {{UNION {ItemAt(root, order, l) : l \in 1 .. m}, ItemAt(root, order, m + 1)} : m \in 1 .. (k + 1) - 1}
         = J \cup {} \cup {{R, x}}
  <2>1. \A m : m \in 1 .. (k + 1) - 1 <=> m \in 1 .. k - 1 \/ m = k
    OBVIOUS
  <2> QED  BY Zenon, <1>4, <1>5, <2>1
<1>11. make_join_rel(root, old, leaf) = LeftDeep(root, order, k + 1)
  BY Zenon, <1>8, <1>9, <1>10 DEF LeftDeep
<1> QED  BY Zenon, <1>0, <1>3, <1>6, <1>11

\* try_merge_clump leaves the first k items joined, and the others as they are.
DeepThenLeaves(root, order, F, i, k, list) ==
  /\ list \in Seq(RelsOver(F)) /\ Len(list) = i - k + 1 /\ list[1] = LeftDeep(root, order, k)
  /\ \A j \in 2 .. i - k + 1 : list[j] = LeafAt(root, order, k + j - 1)

LEMMA Appended ==
  ASSUME NEW S, NEW seq \in Seq(S), NEW x \in S, NEW r, r = Append(seq, x)
  PROVE  /\ r \in Seq(S) /\ Len(r) = Len(seq) + 1 /\ r[Len(seq) + 1] = x
         /\ \A j \in 1 .. Len(seq) : r[j] = seq[j]
  OBVIOUS

LEMMA OnlyOne ==
  ASSUME NEW S, NEW x \in S PROVE <<x>> \in Seq(S) /\ Len(<<x>>) = 1 /\ <<x>>[1] = x
  OBVIOUS

LEMMA MergeLeafDeep ==
  ASSUME NEW root, NEW items, NEW F, NEW order, InnerOrder(root, items, F, order),
         NEW i \in Nat, i >= 1, i + 1 <= Len(order), NEW k \in 1 .. i, NEW list,
         DeepThenLeaves(root, order, F, i, k, list), NEW r, r = MergeLeaf(root, list, LeafAt(root, order, i + 1))
  PROVE  \E m \in 1 .. i + 1 : DeepThenLeaves(root, order, F, i + 1, m, r)
<1>0. OrderOf(root, items, F, order) /\ Len(order) \in Nat \ {0}
  BY Zenon DEF InnerOrder, OrderOf
<1>1. PICK leaf : leaf = LeafAt(root, order, i + 1)
  BY Zenon
<1>2. i + 1 \in 1 .. Len(order) /\ k \in 1 .. i + 1 /\ i + 1 \in 1 .. i + 1
  BY <1>0
<1>3. leaf \in RelsOver(F)
  BY <1>0, <1>1, <1>2, LeftDeepType
<1>4. /\ list \in Seq(RelsOver(F)) /\ Len(list) = i - k + 1 /\ list[1] = LeftDeep(root, order, k)
      /\ \A j \in 2 .. i - k + 1 : list[j] = LeafAt(root, order, k + j - 1)
  BY Zenon DEF DeepThenLeaves
<1>5. CASE r = Append(list, leaf)
  <2>1. r \in Seq(RelsOver(F)) /\ Len(r) = (i - k + 1) + 1 /\ r[(i - k + 1) + 1] = leaf
        /\ \A j \in 1 .. i - k + 1 : r[j] = list[j]
    <3>1. /\ r \in Seq(RelsOver(F)) /\ Len(r) = Len(list) + 1 /\ r[Len(list) + 1] = leaf
          /\ \A j \in 1 .. Len(list) : r[j] = list[j]
      <4>1. PICK S : S = RelsOver(F)
        BY Zenon
      <4>2. list \in Seq(S) /\ leaf \in S
        BY Zenon, <1>3, <1>4, <4>1
      <4>3. /\ r \in Seq(S) /\ Len(r) = Len(list) + 1 /\ r[Len(list) + 1] = leaf
            /\ \A j \in 1 .. Len(list) : r[j] = list[j]
        BY <1>5, <4>2, Appended
      <4> QED  BY Zenon, <4>1, <4>3
    <3> QED  BY Zenon, <1>4, <3>1
  <2>2. /\ (i - k + 1) + 1 = (i + 1) - k + 1 /\ 1 \in 1 .. i - k + 1 /\ k + ((i - k + 1) + 1) - 1 = i + 1
        /\ \A j \in 2 .. (i + 1) - k + 1 : j = (i - k + 1) + 1 \/ (j \in 2 .. i - k + 1 /\ j \in 1 .. i - k + 1)
    OBVIOUS
  <2>3. ASSUME NEW j \in 2 .. (i + 1) - k + 1 PROVE r[j] = LeafAt(root, order, k + j - 1)
    BY Zenon, <1>1, <1>4, <2>1, <2>2
  <2>4. DeepThenLeaves(root, order, F, i + 1, k, r)
    BY Zenon, <1>4, <2>1, <2>2, <2>3 DEF DeepThenLeaves
  <2> QED  BY Zenon, <1>2, <2>4
<1>6. CASE r # Append(list, leaf)
  <2>1. Len(list) = 1 /\ r = <<make_join_rel(root, list[1], leaf)>>
    BY Zenon, <1>1, <1>6 DEF MergeLeaf
  <2>2. k = i
    <3>1. i - k + 1 = 1
      BY Zenon, <1>4, <2>1
    <3> QED  BY <3>1
  <2>3. make_join_rel(root, LeftDeep(root, order, i), LeafAt(root, order, i + 1)) = LeftDeep(root, order, i + 1)
    BY <1>0, LeftDeepJoin
  <2>4. PICK deep : deep = LeftDeep(root, order, i + 1)
    BY Zenon
  <2>5. r = <<deep>>
    BY Zenon, <1>1, <1>4, <2>1, <2>2, <2>3, <2>4
  <2>6. deep \in RelsOver(F)
    BY <1>0, <1>2, <2>4, LeftDeepType
  <2>7. r \in Seq(RelsOver(F)) /\ Len(r) = 1 /\ r[1] = deep
    BY Zenon, <2>5, <2>6, OnlyOne
  <2>8. (i + 1) - (i + 1) + 1 = 1 /\ \A j \in 2 .. 1 : FALSE
    OBVIOUS
  <2>9. DeepThenLeaves(root, order, F, i + 1, i + 1, r)
    BY Zenon, <2>4, <2>7, <2>8 DEF DeepThenLeaves
  <2> QED  BY Zenon, <1>2, <2>9
<1> QED  BY Zenon, <1>5, <1>6

LEMMA TryDeep ==
  ASSUME NEW root, NEW items, NEW F, NEW order, InnerOrder(root, items, F, order)
  PROVE  \E k \in 1 .. Len(order) : DeepThenLeaves(root, order, F, Len(order), k, try_merge_clump(root, order))
<1>1. PICK n : n = Len(order)
  BY Zenon
<1>2. n \in Nat \ {0} /\ OrderOf(root, items, F, order)
  BY Zenon, <1>1 DEF OrderOf, InnerOrder
<1>3. PICK f : /\ f[1] = <<LeafAt(root, order, 1)>>
               /\ \A i \in 2 .. n : f[i] = MergeLeaf(root, f[i - 1], LeafAt(root, order, i))
               /\ try_merge_clump(root, order) = f[n]
  <2>1. Len(order) \in Nat \ {0}
    BY Zenon, <1>1, <1>2
  <2>2. \E f : /\ f[1] = <<LeafAt(root, order, 1)>>
               /\ \A i \in 2 .. Len(order) : f[i] = MergeLeaf(root, f[i - 1], LeafAt(root, order, i))
               /\ try_merge_clump(root, order) = f[Len(order)]
    BY <2>1, TryDef
  <2> QED  BY Zenon, <1>1, <2>2
<1> DEFINE Deep(i) == \E k \in 1 .. i : DeepThenLeaves(root, order, F, i, k, f[i])
           T == {m \in Nat : m + 1 <= n => Deep(m + 1)}
<1>4. 0 \in T
  <2>1. PICK leaf, list : leaf = LeafAt(root, order, 1) /\ list = f[1]
    BY Zenon
  <2>2. 1 \in 1 .. Len(order)
    BY <1>1, <1>2
  <2>3. leaf \in RelsOver(F) /\ leaf = LeftDeep(root, order, 1)
    BY <1>2, <2>1, <2>2, LeftDeepType
  <2>4. list \in Seq(RelsOver(F)) /\ Len(list) = 1 /\ list[1] = leaf
    BY <1>3, <2>1, <2>3
  <2>5. 1 - 1 + 1 = 1 /\ (\A j \in 2 .. 1 : FALSE) /\ 1 \in 1 .. 1 /\ 0 + 1 = 1 /\ 0 \in Nat
    OBVIOUS
  <2>6. DeepThenLeaves(root, order, F, 1, 1, list)
    BY Zenon, <2>3, <2>4, <2>5 DEF DeepThenLeaves
  <2> QED  BY Zenon, <2>1, <2>5, <2>6
<1>5. ASSUME NEW m \in T PROVE m + 1 \in T
  <2>1. m \in Nat /\ m + 1 \in Nat
    OBVIOUS
  <2>2. ASSUME (m + 1) + 1 <= n PROVE Deep((m + 1) + 1)
    <3>1. PICK i : i = m + 1
      BY Zenon
    <3>2. i \in Nat /\ i >= 1 /\ i <= n /\ i + 1 <= n /\ i + 1 \in 2 .. n /\ (i + 1) - 1 = i
      BY <1>2, <2>1, <2>2, <3>1
    <3>3. PICK k \in 1 .. i : DeepThenLeaves(root, order, F, i, k, f[i])
      BY Zenon, <3>1, <3>2
    <3>4. PICK list, r : list = f[i] /\ r = f[i + 1]
      BY Zenon
    <3>5. r = MergeLeaf(root, list, LeafAt(root, order, i + 1)) /\ DeepThenLeaves(root, order, F, i, k, list)
      BY Zenon, <1>3, <3>2, <3>3, <3>4
    <3>6. i + 1 <= Len(order)
      BY Zenon, <1>1, <3>2
    <3> HIDE DEF T, Deep
    <3>7. \E q \in 1 .. i + 1 : DeepThenLeaves(root, order, F, i + 1, q, r)
      BY <3>2, <3>5, <3>6, MergeLeafDeep
    <3> QED  BY Zenon, <3>1, <3>4, <3>7 DEF Deep
  <2> QED  BY Zenon, <2>1, <2>2
<1>6. T = Nat
  <2>1. T \in SUBSET Nat /\ \A k \in T : k + 1 \in T
    BY Zenon, <1>5
  <2> HIDE DEF T
  <2> QED  BY <1>4, <2>1, NatSetInduction
<1>7. Deep(n)
  <2>1. n - 1 \in Nat /\ (n - 1) + 1 <= n /\ (n - 1) + 1 = n
    BY <1>2
  <2>2. n - 1 \in T
    BY Zenon, <1>6, <2>1
  <2> QED  BY Zenon, <2>1, <2>2
<1> QED  BY Zenon, <1>1, <1>3, <1>7

LEMMA InsertFirst == ASSUME NEW list, list = <<>>, NEW rel PROVE InsertClump(list, rel) = <<rel>>
<1>1. PICK smaller : smaller = {i \in DOMAIN list : bms_num_members(list[i]) < bms_num_members(rel)}
  BY Zenon
<1>2. DOMAIN list = {} /\ Len(list) = 0
  BY DEF bms_num_members
<1>3. smaller = {} /\ Len(list) + 1 = 1
  <2>1. smaller = {}
    BY Zenon, <1>1, <1>2
  <2> QED  BY <1>2, <2>1
<1>4. PICK S : S = smaller \cup {Len(list) + 1}
  BY Zenon
<1>5. S = {1}
  BY Zenon, <1>3, <1>4
<1>6. PICK pos : pos = Min(S)
  BY Zenon
<1>7. pos = 1
  <2>1. S \in SUBSET Nat /\ S # {}
    BY <1>5
  <2>2. pos \in S
    BY Zenon, <1>6, <2>1, MinFacts
  <2> QED  BY Zenon, <1>5, <2>2
<1>8. InsertClump(list, rel) = SubSeq(list, 1, pos - 1) \o <<rel>> \o SubSeq(list, pos, Len(list))
  BY Zenon, <1>1, <1>4, <1>6 DEF InsertClump
<1>9. PICK one : one = <<rel>>
  BY Zenon
<1>10. one \in Seq({rel}) /\ Len(one) = 1 /\ one[1] = rel
  BY <1>9
<1>11. pos - 1 = 0
  BY <1>7
<1>12. SubSeq(list, 1, 0) = <<>> /\ SubSeq(list, 1, 0) = <<>>
  OBVIOUS
<1>13. InsertClump(list, rel) = <<>> \o one \o <<>>
  BY Zenon, <1>2, <1>7, <1>8, <1>9, <1>11, <1>12
<1>14. <<>> \o one \o <<>> = one
  BY <1>10
<1> QED  BY Zenon, <1>9, <1>13, <1>14

LEMMA ForceFirst == ASSUME NEW root, NEW rel PROVE force_merge_clump(root, <<>>, rel) = <<rel>>
<1>1. PICK list : list = <<>>
  BY Zenon
<1>2. Len(list) = 0 /\ Len(list) \in Nat
  BY <1>1
<1>3. PICK f : /\ f[0] = [others |-> list, rel |-> rel]
               /\ force_merge_clump(root, list, rel) = InsertClump(f[Len(list)].others, f[Len(list)].rel)
  <2>1. \E f : /\ f[0] = [others |-> list, rel |-> rel]
               /\ \A i \in 1 .. Len(list) : f[i] = MergeFirst(root, f[i - 1])
               /\ force_merge_clump(root, list, rel) = InsertClump(f[Len(list)].others, f[Len(list)].rel)
    BY <1>2, ForceDef
  <2> QED  BY Zenon, <2>1
<1>4. f[0].others = list /\ f[0].rel = rel
  BY <1>3
<1>5. force_merge_clump(root, list, rel) = InsertClump(list, rel)
  BY Zenon, <1>2, <1>3, <1>4
<1>6. InsertClump(list, rel) = <<rel>>
  BY Zenon, <1>1, InsertFirst
<1> QED  BY Zenon, <1>1, <1>5, <1>6

\* A rel is force-joined to the only clump there is, if that is legal.
LEMMA ForceOne ==
  ASSUME NEW root, NEW old, NEW rel, NEW joinrel, joinrel = make_join_rel(root, old, rel), joinrel # NoRel
  PROVE  force_merge_clump(root, <<old>>, rel) = <<joinrel>>
<1>1. PICK list : list = <<old>>
  BY Zenon
<1>2. Len(list) = 1 /\ Len(list) \in Nat /\ DOMAIN list = {1} /\ list[1] = old
  BY <1>1
<1>3. PICK f : /\ f[0] = [others |-> list, rel |-> rel]
               /\ f[1] = MergeFirst(root, f[0])
               /\ force_merge_clump(root, list, rel) = InsertClump(f[1].others, f[1].rel)
  <2>1. \E f : /\ f[0] = [others |-> list, rel |-> rel]
               /\ \A i \in 1 .. Len(list) : f[i] = MergeFirst(root, f[i - 1])
               /\ force_merge_clump(root, list, rel) = InsertClump(f[Len(list)].others, f[Len(list)].rel)
    <3>1. Len(list) \in Nat
      BY Zenon, <1>2
    <3> QED  BY <3>1, ForceDef
  <2>2. 1 \in 1 .. 1 /\ 1 - 1 = 0
    OBVIOUS
  <2> QED  BY Zenon, <1>2, <2>1, <2>2
<1>4. PICK clump : clump = f[0]
  BY Zenon
<1>5. clump.others = list /\ clump.rel = rel
  BY <1>3, <1>4
<1>6. PICK legal : legal = {i \in DOMAIN list : make_join_rel(root, list[i], rel) # NoRel}
  BY Zenon
<1>7. legal = {1}
  BY Zenon, <1>2, <1>6
<1>8. PICK pos : pos = Min(legal)
  BY Zenon
<1>9. pos = 1
  <2>1. legal \in SUBSET Nat /\ legal # {}
    BY <1>7
  <2>2. pos \in legal
    BY Zenon, <1>8, <2>1, MinFacts
  <2> QED  BY Zenon, <1>7, <2>2
<1>10. MergeFirst(root, clump) =
         [others |-> SubSeq(list, 1, pos - 1) \o SubSeq(list, pos + 1, Len(list)),
          rel    |-> make_join_rel(root, list[pos], rel)]
  BY Zenon, <1>5, <1>6, <1>7, <1>8 DEF MergeFirst
<1>11. SubSeq(list, 1, pos - 1) \o SubSeq(list, pos + 1, Len(list)) = <<>>
  <2>1. pos - 1 = 0 /\ pos + 1 = 2
    BY <1>9
  <2>2. list \in Seq({old})
    BY <1>1
  <2>3. SubSeq(list, 1, 0) = <<>> /\ SubSeq(list, 2, 1) = <<>>
    BY <1>2, <2>2
  <2>4. <<>> \o <<>> = <<>>
    OBVIOUS
  <2> QED  BY Zenon, <1>2, <2>1, <2>3, <2>4
<1>12. MergeFirst(root, clump) = [others |-> <<>>, rel |-> joinrel]
  BY Zenon, <1>2, <1>9, <1>10, <1>11
<1>13. f[1].others = <<>> /\ f[1].rel = joinrel
  <2>1. f[1] = [others |-> <<>>, rel |-> joinrel]
    BY Zenon, <1>3, <1>4, <1>12
  <2> QED  BY <2>1
<1>14. InsertClump(f[1].others, f[1].rel) = <<joinrel>>
  BY Zenon, <1>13, InsertFirst
<1> QED  BY Zenon, <1>1, <1>3, <1>14

\* For inner joins, construct_rel_based_on_plan builds the left-deep rel of the order.
LEMMA ConstructDeep ==
  ASSUME NEW root, NEW items, NEW F, NEW order, InnerOrder(root, items, F, order)
  PROVE  construct_rel_based_on_plan(root, order) = LeftDeep(root, order, Len(order))
<1>1. PICK tried, n : tried = try_merge_clump(root, order) /\ n = Len(order)
  BY Zenon
<1>2. n \in Nat \ {0}
  BY Zenon, <1>1 DEF InnerOrder, OrderOf
<1>3. PICK k \in 1 .. n : DeepThenLeaves(root, order, F, n, k, tried)
  BY Zenon, <1>1, TryDeep
<1>4. PICK len : len = n - k + 1
  BY Zenon
<1>5. /\ Len(tried) = len /\ len \in Nat \ {0} /\ tried[1] = LeftDeep(root, order, k)
      /\ \A j \in 2 .. len : tried[j] = LeafAt(root, order, k + j - 1)
      /\ k \in Nat /\ k >= 1 /\ k <= n
  <2>1. len \in Nat \ {0} /\ k \in Nat /\ k >= 1 /\ k <= n
    BY <1>2, <1>4
  <2> QED  BY Zenon, <1>3, <1>4, <2>1 DEF DeepThenLeaves
<1>6. PICK f : /\ f[0] = <<>>
               /\ \A i \in 1 .. len : f[i] = force_merge_clump(root, f[i - 1], tried[i])
               /\ construct_rel_based_on_plan(root, order) = Built(tried, f[len])
  <2>1. Len(try_merge_clump(root, order)) \in Nat
    BY Zenon, <1>1, <1>5
  <2>2. \E f : /\ f[0] = <<>>
               /\ \A i \in 1 .. Len(try_merge_clump(root, order)) :
                    f[i] = force_merge_clump(root, f[i - 1], try_merge_clump(root, order)[i])
               /\ construct_rel_based_on_plan(root, order) =
                    Built(try_merge_clump(root, order), f[Len(try_merge_clump(root, order))])
    BY <2>1, ConstructDef
  <2> QED  BY Zenon, <1>1, <1>5, <2>2
<1> DEFINE T == {m \in Nat : m + 1 <= len => f[m + 1] = <<LeftDeep(root, order, k + m)>>}
<1>7. 0 \in T
  <2>1. 1 \in 1 .. len /\ 1 - 1 = 0 /\ 0 + 1 = 1 /\ 0 \in Nat /\ k + 0 = k
    BY <1>5
  <2>2. f[1] = force_merge_clump(root, <<>>, tried[1])
    BY Zenon, <1>6, <2>1
  <2>3. f[1] = <<LeftDeep(root, order, k)>>
    BY Zenon, <1>5, <2>2, ForceFirst
  <2> QED  BY Zenon, <2>1, <2>3
<1>8. ASSUME NEW m \in T PROVE m + 1 \in T
  <2>1. m \in Nat /\ m + 1 \in Nat
    OBVIOUS
  <2>2. ASSUME (m + 1) + 1 <= len PROVE f[(m + 1) + 1] = <<LeftDeep(root, order, k + (m + 1))>>
    <3>1. /\ m + 1 <= len /\ (m + 1) + 1 \in 1 .. len /\ (m + 1) + 1 \in 2 .. len /\ ((m + 1) + 1) - 1 = m + 1
          /\ k + ((m + 1) + 1) - 1 = (k + m) + 1 /\ k + (m + 1) = (k + m) + 1
          /\ k + m \in Nat /\ k + m >= 1 /\ (k + m) + 1 <= n
      BY <1>2, <1>4, <1>5, <2>1, <2>2
    <3>2. f[m + 1] = <<LeftDeep(root, order, k + m)>>
      BY Zenon, <3>1
    <3>3. tried[(m + 1) + 1] = LeafAt(root, order, (k + m) + 1)
      BY Zenon, <1>5, <3>1
    <3>4. f[(m + 1) + 1] = force_merge_clump(root, <<LeftDeep(root, order, k + m)>>, LeafAt(root, order, (k + m) + 1))
      BY Zenon, <1>6, <3>1, <3>2, <3>3
    <3> HIDE DEF T
    <3>5. PICK p, old, leaf, deep : /\ p = k + m /\ old = LeftDeep(root, order, k + m)
                                    /\ leaf = LeafAt(root, order, (k + m) + 1)
                                    /\ deep = LeftDeep(root, order, (k + m) + 1)
      BY Zenon
    <3>6. deep = make_join_rel(root, old, leaf) /\ deep # NoRel
      <4>1. p \in Nat /\ p >= 1 /\ p + 1 <= Len(order)
        BY Zenon, <1>1, <3>1, <3>5
      <4>2. /\ make_join_rel(root, LeftDeep(root, order, p), LeafAt(root, order, p + 1)) = LeftDeep(root, order, p + 1)
            /\ LeftDeep(root, order, p + 1) # NoRel
        BY <4>1, LeftDeepJoin
      <4> QED  BY Zenon, <3>5, <4>2
    <3>7. force_merge_clump(root, <<old>>, leaf) = <<deep>>
      BY Zenon, <3>6, ForceOne
    <3> QED  BY Zenon, <3>1, <3>4, <3>5, <3>7
  <2> QED  BY Zenon, <2>1, <2>2
<1>9. T = Nat
  <2>1. T \in SUBSET Nat /\ \A m \in T : m + 1 \in T
    BY Zenon, <1>8
  <2> HIDE DEF T
  <2> QED  BY <1>7, <2>1, NatSetInduction
<1>10. f[len] = <<LeftDeep(root, order, n)>>
  <2>1. len - 1 \in Nat /\ (len - 1) + 1 <= len /\ (len - 1) + 1 = len /\ k + (len - 1) = n
    BY <1>2, <1>4, <1>5
  <2>2. len - 1 \in T
    BY Zenon, <1>9, <2>1
  <2> QED  BY Zenon, <2>1, <2>2
<1> HIDE DEF T
<1>11. PICK deep, forced : deep = LeftDeep(root, order, n) /\ forced = f[len]
  BY Zenon
<1>12. forced = <<deep>>
  BY Zenon, <1>10, <1>11
<1>13. Len(forced) = 1 /\ forced[1] = deep
  BY <1>12
<1>14. Len(tried) > 1 \/ (Len(tried) = 1 /\ tried[1] = deep)
  <2>1. len > 1 \/ (len = 1 /\ k = n)
    BY <1>2, <1>4, <1>5
  <2> QED  BY Zenon, <1>5, <1>11, <2>1
<1>15. Built(tried, forced) = deep
  <2>1. ~ (1 > 1)
    OBVIOUS
  <2> QED  BY Zenon, <1>13, <1>14, <2>1 DEF Built
<1> QED  BY Zenon, <1>1, <1>6, <1>11, <1>15
=============================================================================
