---------------------- MODULE ParallelJoinSearchProofs ----------------------
(***************************************************************************)
(* Proofs about ParallelJoinSearch, for every number of relations, every   *)
(* query and every cost function.                                          *)
(***************************************************************************)
EXTENDS ParallelJoinSearch, FiniteSetTheorems, SequenceTheorems, TLAPS

-----------------------------------------------------------------------------
(* Sets of relations. *)

LEMMA RelsFinite ==
  /\ IsFiniteSet(Rels)
  /\ Cardinality(Rels) = levels_needed
  /\ \A S \in SUBSET Rels : IsFiniteSet(S) /\ Cardinality(S) \in Nat
<1>1. IsFiniteSet(Rels) /\ Cardinality(Rels) = levels_needed
  BY FS_Interval, LevelsAssumption DEF Rels
<1> QED
  BY <1>1, FS_Subset, FS_CardinalityType

LEMMA RemoveOne ==
  ASSUME NEW S \in SUBSET Rels, NEW u \in S
  PROVE  /\ S \ {u} \in SUBSET Rels
         /\ Cardinality(S \ {u}) = Cardinality(S) - 1
         /\ Cardinality(S) > 1 => S \ {u} # {}
<1>1. IsFiniteSet(S)
  BY RelsFinite
<1>2. Cardinality(S \ {u}) = Cardinality(S) - 1
  BY <1>1, FS_RemoveElement
<1>3. Cardinality({}) = 0
  BY FS_EmptySet
<1> QED
  BY <1>2, <1>3, RelsFinite

LEMMA SingletonCard == \A r : Cardinality({r}) = 1
  BY FS_Singleton

LEMMA NonSingleton ==
  ASSUME NEW S \in SUBSET Rels, Cardinality(S) > 1
  PROVE  S # {} /\ \A r : S # {r}
<1>1. Cardinality({}) = 0
  BY FS_EmptySet
<1>2. ASSUME NEW r, S = {r} PROVE FALSE
  BY <1>2, SingletonCard
<1> QED
  BY <1>1, <1>2

(***************************************************************************)
(* A nonempty set that is not a singleton has at least two members.        *)
(***************************************************************************)
LEMMA SmallSets ==
  ASSUME NEW S \in SUBSET Rels, S # {}, ~ (Cardinality(S) > 1)
  PROVE  \E r \in Rels : S = {r}
<1>1. PICK r \in S : TRUE
  OBVIOUS
<1>2. Cardinality(S \ {r}) = Cardinality(S) - 1 /\ S \ {r} \in SUBSET Rels
  BY RemoveOne
<1>3. Cardinality(S \ {r}) = 0
  BY <1>2, RelsFinite
<1>4. S \ {r} = {}
  BY <1>2, <1>3, RelsFinite, FS_EmptySet
<1> QED
  BY <1>4

-----------------------------------------------------------------------------
(* Join orders. *)

LEMMA LeafOrder ==
  ASSUME NEW r \in Rels
  PROVE  create_leaf(r) \in Orders({r})
<1> DEFINE o == <<r>>
<1>1. Cardinality({r}) = 1
  BY SingletonCard
<1>2. o \in [1 .. 1 -> {r}]
  OBVIOUS
<1>3. \A k, l \in 1 .. 1 : k = l
  OBVIOUS
<1>4. o \in [1 .. Cardinality({r}) -> {r}]
  BY <1>1, <1>2
<1>5. \A k, l \in 1 .. Cardinality({r}) : o[k] = o[l] => k = l
  BY <1>1, <1>3
<1> HIDE DEF o
<1>6. o \in Orders({r})
  BY <1>4, <1>5 DEF Orders
<1> QED
  BY <1>6 DEF o, create_leaf

LEMMA LeafOrderOnly ==
  ASSUME NEW r \in Rels, NEW o \in Orders({r})
  PROVE  o = create_leaf(r)
<1>1. o \in [1 .. 1 -> {r}]
  BY SingletonCard DEF Orders
<1> QED
  BY <1>1 DEF create_leaf

LEMMA OrderIsSeq ==
  ASSUME NEW S \in SUBSET Rels, NEW o \in Orders(S)
  PROVE  o \in Seq(Rels) /\ o \in Seq(S) /\ Len(o) = Cardinality(S)
<1>1. o \in [1 .. Cardinality(S) -> S] /\ Cardinality(S) \in Nat
  BY RelsFinite DEF Orders
<1>2. o \in Seq(S) /\ Len(o) = Cardinality(S)
  BY <1>1
<1> QED
  BY <1>2

LEMMA MergeLeaf ==
  ASSUME NEW T, NEW o \in Seq(T), NEW u \in T
  PROVE  /\ merge(o, create_leaf(u)) \in Seq(T)
         /\ Len(merge(o, create_leaf(u))) = Len(o) + 1
         /\ merge(o, create_leaf(u))[Len(o) + 1] = u
         /\ \A k \in 1 .. Len(o) : merge(o, create_leaf(u))[k] = o[k]
<1>1. merge(o, create_leaf(u)) = Append(o, u)
  BY AppendIsConcat DEF merge, create_leaf
<1> QED
  BY <1>1, AppendProperties

LEMMA OrderMerge ==
  ASSUME NEW S \in SUBSET Rels, NEW u \in S, NEW o \in Orders(S \ {u})
  PROVE  /\ merge(o, create_leaf(u)) \in Orders(S)
         /\ \A k \in 1 .. Cardinality(S) - 1 :
              merge(o, create_leaf(u))[k] = o[k] /\ o[k] \in S \ {u}
         /\ merge(o, create_leaf(u))[Cardinality(S)] = u
<1> DEFINE n == Cardinality(S) - 1
           p == merge(o, create_leaf(u))
<1>1. n \in Nat /\ n = Cardinality(S \ {u}) /\ Cardinality(S) = n + 1 /\ S \ {u} \in SUBSET Rels
  BY RemoveOne, RelsFinite
<1>2. o \in [1 .. n -> S \ {u}] /\ \A k, l \in 1 .. n : o[k] = o[l] => k = l
  BY <1>1 DEF Orders
<1> HIDE DEF n
<1>3. o \in Seq(S) /\ Len(o) = n
  <2>1. n \in Nat /\ o \in [1 .. n -> S]
    BY <1>1, <1>2
  <2> QED
    BY <2>1
<1>4. /\ p \in Seq(S)
      /\ Len(p) = n + 1
      /\ p[n + 1] = u
      /\ \A k \in 1 .. n : p[k] = o[k]
  <2>1. /\ p \in Seq(S)
        /\ Len(p) = Len(o) + 1
        /\ p[Len(o) + 1] = u
        /\ \A k \in 1 .. Len(o) : p[k] = o[k]
    <3>1. o \in Seq(S)
      BY <1>3
    <3> QED
      BY <3>1, MergeLeaf
  <2> HIDE DEF p
  <2> QED
    BY <1>3, <2>1
<1> HIDE DEF p
<1>5. p \in [1 .. n + 1 -> S]
  BY <1>4, LenProperties
<1>6. \A k \in 1 .. n : p[k] \in S \ {u}
  BY <1>2, <1>4
<1>7. \A k, l \in 1 .. n + 1 : p[k] = p[l] => k = l
  <2> SUFFICES ASSUME NEW k \in 1 .. n + 1, NEW l \in 1 .. n + 1, p[k] = p[l]
               PROVE  k = l
    OBVIOUS
  <2>1. CASE k \in 1 .. n /\ l \in 1 .. n
    BY <2>1, <1>2, <1>4
  <2>2. CASE k = n + 1 /\ l \in 1 .. n
    BY <2>2, <1>4, <1>6
  <2>3. CASE l = n + 1 /\ k \in 1 .. n
    BY <2>3, <1>4, <1>6
  <2> QED
    BY <1>1, <2>1, <2>2, <2>3
<1>8. p \in Orders(S)
  BY <1>1, <1>5, <1>7 DEF Orders
<1> QED
  BY <1>1, <1>4, <1>6, <1>8 DEF n, p

-----------------------------------------------------------------------------
(* The constraints of a partition. *)

(***************************************************************************)
(* A constraint orders the two relations of one pair.                      *)
(***************************************************************************)
LEMMA ConstraintShape ==
  ASSUME NEW w \in Nat, NEW c \in part_constraints(w)
  PROVE  \E j \in Nat :
           /\ 2*j + 1 < levels_needed
           /\ c = PairConstraint(w, j)
           /\ \/ c[1] = 2*j /\ c[2] = 2*j + 1
              \/ c[1] = 2*j + 1 /\ c[2] = 2*j
<1>1. PICK j \in ConstrainedPairs : c = PairConstraint(w, j)
  BY DEF part_constraints
<1>2. j \in Nat /\ 2*j + 1 < levels_needed
  BY DEF ConstrainedPairs
<1>3. \/ c[1] = 2*j /\ c[2] = 2*j + 1
      \/ c[1] = 2*j + 1 /\ c[2] = 2*j
  BY <1>1 DEF PairConstraint
<1> QED
  BY <1>1, <1>2, <1>3

LEMMA ConstraintRels ==
  ASSUME NEW w \in Nat, NEW c \in part_constraints(w)
  PROVE  c[1] \in Rels /\ c[2] \in Rels /\ c[1] # c[2]
<1>1. PICK j \in Nat :
        /\ 2*j + 1 < levels_needed
        /\ \/ c[1] = 2*j /\ c[2] = 2*j + 1
           \/ c[1] = 2*j + 1 /\ c[2] = 2*j
  BY ConstraintShape
<1> QED
  BY <1>1, LevelsAssumption DEF Rels

(***************************************************************************)
(* No relation is in two constraints.                                      *)
(***************************************************************************)
LEMMA ConstraintsDisjoint ==
  ASSUME NEW w \in Nat, NEW c \in part_constraints(w), NEW d \in part_constraints(w),
         c[2] = d[1]
  PROVE  FALSE
<1>1. PICK j \in Nat : /\ c = PairConstraint(w, j)
                       /\ \/ c[1] = 2*j /\ c[2] = 2*j + 1
                          \/ c[1] = 2*j + 1 /\ c[2] = 2*j
  BY ConstraintShape
<1>2. PICK k \in Nat : /\ d = PairConstraint(w, k)
                       /\ \/ d[1] = 2*k /\ d[2] = 2*k + 1
                          \/ d[1] = 2*k + 1 /\ d[2] = 2*k
  BY ConstraintShape
<1>3. j = k
  BY <1>1, <1>2
<1>4. c = d
  BY <1>1, <1>2, <1>3
<1> QED
  BY <1>4, ConstraintRels

(***************************************************************************)
(* try_splits always finds a relation to put on the right.                 *)
(***************************************************************************)
LEMMA SomeValid ==
  ASSUME NEW w \in Nat, NEW S \in SUBSET Rels, S # {}
  PROVE  \E u \in S : valid(part_constraints(w), S, u)
<1>1. PICK u \in S : TRUE
  OBVIOUS
<1>2. CASE valid(part_constraints(w), S, u)
  BY <1>2
<1>3. CASE ~ valid(part_constraints(w), S, u)
  <2>1. PICK c \in part_constraints(w) : c[1] = u /\ c[2] \in S
    BY <1>3 DEF valid
  <2>2. \A d \in part_constraints(w) : d[1] # c[2]
    BY ConstraintsDisjoint
  <2> QED
    BY <2>1, <2>2 DEF valid
<1> QED
  BY <1>2, <1>3

(***************************************************************************)
(* Taking a valid relation away leaves an admissible subset.               *)
(***************************************************************************)
LEMMA RemoveValid ==
  ASSUME NEW cs, NEW S \in SUBSET Rels, Admissible(cs, S), Cardinality(S) > 1,
         NEW u \in S, valid(cs, S, u)
  PROVE  Admissible(cs, S \ {u})
<1>1. S \ {u} # {}
  BY RemoveOne
<1>2. ASSUME NEW c \in cs, c[2] \in S \ {u} PROVE c[1] \in S \ {u}
  BY <1>2 DEF valid, Admissible, Closed
<1> QED
  BY <1>1, <1>2 DEF Admissible, Closed

(***************************************************************************)
(* Joining a valid relation last keeps to the constraints.                 *)
(***************************************************************************)
LEMMA RespectsMerge ==
  ASSUME NEW w \in Nat, NEW S \in SUBSET Rels, NEW u \in S,
         valid(part_constraints(w), S, u),
         NEW o \in AdmissibleOrders(part_constraints(w), S \ {u})
  PROVE  merge(o, create_leaf(u)) \in AdmissibleOrders(part_constraints(w), S)
<1> DEFINE p == merge(o, create_leaf(u))
           n == Cardinality(S)
<1>1. o \in Orders(S \ {u}) /\ Respects(part_constraints(w), o)
  BY DEF AdmissibleOrders
<1>2. /\ p \in Orders(S)
      /\ \A k \in 1 .. n - 1 : p[k] = o[k] /\ o[k] \in S \ {u}
      /\ p[n] = u
  BY <1>1, OrderMerge
<1>3. n \in Nat /\ DOMAIN p = 1 .. n /\ DOMAIN o = 1 .. n - 1
  BY <1>1, <1>2, RemoveOne, RelsFinite DEF Orders
<1> HIDE DEF p, n
<1>4. ASSUME NEW c \in part_constraints(w), NEW k \in 1 .. n, NEW l \in 1 .. n,
             p[k] = c[1], p[l] = c[2]
      PROVE  k < l
  <2>1. CASE k \in 1 .. n - 1 /\ l \in 1 .. n - 1
    BY <1>1, <1>2, <1>3, <1>4, <2>1 DEF Respects
  <2>2. CASE k = n
    <3>1. c[1] = u /\ p[l] \in S
      BY <1>2, <1>3, <1>4, <2>2
    <3> QED
      BY <3>1, <1>4 DEF valid
  <2>3. CASE k \in 1 .. n - 1 /\ l = n
    BY <2>3, <1>3
  <2> QED
    BY <1>3, <2>1, <2>2, <2>3
<1> QED
  BY <1>2, <1>3, <1>4 DEF AdmissibleOrders, Respects, p

-----------------------------------------------------------------------------
(* The admissible subsets. *)

(***************************************************************************)
(* cartesian_product puts together the admissible subsets of two sets that *)
(* no constraint connects.                                                 *)
(***************************************************************************)
LEMMA ProductExact ==
  ASSUME NEW cs, NEW A, NEW B, B # {},
         \A c \in cs : c[2] \in A => c[1] \in A /\ c[1] \notin B,
         \A c \in cs : c[2] \in B => c[1] \in B /\ c[1] \notin A
  PROVE  cartesian_product(AdmissibleSubsets(cs, A), AdmissibleSubsets(cs, B))
           = AdmissibleSubsets(cs, A \cup B)
<1> DEFINE a == AdmissibleSubsets(cs, A)
           b == AdmissibleSubsets(cs, B)
           r == AdmissibleSubsets(cs, A \cup B)
<1>1. B \in b
  BY DEF AdmissibleSubsets, Admissible, Closed
<1>2. ASSUME NEW S \in r
      PROVE  S \in a \/ S \in b \/ \E x \in a, y \in b : S = x \cup y
  <2> DEFINE x == S \cap A
             y == S \cap B
  <2>1. S = x \cup y
    BY <1>2 DEF AdmissibleSubsets
  <2>2. S # {} /\ Closed(cs, S)
    BY <1>2 DEF AdmissibleSubsets, Admissible
  <2>3. x \in SUBSET A /\ Closed(cs, x)
    BY <2>2 DEF Closed
  <2>4. y \in SUBSET B /\ Closed(cs, y)
    BY <2>2 DEF Closed
  <2>5. x # {} => x \in a
    BY <2>3 DEF AdmissibleSubsets, Admissible
  <2>6. y # {} => y \in b
    BY <2>4 DEF AdmissibleSubsets, Admissible
  <2> HIDE DEF x, y, a, b, r
  <2>7. CASE x = {}
    BY <2>1, <2>2, <2>6, <2>7
  <2>8. CASE y = {}
    BY <2>1, <2>2, <2>5, <2>8
  <2> QED
    BY <2>1, <2>5, <2>6, <2>7, <2>8
<1>3. a \subseteq r /\ b \subseteq r
  BY DEF AdmissibleSubsets
<1>4. ASSUME NEW x \in a, NEW y \in b PROVE x \cup y \in r
  BY DEF AdmissibleSubsets, Admissible, Closed
<1> HIDE DEF a, b, r
<1>5. a = {} => cartesian_product(a, b) = r
  <2>1. a = {} => b = r
    BY <1>2, <1>3
  <2> QED
    BY <2>1 DEF cartesian_product
<1>6. a # {} => cartesian_product(a, b) = r
  <2> DEFINE m == a \cup b \cup {x \cup y : x \in a, y \in b}
  <2>1. a # {} => cartesian_product(a, b) = m
    BY <1>1 DEF cartesian_product
  <2>2. m \subseteq r
    BY <1>3, <1>4
  <2>3. r \subseteq m
    BY <1>2
  <2> HIDE DEF m
  <2> QED
    BY <2>1, <2>2, <2>3
<1> QED
  BY <1>5, <1>6 DEF a, b, r

(***************************************************************************)
(* One pair of adm_join_results.                                           *)
(***************************************************************************)
LEMMA PowerSetExact ==
  ASSUME NEW w \in Nat, NEW j \in Nat, 2*j + 1 < levels_needed
  PROVE  constrained_power_set(part_constraints(w), 2*j, 2*j + 1)
           = AdmissibleSubsets(part_constraints(w), {2*j, 2*j + 1})
<1> DEFINE cs == part_constraints(w)
           q1 == 2*j
           q2 == 2*j + 1
<1>1. \A c \in cs : /\ c[2] \in {q1, q2} => c[1] \in {q1, q2}
                    /\ c[1] # c[2]
  BY ConstraintShape, ConstraintRels
<1>2. q1 # q2
  OBVIOUS
<1> HIDE DEF cs, q1, q2
<1>3. ASSUME NEW S \in constrained_power_set(cs, q1, q2)
      PROVE  S \in AdmissibleSubsets(cs, {q1, q2})
  <2>1. CASE S = {q1, q2}
    BY <1>1, <2>1 DEF AdmissibleSubsets, Admissible, Closed
  <2>2. CASE S = {q1} /\ \A c \in cs : {c[2]} # S
    BY <2>2 DEF AdmissibleSubsets, Admissible, Closed
  <2>3. CASE S = {q2} /\ \A c \in cs : {c[2]} # S
    BY <2>3 DEF AdmissibleSubsets, Admissible, Closed
  <2> QED
    BY <1>3, <2>1, <2>2, <2>3 DEF constrained_power_set
<1>4. ASSUME NEW S \in AdmissibleSubsets(cs, {q1, q2})
      PROVE  S \in constrained_power_set(cs, q1, q2)
  <2>1. S # {} /\ S \in SUBSET {q1, q2} /\ \A c \in cs : c[2] \in S => c[1] \in S
    BY <1>4 DEF AdmissibleSubsets, Admissible, Closed
  <2>2. S = {q1, q2} \/ S = {q1} \/ S = {q2}
    BY <2>1
  <2>3. ASSUME S # {q1, q2}, NEW c \in cs PROVE {c[2]} # S
    BY <1>1, <2>1, <2>2, <2>3
  <2> QED
    BY <2>2, <2>3 DEF constrained_power_set
<1>5. constrained_power_set(cs, q1, q2) = AdmissibleSubsets(cs, {q1, q2})
  BY <1>3, <1>4 DEF AdmissibleSubsets, constrained_power_set
<1> QED
  BY <1>5 DEF cs, q1, q2

LEMMA AdmPairExact ==
  ASSUME NEW w \in Nat, NEW j \in Nat, 2*j + 1 < levels_needed
  PROVE  cartesian_product(AdmissibleSubsets(part_constraints(w), 0 .. 2*j - 1),
                           constrained_power_set(part_constraints(w), 2*j, 2*j + 1))
           = AdmissibleSubsets(part_constraints(w), 0 .. 2*(j + 1) - 1)
<1> DEFINE cs == part_constraints(w)
           A == 0 .. 2*j - 1
           B == {2*j, 2*j + 1}
<1>1. \A c \in cs : c[2] \in A => c[1] \in A /\ c[1] \notin B
  BY ConstraintShape
<1>2. \A c \in cs : c[2] \in B => c[1] \in B /\ c[1] \notin A
  BY ConstraintShape
<1>3. cartesian_product(AdmissibleSubsets(cs, A), AdmissibleSubsets(cs, B))
        = AdmissibleSubsets(cs, A \cup B)
  <2> HIDE DEF cs, A
  <2> QED
    BY <1>1, <1>2, ProductExact
<1>4. A \cup B = 0 .. 2*(j + 1) - 1
  OBVIOUS
<1> QED
  BY <1>3, <1>4, PowerSetExact

(***************************************************************************)
(* The unpaired last relation of adm_join_results.                         *)
(***************************************************************************)
LEMMA AdmLastExact ==
  ASSUME NEW w \in Nat, NEW j \in Nat, 2*j + 1 = levels_needed
  PROVE  cartesian_product(AdmissibleSubsets(part_constraints(w), 0 .. 2*j - 1), {{2*j}})
           = AdmissibleSubsets(part_constraints(w), Rels)
<1> DEFINE cs == part_constraints(w)
           A == 0 .. 2*j - 1
           B == {2*j}
<1>1. \A c \in cs : c[2] \in A /\ c[1] \in A
  BY ConstraintShape
<1>2. B \cap A = {}
  OBVIOUS
<1>3. A \cup B = Rels
  BY DEF Rels
<1> HIDE DEF cs, A
<1>4. AdmissibleSubsets(cs, B) = {B}
  BY <1>1, <1>2 DEF AdmissibleSubsets, Admissible, Closed
<1>5. cartesian_product(AdmissibleSubsets(cs, A), AdmissibleSubsets(cs, B))
        = AdmissibleSubsets(cs, A \cup B)
  BY <1>1, <1>2, ProductExact
<1> QED
  BY <1>3, <1>4, <1>5 DEF cs, A

-----------------------------------------------------------------------------
(* The inductive invariant. *)

LEMMA PlanType ==
  ASSUME NEW S \in SUBSET Rels, S # {}, NEW o \in Orders(S), NEW r \in Queries
  PROVE  create_parallel_plan(o, Eval(r, o)) \in Plan
<1>1. o \in Seq(Rels)
  BY OrderIsSeq
<1>2. Eval(r, o) \in Nat
  BY EvalAssumption
<1> QED
  BY <1>1, <1>2 DEF create_parallel_plan, Plan

LEMMA PartIdType == TypeOK => part_id \in Nat /\ n_workers \in Nat
  BY WorkersAssumption DEF TypeOK

LEMMA NothingAdmissible == \A cs : AdmissibleSubsets(cs, 0 .. 2*0 - 1) = {}
  BY DEF AdmissibleSubsets, Admissible

LEMMA InitIInv == Init => IInv
<1> SUFFICES ASSUME Init PROVE IInv
  OBVIOUS
<1>1. TypeOK
  BY WorkersAssumption DEF Init, TypeOK, EmptyTable
<1>2. JoinResultsExact
  BY NothingAdmissible DEF Init, JoinResultsExact
<1>3. NoNullDeref /\ Phases /\ Worklist /\ Splitting /\ TableSound /\ BestSound
  BY WorkersAssumption, LevelsAssumption
  DEF Init, NoNullDeref, Phases, Worklist, Splitting, TableSound, BestSound
<1> QED
  BY <1>1, <1>2, <1>3 DEF IInv

LEMMA AdmPairIInv == IInv /\ AdmPair => IInv'
<1> SUFFICES ASSUME IInv, AdmPair PROVE IInv'
  OBVIOUS
<1> USE DEF IInv, AdmPair
<1>1. constr' = constr /\ part_id \in Nat /\ pair \in Nat
  BY PartIdType DEF constr, TypeOK
<1>2. join_res' = AdmissibleSubsets(constr, 0 .. 2*(pair + 1) - 1)
  BY <1>1, AdmPairExact DEF JoinResultsExact, constr
<1>3. JoinResultsExact'
  BY <1>1, <1>2 DEF JoinResultsExact
<1>4. 2*(pair + 1) <= levels_needed
  BY <1>1, LevelsAssumption
<1>5. TypeOK'
  <2>1. join_res' \subseteq SUBSET Rels
    BY <1>1, <1>2, <1>4, LevelsAssumption DEF AdmissibleSubsets, Rels
  <2> QED
    BY <1>1, <2>1 DEF TypeOK
<1>6. NoNullDeref' /\ Phases' /\ Worklist' /\ Splitting' /\ TableSound' /\ BestSound'
  BY <1>1, <1>4 DEF NoNullDeref, Phases, Worklist, Splitting, TableSound, BestSound
<1> QED
  BY <1>3, <1>5, <1>6

LEMMA LeafTableFacts ==
  /\ LeafTable \in [SUBSET Rels -> Plan \cup {NULL}]
  /\ \A r \in Rels : LeafTable[{r}] = create_parallel_plan(create_leaf(r), 0)
  /\ \A r \in Rels : LeafTable[{r}] # NULL
  /\ \A S \in SUBSET Rels : LeafTable[S] # NULL => \E r \in Rels : S = {r}
<1>1. \A r \in Rels : (CHOOSE s \in Rels : {r} = {s}) = r
  OBVIOUS
<1>2. \A r \in Rels : create_parallel_plan(create_leaf(r), 0) \in Plan
  BY DEF create_parallel_plan, create_leaf, Plan
<1>3. \A r \in Rels : LeafTable[{r}] = create_parallel_plan(create_leaf(r), 0)
  BY <1>1 DEF LeafTable
<1>4. \A S \in SUBSET Rels : (\A r \in Rels : S # {r}) => LeafTable[S] = NULL
  BY DEF LeafTable
<1>5. DOMAIN LeafTable = SUBSET Rels /\ LeafTable = [S \in SUBSET Rels |-> LeafTable[S]]
  BY DEF LeafTable
<1>6. \A S \in SUBSET Rels : LeafTable[S] \in Plan \cup {NULL}
  BY <1>2, <1>3, <1>4
<1> QED
  BY <1>2, <1>3, <1>4, <1>5, <1>6, NullAssumption

LEMMA AdmDoneIInv == IInv /\ AdmDone => IInv'
<1> SUFFICES ASSUME IInv, AdmDone PROVE IInv'
  OBVIOUS
<1> USE DEF IInv, AdmDone
<1>1. constr' = constr /\ part_id \in Nat /\ pair \in Nat
  BY PartIdType DEF constr, TypeOK
<1>2. join_res' = AdmissibleSubsets(constr, Rels)
  <2>1. 2*pair <= levels_needed /\ join_res = AdmissibleSubsets(constr, 0 .. 2*pair - 1)
    BY DEF Phases, JoinResultsExact
  <2>2. CASE 2*pair < levels_needed
    <3>1. 2*pair + 1 = levels_needed
      BY <1>1, <2>2, LevelsAssumption
    <3> QED
      BY <1>1, <2>1, <2>2, <3>1, AdmLastExact DEF constr
  <2>3. CASE ~ (2*pair < levels_needed)
    <3>1. 0 .. 2*pair - 1 = Rels
      BY <1>1, <2>1, <2>3, LevelsAssumption DEF Rels
    <3> QED
      BY <2>1, <2>3, <3>1
  <2> QED
    BY <2>2, <2>3
<1>3. TypeOK'
  <2>1. join_res' \subseteq SUBSET Rels
    BY <1>2 DEF AdmissibleSubsets
  <2> QED
    BY <2>1, LeafTableFacts DEF TypeOK
<1>4. Worklist'
  <2>1. \A S \in SUBSET Rels : LeafTable[S] # NULL => ~ (Cardinality(S) > 1)
    BY LeafTableFacts, SingletonCard
  <2> QED
    BY <1>1, <1>2, <2>1, LeafTableFacts DEF Worklist
<1>5. TableSound'
  <2> SUFFICES ASSUME NEW S \in SUBSET Rels, LeafTable[S] # NULL
               PROVE  /\ LeafTable[S].root \in AdmissibleOrders(constr, S)
                      /\ ~ (Cardinality(S) > 1)
    BY <1>1 DEF TableSound
  <2>1. PICK r \in Rels : S = {r}
    BY LeafTableFacts
  <2>2. LeafTable[S].root = create_leaf(r)
    <3>1. LeafTable[S] = create_parallel_plan(create_leaf(r), 0)
      BY <2>1, LeafTableFacts
    <3> QED
      BY <3>1 DEF create_parallel_plan
  <2>3. create_leaf(r) \in Orders(S)
    <3>1. create_leaf(r) \in Orders({r})
      BY LeafOrder
    <3> QED
      BY <2>1, <3>1
  <2>4. Respects(constr, create_leaf(r))
    <3>1. \A c \in constr : c[1] # c[2]
      BY <1>1, ConstraintRels DEF constr
    <3>2. \A k \in DOMAIN <<r>> : <<r>>[k] = r
      OBVIOUS
    <3> QED
      BY <3>1, <3>2 DEF Respects, create_leaf
  <2>5. ~ (Cardinality(S) > 1)
    BY <2>1, SingletonCard
  <2> QED
    BY <2>2, <2>3, <2>4, <2>5 DEF AdmissibleOrders
<1>6. NoNullDeref' /\ Phases' /\ JoinResultsExact' /\ Splitting' /\ BestSound'
  BY DEF NoNullDeref, Phases, JoinResultsExact, Splitting, BestSound
<1> QED
  BY <1>3, <1>4, <1>5, <1>6

LEMMA NextSubsetIInv == IInv /\ NextSubset => IInv'
<1> SUFFICES ASSUME IInv, NextSubset PROVE IInv'
  OBVIOUS
<1> USE DEF IInv
<1>1. PICK S \in join_res :
        /\ SortedFirst(S)
        /\ join_res' = join_res \ {S}
        /\ IF Cardinality(S) > 1
           THEN q' = S /\ us' = S /\ pc' = "split"
           ELSE UNCHANGED <<q, us, pc>>
  BY DEF NextSubset
<1>2. pc = "next" /\ UNCHANGED <<root, part_id, pair, P, best, result>>
  BY DEF NextSubset
<1>3. constr' = constr /\ part_id \in Nat
  BY <1>2, PartIdType DEF constr
<1>4. S \in AdmissibleSubsets(constr, Rels) /\ S \in SUBSET Rels /\ S # {}
  BY <1>2 DEF Worklist, AdmissibleSubsets, Admissible
<1>5. TypeOK'
  BY <1>1, <1>2, <1>4 DEF TypeOK
<1>6. NoNullDeref' /\ Phases' /\ JoinResultsExact' /\ BestSound'
  BY <1>1, <1>2 DEF NoNullDeref, Phases, JoinResultsExact, BestSound
<1>7. TableSound'
  BY <1>1, <1>2, <1>3 DEF TableSound
<1>8. CASE Cardinality(S) > 1
  <2>1. Worklist'
    BY <1>1, <1>2, <1>3, <1>8 DEF Worklist
  <2>2. \E u \in S : valid(constr, S, u)
    BY <1>3, <1>4, SomeValid DEF constr
  <2>3. Splitting'
    <3>1. \A U \in SUBSET Rels : P[U] # NULL /\ Cardinality(U) > 1 => Cardinality(U) <= Cardinality(S)
      BY <1>2 DEF Worklist
    <3> QED
      BY <1>1, <1>2, <1>3, <1>4, <1>8, <2>2, <3>1 DEF Splitting, SortedFirst
  <2> QED
    BY <1>5, <1>6, <1>7, <2>1, <2>3
<1>9. CASE ~ (Cardinality(S) > 1)
  <2>1. PICK r \in Rels : S = {r}
    BY <1>4, <1>9, SmallSets
  <2>2. P[S] # NULL
    BY <1>2, <2>1 DEF Worklist
  <2>3. Worklist'
    BY <1>1, <1>2, <1>3, <1>9, <2>2 DEF Worklist
  <2>4. Splitting'
    BY <1>1, <1>2, <1>9 DEF Splitting
  <2> QED
    BY <1>5, <1>6, <1>7, <2>3, <2>4
<1> QED
  BY <1>8, <1>9

(***************************************************************************)
(* What try_splits reads has been filled, and what it writes is a plan for *)
(* the subset.                                                             *)
(***************************************************************************)
LEMMA SplitFacts ==
  ASSUME IInv, pc = "split", NEW u \in q, valid(constr, q, u)
  PROVE  /\ Splits(u)
         /\ NewPlan(u) \in Plan
         /\ NewPlan(u).root = merge(P[q \ {u}].root, create_leaf(u))
         /\ NewPlan(u).root \in AdmissibleOrders(constr, q)
         /\ NewPlan(u).cost = Eval(root, NewPlan(u).root)
<1> USE DEF IInv
<1>1. /\ part_id \in Nat
      /\ q \in SUBSET Rels /\ u \in q /\ u \in Rels /\ q # {}
      /\ Cardinality(q) > 1
      /\ q \in AdmissibleSubsets(constr, Rels)
      /\ root \in Queries
  BY PartIdType DEF TypeOK, Splitting
<1>2. Admissible(constr, q)
  BY <1>1 DEF AdmissibleSubsets
<1>3. /\ q \ {u} \in SUBSET Rels
      /\ Cardinality(q \ {u}) = Cardinality(q) - 1
  BY <1>1, RemoveOne
<1>4. q \ {u} \in AdmissibleSubsets(constr, Rels)
  BY <1>1, <1>2, <1>3, RemoveValid DEF AdmissibleSubsets
<1>5. q \ {u} \notin join_res /\ q \ {u} # q
  <2>1. Cardinality(q) \in Nat
    BY <1>1, RelsFinite
  <2>2. ~ (Cardinality(q) <= Cardinality(q \ {u}))
    BY <1>3, <2>1
  <2>3. \A T \in join_res : Cardinality(q) <= Cardinality(T)
    BY <1>1 DEF Splitting
  <2> QED
    BY <1>1, <2>2, <2>3
<1>6. P[q \ {u}] # NULL /\ P[{u}] # NULL
  BY <1>1, <1>4, <1>5 DEF Worklist
<1>7. P[{u}].root = create_leaf(u)
  <2>1. P[{u}].root \in Orders({u})
    BY <1>1, <1>6 DEF TableSound, AdmissibleOrders
  <2> QED
    BY <1>1, <2>1, LeafOrderOnly
<1>8. P[q \ {u}].root \in AdmissibleOrders(constr, q \ {u})
  BY <1>3, <1>6 DEF TableSound
<1> DEFINE bt == merge(P[q \ {u}].root, create_leaf(u))
<1>9. bt \in AdmissibleOrders(constr, q)
  BY <1>1, <1>8, RespectsMerge DEF constr
<1>10. bt \in Orders(q)
  BY <1>9 DEF AdmissibleOrders
<1>11. NewPlan(u) = create_parallel_plan(bt, Eval(root, bt))
  BY <1>7 DEF NewPlan
<1> HIDE DEF bt
<1>12. NewPlan(u) \in Plan
  BY <1>1, <1>10, <1>11, PlanType
<1>13. NewPlan(u).root = bt /\ NewPlan(u).cost = Eval(root, bt)
  BY <1>11 DEF create_parallel_plan
<1> QED
  BY <1>6, <1>9, <1>12, <1>13 DEF Splits, bt

LEMMA TrySplitIInv == IInv /\ TrySplit => IInv'
<1> SUFFICES ASSUME IInv, TrySplit PROVE IInv'
  OBVIOUS
<1> USE DEF IInv
<1>1. PICK u \in us :
       /\ us' = us \ {u}
       /\ pc' = IF valid(constr, q, u) /\ ~ Splits(u) THEN "crash"
                ELSE IF us = {u} THEN "next" ELSE "split"
       /\ P' = IF valid(constr, q, u) /\ Splits(u) /\ Cheaper(P[q], NewPlan(u))
               THEN [P EXCEPT ![q] = NewPlan(u)]
               ELSE P
  BY DEF TrySplit
<1>2. pc = "split" /\ UNCHANGED <<root, part_id, pair, join_res, q, best, result>>
  BY DEF TrySplit
<1>3. constr' = constr /\ part_id \in Nat /\ u \in q
  BY <1>2, PartIdType DEF constr, TypeOK
<1>4. /\ valid(constr, q, u) => Splits(u)
      /\ pc' = IF us = {u} THEN "next" ELSE "split"
  BY <1>1, <1>2, <1>3, SplitFacts
<1>5. q \in SUBSET Rels /\ P \in [SUBSET Rels -> Plan \cup {NULL}]
  BY DEF TypeOK
<1>6. CASE P' = P /\ ~ (valid(constr, q, u) /\ P[q] = NULL)
  <2>1. us = {u} => P[q] # NULL
    BY <1>2, <1>6 DEF Splitting
  <2>2. TypeOK'
    BY <1>1, <1>2, <1>4, <1>6 DEF TypeOK
  <2>3. NoNullDeref' /\ Phases' /\ JoinResultsExact' /\ BestSound'
    BY <1>2, <1>4 DEF NoNullDeref, Phases, JoinResultsExact, BestSound
  <2>4. TableSound'
    BY <1>2, <1>3, <1>6 DEF TableSound
  <2>5. Worklist'
    BY <1>2, <1>3, <1>4, <1>6, <2>1 DEF Worklist
  <2>6. Splitting'
    BY <1>1, <1>2, <1>3, <1>4, <1>6 DEF Splitting
  <2> QED
    BY <2>2, <2>3, <2>4, <2>5, <2>6
<1>7. CASE P' = [P EXCEPT ![q] = NewPlan(u)] /\ valid(constr, q, u)
  <2>1. /\ NewPlan(u) \in Plan
        /\ NewPlan(u).root \in AdmissibleOrders(constr, q)
        /\ NewPlan(u).cost = Eval(root, NewPlan(u).root)
    BY <1>2, <1>3, <1>7, SplitFacts
  <2>2. /\ P' \in [SUBSET Rels -> Plan \cup {NULL}]
        /\ P'[q] = NewPlan(u)
        /\ \A S \in SUBSET Rels : S # q => P'[S] = P[S]
    BY <1>5, <1>7, <2>1
  <2>3. P'[q] # NULL
    BY <2>1, <2>2, NullAssumption
  <2>4. TypeOK'
    BY <1>1, <1>2, <1>4, <2>2 DEF TypeOK
  <2>5. NoNullDeref' /\ Phases' /\ JoinResultsExact' /\ BestSound'
    BY <1>2, <1>4 DEF NoNullDeref, Phases, JoinResultsExact, BestSound
  <2>6. TableSound'
    BY <1>2, <1>3, <2>1, <2>2 DEF TableSound
  <2>7. \A S \in SUBSET Rels : P[S] # NULL => P'[S] # NULL
    BY <2>2, <2>3
  <2>8. Worklist'
    <3>1. \A S \in AdmissibleSubsets(constr, Rels) : S \in SUBSET Rels
      BY DEF AdmissibleSubsets
    <3>2. \A r \in Rels : {r} \in SUBSET Rels
      OBVIOUS
    <3>3. \A S \in SUBSET Rels : \A T \in join_res :
            P'[S] # NULL /\ Cardinality(S) > 1 => Cardinality(S) <= Cardinality(T)
      BY <1>2, <2>2 DEF Worklist, Splitting
    <3> QED
      BY <1>2, <1>3, <1>4, <2>3, <2>7, <3>1, <3>2, <3>3 DEF Worklist
  <2>9. Splitting'
    <3>1. \A S \in SUBSET Rels :
            P'[S] # NULL /\ Cardinality(S) > 1 => Cardinality(S) <= Cardinality(q)
      <4>1. Cardinality(q) <= Cardinality(q)
        BY <1>5, RelsFinite
      <4> QED
        BY <1>2, <2>2, <4>1 DEF Splitting
    <3> QED
      BY <1>1, <1>2, <1>3, <1>4, <2>3, <3>1 DEF Splitting
  <2> QED
    BY <2>4, <2>5, <2>6, <2>8, <2>9
<1> QED
  BY <1>1, <1>4, <1>6, <1>7 DEF Cheaper

(***************************************************************************)
(* What a worker returns.                                                  *)
(***************************************************************************)
LEMMA TopFacts ==
  ASSUME IInv, pc = "next", join_res = {}
  PROVE  /\ P[Rels] \in Plan
         /\ P[Rels] # NULL
         /\ P[Rels].root \in AdmissibleOrders(constr, Rels)
         /\ P[Rels].root \in Orders(Rels)
         /\ P[Rels].cost = Eval(root, P[Rels].root)
<1> USE DEF IInv
<1>1. part_id \in Nat
  BY PartIdType
<1>2. Rels \in AdmissibleSubsets(constr, Rels)
  <2>1. Rels # {}
    BY LevelsAssumption DEF Rels
  <2> QED
    BY <1>1, <2>1, ConstraintRels DEF AdmissibleSubsets, Admissible, Closed, constr
<1>3. P[Rels] # NULL
  BY <1>2 DEF Worklist
<1>4. Cardinality(Rels) > 1
  BY RelsFinite, LevelsAssumption
<1> QED
  BY <1>3, <1>4 DEF TableSound, TypeOK, AdmissibleOrders

LEMMA WorkerReturnsIInv == IInv /\ WorkerReturns => IInv'
<1> SUFFICES ASSUME IInv, WorkerReturns PROVE IInv'
  OBVIOUS
<1> USE DEF IInv
<1>1. /\ P[Rels] \in Plan
      /\ P[Rels] # NULL
      /\ P[Rels].root \in Orders(Rels)
      /\ P[Rels].cost = Eval(root, P[Rels].root)
  BY TopFacts DEF WorkerReturns
<1>2. /\ part_id \in Nat /\ n_workers \in Nat /\ part_id < n_workers
      /\ part_id > 0 => best # NULL
  <2>1. part_id \in Nat /\ n_workers \in Nat
    BY PartIdType
  <2>2. part_id < n_workers
    BY DEF WorkerReturns, Phases
  <2>3. part_id > 0 => best # NULL
    BY DEF BestSound
  <2> QED
    BY <2>1, <2>2, <2>3
<1>3. best' = P[Rels] \/ (best' = best /\ part_id > 0)
  <2>1. best' = P[Rels] \/ (best' = best /\ part_id # 0)
    BY DEF WorkerReturns
  <2> QED
    BY <1>2, <2>1
<1>4. pc' = IF part_id + 1 < n_workers THEN "adm" ELSE "construct"
  <2>1. ~ (part_id > 0 /\ (P[Rels] = NULL \/ best = NULL))
    BY <1>1, <1>2
  <2> QED
    BY <2>1 DEF WorkerReturns
<1>5. /\ pc = "next" /\ join_res = {} /\ part_id' = part_id + 1 /\ pair' = 0
      /\ UNCHANGED <<root, join_res, q, us, P, result>>
  BY DEF WorkerReturns
<1>6. TypeOK'
  <2>1. root' \in Queries /\ join_res' \subseteq SUBSET Rels /\ q' \subseteq Rels /\ us' \subseteq q'
    BY <1>5 DEF TypeOK
  <2>2. P' \in [SUBSET Rels -> Plan \cup {NULL}] /\ result' \in Seq(Rels) \cup {NULL}
    BY <1>5 DEF TypeOK
  <2>3. best' \in Plan \cup {NULL}
    BY <1>1, <1>3 DEF TypeOK
  <2>4. pc' \in {"adm", "next", "split", "construct", "done", "crash"}
    BY <1>4
  <2>5. part_id' \in 0 .. n_workers /\ pair' \in Nat
    BY <1>2, <1>5
  <2> QED
    BY <2>1, <2>2, <2>3, <2>4, <2>5 DEF TypeOK
<1>7. BestSound'
  BY <1>1, <1>2, <1>3, <1>4, <1>5 DEF BestSound
<1>8. JoinResultsExact'
  BY <1>5, NothingAdmissible DEF JoinResultsExact
<1>9. pc' \in {"adm", "construct"}
  BY <1>4
<1>10. NoNullDeref' /\ Worklist' /\ Splitting' /\ TableSound'
  <2>1. NoNullDeref'
    BY <1>9 DEF NoNullDeref
  <2>2. Worklist'
    BY <1>9 DEF Worklist
  <2>3. Splitting'
    BY <1>9 DEF Splitting
  <2>4. TableSound'
    BY <1>9 DEF TableSound
  <2> QED
    BY <2>1, <2>2, <2>3, <2>4
<1>11. Phases'
  <2>1. CASE part_id + 1 < n_workers
    <3>1. pc' = "adm" /\ part_id' < n_workers /\ 2*pair' <= levels_needed
      BY <1>4, <1>5, <2>1, LevelsAssumption
    <3> QED
      BY <3>1 DEF Phases
  <2>2. CASE ~ (part_id + 1 < n_workers)
    <3>1. pc' = "construct" /\ part_id' = n_workers
      BY <1>2, <1>4, <1>5, <2>2
    <3> QED
      BY <3>1 DEF Phases
  <2> QED
    BY <2>1, <2>2
<1> QED
  BY <1>6, <1>7, <1>8, <1>10, <1>11

LEMMA ConstructIInv == IInv /\ Construct => IInv'
<1> SUFFICES ASSUME IInv, Construct PROVE IInv'
  OBVIOUS
<1> USE DEF IInv
<1>1. /\ part_id = n_workers /\ part_id > 0
      /\ best # NULL /\ best \in Plan
      /\ pc' = "done" /\ result' = best.root
  <2>1. part_id = n_workers
    BY DEF Construct, Phases
  <2>2. part_id > 0
    BY <2>1, WorkersAssumption
  <2>3. best # NULL
    BY <2>2 DEF BestSound
  <2>4. best \in Plan
    BY <2>3 DEF TypeOK
  <2>5. pc' = "done" /\ result' = best.root
    BY <2>3 DEF Construct
  <2> QED
    BY <2>1, <2>2, <2>3, <2>4, <2>5
<1>2. UNCHANGED <<root, part_id, pair, join_res, q, us, P, best>>
  BY DEF Construct
<1>3. TypeOK'
  BY <1>1, <1>2 DEF TypeOK, Plan
<1>4. BestSound'
  BY <1>1, <1>2 DEF BestSound
<1>5. NoNullDeref' /\ Phases'
  BY <1>1, <1>2 DEF NoNullDeref, Phases
<1>6. JoinResultsExact'
  BY <1>1 DEF JoinResultsExact
<1>7. Worklist'
  BY <1>1 DEF Worklist
<1>8. Splitting'
  BY <1>1 DEF Splitting
<1>9. TableSound'
  BY <1>1 DEF TableSound
<1> QED
  BY <1>3, <1>4, <1>5, <1>6, <1>7, <1>8, <1>9

LEMMA StutterIInv == IInv /\ UNCHANGED vars => IInv'
<1> SUFFICES ASSUME IInv, UNCHANGED vars PROVE IInv'
  OBVIOUS
<1> USE DEF vars
<1>1. TypeOK' = TypeOK /\ NoNullDeref' = NoNullDeref /\ Phases' = Phases
  BY DEF TypeOK, NoNullDeref, Phases
<1>2. JoinResultsExact' = JoinResultsExact
  BY DEF JoinResultsExact, constr
<1>3. Worklist' = Worklist
  BY DEF Worklist, constr
<1>4. Splitting' = Splitting
  BY DEF Splitting, constr
<1>5. TableSound' = TableSound /\ BestSound' = BestSound
  BY DEF TableSound, BestSound, constr
<1> QED
  BY <1>1, <1>2, <1>3, <1>4, <1>5 DEF IInv

LEMMA StepIInv == IInv /\ [Next]_vars => IInv'
  BY AdmPairIInv, AdmDoneIInv, NextSubsetIInv, TrySplitIInv, WorkerReturnsIInv,
     ConstructIInv, StutterIInv DEF Next

(***************************************************************************)
(* IInv is an invariant of the search.                                     *)
(***************************************************************************)
THEOREM Invariance == Spec => []IInv
  BY InitIInv, StepIInv, PTL DEF Spec

(***************************************************************************)
(* Every variable keeps its type: in particular what try_splits stores is  *)
(* always a plan with the cost of a join order.                            *)
(***************************************************************************)
THEOREM TypeCorrect == Spec => []TypeOK
<1>1. IInv => TypeOK
  BY DEF IInv
<1> QED
  BY <1>1, Invariance, PTL

(***************************************************************************)
(* try_splits, parallel_join_search and construct_rel_based_on_plan never  *)
(* dereference a null plan, whatever the number of relations.              *)
(***************************************************************************)
THEOREM NullSafe == Spec => []NoNullDeref
<1>1. IInv => NoNullDeref
  BY DEF IInv
<1> QED
  BY <1>1, Invariance, PTL

(***************************************************************************)
(* adm_join_results enumerates exactly the admissible subsets.             *)
(***************************************************************************)
THEOREM EnumerationExact == Spec => []JoinResultsExact
<1>1. IInv => JoinResultsExact
  BY DEF IInv
<1> QED
  BY <1>1, Invariance, PTL

(***************************************************************************)
(* Every entry of the DP table is an admissible order of its subset with   *)
(* that order's cost.                                                      *)
(***************************************************************************)
THEOREM TableCorrect == Spec => []TableSound
<1>1. IInv => TableSound
  BY DEF IInv
<1> QED
  BY <1>1, Invariance, PTL

LEMMA IInvResult == IInv => ResultSound
<1> SUFFICES ASSUME IInv, pc = "done"
             PROVE  result \in Orders(Rels) /\ best.cost = Eval(root, result)
  BY DEF ResultSound
<1>1. part_id > 0
  BY WorkersAssumption DEF IInv, Phases
<1> QED
  BY <1>1 DEF IInv, BestSound

(***************************************************************************)
(* The result joins every relation exactly once at the cost main compared. *)
(***************************************************************************)
THEOREM ResultCorrect == Spec => []ResultSound
  BY IInvResult, Invariance, PTL

(***************************************************************************)
(* An entry of the DP table changes only as long as no plan for a larger   *)
(* subset, which would share its tree, has been built.                     *)
(***************************************************************************)
THEOREM SharedTreesFinal == Spec => SubplansFinal
<1>1. ASSUME IInv, [Next]_vars, pc = "split",
             NEW S \in SUBSET Rels, NEW T \in SUBSET Rels, P'[S] # P[S], S \subseteq T, S # T
      PROVE  P[T] = NULL
  <2>1. TrySplit
    BY <1>1 DEF Next, vars, AdmPair, AdmDone, NextSubset, WorkerReturns, Construct
  <2>2. S = q
    <3>1. \A p : [P EXCEPT ![q] = p][S] # P[S] => S = q
      BY <1>1 DEF IInv, TypeOK
    <3> QED
      BY <1>1, <2>1, <3>1 DEF TrySplit
  <2>3. Cardinality(S) < Cardinality(T) /\ Cardinality(T) \in Nat
    <3>1. IsFiniteSet(T) /\ Cardinality(T) \in Nat
      BY <1>1, RelsFinite
    <3>2. Cardinality(S) \in Nat
      BY <1>1, RelsFinite
    <3>3. Cardinality(S) <= Cardinality(T) /\ Cardinality(S) # Cardinality(T)
      BY <1>1, <3>1, FS_Subset
    <3> QED
      BY <3>1, <3>2, <3>3
  <2>4. Cardinality(q) > 1 /\ Cardinality(q) \in Nat
    BY <1>1, <2>2, RelsFinite DEF IInv, Splitting
  <2>5. P[T] # NULL /\ Cardinality(T) > 1 => Cardinality(T) <= Cardinality(q)
    BY <1>1 DEF IInv, Splitting
  <2> QED
    BY <2>2, <2>3, <2>4, <2>5
<1>2. IInv /\ [Next]_vars =>
        [pc = "split" =>
           \A S, T \in SUBSET Rels : P'[S] # P[S] /\ S \subseteq T /\ S # T => P[T] = NULL]_vars
  BY <1>1
<1> QED
  BY <1>2, Invariance, PTL DEF Spec, SubplansFinal
=============================================================================
