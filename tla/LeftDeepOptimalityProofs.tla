---------------------- MODULE LeftDeepOptimalityProofs ----------------------
(***************************************************************************)
(* The optimality of the search, for every number of relations and every   *)
(* cost function with optimal substructure.                                *)
(***************************************************************************)
EXTENDS LeftDeepOptimality, ParallelJoinSearchProofs

-----------------------------------------------------------------------------
(* The partitions cover the left-deep orders. *)

LEMMA FewPairs == \A j \in ConstrainedPairs : (j = 0 /\ n_workers > 1) \/ (j = 1 /\ n_workers = 4)
<1>1. \A j \in 0 .. 30 : j \in 2 .. 30 => Shl1[j] \in Int /\ Shl1[j] >= 4
  <2> SUFFICES ASSUME NEW j \in 2 .. 30 PROVE Shl1[j] \in Int /\ Shl1[j] >= 4
    OBVIOUS
  <2>1. /\ Shl1[2] = 4 /\ Shl1[3] = 8 /\ Shl1[4] = 16 /\ Shl1[5] = 32 /\ Shl1[6] = 64
        /\ Shl1[7] = 128 /\ Shl1[8] = 256 /\ Shl1[9] = 512 /\ Shl1[10] = 1024
    BY DEF Shl1
  <2>2. /\ Shl1[11] = 2048 /\ Shl1[12] = 4096 /\ Shl1[13] = 8192 /\ Shl1[14] = 16384
        /\ Shl1[15] = 32768 /\ Shl1[16] = 65536 /\ Shl1[17] = 131072 /\ Shl1[18] = 262144
        /\ Shl1[19] = 524288 /\ Shl1[20] = 1048576
    BY DEF Shl1
  <2>3. /\ Shl1[21] = 2097152 /\ Shl1[22] = 4194304 /\ Shl1[23] = 8388608
        /\ Shl1[24] = 16777216 /\ Shl1[25] = 33554432 /\ Shl1[26] = 67108864
        /\ Shl1[27] = 134217728 /\ Shl1[28] = 268435456 /\ Shl1[29] = 536870912
        /\ Shl1[30] = 1073741824
    BY DEF Shl1
  <2>4. CASE j \in 2 .. 10
    BY <2>1, <2>4
  <2>5. CASE j \in 11 .. 20
    BY <2>2, <2>5
  <2>6. CASE j \in 21 .. 30
    BY <2>3, <2>6
  <2> QED
    BY <2>4, <2>5, <2>6
<1>2. Shl1[0] = 1 /\ Shl1[1] = 2
  BY DEF Shl1
<1> SUFFICES ASSUME NEW j \in 0 .. 30, Shl1[j] < n_workers
             PROVE  (j = 0 /\ n_workers > 1) \/ (j = 1 /\ n_workers = 4)
  BY DEF ConstrainedPairs
<1>3. CASE j = 0
  BY <1>2, <1>3
<1>4. CASE j = 1
  BY <1>2, <1>4, WorkersAssumption
<1>5. CASE j \in 2 .. 30
  <2>1. Shl1[j] >= 4 /\ Shl1[j] \in Int
    BY <1>1, <1>5
  <2> QED
    BY <2>1, WorkersAssumption
<1> QED
  BY <1>3, <1>4, <1>5

LEMMA Bits ==
  /\ ~ BitSet(0, 0) /\ ~ BitSet(0, 1)
  /\   BitSet(1, 0) /\ ~ BitSet(1, 1)
  /\ ~ BitSet(2, 0) /\   BitSet(2, 1)
  /\   BitSet(3, 0) /\   BitSet(3, 1)
  BY DEF BitSet, Shl1

(***************************************************************************)
(* Some worker has the bits b0 and b1, as far as its constraints look at   *)
(* them.                                                                   *)
(***************************************************************************)
LEMMA WorkerForBits ==
  ASSUME NEW b0 \in BOOLEAN, NEW b1 \in BOOLEAN
  PROVE  \E w \in 0 .. n_workers - 1 : \A j \in ConstrainedPairs :
           (j = 0 => (BitSet(w, j) <=> b0)) /\ (j = 1 => (BitSet(w, j) <=> b1))
<1>1. CASE n_workers = 1
  <2>1. 0 \in 0 .. n_workers - 1 /\ ConstrainedPairs = {}
    BY <1>1, FewPairs
  <2> QED
    BY <2>1
<1>2. CASE n_workers = 2
  <2>1. \A j \in ConstrainedPairs : j = 0
    BY <1>2, FewPairs
  <2>2. 0 \in 0 .. n_workers - 1 /\ 1 \in 0 .. n_workers - 1
    BY <1>2
  <2> QED
    BY <2>1, <2>2, Bits
<1>3. CASE n_workers = 4
  <2>1. \A j \in ConstrainedPairs : j = 0 \/ j = 1
    BY FewPairs
  <2>2. {0, 1, 2, 3} \subseteq 0 .. n_workers - 1
    BY <1>3
  <2>3. CASE ~ b0 /\ ~ b1
    BY <2>2, <2>3, Bits
  <2>4. CASE b0 /\ ~ b1
    BY <2>2, <2>4, Bits
  <2>5. CASE ~ b0 /\ b1
    BY <2>2, <2>5, Bits
  <2>6. CASE b0 /\ b1
    BY <2>2, <2>6, Bits
  <2> QED
    BY <2>3, <2>4, <2>5, <2>6
<1> QED
  BY <1>1, <1>2, <1>3, WorkersAssumption

(***************************************************************************)
(* Every left-deep order is in the partition of some worker.               *)
(***************************************************************************)
LEMMA PartitionsCover ==
  ASSUME NEW o \in Orders(Rels)
  PROVE  \E w \in 0 .. n_workers - 1 : o \in AdmissibleOrders(part_constraints(w), Rels)
<1> DEFINE D == 1 .. Cardinality(Rels)
           Before(a, b) == \A k, l \in D : o[k] = a /\ o[l] = b => k < l
<1>1. /\ D \subseteq Nat /\ DOMAIN o = D
      /\ \A k, l \in D : o[k] = o[l] => k = l
  BY RelsFinite DEF Orders
<1>2. ASSUME NEW a \in Nat, NEW b \in Nat, a # b, ~ Before(a, b) PROVE Before(b, a)
  BY <1>1, <1>2
<1>3. PICK w \in 0 .. n_workers - 1 : \A j \in ConstrainedPairs :
        /\ j = 0 => (BitSet(w, j) <=> ~ Before(0, 1))
        /\ j = 1 => (BitSet(w, j) <=> ~ Before(2, 3))
  <2> HIDE DEF Before
  <2>1. (~ Before(0, 1)) \in BOOLEAN /\ (~ Before(2, 3)) \in BOOLEAN
    OBVIOUS
  <2> QED
    BY <2>1, WorkerForBits
<1> HIDE DEF Before
<1>4. ASSUME NEW c \in part_constraints(w) PROVE Before(c[1], c[2])
  <2>1. PICK j \in ConstrainedPairs : c = PairConstraint(w, j)
    BY DEF part_constraints
  <2>2. CASE j = 0
    BY <1>2, <1>3, <2>1, <2>2 DEF PairConstraint
  <2>3. CASE j = 1
    BY <1>2, <1>3, <2>1, <2>3 DEF PairConstraint
  <2> QED
    BY <2>2, <2>3, FewPairs
<1> QED
  BY <1>1, <1>4 DEF AdmissibleOrders, Respects, Before

-----------------------------------------------------------------------------
(* Optimality. *)

LEMMA FunctionsEqual ==
  ASSUME NEW D, NEW R, NEW f \in [D -> R], NEW g \in [D -> R], \A x \in D : f[x] = g[x]
  PROVE  f = g
  OBVIOUS

LEMMA OrderOnto ==
  ASSUME NEW S \in SUBSET Rels, NEW o \in Orders(S), NEW r \in S
  PROVE  \E k \in 1 .. Cardinality(S) : o[k] = r
<1> DEFINE D == 1 .. Cardinality(S)
<1>1. Cardinality(S) \in Nat /\ IsFiniteSet(S)
  BY RelsFinite
<1>2. IsFiniteSet(D) /\ Cardinality(D) = Cardinality(S)
  BY <1>1, FS_Interval
<1>3. o \in Injection(D, S)
  BY DEF Orders, Injection, IsInjective
<1>4. o \in Surjection(D, S)
  BY <1>1, <1>2, <1>3, FS_Injection
<1> QED
  BY <1>4 DEF Surjection

(***************************************************************************)
(* The last relation of an admissible order of S can be taken away: it is  *)
(* valid on the right, and what is left is an admissible order.            *)
(***************************************************************************)
LEMMA LastJoin ==
  ASSUME NEW w \in Nat, NEW S \in SUBSET Rels, Cardinality(S) > 1,
         NEW o \in AdmissibleOrders(part_constraints(w), S)
  PROVE  \E u \in S : \E t \in AdmissibleOrders(part_constraints(w), S \ {u}) :
           valid(part_constraints(w), S, u) /\ o = merge(t, create_leaf(u))
<1> DEFINE n == Cardinality(S) - 1
           cs == part_constraints(w)
           u == o[n + 1]
           t == [k \in 1 .. n |-> o[k]]
<1>1. n \in Nat /\ Cardinality(S) = n + 1
  BY RelsFinite
<1>2. /\ o \in [1 .. n + 1 -> S]
      /\ \A k, l \in 1 .. n + 1 : o[k] = o[l] => k = l
      /\ \A c \in cs : \A k, l \in 1 .. n + 1 : o[k] = c[1] /\ o[l] = c[2] => k < l
  BY <1>1 DEF AdmissibleOrders, Orders, Respects
<1> HIDE DEF n, cs
<1>3. u \in S
  BY <1>1, <1>2
<1>4. valid(cs, S, u)
  <2> SUFFICES ASSUME NEW c \in cs, c[1] = u, c[2] \in S PROVE FALSE
    BY DEF valid
  <2>1. PICK l \in 1 .. n + 1 : o[l] = c[2]
    BY <1>1, OrderOnto DEF AdmissibleOrders
  <2>2. n + 1 < l
    BY <1>1, <1>2, <2>1
  <2> QED
    BY <1>1, <2>2
<1>5. t \in [1 .. n -> S \ {u}] /\ \A k, l \in 1 .. n : t[k] = t[l] => k = l
  BY <1>1, <1>2
<1>6. Cardinality(S \ {u}) = n
  BY <1>1, <1>3, RemoveOne
<1>7. t \in Orders(S \ {u})
  BY <1>5, <1>6 DEF Orders
<1>8. Respects(cs, t)
  BY <1>1, <1>2 DEF Respects
<1>9. o = merge(t, create_leaf(u))
  <2>1. merge(t, create_leaf(u)) \in Orders(S)
    BY <1>3, <1>7, OrderMerge
  <2>2. merge(t, create_leaf(u)) \in [1 .. n + 1 -> S]
    BY <1>1, <2>1 DEF Orders
  <2>3. \A k \in 1 .. n : merge(t, create_leaf(u))[k] = t[k]
    BY <1>1, <1>3, <1>7, OrderMerge
  <2>4. merge(t, create_leaf(u))[n + 1] = u
    BY <1>1, <1>3, <1>7, OrderMerge
  <2>5. \A k \in 1 .. n + 1 : merge(t, create_leaf(u))[k] = o[k]
    BY <1>1, <2>3, <2>4
  <2> DEFINE m == merge(t, create_leaf(u))
             D == 1 .. n + 1
  <2>6. m \in [D -> S] /\ o \in [D -> S] /\ \A k \in D : m[k] = o[k]
    BY <1>2, <2>2, <2>5
  <2> HIDE DEF m, D
  <2>7. m = o
    BY <2>6, FunctionsEqual
  <2> QED
    BY <2>7 DEF m
<1> QED
  BY <1>3, <1>4, <1>7, <1>8, <1>9 DEF AdmissibleOrders, cs

(***************************************************************************)
(* Bellman's principle for one subset: an entry that is not dearer than    *)
(* any of its splits is not dearer than any admissible order.              *)
(***************************************************************************)
LEMMA SplitsSuffice ==
  ASSUME IInv, OInv, pc = "split", NEW cost \in Nat,
         \A u \in q : valid(constr, q, u) =>
           cost <= Eval(root, merge(P[q \ {u}].root, create_leaf(u)))
  PROVE  \A o \in AdmissibleOrders(constr, q) : cost <= Eval(root, o)
<1> SUFFICES ASSUME NEW o \in AdmissibleOrders(constr, q)
             PROVE  cost <= Eval(root, o)
  OBVIOUS
<1>1. /\ part_id \in Nat /\ root \in Queries
      /\ q \in SUBSET Rels /\ Cardinality(q) > 1
      /\ q \in AdmissibleSubsets(constr, Rels)
  BY PartIdType DEF IInv, TypeOK, Splitting
<1>2. PICK u \in q : \E t \in AdmissibleOrders(constr, q \ {u}) :
         valid(constr, q, u) /\ o = merge(t, create_leaf(u))
  BY <1>1, LastJoin DEF constr
<1>3. PICK t \in AdmissibleOrders(constr, q \ {u}) :
         valid(constr, q, u) /\ o = merge(t, create_leaf(u))
  BY <1>2
<1> DEFINE S == q \ {u}
           s == P[S].root
<1>4. /\ S \in SUBSET Rels /\ S # {} /\ u \in Rels \ S
      /\ Cardinality(S) = Cardinality(q) - 1
  BY <1>1, RemoveOne
<1>5. S \in AdmissibleSubsets(constr, Rels)
  BY <1>1, <1>3, <1>4, RemoveValid DEF AdmissibleSubsets
<1>6. S \notin join_res /\ S # q
  BY <1>1, <1>4, RelsFinite DEF IInv, Splitting
<1>7. P[S] # NULL
  BY <1>5, <1>6 DEF IInv, Worklist
<1>8. /\ s \in AdmissibleOrders(constr, S)
      /\ Cardinality(S) > 1 => P[S].cost = Eval(root, s)
  BY <1>4, <1>7 DEF IInv, TableSound
<1>9. s \in Orders(S) /\ t \in Orders(S)
  BY <1>3, <1>8 DEF AdmissibleOrders
<1>10. Eval(root, s) <= Eval(root, t)
  <2>1. CASE Cardinality(S) > 1
    BY <1>3, <1>5, <1>6, <1>8, <2>1 DEF OInv, SubsetsOptimal
  <2>2. CASE ~ (Cardinality(S) > 1)
    <3>1. PICK r \in Rels : S = {r}
      BY <1>4, <2>2, SmallSets
    <3>2. s = t
      BY <1>9, <3>1, LeafOrderOnly
    <3>3. Eval(root, t) \in Nat
      BY <1>1, <1>4, <1>9, EvalAssumption
    <3> QED
      BY <3>2, <3>3
  <2> QED
    BY <2>1, <2>2
<1> HIDE DEF S, s
<1>11. Eval(root, merge(s, create_leaf(u))) <= Eval(root, merge(t, create_leaf(u)))
  BY <1>1, <1>4, <1>9, <1>10, OptimalSubstructure
<1>12. cost <= Eval(root, merge(s, create_leaf(u)))
  BY <1>3 DEF S, s
<1>13. Eval(root, merge(s, create_leaf(u))) \in Nat /\ Eval(root, o) \in Nat
  <2>1. merge(s, create_leaf(u)) \in Orders(q)
    BY <1>1, <1>9, OrderMerge DEF S
  <2>2. o \in Orders(q) /\ q # {}
    BY DEF AdmissibleOrders
  <2> QED
    BY <1>1, <2>1, <2>2, EvalAssumption
<1> QED
  BY <1>3, <1>11, <1>12, <1>13

LEMMA InitOInv == Init => OInv
  BY DEF Init, OInv, SubsetsOptimal, TriedSplits, BestOptimal

LEMMA AdmPairOInv == IInv /\ OInv /\ AdmPair => OInv'
  BY DEF OInv, AdmPair, SubsetsOptimal, TriedSplits, BestOptimal

LEMMA AdmDoneOInv == IInv /\ OInv /\ AdmDone => OInv'
<1> SUFFICES ASSUME IInv, OInv, AdmDone PROVE OInv'
  OBVIOUS
<1>1. (Worklist /\ TypeOK)' /\ constr' = constr
  BY AdmDoneIInv DEF IInv, AdmDone, constr
<1>2. ASSUME NEW S \in SUBSET Rels, LeafTable[S] # NULL PROVE ~ (Cardinality(S) > 1)
  <2>1. PICK r \in Rels : S = {r}
    BY <1>2, LeafTableFacts
  <2> QED
    BY <2>1, SingletonCard
<1>3. SubsetsOptimal'
  BY <1>1, <1>2 DEF AdmDone, SubsetsOptimal, Worklist, AdmissibleSubsets
<1> QED
  BY <1>3 DEF OInv, AdmDone, TriedSplits, BestOptimal

LEMMA NextSubsetOInv == IInv /\ OInv /\ NextSubset => OInv'
<1> SUFFICES ASSUME IInv, OInv, NextSubset PROVE OInv'
  OBVIOUS
<1>1. PICK S \in join_res :
        /\ join_res' = join_res \ {S}
        /\ IF Cardinality(S) > 1
           THEN q' = S /\ us' = S /\ pc' = "split"
           ELSE UNCHANGED <<q, us, pc>>
  BY DEF NextSubset
<1>2. pc = "next" /\ UNCHANGED <<root, part_id, pair, P, best, result>> /\ constr' = constr
  BY DEF NextSubset, constr
<1>3. SubsetsOptimal'
  BY <1>1, <1>2 DEF OInv, SubsetsOptimal
<1>4. TriedSplits'
  BY <1>1, <1>2 DEF TriedSplits
<1> QED
  BY <1>1, <1>2, <1>3, <1>4 DEF OInv, BestOptimal

LEMMA TrySplitOInv == IInv /\ OInv /\ TrySplit => OInv'
<1> SUFFICES ASSUME IInv, OInv, TrySplit PROVE OInv'
  OBVIOUS
<1>1. PICK u \in us :
       /\ us' = us \ {u}
       /\ pc' = IF valid(constr, q, u) /\ ~ Splits(u) THEN "crash"
                ELSE IF us = {u} THEN "next" ELSE "split"
       /\ P' = IF valid(constr, q, u) /\ Splits(u) /\ Cheaper(P[q], NewPlan(u))
               THEN [P EXCEPT ![q] = NewPlan(u)]
               ELSE P
  BY DEF TrySplit
<1>2. pc = "split" /\ UNCHANGED <<root, part_id, pair, join_res, q, best, result>> /\ constr' = constr
  BY DEF TrySplit, constr
<1>3. /\ q \in SUBSET Rels /\ us \subseteq q /\ u \in q /\ Cardinality(q) > 1
      /\ P \in [SUBSET Rels -> Plan \cup {NULL}]
      /\ q \in AdmissibleSubsets(constr, Rels)
  BY <1>2 DEF IInv, TypeOK, Splitting
<1>4. valid(constr, q, u) =>
        /\ Splits(u)
        /\ NewPlan(u) \in Plan
        /\ NewPlan(u).root = merge(P[q \ {u}].root, create_leaf(u))
        /\ NewPlan(u).cost = Eval(root, NewPlan(u).root)
  BY <1>2, <1>3, SplitFacts
<1>5. pc' = IF us = {u} THEN "next" ELSE "split"
  BY <1>1, <1>4
<1>6. \A S \in SUBSET Rels : S # q => P'[S] = P[S]
  BY <1>1, <1>3
<1>7. \A p \in Plan : p # NULL /\ p.cost \in Nat
  BY NullAssumption DEF Plan
<1>8. /\ P[q] # NULL => P'[q] \in Plan /\ P'[q] # NULL /\ P'[q].cost <= P[q].cost
      /\ valid(constr, q, u) =>
           /\ P'[q] \in Plan
           /\ P'[q] # NULL
           /\ P'[q].cost <= Eval(root, merge(P[q \ {u}].root, create_leaf(u)))
  <2>1. CASE valid(constr, q, u) /\ Cheaper(P[q], NewPlan(u))
    <3>1. P'[q] = NewPlan(u)
      BY <1>1, <1>3, <1>4, <2>1
    <3>2. P'[q] \in Plan /\ P'[q] # NULL
      BY <1>4, <1>7, <2>1, <3>1
    <3>3. P'[q].cost = Eval(root, merge(P[q \ {u}].root, create_leaf(u)))
      BY <1>4, <2>1, <3>1
    <3>4. P[q] # NULL => P'[q].cost <= P[q].cost
      <4>1. P[q] # NULL => NewPlan(u).cost < P[q].cost /\ P[q] \in Plan
        BY <1>3, <2>1 DEF Cheaper
      <4>2. NewPlan(u).cost \in Nat
        BY <1>4, <1>7, <2>1
      <4> QED
        BY <1>7, <3>1, <4>1, <4>2
    <3>5. P'[q].cost \in Nat
      BY <1>7, <3>2
    <3> QED
      BY <3>2, <3>3, <3>4, <3>5
  <2>2. CASE ~ (valid(constr, q, u) /\ Cheaper(P[q], NewPlan(u)))
    <3>1. P' = P
      BY <1>1, <2>2
    <3> QED
      BY <1>3, <1>4, <1>7, <2>2, <3>1 DEF Cheaper
  <2> QED
    BY <2>1, <2>2
<1>9. \A v \in q \ us' : valid(constr, q, v) =>
        /\ P'[q] \in Plan
        /\ P'[q] # NULL
        /\ P'[q].cost <= Eval(root, merge(P[q \ {v}].root, create_leaf(v)))
  <2> SUFFICES ASSUME NEW v \in q \ us', valid(constr, q, v)
               PROVE  /\ P'[q] \in Plan
                      /\ P'[q] # NULL
                      /\ P'[q].cost <= Eval(root, merge(P[q \ {v}].root, create_leaf(v)))
    OBVIOUS
  <2>1. CASE v = u
    BY <1>8, <2>1
  <2>2. CASE v # u
    <3>1. P[q] # NULL /\ P[q].cost <= Eval(root, merge(P[q \ {v}].root, create_leaf(v)))
      BY <1>1, <1>2, <2>2 DEF OInv, TriedSplits
    <3>2. P[q].cost \in Nat /\ P'[q].cost \in Nat
      BY <1>3, <1>7, <1>8, <3>1
    <3>3. Eval(root, merge(P[q \ {v}].root, create_leaf(v))) \in Nat
      <4>1. NewPlan(v) \in Plan
        BY <1>2, SplitFacts
      <4>2. NewPlan(v).cost = Eval(root, merge(P[q \ {v}].root, create_leaf(v)))
        BY <1>2, SplitFacts
      <4> QED
        BY <1>7, <4>1, <4>2
    <3>4. P'[q] \in Plan /\ P'[q] # NULL /\ P'[q].cost <= P[q].cost
      BY <1>8, <3>1
    <3>5. P'[q].cost <= Eval(root, merge(P[q \ {v}].root, create_leaf(v)))
      BY <3>1, <3>2, <3>3, <3>4
    <3> QED
      BY <3>4, <3>5
  <2> QED
    BY <2>1, <2>2
<1>10. TriedSplits'
  <2>1. \A v \in q : q \ {v} \in SUBSET Rels /\ q \ {v} # q
    BY <1>3
  <2> QED
    BY <1>2, <1>6, <1>9, <2>1 DEF TriedSplits
<1>11. SubsetsOptimal'
  <2> SUFFICES ASSUME NEW S \in AdmissibleSubsets(constr, Rels), Cardinality(S) > 1,
                      S \notin join_res, ~ (pc' = "split" /\ S = q),
                      NEW o \in AdmissibleOrders(constr, S)
               PROVE  P'[S].cost <= Eval(root, o)
    BY <1>2 DEF SubsetsOptimal
  <2>1. CASE S # q
    <3>1. P'[S] = P[S]
      BY <1>6, <2>1 DEF AdmissibleSubsets
    <3> QED
      BY <1>2, <2>1, <3>1 DEF OInv, SubsetsOptimal
  <2>2. CASE S = q
    <3>1. us' = {}
      BY <1>1, <1>5, <2>2
    <3>2. \E v \in q : valid(constr, q, v)
      <4>1. part_id \in Nat /\ q # {}
        BY <1>3, PartIdType DEF IInv
      <4> QED
        BY <1>3, <4>1, SomeValid DEF constr
    <3>3. P'[q].cost \in Nat
      BY <1>7, <1>9, <3>1, <3>2
    <3>4. \A v \in q : valid(constr, q, v) =>
            P'[q].cost <= Eval(root, merge(P[q \ {v}].root, create_leaf(v)))
      BY <1>9, <3>1
    <3> QED
      BY <1>2, <2>2, <3>3, <3>4, SplitsSuffice
  <2> QED
    BY <2>1, <2>2
<1> QED
  BY <1>2, <1>5, <1>10, <1>11 DEF OInv, BestOptimal

LEMMA WorkerReturnsOInv == IInv /\ OInv /\ WorkerReturns => OInv'
<1> SUFFICES ASSUME IInv, OInv, WorkerReturns PROVE OInv'
  OBVIOUS
<1>1. /\ pc = "next" /\ join_res = {} /\ part_id' = part_id + 1
      /\ UNCHANGED <<root, result>> /\ part_id \in Nat
  BY PartIdType DEF WorkerReturns, IInv
<1>2. /\ P[Rels] \in Plan /\ P[Rels] # NULL
      /\ P[Rels].cost \in Nat
      /\ \A o \in AdmissibleOrders(constr, Rels) : P[Rels].cost <= Eval(root, o)
  <2>1. P[Rels] \in Plan /\ P[Rels] # NULL
    BY <1>1, TopFacts
  <2>2. Cardinality(Rels) > 1 /\ Rels # {}
    BY RelsFinite, LevelsAssumption DEF Rels
  <2>3. Rels \in AdmissibleSubsets(constr, Rels)
    BY <1>1, <2>2, ConstraintRels DEF AdmissibleSubsets, Admissible, Closed, constr
  <2> QED
    BY <1>1, <2>1, <2>2, <2>3 DEF OInv, SubsetsOptimal, Plan
<1>3. part_id > 0 => best # NULL /\ best \in Plan /\ best.cost \in Nat
  BY DEF IInv, BestSound, TypeOK, Plan
<1>4. /\ best'.cost <= P[Rels].cost
      /\ part_id > 0 => best'.cost <= best.cost
      /\ best'.cost \in Nat
  <2>1. CASE part_id = 0
    <3>1. best' = P[Rels]
      BY <1>1, <2>1 DEF WorkerReturns
    <3> QED
      BY <1>2, <2>1, <3>1
  <2>2. CASE part_id # 0
    <3>1. part_id > 0
      BY <2>2, PartIdType DEF IInv
    <3>2. best' = IF P[Rels].cost < best.cost THEN P[Rels] ELSE best
      BY <1>1, <1>2, <1>3, <2>2, <3>1 DEF WorkerReturns
    <3> QED
      BY <1>2, <1>3, <3>1, <3>2
  <2> QED
    BY <2>1, <2>2
<1>5. BestOptimal'
  <2> SUFFICES ASSUME NEW w \in 0 .. part_id, NEW o \in AdmissibleOrders(part_constraints(w), Rels)
               PROVE  best'.cost <= Eval(root, o)
    BY <1>1 DEF BestOptimal
  <2>1. Eval(root, o) \in Nat
    <3>1. 0 \in Rels
      BY LevelsAssumption DEF Rels
    <3>2. o \in Orders(Rels) /\ root \in Queries
      BY DEF AdmissibleOrders, IInv, TypeOK
    <3> QED
      BY <3>1, <3>2, EvalAssumption
  <2>2. CASE w = part_id
    BY <1>2, <1>4, <2>1, <2>2 DEF constr
  <2>3. CASE w \in 0 .. part_id - 1
    BY <1>1, <1>3, <1>4, <2>1, <2>3 DEF OInv, BestOptimal
  <2> QED
    BY <1>1, <2>2, <2>3
<1>6. pc' \notin {"next", "split", "done"}
  BY DEF WorkerReturns
<1> QED
  BY <1>1, <1>5, <1>6 DEF OInv, SubsetsOptimal, TriedSplits

LEMMA ConstructOInv == IInv /\ OInv /\ Construct => OInv'
  BY DEF IInv, OInv, Construct, SubsetsOptimal, TriedSplits, BestOptimal

LEMMA StutterOInv == OInv /\ UNCHANGED vars => OInv'
  BY DEF OInv, vars, SubsetsOptimal, TriedSplits, BestOptimal, constr

LEMMA StepOInv == IInv /\ OInv /\ [Next]_vars => OInv'
  BY AdmPairOInv, AdmDoneOInv, NextSubsetOInv, TrySplitOInv, WorkerReturnsOInv,
     ConstructOInv, StutterOInv DEF Next

(***************************************************************************)
(* OInv is an invariant of the search.                                     *)
(***************************************************************************)
THEOREM OptimalityInvariance == Spec => [](IInv /\ OInv)
  BY InitOInv, StepOInv, Invariance, PTL DEF Spec

LEMMA BestIsOptimal ==
  ASSUME IInv, OInv, part_id = n_workers
  PROVE  \A o \in Orders(Rels) : Eval(root, best.root) <= Eval(root, o)
<1> SUFFICES ASSUME NEW o \in Orders(Rels) PROVE Eval(root, best.root) <= Eval(root, o)
  OBVIOUS
<1>1. PICK w \in 0 .. n_workers - 1 : o \in AdmissibleOrders(part_constraints(w), Rels)
  BY PartitionsCover
<1>2. best.cost <= Eval(root, o)
  BY <1>1 DEF OInv, BestOptimal
<1>3. best.cost = Eval(root, best.root)
  BY WorkersAssumption DEF IInv, BestSound
<1> QED
  BY <1>2, <1>3

LEMMA OInvOptimal == IInv /\ OInv => Optimal
  BY BestIsOptimal DEF Optimal, IInv, Phases, BestSound

(***************************************************************************)
(* The order that is built is the cheapest of all left-deep orders: the    *)
(* partitions cover the space and each worker finds its optimum.           *)
(***************************************************************************)
THEOREM Optimality == Spec => []Optimal
  BY OInvOptimal, OptimalityInvariance, PTL

(***************************************************************************)
(* Every subset a worker is done with has its optimum in the DP table.     *)
(***************************************************************************)
THEOREM TableOptimality == Spec => []TableOptimal
<1>1. IInv /\ OInv => TableOptimal
  BY DEF TableOptimal, IInv, Worklist, OInv, SubsetsOptimal, AdmissibleSubsets
<1> QED
  BY <1>1, OptimalityInvariance, PTL

-----------------------------------------------------------------------------
(* Refinement. *)

(***************************************************************************)
(* Every behaviour of the search is one of OptimalPlanner: it returns      *)
(* once, with an optimal left-deep order, and leaves the query alone.      *)
(***************************************************************************)
THEOREM Refinement == Spec => Planner!Init /\ [][Planner!Next]_(Planner!vars)
<1>1. Init => Planner!Init
  BY DEF Init, Planner!Init
<1>2. ASSUME IInv, OInv, [Next]_vars
      PROVE  [Planner!Next]_(Planner!vars)
  <2>1. CASE Construct
    <3>1. /\ best # NULL /\ part_id = n_workers /\ part_id > 0
          /\ result = NULL /\ result' = best.root /\ root' = root
      <4>1. pc = "construct" /\ root' = root
        BY <2>1 DEF Construct
      <4>2. part_id = n_workers /\ part_id > 0
        BY <1>2, <4>1, WorkersAssumption DEF IInv, Phases
      <4>3. best # NULL
        BY <1>2, <4>2 DEF IInv, BestSound
      <4>4. result = NULL
        BY <1>2, <4>1 DEF OInv
      <4>5. result' = best.root
        BY <2>1, <4>3 DEF Construct
      <4> QED
        BY <4>1, <4>2, <4>3, <4>4, <4>5
    <3>2. best.root \in Orders(Rels)
      BY <1>2, <3>1 DEF IInv, BestSound
    <3>3. \A o \in Orders(Rels) : Eval(root, best.root) <= Eval(root, o)
      BY <1>2, <3>1, BestIsOptimal
    <3> QED
      BY <3>1, <3>2, <3>3 DEF Planner!Next, Planner!Return
  <2>2. CASE ~ Construct
    BY <1>2, <2>2
    DEF Next, AdmPair, AdmDone, NextSubset, TrySplit, WorkerReturns, vars, Planner!vars
  <2> QED
    BY <2>1, <2>2
<1> QED
  BY <1>1, <1>2, OptimalityInvariance, PTL DEF Spec
=============================================================================
