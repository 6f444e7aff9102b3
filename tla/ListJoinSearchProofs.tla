------------------------ MODULE ListJoinSearchProofs ------------------------
(***************************************************************************)
(* Proofs about the search over int lists, for every number of relations,  *)
(* every query and every cost function.                                    *)
(*                                                                         *)
(* No relation and no subset is listed twice (Good), which power sets,     *)
(* products and removals preserve.  Under that invariant every step over   *)
(* lists is the step over sets of ParallelJoinSearch, so what is proved    *)
(* there carries over to the lists of the code.                            *)
(***************************************************************************)
EXTENDS ListJoinSearch, FiniteSetTheorems, NaturalsInduction, WellFoundedInduction, TLAPS

\* A list of nonempty int lists over R, no two of which hold the same set.
Good(l, R) ==
  /\ l \in Seq(Seq(R))
  /\ \A i \in DOMAIN l : l[i] # <<>> /\ IsInjective(l[i])
  /\ \A i, j \in DOMAIN l : Range(l[i]) = Range(l[j]) => i = j

\* Two lists with no set in common.
Apart(s, t) == Sets(s) \cap Sets(t) = {}

\* The list x before each of the lists of a.
Row(x, a) == [j \in DOMAIN a |-> x \o a[j]]

Rels == Search!Rels

\* The inductive invariant.  While adm_join_results runs, its lists hold
\* relations of the pairs it is done with only.
IInv ==
  /\ pair \in Nat
  /\ Good(join_res, Rels)
  /\ pc = "adm" => Good(join_res, 0 .. 2*pair - 1) /\ 2*pair <= levels_needed
  /\ sub_rels \in Seq(Rels) /\ IsInjective(sub_rels)
  /\ next \in 1 .. Len(sub_rels) + 1
  /\ pc = "split" => next <= Len(sub_rels)

-----------------------------------------------------------------------------
(* Sequences *)

LEMMA Concat ==
  ASSUME NEW S, NEW s \in Seq(S), NEW t \in Seq(S)
  PROVE  /\ s \o t \in Seq(S) /\ Len(s \o t) = Len(s) + Len(t)
         /\ \A j \in 1 .. Len(s) + Len(t) : (s \o t)[j] = IF j <= Len(s) THEN s[j] ELSE t[j - Len(s)]
  OBVIOUS

LEMMA SeqFacts ==
  ASSUME NEW S, NEW s \in Seq(S)
  PROVE  Len(s) \in Nat /\ DOMAIN s = 1 .. Len(s) /\ (s = <<>> <=> Len(s) = 0) /\ \A i \in DOMAIN s : s[i] \in S
  OBVIOUS

\* Where an element of s \o t comes from.
LEMMA ConcatParts ==
  ASSUME NEW S, NEW s \in Seq(S), NEW t \in Seq(S)
  PROVE  /\ \A j \in DOMAIN (s \o t) :
              \/ j \in DOMAIN s /\ (s \o t)[j] = s[j]
              \/ j - Len(s) \in DOMAIN t /\ (s \o t)[j] = t[j - Len(s)]
         /\ \A i \in DOMAIN s : i \in DOMAIN (s \o t) /\ (s \o t)[i] = s[i]
         /\ \A i \in DOMAIN t : Len(s) + i \in DOMAIN (s \o t) /\ (s \o t)[Len(s) + i] = t[i]
<1>1. Len(s) \in Nat /\ DOMAIN s = 1 .. Len(s) /\ Len(t) \in Nat /\ DOMAIN t = 1 .. Len(t)
  OBVIOUS
<1>2. DOMAIN (s \o t) = 1 .. Len(s) + Len(t)
  BY Concat
<1> QED  BY <1>1, <1>2, Concat

LEMMA ConcatRange ==
  ASSUME NEW S, NEW s \in Seq(S), NEW t \in Seq(S)
  PROVE  Range(s \o t) = Range(s) \cup Range(t)
<1>1. PICK u : u = s \o t
  BY Zenon
<1>2. /\ \A j \in DOMAIN u : \/ j \in DOMAIN s /\ u[j] = s[j]
                             \/ j - Len(s) \in DOMAIN t /\ u[j] = t[j - Len(s)]
      /\ \A i \in DOMAIN s : i \in DOMAIN u /\ u[i] = s[i]
      /\ \A i \in DOMAIN t : Len(s) + i \in DOMAIN u /\ u[Len(s) + i] = t[i]
  BY <1>1, ConcatParts
<1>3. \A x : x \in Range(u) <=> x \in Range(s) \/ x \in Range(t)
  <2>1. ASSUME NEW x, x \in Range(u) PROVE x \in Range(s) \/ x \in Range(t)
    <3>1. PICK j \in DOMAIN u : x = u[j]
      BY Zenon, <2>1 DEF Range
    <3>2. CASE j \in DOMAIN s /\ u[j] = s[j]
      BY Zenon, <3>1, <3>2 DEF Range
    <3>3. CASE j - Len(s) \in DOMAIN t /\ u[j] = t[j - Len(s)]
      BY Zenon, <3>1, <3>3 DEF Range
    <3> QED  BY Zenon, <1>2, <3>2, <3>3
  <2>2. ASSUME NEW x, x \in Range(s) PROVE x \in Range(u)
    BY Zenon, <1>2, <2>2 DEF Range
  <2>3. ASSUME NEW x, x \in Range(t) PROVE x \in Range(u)
    <3>1. PICK i \in DOMAIN t : x = t[i]
      BY <2>3 DEF Range
    <3>2. Len(s) + i \in DOMAIN u /\ u[Len(s) + i] = x
      BY Zenon, <1>2, <3>1
    <3> QED  BY Zenon, <3>2 DEF Range
  <2> QED  BY Zenon, <2>1, <2>2, <2>3
<1> QED  BY <1>1, <1>3

LEMMA InjectiveConcat ==
  ASSUME NEW S, NEW s \in Seq(S), NEW t \in Seq(S), IsInjective(s), IsInjective(t),
         Range(s) \cap Range(t) = {}
  PROVE  IsInjective(s \o t)
<1>1. PICK u : u = s \o t
  BY Zenon
<1>2. \A j \in DOMAIN u : \/ j \in DOMAIN s /\ u[j] = s[j]
                          \/ j - Len(s) \in DOMAIN t /\ u[j] = t[j - Len(s)]
  BY <1>1, ConcatParts
<1>3. DOMAIN u \subseteq Int /\ Len(s) \in Int
  BY <1>1, Concat
<1>4. ASSUME NEW i \in DOMAIN u, NEW j \in DOMAIN u, u[i] = u[j] PROVE i = j
  <2>1. \A k \in DOMAIN s, l \in DOMAIN t : s[k] # t[l]
    BY Zenon DEF Range
  <2>2. CASE i \in DOMAIN s /\ u[i] = s[i] /\ j \in DOMAIN s /\ u[j] = s[j]
    BY Zenon, <1>4, <2>2 DEF IsInjective
  <2>3. CASE i - Len(s) \in DOMAIN t /\ u[i] = t[i - Len(s)] /\ j - Len(s) \in DOMAIN t /\ u[j] = t[j - Len(s)]
    <3>1. i - Len(s) = j - Len(s)
      BY Zenon, <1>4, <2>3 DEF IsInjective
    <3> QED  BY <1>3, <3>1
  <2> QED  BY Zenon, <1>2, <1>4, <2>1, <2>2, <2>3
<1> QED  BY Zenon, <1>1, <1>4 DEF IsInjective

-----------------------------------------------------------------------------
(* Lists of int lists *)

LEMMA SetsOf ==
  ASSUME NEW l
  PROVE  Sets(l) = {Range(l[i]) : i \in DOMAIN l}
  BY DEF Sets, Range

LEMMA GoodConcat ==
  ASSUME NEW R, NEW s, NEW t, Good(s, R), Good(t, R), Apart(s, t)
  PROVE  Good(s \o t, R) /\ Sets(s \o t) = Sets(s) \cup Sets(t)
<1>0. s \in Seq(Seq(R)) /\ t \in Seq(Seq(R))
  BY DEF Good
<1>1. PICK u : u = s \o t
  BY Zenon
<1>2. /\ \A j \in DOMAIN u : \/ j \in DOMAIN s /\ u[j] = s[j]
                             \/ j - Len(s) \in DOMAIN t /\ u[j] = t[j - Len(s)]
      /\ \A i \in DOMAIN s : i \in DOMAIN u /\ u[i] = s[i]
      /\ \A i \in DOMAIN t : Len(s) + i \in DOMAIN u /\ u[Len(s) + i] = t[i]
  BY <1>0, <1>1, ConcatParts
<1>3. u \in Seq(Seq(R)) /\ DOMAIN u \subseteq Int /\ Len(s) \in Int
  BY <1>0, <1>1, Concat
<1>4. \A x : x \in Sets(u) <=> x \in Sets(s) \/ x \in Sets(t)
  <2>1. \A x : x \in Sets(u) <=> \E i \in DOMAIN u : x = Range(u[i])
    BY SetsOf
  <2>2. \A x : x \in Sets(s) <=> \E i \in DOMAIN s : x = Range(s[i])
    BY SetsOf
  <2>3. \A x : x \in Sets(t) <=> \E i \in DOMAIN t : x = Range(t[i])
    BY SetsOf
  <2>4. ASSUME NEW x, x \in Sets(t) PROVE x \in Sets(u)
    <3>1. PICK i \in DOMAIN t : x = Range(t[i])
      BY Zenon, <2>3, <2>4
    <3>2. Len(s) + i \in DOMAIN u /\ u[Len(s) + i] = t[i]
      BY Zenon, <1>2
    <3> QED  BY Zenon, <2>1, <3>1, <3>2
  <2>5. ASSUME NEW x, x \in Sets(s) PROVE x \in Sets(u)
    BY Zenon, <1>2, <2>1, <2>2, <2>5
  <2>6. ASSUME NEW x, x \in Sets(u) PROVE x \in Sets(s) \/ x \in Sets(t)
    <3>1. PICK j \in DOMAIN u : x = Range(u[j])
      BY Zenon, <2>1, <2>6
    <3>2. CASE j \in DOMAIN s /\ u[j] = s[j]
      BY Zenon, <2>2, <3>1, <3>2
    <3>3. CASE j - Len(s) \in DOMAIN t /\ u[j] = t[j - Len(s)]
      BY Zenon, <2>3, <3>1, <3>3
    <3> QED  BY Zenon, <1>2, <3>2, <3>3
  <2> QED  BY Zenon, <2>4, <2>5, <2>6
<1>5. \A k \in DOMAIN s, l \in DOMAIN t : Range(s[k]) # Range(t[l]) /\ Range(t[l]) # Range(s[k])
  BY Zenon, SetsOf DEF Apart
<1>6. ASSUME NEW i \in DOMAIN u, NEW j \in DOMAIN u, Range(u[i]) = Range(u[j]) PROVE i = j
  <2>2. CASE i \in DOMAIN s /\ u[i] = s[i] /\ j \in DOMAIN s /\ u[j] = s[j]
    BY Zenon, <1>6, <2>2 DEF Good
  <2>3. CASE i - Len(s) \in DOMAIN t /\ u[i] = t[i - Len(s)] /\ j - Len(s) \in DOMAIN t /\ u[j] = t[j - Len(s)]
    <3>1. i - Len(s) = j - Len(s)
      BY Zenon, <1>6, <2>3 DEF Good
    <3> QED  BY <1>3, <3>1
  <2>4. CASE i \in DOMAIN s /\ u[i] = s[i] /\ j - Len(s) \in DOMAIN t /\ u[j] = t[j - Len(s)]
    BY Zenon, <1>5, <1>6, <2>4
  <2>5. CASE i - Len(s) \in DOMAIN t /\ u[i] = t[i - Len(s)] /\ j \in DOMAIN s /\ u[j] = s[j]
    BY Zenon, <1>5, <1>6, <2>5
  <2>6. \/ i \in DOMAIN s /\ u[i] = s[i]
        \/ i - Len(s) \in DOMAIN t /\ u[i] = t[i - Len(s)]
    BY Zenon, <1>2
  <2>7. \/ j \in DOMAIN s /\ u[j] = s[j]
        \/ j - Len(s) \in DOMAIN t /\ u[j] = t[j - Len(s)]
    BY Zenon, <1>2
  <2> QED  BY Zenon, <2>2, <2>3, <2>4, <2>5, <2>6, <2>7
<1>7. ASSUME NEW i \in DOMAIN u PROVE u[i] # <<>> /\ IsInjective(u[i])
  <2>1. CASE i \in DOMAIN s /\ u[i] = s[i]
    BY Zenon, <2>1 DEF Good
  <2>2. CASE i - Len(s) \in DOMAIN t /\ u[i] = t[i - Len(s)]
    BY Zenon, <2>2 DEF Good
  <2> QED  BY Zenon, <1>2, <2>1, <2>2
<1> QED  BY Zenon, <1>1, <1>3, <1>4, <1>6, <1>7 DEF Good

\* One row of the product: the list x before each of the lists of a.
LEMMA GoodRow ==
  ASSUME NEW R, NEW a, Good(a, R), NEW x \in Seq(R), x # <<>>, IsInjective(x),
         \A y \in Sets(a) : Range(x) \cap y = {}
  PROVE  /\ Good(Row(x, a), R)
         /\ \A z : z \in Sets(Row(x, a)) <=> \E y \in Sets(a) : z = Range(x) \cup y
<1>0. a \in Seq(Seq(R)) /\ \A j \in DOMAIN a : a[j] \in Seq(R)
  BY DEF Good
<1>1. PICK r : r = Row(x, a)
  OBVIOUS
<1>2. DOMAIN r = DOMAIN a /\ \A j \in DOMAIN a : r[j] = x \o a[j]
  BY <1>1 DEF Row
<1>3. \A j \in DOMAIN a : Range(a[j]) \in Sets(a)
  BY SetsOf
<1>4. ASSUME NEW j \in DOMAIN a
      PROVE  /\ r[j] \in Seq(R) /\ r[j] # <<>> /\ IsInjective(r[j])
             /\ Range(r[j]) = Range(x) \cup Range(a[j])
             /\ Range(x) \cap Range(a[j]) = {}
  <2>1. Range(x) \cap Range(a[j]) = {} /\ IsInjective(a[j])
    BY Zenon, <1>3 DEF Good
  <2>2. x \o a[j] \in Seq(R) /\ x \o a[j] # <<>>
    BY <1>0
  <2>3. Range(x \o a[j]) = Range(x) \cup Range(a[j])
    <3>1. a[j] \in Seq(R)
      BY Zenon, <1>0
    <3> QED  BY <3>1, ConcatRange
  <2>4. IsInjective(x \o a[j])
    <3>1. a[j] \in Seq(R)
      BY Zenon, <1>0
    <3> QED  BY Zenon, <2>1, <3>1, InjectiveConcat
  <2> QED  BY Zenon, <1>2, <2>1, <2>2, <2>3, <2>4
<1>5. r \in Seq(Seq(R))
  <2>1. DOMAIN a = 1 .. Len(a) /\ Len(a) \in Nat
    BY <1>0
  <2>2. r \in [1 .. Len(a) -> Seq(R)]
    BY <1>1, <1>2, <1>4, <2>1 DEF Row
  <2> QED  BY <2>1, <2>2
<1>6. ASSUME NEW i \in DOMAIN r, NEW j \in DOMAIN r, Range(r[i]) = Range(r[j]) PROVE i = j
  <2>1. /\ Range(r[i]) = Range(x) \cup Range(a[i]) /\ Range(x) \cap Range(a[i]) = {}
        /\ Range(r[j]) = Range(x) \cup Range(a[j]) /\ Range(x) \cap Range(a[j]) = {}
    BY Zenon, <1>2, <1>4
  <2>2. ASSUME NEW X, NEW Y, NEW Z, X \cup Y = X \cup Z, X \cap Y = {}, X \cap Z = {} PROVE Y = Z
    <3>1. ASSUME NEW e PROVE e \in Y => e \in Z
      BY Zenon, <2>2
    <3>2. ASSUME NEW e PROVE e \in Z => e \in Y
      BY Zenon, <2>2
    <3> QED  BY Zenon, <3>1, <3>2
  <2>3. Range(a[i]) = Range(a[j])
    BY Zenon, <1>6, <2>1, <2>2
  <2> QED  BY Zenon, <1>2, <2>3 DEF Good
<1>7. \A z : z \in Sets(r) <=> \E y \in Sets(a) : z = Range(x) \cup y
  <2>1. \A z : z \in Sets(r) <=> \E i \in DOMAIN a : z = Range(x) \cup Range(a[i])
    BY Zenon, <1>2, <1>4, SetsOf
  <2>2. \A y : y \in Sets(a) <=> \E i \in DOMAIN a : y = Range(a[i])
    BY SetsOf
  <2> QED  BY Zenon, <2>1, <2>2
<1> QED  BY Zenon, <1>1, <1>2, <1>4, <1>5, <1>6, <1>7 DEF Good

\* Induction, on a set of numbers.
LEMMA NatSetInduction ==
  ASSUME NEW T \in SUBSET Nat, 0 \in T, \A n \in T : n + 1 \in T
  PROVE  T = Nat
<1> SUFFICES ASSUME Nat \ T # {} PROVE FALSE
  BY Zenon
<1>1. PICK m \in Nat \ T : \A k \in Nat \ T : ~ (<<k, m>> \in OpToRel(<, Nat))
  BY NatLessThanWellFounded, WFMin
<1>2. m - 1 \in T
  <2>1. m # 0
    OBVIOUS
  <2>2. m - 1 \in Nat /\ m - 1 < m
    BY <2>1
  <2>3. <<m - 1, m>> \in OpToRel(<, Nat)
    BY <2>2 DEF OpToRel
  <2> QED  BY <1>1, <2>2, <2>3
<1>3. m - 1 + 1 = m
  OBVIOUS
<1> QED  BY <1>2, <1>3

\* The recursion of Flatten is well-defined.
LEMMA FlattenDef ==
  ASSUME NEW ss, Len(ss) \in Nat \ {0}
  PROVE  \E f : /\ f[1] = ss[1]
                /\ \A i \in 2 .. Len(ss) : f[i] = f[i - 1] \o ss[i]
                /\ Flatten(ss) = f[Len(ss)]
<1> DEFINE G(f, n) == [i \in 1 .. n |-> IF i = 1 THEN ss[i] ELSE f[i - 1] \o ss[i]]
           T == {n \in Nat : \E f : f = G(f, n)}
           F == CHOOSE f : f = G(f, Len(ss))
<1>1. 0 \in T
  <2>1. [i \in 1 .. 0 |-> ss[i]] = G([i \in 1 .. 0 |-> ss[i]], 0)
    OBVIOUS
  <2> QED  BY Zenon, <2>1
<1>2. ASSUME NEW n \in T PROVE n + 1 \in T
  <2>1. PICK f : f = G(f, n)
    BY Zenon
  <2> DEFINE g == [i \in 1 .. n + 1 |-> IF i = n + 1 THEN (IF i = 1 THEN ss[i] ELSE f[n] \o ss[i]) ELSE f[i]]
  <2>2. n \in Nat
    OBVIOUS
  <2>3. \A i \in 1 .. n + 1 : g[i] = G(g, n + 1)[i]
    <3> SUFFICES ASSUME NEW i \in 1 .. n + 1 PROVE g[i] = G(g, n + 1)[i]
      BY Zenon
    <3>1. CASE i = n + 1
      <4>1. CASE i = 1
        BY <2>2, <3>1, <4>1
      <4>2. CASE i # 1
        <5>1. i - 1 = n /\ i - 1 \in 1 .. n + 1 /\ i - 1 # n + 1
          BY <2>2, <3>1, <4>2
        <5> QED  BY Zenon, <3>1, <4>2, <5>1
      <4> QED BY <4>1, <4>2
    <3>2. CASE i \in 1 .. n
      <4>1. f[i] = G(f, n)[i]
        BY Zenon, <2>1
      <4>2. i # n + 1 /\ i - 1 # n + 1 /\ (i # 1 => i - 1 \in 1 .. n + 1)
        BY <2>2, <3>2
      <4> QED BY <2>2, <3>2, <4>1, <4>2
    <3> QED  BY <2>2, <3>1, <3>2
  <2>4. g = G(g, n + 1)
    BY Zenon, <2>3
  <2> HIDE DEF g, G
  <2>5. \E h : h = G(h, n + 1)
    BY <2>4, Zenon
  <2> QED  BY <2>2, <2>5
<1>3. T = Nat
  <2>1. \A n \in T : n + 1 \in T
    BY Zenon, <1>2
  <2> HIDE DEF T
  <2>2. T \in SUBSET Nat
    BY Zenon DEF T
  <2> QED  BY <1>1, <2>1, <2>2, NatSetInduction
<1>4. \E f : f = G(f, Len(ss))
  BY Zenon, <1>3
<1>5. F = G(F, Len(ss))
  BY Zenon, <1>4
<1>6. Flatten(ss) = F[Len(ss)]
  BY DEF Flatten
<1>7. PICK f : f = F
  BY Zenon
<1>8. f = G(f, Len(ss)) /\ Flatten(ss) = f[Len(ss)]
  <2> HIDE DEF F, G
  <2>1. f = G(f, Len(ss))
    BY Zenon, <1>5, <1>7
  <2> QED  BY Zenon, <1>6, <1>7, <2>1
<1>9. \A i \in 1 .. Len(ss) : f[i] = IF i = 1 THEN ss[i] ELSE f[i - 1] \o ss[i]
  BY Zenon, <1>8
<1>10. 1 \in 1 .. Len(ss) /\ \A i \in 2 .. Len(ss) : i \in 1 .. Len(ss) /\ i # 1
  OBVIOUS
<1> QED  BY Zenon, <1>8, <1>9, <1>10

\* Good lists that have no set in common.
Rows(ss, R) ==
  /\ Len(ss) \in Nat \ {0}
  /\ \A i \in 1 .. Len(ss) : Good(ss[i], R)
  /\ \A i, j \in 1 .. Len(ss) : i # j => Apart(ss[i], ss[j])

LEMMA GoodFlatten ==
  ASSUME NEW R, NEW ss, Rows(ss, R)
  PROVE  /\ Good(Flatten(ss), R)
         /\ \A x : x \in Sets(Flatten(ss)) <=> \E i \in 1 .. Len(ss) : x \in Sets(ss[i])
<1>a. \A s, t : Good(s, R) /\ Good(t, R) /\ Apart(s, t)
                => Good(s \o t, R) /\ Sets(s \o t) = Sets(s) \cup Sets(t)
  BY GoodConcat
<1> DEFINE Upto(g, n) == \A x : x \in Sets(g) <=> \E i \in 1 .. n : x \in Sets(ss[i])
<1>0. /\ Len(ss) \in Nat \ {0}
      /\ \A i \in 1 .. Len(ss) : Good(ss[i], R)
      /\ \A i, j \in 1 .. Len(ss) : i # j => Apart(ss[i], ss[j])
  BY Zenon DEF Rows
<1>1. PICK f : /\ f[1] = ss[1]
               /\ \A i \in 2 .. Len(ss) : f[i] = f[i - 1] \o ss[i]
               /\ Flatten(ss) = f[Len(ss)]
  BY Zenon, <1>0, FlattenDef
<1> DEFINE T == {n \in Nat : n + 1 \in 1 .. Len(ss) => Good(f[n + 1], R) /\ Upto(f[n + 1], n + 1)}
<1>2. 0 \in T
  <2>1. Good(f[1], R)
    BY <1>0, <1>1
  <2>2. Upto(f[1], 1)
    <3>1. \A i : i \in 1 .. 1 <=> i = 1
      OBVIOUS
    <3> QED  BY Zenon, <1>1, <3>1
  <2>3. 0 + 1 = 1
    OBVIOUS
  <2> HIDE DEF Upto
  <2> QED  BY <2>1, <2>2, <2>3
<1>3. ASSUME NEW n \in T PROVE n + 1 \in T
  <2>0. n \in Nat
    OBVIOUS
  <2> SUFFICES ASSUME n + 1 + 1 \in 1 .. Len(ss)
               PROVE  Good(f[n + 1 + 1], R) /\ Upto(f[n + 1 + 1], n + 1 + 1)
    BY <2>0
  <2>1. PICK m : m = n + 1 /\ m \in 1 .. Len(ss) /\ m + 1 \in 1 .. Len(ss) /\ m + 1 \in 2 .. Len(ss) /\ m + 1 - 1 = m
    BY <1>0, <2>0
  <2>2. Good(f[m], R) /\ Upto(f[m], m)
    <3> HIDE DEF Upto
    <3> QED  BY <2>1
  <2>3. f[m + 1] = f[m] \o ss[m + 1] /\ Good(ss[m + 1], R)
    <3>1. PICK k : k = m + 1 /\ k \in 2 .. Len(ss) /\ k - 1 = m
      BY <2>1
    <3>2. f[k] = f[k - 1] \o ss[k]
      BY Zenon, <1>1, <3>1
    <3> QED  BY Zenon, <1>0, <2>1, <3>1, <3>2
  <2>4. \A i \in 1 .. m : i \in 1 .. Len(ss) /\ i # m + 1
    BY <1>0, <2>1
  <2>5. Apart(f[m], ss[m + 1])
    <3> SUFFICES ASSUME NEW x, x \in Sets(f[m]), x \in Sets(ss[m + 1]) PROVE FALSE
      BY Zenon DEF Apart
    <3>1. PICK i \in 1 .. m : x \in Sets(ss[i])
      BY Zenon, <2>2
    <3>2. Apart(ss[i], ss[m + 1])
      BY Zenon, <1>0, <2>1, <2>4
    <3> QED  BY Zenon, <3>1, <3>2 DEF Apart
  <2>6. Good(f[m + 1], R) /\ Sets(f[m + 1]) = Sets(f[m]) \cup Sets(ss[m + 1])
    BY Zenon, <1>a, <2>2, <2>3, <2>5
  <2>7. Upto(f[m + 1], m + 1)
    <3>1. \A i : i \in 1 .. m + 1 <=> i \in 1 .. m \/ i = m + 1
      BY <2>1
    <3> QED  BY Zenon, <2>2, <2>6, <3>1
  <2> QED  BY <2>1, <2>6, <2>7
<1>4. T = Nat
  <2>1. \A n \in T : n + 1 \in T
    BY <1>3
  <2>2. T \in SUBSET Nat
    OBVIOUS
  <2> HIDE DEF T
  <2> QED  BY <1>2, <2>1, <2>2, NatSetInduction
<1>5. Len(ss) - 1 \in T /\ Len(ss) - 1 + 1 = Len(ss)
  <2> HIDE DEF T
  <2> QED  BY <1>0, <1>4
<1>6. Good(f[Len(ss)], R) /\ Upto(f[Len(ss)], Len(ss))
  <2> HIDE DEF Upto
  <2> QED  BY <1>0, <1>5
<1> QED  BY Zenon, <1>1, <1>6

\* The sets of a good list are nonempty sets of relations.
LEMMA GoodSets ==
  ASSUME NEW R, NEW l, Good(l, R)
  PROVE  /\ \A y \in Sets(l) : y # {} /\ y \subseteq R
         /\ l = <<>> <=> Sets(l) = {}
         /\ \A i \in DOMAIN l : l[i] \in Seq(R) /\ Range(l[i]) \in Sets(l)
<1>1. l \in Seq(Seq(R)) /\ \A i \in DOMAIN l : l[i] \in Seq(R) /\ l[i] # <<>>
  BY DEF Good
<1>2. \A s \in Seq(R) : s # <<>> => 1 \in DOMAIN s /\ \A i \in DOMAIN s : s[i] \in R
  OBVIOUS
<1>3. \A s \in Seq(R) : s # <<>> => Range(s) # {} /\ Range(s) \subseteq R
  BY Zenon, <1>2 DEF Range
<1>4. l # <<>> => 1 \in DOMAIN l
  BY <1>1
<1>5. l = <<>> => DOMAIN l = {}
  OBVIOUS
<1>6. \A y : y \in Sets(l) <=> \E i \in DOMAIN l : y = Range(l[i])
  BY SetsOf
<1>7. ASSUME NEW y \in Sets(l) PROVE y # {} /\ y \subseteq R
  <2>1. PICK i \in DOMAIN l : y = Range(l[i])
    BY Zenon, <1>6
  <2> QED  BY Zenon, <1>1, <1>3, <2>1
<1>8. l = <<>> <=> Sets(l) = {}
  BY Zenon, <1>4, <1>5, <1>6
<1> QED  BY Zenon, <1>1, <1>6, <1>7, <1>8

LEMMA GoodMono ==
  ASSUME NEW R, NEW A, A \subseteq R, NEW l, Good(l, A)
  PROVE  Good(l, R)
<1>1. l \in Seq(Seq(R))
  BY DEF Good
<1> QED  BY Zenon, <1>1 DEF Good

\* cartesian_product of lists over two sets of relations that are disjoint.
LEMMA GoodProduct ==
  ASSUME NEW R, NEW A, NEW B, A \subseteq R, B \subseteq R, A \cap B = {},
         NEW a, NEW b, Good(a, A), Good(b, B)
  PROVE  /\ Good(cartesian_product(a, b), R)
         /\ Sets(cartesian_product(a, b)) = Search!cartesian_product(Sets(a), Sets(b))
<1>1. Good(a, R) /\ Good(b, R)
  BY Zenon, GoodMono
<1>2. /\ \A y \in Sets(a) : y # {} /\ y \subseteq A
      /\ \A y \in Sets(b) : y # {} /\ y \subseteq B
      /\ a = <<>> <=> Sets(a) = {}
      /\ b = <<>> <=> Sets(b) = {}
      /\ \A i \in DOMAIN b : b[i] \in Seq(B) /\ Range(b[i]) \in Sets(b)
  BY Zenon, GoodSets
<1>3. CASE a = <<>> \/ b = <<>>
  <2>1. CASE a = <<>>
    BY <1>1, <1>2, <2>1 DEF cartesian_product, Search!cartesian_product
  <2>2. CASE a # <<>> /\ b = <<>>
    BY <1>1, <1>2, <2>2 DEF cartesian_product, Search!cartesian_product
  <2> QED  BY <1>3, <2>1, <2>2
<1>4. CASE a # <<>> /\ b # <<>>
  <2>1. PICK ss : ss = [i \in DOMAIN b |-> Row(b[i], a)]
    BY Zenon
  <2>2. Len(ss) \in Nat \ {0} /\ 1 .. Len(ss) = DOMAIN b
    <3>1. Len(b) \in Nat \ {0} /\ DOMAIN b = 1 .. Len(b)
      BY <1>4 DEF Good
    <3>2. ss \in [1 .. Len(b) -> {ss[i] : i \in 1 .. Len(b)}]
      BY <2>1, <3>1
    <3>3. Len(ss) = Len(b)
      <4>1. ss \in Seq({ss[i] : i \in 1 .. Len(b)}) /\ DOMAIN ss = 1 .. Len(b)
        BY <3>1, <3>2
      <4> QED  BY <3>1, <4>1
    <3> QED  BY <3>1, <3>3
  <2>3. ASSUME NEW i \in DOMAIN b
        PROVE  Good(ss[i], R) /\ \A z : z \in Sets(ss[i]) <=> \E y \in Sets(a) : z = Range(b[i]) \cup y
    <3>1. ss[i] = Row(b[i], a)
      BY <2>1
    <3>2. PICK x \in Seq(R) : x = b[i] /\ x # <<>> /\ IsInjective(x)
      BY <1>1 DEF Good
    <3>3. Range(b[i]) \subseteq B
      BY Zenon, <1>2
    <3>4. \A y \in Sets(a) : Range(b[i]) \cap y = {}
      BY <1>2, <3>3
    <3>5. \A y \in Sets(a) : Range(x) \cap y = {}
      BY Zenon, <3>2, <3>4
    <3>6. /\ Good(Row(x, a), R)
          /\ \A z : z \in Sets(Row(x, a)) <=> \E y \in Sets(a) : z = Range(x) \cup y
      BY <1>1, <3>2, <3>5, GoodRow
    <3> QED  BY Zenon, <3>1, <3>2, <3>6
  <2>4. ASSUME NEW i \in DOMAIN b, NEW j \in DOMAIN b, i # j PROVE Apart(ss[i], ss[j])
    <3> SUFFICES ASSUME NEW x, x \in Sets(ss[i]), x \in Sets(ss[j]) PROVE FALSE
      BY Zenon DEF Apart
    <3>1. PICK y \in Sets(a) : x = Range(b[i]) \cup y
      BY <2>3
    <3>2. PICK z \in Sets(a) : x = Range(b[j]) \cup z
      BY <2>3
    <3>3. y \subseteq A /\ z \subseteq A /\ Range(b[i]) \subseteq B /\ Range(b[j]) \subseteq B
      BY Zenon, <1>2
    <3>4. Range(b[i]) = Range(b[j])
      BY <3>1, <3>2, <3>3
    <3> QED  BY Zenon, <2>4, <3>4 DEF Good
  <2>5. PICK fl : fl = Flatten(ss)
    OBVIOUS
  <2>6. Good(fl, R) /\ \A x : x \in Sets(fl) <=> \E i \in DOMAIN b : x \in Sets(ss[i])
    <3>1. \A i \in 1 .. Len(ss) : Good(ss[i], R)
      BY Zenon, <2>2, <2>3
    <3>2. \A i, j \in 1 .. Len(ss) : i # j => Apart(ss[i], ss[j])
      BY Zenon, <2>2, <2>4
    <3> QED  BY Zenon, <2>2, <2>5, <3>1, <3>2, GoodFlatten DEF Rows
  <2>7. \A x : x \in Sets(fl) <=> \E y \in Sets(a), z \in Sets(b) : x = y \cup z
    <3>1. \A z : z \in Sets(b) <=> \E i \in DOMAIN b : z = Range(b[i])
      BY SetsOf
    <3>2. \A X, Y : X \cup Y = Y \cup X
      OBVIOUS
    <3>3. ASSUME NEW x, x \in Sets(fl) PROVE \E y \in Sets(a), z \in Sets(b) : x = y \cup z
      <4>1. PICK i \in DOMAIN b : x \in Sets(ss[i])
        BY Zenon, <2>6, <3>3
      <4>2. PICK y \in Sets(a) : x = Range(b[i]) \cup y
        BY Zenon, <2>3, <4>1
      <4>3. x = y \cup Range(b[i])
        BY Zenon, <3>2, <4>2
      <4> QED  BY Zenon, <3>1, <4>3
    <3>4. ASSUME NEW x, NEW y \in Sets(a), NEW z \in Sets(b), x = y \cup z PROVE x \in Sets(fl)
      <4>1. PICK i \in DOMAIN b : z = Range(b[i])
        BY Zenon, <3>1
      <4>2. x = Range(b[i]) \cup y
        BY Zenon, <3>2, <3>4, <4>1
      <4>3. x \in Sets(ss[i])
        BY Zenon, <2>3, <4>2
      <4> QED  BY Zenon, <2>6, <4>3
    <3> QED  BY Zenon, <3>3, <3>4
  <2>8. Apart(a, b)
    BY <1>2 DEF Apart
  <2>9. Good(a \o b, R) /\ Sets(a \o b) = Sets(a) \cup Sets(b)
    BY <1>1, <2>8, GoodConcat
  <2>10. Apart(a \o b, fl)
    <3> SUFFICES ASSUME NEW x, x \in Sets(a) \/ x \in Sets(b), x \in Sets(fl) PROVE FALSE
      BY Zenon, <2>9 DEF Apart
    <3>1. PICK y \in Sets(a), z \in Sets(b) : x = y \cup z
      BY Zenon, <2>7
    <3>2. y # {} /\ y \subseteq A /\ z # {} /\ z \subseteq B
      BY Zenon, <1>2
    <3>3. x \subseteq A \/ x \subseteq B
      BY Zenon, <1>2
    <3> QED  BY <3>1, <3>2, <3>3
  <2>11. Good((a \o b) \o fl, R) /\ Sets((a \o b) \o fl) = (Sets(a) \cup Sets(b)) \cup Sets(fl)
    <3>1. PICK ab : ab = a \o b
      BY Zenon
    <3>2. Good(ab, R) /\ Sets(ab) = Sets(a) \cup Sets(b)
      BY Zenon, <2>9, <3>1
    <3>3. Good(fl, R)
      BY Zenon, <2>6
    <3>4. Apart(ab, fl)
      BY Zenon, <2>10, <3>1
    <3>5. Good(ab \o fl, R) /\ Sets(ab \o fl) = Sets(ab) \cup Sets(fl)
      BY <3>2, <3>3, <3>4, GoodConcat
    <3> QED  BY Zenon, <3>1, <3>2, <3>5
  <2>12. cartesian_product(a, b) = (a \o b) \o fl
    BY Zenon, <1>4, <2>1, <2>5 DEF cartesian_product, Row
  <2>13. Sets(fl) = {y \cup z : y \in Sets(a), z \in Sets(b)}
    BY <2>7
  <2>14. Search!cartesian_product(Sets(a), Sets(b)) = (Sets(a) \cup Sets(b)) \cup {y \cup z : y \in Sets(a), z \in Sets(b)}
    BY <1>2, <1>4 DEF Search!cartesian_product
  <2> QED  BY <2>11, <2>12, <2>13, <2>14
<1> QED  BY Zenon, <1>3, <1>4

\* Lists of no, and of one int list.
LEMMA GoodEmpty ==
  ASSUME NEW R
  PROVE  Good(<<>>, R) /\ Sets(<<>>) = {}
<1>1. DOMAIN <<>> = {} /\ <<>> \in Seq(Seq(R))
  OBVIOUS
<1> QED  BY <1>1, SetsOf DEF Good

LEMMA GoodOne ==
  ASSUME NEW R, NEW x \in Seq(R), x # <<>>, IsInjective(x)
  PROVE  Good(<<x>>, R) /\ Sets(<<x>>) = {Range(x)}
<1>1. PICK l : l = <<x>>
  BY Zenon
<1>2. l \in Seq(Seq(R)) /\ l[1] = x /\ DOMAIN l = {1}
  BY <1>1
<1>3. Sets(l) = {Range(x)}
  BY <1>2, SetsOf
<1>4. Good(l, R)
  BY Zenon, <1>2 DEF Good
<1> QED  BY Zenon, <1>1, <1>3, <1>4

LEMMA Singleton ==
  ASSUME NEW R, NEW r \in R
  PROVE  Good(<< <<r>> >>, R) /\ Sets(<< <<r>> >>) = {{r}}
<1>1. PICK x : x = <<r>>
  BY Zenon
<1>2. x \in Seq(R) /\ x # <<>> /\ DOMAIN x = {1} /\ x[1] = r
  BY <1>1
<1>3. IsInjective(x) /\ Range(x) = {r}
  BY <1>2 DEF IsInjective, Range
<1> QED  BY Zenon, <1>1, <1>2, <1>3, GoodOne

LEMMA Doubleton ==
  ASSUME NEW R, NEW r \in R, NEW t \in R, r # t
  PROVE  Good(<< <<r, t>> >>, R) /\ Sets(<< <<r, t>> >>) = {{r, t}}
<1>1. PICK x : x = <<r, t>>
  BY Zenon
<1>2. x \in Seq(R) /\ x # <<>> /\ DOMAIN x = {1, 2} /\ x[1] = r /\ x[2] = t
  BY <1>1
<1>3. IsInjective(x) /\ Range(x) = {r, t}
  BY <1>2 DEF IsInjective, Range
<1> QED  BY Zenon, <1>1, <1>2, <1>3, GoodOne

\* The list of the singleton of r, unless r is the second of a constraint.
Include(cs, r) == IF \E c \in cs : c[2] = r THEN <<>> ELSE << <<r>> >>

LEMMA IncludeGood ==
  ASSUME NEW R, NEW cs, NEW r \in R
  PROVE  Good(Include(cs, r), R) /\ Sets(Include(cs, r)) = {S \in {{r}} : \A c \in cs : {c[2]} # S}
<1>1. CASE \E c \in cs : c[2] = r
  BY <1>1, GoodEmpty DEF Include
<1>2. CASE ~ \E c \in cs : c[2] = r
  <2>1. {S \in {{r}} : \A c \in cs : {c[2]} # S} = {{r}}
    BY <1>2
  <2> QED  BY Zenon, <1>2, <2>1, Singleton DEF Include
<1> QED  BY <1>1, <1>2

LEMMA GoodPower ==
  ASSUME NEW R, NEW cs, NEW r \in R, NEW t \in R, r # t
  PROVE  /\ Good(constrained_power_set(cs, r, t), R)
         /\ Sets(constrained_power_set(cs, r, t)) = Search!constrained_power_set(cs, r, t)
<1>1. PICK a, b, d : a = Include(cs, r) /\ b = Include(cs, t) /\ d = << <<r, t>> >>
  BY Zenon
<1>2. constrained_power_set(cs, r, t) = (a \o b) \o d
  BY Zenon, <1>1 DEF constrained_power_set, Include
<1>3. /\ Good(a, R) /\ Sets(a) = {S \in {{r}} : \A c \in cs : {c[2]} # S}
      /\ Good(b, R) /\ Sets(b) = {S \in {{t}} : \A c \in cs : {c[2]} # S}
      /\ Good(d, R) /\ Sets(d) = {{r, t}}
  BY <1>1, IncludeGood, Doubleton
<1>4. {r} # {t} /\ {r} # {r, t} /\ {t} # {r, t}
  OBVIOUS
<1>5. Apart(a, b)
  BY <1>3, <1>4 DEF Apart
<1>a. Good(a, R) /\ Good(b, R) /\ Good(d, R)
  BY Zenon, <1>3
<1>6. Good(a \o b, R) /\ Sets(a \o b) = Sets(a) \cup Sets(b)
  BY <1>a, <1>5, GoodConcat
<1>7. Apart(a \o b, d)
  BY <1>3, <1>4, <1>6 DEF Apart
<1>8. Good((a \o b) \o d, R) /\ Sets((a \o b) \o d) = Sets(a \o b) \cup Sets(d)
  BY <1>a, <1>6, <1>7, GoodConcat
<1>9. (Sets(a) \cup Sets(b)) \cup Sets(d) = Search!constrained_power_set(cs, r, t)
  BY <1>3 DEF Search!constrained_power_set
<1> QED  BY Zenon, <1>2, <1>6, <1>8, <1>9

\* The length of a list without repetition is the size of its set.
LEMMA Size ==
  ASSUME NEW R, NEW x \in Seq(R), IsInjective(x)
  PROVE  Cardinality(Range(x)) = Len(x)
<1>1. Len(x) \in Nat /\ DOMAIN x = 1 .. Len(x)
  OBVIOUS
<1>2. x \in [1 .. Len(x) -> Range(x)]
  BY <1>1 DEF Range
<1>3. x \in Bijection(1 .. Len(x), Range(x))
  BY <1>1, <1>2 DEF Bijection, Injection, Surjection, Range
<1> QED  BY <1>1, <1>3, FS_CountingElements DEF ExistsBijection

\* A list without its member at i.
LEMMA WithoutFacts ==
  ASSUME NEW S, NEW s \in Seq(S), NEW i \in DOMAIN s
  PROVE  /\ Without(s, i) \in Seq(S)
         /\ DOMAIN Without(s, i) = 1 .. Len(s) - 1
         /\ \A j \in 1 .. Len(s) - 1 : Without(s, i)[j] = IF j < i THEN s[j] ELSE s[j + 1]
<1>1. Len(s) \in Nat /\ DOMAIN s = 1 .. Len(s) /\ i \in 1 .. Len(s)
  OBVIOUS
<1>2. PICK a, b : a = SubSeq(s, 1, i - 1) /\ b = SubSeq(s, i + 1, Len(s))
  BY Zenon
<1>3. a \in Seq(S) /\ Len(a) = i - 1 /\ \A j \in 1 .. i - 1 : a[j] = s[j]
  BY <1>1, <1>2
<1>4. b \in Seq(S) /\ Len(b) = Len(s) - i /\ \A j \in 1 .. Len(s) - i : b[j] = s[i + j]
  BY <1>1, <1>2
<1>5. PICK u : u = a \o b
  BY Zenon
<1>6. u \in Seq(S) /\ Len(u) = Len(s) - 1 /\ \A j \in 1 .. Len(s) - 1 : u[j] = IF j <= i - 1 THEN a[j] ELSE b[j - (i - 1)]
  <2>1. u \in Seq(S) /\ Len(u) = Len(a) + Len(b) /\ \A j \in 1 .. Len(a) + Len(b) : u[j] = IF j <= Len(a) THEN a[j] ELSE b[j - Len(a)]
    BY <1>3, <1>4, <1>5, Concat
  <2>2. Len(a) = i - 1 /\ Len(a) + Len(b) = Len(s) - 1
    BY <1>1, <1>3, <1>4
  <2> QED  BY Zenon, <2>1, <2>2
<1>7. ASSUME NEW j \in 1 .. Len(s) - 1 PROVE u[j] = IF j < i THEN s[j] ELSE s[j + 1]
  <2>1. CASE j < i
    BY <1>1, <1>3, <1>6, <2>1
  <2>2. CASE ~ (j < i)
    <3>1. u[j] = b[j - (i - 1)] /\ j - (i - 1) \in 1 .. Len(s) - i /\ i + (j - (i - 1)) = j + 1
      BY <1>1, <1>6, <2>2
    <3> QED  BY Zenon, <1>4, <2>2, <3>1
  <2> QED  BY <2>1, <2>2
<1>8. DOMAIN u = 1 .. Len(s) - 1
  BY <1>1, <1>6
<1> QED  BY Zenon, <1>2, <1>5, <1>6, <1>7, <1>8 DEF Without

LEMMA GoodWithout ==
  ASSUME NEW R, NEW l, Good(l, R), NEW i \in DOMAIN l
  PROVE  Good(Without(l, i), R) /\ Sets(Without(l, i)) = Sets(l) \ {Range(l[i])}
<1>1. l \in Seq(Seq(R)) /\ Len(l) \in Nat /\ DOMAIN l = 1 .. Len(l) /\ i \in 1 .. Len(l)
  BY DEF Good
<1>2. PICK u : u = Without(l, i)
  OBVIOUS
<1>3. /\ u \in Seq(Seq(R)) /\ DOMAIN u = 1 .. Len(l) - 1
      /\ \A j \in 1 .. Len(l) - 1 : u[j] = IF j < i THEN l[j] ELSE l[j + 1]
  BY Zenon, <1>1, <1>2, WithoutFacts
<1>4. PICK back : back = [j \in DOMAIN u |-> IF j < i THEN j ELSE j + 1]
  BY Zenon
<1>a. \A j \in DOMAIN u : back[j] = IF j < i THEN j ELSE j + 1
  BY Zenon, <1>4
<1>b. \A j \in 1 .. Len(l) - 1 : j \in 1 .. Len(l) /\ j + 1 \in 1 .. Len(l) /\ (j < i => j # i) /\ (~ (j < i) => j + 1 # i)
  BY <1>1
<1>5. ASSUME NEW j \in DOMAIN u PROVE back[j] \in DOMAIN l /\ back[j] # i /\ u[j] = l[back[j]]
  <2>1. CASE j < i
    BY Zenon, <1>1, <1>3, <1>a, <1>b, <2>1
  <2>2. CASE ~ (j < i)
    BY Zenon, <1>1, <1>3, <1>a, <1>b, <2>2
  <2> QED  BY <2>1, <2>2
<1>6. ASSUME NEW j \in DOMAIN u, NEW k \in DOMAIN u, back[j] = back[k] PROVE j = k
  <2>1. \A m, n \in 1 .. Len(l) - 1 : (IF m < i THEN m ELSE m + 1) = (IF n < i THEN n ELSE n + 1) => m = n
    BY <1>1
  <2>2. /\ back[j] = (IF j < i THEN j ELSE j + 1) /\ j \in 1 .. Len(l) - 1
        /\ back[k] = (IF k < i THEN k ELSE k + 1) /\ k \in 1 .. Len(l) - 1
    BY Zenon, <1>3, <1>a
  <2>3. (IF j < i THEN j ELSE j + 1) = (IF k < i THEN k ELSE k + 1)
    BY Zenon, <1>6, <2>2
  <2> QED  BY <2>1, <2>2, <2>3
<1>7. \A k \in DOMAIN l : k # i => \E j \in DOMAIN u : back[j] = k
  <2> SUFFICES ASSUME NEW k \in DOMAIN l, k # i PROVE \E j \in DOMAIN u : back[j] = k
    OBVIOUS
  <2>0. /\ k \in 1 .. Len(l) /\ (k < i => k \in 1 .. Len(l) - 1)
        /\ k > i => k - 1 \in 1 .. Len(l) - 1 /\ ~ (k - 1 < i) /\ k - 1 + 1 = k
    <3>1. k \in 1 .. Len(l)
      BY Zenon, <1>1
    <3> QED  BY <1>1, <3>1
  <2>1. CASE k < i
    <3>1. k \in DOMAIN u /\ back[k] = k
      BY Zenon, <1>3, <1>a, <2>0, <2>1
    <3> QED  BY Zenon, <3>1
  <2>2. CASE k > i
    <3>1. k - 1 \in DOMAIN u /\ ~ (k - 1 < i) /\ k - 1 + 1 = k
      BY Zenon, <1>3, <2>0, <2>2
    <3>2. back[k - 1] = k
      BY <1>4, <3>1
    <3> QED  BY Zenon, <3>1, <3>2
  <2> QED  BY <1>1, <2>1, <2>2
<1>8. /\ \A j \in DOMAIN l : l[j] # <<>> /\ IsInjective(l[j])
      /\ \A j, k \in DOMAIN l : Range(l[j]) = Range(l[k]) => j = k
  BY Zenon DEF Good
<1>9. Good(u, R)
  <2>1. ASSUME NEW j \in DOMAIN u PROVE u[j] # <<>> /\ IsInjective(u[j])
    <3>1. back[j] \in DOMAIN l /\ u[j] = l[back[j]]
      BY Zenon, <1>5
    <3> QED  BY Zenon, <1>8, <3>1
  <2>2. ASSUME NEW j \in DOMAIN u, NEW k \in DOMAIN u, Range(u[j]) = Range(u[k]) PROVE j = k
    <3>1. back[j] = back[k]
      BY Zenon, <1>5, <1>8, <2>2
    <3> QED  BY Zenon, <1>6, <3>1
  <2> QED  BY Zenon, <1>3, <2>1, <2>2 DEF Good
<1>10. \A x : x \in Sets(u) <=> x \in Sets(l) /\ x # Range(l[i])
  <2>1. \A x : x \in Sets(u) <=> \E j \in DOMAIN u : x = Range(u[j])
    BY SetsOf
  <2>2. \A x : x \in Sets(l) <=> \E j \in DOMAIN l : x = Range(l[j])
    BY SetsOf
  <2>3. ASSUME NEW x, x \in Sets(u) PROVE x \in Sets(l) /\ x # Range(l[i])
    <3>1. PICK j \in DOMAIN u : x = Range(u[j])
      BY Zenon, <2>1, <2>3
    <3>2. back[j] \in DOMAIN l /\ back[j] # i /\ x = Range(l[back[j]])
      BY Zenon, <1>5, <3>1
    <3> QED  BY Zenon, <1>8, <2>2, <3>2
  <2>4. ASSUME NEW x, x \in Sets(l), x # Range(l[i]) PROVE x \in Sets(u)
    <3>1. PICK k \in DOMAIN l : x = Range(l[k])
      BY Zenon, <2>2, <2>4
    <3>2. PICK j \in DOMAIN u : back[j] = k
      BY Zenon, <1>7, <2>4, <3>1
    <3> QED  BY Zenon, <1>5, <2>1, <3>1, <3>2
  <2> QED  BY Zenon, <2>3, <2>4
<1> QED  BY <1>2, <1>9, <1>10

\* What is left of a list from position n on.
LEMMA Tail_ ==
  ASSUME NEW R, NEW x \in Seq(R), NEW n \in 1 .. Len(x) + 1
  PROVE  \A y : y \in Range(SubSeq(x, n, Len(x))) <=> \E k \in n .. Len(x) : y = x[k]
<1>1. Len(x) \in Nat /\ DOMAIN x = 1 .. Len(x)
  OBVIOUS
<1>2. PICK u : u = SubSeq(x, n, Len(x))
  BY Zenon
<1>3. u \in Seq(R) /\ DOMAIN u = 1 .. Len(x) - n + 1 /\ \A j \in DOMAIN u : u[j] = x[n + j - 1]
  BY <1>1, <1>2
<1>4. ASSUME NEW y, y \in Range(u) PROVE \E k \in n .. Len(x) : y = x[k]
  <2>1. PICK j \in DOMAIN u : y = u[j]
    BY Zenon, <1>4 DEF Range
  <2>2. n + j - 1 \in n .. Len(x)
    BY <1>1, <1>3
  <2> QED  BY Zenon, <1>3, <2>1, <2>2
<1>5. ASSUME NEW k \in n .. Len(x) PROVE x[k] \in Range(u)
  <2>1. k - n + 1 \in DOMAIN u /\ n + (k - n + 1) - 1 = k
    BY <1>1, <1>3
  <2>2. u[k - n + 1] = x[k]
    BY Zenon, <1>3, <2>1
  <2> QED  BY Zenon, <2>1, <2>2 DEF Range
<1> QED  BY Zenon, <1>2, <1>4, <1>5

\* The first of what is left is taken off.
LEMMA TailStep ==
  ASSUME NEW R, NEW x \in Seq(R), IsInjective(x), NEW n \in 1 .. Len(x)
  PROVE  /\ x[n] \in Range(SubSeq(x, n, Len(x)))
         /\ Range(SubSeq(x, n + 1, Len(x))) = Range(SubSeq(x, n, Len(x))) \ {x[n]}
         /\ Range(SubSeq(x, n, Len(x))) = {x[n]} <=> n = Len(x)
<1>1. Len(x) \in Nat /\ DOMAIN x = 1 .. Len(x) /\ n \in 1 .. Len(x) + 1 /\ n + 1 \in 1 .. Len(x) + 1
  OBVIOUS
<1>2. PICK A, B : A = Range(SubSeq(x, n, Len(x))) /\ B = Range(SubSeq(x, n + 1, Len(x)))
  OBVIOUS
<1>3. /\ \A y : y \in A <=> \E k \in n .. Len(x) : y = x[k]
      /\ \A y : y \in B <=> \E k \in n + 1 .. Len(x) : y = x[k]
  BY <1>1, <1>2, Tail_
<1>4. n \in n .. Len(x) /\ \A k : k \in n + 1 .. Len(x) <=> k \in n .. Len(x) /\ k # n
  BY <1>1
<1>5. \A k \in n .. Len(x) : x[k] = x[n] => k = n
  BY <1>1 DEF IsInjective
<1>6. x[n] \in A
  BY Zenon, <1>3, <1>4
<1>7. B = A \ {x[n]}
  <2>1. \A y : y \in B <=> y \in A /\ y # x[n]
    BY Zenon, <1>3, <1>4, <1>5
  <2> QED  BY <2>1
<1>8. CASE n = Len(x)
  <2>1. \A k : k \in n .. Len(x) <=> k = n
    BY <1>1, <1>8
  <2>2. ASSUME NEW y PROVE y \in A <=> y = x[n]
    <3>1. y \in A <=> \E k \in n .. Len(x) : y = x[k]
      BY Zenon, <1>3
    <3> QED  BY Zenon, <2>1, <3>1
  <2>3. A = {x[n]}
    BY <2>2
  <2> QED  BY Zenon, <1>2, <1>6, <1>7, <1>8, <2>3
<1>9. CASE n # Len(x)
  <2>a. PICK m : m = Len(x) /\ m \in Nat /\ n \in 1 .. m /\ n # m
    BY Zenon, <1>1, <1>9
  <2>1. n + 1 \in n .. Len(x) /\ n + 1 # n
    BY <2>a
  <2>2. x[n + 1] \in A /\ x[n + 1] # x[n]
    BY Zenon, <1>3, <1>5, <2>1
  <2>3. A # {x[n]}
    BY <2>2
  <2> QED  BY Zenon, <1>2, <1>6, <1>7, <1>9, <2>3
<1> QED  BY Zenon, <1>8, <1>9

-----------------------------------------------------------------------------
(* Every step of the lists is a step of the sets, and keeps the invariant. *)

\* The two unread variables of the refinement mapping.
LEMMA SameSplit ==
  ASSUME sub_rels' = sub_rels, next' = next
  PROVE  /\ Range(sub_rels)' = Range(sub_rels)
         /\ Range(SubSeq(sub_rels, next, Len(sub_rels)))' = Range(SubSeq(sub_rels, next, Len(sub_rels)))
  OBVIOUS

LEMMA InitStep == Init => IInv /\ Search!Init
<1> SUFFICES ASSUME Init PROVE IInv /\ Search!Init
  OBVIOUS
<1>1. /\ join_res = <<>> /\ sub_rels = <<>> /\ next = 1 /\ pair = 0 /\ pc = "adm"
  BY DEF Init
<1>2. Good(<<>>, Rels) /\ Good(<<>>, 0 .. 2*0 - 1) /\ Sets(<<>>) = {}
  BY GoodEmpty
<1>3. <<>> \in Seq(Rels) /\ IsInjective(<<>>) /\ 1 \in 1 .. Len(<<>>) + 1 /\ 2*0 <= levels_needed
  BY LevelsAssumption DEF IsInjective
<1>4. IInv
  BY Zenon, <1>1, <1>2, <1>3 DEF IInv
<1>5. Range(<<>>) = {} /\ Range(SubSeq(<<>>, 1, Len(<<>>))) = {}
  <2>1. DOMAIN <<>> = {} /\ SubSeq(<<>>, 1, Len(<<>>)) = <<>>
    OBVIOUS
  <2> QED  BY <2>1 DEF Range
<1>6. Search!Init
  BY Zenon, <1>1, <1>2, <1>5 DEF Init, Search!Init
<1> QED  BY <1>4, <1>6

LEMMA AdmPairStep == IInv /\ AdmPair => IInv' /\ Search!AdmPair
<1> SUFFICES ASSUME IInv, AdmPair PROVE IInv' /\ Search!AdmPair
  OBVIOUS
<1>1. /\ pc = "adm" /\ pc' = pc /\ pair \in Nat /\ 2*pair + 1 < levels_needed /\ pair' = pair + 1
      /\ join_res' = cartesian_product(join_res, constrained_power_set(constr, 2*pair, 2*pair + 1))
      /\ sub_rels' = sub_rels /\ next' = next /\ Good(join_res, 0 .. 2*pair - 1)
      /\ sub_rels \in Seq(Rels) /\ IsInjective(sub_rels) /\ next \in 1 .. Len(sub_rels) + 1
  BY Zenon DEF IInv, AdmPair
<1>2. PICK p : p = 2*pair
  OBVIOUS
<1>3. /\ p \in Nat /\ p # p + 1 /\ p \in {p, p + 1} /\ p + 1 \in {p, p + 1}
      /\ 0 .. p - 1 \subseteq 0 .. 2*pair' - 1 /\ {p, p + 1} \subseteq 0 .. 2*pair' - 1
      /\ (0 .. p - 1) \cap {p, p + 1} = {}
      /\ 2*pair' <= levels_needed /\ pair' \in Nat
      /\ 0 .. 2*pair' - 1 \subseteq Rels
  BY <1>1, <1>2, LevelsAssumption DEF Rels, Search!Rels
<1>4. PICK a, b : a = join_res /\ b = constrained_power_set(constr, p, p + 1)
  OBVIOUS
<1>5. Good(b, {p, p + 1}) /\ Sets(b) = Search!constrained_power_set(constr, p, p + 1)
  BY <1>3, <1>4, GoodPower
<1>6. Good(a, 0 .. p - 1)
  BY Zenon, <1>1, <1>2, <1>4
<1>7. /\ Good(cartesian_product(a, b), 0 .. 2*pair' - 1)
      /\ Sets(cartesian_product(a, b)) = Search!cartesian_product(Sets(a), Sets(b))
  <2>1. PICK X, Y, Z : X = 0 .. p - 1 /\ Y = {p, p + 1} /\ Z = 0 .. 2*pair' - 1
    BY Zenon
  <2>2. X \subseteq Z /\ Y \subseteq Z /\ X \cap Y = {} /\ Good(a, X) /\ Good(b, Y)
    BY Zenon, <1>3, <1>5, <1>6, <2>1
  <2>3. /\ Good(cartesian_product(a, b), Z)
        /\ Sets(cartesian_product(a, b)) = Search!cartesian_product(Sets(a), Sets(b))
    BY <2>2, GoodProduct
  <2> QED  BY Zenon, <2>1, <2>3
<1>8. Good(join_res', 0 .. 2*pair' - 1)
  BY Zenon, <1>1, <1>2, <1>4, <1>7
<1>9. Good(join_res', Rels)
  BY Zenon, <1>3, <1>8, GoodMono
<1>10. Rels' = Rels
  BY DEF Rels, Search!Rels
<1>11. IInv'
  BY Zenon, <1>1, <1>3, <1>8, <1>9, <1>10 DEF IInv
<1>12. Sets(join_res') = Search!cartesian_product(Sets(join_res), Search!constrained_power_set(constr, 2*pair, 2*pair + 1))
  BY Zenon, <1>1, <1>2, <1>4, <1>5, <1>7
<1>13. Search!AdmPair
  BY Zenon, <1>1, <1>12, SameSplit DEF AdmPair, Search!AdmPair, constr, Search!constr
<1> QED  BY <1>11, <1>13

LEMMA AdmDoneStep == IInv /\ AdmDone => IInv' /\ Search!AdmDone
<1> SUFFICES ASSUME IInv, AdmDone PROVE IInv' /\ Search!AdmDone
  OBVIOUS
<1>1. /\ pc = "adm" /\ pc' = "next" /\ pair \in Nat /\ 2*pair + 1 >= levels_needed /\ pair' = pair
      /\ join_res' = (IF 2*pair < levels_needed THEN cartesian_product(join_res, << <<2*pair>> >>) ELSE join_res)
      /\ sub_rels' = sub_rels /\ next' = next /\ Good(join_res, 0 .. 2*pair - 1) /\ Good(join_res, Rels)
      /\ sub_rels \in Seq(Rels) /\ IsInjective(sub_rels) /\ next \in 1 .. Len(sub_rels) + 1
  BY Zenon DEF IInv, AdmDone
<1>2. PICK p : p = 2*pair
  OBVIOUS
<1>3. /\ Good(join_res', Rels)
      /\ Sets(join_res') = (IF 2*pair < levels_needed THEN Search!cartesian_product(Sets(join_res), {{2*pair}}) ELSE Sets(join_res))
  <2>1. CASE p < levels_needed
    <3>1. p \in Nat /\ p \in {p} /\ 0 .. p - 1 \subseteq Rels /\ {p} \subseteq Rels /\ (0 .. p - 1) \cap {p} = {}
      BY <1>1, <1>2, <2>1, LevelsAssumption DEF Rels, Search!Rels
    <3>2. PICK a, b, X, Y : a = join_res /\ b = << <<p>> >> /\ X = 0 .. p - 1 /\ Y = {p}
      BY Zenon
    <3>3. Good(b, Y) /\ Sets(b) = {{p}}
      BY <3>1, <3>2, Singleton
    <3>4. X \subseteq Rels /\ Y \subseteq Rels /\ X \cap Y = {} /\ Good(a, X) /\ Good(b, Y)
      BY Zenon, <1>1, <1>2, <3>1, <3>2, <3>3
    <3>5. /\ Good(cartesian_product(a, b), Rels)
          /\ Sets(cartesian_product(a, b)) = Search!cartesian_product(Sets(a), Sets(b))
      BY <3>4, GoodProduct
    <3> QED  BY Zenon, <1>1, <1>2, <2>1, <3>2, <3>3, <3>5
  <2>2. CASE ~ (p < levels_needed)
    BY Zenon, <1>1, <1>2, <2>2
  <2> QED  BY Zenon, <2>1, <2>2
<1>4. Rels' = Rels
  BY DEF Rels, Search!Rels
<1>5. IInv'
  BY Zenon, <1>1, <1>3, <1>4 DEF IInv
<1>6. Search!AdmDone
  BY Zenon, <1>3, SameSplit DEF AdmDone, Search!AdmDone
<1> QED  BY <1>5, <1>6

LEMMA SameCardinality ==
  ASSUME NEW S
  PROVE  Search!Cardinality(S) = Cardinality(S)
  BY DEF Search!Cardinality, Cardinality, Search!IsFiniteSet, IsFiniteSet

LEMMA NextSubsetStep == IInv /\ NextSubset => IInv' /\ Search!NextSubset
<1> SUFFICES ASSUME IInv, NextSubset PROVE IInv' /\ Search!NextSubset
  OBVIOUS
<1>1. PICK i \in DOMAIN join_res :
        /\ SortedFirst(i)
        /\ join_res' = Without(join_res, i)
        /\ IF Len(join_res[i]) > 1
           THEN sub_rels' = join_res[i] /\ next' = 1 /\ pc' = "split"
           ELSE UNCHANGED <<sub_rels, next, pc>>
  BY Zenon DEF NextSubset
<1>2. /\ pc = "next" /\ pair \in Nat /\ Good(join_res, Rels)
      /\ sub_rels \in Seq(Rels) /\ IsInjective(sub_rels) /\ next \in 1 .. Len(sub_rels) + 1
      /\ root' = root /\ part_id' = part_id /\ pair' = pair /\ P' = P /\ best' = best /\ result' = result
  BY Zenon DEF IInv, NextSubset
<1>3. Good(join_res', Rels) /\ Sets(join_res') = Sets(join_res) \ {Range(join_res[i])}
  BY <1>1, <1>2, GoodWithout
<1>4. PICK x, S : x = join_res[i] /\ S = Range(x)
  OBVIOUS
<1>5. /\ \A j \in DOMAIN join_res : join_res[j] \in Seq(Rels) /\ IsInjective(join_res[j])
      /\ \A T \in Sets(join_res) : \E j \in DOMAIN join_res : T = Range(join_res[j])
      /\ S \in Sets(join_res)
  <2>1. \A j \in DOMAIN join_res : IsInjective(join_res[j])
    BY Zenon, <1>2 DEF Good
  <2>2. \A j \in DOMAIN join_res : join_res[j] \in Seq(Rels) /\ Range(join_res[j]) \in Sets(join_res)
    BY <1>2, GoodSets
  <2>3. \A T \in Sets(join_res) : \E j \in DOMAIN join_res : T = Range(join_res[j])
    BY SetsOf
  <2> QED  BY Zenon, <1>4, <2>1, <2>2, <2>3
<1>6. \A j \in DOMAIN join_res : Cardinality(Range(join_res[j])) = Len(join_res[j])
  BY <1>5, Size
<1>7. \A T \in Sets(join_res) : Cardinality(S) <= Cardinality(T)
  BY Zenon, <1>1, <1>4, <1>5, <1>6 DEF SortedFirst
<1>8. Cardinality(S) = Len(x) /\ x \in Seq(Rels) /\ IsInjective(x)
  BY Zenon, <1>4, <1>5, <1>6
<1>9. Rels' = Rels
  BY DEF Rels, Search!Rels
<1>10. Search!SortedFirst(S)
  BY Zenon, <1>5, <1>7, SameCardinality DEF Search!SortedFirst
<1>11. CASE Len(x) > 1
  <2>1. sub_rels' = x /\ next' = 1 /\ pc' = "split"
    BY Zenon, <1>1, <1>4, <1>11
  <2>2. 1 \in 1 .. Len(x) + 1 /\ 1 <= Len(x) /\ Len(x) \in Nat /\ DOMAIN x = 1 .. Len(x)
    BY <1>8, <1>11
  <2>3. IInv'
    BY Zenon, <1>2, <1>3, <1>8, <1>9, <2>1, <2>2 DEF IInv
  <2>4. Range(SubSeq(x, 1, Len(x))) = S
    <3>1. SubSeq(x, 1, Len(x)) = x
      BY <1>8, <2>2
    <3> QED  BY Zenon, <1>4, <3>1
  <2>5. Search!NextSubset
    BY Zenon, <1>2, <1>3, <1>4, <1>5, <1>8, <1>10, <1>11, <2>1, <2>4, SameCardinality DEF Search!NextSubset
  <2> QED  BY <2>3, <2>5
<1>12. CASE ~ (Len(x) > 1)
  <2>1. sub_rels' = sub_rels /\ next' = next /\ pc' = pc
    BY Zenon, <1>1, <1>4, <1>12
  <2>2. IInv'
    BY Zenon, <1>2, <1>3, <1>9, <2>1 DEF IInv
  <2>3. Search!NextSubset
    BY Zenon, <1>2, <1>3, <1>4, <1>5, <1>8, <1>10, <1>12, <2>1, SameSplit, SameCardinality DEF Search!NextSubset
  <2> QED  BY <2>2, <2>3
<1> QED  BY Zenon, <1>11, <1>12

LEMMA TrySplitStep == IInv /\ TrySplit => IInv' /\ Search!TrySplit
<1> SUFFICES ASSUME IInv, TrySplit PROVE IInv' /\ Search!TrySplit
  OBVIOUS
<1>1. /\ pc = "split" /\ pair \in Nat /\ Good(join_res, Rels)
      /\ sub_rels \in Seq(Rels) /\ IsInjective(sub_rels) /\ next \in 1 .. Len(sub_rels) + 1
      /\ next <= Len(sub_rels)
      /\ root' = root /\ part_id' = part_id /\ pair' = pair /\ join_res' = join_res /\ sub_rels' = sub_rels
      /\ best' = best /\ result' = result /\ next' = next + 1
  BY Zenon DEF IInv, TrySplit
<1>2. PICK u, bitmap : u = sub_rels[next] /\ bitmap = Range(sub_rels)
  OBVIOUS
<1>3. /\ pc' = (IF Search!valid(constr, bitmap, u) /\ ~ Search!Splits(u) THEN "crash"
                ELSE IF next = Len(sub_rels) THEN "next" ELSE "split")
      /\ P' = (IF /\ Search!valid(constr, bitmap, u) /\ Search!Splits(u)
                  /\ Search!Cheaper(P[bitmap], Search!NewPlan(u))
               THEN [P EXCEPT ![bitmap] = Search!NewPlan(u)]
               ELSE P)
  BY Zenon, <1>2 DEF TrySplit
<1>4. Len(sub_rels) \in Nat /\ next \in 1 .. Len(sub_rels) /\ next + 1 \in 1 .. Len(sub_rels) + 1
  BY <1>1
<1>5. PICK A, B : /\ A = Range(SubSeq(sub_rels, next, Len(sub_rels)))
                  /\ B = Range(SubSeq(sub_rels, next + 1, Len(sub_rels)))
  OBVIOUS
<1>6. u \in A /\ B = A \ {u} /\ (A = {u} <=> next = Len(sub_rels))
  BY <1>1, <1>2, <1>4, <1>5, TailStep
<1>7. Rels' = Rels
  BY DEF Rels, Search!Rels
<1>8. pc' = "split" => next + 1 <= Len(sub_rels)
  <2>1. pc' = "split" => next # Len(sub_rels)
    BY <1>3
  <2> QED  BY <1>4, <2>1
<1>9. pc' # "adm"
  BY <1>3
<1>10. IInv'
  BY Zenon, <1>1, <1>4, <1>7, <1>8, <1>9 DEF IInv
<1>11. /\ Range(SubSeq(sub_rels, next, Len(sub_rels)))' = B
       /\ Range(sub_rels)' = Range(sub_rels) /\ Sets(join_res)' = Sets(join_res)
  BY Zenon, <1>1, <1>5
<1>12. pc' = (IF Search!valid(constr, Range(sub_rels), u) /\ ~ Search!Splits(u) THEN "crash"
              ELSE IF A = {u} THEN "next" ELSE "split")
  BY Zenon, <1>2, <1>3, <1>6
<1>13. P' = (IF /\ Search!valid(constr, Range(sub_rels), u) /\ Search!Splits(u)
                /\ Search!Cheaper(P[Range(sub_rels)], Search!NewPlan(u))
             THEN [P EXCEPT ![Range(sub_rels)] = Search!NewPlan(u)]
             ELSE P)
  BY Zenon, <1>2, <1>3
<1>14. Search!constr = constr
  BY DEF Search!constr, constr
<1>15. Search!TrySplit
  BY Zenon, <1>1, <1>5, <1>6, <1>11, <1>12, <1>13, <1>14 DEF Search!TrySplit
<1> QED  BY <1>10, <1>15

LEMMA WorkerReturnsStep == IInv /\ WorkerReturns => IInv' /\ Search!WorkerReturns
<1> SUFFICES ASSUME IInv, WorkerReturns PROVE IInv' /\ Search!WorkerReturns
  OBVIOUS
<1>1. /\ pc = "next" /\ join_res = <<>>
      /\ sub_rels \in Seq(Rels) /\ IsInjective(sub_rels) /\ next \in 1 .. Len(sub_rels) + 1
      /\ root' = root /\ join_res' = join_res /\ sub_rels' = sub_rels /\ next' = next /\ P' = P /\ result' = result
      /\ part_id' = part_id + 1 /\ pair' = 0
  BY Zenon DEF IInv, WorkerReturns
<1>2. PICK that : that = P[Search!Rels]
  OBVIOUS
<1>3. /\ best' = (IF part_id = 0 \/ (that # NULL /\ best # NULL /\ that.cost < best.cost) THEN that ELSE best)
      /\ pc' = (IF part_id > 0 /\ (that = NULL \/ best = NULL) THEN "crash"
                ELSE IF part_id + 1 < n_workers THEN "adm" ELSE "construct")
  BY Zenon, <1>2 DEF WorkerReturns
<1>4. Good(<<>>, Rels) /\ Good(<<>>, 0 .. 2*0 - 1) /\ Sets(<<>>) = {}
  BY GoodEmpty
<1>5. 0 \in Nat /\ 2*0 <= levels_needed
  BY LevelsAssumption
<1>6. Rels' = Rels
  BY DEF Rels, Search!Rels
<1>7. pc' # "split"
  BY <1>3
<1>8. IInv'
  BY Zenon, <1>1, <1>4, <1>5, <1>6, <1>7 DEF IInv
<1>9. best' = (IF part_id = 0 THEN that
               ELSE IF that # NULL /\ best # NULL /\ that.cost < best.cost THEN that
               ELSE best)
  BY Zenon, <1>3
<1>10. Search!WorkerReturns
  BY Zenon, <1>1, <1>2, <1>3, <1>4, <1>9, SameSplit DEF Search!WorkerReturns
<1> QED  BY <1>8, <1>10

LEMMA ConstructStep == IInv /\ Construct => IInv' /\ Search!Construct
<1> SUFFICES ASSUME IInv, Construct PROVE IInv' /\ Search!Construct
  OBVIOUS
<1>1. pc' \notin {"adm", "split"} /\ Rels' = Rels
  BY DEF Construct, Rels, Search!Rels
<1>2. IInv'
  BY Zenon, <1>1 DEF IInv, Construct
<1>3. Search!Construct
  BY Zenon, SameSplit DEF Construct, Search!Construct
<1> QED  BY <1>2, <1>3

LEMMA StutterStep == IInv /\ UNCHANGED vars => IInv' /\ UNCHANGED Search!vars
<1> SUFFICES ASSUME IInv, UNCHANGED vars PROVE IInv' /\ UNCHANGED Search!vars
  OBVIOUS
<1>1. Rels' = Rels
  BY DEF Rels, Search!Rels
<1> QED  BY Zenon, <1>1, SameSplit DEF IInv, vars, Search!vars

LEMMA Step == IInv /\ [Next]_vars => IInv' /\ [Search!Next]_(Search!vars)
<1> QED
  BY Zenon, AdmPairStep, AdmDoneStep, NextSubsetStep, TrySplitStep, WorkerReturnsStep,
     ConstructStep, StutterStep DEF Next, Search!Next

(***************************************************************************)
(* adm_join_results lists each subset once, and each relation of it once,  *)
(* whatever the number of relations.                                       *)
(***************************************************************************)
THEOREM NoRepetition == Spec => []ListsWithoutRepetition
<1>1. IInv => ListsWithoutRepetition
  BY Zenon DEF IInv, Good, ListsWithoutRepetition
<1> QED  BY <1>1, InitStep, Step, PTL DEF Spec

(***************************************************************************)
(* Every step of the search over the int lists of the code is a step of    *)
(* the search over sets, in which module ParallelJoinSearch states what    *)
(* the workers and main get right.                                         *)
(***************************************************************************)
THEOREM ListsRefineSets == Spec => Search!Init /\ [][Search!Next]_(Search!vars)
<1> QED  BY InitStep, Step, PTL DEF Spec

-----------------------------------------------------------------------------
(* What is proved of the sets carries over to the lists. *)

Sound == INSTANCE ParallelJoinSearchProofs WITH
           join_res <- Sets(join_res),
           q        <- Range(sub_rels),
           us       <- Range(SubSeq(sub_rels, next, Len(sub_rels)))

LEMMA SoundConstants ==
  /\ Sound!Rels = Search!Rels /\ Sound!Plan = Search!Plan
  /\ \A S : Sound!Orders(S) = Search!Orders(S)
  /\ NULL \notin Sound!Plan
  /\ \A r \in Queries : \A S \in (SUBSET Sound!Rels) \ {{}} : \A o \in Sound!Orders(S) : Eval(r, o) \in Nat
<1>1. Sound!Rels = Search!Rels
  BY DEF Sound!Rels, Search!Rels
<1>2. \A S : Sound!Orders(S) = Search!Orders(S)
  BY DEF Sound!Orders, Search!Orders, Sound!Cardinality, Search!Cardinality, Sound!IsFiniteSet, Search!IsFiniteSet
<1>3. Sound!Plan = Search!Plan
  BY Zenon, <1>1 DEF Sound!Plan, Search!Plan
<1> QED  BY Zenon, <1>1, <1>2, <1>3, NullAssumption, EvalAssumption

LEMMA SoundInit == Search!Init => Sound!Init
  BY Zenon, SoundConstants DEF Search!Init, Sound!Init, Search!EmptyTable, Sound!EmptyTable

LEMMA SoundStep == [Search!Next]_(Search!vars) => [Sound!Next]_(Sound!vars)
<1>1. \A S : Sound!Cardinality(S) = Search!Cardinality(S)
  BY DEF Sound!Cardinality, Search!Cardinality, Sound!IsFiniteSet, Search!IsFiniteSet
<1>2. Sound!constr = Search!constr /\ Sound!Rels = Search!Rels
  BY DEF Sound!constr, Search!constr, Sound!part_constraints, Search!part_constraints,
         Sound!PairConstraint, Search!PairConstraint, Sound!ConstrainedPairs, Search!ConstrainedPairs,
         Sound!BitSet, Search!BitSet, Sound!Shl1, Search!Shl1, Sound!Rels, Search!Rels
<1>a. \A a, b : Sound!cartesian_product(a, b) = Search!cartesian_product(a, b)
  BY DEF Search!cartesian_product, Sound!cartesian_product
<1>b. \A a, b, c : Sound!constrained_power_set(a, b, c) = Search!constrained_power_set(a, b, c)
  BY Zenon DEF Search!constrained_power_set, Sound!constrained_power_set
<1>c. Sound!LeafTable = Search!LeafTable
  BY Zenon, <1>2 DEF Search!LeafTable, Sound!LeafTable, Search!create_parallel_plan, Sound!create_parallel_plan,
     Search!create_leaf, Sound!create_leaf
<1>3. Search!AdmPair => Sound!AdmPair
  BY Zenon, <1>2, <1>a, <1>b DEF Search!AdmPair, Sound!AdmPair
<1>4. Search!AdmDone => Sound!AdmDone
  BY Zenon, <1>a, <1>c DEF Search!AdmDone, Sound!AdmDone
<1>5. Search!NextSubset => Sound!NextSubset
  BY Zenon, <1>1 DEF Search!NextSubset, Sound!NextSubset, Search!SortedFirst, Sound!SortedFirst
<1>6. Search!TrySplit => Sound!TrySplit
  BY Zenon, <1>2 DEF Search!TrySplit, Sound!TrySplit, Search!valid, Sound!valid, Search!Splits, Sound!Splits,
     Search!NewPlan, Sound!NewPlan, Search!Cheaper, Sound!Cheaper, Search!merge, Sound!merge,
     Search!create_parallel_plan, Sound!create_parallel_plan
<1>7. Search!WorkerReturns => Sound!WorkerReturns
  BY Zenon, <1>2 DEF Search!WorkerReturns, Sound!WorkerReturns
<1>8. Search!Construct => Sound!Construct
  BY Zenon DEF Search!Construct, Sound!Construct
<1>9. UNCHANGED Search!vars => UNCHANGED Sound!vars
  BY Zenon DEF Search!vars, Sound!vars
<1> QED  BY Zenon, <1>3, <1>4, <1>5, <1>6, <1>7, <1>8, <1>9 DEF Search!Next, Sound!Next

LEMMA SoundInvariant ==
  /\ Sound!Init => Sound!IInv
  /\ Sound!IInv /\ [Sound!Next]_(Sound!vars) => Sound!IInv'
  /\ Sound!IInv => Sound!ResultSound
<1>1. Sound!Init => Sound!IInv
  BY Zenon, LevelsAssumption, WorkersAssumption, SoundConstants, Sound!InitIInv
<1>2. Sound!IInv /\ [Sound!Next]_(Sound!vars) => Sound!IInv'
  BY Zenon, LevelsAssumption, WorkersAssumption, SoundConstants, Sound!StepIInv
<1>3. Sound!IInv => Sound!ResultSound
  BY Zenon, LevelsAssumption, WorkersAssumption, SoundConstants, Sound!IInvResult
<1> QED  BY <1>1, <1>2, <1>3

(***************************************************************************)
(* The search over the lists of the code dereferences no null plan.        *)
(***************************************************************************)
THEOREM ListsNullSafe == Spec => []Search!NoNullDeref
<1>1. Sound!IInv => Search!NoNullDeref
  BY Zenon DEF Sound!IInv, Sound!NoNullDeref, Search!NoNullDeref
<1> QED  BY <1>1, ListsRefineSets, SoundInit, SoundStep, SoundInvariant, PTL

(***************************************************************************)
(* The join order built from the lists joins every relation exactly once,  *)
(* at the cost that main compared, whatever order the ties between equally *)
(* cheap plans are settled in.                                             *)
(***************************************************************************)
THEOREM ListsResult == Spec => []Search!ResultSound
<1>1. Sound!ResultSound => Search!ResultSound
  BY Zenon, SoundConstants DEF Sound!ResultSound, Search!ResultSound
<1> QED  BY <1>1, ListsRefineSets, SoundInit, SoundStep, SoundInvariant, PTL

Best == INSTANCE LeftDeepOptimalityProofs WITH
          join_res <- Sets(join_res),
          q        <- Range(sub_rels),
          us       <- Range(SubSeq(sub_rels, next, Len(sub_rels)))

\* A dearer way to join the same relations never makes a later join cheaper.
OptimalSubstructure ==
  \A r \in Queries : \A S \in (SUBSET Best!Rels) \ {{}} : \A u \in Best!Rels \ S :
    \A s, t \in Best!Orders(S) :
      Eval(r, s) <= Eval(r, t) =>
        Eval(r, Best!merge(s, Best!create_leaf(u))) <= Eval(r, Best!merge(t, Best!create_leaf(u)))

LEMMA BestConstants ==
  /\ NULL \notin Best!Plan
  /\ \A r \in Queries : \A S \in (SUBSET Best!Rels) \ {{}} : \A o \in Best!Orders(S) : Eval(r, o) \in Nat
<1>1. Best!Rels = Search!Rels
  BY DEF Best!Rels, Search!Rels
<1>2. \A S : Best!Orders(S) = Search!Orders(S)
  BY DEF Best!Orders, Search!Orders, Best!Cardinality, Search!Cardinality, Best!IsFiniteSet, Search!IsFiniteSet
<1>3. Best!Plan = Search!Plan
  BY Zenon, <1>1 DEF Best!Plan, Search!Plan
<1> QED  BY Zenon, <1>1, <1>2, <1>3, NullAssumption, EvalAssumption

LEMMA BestInvariant ==
  ASSUME OptimalSubstructure
  PROVE  /\ Best!Init => Best!IInv /\ Best!OInv
         /\ Best!IInv /\ Best!OInv /\ [Best!Next]_(Best!vars) => Best!IInv' /\ Best!OInv'
         /\ Best!IInv /\ Best!OInv => Best!Optimal
<1>1. Best!Init => Best!IInv
  BY Zenon, LevelsAssumption, WorkersAssumption, BestConstants, Best!InitIInv DEF OptimalSubstructure
<1>2. Best!Init => Best!OInv
  BY Zenon, LevelsAssumption, WorkersAssumption, BestConstants, Best!InitOInv DEF OptimalSubstructure
<1>3. Best!IInv /\ [Best!Next]_(Best!vars) => Best!IInv'
  BY Zenon, LevelsAssumption, WorkersAssumption, BestConstants, Best!StepIInv DEF OptimalSubstructure
<1>4. Best!IInv /\ Best!OInv /\ [Best!Next]_(Best!vars) => Best!OInv'
  BY Zenon, LevelsAssumption, WorkersAssumption, BestConstants, Best!StepOInv DEF OptimalSubstructure
<1>5. Best!IInv /\ Best!OInv => Best!Optimal
  BY Zenon, LevelsAssumption, WorkersAssumption, BestConstants, Best!OInvOptimal DEF OptimalSubstructure
<1> QED  BY Zenon, <1>1, <1>2, <1>3, <1>4, <1>5

LEMMA BestInit == Search!Init => Best!Init
<1>1. Best!Rels = Search!Rels
  BY DEF Best!Rels, Search!Rels
<1> QED  BY Zenon, <1>1 DEF Search!Init, Best!Init, Search!EmptyTable, Best!EmptyTable

LEMMA BestStep == [Search!Next]_(Search!vars) => [Best!Next]_(Best!vars)
<1>1. \A S : Best!Cardinality(S) = Search!Cardinality(S)
  BY DEF Best!Cardinality, Search!Cardinality, Best!IsFiniteSet, Search!IsFiniteSet
<1>2. Best!constr = Search!constr /\ Best!Rels = Search!Rels
  BY DEF Best!constr, Search!constr, Best!part_constraints, Search!part_constraints,
         Best!PairConstraint, Search!PairConstraint, Best!ConstrainedPairs, Search!ConstrainedPairs,
         Best!BitSet, Search!BitSet, Best!Shl1, Search!Shl1, Best!Rels, Search!Rels
<1>a. \A a, b : Best!cartesian_product(a, b) = Search!cartesian_product(a, b)
  BY DEF Search!cartesian_product, Best!cartesian_product
<1>b. \A a, b, c : Best!constrained_power_set(a, b, c) = Search!constrained_power_set(a, b, c)
  BY Zenon DEF Search!constrained_power_set, Best!constrained_power_set
<1>c. Best!LeafTable = Search!LeafTable
  BY Zenon, <1>2 DEF Search!LeafTable, Best!LeafTable, Search!create_parallel_plan, Best!create_parallel_plan,
     Search!create_leaf, Best!create_leaf
<1>3. Search!AdmPair => Best!AdmPair
  BY Zenon, <1>2, <1>a, <1>b DEF Search!AdmPair, Best!AdmPair
<1>4. Search!AdmDone => Best!AdmDone
  BY Zenon, <1>a, <1>c DEF Search!AdmDone, Best!AdmDone
<1>5. Search!NextSubset => Best!NextSubset
  BY Zenon, <1>1 DEF Search!NextSubset, Best!NextSubset, Search!SortedFirst, Best!SortedFirst
<1>6. Search!TrySplit => Best!TrySplit
  BY Zenon, <1>2 DEF Search!TrySplit, Best!TrySplit, Search!valid, Best!valid, Search!Splits, Best!Splits,
     Search!NewPlan, Best!NewPlan, Search!Cheaper, Best!Cheaper, Search!merge, Best!merge,
     Search!create_parallel_plan, Best!create_parallel_plan
<1>7. Search!WorkerReturns => Best!WorkerReturns
  BY Zenon, <1>2 DEF Search!WorkerReturns, Best!WorkerReturns
<1>8. Search!Construct => Best!Construct
  BY Zenon DEF Search!Construct, Best!Construct
<1>9. UNCHANGED Search!vars => UNCHANGED Best!vars
  BY Zenon DEF Search!vars, Best!vars
<1> QED  BY Zenon, <1>3, <1>4, <1>5, <1>6, <1>7, <1>8, <1>9 DEF Search!Next, Best!Next

(***************************************************************************)
(* The join order built from the lists is the cheapest of all left-deep    *)
(* orders, when the cost function has optimal substructure.                *)
(***************************************************************************)
THEOREM ListsOptimal ==
  ASSUME OptimalSubstructure
  PROVE  Spec => []Best!Optimal
<1>1. /\ Best!Init => Best!IInv /\ Best!OInv
      /\ Best!IInv /\ Best!OInv /\ [Best!Next]_(Best!vars) => Best!IInv' /\ Best!OInv'
      /\ Best!IInv /\ Best!OInv => Best!Optimal
  BY Zenon, BestInvariant
<1> QED  BY <1>1, ListsRefineSets, BestInit, BestStep, PTL
=============================================================================
