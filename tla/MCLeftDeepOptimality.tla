------------------------ MODULE MCLeftDeepOptimality ------------------------
(***************************************************************************)
(* Instances of LeftDeepOptimality.  A query is represented by the cheap   *)
(* intermediate results it has: an order costs 1 for each of its prefixes  *)
(* that is not one of them.                                                *)
(***************************************************************************)
EXTENDS LeftDeepOptimality, FiniteSetsExt

Prefix(o, n) == {o[k] : k \in 1 .. n}

Misses(r, o) == Cardinality({n \in 2 .. Len(o) : Prefix(o, n) \notin r})

(***************************************************************************)
(* Small costs: many orders cost the same.                                 *)
(***************************************************************************)
TiedEval(r, o) == Misses(r, o)

(***************************************************************************)
(* Up to two cheap intermediate results, chosen freely.  With four         *)
(* relations these may be the prefixes of one order, which is then the     *)
(* cheapest but for the order of its first two relations.                  *)
(***************************************************************************)
ScatteredQueries ==
  UNION {kSubset(k, {S \in SUBSET Rels : Cardinality(S) \in 2 .. levels_needed - 1}) : k \in 0 .. 2}
=============================================================================
