-------------------------- MODULE MCListJoinSearch --------------------------
(***************************************************************************)
(* Instances of ListJoinSearch: a query is a cheap intermediate result,    *)
(* and an order costs 1 for each of its prefixes other than that one, so   *)
(* that there are many ties.                                               *)
(***************************************************************************)
EXTENDS ListJoinSearch

TiedEval(r, o) == Cardinality({n \in 2 .. Len(o) : Range(SubSeq(o, 1, n)) # r})

CheapResults == {S \in SUBSET (0 .. levels_needed - 1) : Cardinality(S) >= 2}
=============================================================================
