------------------------------- MODULE Ranking -------------------------------
(***************************************************************************)
(* Sorting by a key, as list.sort (portfolio_construction/) and ORDER BY   *)
(* (rag/retrieval.py) do it: two with the same key come in the order of a  *)
(* list of the platform, of a Python set or of a table's rows, which no    *)
(* part of the program chooses, so that there are many answers.            *)
(***************************************************************************)
EXTENDS Integers, SequencesExt

\* The orders of S in which nothing comes after something that it is better than.
Rankings(S, better(_, _)) ==
    {s \in SetToSeqs(S) : \A i, j \in DOMAIN s : i < j => ~better(s[j], s[i])}

\* S in the order of before, which is total: the n-th has n - 1 before it.
SortBy(S, before(_, _)) ==
    [n \in 1..Cardinality(S) |-> CHOOSE x \in S : Cardinality({y \in S : before(y, x)}) = n - 1]

\* The first n of a sequence, or all of it.
Upto(s, n) == SubSeq(s, 1, IF n < Len(s) THEN n ELSE Len(s))
==============================================================================
