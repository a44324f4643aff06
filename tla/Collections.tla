---------------------------- MODULE Collections ----------------------------
(***************************************************************************)
(* Array.prototype.filter and Array.prototype.sort, by the places of the   *)
(* elements: what is kept or sorted is a set of places, and an order is a  *)
(* set of pairs of places, so that both are plain functions of sets, which *)
(* the proofs can unfold (SelectSeq and SortSeq are not).  And the sums    *)
(* that Array.prototype.reduce is used for.                                *)
(***************************************************************************)
EXTENDS Integers, Sequences, FiniteSets, FiniteSetsExt

\* the places in I, or any other things, each one after those that are before it
InOrder(I, before) ==
    [k \in 1..Cardinality(I) |->
        CHOOSE i \in I : Cardinality({j \in I : <<j, i>> \in before}) = k - 1]

Ascending(I) == {pair \in I \X I : pair[1] < pair[2]}

\* filter: the elements at the places in I, in the order of the list
Kept(list, I) ==
    LET order == InOrder(I, Ascending(I))
    IN  [k \in DOMAIN order |-> list[order[k]]]

\* sort, by an order of the places that no two places are equal in
Sorted(list, before) ==
    LET order == InOrder(DOMAIN list, before)
    IN  [k \in DOMAIN order |-> list[order[k]]]

\* reduce: the sum of the amounts
Total(amounts) == MapThenSumSet(LAMBDA i : amounts[i], DOMAIN amounts)
=============================================================================
