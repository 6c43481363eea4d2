------------------------------- MODULE Sorting -------------------------------
(***************************************************************************)
(* Lists as Python's sorted() makes them.  The sort is stable: equal       *)
(* elements keep the order they had, so that `before`, the pairs that      *)
(* belong in this order, has one of every two elements first.              *)
(***************************************************************************)
EXTENDS Naturals, FiniteSets

\* The place of x in S: behind all that belong before it.
Place(x, S, before) == Cardinality({y \in S : <<y, x>> \in before}) + 1

Sorted(S, before) ==
    [k \in 1..Cardinality(S) |-> CHOOSE x \in S : Place(x, S, before) = k]
=============================================================================
