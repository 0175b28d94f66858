-------------------------------- MODULE Orders -------------------------------
(* Sorting.  The program sorts with comparators that leave no two elements    *)
(* alike, so what a sort returns depends on the set of elements and on their  *)
(* order only.                                                                *)
EXTENDS Integers, FiniteSets

\* The elements of S one after the other, x before y if <<x, y>> \in before: the
\* i-th is the one that has i - 1 others before it.
Ordered(S, before) ==
  [i \in 1..Cardinality(S) |->
     CHOOSE x \in S : Cardinality({y \in S : <<y, x>> \in before}) = i - 1]

Ascending(S) == Ordered(S, {p \in S \X S : p[1] < p[2]})
=============================================================================
