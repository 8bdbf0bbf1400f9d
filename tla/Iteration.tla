----------------------------- MODULE Iteration -----------------------------
(* The order in which a loop or a filter of the code meets the positions it *)
(* works on.                                                                *)
EXTENDS Integers, FiniteSets

\* The increasing enumeration of a finite set K of positions: a set with one
\* sequence in it.
InOrder(K) ==
    {q \in [1 .. Cardinality(K) -> K] :
        \A i, j \in 1 .. Cardinality(K) : i < j => q[i] < q[j]}
=============================================================================
