------------------------------ MODULE Ordering ------------------------------
(* ORDER BY, as the queries of internal/storage use it: a finite set of rows *)
(* becomes the list in which they are returned.                              *)
EXTENDS Naturals, FiniteSets

\* R holds the pairs of which the first row comes before the second. The row at place i is
\* the one with i - 1 others before it.
Ordered(S, R) ==
  [i \in 1..Cardinality(S) |-> CHOOSE x \in S : Cardinality({y \in S : <<y, x>> \in R}) = i - 1]
=============================================================================
