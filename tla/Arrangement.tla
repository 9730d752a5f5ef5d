---------------------------- MODULE Arrangement -----------------------------
(* What a sort returns: the members of a set, in an order.                   *)
EXTENDS Naturals, FiniteSets

\* The members of S in the order R, a set of pairs: each one at the place that
\* those before it leave.
Ordered(S, R) ==
  [n \in 1..Cardinality(S) |-> CHOOSE x \in S : Cardinality({y \in S : <<y, x>> \in R}) = n - 1]
=============================================================================
