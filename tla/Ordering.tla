------------------------------ MODULE Ordering ------------------------------
(* Finite sets in the order of a relation, given as a set of pairs: what the *)
(* code gets from sorted, without a recursive definition.                    *)
EXTENDS Naturals, Sequences, FiniteSets

\* The members of S that come before x.
Preceding(S, R, x) == {y \in S : <<y, x>> \in R}

\* S in the order of R, which puts any two members one before the other: the
\* n-th has n - 1 before it.
InOrder(S, R) ==
  [n \in 1 .. Cardinality(S) |-> CHOOSE x \in S : Cardinality(Preceding(S, R, x)) = n - 1]

\* The first n elements, or all if there are fewer.
FirstOf(seq, n) == SubSeq(seq, 1, IF Len(seq) < n THEN Len(seq) ELSE n)
=============================================================================
