------------------------------ MODULE InOrder -------------------------------
(***************************************************************************)
(* What is left of a sequence when some of its positions are kept, in the  *)
(* order they had: a filter, written so that it can be reasoned about.     *)
(***************************************************************************)
EXTENDS Naturals, FiniteSets

\* The place of a position among those that are kept, and the position at a place.
Rank(positions, i) == Cardinality({j \in positions : j <= i})
Nth(positions, k) == CHOOSE i \in positions : Rank(positions, i) = k

\* The elements of seq at these positions, in their order.
Retained(seq, positions) == [k \in 1..Cardinality(positions) |-> seq[Nth(positions, k)]]
=============================================================================
