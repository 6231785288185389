------------------------------ MODULE Picking ------------------------------
(***************************************************************************)
(* Filters and sorts of what is numbered, in a form that proofs can expand, *)
(* as they cannot SelectSeq and SortSeq.                                    *)
(***************************************************************************)
EXTENDS Naturals, FiniteSets

(* The n-th of a finite set of numbers, and all of them in order.          *)
Place(I, n) == CHOOSE i \in I : Cardinality({j \in I : j <= i}) = n
InOrder(I)  == [n \in 1..Cardinality(I) |-> Place(I, n)]

(* The members of s at the positions I, in their order: a filter.          *)
Pick(s, I) == [n \in 1..Cardinality(I) |-> s[Place(I, n)]]
=============================================================================
