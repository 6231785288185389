--------------------------- MODULE MCSharedStores ----------------------------
(***************************************************************************)
(* SharedStores for TLC: two processes, one entity with two fields, two     *)
(* artifacts of one file name.                                              *)
(***************************************************************************)
EXTENDS SharedStores

CONSTANTS p1, p2, name, attributes, value1, value2, h1, h2, a1, a2, s1, s2

\* Nothing distinguishes the members of these sets from each other.
Symmetry == Permutations({p1, p2}) \cup Permutations({name, attributes})
                \cup Permutations({value1, value2}) \cup Permutations({h1, h2})
                \cup Permutations({a1, a2}) \cup Permutations({s1, s2})
=============================================================================
