---------------------------- MODULE Subsequences ----------------------------
(***************************************************************************)
(* Filtering a sequence, said by the positions that stay rather than by a  *)
(* recursion over its elements, so that proofs can use it.                 *)
(***************************************************************************)
EXTENDS Naturals, FiniteSets

\* The elements of s at the positions I, in order: the k-th is the one whose
\* position has k positions of I up to it.
Subsequence(s, I) ==
    [k \in 1 .. Cardinality(I) |-> s[CHOOSE i \in I : Cardinality({j \in I : j <= i}) = k]]
=============================================================================
