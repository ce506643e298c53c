------------------------------ MODULE Subsequences ------------------------------
(***************************************************************************)
(* Some of the elements of a sequence, in their order, by their positions.  *)
(* It is SelectSeq for a test of positions, in a form TLAPS can expand.     *)
(***************************************************************************)
EXTENDS Naturals, Sequences, FiniteSets

\* The position of the i-th element at a position in K.
Nth(K, i) == CHOOSE n \in K : Cardinality(K \cap 1..n) = i

\* The elements of s at the positions in K.
Subsequence(s, K) == [i \in 1..Cardinality(K) |-> s[Nth(K, i)]]
================================================================================
