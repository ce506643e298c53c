------------------------------- MODULE MCTokens --------------------------------
(***************************************************************************)
(* A small instance of Tokens for TLC.                                      *)
(***************************************************************************)
EXTENDS Tokens, TLC

CONSTANTS h1, h2, p1, p2, p3, p4    \* model values

Symmetric == Permutations(Handlers) \cup Permutations(Pairs)
================================================================================
