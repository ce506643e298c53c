------------------------------- MODULE MCAccounts -------------------------------
(***************************************************************************)
(* Small instances of Accounts for TLC.  "012345" is a code the generator   *)
(* returns and no number renders to; "12345" is what a client who was sent  *)
(* it submits.                                                              *)
(***************************************************************************)
EXTENDS Accounts, TLC

CONSTANTS h1, h2, e1, e2, p1, p2    \* model values

MCCodes == {"123456", "012345"}
MCNumerals == {"123456", "12345"}

Symmetric == Permutations(Handlers) \cup Permutations(Emails)
                 \cup Permutations(Passwords)
================================================================================
