------------------------------- MODULE HitLedger -------------------------------
(***************************************************************************)
(* What hit tracking promises to the analytics that read its table: rows    *)
(* are only ever appended, every row is a hit that was accepted before, and *)
(* no hit is counted twice.  Tracker implements it.                         *)
(***************************************************************************)
EXTENDS Naturals, Sequences, Functions

CONSTANT Hits

VARIABLES
    accepted,   \* the hits a visitor's request handed over
    ledger      \* the rows, oldest first

vars == <<accepted, ledger>>

Init == accepted = {} /\ ledger = << >>

Accept(h) ==
    /\ accepted' = accepted \cup {h}
    /\ UNCHANGED ledger

\* One or more accepted hits that are not in the ledger are added to it.
Record ==
    /\ Len(ledger') > Len(ledger)
    /\ SubSeq(ledger', 1, Len(ledger)) = ledger
    /\ Range(ledger') \subseteq accepted
    /\ IsInjective(ledger')
    /\ UNCHANGED accepted

Next == (\E h \in Hits : Accept(h)) \/ Record

Spec == Init /\ [][Next]_vars
================================================================================
