------------------------------- MODULE MCTracker -------------------------------
(***************************************************************************)
(* Small instances of Tracker for TLC.                                      *)
(***************************************************************************)
EXTENDS Tracker, TLC

CONSTANTS
    h1, h2, h3, bot, w1, w2, s1, s2, f1, f2     \* model values

Symmetric ==
    Permutations(Hits \ Ignored) \cup Permutations(Workers)
        \cup Permutations(Stoppers) \cup Permutations(Flushers)
================================================================================
