------------------------------- MODULE Algorithms -------------------------------
(***************************************************************************)
(* The pure algorithms together, one computation at a time: ids through     *)
(* Base62, wishes through Suggestion, headers through UserAgent.            *)
(***************************************************************************)
EXTENDS Base62, Suggestion, UserAgent

vars == <<base62Vars, suggestionVars, ua>>

Init == Base62Init /\ SuggestionInit /\ AgentInit

Next ==
    \/ /\ step = "idle" /\ ua = << >>
       /\ Base62Next
       /\ UNCHANGED <<suggestionVars, ua>>
    \/ /\ stage = "idle" /\ ua = << >>
       /\ SuggestionNext
       /\ UNCHANGED <<base62Vars, ua>>
    \/ /\ stage = "idle" /\ step = "idle"
       /\ AgentNext
       /\ UNCHANGED <<base62Vars, suggestionVars>>

Spec == Init /\ [][Next]_vars

\* The digits, the texts and what is read from a header are of their types at every
\* stage of the three computations.
TypeOK == Base62TypeOK /\ SuggestionTypeOK /\ AgentTypeOK
================================================================================
