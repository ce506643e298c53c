------------------------------- MODULE Sessions -------------------------------
(***************************************************************************)
(* What token pairs promise: a sign-in begins a session, and a session can  *)
(* be continued with one token at a time, by the client that was handed it. *)
(* Redeeming the token ends it and may entitle the session to another, just *)
(* one, that no session ever had.  A session that is not given its token    *)
(* has come to an end.  There are no handlers, records or commands here.    *)
(***************************************************************************)
CONSTANTS
    Names,      \* of the sessions
    Tokens,
    NoToken     \* not in Tokens

VARIABLES
    begun,      \* the sessions there have been
    token,      \* session -> what it can be continued with, or NoToken
    owed,       \* the sessions entitled to a token
    issued,     \* the tokens some session has had
    handed      \* those a client was handed

vars == <<begun, token, owed, issued, handed>>

Init ==
    /\ begun = {}
    /\ token = [s \in Names |-> NoToken]
    /\ owed = {}
    /\ issued = {}
    /\ handed = {}

Begin(s) ==
    /\ s \notin begun
    /\ begun' = begun \cup {s}
    /\ owed' = owed \cup {s}
    /\ UNCHANGED <<token, issued, handed>>

Redeem(s) ==
    /\ token[s] \in handed
    /\ token' = [token EXCEPT ![s] = NoToken]
    /\ owed' \in {owed, owed \cup {s}}
    /\ UNCHANGED <<begun, issued, handed>>

\* The answer that hands the token to the client may be lost.
Issue(s, t) ==
    /\ s \in owed /\ token[s] = NoToken
    /\ t \notin issued
    /\ token' = [token EXCEPT ![s] = t]
    /\ owed' = owed \ {s}
    /\ issued' = issued \cup {t}
    /\ handed' \in {handed, handed \cup {t}}
    /\ UNCHANGED begun

Forfeit(lost) ==
    /\ owed' = owed \ lost
    /\ UNCHANGED <<begun, token, issued, handed>>

Next ==
    \/ \E s \in Names : Begin(s) \/ Redeem(s)
    \/ \E s \in Names, t \in Tokens : Issue(s, t)
    \/ \E lost \in SUBSET Names : Forfeit(lost)

Spec == Init /\ [][Next]_vars
===============================================================================
