-------------------------------- MODULE Mailbox --------------------------------
(***************************************************************************)
(* What the email service promises: an email that is taken on may be        *)
(* answered, the emails taken on wait in their order, the first of them is  *)
(* tried and then done with, and only a loss lets it be tried once more.    *)
(* It does not promise that an answered email is taken on: the email may be *)
(* missed on its way, and then nothing takes it on later.  There are no     *)
(* views, deliveries, connections or restarts here.                         *)
(***************************************************************************)
EXTENDS Naturals, Sequences

CONSTANT Emails

VARIABLES
    taken,      \* the emails taken on so far
    waiting,    \* those not done with, in order
    tried,      \* the first of them was tried, and nothing was lost since
    answered,   \* the emails answered "ok"
    missed,     \* those of them that were never taken on
    attempts,   \* the emails tried, in order, with repetitions
    losses      \* how often something was lost

vars == <<taken, waiting, tried, answered, missed, attempts, losses>>

Init ==
    /\ taken = {}
    /\ waiting = << >>
    /\ tried = FALSE
    /\ answered = {}
    /\ missed = {}
    /\ attempts = << >>
    /\ losses = 0

\* The answer may be an error though the email was taken on.
Take(e) ==
    /\ e \notin taken \cup missed
    /\ taken' = taken \cup {e}
    /\ waiting' = Append(waiting, e)
    /\ answered' \in {answered, answered \cup {e}}
    /\ UNCHANGED <<tried, missed, attempts, losses>>

\* Answered and gone.
Miss(e) ==
    /\ e \notin taken \cup answered
    /\ answered' = answered \cup {e}
    /\ missed' = missed \cup {e}
    /\ UNCHANGED <<taken, waiting, tried, attempts, losses>>

Try ==
    /\ waiting # << >> /\ ~tried
    /\ attempts' = Append(attempts, Head(waiting))
    /\ tried' = TRUE
    /\ UNCHANGED <<taken, waiting, answered, missed, losses>>

Finish ==
    /\ tried
    /\ waiting' = Tail(waiting)
    /\ tried' = FALSE
    /\ UNCHANGED <<taken, answered, missed, attempts, losses>>

Lose ==
    /\ losses' = losses + 1
    /\ tried' = FALSE
    /\ UNCHANGED <<taken, waiting, answered, missed, attempts>>

Next == (\E e \in Emails : Take(e) \/ Miss(e)) \/ Try \/ Finish \/ Lose

Spec == Init /\ [][Next]_vars
================================================================================
