--------------------------------- MODULE Server ---------------------------------
(***************************************************************************)
(* The life of the server process (url/cmd/server): main sets the stores    *)
(* up, starts ListenAndServe in a goroutine of its own, waits for a signal  *)
(* and shuts the HTTP server down, while every call goes through the        *)
(* handlers that router.Use strings together.  The goroutine and main both  *)
(* end the process, and neither knows of the other.                         *)
(*                                                                          *)
(* What a handler does is the matter of the other modules: here it writes   *)
(* an answer, returns an error of some kind, or panics.  The negotiator and *)
(* cors.AllowAll pass every call on and are left out of the chain.          *)
(***************************************************************************)
EXTENDS Naturals, Sequences

CONSTANTS
    Calls,      \* HTTP calls, one for each connection
    OwnStatus   \* what an ErrorResponse or a routing.HTTPError carries

ASSUME ServerAssumption == OwnStatus \subseteq 400..599

VARIABLES
    main,           \* what main does next
    serving,        \* the goroutine of ListenAndServe
    done,           \* signals in the channel of main
    shuttingDown,   \* http.Server.inShutdown
    expired,        \* the 30 seconds of Shutdown's context are over
    exit,           \* "running", or how the process ended
    call            \* call -> where it is and what became of it

server == <<main, serving, done, shuttingDown, expired>>
vars == <<server, exit, call>>

NextSetup == [config |-> "postgres", postgres |-> "jwt", jwt |-> "build"]
BeforeNotify == DOMAIN NextSetup \cup {"build", "notify"}

\* The kinds of error buildErrorResponse tells apart; broken: the header was
\* sent and the body could not be written.
ErrorKinds == {"validation", "response", "routing", "pq", "other", "broken", "panic"}
Successes == {200, 201, 301}
Results == [kind : {"ok"}, status : Successes]
               \cup {[kind |-> k, status |-> 0] :
                        k \in ErrorKinds \ {"response", "routing"}}
               \cup [kind : {"response", "routing"}, status : OwnStatus]
None == [kind |-> "none", status |-> 0]

\* written: the status the access log's writer saw last; answer: the status the
\* client got, 0 for none; outcome: what the handler ended with.
CallTypes == [stage : {"none", "in", "out", "done"}, layer : 0..3,
              result : Results \cup {None}, outcome : Results \cup {None},
              written : Nat, answer : Nat, logged : Nat]

TypeOK ==
    /\ main \in BeforeNotify \cup {"wait", "shutdown", "drain"}
    /\ serving \in {"none", "spawned", "open", "closed", "returned"}
    /\ done \in 0..1
    /\ shuttingDown \in BOOLEAN
    /\ expired \in BOOLEAN
    /\ exit \in {"running", "clean", "error", "setup", "killed"}
    /\ call \in [Calls -> CallTypes]

Init ==
    /\ main = "config"
    /\ serving = "none"
    /\ done = 0
    /\ shuttingDown = FALSE
    /\ expired = FALSE
    /\ exit = "running"
    /\ call = [c \in Calls |-> [stage |-> "none", layer |-> 0, result |-> None,
                  outcome |-> None, written |-> 0, answer |-> 0, logged |-> 0]]

--------------------------------------------------------------------------------
(* main *)

\* config.Load, NewPostgresStore with its Ping, and jwt.New: each ends the process
\* with -1 when it fails.  redis.New dials nothing and cannot fail.
Setup ==
    /\ main \in DOMAIN NextSetup
    /\ \/ main' = NextSetup[main] /\ UNCHANGED exit
       \/ exit' = "setup" /\ UNCHANGED main
    /\ UNCHANGED <<serving, done, shuttingDown, expired, call>>

\* buildHandler and the go statement.
Start ==
    /\ main = "build"
    /\ serving' = "spawned"
    /\ main' = "notify"
    /\ UNCHANGED <<done, shuttingDown, expired, exit, call>>

Notify ==
    /\ main = "notify"
    /\ main' = "wait"
    /\ UNCHANGED <<serving, done, shuttingDown, expired, exit, call>>

TakeSignal ==
    /\ main = "wait"
    /\ done > 0
    /\ done' = done - 1
    /\ main' = "shutdown"
    /\ UNCHANGED <<serving, shuttingDown, expired, exit, call>>

\* Shutdown closes the listeners and from then on waits for the calls under way.
Shutdown ==
    /\ main = "shutdown"
    /\ shuttingDown' = TRUE
    /\ serving' = IF serving = "open" THEN "closed" ELSE serving
    /\ main' = "drain"
    /\ UNCHANGED <<done, expired, exit, call>>

InFlight == {c \in Calls : call[c].stage \in {"in", "out"}}

\* Mutant of ShutdownReturns: a context without a deadline.
ShutdownReturnsWhenIdle == InFlight = {}

ShutdownReturns == InFlight = {} \/ expired

\* Whatever Shutdown returned, main returns and the process ends with 0.
Return ==
    /\ main = "drain"
    /\ ShutdownReturns
    /\ exit' = "clean"
    /\ UNCHANGED <<server, call>>

Expire ==
    /\ main = "drain"
    /\ expired' = TRUE
    /\ UNCHANGED <<main, serving, done, shuttingDown, exit, call>>

--------------------------------------------------------------------------------
(* Signals and the goroutine of ListenAndServe *)

\* Mutant of Signal: a channel of two.
SignalBuffered ==
    /\ IF main \in BeforeNotify
       THEN exit' = "killed" /\ UNCHANGED done
       ELSE done' = (IF done < 2 THEN done + 1 ELSE 2) /\ UNCHANGED exit
    /\ UNCHANGED <<main, serving, shuttingDown, expired, call>>

\* A signal that is not caught yet kills; one that finds the channel full is
\* dropped.
Signal ==
    /\ IF main \in BeforeNotify
       THEN exit' = "killed" /\ UNCHANGED done
       ELSE done' = 1 /\ UNCHANGED exit
    /\ UNCHANGED <<main, serving, shuttingDown, expired, call>>

\* The port is taken, or Shutdown came first, or the server listens.
Listen ==
    /\ serving = "spawned"
    /\ serving' \in IF shuttingDown THEN {"returned"} ELSE {"open", "returned"}
    /\ UNCHANGED <<main, done, shuttingDown, expired, exit, call>>

\* Serve comes back with ErrServerClosed once its listener is closed.
ServeReturns ==
    /\ serving = "closed"
    /\ serving' = "returned"
    /\ UNCHANGED <<main, done, shuttingDown, expired, exit, call>>

\* Every error of ListenAndServe ends the process, ErrServerClosed included.
ServerFails ==
    /\ serving = "returned"
    /\ exit' = "error"
    /\ UNCHANGED <<server, call>>

--------------------------------------------------------------------------------
(* One call, through the handlers of router.Use *)

\* Mutant of Chain: the error handler outside the access log.
ChainSwapped == <<"errors", "accesslog", "handler">>

Chain == <<"accesslog", "errors", "handler">>

Accept(c) ==
    /\ serving = "open"
    /\ call[c].stage = "none"
    /\ call' = [call EXCEPT ![c].stage = "in", ![c].layer = 1]
    /\ UNCHANGED <<server, exit>>

\* The way in: the access log puts its own writer in, with status 200.
Enter(c) ==
    /\ call[c].stage = "in"
    /\ Chain[call[c].layer] # "handler"
    /\ call' = [call EXCEPT ![c].layer = @ + 1,
                            ![c].written = IF Chain[call[c].layer] = "accesslog" THEN 200 ELSE @]
    /\ UNCHANGED <<server, exit>>

Handle(c) ==
    /\ call[c].stage = "in"
    /\ Chain[call[c].layer] = "handler"
    /\ \E r \in Results :
        call' = [call EXCEPT ![c].stage = "out", ![c].layer = @ - 1,
                             ![c].result = r, ![c].outcome = r,
                             ![c].written = IF r.kind = "ok" THEN r.status ELSE @,
                             ![c].answer = IF r.kind = "ok" THEN r.status ELSE 0]
    /\ UNCHANGED <<server, exit>>

BuildErrorResponse(r) ==
    CASE r.kind \in {"validation", "pq"} -> 400
      [] r.kind \in {"response", "routing"} -> r.status
      [] OTHER -> 500

OutOf(c, layer) ==
    /\ call[c].stage = "out"
    /\ call[c].layer > 0
    /\ Chain[call[c].layer] = layer

\* Mutant of RespondTo: what recover returned is logged and not made an error.
RespondToErrors(c) ==
    LET status == BuildErrorResponse(call[c].result)
    IN  IF call[c].result.kind = "panic"
        THEN [call[c] EXCEPT !.layer = @ - 1, !.answer = 200,
                             !.result = [kind |-> "ok", status |-> 200]]
        ELSE [call[c] EXCEPT !.layer = @ - 1, !.written = status,
                        !.answer = IF call[c].result.kind = "broken" THEN 0 ELSE status,
                        !.result = [kind |-> "ok", status |-> 200]]

\* errors.Handler recovers and answers; a header that is out cannot be changed.
RespondTo(c) ==
    LET status == BuildErrorResponse(call[c].result)
    IN  [call[c] EXCEPT !.layer = @ - 1, !.written = status,
                        !.answer = IF call[c].result.kind = "broken" THEN 0 ELSE status,
                        !.result = [kind |-> "ok", status |-> 200]]

LeaveErrors(c) ==
    /\ OutOf(c, "errors")
    /\ call' = [call EXCEPT ![c] = IF call[c].result.kind = "ok"
                                   THEN [call[c] EXCEPT !.layer = @ - 1]
                                   ELSE RespondTo(c)]
    /\ UNCHANGED <<server, exit>>

\* accesslog.Handler logs after Next; a panic goes past it.
LeaveAccessLog(c) ==
    /\ OutOf(c, "accesslog")
    /\ call' = [call EXCEPT ![c].layer = @ - 1,
                            ![c].logged = IF call[c].result.kind = "panic" THEN 0
                                          ELSE call[c].written]
    /\ UNCHANGED <<server, exit>>

Finish(c) ==
    /\ call[c].stage = "out"
    /\ call[c].layer = 0
    /\ call' = [call EXCEPT ![c].stage = "done"]
    /\ UNCHANGED <<server, exit>>

--------------------------------------------------------------------------------

Main == Setup \/ Start \/ Notify \/ TakeSignal \/ Shutdown \/ Return
Goroutine == Listen \/ ServeReturns \/ ServerFails
CallStep(c) ==
    Accept(c) \/ Enter(c) \/ Handle(c) \/ LeaveErrors(c) \/ LeaveAccessLog(c) \/ Finish(c)

Next ==
    /\ exit = "running"
    /\ Main \/ Expire \/ Signal \/ Goroutine \/ \E c \in Calls : CallStep(c)

Spec == Init /\ [][Next]_vars

\* main and the timer go on, and the goroutine does until Shutdown begins: what it
\* does then is not counted upon, so that main must end the process by itself.  No
\* call need ever be answered and no signal come.
Fairness ==
    /\ WF_vars(exit = "running" /\ Main)
    /\ WF_vars(exit = "running" /\ ~shuttingDown /\ Goroutine)
    /\ WF_vars(exit = "running" /\ Expire)

FairSpec == Spec /\ Fairness

--------------------------------------------------------------------------------
(* Properties. *)

\* The access log has the status the client was answered with, for errors and
\* recovered panics too, and 500 when the answer could not be written: the error
\* handler runs inside the access log (buildHandler, accesslog.Handler).
LoggedAsAnswered ==
    \A c \in Calls : call[c].stage = "done" =>
        call[c].logged = IF call[c].answer = 0 THEN 500 ELSE call[c].answer

\* A call whose handler failed or panicked is never answered as a success
\* (errors.Handler, buildErrorResponse).
FailuresAreTold ==
    \A c \in Calls : call[c].stage = "done" /\ call[c].outcome.kind # "ok" =>
        call[c].answer = 0 \/ call[c].answer >= 400

\* A caught signal ends the process even if no call under way ever ends: Shutdown
\* has a deadline (main).  A process that cannot listen, or listens no more, ends too:
\* main waits for a signal that nobody need send (the goroutine's os.Exit).
ProcessEnds == (done > 0 \/ serving = "returned") ~> exit # "running"

\* main.go:115 says "gracefully shutdown the server, waiting max 30 seconds for
\* current operations to complete".  ListenAndServe returns as soon as Shutdown
\* begins and its goroutine calls os.Exit(1), so it does not hold.
GracefulShutdown ==
    exit # "running" /\ shuttingDown => InFlight = {} \/ expired
================================================================================
