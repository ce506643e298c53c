------------------------------ MODULE ServerProofs ------------------------------
(***************************************************************************)
(* Theorems about Server for any calls and any statuses errors carry.       *)
(***************************************************************************)
EXTENDS Server, TLAPS

IsOk(r) == r.kind = "ok"

\* The status the access log should have for an answer.
Expected(answer) == IF answer = 0 THEN 500 ELSE answer

Told(r) == IsOk(r.outcome) \/ r.answer = 0 \/ r.answer >= 400

\* What is settled about a call at every handler on its way in and out: the access
\* log is entered first and left last, and only the error handler stands between
\* it and what the handler returned.
CallSettled(r) ==
    /\ r.stage = "none" => r.layer = 0
    /\ r.stage = "in" => r.layer \in 1..3 /\ (r.layer > 1 => r.written = 200)
    /\ r.stage = "out" =>
        /\ r.layer \in 0..2
        /\ r.layer = 2 => /\ r.result = r.outcome /\ r.result \in Results
                          /\ IsOk(r.result) => r.written = r.result.status
                          /\ r.answer = IF IsOk(r.result) THEN r.result.status ELSE 0
        /\ r.layer < 2 => Told(r)
        /\ r.layer = 1 => IsOk(r.result) /\ r.written = Expected(r.answer)
    /\ r.stage = "done" => Told(r)
    /\ r.stage = "done" \/ (r.stage = "out" /\ r.layer = 0) => r.logged = Expected(r.answer)

ServerInv == TypeOK /\ \A c \in Calls : CallSettled(call[c])

--------------------------------------------------------------------------------

\* The results of handlers, by the kind they are of.
LEMMA ResultFacts ==
    ASSUME NEW r \in Results
    PROVE  /\ r.kind \in ErrorKinds \cup {"ok"} /\ r.status \in Nat
           /\ IsOk(r) => r.status \in Successes
           /\ r.kind \in {"response", "routing"} => r.status \in 400..599
<1>1. CASE r \in [kind : {"ok"}, status : Successes]
  BY <1>1 DEF IsOk, ErrorKinds, Successes
<1>2. CASE r \in {[kind |-> k, status |-> 0] : k \in ErrorKinds \ {"response", "routing"}}
  <2>1. PICK k \in ErrorKinds \ {"response", "routing"} : r = [kind |-> k, status |-> 0]
    BY <1>2
  <2>. QED BY <2>1 DEF IsOk, ErrorKinds
<1>3. CASE r \in [kind : {"response", "routing"}, status : OwnStatus]
  <2>1. r.kind \in {"response", "routing"} /\ r.status \in 400..599
    BY <1>3, ServerAssumption
  <2>. QED BY <2>1 DEF IsOk, ErrorKinds
<1>. QED BY <1>1, <1>2, <1>3 DEF Results

\* An error is answered with a status of failure.
LEMMA ErrorStatus ==
    ASSUME NEW r \in Results
    PROVE  BuildErrorResponse(r) \in 400..599 /\ (r.kind = "broken" => BuildErrorResponse(r) = 500)
<1>1. CASE r.kind \in {"validation", "pq"}
  BY <1>1 DEF BuildErrorResponse
<1>2. CASE r.kind \in {"response", "routing"}
  BY <1>2, ResultFacts DEF BuildErrorResponse
<1>3. CASE r.kind \notin {"validation", "pq", "response", "routing"}
  BY <1>3 DEF BuildErrorResponse
<1>. QED BY <1>1, <1>2, <1>3

\* A call, field by field.
Row(stage, layer, result, outcome, written, answer, logged) ==
    [stage |-> stage, layer |-> layer, result |-> result, outcome |-> outcome,
     written |-> written, answer |-> answer, logged |-> logged]

LEMMA RowOf ==
    ASSUME NEW r \in CallTypes
    PROVE  r = Row(r.stage, r.layer, r.result, r.outcome, r.written, r.answer, r.logged)
BY DEF CallTypes, Row

--------------------------------------------------------------------------------
(* Calls. *)

LEMMA AcceptRow ==
    ASSUME TypeOK, NEW c \in Calls, Accept(c), NEW r \in CallTypes, call[c] = r
    PROVE  call'[c] = Row("in", 1, r.result, r.outcome, r.written, r.answer, r.logged)
<1>1. call'[c] = [Row(r.stage, r.layer, r.result, r.outcome, r.written, r.answer, r.logged)
                  EXCEPT !.stage = "in", !.layer = 1]
  BY RowOf DEF Accept, TypeOK
<1>. QED BY <1>1 DEF Row

LEMMA EnterRow ==
    ASSUME TypeOK, NEW c \in Calls, Enter(c), NEW r \in CallTypes, call[c] = r
    PROVE  call'[c] = Row(r.stage, r.layer + 1, r.result, r.outcome,
                          IF Chain[r.layer] = "accesslog" THEN 200 ELSE r.written,
                          r.answer, r.logged)
<1>1. call'[c] = [Row(r.stage, r.layer, r.result, r.outcome, r.written, r.answer, r.logged)
                  EXCEPT !.layer = @ + 1,
                         !.written = IF Chain[r.layer] = "accesslog" THEN 200 ELSE @]
  BY RowOf DEF Enter, TypeOK
<1>. QED BY <1>1 DEF Row

LEMMA HandleRow ==
    ASSUME TypeOK, NEW c \in Calls, Handle(c), NEW r \in CallTypes, call[c] = r
    PROVE  \E e \in Results :
                call'[c] = Row("out", r.layer - 1, e, e,
                               IF e.kind = "ok" THEN e.status ELSE r.written,
                               IF e.kind = "ok" THEN e.status ELSE 0, r.logged)
<1>1. PICK e \in Results :
        call' = [call EXCEPT ![c].stage = "out", ![c].layer = @ - 1,
                             ![c].result = e, ![c].outcome = e,
                             ![c].written = IF e.kind = "ok" THEN e.status ELSE @,
                             ![c].answer = IF e.kind = "ok" THEN e.status ELSE 0]
  BY DEF Handle
<1>2. call'[c] = [Row(r.stage, r.layer, r.result, r.outcome, r.written, r.answer, r.logged)
                  EXCEPT !.stage = "out", !.layer = @ - 1, !.result = e, !.outcome = e,
                         !.written = IF e.kind = "ok" THEN e.status ELSE @,
                         !.answer = IF e.kind = "ok" THEN e.status ELSE 0]
  BY <1>1, RowOf DEF TypeOK
<1>. QED BY <1>2 DEF Row

LEMMA LeaveErrorsRow ==
    ASSUME TypeOK, NEW c \in Calls, LeaveErrors(c), NEW r \in CallTypes, call[c] = r
    PROVE  LET status == BuildErrorResponse(r.result)
           IN  IF r.result.kind = "ok"
               THEN call'[c] = Row(r.stage, r.layer - 1, r.result, r.outcome, r.written,
                                   r.answer, r.logged)
               ELSE call'[c] = Row(r.stage, r.layer - 1, [kind |-> "ok", status |-> 200],
                                   r.outcome, status,
                                   IF r.result.kind = "broken" THEN 0 ELSE status, r.logged)
<1> DEFINE status == BuildErrorResponse(r.result)
           row == Row(r.stage, r.layer, r.result, r.outcome, r.written, r.answer, r.logged)
<1>0. r = row
  BY RowOf
<1>a. call'[c] = IF call[c].result.kind = "ok" THEN [call[c] EXCEPT !.layer = @ - 1]
                 ELSE RespondTo(c)
  BY DEF LeaveErrors, TypeOK
<1>1. CASE r.result.kind = "ok"
  <2>1. call'[c] = [row EXCEPT !.layer = r.layer - 1]
    BY <1>0, <1>1, <1>a
  <2>. QED BY <1>1, <2>1 DEF Row
<1>2. CASE r.result.kind # "ok"
  <2>1. call'[c] = RespondTo(c)
    BY <1>2, <1>a
  <2>2. RespondTo(c) = [row EXCEPT !.layer = r.layer - 1, !.written = status,
                            !.answer = IF r.result.kind = "broken" THEN 0 ELSE status,
                            !.result = [kind |-> "ok", status |-> 200]]
    BY <1>0 DEF RespondTo
  <2>3. call'[c] = [row EXCEPT !.layer = r.layer - 1, !.written = status,
                            !.answer = IF r.result.kind = "broken" THEN 0 ELSE status,
                            !.result = [kind |-> "ok", status |-> 200]]
    BY <2>1, <2>2
  <2>. QED BY <1>2, <2>3 DEF Row
<1>. QED BY <1>1, <1>2

LEMMA LeaveAccessLogRow ==
    ASSUME TypeOK, NEW c \in Calls, LeaveAccessLog(c), NEW r \in CallTypes, call[c] = r
    PROVE  call'[c] = Row(r.stage, r.layer - 1, r.result, r.outcome, r.written, r.answer,
                          IF r.result.kind = "panic" THEN 0 ELSE r.written)
<1>1. call'[c] = [Row(r.stage, r.layer, r.result, r.outcome, r.written, r.answer, r.logged)
                  EXCEPT !.layer = @ - 1,
                         !.logged = IF r.result.kind = "panic" THEN 0 ELSE r.written]
  BY RowOf DEF LeaveAccessLog, TypeOK
<1>. QED BY <1>1 DEF Row

LEMMA FinishRow ==
    ASSUME TypeOK, NEW c \in Calls, Finish(c), NEW r \in CallTypes, call[c] = r
    PROVE  call'[c] = Row("done", r.layer, r.result, r.outcome, r.written, r.answer, r.logged)
<1>1. call'[c] = [Row(r.stage, r.layer, r.result, r.outcome, r.written, r.answer, r.logged)
                  EXCEPT !.stage = "done"]
  BY RowOf DEF Finish, TypeOK
<1>. QED BY <1>1 DEF Row

LEMMA OtherCalls ==
    ASSUME TypeOK, NEW c \in Calls, CallStep(c)
    PROVE  /\ \A d \in Calls \ {c} : call'[d] = call[d]
           /\ call'[c] \in CallTypes => call' \in [Calls -> CallTypes]
           /\ UNCHANGED <<server, exit>>
<1>1. \A d \in Calls \ {c} : call'[d] = call[d]
  BY DEF CallStep, Accept, Enter, Handle, LeaveErrors, LeaveAccessLog, Finish, TypeOK
<1>2. call' = [d \in Calls |-> call'[d]]
  BY DEF CallStep, Accept, Enter, Handle, LeaveErrors, LeaveAccessLog, Finish, TypeOK
<1>3. UNCHANGED <<server, exit>>
  BY DEF CallStep, Accept, Enter, Handle, LeaveErrors, LeaveAccessLog, Finish
<1>. QED BY <1>1, <1>2, <1>3 DEF TypeOK

\* One step of a call leaves it settled.
LEMMA CallStaysSettled ==
    ASSUME ServerInv, NEW c \in Calls, CallStep(c)
    PROVE  call'[c] \in CallTypes /\ CallSettled(call'[c])
<1> DEFINE r == call[c]
           ok == [kind |-> "ok", status |-> 200]
<1>0. TypeOK /\ r \in CallTypes /\ CallSettled(r)
  BY DEF ServerInv, TypeOK
<1>1. /\ r.stage \in {"none", "in", "out", "done"} /\ r.layer \in 0..3
      /\ r.result \in Results \cup {None} /\ r.outcome \in Results \cup {None}
      /\ r.written \in Nat /\ r.answer \in Nat /\ r.logged \in Nat
  BY <1>0 DEF CallTypes
<1>2. Chain[1] = "accesslog" /\ Chain[2] = "errors" /\ Chain[3] = "handler"
  BY DEF Chain
<1>3. ok \in Results /\ IsOk(ok)
  BY DEF Results, Successes, IsOk
<1>4. CASE Accept(c)
  <2>1. call'[c] = Row("in", 1, r.result, r.outcome, r.written, r.answer, r.logged)
    BY <1>0, <1>4, AcceptRow
  <2>2. call'[c] \in CallTypes
    BY <1>1, <2>1 DEF Row, CallTypes
  <2>. QED BY <2>1, <2>2 DEF Row, CallSettled
<1>5. CASE Enter(c)
  <2>1. call'[c] = Row(r.stage, r.layer + 1, r.result, r.outcome,
                       IF Chain[r.layer] = "accesslog" THEN 200 ELSE r.written,
                       r.answer, r.logged)
    BY <1>0, <1>5, EnterRow
  <2>2. r.stage = "in" /\ r.layer \in {1, 2}
    <3>1. r.stage = "in" /\ Chain[r.layer] # "handler"
      BY <1>5 DEF Enter
    <3>. QED BY <1>0, <1>1, <1>2, <3>1 DEF CallSettled
  <2>3. (IF Chain[r.layer] = "accesslog" THEN 200 ELSE r.written) = 200
    BY <1>0, <1>2, <2>2 DEF CallSettled
  <2>4. call'[c] = Row("in", r.layer + 1, r.result, r.outcome, 200, r.answer, r.logged)
    BY <2>1, <2>2, <2>3
  <2>5. call'[c] \in CallTypes
    BY <1>1, <2>2, <2>4 DEF Row, CallTypes
  <2>. QED BY <2>2, <2>4, <2>5 DEF Row, CallSettled
<1>6. CASE Handle(c)
  <2>1. PICK e \in Results :
            call'[c] = Row("out", r.layer - 1, e, e,
                           IF e.kind = "ok" THEN e.status ELSE r.written,
                           IF e.kind = "ok" THEN e.status ELSE 0, r.logged)
    BY <1>0, <1>6, HandleRow
  <2>2. r.stage = "in" /\ r.layer = 3
    <3>1. r.stage = "in" /\ Chain[r.layer] = "handler"
      BY <1>6 DEF Handle
    <3>2. r.layer \in {1, 2, 3}
      BY <1>0, <1>1, <3>1 DEF CallSettled
    <3>. QED BY <1>0, <1>2, <3>1, <3>2 DEF CallSettled
  <2>3. e.status \in Nat
    BY ResultFacts
  <2>4. call'[c] = Row("out", 2, e, e, IF IsOk(e) THEN e.status ELSE r.written,
                       IF IsOk(e) THEN e.status ELSE 0, r.logged)
    BY <2>1, <2>2 DEF IsOk
  <2>5. call'[c] \in CallTypes
    BY <1>1, <2>3, <2>4 DEF Row, CallTypes
  <2>. QED BY <2>4, <2>5 DEF Row, CallSettled
<1>7. CASE LeaveErrors(c)
  <2> DEFINE status == BuildErrorResponse(r.result)
  <2>1. r.stage = "out" /\ r.layer = 2
    <3>1. r.stage = "out" /\ r.layer > 0 /\ Chain[r.layer] = "errors"
      BY <1>7 DEF LeaveErrors, OutOf
    <3>. QED BY <1>0, <1>1, <1>2, <3>1 DEF CallSettled
  <2>2. /\ r.result = r.outcome /\ r.result \in Results
        /\ IsOk(r.result) => r.written = r.result.status
        /\ r.answer = IF IsOk(r.result) THEN r.result.status ELSE 0
    BY <1>0, <2>1 DEF CallSettled
  <2>3. CASE IsOk(r.result)
    <3>0. r.result.status \in Nat /\ r.result.status # 0
      BY <2>2, <2>3, ResultFacts DEF Successes
    <3>1. call'[c] = Row("out", 1, r.result, r.outcome, r.result.status,
                         r.result.status, r.logged)
      BY <1>0, <1>1, <1>7, <2>1, <2>2, <2>3, LeaveErrorsRow DEF IsOk
    <3>2. call'[c] \in CallTypes
      BY <1>1, <3>0, <3>1 DEF Row, CallTypes
    <3>. QED BY <2>2, <2>3, <3>0, <3>1, <3>2 DEF Row, CallSettled, Told, Expected
  <2>4. CASE ~IsOk(r.result)
    <3>1. call'[c] = Row("out", 1, ok, r.outcome, status,
                         IF r.result.kind = "broken" THEN 0 ELSE status, r.logged)
      BY <1>0, <1>1, <1>7, <2>1, <2>2, <2>4, LeaveErrorsRow DEF IsOk
    <3>2. status \in 400..599 /\ (r.result.kind = "broken" => status = 500)
      BY <2>2, ErrorStatus
    <3> HIDE DEF status, ok
    <3>3. call'[c] \in CallTypes
      BY <1>1, <1>3, <3>1, <3>2 DEF Row, CallTypes
    <3>. QED BY <1>3, <3>1, <3>2, <3>3 DEF Row, CallSettled, Told, Expected
  <2>. QED BY <2>3, <2>4
<1>8. CASE LeaveAccessLog(c)
  <2>1. r.stage = "out" /\ r.layer = 1
    <3>1. r.stage = "out" /\ r.layer > 0 /\ Chain[r.layer] = "accesslog"
      BY <1>8 DEF LeaveAccessLog, OutOf
    <3>. QED BY <1>0, <1>1, <1>2, <3>1 DEF CallSettled
  <2>2. Told(r) /\ IsOk(r.result) /\ r.written = Expected(r.answer)
    BY <1>0, <2>1 DEF CallSettled
  <2>3. call'[c] = Row("out", 0, r.result, r.outcome, r.written, r.answer, r.written)
    BY <1>0, <1>8, <2>1, <2>2, LeaveAccessLogRow DEF IsOk
  <2>4. call'[c] \in CallTypes
    BY <1>1, <2>3 DEF Row, CallTypes
  <2>. QED BY <2>2, <2>3, <2>4 DEF Row, CallSettled, Told
<1>9. CASE Finish(c)
  <2>1. r.stage = "out" /\ r.layer = 0
    BY <1>9 DEF Finish
  <2>2. Told(r) /\ r.logged = Expected(r.answer)
    BY <1>0, <2>1 DEF CallSettled
  <2>3. call'[c] = Row("done", 0, r.result, r.outcome, r.written, r.answer, r.logged)
    BY <1>0, <1>9, <2>1, FinishRow
  <2>4. call'[c] \in CallTypes
    BY <1>1, <2>3 DEF Row, CallTypes
  <2>. QED BY <2>2, <2>3, <2>4 DEF Row, CallSettled, Told
<1>. QED BY <1>4, <1>5, <1>6, <1>7, <1>8, <1>9 DEF CallStep

--------------------------------------------------------------------------------
(* The process. *)

\* The stages of main before it can take a signal.
LEMMA SetupStages ==
    /\ BeforeNotify = {"config", "postgres", "jwt", "build", "notify"}
    /\ \A m \in DOMAIN NextSetup : NextSetup[m] \in BeforeNotify
<1>1. DOMAIN NextSetup = {"config", "postgres", "jwt"}
  BY DEF NextSetup
<1>2. BeforeNotify = {"config", "postgres", "jwt", "build", "notify"}
  BY <1>1 DEF BeforeNotify
<1>3. /\ NextSetup["config"] = "postgres" /\ NextSetup["postgres"] = "jwt"
      /\ NextSetup["jwt"] = "build"
  BY DEF NextSetup
<1>. QED BY <1>1, <1>2, <1>3

\* What main, its timer, a signal and the goroutine do is of their types and
\* concerns no call.
LEMMA ProcessTyped ==
    ASSUME TypeOK, Main \/ Expire \/ Signal \/ Goroutine
    PROVE  TypeOK' /\ UNCHANGED call
<1> USE DEF TypeOK
<1>1. CASE Setup
  BY <1>1, SetupStages DEF Setup
<1>2. CASE Start
  BY <1>2, SetupStages DEF Start
<1>3. CASE Notify
  BY <1>3 DEF Notify
<1>4. CASE TakeSignal
  <2>1. done' = 0
    BY <1>4 DEF TakeSignal
  <2>. QED BY <1>4, <2>1 DEF TakeSignal
<1>5. CASE Shutdown
  BY <1>5 DEF Shutdown
<1>6. CASE Return \/ Expire
  BY <1>6 DEF Return, Expire, server
<1>7. CASE Signal
  BY <1>7 DEF Signal
<1>8. CASE Goroutine
  BY <1>8 DEF Goroutine, Listen, ServeReturns, ServerFails, server
<1>. QED BY <1>1, <1>2, <1>3, <1>4, <1>5, <1>6, <1>7, <1>8 DEF Main

LEMMA ServerInductive == Spec => []ServerInv
<1>1. Init => ServerInv
  <2> SUFFICES ASSUME Init PROVE ServerInv
    OBVIOUS
  <2>1. \A c \in Calls : call[c] = Row("none", 0, None, None, 0, 0, 0)
    BY DEF Init, Row
  <2>2. Row("none", 0, None, None, 0, 0, 0) \in CallTypes
    BY DEF Row, CallTypes
  <2>3. CallSettled(Row("none", 0, None, None, 0, 0, 0))
    BY DEF Row, CallSettled
  <2>4. call \in [Calls -> CallTypes]
    BY <2>1, <2>2 DEF Init
  <2>5. TypeOK
    <3>1. main \in BeforeNotify /\ serving = "none" /\ done \in 0..1 /\ exit = "running"
      BY SetupStages DEF Init
    <3>2. shuttingDown \in BOOLEAN /\ expired \in BOOLEAN
      BY DEF Init
    <3>. QED BY <2>4, <3>1, <3>2, Zenon DEF TypeOK
  <2>. QED BY <2>1, <2>3, <2>5 DEF ServerInv
<1>2. ServerInv /\ [Next]_vars => ServerInv'
  <2> SUFFICES ASSUME ServerInv, [Next]_vars PROVE ServerInv'
    OBVIOUS
  <2>1. CASE Main \/ Expire \/ Signal \/ Goroutine
    BY <2>1, ProcessTyped DEF ServerInv
  <2>2. ASSUME NEW c \in Calls, CallStep(c) PROVE ServerInv'
    <3>1. call'[c] \in CallTypes /\ CallSettled(call'[c])
      BY <2>2, CallStaysSettled
    <3>2. /\ \A d \in Calls \ {c} : call'[d] = call[d]
          /\ call' \in [Calls -> CallTypes]
          /\ UNCHANGED <<server, exit>>
      BY <2>2, <3>1, OtherCalls DEF ServerInv
    <3>3. TypeOK'
      BY <3>2 DEF ServerInv, TypeOK, server
    <3>4. \A d \in Calls : CallSettled(call'[d])
      BY <3>1, <3>2 DEF ServerInv
    <3>. QED BY <3>3, <3>4 DEF ServerInv
  <2>3. CASE UNCHANGED vars
    BY <2>3 DEF vars, server, ServerInv, TypeOK
  <2>. QED BY <2>1, <2>2, <2>3 DEF Next
<1>. QED BY <1>1, <1>2, PTL DEF Spec

\* Main, the goroutine and every call keep to their stages, and the channel of
\* main holds at most one signal.
THEOREM TypeCorrect == Spec => []TypeOK
<1>1. ServerInv => TypeOK
  BY DEF ServerInv
<1>. QED BY <1>1, ServerInductive, PTL

\* The access log has the status each client got, whatever the handlers did: the
\* error handler is entered after the log and left before it.
THEOREM TheLogIsTrue == Spec => []LoggedAsAnswered
<1>1. ServerInv => LoggedAsAnswered
  BY DEF ServerInv, CallSettled, LoggedAsAnswered, Expected
<1>. QED BY <1>1, ServerInductive, PTL

\* No failure or panic of a handler is told to the client as a success.
THEOREM FailuresReachTheClient == Spec => []FailuresAreTold
<1>1. ServerInv => FailuresAreTold
  BY DEF ServerInv, CallSettled, FailuresAreTold, Told, IsOk
<1>. QED BY <1>1, ServerInductive, PTL

================================================================================
