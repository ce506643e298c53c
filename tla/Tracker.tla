-------------------------------- MODULE Tracker --------------------------------
(***************************************************************************)
(* Hit tracking (url/internal/track/tracker.go): every redirect hands its   *)
(* hit to a buffered channel in a goroutine of its own; a pool of workers   *)
(* takes hits from the channel and stores them; Flush restarts the pool,    *)
(* Stop ends it and drains the channel.                                     *)
(*                                                                          *)
(* A goroutine's step is an operation other goroutines can see: an atomic   *)
(* load or store, a channel operation, a cancellation, a call to the store. *)
(* One worker of the model stands for the workers that successive           *)
(* startWorker calls start in its place: a pool is only started by a caller *)
(* that has seen every worker of the one before it finish.                  *)
(***************************************************************************)
EXTENDS Naturals, Sequences, FiniteSets, Functions

CONSTANTS
    Hits,               \* requests that are redirected, each tracked once
    Ignored,            \* those IgnoreHit turns away
    Workers,            \* the pool
    Stoppers,           \* goroutines that call Stop
    Flushers,           \* goroutines that call Flush
    WorkerBufferSize,   \* hits a batch has room for
    StoreFails,         \* may store.SaveHits return an error?
    ExitAllowed         \* may the process exit, as main does, without Stop?

Callers == Stoppers \cup Flushers

ASSUME TrackerAssumption ==
    /\ Ignored \subseteq Hits
    /\ IsFiniteSet(Workers) /\ Workers # {}
    /\ Stoppers \cap Flushers = {}
    /\ Workers \cap Callers = {}
    /\ WorkerBufferSize \in Nat \ {0}
    /\ StoreFails \in BOOLEAN
    /\ ExitAllowed \in BOOLEAN

VARIABLES
    hitPc,      \* hit -> where its goroutine is in Hit
    queue,      \* the channel tracker.hits
    wpc,        \* worker -> where it is in aggregate
    cpc,        \* caller -> where it is in Stop or Flush
    got,        \* caller -> receives from workerDone so far
    batch,      \* worker or caller -> its local slice of hits
    stopped,    \* tracker.stopped > 0
    cancelled,  \* the context of the current pool is cancelled
    table,      \* rows of the hit table
    errored,    \* hits of batches SaveHits returned an error for
    up,         \* the process has not exited
    early       \* history: hits in the channel or beyond when stopped was set

pcs == <<hitPc, wpc, cpc>>
vars == <<pcs, queue, got, batch, stopped, cancelled, table, errored, up, early>>

\* make(chan Hit, config.Worker*config.WorkerBufferSize); validate made both at least 1.
Capacity == Cardinality(Workers) * WorkerBufferSize

Holders == Workers \cup Callers

HitStages == {"idle", "checked", "sent", "dropped"}
WorkerStages == {"select", "save", "lastSave", "signal", "exited"}
CallerStages == {"idle", "mark", "cancel", "wait", "drain", "drainSave",
                 "drainLast", "restart", "returned", "skipped"}

TypeOK ==
    /\ hitPc \in [Hits -> HitStages]
    /\ queue \in Seq(Hits) /\ Len(queue) <= Capacity
    /\ wpc \in [Workers -> WorkerStages]
    /\ cpc \in [Callers -> CallerStages]
    /\ got \in [Callers -> 0..Cardinality(Workers)]
    /\ batch \in [Holders -> Seq(Hits)]
    /\ \A x \in Holders : Len(batch[x]) <= WorkerBufferSize
    /\ stopped \in BOOLEAN
    /\ cancelled \in BOOLEAN
    /\ table \in Seq(Hits)
    /\ errored \subseteq Hits
    /\ up \in BOOLEAN
    /\ early \subseteq Hits

\* NewTracker starts the pool.
Init ==
    /\ hitPc = [h \in Hits |-> "idle"]
    /\ queue = << >>
    /\ wpc = [w \in Workers |-> "select"]
    /\ cpc = [c \in Callers |-> "idle"]
    /\ got = [c \in Callers |-> 0]
    /\ batch = [x \in Holders |-> << >>]
    /\ stopped = FALSE
    /\ cancelled = FALSE
    /\ table = << >>
    /\ errored = {}
    /\ up = TRUE
    /\ early = {}

--------------------------------------------------------------------------------
(* Hit *)

Sent == {h \in Hits : hitPc[h] = "sent"}

HitCheck(h) ==
    /\ up
    /\ hitPc[h] = "idle"
    /\ hitPc' = [hitPc EXCEPT ![h] =
                    IF stopped \/ h \in Ignored THEN "dropped" ELSE "checked"]
    /\ UNCHANGED <<wpc, cpc, queue, got, batch, stopped, cancelled, table, errored, up, early>>

\* Mutant of HitSend: a select with a default case drops the hit when full.
HitSendDropping(h) ==
    /\ up
    /\ hitPc[h] = "checked"
    /\ hitPc' = [hitPc EXCEPT ![h] = "sent"]
    /\ queue' = IF Len(queue) < Capacity THEN Append(queue, h) ELSE queue
    /\ UNCHANGED <<wpc, cpc, got, batch, stopped, cancelled, table, errored, up, early>>

\* The send blocks while the channel is full.
HitSend(h) ==
    /\ up
    /\ hitPc[h] = "checked"
    /\ Len(queue) < Capacity
    /\ hitPc' = [hitPc EXCEPT ![h] = "sent"]
    /\ queue' = Append(queue, h)
    /\ UNCHANGED <<wpc, cpc, got, batch, stopped, cancelled, table, errored, up, early>>

--------------------------------------------------------------------------------
(* The channel and the store, as the workers and flushHits use them *)

\* x receives the oldest hit into its slice.
Take(x) ==
    /\ queue # << >>
    /\ batch' = [batch EXCEPT ![x] = Append(@, Head(queue))]
    /\ queue' = Tail(queue)

\* Mutant of SaveHits: the slice is not reset.
SaveHitsKeeping(x) ==
    /\ table' = table \o batch[x]
    /\ UNCHANGED <<batch, errored>>

\* saveHits skips an empty slice.  SaveHits is one INSERT: all rows or none,
\* and when it returns an error, the error is logged and the slice is reset all
\* the same, the rows being in the table only if the answer alone was lost.
SaveHits(x) ==
    /\ batch' = [batch EXCEPT ![x] = << >>]
    /\ \/ table' = table \o batch[x] /\ UNCHANGED errored
       \/ /\ StoreFails /\ batch[x] # << >>
          /\ table' \in {table, table \o batch[x]}
          /\ errored' = errored \cup Range(batch[x])

--------------------------------------------------------------------------------
(* aggregate, started by startWorker *)

WorkerTake(w) ==
    /\ up
    /\ wpc[w] = "select"
    /\ Take(w)
    /\ wpc' = [wpc EXCEPT ![w] = "save"]
    /\ UNCHANGED <<hitPc, cpc, got, stopped, cancelled, table, errored, up, early>>

\* The timer fires.
WorkerTick(w) ==
    /\ up
    /\ wpc[w] = "select"
    /\ wpc' = [wpc EXCEPT ![w] = "save"]
    /\ UNCHANGED <<hitPc, cpc, queue, got, batch, stopped, cancelled, table, errored, up, early>>

WorkerCancelled(w) ==
    /\ up
    /\ wpc[w] = "select"
    /\ cancelled
    /\ wpc' = [wpc EXCEPT ![w] = "lastSave"]
    /\ UNCHANGED <<hitPc, cpc, queue, got, batch, stopped, cancelled, table, errored, up, early>>

\* Mutant of WorkerSave: a cancelled worker returns without its signal.
WorkerSaveSilent(w) ==
    /\ up
    /\ wpc[w] \in {"save", "lastSave"}
    /\ SaveHits(w)
    /\ wpc' = [wpc EXCEPT ![w] = IF @ = "save" THEN "select" ELSE "exited"]
    /\ UNCHANGED <<hitPc, cpc, queue, got, stopped, cancelled, up, early>>

WorkerSave(w) ==
    /\ up
    /\ wpc[w] \in {"save", "lastSave"}
    /\ SaveHits(w)
    /\ wpc' = [wpc EXCEPT ![w] = IF @ = "save" THEN "select" ELSE "signal"]
    /\ UNCHANGED <<hitPc, cpc, queue, got, stopped, cancelled, up, early>>

--------------------------------------------------------------------------------
(* Stop and Flush *)

StopCheck(c) ==
    /\ up
    /\ c \in Stoppers /\ cpc[c] = "idle"
    /\ cpc' = [cpc EXCEPT ![c] = IF stopped THEN "skipped" ELSE "mark"]
    /\ UNCHANGED <<hitPc, wpc, queue, got, batch, stopped, cancelled, table, errored, up, early>>

StopMark(c) ==
    /\ up
    /\ cpc[c] = "mark"
    /\ stopped' = TRUE
    /\ early' = IF stopped THEN early ELSE Sent
    /\ cpc' = [cpc EXCEPT ![c] = "cancel"]
    /\ UNCHANGED <<hitPc, wpc, queue, got, batch, cancelled, table, errored, up>>

\* Mutant of Cancel: Flush starts a new pool without waiting for the old one.
CancelNoWait(c) ==
    /\ up
    /\ cpc[c] = "cancel" \/ (c \in Flushers /\ cpc[c] = "idle")
    /\ cancelled' = TRUE
    /\ got' = [got EXCEPT ![c] = 0]
    /\ cpc' = [cpc EXCEPT ![c] = IF c \in Flushers THEN "restart" ELSE "wait"]
    /\ UNCHANGED <<hitPc, wpc, queue, batch, stopped, table, errored, up, early>>

\* stopWorker: cancel the context of the current pool ...
Cancel(c) ==
    /\ up
    /\ cpc[c] = "cancel" \/ (c \in Flushers /\ cpc[c] = "idle")
    /\ cancelled' = TRUE
    /\ got' = [got EXCEPT ![c] = 0]
    /\ cpc' = [cpc EXCEPT ![c] = "wait"]
    /\ UNCHANGED <<hitPc, wpc, queue, batch, stopped, table, errored, up, early>>

\* Mutant of Done: the loop ends one signal early.
DoneEarly(c, w) ==
    /\ up
    /\ cpc[c] = "wait" /\ wpc[w] = "signal"
    /\ wpc' = [wpc EXCEPT ![w] = "exited"]
    /\ got' = [got EXCEPT ![c] = @ + 1]
    /\ cpc' = IF got'[c] + 1 < Cardinality(Workers) THEN cpc
              ELSE [cpc EXCEPT ![c] = IF c \in Stoppers THEN "drain" ELSE "restart"]
    /\ UNCHANGED <<hitPc, queue, batch, stopped, cancelled, table, errored, up, early>>

\* ... and meet as many workers on the unbuffered channel as the pool has.
Done(c, w) ==
    /\ up
    /\ cpc[c] = "wait" /\ wpc[w] = "signal"
    /\ wpc' = [wpc EXCEPT ![w] = "exited"]
    /\ got' = [got EXCEPT ![c] = @ + 1]
    /\ cpc' = IF got'[c] < Cardinality(Workers) THEN cpc
              ELSE [cpc EXCEPT ![c] = IF c \in Stoppers THEN "drain" ELSE "restart"]
    /\ UNCHANGED <<hitPc, queue, batch, stopped, cancelled, table, errored, up, early>>

\* Mutant of DrainTake: the slice is saved once it has more hits than its size.
DrainTakeOverfull(c) ==
    /\ up
    /\ cpc[c] = "drain"
    /\ Take(c)
    /\ cpc' = [cpc EXCEPT ![c] =
                  IF Len(batch[c]) + 1 > WorkerBufferSize THEN "drainSave" ELSE @]
    /\ UNCHANGED <<hitPc, wpc, got, stopped, cancelled, table, errored, up, early>>

\* flushHits: take what is in the channel, saving whenever the slice is full.
DrainTake(c) ==
    /\ up
    /\ cpc[c] = "drain"
    /\ Take(c)
    /\ cpc' = [cpc EXCEPT ![c] =
                  IF Len(batch[c]) + 1 = WorkerBufferSize THEN "drainSave" ELSE @]
    /\ UNCHANGED <<hitPc, wpc, got, stopped, cancelled, table, errored, up, early>>

\* Mutant of DrainEmpty: the last, partly filled slice is not saved.
DrainEmptyReturns(c) ==
    /\ up
    /\ cpc[c] = "drain"
    /\ queue = << >>
    /\ cpc' = [cpc EXCEPT ![c] = "returned"]
    /\ UNCHANGED <<hitPc, wpc, queue, got, batch, stopped, cancelled, table, errored, up, early>>

DrainEmpty(c) ==
    /\ up
    /\ cpc[c] = "drain"
    /\ queue = << >>
    /\ cpc' = [cpc EXCEPT ![c] = "drainLast"]
    /\ UNCHANGED <<hitPc, wpc, queue, got, batch, stopped, cancelled, table, errored, up, early>>

DrainSave(c) ==
    /\ up
    /\ cpc[c] \in {"drainSave", "drainLast"}
    /\ SaveHits(c)
    /\ cpc' = [cpc EXCEPT ![c] = IF @ = "drainSave" THEN "drain" ELSE "returned"]
    /\ UNCHANGED <<hitPc, wpc, queue, got, stopped, cancelled, up, early>>

\* Flush ends with startWorker: a new context and a new pool, whose workers make
\* new slices.
Restart(c) ==
    /\ up
    /\ cpc[c] = "restart"
    /\ cpc' = [cpc EXCEPT ![c] = "returned"]
    /\ cancelled' = FALSE
    /\ wpc' = [w \in Workers |-> "select"]
    /\ batch' = [x \in Holders |-> IF x \in Workers THEN << >> ELSE batch[x]]
    /\ UNCHANGED <<hitPc, queue, got, stopped, table, errored, up, early>>

--------------------------------------------------------------------------------

\* main returns after the server is shut down, or os.Exit is called: the channel
\* and every goroutine are gone.  Nothing in main calls Stop.
Exit ==
    /\ ExitAllowed /\ up
    /\ up' = FALSE
    /\ UNCHANGED <<pcs, queue, got, batch, stopped, cancelled, table, errored, early>>

Worker(w) == WorkerTake(w) \/ WorkerTick(w) \/ WorkerCancelled(w) \/ WorkerSave(w)

Caller(c) ==
    \/ StopCheck(c) \/ StopMark(c) \/ Cancel(c) \/ (\E w \in Workers : Done(c, w))
    \/ DrainTake(c) \/ DrainEmpty(c) \/ DrainSave(c) \/ Restart(c)

Next ==
    \/ \E h \in Hits : HitCheck(h) \/ HitSend(h)
    \/ \E w \in Workers : Worker(w)
    \/ \E c \in Callers : Caller(c)
    \/ Exit

Spec == Init /\ [][Next]_vars

\* Go runs every goroutine that can run, blocked senders are served in turn, and
\* the selects of the workers do not pass over a ready case for ever.  No request
\* need come and nobody need call Stop or Flush, but a call begun is continued.
Fairness ==
    /\ SF_vars(\E h \in Hits : HitSend(h))
    /\ \A w \in Workers : WF_vars(Worker(w))
    /\ SF_vars(\E w \in Workers : WorkerTake(w))
    /\ SF_vars(\E w \in Workers : WorkerCancelled(w))
    /\ \A c \in Callers : WF_vars(cpc[c] # "idle" /\ Caller(c))

FairSpec == Spec /\ Fairness

--------------------------------------------------------------------------------
(* Properties. *)

\* Goroutines that have not returned: the slices of the others are garbage.
Running(x) == IF x \in Workers THEN wpc[x] # "exited" ELSE cpc[x] # "returned"

InMemory(h) ==
    \/ h \in Range(queue)
    \/ \E x \in Holders : Running(x) /\ h \in Range(batch[x])

Settled(h) == h \in Range(table) \cup errored

\* While the process runs, a hit that was sent is in the channel, in the slice of
\* a running goroutine, in the table, or in a batch whose error was logged: no
\* reset of a slice, restart of the pool or end of a worker loses one.
NothingVanishes ==
    up => \A h \in Sent : InMemory(h) \/ Settled(h)

\* When a Stop has returned, every hit that was in the channel before stopped
\* was set has been given to the store, whatever other calls of Stop and Flush
\* did meanwhile (tracker.Stop, "flushes and stops all workers").
StopKeepsEarlierHits ==
    (\E c \in Stoppers : cpc[c] = "returned") => \A h \in early : Settled(h)

\* A caller that has been met by a whole pool is the only one that was: until it
\* returns nobody else drains or restarts, no worker of any pool runs, and none
\* ever runs again after a Stop has returned.  Two callers may wait at once and
\* nothing but the count of signals keeps them apart (stopWorker).
PastWait == {"drain", "drainSave", "drainLast", "restart"}

PoolIsDown ==
    \A c \in Callers :
        cpc[c] \in PastWait \/ (c \in Stoppers /\ cpc[c] = "returned") =>
            /\ \A w \in Workers : wpc[w] = "exited"
            /\ \A d \in Callers \ {c} : cpc[d] \notin PastWait

\* No hit has two rows, and rows are only appended, for hits that were sent.
Ledger == INSTANCE HitLedger WITH accepted <- Sent, ledger <- table

ImplementsLedger == Ledger!Spec

UnderWay(c) == cpc[c] \notin {"idle", "returned", "skipped"}

\* One call of Stop or Flush at a time, and no Flush once a Stop has returned: Flush
\* does not look at stopped and would wait for the signals of a pool that is gone.
CallsInTurn ==
    \A c, d \in Callers : c # d /\ UnderWay(c) =>
        ~UnderWay(d) /\ ~(c \in Flushers /\ d \in Stoppers /\ cpc[d] = "returned")

\* If calls of Stop and Flush come in turn and the process lives on, every hit that
\* was sent is given to the store, but for those sent after a Stop had set stopped
\* (aggregate, flushHits).
HitsSettle ==
    []CallsInTurn =>
        \A h \in Hits : h \in Sent ~> Settled(h) \/ (stopped /\ h \notin early)

\* If calls of Stop and Flush come in turn, each returns, whatever hits are sent
\* meanwhile (stopWorker, flushHits).  A Stop and a Flush that overlap may share the
\* signals of one pool and both wait for ever.
CallsReturn ==
    []CallsInTurn => \A c \in Callers : UnderWay(c) ~> ~UnderWay(c)
================================================================================
