----------------------------- MODULE TrackerProofs -----------------------------
(***************************************************************************)
(* Theorems about Tracker for any hits, pool, callers and buffer size.      *)
(***************************************************************************)
EXTENDS Tracker, SequenceLemmas, FiniteSetTheorems, TLAPS

--------------------------------------------------------------------------------
(* Types and bounds. *)

\* Between a save and the next receive a worker holds no hit, and a caller holds
\* some only while it drains, with room for one more before it takes one.
HandsEmpty ==
    /\ \A w \in Workers : wpc[w] \in {"select", "signal", "exited"} => batch[w] = << >>
    /\ \A c \in Callers : cpc[c] \notin {"drain", "drainSave", "drainLast"} => batch[c] = << >>
    /\ \A c \in Callers : cpc[c] = "drain" => Len(batch[c]) < WorkerBufferSize

\* A caller that still waits has not been met by the whole pool.
StillWaiting == \A c \in Callers : cpc[c] = "wait" => got[c] < Cardinality(Workers)

TypeInv == TypeOK /\ HandsEmpty /\ StillWaiting

LEMMA PoolSize == Cardinality(Workers) \in Nat \ {0} /\ Capacity \in Nat \ {0}
<1>1. Cardinality(Workers) \in Nat
  BY FS_CardinalityType, TrackerAssumption
<1>2. Cardinality(Workers) # 0
  BY FS_EmptySet, TrackerAssumption
<1>. QED BY <1>1, <1>2, TrackerAssumption DEF Capacity

\* The variables a store operation changes keep their types.
LEMMA SaveTyped ==
    ASSUME TypeOK, NEW x \in Holders, SaveHits(x)
    PROVE  /\ batch' \in [Holders -> Seq(Hits)]
           /\ batch' = [batch EXCEPT ![x] = << >>]
           /\ table' \in Seq(Hits)
           /\ errored' \subseteq Hits
<1>1. batch[x] \in Seq(Hits) /\ Range(batch[x]) \subseteq Hits
  BY DEF TypeOK, Range
<1>2. table \o batch[x] \in Seq(Hits) /\ << >> \in Seq(Hits)
  BY <1>1 DEF TypeOK
<1>3. batch' = [batch EXCEPT ![x] = << >>] /\ batch' \in [Holders -> Seq(Hits)]
  BY <1>2 DEF SaveHits, TypeOK
<1>4. table' \in Seq(Hits) /\ errored' \subseteq Hits
  BY <1>1, <1>2 DEF SaveHits, TypeOK
<1>. QED BY <1>3, <1>4

LEMMA TakeTyped ==
    ASSUME TypeOK, NEW x \in Holders, Take(x)
    PROVE  /\ batch' \in [Holders -> Seq(Hits)]
           /\ queue' \in Seq(Hits) /\ Len(queue') <= Capacity
           /\ Len(batch'[x]) = Len(batch[x]) + 1
           /\ \A y \in Holders \ {x} : batch'[y] = batch[y]
<1>1. /\ queue \in Seq(Hits) /\ queue # << >> /\ batch[x] \in Seq(Hits)
      /\ batch' = [batch EXCEPT ![x] = Append(batch[x], Head(queue))]
      /\ queue' = Tail(queue)
  BY DEF Take, TypeOK
<1>2. Head(queue) \in Hits /\ Tail(queue) \in Seq(Hits) /\ Len(Tail(queue)) = Len(queue) - 1
  BY <1>1
<1>3. Append(batch[x], Head(queue)) \in Seq(Hits)
      /\ Len(Append(batch[x], Head(queue))) = Len(batch[x]) + 1
  BY <1>1, <1>2
<1>. QED BY <1>1, <1>2, <1>3, PoolSize DEF TypeOK

LEMMA TypeInductive == Spec => []TypeInv
<1>1. Init => TypeInv
  <2> SUFFICES ASSUME Init PROVE TypeInv
    OBVIOUS
  <2>1. << >> \in Seq(Hits) /\ Len(<< >>) = 0
    OBVIOUS
  <2>a. /\ queue \in Seq(Hits) /\ Len(queue) <= Capacity
        /\ batch \in [Holders -> Seq(Hits)]
        /\ \A x \in Holders : Len(batch[x]) <= WorkerBufferSize
    BY <2>1, TrackerAssumption, PoolSize DEF Init
  <2>b. /\ hitPc \in [Hits -> HitStages] /\ wpc \in [Workers -> WorkerStages]
        /\ cpc \in [Callers -> CallerStages]
    BY DEF Init, HitStages, WorkerStages, CallerStages
  <2>c. got \in [Callers -> 0..Cardinality(Workers)]
    BY PoolSize DEF Init
  <2>2. TypeOK
    BY <2>1, <2>a, <2>b, <2>c DEF Init, TypeOK
  <2>3. HandsEmpty /\ StillWaiting
    BY PoolSize DEF Init, HandsEmpty, StillWaiting, Holders
  <2>. QED BY <2>2, <2>3 DEF TypeInv
<1>2. TypeInv /\ [Next]_vars => TypeInv'
  <2> SUFFICES ASSUME TypeOK, HandsEmpty, StillWaiting, [Next]_vars
               PROVE  TypeOK' /\ HandsEmpty' /\ StillWaiting'
    BY DEF TypeInv
  <2> USE DEF Holders, HitStages, WorkerStages, CallerStages
  <2>0. /\ WorkerBufferSize \in Nat \ {0} /\ Workers \cap Callers = {}
        /\ << >> \in Seq(Hits) /\ Len(<< >>) = 0
    BY TrackerAssumption
  <2>1. ASSUME NEW h \in Hits, HitCheck(h) PROVE TypeOK' /\ HandsEmpty' /\ StillWaiting'
    BY <2>1 DEF HitCheck, TypeOK, HandsEmpty, StillWaiting
  <2>2. ASSUME NEW h \in Hits, HitSend(h) PROVE TypeOK' /\ HandsEmpty' /\ StillWaiting'
    <3>1. queue' \in Seq(Hits) /\ Len(queue') = Len(queue) + 1
      BY <2>2 DEF HitSend, TypeOK
    <3>2. Len(queue') <= Capacity
      BY <2>2, <3>1, PoolSize DEF HitSend, TypeOK
    <3>. QED BY <2>2, <3>1, <3>2 DEF HitSend, TypeOK, HandsEmpty, StillWaiting
  <2>3. ASSUME NEW w \in Workers, WorkerTake(w) PROVE TypeOK' /\ HandsEmpty' /\ StillWaiting'
    <3>1. Take(w) /\ w \in Holders /\ w \notin Callers /\ batch[w] = << >>
      BY <2>3, <2>0 DEF WorkerTake, HandsEmpty
    <3>2. /\ batch' \in [Holders -> Seq(Hits)]
          /\ queue' \in Seq(Hits) /\ Len(queue') <= Capacity
          /\ Len(batch'[w]) = Len(batch[w]) + 1
          /\ \A y \in Holders \ {w} : batch'[y] = batch[y]
      BY <3>1, TakeTyped
    <3>a. \A x \in Holders : Len(batch'[x]) <= WorkerBufferSize
      <4> TAKE x \in Holders
      <4>1. CASE x = w
        BY <4>1, <3>1, <3>2, <2>0
      <4>2. CASE x # w
        BY <4>2, <3>2 DEF TypeOK
      <4>. QED BY <4>1, <4>2
    <3>3. TypeOK'
      BY <2>3, <3>2, <3>a DEF WorkerTake, TypeOK
    <3>4. HandsEmpty' /\ StillWaiting'
      BY <2>3, <3>1, <3>2 DEF WorkerTake, HandsEmpty, StillWaiting, TypeOK
    <3>. QED BY <3>3, <3>4
  <2>4. ASSUME NEW w \in Workers, WorkerTick(w) \/ WorkerCancelled(w)
        PROVE  TypeOK' /\ HandsEmpty' /\ StillWaiting'
    BY <2>4 DEF WorkerTick, WorkerCancelled, TypeOK, HandsEmpty, StillWaiting
  <2>5. ASSUME NEW w \in Workers, WorkerSave(w) PROVE TypeOK' /\ HandsEmpty' /\ StillWaiting'
    <3>1. SaveHits(w) /\ w \in Holders
      BY <2>5 DEF WorkerSave
    <3>2. /\ batch' \in [Holders -> Seq(Hits)] /\ batch' = [batch EXCEPT ![w] = << >>]
          /\ table' \in Seq(Hits) /\ errored' \subseteq Hits
      BY <3>1, SaveTyped
    <3>3. TypeOK'
      BY <2>5, <3>2, <2>0 DEF WorkerSave, TypeOK
    <3>4. HandsEmpty' /\ StillWaiting'
      BY <2>5, <3>2, <2>0 DEF WorkerSave, HandsEmpty, StillWaiting, TypeOK
    <3>. QED BY <3>3, <3>4
  <2>6. ASSUME NEW c \in Callers, StopCheck(c) \/ StopMark(c)
        PROVE  TypeOK' /\ HandsEmpty' /\ StillWaiting'
    BY <2>6 DEF StopCheck, StopMark, Sent, TypeOK, HandsEmpty, StillWaiting
  <2>7. ASSUME NEW c \in Callers, Cancel(c) PROVE TypeOK' /\ HandsEmpty' /\ StillWaiting'
    BY <2>7, PoolSize DEF Cancel, TypeOK, HandsEmpty, StillWaiting
  <2>8. ASSUME NEW c \in Callers, NEW w \in Workers, Done(c, w)
        PROVE  TypeOK' /\ HandsEmpty' /\ StillWaiting'
    <3>1. got[c] < Cardinality(Workers) /\ got[c] \in Nat /\ got'[c] = got[c] + 1
      BY <2>8, PoolSize DEF Done, StillWaiting, TypeOK
    <3>2. TypeOK'
      BY <2>8, <3>1, PoolSize DEF Done, TypeOK
    <3>3. HandsEmpty'
      <4>1. batch[w] = << >> /\ batch[c] = << >> /\ UNCHANGED batch
        BY <2>8 DEF Done, HandsEmpty
      <4>2. /\ wpc' = [wpc EXCEPT ![w] = "exited"]
            /\ \A d \in Callers \ {c} : cpc'[d] = cpc[d]
        BY <2>8 DEF Done, TypeOK
      <4>3. \A x \in Workers : wpc'[x] \in {"select", "signal", "exited"} => batch'[x] = << >>
        BY <4>1, <4>2 DEF HandsEmpty, TypeOK
      <4>4. \A d \in Callers : cpc'[d] \notin {"drain", "drainSave", "drainLast"} => batch'[d] = << >>
        BY <4>1, <4>2 DEF HandsEmpty
      <4>5. \A d \in Callers : cpc'[d] = "drain" => Len(batch'[d]) < WorkerBufferSize
        <5> TAKE d \in Callers
        <5>1. CASE d = c
          BY <5>1, <4>1, <2>0
        <5>2. CASE d # c
          BY <5>2, <4>1, <4>2 DEF HandsEmpty
        <5>. QED BY <5>1, <5>2
      <4>. QED BY <4>3, <4>4, <4>5 DEF HandsEmpty
    <3>4. StillWaiting'
      BY <2>8, <3>1 DEF Done, StillWaiting, TypeOK
    <3>. QED BY <3>2, <3>3, <3>4
  <2>9. ASSUME NEW c \in Callers, DrainTake(c) PROVE TypeOK' /\ HandsEmpty' /\ StillWaiting'
    <3>1. Take(c) /\ c \in Holders /\ c \notin Workers
      BY <2>9, <2>0 DEF DrainTake
    <3>2. /\ batch' \in [Holders -> Seq(Hits)]
          /\ queue' \in Seq(Hits) /\ Len(queue') <= Capacity
          /\ Len(batch'[c]) = Len(batch[c]) + 1
          /\ \A y \in Holders \ {c} : batch'[y] = batch[y]
      BY <3>1, TakeTyped
    <3>3. Len(batch[c]) < WorkerBufferSize /\ Len(batch[c]) \in Nat
      BY <2>9, <3>1 DEF DrainTake, HandsEmpty, TypeOK
    <3>a. \A x \in Holders : Len(batch'[x]) <= WorkerBufferSize
      <4> TAKE x \in Holders
      <4>1. CASE x = c
        BY <4>1, <3>1, <3>2, <3>3, <2>0
      <4>2. CASE x # c
        BY <4>2, <3>2 DEF TypeOK
      <4>. QED BY <4>1, <4>2
    <3>4. TypeOK'
      BY <2>9, <3>2, <3>a DEF DrainTake, TypeOK
    <3>5. HandsEmpty' /\ StillWaiting'
      BY <2>9, <3>1, <3>2, <3>3, <2>0 DEF DrainTake, HandsEmpty, StillWaiting, TypeOK
    <3>. QED BY <3>4, <3>5
  <2>10. ASSUME NEW c \in Callers, DrainEmpty(c) PROVE TypeOK' /\ HandsEmpty' /\ StillWaiting'
    BY <2>10 DEF DrainEmpty, TypeOK, HandsEmpty, StillWaiting
  <2>11. ASSUME NEW c \in Callers, DrainSave(c) PROVE TypeOK' /\ HandsEmpty' /\ StillWaiting'
    <3>1. SaveHits(c) /\ c \in Holders /\ c \notin Workers
      BY <2>11, <2>0 DEF DrainSave
    <3>2. /\ batch' \in [Holders -> Seq(Hits)] /\ batch' = [batch EXCEPT ![c] = << >>]
          /\ table' \in Seq(Hits) /\ errored' \subseteq Hits
      BY <3>1, SaveTyped
    <3>3. TypeOK'
      BY <2>11, <3>2, <2>0 DEF DrainSave, TypeOK
    <3>4. HandsEmpty' /\ StillWaiting'
      BY <2>11, <3>1, <3>2, <2>0 DEF DrainSave, HandsEmpty, StillWaiting, TypeOK
    <3>. QED BY <3>3, <3>4
  <2>12. ASSUME NEW c \in Callers, Restart(c) PROVE TypeOK' /\ HandsEmpty' /\ StillWaiting'
    BY <2>12, <2>0 DEF Restart, TypeOK, HandsEmpty, StillWaiting
  <2>13. ASSUME Exit PROVE TypeOK' /\ HandsEmpty' /\ StillWaiting'
    BY <2>13 DEF Exit, pcs, TypeOK, HandsEmpty, StillWaiting
  <2>14. CASE UNCHANGED vars
    BY <2>14 DEF vars, pcs, TypeOK, HandsEmpty, StillWaiting
  <2>. QED BY <2>1, <2>2, <2>3, <2>4, <2>5, <2>6, <2>7, <2>8, <2>9, <2>10, <2>11,
              <2>12, <2>13, <2>14 DEF Next, Worker, Caller
<1>. QED BY <1>1, <1>2, PTL DEF Spec

\* The channel never holds more than it has room for, and no slice grows beyond
\* the buffer size it was made with.
THEOREM TypeCorrect == Spec => []TypeOK
<1>1. TypeInv => TypeOK
  BY DEF TypeInv
<1>. QED BY <1>1, TypeInductive, PTL

--------------------------------------------------------------------------------
(* The tracker implements the ledger. *)

\* Only hits that were sent are on their way or stored ...
OnlySent ==
    /\ Range(queue) \subseteq Sent
    /\ Range(table) \subseteq Sent
    /\ \A x \in Holders : Range(batch[x]) \subseteq Sent

\* ... none is twice in the same place ...
NoRepeats ==
    /\ IsInjective(queue)
    /\ IsInjective(table)
    /\ \A x \in Holders : IsInjective(batch[x])

\* ... and none is in two places.
PlacesApart ==
    /\ Range(queue) \cap Range(table) = {}
    /\ \A x \in Holders : /\ Range(batch[x]) \cap Range(queue) = {}
                          /\ Range(batch[x]) \cap Range(table) = {}
    /\ \A x, y \in Holders : x # y => Range(batch[x]) \cap Range(batch[y]) = {}

LedgerInv == OnlySent /\ NoRepeats /\ PlacesApart

\* A hit that is sent is new, and goes to the end of the channel.
LEMMA SendStep ==
    ASSUME TypeOK, LedgerInv, NEW h \in Hits, HitSend(h)
    PROVE  LedgerInv' /\ Ledger!Accept(h)
<1>1. /\ queue \in Seq(Hits) /\ queue' = Append(queue, h)
      /\ UNCHANGED <<batch, table>>
  BY DEF HitSend, TypeOK
<1>2. Sent' = Sent \cup {h} /\ h \notin Sent
  BY DEF HitSend, Sent, TypeOK
<1>3. h \notin Range(queue) /\ h \notin Range(table) /\ \A x \in Holders : h \notin Range(batch[x])
  BY <1>2 DEF LedgerInv, OnlySent
<1>4. Range(queue') = Range(queue) \cup {h} /\ IsInjective(queue')
  BY <1>1, <1>3, AppendFacts DEF LedgerInv, NoRepeats
<1>5. OnlySent'
  BY <1>1, <1>2, <1>4 DEF LedgerInv, OnlySent
<1>6. NoRepeats'
  BY <1>1, <1>4 DEF LedgerInv, NoRepeats
<1>7. PlacesApart'
  BY <1>1, <1>3, <1>4 DEF LedgerInv, PlacesApart
<1>. QED BY <1>1, <1>2, <1>5, <1>6, <1>7 DEF LedgerInv, Ledger!Accept

\* A hit that is taken moves from the channel to one slice.
LEMMA TakeStep ==
    ASSUME TypeOK, LedgerInv, NEW x \in Holders, Take(x), UNCHANGED <<table, Sent>>
    PROVE  LedgerInv'
<1> DEFINE h == Head(queue)
<1>1. /\ queue \in Seq(Hits) /\ queue # << >> /\ batch[x] \in Seq(Hits)
      /\ batch' = [batch EXCEPT ![x] = Append(batch[x], h)]
      /\ queue' = Tail(queue) /\ h \in Hits
  BY DEF Take, TypeOK
<1>2. /\ h \in Range(queue) /\ Range(queue') \subseteq Range(queue)
      /\ IsInjective(queue') /\ h \notin Range(queue')
  BY <1>1, TailFacts DEF LedgerInv, NoRepeats
<1>3. /\ h \in Sent /\ h \notin Range(table)
      /\ \A y \in Holders : h \notin Range(batch[y])
  BY <1>2 DEF LedgerInv, OnlySent, PlacesApart
<1>4. /\ Range(Append(batch[x], h)) = Range(batch[x]) \cup {h}
      /\ IsInjective(Append(batch[x], h))
  BY <1>1, <1>3, AppendFacts DEF LedgerInv, NoRepeats
<1>5. /\ Range(batch'[x]) = Range(batch[x]) \cup {h} /\ IsInjective(batch'[x])
      /\ \A y \in Holders \ {x} : batch'[y] = batch[y]
  BY <1>1, <1>4 DEF TypeOK
<1>6. OnlySent'
  BY <1>2, <1>3, <1>5 DEF LedgerInv, OnlySent
<1>7. NoRepeats'
  BY <1>2, <1>5 DEF LedgerInv, NoRepeats
<1>8. PlacesApart'
  <2>1. Range(queue') \cap Range(table') = {}
    BY <1>2 DEF LedgerInv, PlacesApart
  <2>2. ASSUME NEW y \in Holders
        PROVE  Range(batch'[y]) \cap Range(queue') = {} /\ Range(batch'[y]) \cap Range(table') = {}
    BY <1>2, <1>3, <1>5 DEF LedgerInv, PlacesApart
  <2>3. ASSUME NEW y \in Holders, NEW z \in Holders, y # z
        PROVE  Range(batch'[y]) \cap Range(batch'[z]) = {}
    BY <1>3, <1>5, <2>3 DEF LedgerInv, PlacesApart
  <2>. QED BY <2>1, <2>2, <2>3 DEF PlacesApart
<1>. QED BY <1>6, <1>7, <1>8 DEF LedgerInv

\* A slice that is saved is emptied; its hits, if any, are new rows.
LEMMA SaveStep ==
    ASSUME TypeOK, LedgerInv, NEW x \in Holders, SaveHits(x), UNCHANGED <<queue, Sent>>
    PROVE  LedgerInv' /\ (Ledger!Record \/ table' = table)
<1>1. /\ table \in Seq(Hits) /\ batch[x] \in Seq(Hits)
      /\ batch' = [batch EXCEPT ![x] = << >>]
      /\ table' = table \/ table' = table \o batch[x]
  BY DEF SaveHits, TypeOK
<1>2. /\ batch'[x] = << >> /\ Range(batch'[x]) = {} /\ IsInjective(batch'[x])
      /\ \A y \in Holders \ {x} : batch'[y] = batch[y]
  BY <1>1, EmptyFacts DEF TypeOK
<1>3. /\ Range(table \o batch[x]) = Range(table) \cup Range(batch[x])
      /\ IsInjective(table \o batch[x])
      /\ SubSeq(table \o batch[x], 1, Len(table)) = table
  BY <1>1, ConcatFacts DEF LedgerInv, NoRepeats, PlacesApart
<1>4. Range(table') \subseteq Range(table) \cup Range(batch[x]) /\ IsInjective(table')
  BY <1>1, <1>3 DEF LedgerInv, NoRepeats
<1>5. OnlySent'
  BY <1>2, <1>4 DEF LedgerInv, OnlySent
<1>6. NoRepeats'
  BY <1>2, <1>4 DEF LedgerInv, NoRepeats
<1>7. PlacesApart'
  <2>1. Range(queue') \cap Range(table') = {}
    BY <1>4 DEF LedgerInv, PlacesApart
  <2>2. ASSUME NEW y \in Holders
        PROVE  Range(batch'[y]) \cap Range(queue') = {} /\ Range(batch'[y]) \cap Range(table') = {}
    BY <1>2, <1>4 DEF LedgerInv, PlacesApart
  <2>3. ASSUME NEW y \in Holders, NEW z \in Holders, y # z
        PROVE  Range(batch'[y]) \cap Range(batch'[z]) = {}
    BY <1>2, <2>3 DEF LedgerInv, PlacesApart
  <2>. QED BY <2>1, <2>2, <2>3 DEF PlacesApart
<1>8. CASE table' # table
  <2>1. table' = table \o batch[x] /\ batch[x] # << >>
    BY <1>1, <1>8
  <2>2. Len(table') > Len(table)
    BY <1>1, <2>1
  <2>3. Ledger!Record
    <3>1. SubSeq(table', 1, Len(table)) = table
      BY <1>3, <2>1
    <3>2. Range(table') \subseteq Sent /\ Sent' = Sent
      BY <1>4 DEF LedgerInv, OnlySent
    <3>3. /\ Ledger!Range(table') = Range(table')
          /\ Ledger!IsInjective(table') <=> IsInjective(table')
      BY DEF Range, Ledger!Range, IsInjective, Ledger!IsInjective
    <3>. QED BY <1>4, <2>2, <3>1, <3>2, <3>3 DEF Ledger!Record
  <2>. QED BY <1>5, <1>6, <1>7, <2>3 DEF LedgerInv
<1>. QED BY <1>5, <1>6, <1>7, <1>8 DEF LedgerInv

\* No hit gets two rows and no row is changed: the tracker implements the ledger
\* of accepted hits.
THEOREM LedgerImplemented == Spec => ImplementsLedger
<1>1. Init => Ledger!Init /\ LedgerInv
  BY EmptyFacts DEF Init, Ledger!Init, Sent, LedgerInv, OnlySent, NoRepeats, PlacesApart
<1>2. TypeOK /\ LedgerInv /\ [Next]_vars => LedgerInv' /\ [Ledger!Next]_Ledger!vars
  <2> SUFFICES ASSUME TypeOK, LedgerInv, [Next]_vars
               PROVE  LedgerInv' /\ (Ledger!Next \/ UNCHANGED <<Sent, table>>)
    BY DEF Ledger!vars
  <2>1. ASSUME UNCHANGED <<queue, batch, table, Sent>>
        PROVE  LedgerInv' /\ UNCHANGED <<Sent, table>>
    BY <2>1 DEF LedgerInv, OnlySent, NoRepeats, PlacesApart
  <2>2. ASSUME UNCHANGED hitPc PROVE UNCHANGED Sent
    BY <2>2 DEF Sent
  <2>3. ASSUME NEW h \in Hits, HitCheck(h) PROVE LedgerInv' /\ UNCHANGED <<Sent, table>>
    <3>1. UNCHANGED Sent
      BY <2>3 DEF HitCheck, Sent, TypeOK
    <3>. QED BY <2>1, <2>3, <3>1 DEF HitCheck
  <2>4. ASSUME NEW h \in Hits, HitSend(h) PROVE LedgerInv' /\ Ledger!Next
    BY <2>4, SendStep DEF Ledger!Next
  <2>5. ASSUME NEW x \in Holders, Take(x), UNCHANGED <<hitPc, table>>
        PROVE  LedgerInv' /\ UNCHANGED <<Sent, table>>
    BY <2>2, <2>5, TakeStep
  <2>6. ASSUME NEW x \in Holders, SaveHits(x), UNCHANGED <<hitPc, queue>>
        PROVE  LedgerInv' /\ (Ledger!Next \/ UNCHANGED <<Sent, table>>)
    BY <2>2, <2>6, SaveStep DEF Ledger!Next
  <2>7. ASSUME NEW w \in Workers, Worker(w)
        PROVE  LedgerInv' /\ (Ledger!Next \/ UNCHANGED <<Sent, table>>)
    <3>1. w \in Holders
      BY DEF Holders
    <3>. QED BY <2>1, <2>2, <2>5, <2>6, <2>7, <3>1
         DEF Worker, WorkerTake, WorkerTick, WorkerCancelled, WorkerSave
  <2>8. ASSUME NEW c \in Callers, Restart(c) PROVE LedgerInv' /\ UNCHANGED <<Sent, table>>
    <3>1. UNCHANGED <<queue, table, Sent>>
      BY <2>2, <2>8 DEF Restart
    <3>2. \A x \in Holders : Range(batch'[x]) \subseteq Range(batch[x]) /\ IsInjective(batch'[x])
      BY <2>8, EmptyFacts DEF Restart, LedgerInv, NoRepeats
    <3>3. OnlySent' /\ NoRepeats'
      BY <3>1, <3>2 DEF LedgerInv, OnlySent, NoRepeats
    <3>4. PlacesApart'
      BY <3>1, <3>2 DEF LedgerInv, PlacesApart
    <3>. QED BY <3>1, <3>3, <3>4 DEF LedgerInv
  <2>9. ASSUME NEW c \in Callers, Caller(c)
        PROVE  LedgerInv' /\ (Ledger!Next \/ UNCHANGED <<Sent, table>>)
    <3>1. c \in Holders
      BY DEF Holders
    <3>2. CASE DrainTake(c)
      BY <2>5, <3>1, <3>2 DEF DrainTake
    <3>3. CASE DrainSave(c)
      BY <2>6, <3>1, <3>3 DEF DrainSave
    <3>4. CASE \/ StopCheck(c) \/ StopMark(c) \/ Cancel(c) \/ DrainEmpty(c)
               \/ \E w \in Workers : Done(c, w)
      BY <2>1, <2>2, <3>4 DEF StopCheck, StopMark, Cancel, DrainEmpty, Done
    <3>. QED BY <2>8, <2>9, <3>2, <3>3, <3>4 DEF Caller
  <2>10. ASSUME Exit PROVE LedgerInv' /\ UNCHANGED <<Sent, table>>
    BY <2>1, <2>2, <2>10 DEF Exit, pcs
  <2>11. CASE UNCHANGED vars
    BY <2>1, <2>2, <2>11 DEF vars, pcs
  <2>. QED BY <2>3, <2>4, <2>7, <2>9, <2>10, <2>11 DEF Next
<1>. QED BY <1>1, <1>2, TypeCorrect, PTL DEF Spec, ImplementsLedger, Ledger!Spec

--------------------------------------------------------------------------------
(* The pool and the callers that end it. *)

Exited == {w \in Workers : wpc[w] = "exited"}

\* Callers that a whole pool has met and that started no new one.
Down(c) == cpc[c] \in PastWait \/ (c \in Stoppers /\ cpc[c] = "returned")

\* The receives a caller has counted are of different workers of the current pool,
\* and no worker met two callers.
Meetings(met) ==
    /\ \A c \in Callers : met[c] \subseteq Exited
    /\ \A c, d \in Callers : c # d => met[c] \cap met[d] = {}
    /\ \A c \in Callers : cpc[c] = "wait" => Cardinality(met[c]) = got[c]
    /\ \A c \in Callers : cpc[c] \in {"idle", "mark", "cancel", "skipped"} => met[c] = {}
    /\ \A c \in Callers : Down(c) => met[c] = Workers

PoolInv ==
    /\ \A c \in Callers : cpc[c] = "restart" => c \in Flushers
    /\ \E met \in [Callers -> SUBSET Workers] : Meetings(met)

\* No hit is lost, whether or not the process still runs.
HitsKept == \A h \in Sent : InMemory(h) \/ Settled(h)

\* From the moment a Stop finds the channel empty, none of the hits that were
\* there when stopped was set is in it, and nothing sets it anew.
DrainInv ==
    /\ early \subseteq Sent
    /\ \A c \in Stoppers :
        cpc[c] \in {"cancel", "wait", "returned"} \cup PastWait => stopped
    /\ \A c \in Stoppers :
        cpc[c] \in {"drainLast", "returned"} => Range(queue) \cap early = {}
    /\ StopKeepsEarlierHits

\* What the proofs below use of the types of a caller.
LEMMA PoolTyped ==
    ASSUME TypeOK, NEW c \in Callers
    PROVE  /\ cpc[c] \in CallerStages /\ got[c] \in Nat
           /\ c \notin Workers /\ (c \in Stoppers \/ c \in Flushers)
           /\ ~(c \in Stoppers /\ c \in Flushers)
BY PoolSize, TrackerAssumption DEF TypeOK, Callers

\* Of the callers that a whole pool has met there is one at most.
LEMMA OneIsDown ==
    ASSUME NEW met \in [Callers -> SUBSET Workers], Meetings(met),
           NEW c \in Callers, Down(c)
    PROVE  /\ Exited = Workers
           /\ \A d \in Callers \ {c} : met[d] = {} /\ ~Down(d)
<1>1. met[c] = Workers /\ met[c] \subseteq Exited
  BY DEF Meetings
<1>2. Exited = Workers
  BY <1>1 DEF Exited
<1>3. ASSUME NEW d \in Callers \ {c} PROVE met[d] = {} /\ ~Down(d)
  <2>1. met[d] \cap met[c] = {} /\ met[d] \subseteq Workers
    BY DEF Meetings
  <2>2. met[d] = {}
    BY <1>1, <2>1
  <2>3. Workers # {}
    BY TrackerAssumption
  <2>. QED BY <2>2, <2>3 DEF Meetings
<1>. QED BY <1>2, <1>3

\* A step that lets no worker exit or start anew, and leaves the callers where they
\* are but for those that stay on the same side of their wait, keeps the meetings.
LEMMA MeetingsStay ==
    ASSUME PoolInv, Exited' = Exited, UNCHANGED got,
           \A c \in Callers :
                \/ cpc'[c] = cpc[c]
                \/ {cpc[c], cpc'[c]} \subseteq {"idle", "mark", "cancel", "skipped"}
                \/ Down(c) /\ cpc'[c] \in PastWait \cup {"returned"} /\ cpc'[c] # "restart"
    PROVE  PoolInv'
<1>1. PICK met \in [Callers -> SUBSET Workers] : Meetings(met)
  BY DEF PoolInv
<1>2. \A c \in Callers : cpc'[c] = "wait" => cpc[c] = "wait"
  BY DEF PastWait
<1>3. \A c \in Callers : cpc'[c] \in {"idle", "mark", "cancel", "skipped"}
                            => cpc[c] \in {"idle", "mark", "cancel", "skipped"}
  BY DEF PastWait
<1>4. \A c \in Callers : Down(c)' => Down(c)
  BY DEF PastWait, Down
<1>5. \A c \in Callers : cpc'[c] = "restart" => cpc[c] = "restart"
  BY DEF PastWait
<1>6. Meetings(met)'
  BY <1>1, <1>2, <1>3, <1>4 DEF Meetings
<1>. QED BY <1>5, <1>6 DEF PoolInv

\* A worker that signals is met by one caller, and by the last one the whole pool was.
LEMMA DoneMeets ==
    ASSUME TypeInv, PoolInv, NEW c \in Callers, NEW w \in Workers, Done(c, w)
    PROVE  PoolInv'
<1>0. TypeOK /\ StillWaiting
  BY DEF TypeInv
<1>1. PICK met \in [Callers -> SUBSET Workers] : Meetings(met)
  BY DEF PoolInv
<1>2. /\ wpc[w] = "signal" /\ cpc[c] = "wait"
      /\ got' = [got EXCEPT ![c] = got[c] + 1]
      /\ wpc' = [wpc EXCEPT ![w] = "exited"]
      /\ cpc' = IF got'[c] < Cardinality(Workers) THEN cpc
                ELSE [cpc EXCEPT ![c] = IF c \in Stoppers THEN "drain" ELSE "restart"]
  BY DEF Done
<1>3. got'[c] = got[c] + 1 /\ \A d \in Callers \ {c} : got'[d] = got[d] /\ cpc'[d] = cpc[d]
  BY <1>0, <1>2 DEF TypeOK
<1>4. Exited' = Exited \cup {w} /\ w \notin Exited
  BY <1>0, <1>2 DEF TypeOK, Exited
<1> DEFINE new == [met EXCEPT ![c] = met[c] \cup {w}]
<1>5. /\ new \in [Callers -> SUBSET Workers] /\ new[c] = met[c] \cup {w}
      /\ \A d \in Callers \ {c} : new[d] = met[d]
  OBVIOUS
<1>6. \A d \in Callers : w \notin met[d] /\ met[d] \subseteq Exited
  BY <1>1, <1>4 DEF Meetings
<1>7. IsFiniteSet(Workers) /\ IsFiniteSet(met[c]) /\ Cardinality(met[c]) = got[c]
  BY <1>1, <1>2, FS_Subset, TrackerAssumption DEF Meetings
<1>8. Cardinality(new[c]) = got'[c]
  <2>1. Cardinality(met[c] \cup {w}) = Cardinality(met[c]) + 1
    BY <1>6, <1>7, FS_AddElement
  <2>. QED BY <1>3, <1>5, <1>7, <2>1
<1>9. cpc'[c] # "wait" => new[c] = Workers
  <2> SUFFICES ASSUME cpc'[c] # "wait" PROVE new[c] = Workers
    OBVIOUS
  <2>1. ~(got'[c] < Cardinality(Workers))
    BY <1>2
  <2>2. got[c] < Cardinality(Workers) /\ got[c] \in Nat /\ Cardinality(Workers) \in Nat
    BY <1>0, <1>2, PoolSize, PoolTyped DEF StillWaiting
  <2>3. Cardinality(new[c]) = Cardinality(Workers)
    BY <1>3, <1>8, <2>1, <2>2
  <2>4. new[c] \in SUBSET Workers
    BY <1>5
  <2> HIDE DEF new
  <2>. QED BY <1>7, <2>3, <2>4, FS_Subset
<1>10. /\ cpc'[c] \in {"wait", "drain", "restart"}
       /\ cpc'[c] = "restart" => c \in Flushers
  BY <1>0, <1>2, PoolTyped DEF TypeOK
<1> HIDE DEF new
<1>11. Meetings(new)'
  <2>1. \A d \in Callers : new[d] \subseteq Exited'
    BY <1>4, <1>5, <1>6
  <2>2. \A d, e \in Callers : d # e => new[d] \cap new[e] = {}
    BY <1>1, <1>5, <1>6 DEF Meetings
  <2>3. \A d \in Callers : cpc'[d] = "wait" => Cardinality(new[d]) = got'[d]
    BY <1>1, <1>3, <1>5, <1>8 DEF Meetings
  <2>4. \A d \in Callers : cpc'[d] \in {"idle", "mark", "cancel", "skipped"} => new[d] = {}
    BY <1>1, <1>3, <1>5, <1>10 DEF Meetings
  <2>5. \A d \in Callers : Down(d)' => new[d] = Workers
    <3> SUFFICES ASSUME NEW d \in Callers, Down(d)' PROVE new[d] = Workers
      OBVIOUS
    <3>1. CASE d = c
      BY <1>9, <3>1 DEF Down, PastWait
    <3>2. CASE d # c
      BY <1>1, <1>3, <1>5, <3>2 DEF Meetings, Down
    <3>. QED BY <3>1, <3>2
  <2>. QED BY <2>1, <2>2, <2>3, <2>4, <2>5 DEF Meetings
<1>12. \A d \in Callers : cpc'[d] = "restart" => d \in Flushers
  BY <1>3, <1>10 DEF PoolInv
<1>. QED BY <1>5, <1>11, <1>12 DEF PoolInv

\* A caller that begins to wait has met nobody yet.
LEMMA CancelMeets ==
    ASSUME TypeInv, PoolInv, NEW c \in Callers, Cancel(c)
    PROVE  PoolInv'
<1>0. TypeOK
  BY DEF TypeInv
<1>1. PICK met \in [Callers -> SUBSET Workers] : Meetings(met)
  BY DEF PoolInv
<1>2. /\ cpc[c] \in {"idle", "cancel"} /\ cpc'[c] = "wait" /\ got'[c] = 0
      /\ \A d \in Callers \ {c} : cpc'[d] = cpc[d] /\ got'[d] = got[d]
      /\ UNCHANGED Exited
  BY <1>0 DEF Cancel, TypeOK, Exited
<1>3. met[c] = {} /\ Cardinality(met[c]) = 0
  BY <1>1, <1>2, FS_EmptySet DEF Meetings
<1>4. ~Down(c)'
  BY <1>2 DEF Down, PastWait
<1>5. Meetings(met)'
  BY <1>1, <1>2, <1>3, <1>4 DEF Meetings, Down
<1>. QED BY <1>2, <1>5 DEF PoolInv

\* A caller that starts a new pool leaves nobody counting workers of the old one.
LEMMA RestartMeets ==
    ASSUME TypeInv, PoolInv, NEW c \in Callers, Restart(c)
    PROVE  PoolInv'
<1>0. TypeOK
  BY DEF TypeInv
<1>1. PICK met \in [Callers -> SUBSET Workers] : Meetings(met)
  BY DEF PoolInv
<1>2. /\ cpc[c] = "restart" /\ cpc'[c] = "returned" /\ UNCHANGED got
      /\ \A d \in Callers \ {c} : cpc'[d] = cpc[d]
      /\ Exited' = {}
  BY <1>0 DEF Restart, TypeOK, Exited
<1>3. Down(c) /\ c \in Flushers
  BY <1>2 DEF Down, PastWait, PoolInv
<1>4. \A d \in Callers \ {c} : met[d] = {} /\ ~Down(d)
  BY <1>1, <1>3, OneIsDown
<1>5. ~Down(c)' /\ \A d \in Callers \ {c} : ~Down(d)'
  BY <1>0, <1>2, <1>3, <1>4, PoolTyped DEF Down, PastWait
<1> DEFINE new == [d \in Callers |-> {}]
<1>6. new \in [Callers -> SUBSET Workers]
  OBVIOUS
<1>7. \A d \in Callers : cpc'[d] = "wait" => Cardinality(new[d]) = got'[d]
  BY <1>1, <1>2, <1>4, FS_EmptySet DEF Meetings
<1>8. Meetings(new)'
  BY <1>5, <1>7 DEF Meetings
<1>9. \A d \in Callers : cpc'[d] = "restart" => d \in Flushers
  BY <1>2 DEF PoolInv
<1> HIDE DEF new
<1>. QED BY <1>6, <1>8, <1>9 DEF PoolInv

LEMMA PoolInductive == Spec => []PoolInv
<1>1. Init => PoolInv
  <2> SUFFICES ASSUME Init PROVE PoolInv
    OBVIOUS
  <2> DEFINE new == [d \in Callers |-> {}]
  <2>1. new \in [Callers -> SUBSET Workers]
    OBVIOUS
  <2>2. \A d \in Callers : cpc[d] = "idle"
    BY DEF Init
  <2>3. Meetings(new)
    BY <2>2 DEF Meetings, Down, PastWait
  <2> HIDE DEF new
  <2>. QED BY <2>1, <2>2, <2>3 DEF PoolInv
<1>2. TypeInv /\ PoolInv /\ [Next]_vars => PoolInv'
  <2> SUFFICES ASSUME TypeInv, PoolInv, [Next]_vars PROVE PoolInv'
    OBVIOUS
  <2>0. TypeOK
    BY DEF TypeInv
  <2>1. ASSUME UNCHANGED <<wpc, cpc, got>> PROVE PoolInv'
    BY <2>1, MeetingsStay DEF Exited
  <2>2. ASSUME NEW h \in Hits, HitCheck(h) \/ HitSend(h) PROVE PoolInv'
    BY <2>1, <2>2 DEF HitCheck, HitSend
  <2>3. ASSUME NEW w \in Workers, Worker(w) PROVE PoolInv'
    <3>1. UNCHANGED <<cpc, got>>
      BY <2>3 DEF Worker, WorkerTake, WorkerTick, WorkerCancelled, WorkerSave
    <3>2. /\ wpc[w] # "exited" /\ wpc'[w] # "exited"
          /\ \A v \in Workers \ {w} : wpc'[v] = wpc[v]
      BY <2>0, <2>3 DEF Worker, WorkerTake, WorkerTick, WorkerCancelled, WorkerSave, TypeOK
    <3>3. UNCHANGED Exited
      BY <3>2 DEF Exited
    <3>. QED BY <3>1, <3>3, MeetingsStay
  <2>4. ASSUME NEW c \in Callers, StopCheck(c) \/ StopMark(c) PROVE PoolInv'
    <3>1. UNCHANGED <<wpc, got, Exited>>
      BY <2>4 DEF StopCheck, StopMark, Exited
    <3>2. /\ {cpc[c], cpc'[c]} \subseteq {"idle", "mark", "cancel", "skipped"}
          /\ \A d \in Callers \ {c} : cpc'[d] = cpc[d]
      BY <2>0, <2>4 DEF StopCheck, StopMark, TypeOK
    <3>. QED BY <3>1, <3>2, MeetingsStay
  <2>5. ASSUME NEW c \in Callers, DrainTake(c) \/ DrainEmpty(c) \/ DrainSave(c) PROVE PoolInv'
    <3>1. UNCHANGED <<wpc, got, Exited>>
      BY <2>5 DEF DrainTake, DrainEmpty, DrainSave, Exited
    <3>2. /\ cpc[c] \in PastWait /\ cpc'[c] \in PastWait \cup {"returned"} /\ cpc'[c] # "restart"
          /\ \A d \in Callers \ {c} : cpc'[d] = cpc[d]
      BY <2>0, <2>5 DEF DrainTake, DrainEmpty, DrainSave, PastWait, TypeOK
    <3>3. Down(c)
      BY <3>2 DEF Down
    <3>. QED BY <3>1, <3>2, <3>3, MeetingsStay
  <2>6. ASSUME NEW c \in Callers, Caller(c) PROVE PoolInv'
    BY <2>4, <2>5, <2>6, DoneMeets, CancelMeets, RestartMeets DEF Caller
  <2>7. CASE Exit \/ UNCHANGED vars
    BY <2>1, <2>7 DEF Exit, vars, pcs
  <2>. QED BY <2>2, <2>3, <2>6, <2>7 DEF Next
<1>. QED BY <1>1, <1>2, TypeInductive, PTL DEF Spec

\* A caller that a whole pool has met is the only one, and no worker runs: every
\* signal is counted by one caller, however many wait for it.
THEOREM CallersTakeTurns == Spec => []PoolIsDown
<1>1. PoolInv => PoolIsDown
  <2> SUFFICES ASSUME PoolInv, NEW c \in Callers, Down(c)
               PROVE  /\ \A w \in Workers : wpc[w] = "exited"
                      /\ \A d \in Callers \ {c} : cpc[d] \notin PastWait
    BY DEF PoolIsDown, Down
  <2>1. PICK met \in [Callers -> SUBSET Workers] : Meetings(met)
    BY DEF PoolInv
  <2>. QED BY <2>1, OneIsDown DEF Exited, Down
<1>. QED BY <1>1, PoolInductive, PTL

--------------------------------------------------------------------------------
(* The way of a hit. *)

\* A hit the store was given keeps its row or its logged error, and those of a
\* slice that is saved get one.
LEMMA SaveSettles ==
    ASSUME TypeOK, NEW x \in Holders, SaveHits(x), NEW h,
           Settled(h) \/ h \in Range(batch[x])
    PROVE  Settled(h)'
<1>1. table \in Seq(Hits) /\ batch[x] \in Seq(Hits)
  BY DEF TypeOK
<1>2. Range(table \o batch[x]) = Range(table) \cup Range(batch[x])
  BY <1>1, ConcatFacts
<1>3. CASE table' = table \o batch[x] /\ UNCHANGED errored
  BY <1>2, <1>3 DEF Settled
<1>4. CASE table' \in {table, table \o batch[x]} /\ errored' = errored \cup Range(batch[x])
  BY <1>2, <1>4 DEF Settled
<1>. QED BY <1>3, <1>4 DEF SaveHits

\* A hit that is taken is in the slice of its taker, the others stay where they are.
LEMMA TakeMoves ==
    ASSUME TypeOK, NEW x \in Holders, Take(x)
    PROVE  /\ Range(queue) \subseteq Range(queue') \cup Range(batch'[x])
           /\ Range(queue') \subseteq Range(queue)
           /\ \A y \in Holders : Range(batch[y]) \subseteq Range(batch'[y])
<1>1. /\ queue \in Seq(Hits) /\ queue # << >> /\ batch[x] \in Seq(Hits)
      /\ batch' = [batch EXCEPT ![x] = Append(batch[x], Head(queue))]
      /\ queue' = Tail(queue) /\ Head(queue) \in Hits
  BY DEF Take, TypeOK
<1>2. /\ Range(queue) = {Head(queue)} \cup Range(Tail(queue))
      /\ Range(Append(batch[x], Head(queue))) = Range(batch[x]) \cup {Head(queue)}
  BY <1>1, TailFacts, AppendFacts
<1>3. batch'[x] = Append(batch[x], Head(queue)) /\ \A y \in Holders \ {x} : batch'[y] = batch[y]
  BY <1>1 DEF TypeOK
<1>. QED BY <1>1, <1>2, <1>3

\* Where no hit moves, none is lost if every goroutine that holds one goes on.
LEMMA HitsStay ==
    ASSUME HitsKept, UNCHANGED <<Sent, queue, table, errored>>,
           \A x \in Holders : Running(x) /\ batch[x] # << >> => Running(x)' /\ batch'[x] = batch[x]
    PROVE  HitsKept'
BY EmptyFacts DEF HitsKept, InMemory, Settled

\* A hit that a running goroutine takes is not lost, ...
LEMMA TakeKeeps ==
    ASSUME TypeOK, HitsKept, UNCHANGED <<Sent, table, errored>>,
           NEW x \in Holders, Take(x), Running(x)',
           \A y \in Holders \ {x} : Running(y) => Running(y)'
    PROVE  HitsKept'
BY TakeMoves DEF HitsKept, InMemory, Settled

\* ... nor is one of a slice that is saved.
LEMMA SaveKeeps ==
    ASSUME TypeOK, HitsKept, UNCHANGED <<Sent, queue>>,
           NEW x \in Holders, SaveHits(x),
           \A y \in Holders \ {x} : Running(y) => Running(y)'
    PROVE  HitsKept'
<1> SUFFICES ASSUME NEW h \in Sent PROVE InMemory(h)' \/ Settled(h)'
  BY DEF HitsKept
<1>1. InMemory(h) \/ Settled(h)
  BY DEF HitsKept
<1>2. \A y \in Holders \ {x} : batch'[y] = batch[y]
  BY SaveTyped DEF TypeOK
<1>3. CASE Settled(h) \/ h \in Range(batch[x])
  BY <1>3, SaveSettles
<1>4. CASE h \in Range(queue)
  BY <1>4 DEF InMemory
<1>5. CASE \E y \in Holders \ {x} : Running(y) /\ h \in Range(batch[y])
  BY <1>2, <1>5 DEF InMemory
<1>. QED BY <1>1, <1>3, <1>4, <1>5 DEF InMemory

LEMMA HitsKeptInductive == Spec => []HitsKept
<1>1. Init => HitsKept
  BY DEF Init, HitsKept, Sent
<1>2. TypeInv /\ PoolInv /\ HitsKept /\ [Next]_vars => HitsKept'
  <2> SUFFICES ASSUME TypeInv, PoolInv, HitsKept, [Next]_vars PROVE HitsKept'
    OBVIOUS
  <2>0. TypeOK /\ HandsEmpty
    BY DEF TypeInv
  <2>a. ASSUME UNCHANGED hitPc PROVE UNCHANGED Sent
    BY <2>a DEF Sent
  <2>b. /\ \A w \in Workers : w \in Holders /\ w \notin Callers
        /\ \A c \in Callers : c \in Holders /\ c \notin Workers
    BY TrackerAssumption DEF Holders
  <2>1. ASSUME NEW h \in Hits, HitCheck(h) PROVE HitsKept'
    <3>1. UNCHANGED Sent
      BY <2>0, <2>1 DEF HitCheck, Sent, TypeOK
    <3>. QED BY <2>1, <3>1, HitsStay DEF HitCheck, Running
  <2>2. ASSUME NEW h \in Hits, HitSend(h) PROVE HitsKept'
    <3>1. Sent' = Sent \cup {h}
      BY <2>0, <2>2 DEF HitSend, Sent, TypeOK
    <3>2. Range(queue') = Range(queue) \cup {h}
      BY <2>0, <2>2, AppendFacts DEF HitSend, TypeOK
    <3>3. UNCHANGED <<batch, table, errored>> /\ \A x \in Holders : Running(x)' <=> Running(x)
      BY <2>2 DEF HitSend, Running
    <3>. QED BY <3>1, <3>2, <3>3 DEF HitsKept, InMemory, Settled
  <2>3. ASSUME NEW w \in Workers, Worker(w) PROVE HitsKept'
    <3>1. /\ UNCHANGED <<cpc, Sent>> /\ wpc[w] # "exited" /\ wpc'[w] # "exited"
          /\ \A v \in Workers \ {w} : wpc'[v] = wpc[v]
      BY <2>0, <2>a, <2>3
      DEF Worker, WorkerTake, WorkerTick, WorkerCancelled, WorkerSave, TypeOK
    <3>2. \A x \in Holders : Running(x)' <=> Running(x)
      BY <3>1 DEF Running
    <3>3. Running(w)'
      BY <3>1 DEF Running
    <3>4. CASE WorkerTake(w)
      BY <2>0, <2>b, <3>1, <3>2, <3>3, <3>4, TakeKeeps DEF WorkerTake
    <3>5. CASE WorkerTick(w) \/ WorkerCancelled(w)
      BY <3>1, <3>2, <3>5, HitsStay DEF WorkerTick, WorkerCancelled
    <3>6. CASE WorkerSave(w)
      BY <2>0, <2>b, <3>1, <3>2, <3>6, SaveKeeps DEF WorkerSave
    <3>. QED BY <2>3, <3>4, <3>5, <3>6 DEF Worker
  <2>4. ASSUME NEW c \in Callers,
               StopCheck(c) \/ StopMark(c) \/ Cancel(c) \/ DrainEmpty(c) \/ DrainTake(c)
        PROVE  UNCHANGED Sent /\ \A x \in Holders : Running(x) => Running(x)'
    <3>1. /\ UNCHANGED wpc /\ cpc'[c] # "returned"
          /\ \A d \in Callers \ {c} : cpc'[d] = cpc[d]
      BY <2>0, <2>4 DEF StopCheck, StopMark, Cancel, DrainEmpty, DrainTake, TypeOK
    <3>2. \A x \in Holders : Running(x) => Running(x)'
      BY <3>1 DEF Running, Holders
    <3>. QED BY <2>a, <2>4, <3>2 DEF StopCheck, StopMark, Cancel, DrainEmpty, DrainTake
  <2>5. ASSUME NEW c \in Callers, StopCheck(c) \/ StopMark(c) \/ Cancel(c) \/ DrainEmpty(c)
        PROVE  HitsKept'
    BY <2>4, <2>5, HitsStay DEF StopCheck, StopMark, Cancel, DrainEmpty
  <2>6. ASSUME NEW c \in Callers, DrainTake(c) PROVE HitsKept'
    <3>1. Running(c)
      BY <2>b, <2>6 DEF DrainTake, Running
    <3>. QED BY <2>0, <2>b, <2>4, <2>6, <3>1, TakeKeeps DEF DrainTake
  <2>7. ASSUME NEW c \in Callers, DrainSave(c) PROVE HitsKept'
    <3>1. UNCHANGED <<wpc, Sent>> /\ \A d \in Callers \ {c} : cpc'[d] = cpc[d]
      BY <2>0, <2>a, <2>7 DEF DrainSave, TypeOK
    <3>2. \A y \in Holders \ {c} : Running(y) => Running(y)'
      BY <3>1 DEF Running, Holders
    <3>. QED BY <2>0, <2>b, <2>7, <3>1, <3>2, SaveKeeps DEF DrainSave
  <2>8. ASSUME NEW c \in Callers, NEW w \in Workers, Done(c, w) PROVE HitsKept'
    <3>1. /\ batch[w] = << >> /\ batch[c] = << >> /\ UNCHANGED <<batch, queue, table, errored, Sent>>
      BY <2>0, <2>a, <2>8 DEF Done, HandsEmpty
    <3>2. /\ \A v \in Workers \ {w} : wpc'[v] = wpc[v]
          /\ \A d \in Callers \ {c} : cpc'[d] = cpc[d]
      BY <2>0, <2>8 DEF Done, TypeOK
    <3>. QED BY <3>1, <3>2, HitsStay DEF Running, Holders
  <2>9. ASSUME NEW c \in Callers, Restart(c) PROVE HitsKept'
    <3>1. Down(c) /\ batch[c] = << >>
      BY <2>0, <2>9 DEF Restart, Down, PastWait, HandsEmpty
    <3>2. Exited = Workers
      BY <3>1, OneIsDown DEF PoolInv
    <3>3. \A w \in Workers : ~Running(w)
      BY <3>2 DEF Running, Exited
    <3>4. \A d \in Callers \ {c} : cpc'[d] = cpc[d] /\ batch'[d] = batch[d]
      BY <2>0, <2>b, <2>9 DEF Restart, TypeOK
    <3>5. UNCHANGED <<queue, table, errored, Sent>>
      BY <2>9, <2>a DEF Restart
    <3>6. \A d \in Callers \ {c} : Running(d) => Running(d)'
      BY <2>b, <3>4 DEF Running
    <3>. QED BY <3>1, <3>3, <3>4, <3>5, <3>6, HitsStay DEF Holders
  <2>10. CASE Exit \/ UNCHANGED vars
    BY <2>10, <2>a, HitsStay DEF Exit, vars, pcs, Running
  <2>. QED BY <2>1, <2>2, <2>3, <2>5, <2>6, <2>7, <2>8, <2>9, <2>10 DEF Next, Caller
<1>. QED BY <1>1, <1>2, TypeInductive, PoolInductive, PTL DEF Spec

\* No reset of a slice, restart of the pool or end of a goroutine loses a hit that
\* was sent, as long as the process runs.
THEOREM NoHitIsLost == Spec => []NothingVanishes
<1>1. HitsKept => NothingVanishes
  BY DEF HitsKept, NothingVanishes
<1>. QED BY <1>1, HitsKeptInductive, PTL

--------------------------------------------------------------------------------
(* Stop. *)

\* Rows and logged errors are never taken back.
LEMMA SettledStays ==
    ASSUME TypeOK, [Next]_vars, NEW h, Settled(h)
    PROVE  Settled(h)'
<1>1. CASE UNCHANGED <<table, errored>>
  BY <1>1 DEF Settled
<1>2. ASSUME NEW x \in Holders, SaveHits(x) PROVE Settled(h)'
  BY <1>2, SaveSettles
<1>3. CASE \E w \in Workers : WorkerSave(w)
  BY <1>2, <1>3 DEF WorkerSave, Holders
<1>4. CASE \E c \in Callers : DrainSave(c)
  BY <1>2, <1>4 DEF DrainSave, Holders
<1>. QED BY <1>1, <1>3, <1>4
     DEF Next, Worker, Caller, HitCheck, HitSend, WorkerTake, WorkerTick, WorkerCancelled,
         StopCheck, StopMark, Cancel, Done, DrainTake, DrainEmpty, Restart, Exit, vars, pcs

\* A step that is not a StopMark, puts no early hit into the channel and makes no
\* Stop return or find the channel empty keeps the invariant of Stop.
LEMMA DrainStays ==
    ASSUME TypeOK, DrainInv, [Next]_vars, UNCHANGED <<stopped, early>>,
           Sent \subseteq Sent', Range(queue') \cap early \subseteq Range(queue) \cap early,
           \A c \in Stoppers :
                \/ cpc'[c] \in {"idle", "mark", "skipped"}
                \/ /\ cpc[c] \in {"cancel", "wait", "returned"} \cup PastWait
                   /\ cpc'[c] \in {"drainLast", "returned"} => cpc'[c] = cpc[c]
    PROVE  DrainInv'
<1>1. early' \subseteq Sent'
  BY DEF DrainInv
<1>2. \A c \in Stoppers :
        cpc'[c] \in {"cancel", "wait", "returned"} \cup PastWait => stopped'
  BY DEF DrainInv, PastWait
<1>3. \A c \in Stoppers : cpc'[c] \in {"drainLast", "returned"} => cpc[c] = cpc'[c]
  BY DEF PastWait
<1>4. \A c \in Stoppers :
        cpc'[c] \in {"drainLast", "returned"} => Range(queue') \cap early' = {}
  BY <1>3 DEF DrainInv
<1>5. StopKeepsEarlierHits'
  BY <1>3, SettledStays DEF DrainInv, StopKeepsEarlierHits
<1>. QED BY <1>1, <1>2, <1>4, <1>5 DEF DrainInv

\* A Stop returns when it has saved its last slice; every hit it owes was in that
\* slice or is settled, for it found the channel empty and no one else runs.
LEMMA StopReturns ==
    ASSUME TypeInv, PoolInv, HitsKept, DrainInv,
           NEW c \in Callers, DrainSave(c), cpc[c] = "drainLast", c \in Stoppers, NEW h \in early
    PROVE  Settled(h)'
<1>0. TypeOK /\ HandsEmpty /\ SaveHits(c) /\ c \in Holders
  BY DEF TypeInv, DrainSave, Holders
<1>1. h \in Sent /\ h \notin Range(queue)
  BY DEF DrainInv
<1>2. Down(c)
  BY DEF Down, PastWait
<1>3. Exited = Workers /\ \A d \in Callers \ {c} : ~Down(d)
  BY <1>2, OneIsDown DEF PoolInv
<1>4. ASSUME NEW x \in Holders, Running(x), h \in Range(batch[x]) PROVE x = c
  <2>1. x \notin Workers
    BY <1>3, <1>4 DEF Running, Exited
  <2>2. x \in Callers /\ batch[x] # << >>
    BY <1>4, <2>1, EmptyFacts DEF Holders
  <2>3. cpc[x] \in {"drain", "drainSave", "drainLast"}
    BY <1>0, <2>2 DEF HandsEmpty
  <2>. QED BY <1>3, <2>2, <2>3 DEF Down, PastWait
<1>5. Settled(h) \/ h \in Range(batch[c])
  BY <1>1, <1>4 DEF HitsKept, InMemory
<1>. QED BY <1>0, <1>5, SaveSettles

LEMMA DrainInductive == Spec => []DrainInv
<1>1. Init => DrainInv
  <2> SUFFICES ASSUME Init PROVE DrainInv
    OBVIOUS
  <2>1. \A c \in Stoppers : cpc[c] = "idle"
    BY DEF Init, Callers
  <2>. QED BY <2>1 DEF Init, DrainInv, PastWait, StopKeepsEarlierHits
<1>2. TypeInv /\ PoolInv /\ HitsKept /\ DrainInv /\ [Next]_vars => DrainInv'
  <2> SUFFICES ASSUME TypeInv, PoolInv, HitsKept, DrainInv, [Next]_vars PROVE DrainInv'
    OBVIOUS
  <2>0. TypeOK /\ Stoppers \subseteq Callers
    BY DEF TypeInv, Callers
  <2>a. ASSUME UNCHANGED hitPc PROVE UNCHANGED Sent
    BY <2>a DEF Sent
  <2>b. \A c \in Stoppers : cpc[c] \in CallerStages
    BY <2>0 DEF TypeOK
  <2>c. ASSUME UNCHANGED <<cpc, stopped, early>>, Sent \subseteq Sent',
               Range(queue') \cap early \subseteq Range(queue)
        PROVE  DrainInv'
    BY <2>0, <2>b, <2>c, DrainStays DEF CallerStages, PastWait
  <2>1. ASSUME NEW h \in Hits, HitCheck(h) PROVE DrainInv'
    <3>1. Sent' = Sent
      BY <2>0, <2>1 DEF HitCheck, Sent, TypeOK
    <3>. QED BY <2>1, <2>c, <3>1 DEF HitCheck
  <2>2. ASSUME NEW h \in Hits, HitSend(h) PROVE DrainInv'
    <3>1. Sent' = Sent \cup {h} /\ h \notin Sent
      BY <2>0, <2>2 DEF HitSend, Sent, TypeOK
    <3>2. Range(queue') = Range(queue) \cup {h}
      BY <2>0, <2>2, AppendFacts DEF HitSend, TypeOK
    <3>3. h \notin early
      BY <3>1 DEF DrainInv
    <3>. QED BY <2>2, <2>c, <3>1, <3>2, <3>3 DEF HitSend
  <2>3. ASSUME NEW w \in Workers, Worker(w) PROVE DrainInv'
    <3>1. UNCHANGED <<cpc, stopped, early, hitPc>>
      BY <2>3 DEF Worker, WorkerTake, WorkerTick, WorkerCancelled, WorkerSave
    <3>2. Range(queue') \subseteq Range(queue)
      BY <2>0, <2>3, TakeMoves
      DEF Worker, WorkerTake, WorkerTick, WorkerCancelled, WorkerSave, Holders
    <3>. QED BY <2>a, <2>c, <3>1, <3>2
  <2>4. ASSUME NEW c \in Callers, StopCheck(c) PROVE DrainInv'
    <3>1. /\ UNCHANGED <<queue, stopped, early, hitPc>>
          /\ cpc'[c] \in {"mark", "skipped"}
          /\ \A d \in Callers \ {c} : cpc'[d] = cpc[d]
      BY <2>0, <2>4 DEF StopCheck, TypeOK
    <3>. QED BY <2>0, <2>a, <2>b, <3>1, DrainStays DEF CallerStages, PastWait
  <2>5. ASSUME NEW c \in Callers, StopMark(c) PROVE DrainInv'
    <3>1. /\ cpc'[c] = "cancel" /\ stopped' = TRUE /\ UNCHANGED <<queue, table, errored, Sent>>
          /\ \A d \in Callers \ {c} : cpc'[d] = cpc[d]
          /\ early' = IF stopped THEN early ELSE Sent
      BY <2>0, <2>5, <2>a DEF StopMark, TypeOK
    <3>2. early' \subseteq Sent'
      BY <3>1 DEF DrainInv
    <3>3. \A d \in Stoppers : cpc'[d] \in {"drainLast", "returned"} => cpc[d] = cpc'[d] /\ stopped
      BY <2>0, <3>1 DEF DrainInv, PastWait
    <3>4. \A d \in Stoppers :
            cpc'[d] \in {"drainLast", "returned"} => Range(queue') \cap early' = {}
      BY <3>1, <3>3 DEF DrainInv
    <3>5. StopKeepsEarlierHits'
      BY <3>1, <3>3 DEF DrainInv, StopKeepsEarlierHits, Settled
    <3>. QED BY <3>1, <3>2, <3>4, <3>5 DEF DrainInv
  <2>6. ASSUME NEW c \in Callers, Cancel(c) PROVE DrainInv'
    <3>1. /\ UNCHANGED <<queue, stopped, early, hitPc>>
          /\ cpc'[c] = "wait" /\ (c \in Stoppers => cpc[c] = "cancel")
          /\ \A d \in Callers \ {c} : cpc'[d] = cpc[d]
      BY <2>0, <2>6, TrackerAssumption DEF Cancel, TypeOK
    <3>. QED BY <2>0, <2>a, <2>b, <3>1, DrainStays DEF CallerStages, PastWait
  <2>7. ASSUME NEW c \in Callers, NEW w \in Workers, Done(c, w) PROVE DrainInv'
    <3>1. /\ UNCHANGED <<queue, stopped, early, hitPc>>
          /\ cpc[c] = "wait" /\ cpc'[c] \in {"wait", "drain", "restart"}
          /\ \A d \in Callers \ {c} : cpc'[d] = cpc[d]
      BY <2>0, <2>7 DEF Done, TypeOK
    <3>. QED BY <2>0, <2>a, <2>b, <3>1, DrainStays DEF CallerStages, PastWait
  <2>8. ASSUME NEW c \in Callers, DrainTake(c) PROVE DrainInv'
    <3>1. /\ UNCHANGED <<stopped, early, hitPc>>
          /\ cpc[c] = "drain" /\ cpc'[c] \in {"drain", "drainSave"}
          /\ \A d \in Callers \ {c} : cpc'[d] = cpc[d]
      BY <2>0, <2>8 DEF DrainTake, TypeOK
    <3>2. Range(queue') \subseteq Range(queue)
      BY <2>0, <2>8, TakeMoves DEF DrainTake, Holders
    <3>. QED BY <2>0, <2>a, <2>b, <3>1, <3>2, DrainStays DEF CallerStages, PastWait
  <2>9. ASSUME NEW c \in Callers, DrainEmpty(c) PROVE DrainInv'
    <3>1. /\ UNCHANGED <<queue, stopped, early, hitPc, table, errored>> /\ queue = << >>
          /\ cpc[c] = "drain" /\ cpc'[c] = "drainLast"
          /\ \A d \in Callers \ {c} : cpc'[d] = cpc[d]
      BY <2>0, <2>9 DEF DrainEmpty, TypeOK
    <3>2. Range(queue') \cap early' = {}
      BY <3>1, EmptyFacts
    <3>3. StopKeepsEarlierHits'
      BY <2>0, <3>1 DEF DrainInv, StopKeepsEarlierHits, Settled
    <3>. QED BY <2>0, <2>a, <3>1, <3>2, <3>3 DEF DrainInv, PastWait
  <2>10. ASSUME NEW c \in Callers, DrainSave(c) PROVE DrainInv'
    <3>1. /\ UNCHANGED <<queue, stopped, early, hitPc>>
          /\ cpc[c] \in {"drainSave", "drainLast"}
          /\ cpc'[c] = IF cpc[c] = "drainSave" THEN "drain" ELSE "returned"
          /\ \A d \in Callers \ {c} : cpc'[d] = cpc[d]
      BY <2>0, <2>10 DEF DrainSave, TypeOK
    <3>2. CASE cpc[c] = "drainSave" \/ c \notin Stoppers
      BY <2>0, <2>a, <2>b, <3>1, <3>2, DrainStays DEF CallerStages, PastWait
    <3>3. CASE cpc[c] = "drainLast" /\ c \in Stoppers
      <4>1. StopKeepsEarlierHits'
        BY <2>10, <3>1, <3>3, StopReturns DEF StopKeepsEarlierHits
      <4>. QED BY <2>0, <2>a, <3>1, <3>3, <4>1 DEF DrainInv, PastWait
    <3>. QED BY <3>1, <3>2, <3>3
  <2>11. ASSUME NEW c \in Callers, Restart(c) PROVE DrainInv'
    <3>1. /\ UNCHANGED <<queue, stopped, early, hitPc>> /\ c \notin Stoppers
          /\ \A d \in Callers \ {c} : cpc'[d] = cpc[d]
      BY <2>0, <2>11, TrackerAssumption DEF Restart, PoolInv, TypeOK
    <3>. QED BY <2>0, <2>a, <2>b, <3>1, DrainStays DEF CallerStages, PastWait
  <2>12. CASE Exit \/ UNCHANGED vars
    BY <2>12, <2>a, <2>c DEF Exit, vars, pcs
  <2>. QED BY <2>1, <2>2, <2>3, <2>4, <2>5, <2>6, <2>7, <2>8, <2>9, <2>10, <2>11, <2>12
       DEF Next, Caller
<1>. QED BY <1>1, <1>2, TypeInductive, PoolInductive, HitsKeptInductive, PTL DEF Spec

\* When a Stop returns, the store has been given every hit that was in the channel
\* when stopped was set, whoever else stops or flushes meanwhile.
THEOREM StopDrains == Spec => []StopKeepsEarlierHits
<1>1. DrainInv => StopKeepsEarlierHits
  BY DEF DrainInv
<1>. QED BY <1>1, DrainInductive, PTL

================================================================================
