---------------------------- MODULE EmailQueueProofs ----------------------------
(***************************************************************************)
(* Theorems about EmailQueue for any views, emails, prefetch count, faults  *)
(* and number of losses.                                                    *)
(***************************************************************************)
EXTENDS EmailQueue, SequenceLemmas, FiniteSetTheorems, TLAPS

USE DEF Fault

\* How many are acknowledged.
Acknowledged == Len(published) - Len(Pending)

Busy(v) == view[v] # "idle"

\* What views work on is posted, each email by one view, and neither published nor
\* answered yet; a
\* view that is about to publish has bound the queue.
InHand ==
    /\ \A v \in Views : Busy(v) => email[v] \in posted \ (Range(published) \cup ok)
    /\ \A v, w \in Views : Busy(v) /\ Busy(w) /\ v # w => email[v] # email[w]
    /\ \A v \in Views : view[v] = "send" => bound

PublishedOnce == Range(published) \subseteq posted /\ IsInjective(published)

\* Pending is the end of published: acknowledging takes from its head, publishing
\* adds to its end, and nothing else changes it.
PendingIsLast ==
    /\ Len(Pending) <= Len(published)
    /\ \A i \in 1..Len(Pending) : Pending[i] = published[Acknowledged + i]

AcknowledgedWereTried ==
    /\ \A i \in 1..Acknowledged : published[i] \in Range(attempts)
    /\ consumer = "ack" => Pending # << >> /\ Pending[1] \in Range(attempts)

\* What is pending has been tried once for each loss at most; the email the
\* consumer is about to acknowledge, once more.
PendingIsSpared ==
    \A i \in 1..Len(Pending) :
        \/ Cardinality(Tries(Pending[i])) <= losses
        \/ consumer = "ack" /\ i = 1

\* A process that is down has no consumer.
DownHasNoConsumer == ~up => consumer = "ended"

OkIsPublished == ok \ missed \subseteq Range(published)

OrderInv ==
    /\ PublishedOnce /\ PendingIsLast /\ AcknowledgedWereTried
    /\ PendingIsSpared /\ RetriedOnlyAfterLoss
    /\ TriedInOrder /\ OkIsPublished

QueueInv == TypeOK /\ InHand /\ DownHasNoConsumer /\ OrderInv

--------------------------------------------------------------------------------
(* Types. *)

\* Queues and views keep their types, the broker its bound on deliveries.
LEMMA TypeStep ==
    ASSUME TypeOK, [Next]_vars
    PROVE  TypeOK'
<1>1. ASSUME NEW v \in Views, NEW e \in Emails, Post(v, e) PROVE TypeOK'
  BY <1>1 DEF Post, Goto, TypeOK, views, broker, history
<1>2. ASSUME NEW v \in Views, Dial(v) PROVE TypeOK'
  BY <1>2 DEF Dial, Goto, TypeOK, broker, history
<1>3. ASSUME NEW v \in Views, QueueBind(v) PROVE TypeOK'
  BY <1>3 DEF QueueBind, Goto, Return, TypeOK, history
<1>4. ASSUME NEW v \in Views, Send(v) PROVE TypeOK'
  <2>1. email[v] \in posted /\ email[v] \in Emails
    BY <1>4 DEF Send, TypeOK
  <2>2. queue' \in Seq(Emails) /\ published' \in Seq(Emails)
        /\ ok' \subseteq posted /\ missed' \subseteq ok'
    <3>1. Append(queue, email[v]) \in Seq(Emails) /\ Append(published, email[v]) \in Seq(Emails)
      BY <2>1 DEF TypeOK
    <3>2. /\ queue' = queue \/ queue' = Append(queue, email[v])
          /\ published' = published \/ published' = Append(published, email[v])
      BY <1>4 DEF Send, Enqueue
    <3>3. ok' \subseteq posted /\ missed' \subseteq ok'
      BY <1>4, <2>1 DEF Send, TypeOK
    <3>. QED BY <3>1, <3>2, <3>3 DEF TypeOK
  <2>3. UNCHANGED <<up, posted, bound, unacked, consumer, attempts, losses>>
    BY <1>4 DEF Send
  <2>4. /\ view' \in [Views -> {"idle", "dial", "bind", "send"}]
        /\ email' \in [Views -> Emails \cup {NoEmail}]
        /\ \A w \in Views : view'[w] # "idle" => email'[w] \in posted
    BY <1>4 DEF Send, Return, Goto, TypeOK
  <2>. QED BY <2>2, <2>3, <2>4 DEF TypeOK
<1>5. ASSUME Deliver PROVE TypeOK'
  <2>1. /\ Head(queue) \in Emails /\ Tail(queue) \in Seq(Emails)
        /\ Append(unacked, Head(queue)) \in Seq(Emails)
        /\ Len(Append(unacked, Head(queue))) = Len(unacked) + 1
        /\ Append(unacked, Head(queue)) # << >>
    BY <1>5 DEF Deliver, TypeOK
  <2>2. Len(unacked) + 1 <= Prefetch
    BY <1>5, EmailQueueAssumption DEF Deliver, TypeOK
  <2>. QED BY <1>5, <2>1, <2>2 DEF Deliver, TypeOK, views, history
<1>6. ASSUME Callback PROVE TypeOK'
  <2>1. Append(attempts, Head(unacked)) \in Seq(Emails)
    BY <1>6 DEF Callback, SendMail, TypeOK
  <2>. QED BY <1>6, <2>1 DEF Callback, SendMail, TypeOK, views, broker
<1>7. ASSUME Ack PROVE TypeOK'
  <2>1. Tail(unacked) \in Seq(Emails) /\ Len(Tail(unacked)) <= Prefetch
    BY <1>7, EmailQueueAssumption DEF Ack, TypeOK
  <2>. QED BY <1>7, <2>1 DEF Ack, TypeOK, views, history
<1>8. ASSUME Disconnect PROVE TypeOK'
  BY <1>8, EmailQueueAssumption DEF Disconnect, Loss, Requeue, TypeOK, views, history
<1>9. ASSUME Crash PROVE TypeOK'
  <2>1. losses' \in 0..MaxLosses
    BY <1>9, EmailQueueAssumption DEF Crash, Loss, TypeOK
  <2>2. queue' \in Seq(Emails) /\ unacked' \in Seq(Emails) /\ Len(unacked') <= Prefetch
    BY <1>9, EmailQueueAssumption DEF Crash, Requeue, TypeOK
  <2>. QED BY <1>9, <2>1, <2>2 DEF Crash, Requeue, TypeOK, history
<1>10. ASSUME Restart PROVE TypeOK'
  BY <1>10 DEF Restart, TypeOK, views, broker, history
<1>11. CASE UNCHANGED vars
  BY <1>11 DEF vars, views, broker, history, TypeOK
<1>. QED BY <1>1, <1>2, <1>3, <1>4, <1>5, <1>6, <1>7, <1>8, <1>9, <1>10, <1>11
         DEF Next, View, Consumer

LEMMA TypeInit == Init => TypeOK
<1> SUFFICES ASSUME Init PROVE TypeOK
  OBVIOUS
<1>1. /\ queue \in Seq(Emails) /\ published \in Seq(Emails) /\ attempts \in Seq(Emails)
      /\ unacked \in Seq(Emails) /\ Len(unacked) = 0
  BY DEF Init
<1>2. /\ view \in [Views -> {"idle", "dial", "bind", "send"}]
      /\ email \in [Views -> Emails \cup {NoEmail}]
      /\ \A v \in Views : view[v] = "idle"
  BY DEF Init
<1>3. 0 <= Prefetch /\ losses \in 0..MaxLosses
  BY EmailQueueAssumption DEF Init
<1>. QED BY <1>1, <1>2, <1>3 DEF Init, TypeOK

\* The broker never sends ahead more than the prefetch count, and the consumer has
\* the delivery it acknowledges.
THEOREM TypeCorrect == Spec => []TypeOK
<1>1. TypeOK /\ [Next]_vars => TypeOK'
  BY TypeStep
<1>. QED BY TypeInit, <1>1, PTL DEF Spec

--------------------------------------------------------------------------------
(* Views. *)

\* A step that publishes and answers nothing and in which views only go on or
\* return.
LEMMA HandsStay ==
    ASSUME InHand, posted \subseteq posted', UNCHANGED <<published, ok>>,
           bound => bound',
           \A v \in Views : Busy(v)' => /\ Busy(v) /\ email'[v] = email[v]
                                        /\ view'[v] = "send" => bound' 
    PROVE  InHand'
BY DEF InHand, Busy

\* An email is posted to one view, which publishes it once.
LEMMA InHandStep ==
    ASSUME QueueInv, [Next]_vars
    PROVE  InHand'
<1>t. TypeOK /\ TypeOK' /\ InHand
  BY TypeStep DEF QueueInv
<1>1. ASSUME NEW v \in Views, NEW e \in Emails, Post(v, e) PROVE InHand'
  <2>1. /\ posted' = posted \cup {e} /\ e \notin posted /\ UNCHANGED <<published, ok, bound>>
        /\ e \notin Range(published) /\ e \notin ok
    BY <1>1, <1>t DEF Post, broker, history, QueueInv, OrderInv, PublishedOnce, TypeOK
  <2>2. CASE UNCHANGED views
    BY <1>t, <2>1, <2>2, HandsStay DEF views, InHand, Busy
  <2>3. CASE Goto(v, "dial") /\ email' = [email EXCEPT ![v] = e]
    <3>1. /\ view'[v] = "dial" /\ email'[v] = e
          /\ \A w \in Views \ {v} : view'[w] = view[w] /\ email'[w] = email[w]
      BY <1>t, <2>3 DEF Goto, TypeOK
    <3>2. \A w \in Views \ {v} : Busy(w)' =>
                Busy(w) /\ email'[w] \in posted \ (Range(published) \cup ok) /\ email'[w] # e
      BY <1>t, <2>1, <3>1 DEF InHand, Busy
    <3>3. \A w \in Views : Busy(w)' => email'[w] \in posted' \ (Range(published') \cup ok')
      BY <2>1, <3>1, <3>2
    <3>4. \A w, x \in Views : Busy(w)' /\ Busy(x)' /\ w # x => email'[w] # email'[x]
      BY <1>t, <3>1, <3>2 DEF InHand
    <3>5. \A w \in Views : view'[w] = "send" => bound'
      BY <1>t, <2>1, <3>1 DEF InHand
    <3>. QED BY <3>3, <3>4, <3>5 DEF InHand
  <2>. QED BY <1>1, <2>2, <2>3 DEF Post
<1>2. ASSUME NEW v \in Views, Dial(v) \/ QueueBind(v) PROVE InHand'
  <2>a. bound' = bound \/ bound' = TRUE
    BY <1>2 DEF Dial, QueueBind, broker
  <2>b. UNCHANGED <<posted, published, ok>>
    BY <1>2 DEF Dial, QueueBind, history
  <2>1. UNCHANGED <<posted, published, ok>> /\ (bound => bound')
    BY <2>a, <2>b
  <2>2. \A w \in Views \ {v} : view'[w] = view[w] /\ email'[w] = email[w]
    BY <1>2, <1>t DEF Dial, QueueBind, Goto, Return, TypeOK
  <2>3. Busy(v) /\ \/ view'[v] = "bind" /\ email'[v] = email[v]
                   \/ view'[v] = "send" /\ email'[v] = email[v] /\ bound' = TRUE
                   \/ ~Busy(v)'
    <3>1. CASE Dial(v)
      BY <1>t, <3>1 DEF Dial, Goto, TypeOK, Busy
    <3>2. CASE QueueBind(v)
      BY <1>t, <3>2 DEF QueueBind, Goto, Return, TypeOK, Busy
    <3>. QED BY <1>2, <3>1, <3>2
  <2>4. \A w \in Views : Busy(w)' => /\ Busy(w) /\ email'[w] = email[w]
                                     /\ view'[w] = "send" => bound'
    BY <1>t, <2>1, <2>2, <2>3 DEF InHand, Busy
  <2>. QED BY <1>t, <2>1, <2>4, HandsStay
<1>3. ASSUME NEW v \in Views, Send(v) PROVE InHand'
  <2>1. UNCHANGED <<posted, bound>> /\ Busy(v) /\ ~Busy(v)'
    BY <1>3, <1>t DEF Send, Return, Goto, Busy, TypeOK
  <2>2. \A w \in Views \ {v} : view'[w] = view[w] /\ email'[w] = email[w]
    BY <1>3, <1>t DEF Send, Return, Goto, TypeOK
  <2>3. published' = published \/ published' = Append(published, email[v])
    BY <1>3 DEF Send, Enqueue
  <2>4. published \in Seq(Emails) /\ email[v] \in Emails
    BY <1>t, <2>1 DEF TypeOK, Busy
  <2>5. Range(published') \subseteq Range(published) \cup {email[v]}
    BY <2>3, <2>4, AppendFacts
  <2>6. ok' \subseteq ok \cup {email[v]}
    BY <1>3 DEF Send
  <2>. QED BY <1>t, <2>1, <2>2, <2>5, <2>6 DEF InHand, Busy
<1>4. ASSUME Consumer \/ Disconnect \/ Restart PROVE InHand'
  <2>1. UNCHANGED <<posted, view, email, published, ok, bound>>
    BY <1>4 DEF Consumer, Deliver, Callback, SendMail, Ack, Disconnect, Restart, Requeue,
                views, broker, history
  <2>. QED BY <1>t, <2>1 DEF InHand, Busy
<1>5. ASSUME Crash PROVE InHand'
  BY <1>5 DEF Crash, InHand, Busy
<1>6. CASE UNCHANGED vars
  BY <1>t, <1>6 DEF vars, views, broker, history, InHand, Busy
<1>. QED BY <1>1, <1>2, <1>3, <1>4, <1>5, <1>6 DEF Next, View

--------------------------------------------------------------------------------
(* Order and attempts. *)

LEMMA PendingTyped ==
    ASSUME TypeOK
    PROVE  /\ Pending \in Seq(Emails) /\ Len(Pending) \in Nat
           /\ Len(Pending) = Len(unacked) + Len(queue)
           /\ Len(published) \in Nat /\ Len(attempts) \in Nat /\ losses \in Nat
           /\ \A i \in 1..Len(Pending) : Pending[i] \in Emails
BY EmailQueueAssumption DEF TypeOK, Pending

\* What returns to the queue returns to where it was.
LEMMA RequeueKeeps ==
    ASSUME TypeOK, Requeue
    PROVE  Pending' = Pending
<1>1. unacked \o queue \in Seq(Emails)
  BY DEF TypeOK
<1>. QED BY <1>1 DEF Requeue, Pending

LEMMA TriesFinite ==
    ASSUME TypeOK, NEW e
    PROVE  IsFiniteSet(Tries(e)) /\ Cardinality(Tries(e)) \in Nat
<1>1. DOMAIN attempts = 1..Len(attempts) /\ Len(attempts) \in Nat
  BY DEF TypeOK
<1>2. IsFiniteSet(1..Len(attempts))
  BY <1>1, FS_Interval
<1>3. Tries(e) \in SUBSET (1..Len(attempts))
  BY <1>1 DEF Tries
<1>. QED BY <1>2, <1>3, FS_Subset, FS_CardinalityType

\* An attempt counts for its email and for no other.
LEMMA OneMoreTry ==
    ASSUME TypeOK, NEW a \in Emails, attempts' = Append(attempts, a), NEW e
    PROVE  Cardinality(Tries(e)') = IF e = a THEN Cardinality(Tries(e)) + 1
                                    ELSE Cardinality(Tries(e))
<1>1. /\ DOMAIN attempts = 1..Len(attempts) /\ Len(attempts) \in Nat
      /\ DOMAIN attempts' = 1..(Len(attempts) + 1)
      /\ \A j \in 1..Len(attempts) : attempts'[j] = attempts[j]
      /\ attempts'[Len(attempts) + 1] = a
  BY DEF TypeOK
<1>2. 1..(Len(attempts) + 1) = 1..Len(attempts) \cup {Len(attempts) + 1}
  BY <1>1
<1>3. CASE e = a
  <2>1. Tries(e)' = Tries(e) \cup {Len(attempts) + 1}
    BY <1>1, <1>2, <1>3 DEF Tries
  <2>2. Len(attempts) + 1 \notin Tries(e)
    BY <1>1 DEF Tries
  <2>. QED BY <1>3, <2>1, <2>2, TriesFinite, FS_AddElement
<1>4. CASE e # a
  <2>1. Tries(e)' = Tries(e)
    BY <1>1, <1>2, <1>4 DEF Tries
  <2>. QED BY <1>4, <2>1
<1>. QED BY <1>3, <1>4

\* A step that leaves what is pending, and ends an attempt only with a loss.
LEMMA OrderStays ==
    ASSUME TypeOK, OrderInv, posted \subseteq posted',
           UNCHANGED <<published, attempts>>, ok' \ missed' \subseteq ok \ missed,
           Pending' = Pending,
           \/ losses' = losses /\ (consumer' = "ack" <=> consumer = "ack")
           \/ losses' = losses + 1 /\ consumer' # "ack"
    PROVE  OrderInv'
<1>1. PublishedOnce' /\ TriedInOrder' /\ OkIsPublished'
  BY DEF OrderInv, PublishedOnce, TriedInOrder, OkIsPublished
<1>2. PendingIsLast' /\ AcknowledgedWereTried'
  BY DEF OrderInv, PendingIsLast, AcknowledgedWereTried, Acknowledged
<1>3. /\ \A e : Tries(e)' = Tries(e) /\ Cardinality(Tries(e)) \in Nat
      /\ losses \in Nat
  BY TriesFinite, PendingTyped DEF Tries
<1>4. RetriedOnlyAfterLoss'
  BY <1>3 DEF OrderInv, RetriedOnlyAfterLoss
<1>5. PendingIsSpared'
  <2>1. \A i \in 1..Len(Pending) : Cardinality(Tries(Pending[i])) <= losses + 1
    BY <1>3, PendingTyped DEF OrderInv, RetriedOnlyAfterLoss
  <2>2. CASE losses' = losses /\ (consumer' = "ack" <=> consumer = "ack")
    BY <1>3, <2>2 DEF OrderInv, PendingIsSpared
  <2>3. CASE losses' = losses + 1
    BY <1>3, <2>1, <2>3 DEF PendingIsSpared
  <2>. QED BY <2>2, <2>3
<1>. QED BY <1>1, <1>2, <1>4, <1>5 DEF OrderInv

\* What is published goes to the end, untried.
LEMMA SendStep ==
    ASSUME QueueInv, TypeOK', NEW v \in Views, Send(v)
    PROVE  OrderInv'
<1>t. TypeOK /\ InHand /\ OrderInv
  BY DEF QueueInv
<1>1. PICK e \in Emails : /\ e = email[v] /\ e \in posted /\ e \notin Range(published) /\ bound
  BY <1>t DEF Send, TypeOK, InHand, Busy
<1>2. UNCHANGED <<posted, attempts, losses, consumer, unacked>>
  BY DEF Send
<1>3. CASE UNCHANGED <<queue, published>> /\ ok' \ missed' \subseteq ok \ missed
  BY <1>t, <1>2, <1>3, OrderStays DEF Pending
<1>4. CASE /\ queue' = Append(queue, e) /\ published' = Append(published, e)
           /\ ok' \subseteq ok \cup {e} /\ missed' = missed
  <2>1. Pending' = Append(Pending, e)
    BY <1>t, <1>2, <1>4, JoinedEnd DEF Pending, TypeOK
  <2>2. /\ Len(Pending') = Len(Pending) + 1 /\ Len(published') = Len(published) + 1
        /\ \A i \in 1..Len(Pending) : Pending'[i] = Pending[i]
        /\ Pending'[Len(Pending) + 1] = e
        /\ \A i \in 1..Len(published) : published'[i] = published[i]
        /\ published'[Len(published) + 1] = e
        /\ DOMAIN published = 1..Len(published)
        /\ DOMAIN published' = 1..(Len(published) + 1)
    BY <1>t, <1>4, <2>1, PendingTyped DEF TypeOK
  <2>3. Range(published') = Range(published) \cup {e} /\ IsInjective(published')
    BY <1>t, <1>1, <1>4, AppendFacts DEF TypeOK, OrderInv, PublishedOnce
  <2>4. PublishedOnce' /\ OkIsPublished'
    BY <1>t, <1>1, <1>2, <1>4, <2>3 DEF OrderInv, PublishedOnce, OkIsPublished
  <2>5. Acknowledged' = Acknowledged /\ Acknowledged \in Nat
    BY <1>t, <2>2, PendingTyped DEF Acknowledged, OrderInv, PendingIsLast
  <2>6. PendingIsLast'
    <3>1. Len(Pending') <= Len(published')
      BY <1>t, <2>2, PendingTyped DEF OrderInv, PendingIsLast
    <3>2. ASSUME NEW i \in 1..(Len(Pending) + 1)
          PROVE  Pending'[i] = published'[Acknowledged + i]
      <4>1. CASE i <= Len(Pending)
        <5>1. Pending[i] = published[Acknowledged + i] /\ Acknowledged + i \in 1..Len(published)
          BY <1>t, <2>5, <4>1, PendingTyped DEF OrderInv, PendingIsLast, Acknowledged
        <5>. QED BY <1>t, <2>2, <4>1, <5>1, PendingTyped
      <4>2. CASE i = Len(Pending) + 1
        <5>1. Acknowledged + i = Len(published) + 1
          BY <1>t, <4>2, PendingTyped DEF Acknowledged
        <5>. QED BY <2>2, <4>2, <5>1
      <4>. QED BY <1>t, <4>1, <4>2, PendingTyped
    <3>. QED BY <2>2, <2>5, <3>1, <3>2 DEF PendingIsLast
  <2>7. AcknowledgedWereTried'
    <3>1. \A i \in 1..Acknowledged : published'[i] = published[i]
      BY <1>t, <2>2, <2>5, PendingTyped DEF Acknowledged
    <3>2. consumer = "ack" => Pending' # << >> /\ Pending'[1] = Pending[1]
      <4>1. consumer = "ack" => Len(Pending) >= 1
        BY <1>t, PendingTyped DEF OrderInv, AcknowledgedWereTried
      <4>. QED BY <1>t, <2>1, <2>2, <4>1, PendingTyped
    <3>. QED BY <1>t, <1>2, <2>5, <3>1, <3>2 DEF OrderInv, AcknowledgedWereTried
  <2>8. TriedInOrder'
    <3> SUFFICES ASSUME NEW j \in DOMAIN attempts
                 PROVE  \E i \in DOMAIN published' :
                            /\ published'[i] = attempts[j]
                            /\ \A k \in 1..(i - 1) :
                                 \E l \in 1..(j - 1) : attempts[l] = published'[k]
      BY <1>2 DEF TriedInOrder
    <3>1. PICK i \in 1..Len(published) :
              /\ published[i] = attempts[j]
              /\ \A k \in 1..(i - 1) : \E l \in 1..(j - 1) : attempts[l] = published[k]
      BY <1>t, <2>2 DEF OrderInv, TriedInOrder
    <3>2. i \in DOMAIN published' /\ published'[i] = attempts[j]
      BY <1>t, <2>2, <3>1, PendingTyped
    <3>3. \A k \in 1..(i - 1) : published'[k] = published[k]
      BY <1>t, <2>2, PendingTyped
    <3>. QED BY <3>1, <3>2, <3>3
  <2>9. Tries(e) = {}
    BY <1>t, <1>1 DEF Tries, OrderInv, TriedInOrder, Range
  <2>10. \A x : Tries(x)' = Tries(x)
    BY <1>2 DEF Tries
  <2>11. RetriedOnlyAfterLoss'
    BY <1>t, <1>2, <2>10 DEF OrderInv, RetriedOnlyAfterLoss
  <2>12. PendingIsSpared'
    <3>1. Cardinality(Tries(e)) <= losses
      BY <1>t, <2>9, FS_EmptySet, PendingTyped
    <3>2. ASSUME NEW i \in 1..(Len(Pending) + 1)
          PROVE  Cardinality(Tries(Pending'[i])) <= losses \/ (consumer = "ack" /\ i = 1)
      <4>1. CASE i <= Len(Pending)
        BY <1>t, <2>2, <4>1, PendingTyped DEF OrderInv, PendingIsSpared
      <4>2. CASE i = Len(Pending) + 1
        BY <2>2, <3>1, <4>2
      <4>. QED BY <1>t, <4>1, <4>2, PendingTyped
    <3>. QED BY <1>2, <2>2, <2>10, <3>2 DEF PendingIsSpared
  <2>. QED BY <2>4, <2>6, <2>7, <2>8, <2>11, <2>12 DEF OrderInv
<1>5. \/ UNCHANGED <<queue, published>> /\ ok' \ missed' \subseteq ok \ missed
      \/ /\ queue' = Append(queue, e) /\ published' = Append(published, e)
         /\ ok' \subseteq ok \cup {e} /\ missed' = missed
  BY <1>1 DEF Send, Enqueue
<1>. QED BY <1>3, <1>4, <1>5

\* The consumer tries the first email that is pending.
LEMMA CallbackStep ==
    ASSUME QueueInv, Callback
    PROVE  OrderInv'
<1>t. TypeOK /\ OrderInv
  BY DEF QueueInv
<1>1. /\ Pending' = Pending /\ UNCHANGED <<published, posted, ok, missed, losses>>
      /\ consumer = "wait" /\ consumer' = "ack"
  BY DEF Callback, SendMail, broker, Pending
<1>2. /\ Pending # << >> /\ Len(Pending) >= 1 /\ Pending[1] \in Emails
      /\ attempts' = Append(attempts, Pending[1])
  <2>1. unacked # << >> /\ attempts' = Append(attempts, Head(unacked))
    BY DEF Callback, SendMail
  <2>2. Head(unacked) \in Emails
    BY <1>t, <2>1 DEF TypeOK
  <2>3. Head(unacked) = Pending[1] /\ Pending # << >>
    BY <1>t, <2>1, JoinedHead DEF TypeOK, Pending
  <2>4. Len(Pending) >= 1
    BY <1>t, <2>3, PendingTyped
  <2>. QED BY <2>1, <2>2, <2>3, <2>4
<1>3. /\ DOMAIN attempts = 1..Len(attempts) /\ DOMAIN attempts' = 1..(Len(attempts) + 1)
      /\ \A j \in 1..Len(attempts) : attempts'[j] = attempts[j]
      /\ attempts'[Len(attempts) + 1] = Pending[1]
  BY <1>t, <1>2 DEF TypeOK
<1>4. Range(attempts') = Range(attempts) \cup {Pending[1]}
  BY <1>t, <1>2, AppendFacts DEF TypeOK
<1>5. /\ Acknowledged' = Acknowledged /\ Acknowledged \in Nat
      /\ Acknowledged + Len(Pending) = Len(published)
  BY <1>t, <1>1, PendingTyped DEF Acknowledged, OrderInv, PendingIsLast
<1>6. PublishedOnce' /\ PendingIsLast' /\ OkIsPublished'
  BY <1>t, <1>1, <1>5 DEF OrderInv, PublishedOnce, PendingIsLast, OkIsPublished
<1>7. AcknowledgedWereTried'
  BY <1>t, <1>1, <1>2, <1>4, <1>5 DEF OrderInv, AcknowledgedWereTried
<1>8. RetriedOnlyAfterLoss'
  <2>1. Cardinality(Tries(Pending[1])) <= losses
    BY <1>t, <1>1, <1>2, PendingTyped DEF OrderInv, PendingIsSpared
  <2> SUFFICES ASSUME NEW e \in Emails PROVE Cardinality(Tries(e)') <= 1 + losses
    BY <1>1 DEF RetriedOnlyAfterLoss
  <2>2. Cardinality(Tries(e)) \in Nat /\ Cardinality(Tries(e)) <= 1 + losses
    BY <1>t, TriesFinite DEF OrderInv, RetriedOnlyAfterLoss
  <2>3. CASE e = Pending[1]
    <3>1. Cardinality(Tries(e)') = Cardinality(Tries(e)) + 1
      BY <1>t, <1>2, <2>3, OneMoreTry
    <3>. QED BY <1>t, <2>1, <2>2, <2>3, <3>1, PendingTyped
  <2>4. CASE e # Pending[1]
    <3>1. Cardinality(Tries(e)') = Cardinality(Tries(e))
      BY <1>t, <1>2, <2>4, OneMoreTry
    <3>. QED BY <2>2, <3>1
  <2>. QED BY <2>3, <2>4
<1>9. PendingIsSpared'
  <2> SUFFICES ASSUME NEW i \in 1..Len(Pending), i # 1
               PROVE  Cardinality(Tries(Pending[i])') <= losses
    BY <1>1 DEF PendingIsSpared
  <2>1. Pending[i] = published[Acknowledged + i] /\ Pending[1] = published[Acknowledged + 1]
    BY <1>t, <1>2, PendingTyped DEF OrderInv, PendingIsLast
  <2>2. /\ Acknowledged + i \in DOMAIN published /\ Acknowledged + 1 \in DOMAIN published
        /\ Acknowledged + i # Acknowledged + 1
    BY <1>t, <1>2, <1>5, PendingTyped DEF TypeOK
  <2>3. Pending[i] # Pending[1]
    BY <1>t, <2>1, <2>2 DEF OrderInv, PublishedOnce, IsInjective
  <2>4. Pending[i]' = Pending[i]
    BY <1>1
  <2>5. Cardinality(Tries(Pending[i])') = Cardinality(Tries(Pending[i]))
    <3>1. PICK e \in Emails : e = Pending[i]
      BY <1>t, PendingTyped
    <3>2. Cardinality(Tries(e)') = Cardinality(Tries(e))
      BY <1>t, <1>2, <2>3, <3>1, OneMoreTry
    <3>. QED BY <2>4, <3>1, <3>2 DEF Tries
  <2>. QED BY <1>t, <1>1, <2>5 DEF OrderInv, PendingIsSpared
<1>10. TriedInOrder'
  <2> SUFFICES ASSUME NEW j \in 1..(Len(attempts) + 1)
               PROVE  \E i \in DOMAIN published :
                          /\ published[i] = attempts'[j]
                          /\ \A k \in 1..(i - 1) :
                               \E l \in 1..(j - 1) : attempts'[l] = published[k]
    BY <1>1, <1>3 DEF TriedInOrder
  <2>1. CASE j <= Len(attempts)
    <3>1. j \in DOMAIN attempts /\ attempts'[j] = attempts[j]
      BY <1>t, <1>3, <2>1, PendingTyped
    <3>2. PICK i \in DOMAIN published :
              /\ published[i] = attempts[j]
              /\ \A k \in 1..(i - 1) : \E l \in 1..(j - 1) : attempts[l] = published[k]
      BY <1>t, <3>1 DEF OrderInv, TriedInOrder
    <3>3. \A l \in 1..(j - 1) : attempts'[l] = attempts[l]
      BY <1>t, <1>3, <2>1, PendingTyped
    <3>. QED BY <3>1, <3>2, <3>3
  <2>2. CASE j = Len(attempts) + 1
    <3>1. /\ Acknowledged + 1 \in DOMAIN published
          /\ published[Acknowledged + 1] = attempts'[j]
      BY <1>t, <1>2, <1>3, <1>5, <2>2, PendingTyped DEF OrderInv, PendingIsLast, TypeOK
    <3>2. \A k \in 1..Acknowledged : \E l \in 1..Len(attempts) : attempts'[l] = published[k]
      BY <1>t, <1>3 DEF OrderInv, AcknowledgedWereTried, Range
    <3>3. (Acknowledged + 1) - 1 = Acknowledged /\ j - 1 = Len(attempts)
      BY <1>t, <1>5, <2>2, PendingTyped
    <3>. QED BY <3>1, <3>2, <3>3
  <2>. QED BY <1>t, <2>1, <2>2, PendingTyped
<1>. QED BY <1>6, <1>7, <1>8, <1>9, <1>10 DEF OrderInv

\* What is acknowledged was tried, and the next one pending is the next published.
LEMMA AckStep ==
    ASSUME QueueInv, Ack
    PROVE  OrderInv'
<1>t. TypeOK /\ OrderInv
  BY DEF QueueInv
<1>1. /\ UNCHANGED <<published, posted, ok, missed, losses, attempts>>
      /\ consumer = "ack" /\ consumer' = "wait"
  BY DEF Ack, history
<1>2. Pending # << >> /\ Pending' = Tail(Pending)
  <2>1. unacked # << >> /\ unacked' = Tail(unacked) /\ queue' = queue
    BY <1>t DEF Ack, TypeOK
  <2>2. unacked \in Seq(Emails) /\ queue \in Seq(Emails)
    BY <1>t DEF TypeOK
  <2>3. Tail(unacked) \o queue = Tail(unacked \o queue) /\ unacked \o queue # << >>
    BY <2>1, <2>2, JoinedHead
  <2>. QED BY <2>1, <2>3 DEF Pending
<1>3. /\ Len(Pending) >= 1 /\ Len(Pending') = Len(Pending) - 1
      /\ \A i \in 1..(Len(Pending) - 1) : Pending'[i] = Pending[i + 1]
  BY <1>t, <1>2, PendingTyped
<1>4. /\ Acknowledged' = Acknowledged + 1 /\ Acknowledged \in Nat
      /\ Acknowledged + Len(Pending) = Len(published)
  BY <1>t, <1>1, <1>3, PendingTyped DEF Acknowledged, OrderInv, PendingIsLast
<1>5. PublishedOnce' /\ OkIsPublished' /\ TriedInOrder' /\ RetriedOnlyAfterLoss'
  BY <1>t, <1>1 DEF OrderInv, PublishedOnce, OkIsPublished, TriedInOrder,
                    RetriedOnlyAfterLoss, Tries
<1>6. PendingIsLast'
  <2>1. \A i \in 1..(Len(Pending) - 1) : Pending'[i] = published[Acknowledged + 1 + i]
    <3> SUFFICES ASSUME NEW i \in 1..(Len(Pending) - 1)
                 PROVE  Pending'[i] = published[Acknowledged + 1 + i]
      OBVIOUS
    <3>1. i + 1 \in 1..Len(Pending) /\ Acknowledged + (i + 1) = Acknowledged + 1 + i
      BY <1>t, <1>4, PendingTyped
    <3>. QED BY <1>t, <1>3, <3>1 DEF OrderInv, PendingIsLast
  <2>2. Len(Pending') <= Len(published')
    BY <1>t, <1>1, <1>3, <1>4, PendingTyped
  <2>3. \A i \in 1..Len(Pending') : Pending'[i] = published'[Acknowledged' + i]
    BY <1>1, <1>3, <1>4, <2>1
  <2>. QED BY <2>2, <2>3 DEF PendingIsLast
<1>7. AcknowledgedWereTried'
  <2>1. published[Acknowledged + 1] \in Range(attempts)
    BY <1>t, <1>1, <1>3, PendingTyped DEF OrderInv, PendingIsLast, AcknowledgedWereTried
  <2>2. \A i \in 1..(Acknowledged + 1) : i \in 1..Acknowledged \/ i = Acknowledged + 1
    BY <1>4
  <2>. QED BY <1>t, <1>1, <1>4, <2>1, <2>2 DEF OrderInv, AcknowledgedWereTried
<1>8. PendingIsSpared'
  <2> SUFFICES ASSUME NEW i \in 1..(Len(Pending) - 1)
               PROVE  Cardinality(Tries(Pending'[i])) <= losses
    BY <1>1, <1>3 DEF PendingIsSpared, Tries
  <2>1. i + 1 \in 1..Len(Pending) /\ i + 1 # 1
    BY <1>t, PendingTyped
  <2>. QED BY <1>t, <1>3, <2>1 DEF OrderInv, PendingIsSpared
<1>. QED BY <1>5, <1>6, <1>7, <1>8 DEF OrderInv

LEMMA OrderStep ==
    ASSUME QueueInv, [Next]_vars
    PROVE  OrderInv'
<1>t. TypeOK /\ TypeOK' /\ OrderInv
  BY TypeStep DEF QueueInv
<1>1. ASSUME NEW v \in Views, NEW e \in Emails, Post(v, e) PROVE OrderInv'
  <2>1. posted \subseteq posted' /\ UNCHANGED <<published, attempts, ok, missed, losses, consumer, queue, unacked>>
    BY <1>1 DEF Post, broker, history
  <2>. QED BY <1>t, <2>1, OrderStays DEF Pending
<1>2. ASSUME NEW v \in Views, Dial(v) \/ QueueBind(v) PROVE OrderInv'
  <2>1. UNCHANGED <<posted, published, attempts, ok, missed, losses, consumer, queue, unacked>>
    BY <1>2 DEF Dial, QueueBind, broker, history
  <2>. QED BY <1>t, <2>1, OrderStays DEF Pending
<1>3. ASSUME NEW v \in Views, Send(v) PROVE OrderInv'
  BY <1>3, <1>t, SendStep
<1>4. ASSUME Deliver PROVE OrderInv'
  <2>1. UNCHANGED <<posted, published, attempts, ok, missed, losses, consumer>>
    BY <1>4 DEF Deliver, history
  <2>2. Pending' = Pending
    BY <1>4, <1>t, MoveFacts DEF Deliver, Pending, TypeOK
  <2>. QED BY <1>t, <2>1, <2>2, OrderStays
<1>5. ASSUME Disconnect \/ Crash PROVE OrderInv'
  <2>1. /\ UNCHANGED <<posted, published, attempts, ok, missed>>
        /\ losses' = losses + 1 /\ consumer' = "ended"
    BY <1>5 DEF Disconnect, Crash, Loss, history
  <2>2. Pending' = Pending
    BY <1>5, <1>t, RequeueKeeps DEF Disconnect, Crash
  <2>. QED BY <1>t, <2>1, <2>2, OrderStays
<1>6. ASSUME Restart PROVE OrderInv'
  <2>1. UNCHANGED <<posted, published, attempts, ok, missed, losses, queue, unacked>>
    BY <1>6 DEF Restart, broker, history
  <2>2. consumer = "ended" /\ consumer' = "wait"
    BY <1>6 DEF Restart, QueueInv, DownHasNoConsumer
  <2>. QED BY <1>t, <2>1, <2>2, OrderStays DEF Pending
<1>7. CASE UNCHANGED vars
  BY <1>t, <1>7, OrderStays DEF vars, views, broker, history, Pending
<1>. QED BY <1>1, <1>2, <1>3, <1>4, <1>5, <1>6, <1>7, CallbackStep, AckStep
         DEF Next, View, Consumer

\* QueueInv holds of every reachable state.
LEMMA QueueInductive == Spec => []QueueInv
<1>1. Init => QueueInv
  <2> SUFFICES ASSUME Init PROVE QueueInv
    OBVIOUS
  <2>1. TypeOK /\ InHand /\ DownHasNoConsumer
    BY TypeInit DEF Init, InHand, Busy, DownHasNoConsumer
  <2>2. Pending = << >> /\ Acknowledged = 0 /\ Len(Pending) = 0 /\ Len(published) = 0
    BY DEF Init, Pending, Acknowledged
  <2>3. PublishedOnce /\ OkIsPublished
    BY EmptyFacts DEF Init, PublishedOnce, OkIsPublished
  <2>4. PendingIsLast /\ PendingIsSpared
    BY <2>2 DEF PendingIsLast, PendingIsSpared
  <2>5. AcknowledgedWereTried
    BY <2>2 DEF Init, AcknowledgedWereTried
  <2>6. TriedInOrder
    BY DEF Init, TriedInOrder
  <2>7. RetriedOnlyAfterLoss
    <3>1. \A e \in Emails : Tries(e) = {}
      BY DEF Init, Tries
    <3>2. \A e \in Emails : Cardinality(Tries(e)) = 0
      BY <3>1, FS_EmptySet
    <3>. QED BY <3>2 DEF Init, RetriedOnlyAfterLoss
  <2>. QED BY <2>1, <2>3, <2>4, <2>5, <2>6, <2>7 DEF QueueInv, OrderInv
<1>2. QueueInv /\ [Next]_vars => QueueInv'
  <2> SUFFICES ASSUME QueueInv, [Next]_vars PROVE QueueInv'
    OBVIOUS
  <2>1. TypeOK' /\ InHand' /\ OrderInv'
    BY TypeStep, InHandStep, OrderStep DEF QueueInv
  <2>2. DownHasNoConsumer'
    BY DEF QueueInv, DownHasNoConsumer, Next, View, Consumer, Post, Dial, QueueBind, Send,
           Deliver, Callback, SendMail, Ack, Disconnect, Crash, Restart, vars
  <2>. QED BY <2>1, <2>2 DEF QueueInv
<1>. QED BY <1>1, <1>2, PTL DEF Spec

\* An email is handed to the SMTP server again only after a loss, however many are
\* delivered ahead.
THEOREM RetriesArePaidFor == Spec => []RetriedOnlyAfterLoss
<1>1. QueueInv => RetriedOnlyAfterLoss
  BY DEF QueueInv, OrderInv
<1>. QED BY <1>1, QueueInductive, PTL

\* Emails that return to the queue do not let later ones pass them.
THEOREM OrderIsKept == Spec => []TriedInOrder
<1>1. QueueInv => TriedInOrder
  BY DEF QueueInv, OrderInv
<1>. QED BY <1>1, QueueInductive, PTL

\* An answered email that was not missed was published, and what was published is
\* pending or was tried, through any losses of the consumer and the process.
THEOREM NoAnsweredEmailIsLost == Spec => []AnsweredEmailIsKept
<1>1. QueueInv => AnsweredEmailIsKept
  <2> SUFFICES ASSUME QueueInv, NEW e \in ok \ missed
               PROVE  e \in Range(queue) \cup Range(unacked) \cup Range(attempts)
    BY DEF AnsweredEmailIsKept
  <2>t. TypeOK /\ OrderInv
    BY DEF QueueInv
  <2>1. PICK i \in 1..Len(published) : published[i] = e
    BY <2>t DEF OrderInv, OkIsPublished, Range, TypeOK
  <2>2. /\ Acknowledged \in Nat /\ Acknowledged + Len(Pending) = Len(published)
    BY <2>t, PendingTyped DEF Acknowledged, OrderInv, PendingIsLast
  <2>3. CASE i <= Acknowledged
    BY <2>t, <2>1, <2>2, <2>3 DEF OrderInv, AcknowledgedWereTried
  <2>4. CASE i > Acknowledged
    <3>1. i - Acknowledged \in 1..Len(Pending) /\ Acknowledged + (i - Acknowledged) = i
      BY <2>t, <2>2, <2>4, PendingTyped
    <3>2. Pending[i - Acknowledged] = e
      BY <2>t, <2>1, <3>1 DEF OrderInv, PendingIsLast
    <3>3. e \in Range(Pending)
      BY <2>t, <3>1, <3>2, PendingTyped DEF Range
    <3>4. Range(Pending) = Range(unacked) \cup Range(queue)
      BY <2>t, ConcatFacts DEF Pending, TypeOK
    <3>. QED BY <3>3, <3>4
  <2>. QED BY <2>t, <2>2, <2>3, <2>4, PendingTyped
<1>. QED BY <1>1, QueueInductive, PTL

--------------------------------------------------------------------------------
(* The mailbox. *)

\* A view publishes an email the mailbox never had, or answers for one it never gets.
LEMMA SendTakes ==
    ASSUME QueueInv, NEW v \in Views, Send(v)
    PROVE  (\E e \in Emails : Box!Take(e) \/ Box!Miss(e)) \/ UNCHANGED Box!vars
<1>t. TypeOK /\ InHand
  BY DEF QueueInv
<1>1. PICK e \in Emails : e = email[v] /\ e \notin Range(published) \cup ok \cup missed /\ bound
  BY <1>t DEF Send, TypeOK, InHand, Busy
<1>2. UNCHANGED <<attempts, losses, consumer, unacked>>
  BY DEF Send
<1>3. CASE UNCHANGED <<queue, published, ok, missed>>
  BY <1>2, <1>3 DEF Box!vars, Pending
<1>4. CASE /\ queue' = Append(queue, e) /\ published' = Append(published, e)
           /\ ok' \in {ok, ok \cup {e}} /\ missed' = missed
  <2>1. Pending' = Append(Pending, e)
    BY <1>t, <1>2, <1>4, JoinedEnd DEF Pending, TypeOK
  <2>2. Range(published)' = Range(published) \cup {e}
    BY <1>t, <1>4, AppendFacts DEF TypeOK
  <2>3. Box!Take(e)
    BY <1>1, <1>2, <1>4, <2>1, <2>2 DEF Box!Take
  <2>. QED BY <2>3
<1>5. CASE UNCHANGED <<queue, published>> /\ ok' = ok \cup {e} /\ missed' = missed \cup {e}
  <2>1. Pending' = Pending /\ Range(published)' = Range(published)
    BY <1>2, <1>5 DEF Pending
  <2>2. Box!Miss(e)
    BY <1>1, <1>2, <1>5, <2>1 DEF Box!Miss
  <2>. QED BY <2>2
<1>6. \/ UNCHANGED <<queue, published, ok, missed>>
      \/ /\ queue' = Append(queue, e) /\ published' = Append(published, e)
         /\ ok' \in {ok, ok \cup {e}} /\ missed' = missed
      \/ UNCHANGED <<queue, published>> /\ ok' = ok \cup {e} /\ missed' = missed \cup {e}
  BY <1>1 DEF Send, Enqueue
<1>. QED BY <1>3, <1>4, <1>5, <1>6

\* Any number of views, deliveries ahead, losses and restarts implements the mailbox:
\* the email the consumer has in hand is the first that waits.
THEOREM MailboxImplemented == Spec => ImplementsMailbox
<1>1. Init => Box!Init
  BY EmptyFacts DEF Init, Box!Init, Pending
<1>2. QueueInv /\ [Next]_vars => [Box!Next]_Box!vars
  <2> SUFFICES ASSUME QueueInv, [Next]_vars PROVE Box!Next \/ UNCHANGED Box!vars
    OBVIOUS
  <2>t. TypeOK /\ OrderInv
    BY DEF QueueInv
  <2>1. ASSUME UNCHANGED <<published, ok, missed, attempts, losses>>, Pending' = Pending,
               (consumer = "ack") <=> (consumer' = "ack")
        PROVE  UNCHANGED Box!vars
    BY <2>1 DEF Box!vars
  <2>2. ASSUME NEW v \in Views, NEW e \in Emails, Post(v, e) PROVE UNCHANGED Box!vars
    BY <2>1, <2>2 DEF Post, broker, history, Pending
  <2>3. ASSUME NEW v \in Views, Dial(v) \/ QueueBind(v) PROVE UNCHANGED Box!vars
    BY <2>1, <2>3 DEF Dial, QueueBind, broker, history, Pending
  <2>4. ASSUME NEW v \in Views, Send(v) PROVE Box!Next \/ UNCHANGED Box!vars
    BY <2>4, SendTakes DEF Box!Next
  <2>5. ASSUME Deliver PROVE UNCHANGED Box!vars
    <3>1. Pending' = Pending
      BY <2>5, <2>t, MoveFacts DEF Deliver, Pending, TypeOK
    <3>. QED BY <2>1, <2>5, <3>1 DEF Deliver, history
  <2>6. ASSUME Callback PROVE Box!Try
    <3>1. Pending # << >> /\ Head(unacked) = Head(Pending)
      BY <2>6, <2>t, JoinedHead DEF Callback, TypeOK, Pending
    <3>. QED BY <2>6, <3>1 DEF Callback, SendMail, Box!Try, broker, Pending
  <2>7. ASSUME Ack PROVE Box!Finish
    <3>1. unacked # << >> /\ unacked' = Tail(unacked) /\ queue' = queue
      BY <2>7, <2>t DEF Ack, TypeOK
    <3>2. Pending' = Tail(Pending)
      BY <2>t, <3>1, JoinedHead DEF TypeOK, Pending
    <3>. QED BY <2>7, <3>2 DEF Ack, Box!Finish, history
  <2>8. ASSUME Disconnect \/ Crash PROVE Box!Lose
    <3>1. /\ UNCHANGED <<published, attempts, ok, missed>>
          /\ losses' = losses + 1 /\ consumer' = "ended"
      BY <2>8 DEF Disconnect, Crash, Loss, history
    <3>2. Pending' = Pending
      BY <2>8, <2>t, RequeueKeeps DEF Disconnect, Crash
    <3>. QED BY <3>1, <3>2 DEF Box!Lose
  <2>9. ASSUME Restart PROVE UNCHANGED Box!vars
    BY <2>1, <2>9 DEF Restart, broker, history, Pending, QueueInv, DownHasNoConsumer
  <2>10. CASE UNCHANGED vars
    BY <2>1, <2>10 DEF vars, views, broker, history, Pending
  <2>. QED BY <2>2, <2>3, <2>4, <2>5, <2>6, <2>7, <2>8, <2>9, <2>10
           DEF Next, View, Consumer, Box!Next
<1>. QED BY <1>1, <1>2, QueueInductive, PTL DEF Spec, ImplementsMailbox, Box!Spec

================================================================================
