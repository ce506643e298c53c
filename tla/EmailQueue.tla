------------------------------- MODULE EmailQueue -------------------------------
(***************************************************************************)
(* The email service (microservice-email): HTTP views publish the posted    *)
(* emails to a durable RabbitMQ queue, each over a connection of its own,   *)
(* and one consumer takes them from the queue, hands them to the SMTP       *)
(* server and acknowledges them, whatever the SMTP server said.             *)
(*                                                                          *)
(* The broker is modelled from what the code asks of it: the exchange, the  *)
(* queue and the messages are durable, a message published while the queue  *)
(* is not bound is dropped, and a delivery that is not acknowledged when    *)
(* its connection goes returns to the head of the queue.                    *)
(***************************************************************************)
EXTENDS EmailParams, Naturals, Sequences, FiniteSets, Functions

CONSTANTS
    Views,      \* goroutines serving POST /api/v1/
    Emails,     \* the emails clients post, each once
    NoEmail,
    Prefetch,   \* deliveries the broker sends ahead: 1 after Qos(1, 0, false),
                \* which is only called when the configuration says "declare"
    Faults,     \* which calls may fail, see FaultKinds
    MaxLosses   \* bound of the model: how often the consumer's connection is
                \* lost or the process dies

\* bind, publish: the broker returns an error; close: a view's connection goes
\* after Publish wrote to it, before the broker took the message; dial: no
\* connection can be made; disconnect: the consumer's connection is lost; crash:
\* the process dies.  An error of the SMTP server changes nothing the service does.
FaultKinds == {"bind", "publish", "close", "dial", "disconnect", "crash"}

ASSUME EmailQueueAssumption ==
    /\ NoEmail \notin Emails
    /\ Prefetch \in Nat \ {0}
    /\ Faults \subseteq FaultKinds
    /\ MaxLosses \in Nat

VARIABLES
    up,         \* the process runs
    posted,     \* emails posted so far
    view,       \* view -> where it is
    email,      \* view -> the email it was posted
    bound,      \* the queue is bound to the exchange
    queue,      \* the messages ready in the queue
    unacked,    \* deliveries of the consumer's channel, not acknowledged
    consumer,   \* where StartConsumer is
    ok,         \* emails answered {"status": "ok"}
    missed,     \* history: emails answered "ok" that the broker never took
    published,  \* history: emails in the order they entered the queue
    attempts,   \* history: the emails DialAndSend was called for, in order
    losses      \* lost connections of the consumer and crashes so far

views == <<view, email>>
broker == <<bound, queue, unacked>>
history == <<missed, published, attempts>>
vars == <<up, posted, views, broker, consumer, ok, history, losses>>

TypeOK ==
    /\ up \in BOOLEAN
    /\ posted \subseteq Emails
    /\ view \in [Views -> {"idle", "dial", "bind", "send"}]
    /\ email \in [Views -> Emails \cup {NoEmail}]
    /\ \A v \in Views : view[v] # "idle" => email[v] \in posted
    /\ bound \in BOOLEAN
    /\ queue \in Seq(Emails)
    /\ unacked \in Seq(Emails) /\ Len(unacked) <= Prefetch
    /\ consumer \in {"wait", "ack", "ended"}
    /\ consumer = "ack" => unacked # << >>
    /\ ok \subseteq posted
    /\ missed \subseteq ok
    /\ published \in Seq(Emails)
    /\ attempts \in Seq(Emails)
    /\ losses \in 0..MaxLosses

\* main has declared the exchange and the queue and started the consumer.
Init ==
    /\ up = TRUE
    /\ posted = {}
    /\ view = [v \in Views |-> "idle"]
    /\ email = [v \in Views |-> NoEmail]
    /\ bound = FALSE
    /\ queue = << >>
    /\ unacked = << >>
    /\ consumer = "wait"
    /\ ok = {}
    /\ missed = {}
    /\ published = << >>
    /\ attempts = << >>
    /\ losses = 0

--------------------------------------------------------------------------------
(* sendEmailView *)

Fault(kind) == kind \in Faults

Loss(kind) == Fault(kind) /\ losses < MaxLosses /\ losses' = losses + 1

Goto(v, stage) == view' = [view EXCEPT ![v] = stage]

Return(v) ==
    /\ Goto(v, "idle")
    /\ email' = [email EXCEPT ![v] = NoEmail]

\* checkParamsMiddleware answers 400 itself or calls the view.
Post(v, e) ==
    /\ up
    /\ view[v] = "idle"
    /\ e \notin posted
    /\ posted' = posted \cup {e}
    /\ \/ /\ ValidParams(e)
          /\ Goto(v, "dial")
          /\ email' = [email EXCEPT ![v] = e]
       \/ /\ ~ValidParams(e)
          /\ UNCHANGED views
    /\ UNCHANGED <<up, broker, consumer, ok, history, losses>>

\* NewRabbitMQ opens a connection and a channel.
Dial(v) ==
    /\ up
    /\ view[v] = "dial"
    /\ Goto(v, "bind")
    /\ UNCHANGED <<up, posted, email, broker, consumer, ok, history, losses>>

\* Mutant of QueueBind: the queue is left as it is.
QueueBindSkipped(v) ==
    /\ up
    /\ view[v] = "bind"
    /\ Goto(v, "send")
    /\ UNCHANGED <<up, posted, email, broker, consumer, ok, history, losses>>

QueueBind(v) ==
    /\ up
    /\ view[v] = "bind"
    /\ \/ /\ bound' = TRUE
          /\ Goto(v, "send")
          /\ UNCHANGED email
       \/ /\ Fault("bind")
          /\ bound' \in {bound, TRUE}
          /\ Return(v)
    /\ UNCHANGED <<up, posted, queue, unacked, consumer, ok, history, losses>>

\* The exchange passes the message to the queue, if that is bound to it.
Enqueue(e) ==
    /\ queue' = IF bound THEN Append(queue, e) ELSE queue
    /\ published' = IF bound THEN Append(published, e) ELSE published

\* Publish returns what writing to the connection returned: no confirm is waited
\* for.  The deferred closes tell whether the broker took what was written, and
\* nobody looks at their errors.
Send(v) ==
    /\ up
    /\ view[v] = "send"
    /\ \/ Enqueue(email[v]) /\ ok' = ok \cup {email[v]} /\ UNCHANGED missed
       \/ Fault("publish") /\ Enqueue(email[v]) /\ UNCHANGED <<ok, missed>>
       \/ Fault("publish") /\ UNCHANGED <<queue, published, ok, missed>>
       \/ /\ Fault("close")
          /\ ok' = ok \cup {email[v]}
          /\ missed' = missed \cup {email[v]}
          /\ UNCHANGED <<queue, published>>
    /\ Return(v)
    /\ UNCHANGED <<up, posted, bound, unacked, consumer, attempts, losses>>

--------------------------------------------------------------------------------
(* StartConsumer *)

Deliver ==
    /\ up /\ consumer # "ended"
    /\ queue # << >>
    /\ Len(unacked) < Prefetch
    /\ unacked' = Append(unacked, Head(queue))
    /\ queue' = Tail(queue)
    /\ UNCHANGED <<up, posted, views, bound, consumer, ok, history, losses>>

\* One attempt at the SMTP server: Email.Send dials it for every mail.
SendMail(e) == attempts' = Append(attempts, e)

\* Mutant of Callback: a goroutine for every delivery, in any order.
CallbackConcurrent ==
    /\ up /\ consumer = "wait"
    /\ \E i \in DOMAIN unacked :
        /\ SendMail(unacked[i])
        /\ unacked' = <<unacked[i]>> \o SubSeq(unacked, 1, i - 1) \o SubSeq(unacked, i + 1, Len(unacked))
    /\ consumer' = "ack"
    /\ UNCHANGED <<up, posted, views, bound, queue, ok, missed, published, losses>>

\* Mutant of Callback: the broker takes a delivery for acknowledged when it has
\* sent it (Consume with autoAck).
CallbackAutoAck ==
    /\ up /\ consumer = "wait"
    /\ unacked # << >>
    /\ SendMail(Head(unacked))
    /\ unacked' = << >>
    /\ consumer' = "ack"
    /\ UNCHANGED <<up, posted, views, bound, queue, ok, missed, published, losses>>

\* callback sends the mail, and goes on whatever it returns.
Callback ==
    /\ up /\ consumer = "wait"
    /\ unacked # << >>
    /\ SendMail(Head(unacked))
    /\ consumer' = "ack"
    /\ UNCHANGED <<up, posted, views, broker, ok, missed, published, losses>>

\* Mutant of Ack: the delivery is rejected and returned to the queue.
AckRequeue ==
    /\ up /\ consumer = "ack"
    /\ queue' = <<Head(unacked)>> \o queue
    /\ unacked' = Tail(unacked)
    /\ consumer' = "wait"
    /\ UNCHANGED <<up, posted, views, bound, ok, history, losses>>

\* Mutant of Ack: every delivery so far is acknowledged, Ack(true), and those
\* the consumer has not come to are dropped.
AckMultiple ==
    /\ up /\ consumer = "ack"
    /\ unacked' = << >>
    /\ consumer' = "wait"
    /\ UNCHANGED <<up, posted, views, bound, queue, ok, history, losses>>

Ack ==
    /\ up /\ consumer = "ack"
    /\ unacked' = Tail(unacked)
    /\ consumer' = "wait"
    /\ UNCHANGED <<up, posted, views, bound, queue, ok, history, losses>>

--------------------------------------------------------------------------------
(* What goes wrong *)

Requeue ==
    /\ queue' = unacked \o queue
    /\ unacked' = << >>
    /\ UNCHANGED bound

\* The consumer's connection is lost: range ends, StartConsumer returns, and the
\* goroutine main started it in with it.  An Ack that was due is an error nobody
\* looks at.
Disconnect ==
    /\ up /\ consumer # "ended"
    /\ Loss("disconnect")
    /\ Requeue
    /\ consumer' = "ended"
    /\ UNCHANGED <<up, posted, views, ok, history>>

\* The process dies, or a view that cannot dial panics and nothing recovers it.
Crash ==
    /\ up
    /\ Loss("crash") \/ (Loss("dial") /\ \E v \in Views : view[v] = "dial")
    /\ up' = FALSE
    /\ view' = [v \in Views |-> "idle"]
    /\ email' = [v \in Views |-> NoEmail]
    /\ Requeue
    /\ consumer' = "ended"
    /\ UNCHANGED <<posted, ok, history>>

\* Somebody starts the service again.
Restart ==
    /\ ~up
    /\ up' = TRUE
    /\ consumer' = "wait"
    /\ UNCHANGED <<posted, views, broker, ok, history, losses>>

View(v) == Dial(v) \/ QueueBind(v) \/ Send(v)

Consumer == Deliver \/ Callback \/ Ack

Next ==
    \/ \E v \in Views : (\E e \in Emails : Post(v, e)) \/ View(v)
    \/ Consumer
    \/ Disconnect \/ Crash \/ Restart

Spec == Init /\ [][Next]_vars

\* Views and the consumer run when they can.  No client need post, nothing need
\* fail, and nobody need start a service that died.
Fairness == WF_vars(Consumer) /\ \A v \in Views : WF_vars(View(v))

FairSpec == Spec /\ Fairness

--------------------------------------------------------------------------------
(* Properties. *)

\* An email answered "ok" is in the queue, delivered, or was handed to the SMTP
\* server, whatever crashes and lost connections of the consumer come between.  The
\* one exception is an email whose own view lost its connection between Publish and
\* the deferred closes: it is answered "ok" and gone (Send, callback).
AnsweredEmailIsKept ==
    \A e \in ok \ missed : e \in Range(queue) \cup Range(unacked) \cup Range(attempts)

Tries(e) == {j \in DOMAIN attempts : attempts[j] = e}

\* An email is handed to the SMTP server once, and once more for every loss of
\* the process or of the consumer's connection at most: callback acknowledges it
\* also when sending failed, and nothing else tries again.
RetriedOnlyAfterLoss ==
    \A e \in Emails : Cardinality(Tries(e)) <= 1 + losses

\* Emails are first tried in the order they entered the queue, also when some of
\* them return to it: what is tried entered it, and all that entered it before
\* was tried before (one consumer, callback called in its loop).
TriedInOrder ==
    \A j \in DOMAIN attempts : \E i \in DOMAIN published :
        /\ published[i] = attempts[j]
        /\ \A k \in 1..(i - 1) : \E l \in 1..(j - 1) : attempts[l] = published[k]

\* If the service stays up and its consumer keeps its connection from some time
\* on, every email answered "ok" is tried, but for those the broker never took.
\* Without the condition on the consumer this is false: main starts it once and
\* never again.
AnsweredEmailIsTried ==
    <>[](up /\ consumer # "ended") =>
        \A e \in Emails : e \in ok \ missed ~> e \in Range(attempts)

\* The emails that entered the queue and are not acknowledged, in their order.
Pending == unacked \o queue

\* Views, deliveries, lost connections and restarts together are a mailbox: emails
\* wait in one order, those answered wait or were missed for good, and an email
\* leaves it only when tried, once for every loss more (Send, callback,
\* StartConsumer).
Box == INSTANCE Mailbox WITH
    taken <- Range(published),
    waiting <- Pending,
    tried <- consumer = "ack",
    answered <- ok

ImplementsMailbox == Box!Spec
================================================================================
