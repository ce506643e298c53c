---------------------------- MODULE ShortenerProofs ----------------------------
(***************************************************************************)
(* Theorems about Shortener for any handlers, names, ids and URLs.          *)
(***************************************************************************)
EXTENDS Shortener, TLAPS

USE DEF Fault

Probe(h) == ProbeFree(h) \/ ProbeBlind(h) \/ ProbeTaken(h)

\* The name and the link of a random slot belong to one number; those of a suggested
\* one are the same string.
Shaped(random, s) ==
    IF random THEN \E id \in Ids : s.key = Decimal[id] /\ s.path = Base62[id]
    ELSE s.key = s.path

LEMMA ShapedKey ==
    ASSUME NEW s \in Slots, NEW random \in BOOLEAN, Shaped(random, s)
    PROVE  s.key \in KeysOf(s.path)
BY DEF Shaped, KeysOf

\* What a probe leaves in the slot: a link and the name it stands for, which is free
\* if the loop ended and EXISTS did not fail.
LEMMA ProbeDraws ==
    ASSUME TypeOK, NEW h \in Handlers, Probe(h)
    PROVE  \E s \in Slots : /\ slot' = [slot EXCEPT ![h] = s]
                            /\ Shaped(req[h].similarTo = Empty, s)
                            /\ s.key \in KeysOf(s.path)
                            /\ ~ProbeTaken(h) => s.blind \/ ~Taken(s.key)
<1>1. ASSUME NEW d \in Draws(h), pc[h] = "probe"
      PROVE  d \in Slots /\ Shaped(req[h].similarTo = Empty, d)
  <2>1. d \in Slots
    <3>1. slot[h].key \in Names
      BY DEF TypeOK, Slots
    <3>2. Suggestions[slot[h].key] \subseteq Names
      BY <3>1, ShortenerAssumption
    <3>3. \E key, path \in Names : d = SlotOf(key, path)
      BY <1>1, <3>2, ShortenerAssumption DEF Draws
    <3>4. \A key, path \in Names : SlotOf(key, path) \in Slots
      BY DEF SlotOf, Slots
    <3>. QED BY <3>3, <3>4
  <2>2. Shaped(req[h].similarTo = Empty, d)
    BY <1>1 DEF Draws, SlotOf, Shaped
  <2>. QED BY <2>1, <2>2
<1>2. CASE ProbeFree(h) \/ ProbeTaken(h)
  BY <1>1, <1>2, ShapedKey DEF ProbeFree, ProbeTaken
<1>3. CASE ProbeBlind(h)
  <2>1. PICK d \in Draws(h) :
          slot' = [slot EXCEPT ![h] = [key |-> d.key, path |-> d.path, blind |-> TRUE]]
    BY <1>3 DEF ProbeBlind
  <2> DEFINE s == [key |-> d.key, path |-> d.path, blind |-> TRUE]
  <2>2. d \in Slots /\ Shaped(req[h].similarTo = Empty, d)
    BY <1>1, <1>3 DEF ProbeBlind
  <2>3. s \in Slots /\ s.blind
    BY <2>2 DEF Slots
  <2>4. Shaped(req[h].similarTo = Empty, s)
    BY <2>2 DEF Shaped
  <2>. QED BY <2>1, <2>3, <2>4, ShapedKey
<1>. QED BY <1>2, <1>3 DEF Probe

\* The part of TypeOK about the handlers' own state, and the part about the
\* stores and the history.
LocalsTyped ==
    /\ pc \in [Handlers -> Stages]
    /\ req \in [Handlers -> Requests \cup {NoRequest}]
    /\ \A h \in Handlers : pc[h] # "idle" => req[h] \in Requests
    /\ slot \in [Handlers -> Slots]
    /\ tx \in [Handlers -> {"none", "open", "nil"}]
    /\ link \in [Handlers -> Nat]

StoresTyped ==
    /\ redis \in [Names -> StoredURLs \cup {NoURL}]
    /\ links \subseteq [id : Nat, url : URLs, path : Names]
    /\ userLinks \subseteq [user : Users, link : Nat]
    /\ nextLink \in Nat
    /\ received \in Nat
    /\ answered \in Seq(Answers)
    /\ logged \subseteq Nat

LEMMA TypeParts == TypeOK <=> LocalsTyped /\ StoresTyped
BY DEF TypeOK, LocalsTyped, StoresTyped

\* A handler that returns leaves well-typed locals behind.
LEMMA ReturnTyped ==
    ASSUME LocalsTyped, NEW h \in Handlers, Return(h)
    PROVE  LocalsTyped'
<1>1. NoSlot \in Slots
  BY ShortenerAssumption DEF NoSlot, SlotOf, Slots
<1>. QED BY <1>1 DEF LocalsTyped, Return, Goto, Stages

\* Every variable keeps its type: every call of EnCode leaves a request, a key
\* and rows that the next call can use.
THEOREM TypeCorrect == Spec => []TypeOK
<1>1. Init => TypeOK
  BY ShortenerAssumption DEF Init, TypeOK, Stages, Slots, NoSlot, SlotOf
<1>2. TypeOK /\ [Next]_vars => TypeOK'
  <2> SUFFICES ASSUME LocalsTyped, StoresTyped, [Next]_vars
               PROVE  LocalsTyped' /\ StoresTyped'
    BY TypeParts, PTL
  <2>0. TypeOK
    BY TypeParts
  <2>1. ASSUME NEW h \in Handlers, Receive(h) PROVE LocalsTyped' /\ StoresTyped'
    <3>1. PICK user \in Users, url \in URLs, similarTo \in Wishes :
            /\ req' = [req EXCEPT ![h] = [user |-> user, url |-> url,
                         similarTo |-> similarTo, since |-> Len(answered)]]
            /\ slot' = [slot EXCEPT ![h] = SlotOf(similarTo, similarTo)]
      BY <2>1 DEF Receive
    <3>2. Len(answered) \in Nat
      BY DEF StoresTyped
    <3>3. /\ [user |-> user, url |-> url, similarTo |-> similarTo,
               since |-> Len(answered)] \in Requests
          /\ SlotOf(similarTo, similarTo) \in Slots
      BY <3>2, ShortenerAssumption DEF Requests, Slots, SlotOf
    <3>4. LocalsTyped'
      BY <2>1, <3>1, <3>3 DEF Receive, LocalsTyped, Goto, Stages
    <3>5. StoresTyped'
      BY <2>1 DEF Receive, StoresTyped, stores, history
    <3>. QED BY <3>4, <3>5
  <2>2. ASSUME NEW h \in Handlers, Probe(h) PROVE LocalsTyped' /\ StoresTyped'
    <3>1. PICK s \in Slots : slot' = [slot EXCEPT ![h] = s]
      BY <2>0, <2>2, ProbeDraws
    <3>2. LocalsTyped'
      BY <2>2, <3>1 DEF Probe, ProbeFree, ProbeBlind, ProbeTaken, LocalsTyped, Goto, Stages
    <3>3. StoresTyped'
      BY <2>2 DEF Probe, ProbeFree, ProbeBlind, ProbeTaken, StoresTyped, stores, history
    <3>. QED BY <3>2, <3>3
  <2>3. ASSUME NEW h \in Handlers, Save(h) PROVE LocalsTyped' /\ StoresTyped'
    <3>1. Canonical[req[h].url] \in StoredURLs
      BY <2>3, ShortenerAssumption DEF Save, LocalsTyped, Requests
    <3>2. StoresTyped'
      BY <2>3, <3>1 DEF Save, StoresTyped, Fail
    <3>3. LocalsTyped'
      <4>1. CASE Return(h)
        BY <4>1, ReturnTyped
      <4>2. CASE Goto(h, "begin") /\ UNCHANGED <<req, slot, tx, link>>
        BY <4>2, <2>3 DEF Save, LocalsTyped, Goto, Stages
      <4>. QED BY <2>3, <4>1, <4>2 DEF Save, Fail
    <3>. QED BY <3>2, <3>3
  <2>4. ASSUME NEW h \in Handlers, NewTx(h) PROVE LocalsTyped' /\ StoresTyped'
    BY <2>4 DEF NewTx, LocalsTyped, StoresTyped, stores, history, Goto, Stages
  <2>5. ASSUME NEW h \in Handlers, CreateLink(h) PROVE LocalsTyped' /\ StoresTyped'
    <3>1. req[h] \in Requests /\ slot[h] \in Slots
      BY <2>5 DEF CreateLink, LocalsTyped
    <3>2. LinkRow(h, nextLink) \in [id : Nat, url : URLs, path : Names]
      BY <3>1 DEF LinkRow, Requests, Slots, StoresTyped
    <3>3. StoresTyped'
      BY <2>5, <3>2 DEF CreateLink, InsertFails, Fail, StoresTyped, stores
    <3>4. CASE InsertFails(h)
      BY <3>3, <3>4, ReturnTyped DEF InsertFails, Fail
    <3>5. CASE ~InsertFails(h)
      BY <2>5, <3>3, <3>5 DEF CreateLink, LocalsTyped, StoresTyped, Goto, Stages
    <3>. QED BY <3>4, <3>5
  <2>6. ASSUME NEW h \in Handlers, CreateUserLinkRelation(h)
        PROVE  LocalsTyped' /\ StoresTyped'
    <3>1. req[h] \in Requests /\ link[h] \in Nat
      BY <2>6 DEF CreateUserLinkRelation, LocalsTyped
    <3>2. OwnerRow(h) \in [user : Users, link : Nat]
      BY <3>1 DEF OwnerRow, Requests
    <3>3. StoresTyped'
      BY <2>6, <3>2
         DEF CreateUserLinkRelation, InsertFails, Fail, StoresTyped, stores, history
    <3>4. CASE InsertFails(h)
      BY <3>3, <3>4, ReturnTyped DEF InsertFails, Fail
    <3>5. CASE ~InsertFails(h)
      BY <2>6, <3>3, <3>5 DEF CreateUserLinkRelation, LocalsTyped, Goto, Stages
    <3>. QED BY <3>4, <3>5
  <2>7. ASSUME NEW h \in Handlers, Commit(h) PROVE LocalsTyped' /\ StoresTyped'
    <3>1. req[h] \in Requests /\ slot[h] \in Slots /\ link[h] \in Nat
      BY <2>7 DEF Commit, LocalsTyped
    <3>2. /\ LinkRow(h, link[h]) \in [id : Nat, url : URLs, path : Names]
          /\ OwnerRow(h) \in [user : Users, link : Nat]
      BY <3>1 DEF LinkRow, OwnerRow, Requests, Slots
    <3>3. Answer(h) \in Answers
      BY <3>1 DEF Answer, Answers, Requests, Slots
    <3>4. StoresTyped'
      <4>1. answered' \in Seq(Answers)
        BY <2>7, <3>3 DEF Commit, AnswerLink, Fail, StoresTyped
      <4>. QED BY <2>7, <3>1, <3>2, <4>1 DEF Commit, RowsVisible, StoresTyped
    <3>5. Return(h)
      BY <2>7 DEF Commit, AnswerLink, Fail
    <3>. QED BY <3>4, <3>5, ReturnTyped
  <2>8. ASSUME Crash PROVE LocalsTyped' /\ StoresTyped'
    <3>1. NoSlot \in Slots
      BY ShortenerAssumption DEF NoSlot, SlotOf, Slots
    <3>. QED BY <2>8, <3>1 DEF Crash, LocalsTyped, StoresTyped, stores, history, Stages
  <2>9. CASE UNCHANGED vars
    BY <2>9 DEF vars, local, stores, history, LocalsTyped, StoresTyped
  <2>10. ASSUME NEW h \in Handlers, SuggestPanics(h) PROVE LocalsTyped' /\ StoresTyped'
    BY <2>10, ReturnTyped DEF SuggestPanics, Fail, StoresTyped, stores
  <2>. QED BY <2>1, <2>2, <2>3, <2>4, <2>5, <2>6, <2>7, <2>8, <2>9, <2>10
       DEF Next, Step, Probe
<1>. QED BY <1>1, <1>2, PTL DEF Spec

--------------------------------------------------------------------------------
(* A name once answered is not answered to a later request. *)

Probed == {"save", "begin", "insertLink", "insertRelation", "commit"}
Saved == Probed \ {"save"}

\* The uniqueness of the names the links are bound under.
KeysUnique ==
    \A i, j \in DOMAIN answered :
        /\ i < j
        /\ answered[i].slot.key = answered[j].slot.key
        => answered[j].since < i \/ answered[j].slot.blind

AnswersBound == \A i \in DOMAIN answered : Taken(answered[i].slot.key)

SinceIsPast == \A h \in Handlers : pc[h] # "idle" => req[h].since <= Len(answered)

SlotIsNew ==
    \A h \in Handlers : pc[h] \in Probed /\ ~slot[h].blind =>
        \A i \in 1..req[h].since : slot[h].key # answered[i].slot.key

SlotIsBound == \A h \in Handlers : pc[h] \in Saved => Taken(slot[h].key)

UniquenessInv ==
    KeysUnique /\ AnswersBound /\ SinceIsPast /\ SlotIsNew /\ SlotIsBound

\* No step unbinds a name.
LEMMA BindingsStay ==
    ASSUME TypeOK, [Next]_vars, NEW n \in Names, Taken(n)
    PROVE  Taken(n)'
<1>1. ASSUME NEW h \in Handlers, Save(h) PROVE Taken(n)'
  <2>1. Canonical[req[h].url] \in StoredURLs
    BY <1>1, ShortenerAssumption DEF Save, TypeOK, Requests
  <2>. QED BY <1>1, <2>1, ShortenerAssumption DEF Save, TypeOK, Taken
<1>2. ASSUME ~ \E h \in Handlers : Save(h) PROVE redis' = redis
  BY <1>2 DEF Next, Step, Receive, ProbeFree, ProbeBlind, ProbeTaken, SuggestPanics,
       NewTx, CreateLink,
       CreateUserLinkRelation, InsertFails, Commit, Crash, stores, vars
<1>. QED BY <1>1, <1>2 DEF Taken

\* The five parts hold together from the first state on.
LEMMA UniquenessInductive == Spec => [](TypeOK /\ UniquenessInv)
<1>1. Init => UniquenessInv
  BY DEF Init, UniquenessInv, KeysUnique, AnswersBound, SinceIsPast,
         SlotIsNew, SlotIsBound, Probed, Saved
<1>2. TypeOK /\ TypeOK' /\ UniquenessInv /\ [Next]_vars => UniquenessInv'
  <2> SUFFICES ASSUME TypeOK, TypeOK', UniquenessInv, [Next]_vars
               PROVE  UniquenessInv'
    OBVIOUS
  <2> USE DEF UniquenessInv, Probed, Saved
  <2>0. \A n \in Names : Taken(n) => Taken(n)'
    BY BindingsStay
  <2>a. \A i \in DOMAIN answered : answered[i] \in Answers /\ answered[i].slot.key \in Names
    <3>1. \A i \in DOMAIN answered : answered[i] \in Answers
      BY DEF TypeOK
    <3>. QED BY <3>1 DEF Answers, Slots
  \* Steps that answer nothing keep the first two parts.
  <2>b. UNCHANGED answered => KeysUnique' /\ AnswersBound'
    BY <2>0, <2>a DEF KeysUnique, AnswersBound
  <2>1. ASSUME NEW h \in Handlers, Receive(h) PROVE UniquenessInv'
    <3>1. UNCHANGED <<answered, redis>> /\ pc' = [pc EXCEPT ![h] = "probe"]
      BY <2>1 DEF Receive, Goto, stores, history
    <3>2. /\ req'[h].since = Len(answered)
          /\ \A g \in Handlers \ {h} : req'[g] = req[g] /\ slot'[g] = slot[g]
      BY <2>1 DEF Receive, TypeOK
    <3>3. Len(answered) \in Nat
      BY DEF TypeOK
    <3>4. SinceIsPast'
      BY <3>1, <3>2, <3>3 DEF SinceIsPast, TypeOK
    <3>5. SlotIsNew' /\ SlotIsBound'
      BY <3>1, <3>2 DEF SlotIsNew, SlotIsBound, Taken, TypeOK
    <3>. QED BY <2>b, <3>1, <3>4, <3>5
  <2>2. ASSUME NEW h \in Handlers, ProbeFree(h) \/ ProbeBlind(h) PROVE UniquenessInv'
    <3>1. UNCHANGED <<answered, redis, req>> /\ pc' = [pc EXCEPT ![h] = "save"]
      BY <2>2 DEF ProbeFree, ProbeBlind, Goto, stores, history
    <3>2. pc[h] = "probe" /\ SinceIsPast'
      BY <2>2, <3>1 DEF ProbeFree, ProbeBlind, SinceIsPast, TypeOK
    <3>3. ~ProbeTaken(h)
      BY <3>1, <3>2 DEF ProbeTaken, TypeOK
    <3>4. /\ slot'[h].blind \/ ~Taken(slot'[h].key)
          /\ \A g \in Handlers \ {h} : slot'[g] = slot[g]
      BY <2>2, <3>3, ProbeDraws DEF Probe, TypeOK
    <3>5. ~slot'[h].blind => \A i \in 1..req[h].since : slot'[h].key # answered[i].slot.key
      <4>1. \A i \in 1..req[h].since : Taken(answered[i].slot.key)
        <5>1. req[h].since \in Nat /\ req[h].since <= Len(answered)
          BY <3>2 DEF SinceIsPast, TypeOK, Requests
        <5>2. DOMAIN answered = 1..Len(answered) /\ Len(answered) \in Nat
          BY DEF TypeOK
        <5>. QED BY <5>1, <5>2 DEF AnswersBound
      <4>. QED BY <3>4, <4>1
    <3>6. SlotIsNew' /\ SlotIsBound'
      BY <3>1, <3>4, <3>5 DEF SlotIsNew, SlotIsBound, Taken, TypeOK
    <3>. QED BY <2>b, <3>1, <3>2, <3>6
  <2>3. ASSUME NEW h \in Handlers, ProbeTaken(h) PROVE UniquenessInv'
    BY <2>3, <2>b
       DEF ProbeTaken, stores, history, SinceIsPast, SlotIsNew, SlotIsBound, Taken, TypeOK
  <2>4. ASSUME NEW h \in Handlers, Return(h), UNCHANGED answered
        PROVE  UniquenessInv'
    BY <2>4, <2>b, <2>0 DEF Return, Goto, SinceIsPast, SlotIsNew, SlotIsBound, TypeOK, Slots
  <2>5. ASSUME NEW h \in Handlers, Save(h) PROVE UniquenessInv'
    <3>1. CASE Fail(h)
      BY <3>1, <2>4 DEF Fail
    <3>2. CASE /\ redis' = [redis EXCEPT ![slot[h].key] = Canonical[req[h].url]]
               /\ pc' = [pc EXCEPT ![h] = "begin"]
               /\ UNCHANGED <<req, slot, tx, link, answered>>
      <4>1. Canonical[req[h].url] # NoURL /\ slot[h].key \in Names
        BY <2>5, ShortenerAssumption DEF Save, TypeOK, Requests, Slots
      <4>2. Taken(slot[h].key)'
        BY <3>2, <4>1 DEF Taken, TypeOK
      <4>3. pc[h] = "save"
        BY <2>5 DEF Save
      <4>4. \A g \in Handlers : slot[g].key \in Names
        BY DEF TypeOK, Slots
      <4>5. SlotIsBound'
        BY <3>2, <4>2, <4>4, <2>0 DEF SlotIsBound, TypeOK
      <4>6. SinceIsPast' /\ SlotIsNew'
        BY <3>2, <4>3 DEF SinceIsPast, SlotIsNew, TypeOK
      <4>. QED BY <2>b, <3>2, <4>5, <4>6
    <3>. QED BY <2>5, <3>1, <3>2 DEF Save, Goto
  \* The steps of createLink that go on neither touch Redis nor the history.
  <2>6. ASSUME NEW h \in Handlers, pc[h] \in Saved,
               NEW stage \in Saved, Goto(h, stage),
               UNCHANGED <<req, slot, redis, answered>>
        PROVE  UniquenessInv'
    BY <2>6, <2>b DEF Goto, SinceIsPast, SlotIsNew, SlotIsBound, Taken, TypeOK
  <2>7. ASSUME NEW h \in Handlers, NewTx(h) PROVE UniquenessInv'
    BY <2>7, <2>6 DEF NewTx, stores, history
  <2>8. ASSUME NEW h \in Handlers, CreateLink(h) PROVE UniquenessInv'
    BY <2>8, <2>6, <2>4 DEF CreateLink, InsertFails, Fail
  <2>9. ASSUME NEW h \in Handlers, CreateUserLinkRelation(h) PROVE UniquenessInv'
    BY <2>9, <2>6, <2>4 DEF CreateUserLinkRelation, InsertFails, Fail, history
  <2>10. ASSUME NEW h \in Handlers, Commit(h) PROVE UniquenessInv'
    <3>1. CASE Fail(h)
      BY <3>1, <2>4 DEF Fail
    <3>2. CASE AnswerLink(h)
      <4>1. /\ pc[h] = "commit" /\ UNCHANGED redis
            /\ req[h] \in Requests /\ slot[h] \in Slots
        BY <2>10 DEF Commit, TypeOK
      <4> DEFINE last == Len(answered) + 1
      <4>2. /\ answered' = Append(answered, Answer(h))
            /\ Len(answered) \in Nat /\ DOMAIN answered = 1..Len(answered)
        BY <3>2 DEF AnswerLink, TypeOK
      <4>3. /\ DOMAIN answered' = 1..last /\ Len(answered') = last
            /\ answered'[last] = Answer(h)
            /\ \A i \in 1..Len(answered) : answered'[i] = answered[i]
        BY <4>2 DEF TypeOK
      <4>4. /\ Answer(h).slot = slot[h] /\ Answer(h).since = req[h].since
            /\ slot[h].key \in Names /\ req[h].since \in Nat
        BY <4>1 DEF Answer, Requests, Slots
      <4>5. ~slot[h].blind =>
              \A i \in 1..Len(answered) : answered[i].slot.key = slot[h].key => req[h].since < i
        BY <4>1, <4>4 DEF SlotIsNew
      <4>6. KeysUnique'
        BY <4>2, <4>3, <4>4, <4>5 DEF KeysUnique
      <4>7. AnswersBound'
        BY <2>0, <2>a, <4>1, <4>2, <4>3, <4>4 DEF AnswersBound, SlotIsBound
      <4>8. /\ pc' = [pc EXCEPT ![h] = "idle"]
            /\ \A g \in Handlers \ {h} : req'[g] = req[g] /\ slot'[g] = slot[g]
        BY <3>2 DEF AnswerLink, Return, Goto, TypeOK
      <4>9. \A g \in Handlers : pc[g] # "idle" => req[g].since \in Nat
        BY DEF TypeOK, Requests
      <4>10. SinceIsPast'
        BY <4>2, <4>3, <4>8, <4>9 DEF SinceIsPast, TypeOK
      <4>11. SlotIsNew'
        <5> SUFFICES ASSUME NEW g \in Handlers, pc'[g] \in Probed, ~slot'[g].blind,
                            NEW i \in 1..req'[g].since
                     PROVE  slot'[g].key # answered'[i].slot.key
          BY DEF SlotIsNew
        <5>1. g # h /\ pc[g] \in Probed /\ req'[g] = req[g] /\ slot'[g] = slot[g]
          BY <4>8 DEF TypeOK
        <5>2. i \in 1..req[g].since /\ i \in 1..Len(answered)
          BY <5>1, <4>2, <4>9 DEF SinceIsPast
        <5>. QED BY <5>1, <5>2, <4>3 DEF SlotIsNew
      <4>12. SlotIsBound'
        BY <4>1, <4>8 DEF SlotIsBound, Taken, TypeOK
      <4>. QED BY <4>6, <4>7, <4>10, <4>11, <4>12
    <3>. QED BY <2>10, <3>1, <3>2 DEF Commit
  <2>11. ASSUME Crash PROVE UniquenessInv'
    BY <2>11, <2>b DEF Crash, history, SinceIsPast, SlotIsNew, SlotIsBound
  <2>12. CASE UNCHANGED vars
    BY <2>12, <2>b DEF vars, local, stores, history, SinceIsPast, SlotIsNew, SlotIsBound, Taken
  <2>13. ASSUME NEW h \in Handlers, SuggestPanics(h) PROVE UniquenessInv'
    BY <2>13, <2>4 DEF SuggestPanics, Fail
  <2>. QED BY <2>1, <2>2, <2>3, <2>5, <2>7, <2>8, <2>9, <2>10, <2>11, <2>12, <2>13
       DEF Next, Step
<1>. QED BY <1>1, <1>2, TypeCorrect, PTL DEF Spec

\* What is answered has the shape of what was asked for: nothing touches a slot after
\* the probe.
SlotsShaped ==
    \A h \in Handlers : pc[h] \in Probed => Shaped(req[h].similarTo = Empty, slot[h])

AnswersShaped ==
    \A i \in DOMAIN answered : Shaped(Random(answered[i]), answered[i].slot)

LEMMA ShapesInductive == Spec => [](SlotsShaped /\ AnswersShaped)
<1>1. Init => SlotsShaped /\ AnswersShaped
  BY DEF Init, SlotsShaped, AnswersShaped, Probed, Saved
<1>2. TypeOK /\ SlotsShaped /\ AnswersShaped /\ [Next]_vars => SlotsShaped' /\ AnswersShaped'
  <2> SUFFICES ASSUME TypeOK, SlotsShaped, AnswersShaped, [Next]_vars
               PROVE  SlotsShaped' /\ AnswersShaped'
    OBVIOUS
  <2> USE DEF Probed, Saved
  <2>1. ASSUME NEW h \in Handlers, Probe(h) PROVE SlotsShaped'
    <3>1. PICK s \in Slots :
            slot' = [slot EXCEPT ![h] = s] /\ Shaped(req[h].similarTo = Empty, s)
      BY <2>1, ProbeDraws
    <3>2. req' = req /\ \A g \in Handlers \ {h} : pc'[g] = pc[g]
      BY <2>1 DEF Probe, ProbeFree, ProbeBlind, ProbeTaken, Goto, TypeOK
    <3>. QED BY <3>1, <3>2 DEF SlotsShaped, TypeOK
  <2>2. ASSUME NEW h \in Handlers, Return(h) PROVE SlotsShaped'
    BY <2>2 DEF Return, Goto, SlotsShaped, TypeOK
  <2>3. ASSUME NEW h \in Handlers, pc[h] \in Probed, NEW stage, Goto(h, stage),
               UNCHANGED <<req, slot>>
        PROVE  SlotsShaped'
    BY <2>3 DEF Goto, SlotsShaped, TypeOK
  <2>4. ASSUME NEW h \in Handlers, Receive(h) PROVE SlotsShaped'
    BY <2>4 DEF Receive, Goto, SlotsShaped, TypeOK
  <2>5. ASSUME NEW h \in Handlers, Save(h) \/ NewTx(h) PROVE SlotsShaped'
    BY <2>5, <2>2, <2>3 DEF Save, NewTx, Fail
  <2>6. ASSUME NEW h \in Handlers, CreateLink(h) \/ CreateUserLinkRelation(h)
        PROVE  SlotsShaped'
    BY <2>6, <2>2, <2>3 DEF CreateLink, CreateUserLinkRelation, InsertFails, Fail
  <2>7. ASSUME NEW h \in Handlers, Commit(h) PROVE SlotsShaped' /\ AnswersShaped'
    <3>1. SlotsShaped'
      BY <2>7, <2>2 DEF Commit, AnswerLink, Fail
    <3>2. CASE Fail(h)
      BY <3>1, <3>2 DEF Fail, AnswersShaped
    <3>3. CASE AnswerLink(h)
      <4>1. Shaped(Random(Answer(h)), Answer(h).slot)
        BY <2>7 DEF Commit, SlotsShaped, Answer, Random
      <4>2. answered' = Append(answered, Answer(h)) /\ answered \in Seq(Answers)
        BY <3>3 DEF AnswerLink, TypeOK
      <4>3. \A i \in DOMAIN answered' :
               \/ i \in DOMAIN answered /\ answered'[i] = answered[i]
               \/ answered'[i] = Answer(h)
        BY <4>2
      <4>. QED BY <3>1, <4>1, <4>3 DEF AnswersShaped
    <3>. QED BY <2>7, <3>2, <3>3 DEF Commit
  <2>8. ASSUME ~\E h \in Handlers : Commit(h) PROVE AnswersShaped'
    <3>1. UNCHANGED answered
      BY <2>8 DEF Next, Step, Receive, ProbeFree, ProbeBlind, ProbeTaken, SuggestPanics,
           Save, NewTx, CreateLink, CreateUserLinkRelation, InsertFails, Fail, Crash,
           history, vars
    <3>. QED BY <3>1 DEF AnswersShaped
  <2>9. CASE Crash
    BY <2>7, <2>8, <2>9 DEF Crash, SlotsShaped
  <2>10. CASE UNCHANGED vars
    BY <2>7, <2>8, <2>10 DEF vars, local, SlotsShaped
  <2>11. ASSUME NEW h \in Handlers, SuggestPanics(h) PROVE SlotsShaped'
    BY <2>11, <2>2 DEF SuggestPanics, Fail
  <2>. QED BY <2>1, <2>4, <2>5, <2>6, <2>7, <2>8, <2>9, <2>10, <2>11 DEF Next, Step, Probe
<1>. QED BY <1>1, <1>2, TypeCorrect, PTL DEF Spec

\* Whatever fails, a link answered once is answered to a later request only if EXISTS
\* failed on its name, or if one of the two is a number and the other spells its text:
\* numbers have different texts, so that two random links with one text have one name.
THEOREM AnswersUnique == Spec => []SequentialUniqueness
<1>1. TypeOK /\ UniquenessInv /\ AnswersShaped => SequentialUniqueness
  <2> SUFFICES ASSUME TypeOK, UniquenessInv, AnswersShaped,
                      NEW i \in DOMAIN answered, NEW j \in DOMAIN answered, i < j,
                      answered[i].slot.path = answered[j].slot.path,
                      Random(answered[i]) = Random(answered[j])
               PROVE  answered[j].since < i \/ answered[j].slot.blind
    BY DEF SequentialUniqueness
  <2>1. Shaped(Random(answered[i]), answered[i].slot)
        /\ Shaped(Random(answered[i]), answered[j].slot)
    BY DEF AnswersShaped
  <2>2. answered[i].slot.key = answered[j].slot.key
    BY <2>1, ShortenerAssumption DEF Shaped
  <2>. QED BY <2>2 DEF UniquenessInv, KeysUnique
<1>. QED BY <1>1, TypeCorrect, UniquenessInductive, ShapesInductive, PTL

\* What a step may do to what an answered link leads to.
RebindsFairly ==
    \A i \in DOMAIN answered :
        LET path == answered[i].slot.path
        IN  ~Random(answered[i]) /\ redis'[path] # redis[path] =>
                \E h \in Handlers : /\ pc[h] = "save"
                                    /\ slot[h].key = path
                                    /\ req[h].since < i \/ slot[h].blind

\* HMSET never takes a suggested link from under its owner on behalf of a request that
\* came after it was answered and was told the truth about the name: not even a request
\* that fails does so.
THEOREM AnsweredLinksKeepTheirURL == Spec => LinksKeepTheirURL
<1>1. TypeOK /\ UniquenessInv /\ AnswersShaped /\ [Next]_vars => [RebindsFairly]_vars
  <2> SUFFICES ASSUME TypeOK, UniquenessInv, AnswersShaped, [Next]_vars,
                      NEW i \in DOMAIN answered, ~Random(answered[i]),
                      redis'[answered[i].slot.path] # redis[answered[i].slot.path]
               PROVE  \E h \in Handlers : /\ pc[h] = "save"
                                          /\ slot[h].key = answered[i].slot.path
                                          /\ req[h].since < i \/ slot[h].blind
    BY DEF RebindsFairly
  <2>0. answered[i].slot.key = answered[i].slot.path
    BY DEF AnswersShaped, Shaped
  <2>1. redis' # redis
    OBVIOUS
  <2>2. PICK h \in Handlers : Save(h)
    BY <2>1 DEF Next, Step, Receive, ProbeFree, ProbeBlind, ProbeTaken, SuggestPanics,
         NewTx, CreateLink,
         CreateUserLinkRelation, InsertFails, Commit, Crash, stores, vars
  <2>3. slot[h].key = answered[i].slot.path
    <3>1. PICK u : redis' = [redis EXCEPT ![slot[h].key] = u]
      BY <2>1, <2>2 DEF Save
    <3>2. answered[i] \in Answers
      BY DEF TypeOK
    <3>3. answered[i].slot.path \in Names
      BY <3>2 DEF Answers, Slots
    <3>. QED BY <3>1, <3>3 DEF TypeOK
  <2>4. /\ pc[h] = "save" /\ req[h] \in Requests
        /\ i \in 1..Len(answered) /\ Len(answered) \in Nat
    BY <2>2 DEF Save, TypeOK
  <2>5. req[h].since < i \/ slot[h].blind
    <3>1. req[h].since \in Nat
      BY <2>4 DEF Requests
    <3>2. ~slot[h].blind => i \notin 1..req[h].since
      BY <2>0, <2>3, <2>4 DEF UniquenessInv, SlotIsNew, Probed
    <3>. QED BY <2>4, <3>1, <3>2
  <2>. QED BY <2>3, <2>4, <2>5
<1>. QED BY <1>1, TypeCorrect, UniquenessInductive, ShapesInductive, PTL
     DEF Spec, LinksKeepTheirURL, RebindsFairly

--------------------------------------------------------------------------------
(* What PostgreSQL lists. *)

SlotIsItsKey ==
    \A h \in Handlers : pc[h] \in Probed => slot[h].key \in KeysOf(slot[h].path)

BackedInv == BackedByRedis /\ SlotIsBound /\ SlotIsItsKey

\* Whatever fails, a listed link leads to a bound name.
THEOREM LinksBacked == Spec => []BackedByRedis
<1>1. Init => BackedInv
  BY DEF Init, BackedInv, BackedByRedis, SlotIsBound, SlotIsItsKey, Probed, Saved
<1>2. TypeOK /\ TypeOK' /\ BackedInv /\ [Next]_vars => BackedInv'
  <2> SUFFICES ASSUME TypeOK, TypeOK', BackedInv, [Next]_vars PROVE BackedInv'
    OBVIOUS
  <2> USE DEF BackedInv, Probed, Saved
  <2>0. \A n \in Names : Taken(n) => Taken(n)'
    BY BindingsStay
  <2>a. \A path \in Names : KeysOf(path) \subseteq Names
    BY ShortenerAssumption DEF KeysOf
  <2>b. links' \subseteq links => BackedByRedis'
    BY <2>0, <2>a DEF BackedByRedis, TypeOK
  <2>1. ASSUME NEW h \in Handlers, Receive(h) PROVE BackedInv'
    BY <2>1, <2>b DEF Receive, Goto, stores, SlotIsBound, SlotIsItsKey, Taken, TypeOK
  <2>2. ASSUME NEW h \in Handlers, Probe(h) PROVE BackedInv'
    <3> USE DEF Probe, ProbeFree, ProbeBlind, ProbeTaken
    <3>1. SlotIsItsKey'
      <4>1. PICK s \in Slots :
              slot' = [slot EXCEPT ![h] = s] /\ s.key \in KeysOf(s.path)
        BY <2>2, ProbeDraws
      <4>. QED BY <2>2, <4>1 DEF Goto, SlotIsItsKey, TypeOK
    <3>2. SlotIsBound'
      BY <2>2 DEF Goto, stores, SlotIsBound, Taken, TypeOK
    <3>. QED BY <2>2, <2>b, <3>1, <3>2 DEF stores
  <2>3. ASSUME NEW h \in Handlers, Return(h) PROVE SlotIsBound' /\ SlotIsItsKey'
    BY <2>3, <2>0 DEF Return, Goto, SlotIsBound, SlotIsItsKey, TypeOK, Slots
  <2>4. ASSUME NEW h \in Handlers, Save(h) PROVE BackedInv'
    <3>1. CASE Fail(h)
      BY <2>4, <3>1, <2>3, <2>b DEF Save, Fail
    <3>2. CASE /\ redis' = [redis EXCEPT ![slot[h].key] = Canonical[req[h].url]]
               /\ Goto(h, "begin") /\ UNCHANGED slot
      <4>1. pc[h] = "save" /\ Canonical[req[h].url] # NoURL
        BY <2>4, ShortenerAssumption DEF Save, TypeOK, Requests
      <4>2. \A g \in Handlers : slot[g].key \in Names
        BY DEF TypeOK, Slots
      <4>3. SlotIsBound'
        BY <3>2, <4>1, <4>2, <2>0 DEF SlotIsBound, Taken, Goto, TypeOK
      <4>4. SlotIsItsKey'
        BY <3>2, <4>1 DEF SlotIsItsKey, Goto, TypeOK
      <4>. QED BY <2>4, <4>3, <4>4, <2>b DEF Save
    <3>. QED BY <2>4, <3>1, <3>2 DEF Save
  <2>5. ASSUME NEW h \in Handlers, pc[h] \in Saved, NEW stage \in Saved, Goto(h, stage),
               UNCHANGED <<slot, redis>>
        PROVE  SlotIsBound' /\ SlotIsItsKey'
    BY <2>5 DEF Goto, SlotIsBound, SlotIsItsKey, Taken, TypeOK
  \* The only rows added are of the slot of a handler that has saved it.
  <2>6. ASSUME NEW h \in Handlers, NEW id, pc[h] \in Saved,
               links' \subseteq links \cup {LinkRow(h, id)}
        PROVE  BackedByRedis'
    <3>1. slot[h].key \in Names
      BY DEF TypeOK, Slots
    <3>2. slot[h].key \in KeysOf(slot[h].path)
      BY <2>6 DEF SlotIsItsKey
    <3>3. redis'[slot[h].key] # NoURL
      <4>1. Taken(slot[h].key)
        BY <2>6 DEF SlotIsBound
      <4>. QED BY <3>1, <4>1, <2>0 DEF Taken
    <3>4. LinkRow(h, id).path = slot[h].path
      BY DEF LinkRow
    <3> SUFFICES ASSUME NEW l \in links' PROVE \E key \in KeysOf(l.path) : Taken(key)'
      BY DEF BackedByRedis, KeysOf
    <3>5. CASE l \in links
      <4>1. PICK key \in KeysOf(l.path) : Taken(key)
        BY <3>5 DEF BackedByRedis
      <4>2. l.path \in Names
        BY <3>5 DEF TypeOK
      <4>. QED BY <4>1, <4>2, <2>0, <2>a
    <3>6. CASE l = LinkRow(h, id)
      BY <3>2, <3>3, <3>4, <3>6 DEF Taken
    <3>. QED BY <2>6, <3>5, <3>6
  <2>7. ASSUME NEW h \in Handlers, NewTx(h) PROVE BackedInv'
    BY <2>7, <2>5, <2>b DEF NewTx, stores
  <2>8. ASSUME NEW h \in Handlers, CreateLink(h) PROVE BackedInv'
    <3>1. pc[h] = "insertLink" /\ links' \subseteq links \cup {LinkRow(h, nextLink)}
      BY <2>8 DEF CreateLink, InsertFails, stores
    <3>. QED BY <2>8, <3>1, <2>3, <2>5, <2>6 DEF CreateLink, InsertFails, Fail
  <2>9. ASSUME NEW h \in Handlers, CreateUserLinkRelation(h) PROVE BackedInv'
    BY <2>9, <2>3, <2>5, <2>b DEF CreateUserLinkRelation, InsertFails, Fail, stores
  <2>10. ASSUME NEW h \in Handlers, Commit(h) PROVE BackedInv'
    <3>1. /\ pc[h] = "commit" /\ Return(h)
          /\ links' \subseteq links \cup {LinkRow(h, link[h])}
      BY <2>10 DEF Commit, RowsVisible, Fail, AnswerLink
    <3>. QED BY <3>1, <2>3, <2>6
  <2>11. ASSUME Crash PROVE BackedInv'
    BY <2>11, <2>b DEF Crash, stores, SlotIsBound, SlotIsItsKey
  <2>12. CASE UNCHANGED vars
    BY <2>12, <2>b DEF vars, local, stores, SlotIsBound, SlotIsItsKey, Taken
  <2>13. ASSUME NEW h \in Handlers, SuggestPanics(h) PROVE BackedInv'
    BY <2>13, <2>3, <2>b DEF SuggestPanics, Fail, stores
  <2>. QED BY <2>1, <2>2, <2>4, <2>7, <2>8, <2>9, <2>10, <2>11, <2>12, <2>13
       DEF Next, Step, Probe
<1>3. BackedInv => BackedByRedis
  BY DEF BackedInv
<1>. QED BY <1>1, <1>2, <1>3, TypeCorrect, PTL DEF Spec

\* Rows are only added, and what is logged stays logged.
LEMMA RowsStay ==
    ASSUME [Next]_vars
    PROVE  links \subseteq links' /\ userLinks \subseteq userLinks' /\ logged \subseteq logged'
BY DEF Next, Step, Receive, ProbeFree, ProbeBlind, ProbeTaken, SuggestPanics,
       Save, NewTx, CreateLink,
       CreateUserLinkRelation, InsertFails, Commit, RowsVisible, Crash, stores, history, vars

\* Which steps make a link visible, and with what.
LEMMA RowsAdded ==
    ASSUME [Next]_vars, NEW l \in links', l \notin links
    PROVE  l.id \in logged' \/ \E o \in userLinks' : o.link = l.id
<1>1. ASSUME NEW h \in Handlers, CreateLink(h) PROVE l.id \in logged'
  BY <1>1 DEF CreateLink, InsertFails, LinkRow, stores
<1>2. ASSUME NEW h \in Handlers, Commit(h) PROVE \E o \in userLinks' : o.link = l.id
  <2>1. l = LinkRow(h, link[h]) /\ OwnerRow(h) \in userLinks'
    BY <1>2 DEF Commit, RowsVisible
  <2>. QED BY <2>1 DEF LinkRow, OwnerRow
<1>. QED BY <1>1, <1>2
     DEF Next, Step, Receive, ProbeFree, ProbeBlind, ProbeTaken, SuggestPanics,
       Save, NewTx,
         CreateUserLinkRelation, InsertFails, Crash, stores, vars

\* No row of links is visible without its owner, but for a failed Beginx or
\* Commit that was logged.
THEOREM LinksOwned == Spec => []LinkHasOwner
<1>1. Init => LinkHasOwner
  BY DEF Init, LinkHasOwner
<1>2. LinkHasOwner /\ [Next]_vars => LinkHasOwner'
  BY RowsStay, RowsAdded DEF LinkHasOwner
<1>. QED BY <1>1, <1>2, PTL DEF Spec

ListedAs(a) ==
    \/ a.link \in logged
    \/ /\ [id |-> a.link, url |-> a.url, path |-> a.slot.path] \in links
       /\ [user |-> a.user, link |-> a.link] \in userLinks

\* A link answered with 200 is on its user's list, unless its Commit failed.
THEOREM AnswersListed == Spec => []AnsweredLinkIsListed
<1> DEFINE Answered == {answered[i] : i \in DOMAIN answered}
           Inv == \A a \in Answered : ListedAs(a)
<1>1. Init => Inv
  BY DEF Init
<1>2. TypeOK /\ Inv /\ [Next]_vars => Inv'
  <2> SUFFICES ASSUME TypeOK, Inv, [Next]_vars PROVE Inv'
    OBVIOUS
  <2>1. ASSUME NEW a \in Answered PROVE ListedAs(a)'
    BY <2>1, RowsStay DEF ListedAs
  <2>2. ASSUME UNCHANGED answered PROVE Inv'
    BY <2>1, <2>2
  <2>3. ASSUME NEW h \in Handlers, Commit(h) PROVE Inv'
    <3>1. CASE Fail(h)
      BY <3>1, <2>2 DEF Fail
    <3>2. CASE AnswerLink(h)
      <4> DEFINE a == Answer(h)
      <4>1. /\ a.link = link[h] /\ a.url = req[h].url /\ a.user = req[h].user
            /\ a.slot = slot[h]
        BY DEF Answer
      <4>2. \/ link[h] \in logged'
            \/ LinkRow(h, link[h]) \in links' /\ OwnerRow(h) \in userLinks'
            \/ Fail(h)
        BY <2>3 DEF Commit, RowsVisible
      <4>3. CASE Fail(h)
        BY <4>3, <2>2 DEF Fail
      <4>4. CASE ~Fail(h)
        <5>1. \/ a.link \in logged'
              \/ /\ [id |-> a.link, url |-> a.url, path |-> a.slot.path] \in links'
                 /\ [user |-> a.user, link |-> a.link] \in userLinks'
          BY <4>1, <4>2, <4>4 DEF LinkRow, OwnerRow
        <5> HIDE DEF a
        <5>2. answered' = Append(answered, a)
          BY <3>2 DEF AnswerLink, a
        <5>3. \A b \in Answered' : b \in Answered \/ b = a
          BY <5>2 DEF TypeOK
        <5>. QED BY <5>1, <5>3, <2>1 DEF ListedAs
      <4>. QED BY <4>3, <4>4
    <3>. QED BY <2>3, <3>1, <3>2 DEF Commit
  <2>4. ASSUME ~\E h \in Handlers : Commit(h) PROVE UNCHANGED answered
    BY <2>4 DEF Next, Step, Receive, ProbeFree, ProbeBlind, ProbeTaken, SuggestPanics,
       Save, NewTx,
         CreateLink, CreateUserLinkRelation, InsertFails, Fail, Crash, history, vars
  <2>. QED BY <2>2, <2>3, <2>4
<1>3. Inv => AnsweredLinkIsListed
  BY DEF AnsweredLinkIsListed, ListedAs
<1>. QED BY <1>1, <1>2, <1>3, TypeCorrect, PTL DEF Spec
--------------------------------------------------------------------------------
(* Concurrent handlers implement the registry. *)

Claims == [h \in Handlers |-> ClaimOf(h)]

Granted == {[link |-> a.slot.path, name |-> a.slot.key, url |-> Canonical[a.url]] :
               a \in {answered[i] : i \in DOMAIN answered}}

\* A handler that has found a name holds a claim on it.
LEMMA HoldsClaim ==
    ASSUME TypeOK, NEW h \in Handlers, pc[h] \in Probed
    PROVE  /\ Claims[h] = [link |-> slot[h].path, name |-> slot[h].key, url |-> Canonical[req[h].url],
                           blind |-> slot[h].blind, bound |-> pc[h] # "save"]
           /\ Claims[h] # NoClaim
           /\ slot[h].key \in Names /\ Canonical[req[h].url] \in StoredURLs
<1>1. /\ slot[h].key \in Names /\ slot[h].path \in Names /\ slot[h].blind \in BOOLEAN
      /\ Canonical[req[h].url] \in StoredURLs
  BY ShortenerAssumption DEF TypeOK, Probed, Requests, Slots
<1>2. \A l, n \in Names, u \in StoredURLs, b, c \in BOOLEAN :
        [link |-> l, name |-> n, url |-> u, blind |-> b, bound |-> c] # NoClaim
  BY ShortenerAssumption
<1>3. Claims[h] = [link |-> slot[h].path, name |-> slot[h].key, url |-> Canonical[req[h].url],
                   blind |-> slot[h].blind, bound |-> pc[h] # "save"]
  BY DEF Claims, ClaimOf, Probed
<1>4. (pc[h] # "save") \in BOOLEAN
  OBVIOUS
<1>. QED BY <1>1, <1>2, <1>3, <1>4, Zenon

\* A step of one handler changes no claim but its own.
LEMMA OneClaimChanges ==
    ASSUME TypeOK, NEW h \in Handlers,
           \A g \in Handlers \ {h} : pc'[g] = pc[g] /\ req'[g] = req[g] /\ slot'[g] = slot[g]
    PROVE  Claims' = [Claims EXCEPT ![h] = ClaimOf(h)']
BY DEF Claims, ClaimOf

LEMMA ReturnReleases ==
    ASSUME TypeOK, NEW h \in Handlers, Return(h)
    PROVE  Claims' = [Claims EXCEPT ![h] = NoClaim]
<1>1. ClaimOf(h)' = NoClaim
  BY DEF Return, Goto, ClaimOf, TypeOK
<1>. QED BY <1>1, OneClaimChanges DEF Return, Goto, TypeOK

\* A handler that fails gives its claim up.
LEMMA FailReleases ==
    ASSUME TypeOK, NEW h \in Handlers, Fail(h), UNCHANGED redis
    PROVE  Registry!Release({h})
<1>1. Claims' = [c \in Handlers |-> IF c \in {h} THEN NoClaim ELSE Claims[c]]
  BY ReturnReleases DEF Fail, Claims
<1>. QED BY <1>1 DEF Registry!Release, Fail, Claims, Granted

\* A step that keeps the handler's slot and does not bind is none of the registry's.
LEMMA ClaimStays ==
    ASSUME TypeOK, NEW h \in Handlers, NEW stage \in Saved, pc[h] \in Saved, Goto(h, stage),
           UNCHANGED <<req, slot, redis, answered>>
    PROVE  UNCHANGED <<redis, Claims, Granted>>
<1>1. ClaimOf(h)' = ClaimOf(h)
  BY DEF Goto, ClaimOf, Saved, Probed, TypeOK
<1>2. Claims' = Claims
  BY <1>1, OneClaimChanges DEF Goto, Claims, TypeOK
<1>. QED BY <1>2 DEF Granted

\* Whatever fails and however handlers interleave: a handler claims a free name,
\* or a taken one when EXISTS failed, binds its own claim only and is granted
\* only a link that stands for what it bound.
THEOREM RegistryImplemented == Spec => ImplementsRegistry
<1>1. Init => Registry!Init
  BY DEF Init, Registry!Init, ClaimOf
<1>2. TypeOK /\ TypeOK' /\ [Next]_vars => [Registry!Next]_Registry!vars
  <2> SUFFICES ASSUME TypeOK, TypeOK', [Next]_vars
               PROVE  Registry!Next \/ UNCHANGED <<redis, Claims, Granted>>
    BY DEF Registry!vars, Claims, Granted
  <2>0. ASSUME NEW h \in Handlers, Registry!Release({h}) PROVE Registry!Next
    BY <2>0 DEF Registry!Next
  <2>1. ASSUME NEW h \in Handlers, Receive(h) \/ ProbeTaken(h)
        PROVE  UNCHANGED <<redis, Claims, Granted>>
    <3>1. ClaimOf(h)' = ClaimOf(h)
      BY <2>1 DEF Receive, ProbeTaken, Goto, ClaimOf, TypeOK
    <3>2. Claims' = Claims
      BY <2>1, <3>1, OneClaimChanges DEF Receive, ProbeTaken, Goto, Claims, TypeOK
    <3>. QED BY <2>1, <3>2 DEF Receive, ProbeTaken, stores, history, Granted
  <2>2. ASSUME NEW h \in Handlers, ProbeFree(h) \/ ProbeBlind(h) PROVE Registry!Next
    <3>1. /\ pc[h] = "probe" /\ pc' = [pc EXCEPT ![h] = "save"]
          /\ UNCHANGED <<redis, answered, req>> /\ req[h] \in Requests
      BY <2>2 DEF ProbeFree, ProbeBlind, Goto, stores, history, TypeOK
    <3>2. ~ProbeTaken(h)
      BY <3>1 DEF ProbeTaken, TypeOK
    <3>3. PICK s \in Slots : /\ slot' = [slot EXCEPT ![h] = s]
                             /\ s.key \in KeysOf(s.path)
                             /\ s.blind \/ ~Taken(s.key)
      BY <2>2, <3>2, ProbeDraws DEF Probe
    <3> DEFINE l == s.path
               n == s.key
               u == Canonical[req[h].url]
               claim == [link |-> l, name |-> n, url |-> u, blind |-> s.blind, bound |-> FALSE]
    <3>4. l \in Names /\ n \in Names /\ n \in KeysOf(l) /\ u \in StoredURLs /\ s.blind \in BOOLEAN
      BY <3>1, <3>3, ShortenerAssumption DEF Slots, Requests
    <3>5. ClaimOf(h) = NoClaim /\ ClaimOf(h)' = claim
      BY <3>1, <3>3 DEF ClaimOf, TypeOK
    <3>6. Claims' = [Claims EXCEPT ![h] = claim]
      BY <3>1, <3>3, <3>5, OneClaimChanges DEF TypeOK
    <3>7. Registry!Claim(h, l, n, u, s.blind)
      BY <3>1, <3>3, <3>4, <3>5, <3>6 DEF Registry!Claim, Claims, Taken, Granted
    <3>8. n \in [path \in Names |-> KeysOf(path)][l]
      BY <3>4
    <3>. QED BY <3>4, <3>7, <3>8 DEF Registry!Next
  <2>3. ASSUME NEW h \in Handlers, Save(h) PROVE Registry!Next
    <3> DEFINE l == slot[h].path
               n == slot[h].key
               u == Canonical[req[h].url]
    <3>1. CASE Fail(h) /\ redis' = redis
      BY <3>1, <2>0, FailReleases
    <3>2. CASE redis' = [redis EXCEPT ![n] = u]
      <4>1. pc[h] = "save" /\ UNCHANGED answered
        BY <2>3 DEF Save, Fail
      <4>2. /\ Claims[h] # NoClaim
            /\ Claims[h] = [link |-> l, name |-> n, url |-> u, blind |-> slot[h].blind, bound |-> FALSE]
        BY <4>1, HoldsClaim DEF Probed
      <4>3. \/ Claims' = [Claims EXCEPT ![h] = NoClaim]
            \/ Claims' = [Claims EXCEPT ![h] = Registry!Bound(Claims[h])]
        <5>1. CASE Return(h)
          BY <5>1, ReturnReleases
        <5>2. CASE Goto(h, "begin") /\ UNCHANGED <<req, slot>>
          <6>1. ClaimOf(h)' = [link |-> l, name |-> n, url |-> u, blind |-> slot[h].blind, bound |-> TRUE]
            BY <5>2 DEF Goto, ClaimOf, TypeOK
          <6>2. ClaimOf(h)' = Registry!Bound(Claims[h])
            BY <4>2, <6>1 DEF Registry!Bound
          <6>3. Claims' = [Claims EXCEPT ![h] = ClaimOf(h)']
            BY <5>2, OneClaimChanges DEF Goto, TypeOK
          <6>. QED BY <6>2, <6>3
        <5>. QED BY <2>3, <5>1, <5>2 DEF Save, Fail
      <4>4. Registry!Bind(h)
        <5>1. Claims[h].link = l /\ Claims[h].name = n /\ Claims[h].url = u /\ ~Claims[h].bound
          BY <4>2
        <5>. QED BY <3>2, <4>1, <4>2, <4>3, <5>1 DEF Registry!Bind, Claims, Granted
      <4>. QED BY <4>4 DEF Registry!Next
    <3>. QED BY <2>3, <3>1, <3>2 DEF Save
  <2>4. ASSUME NEW h \in Handlers, NewTx(h) PROVE UNCHANGED <<redis, Claims, Granted>>
    BY <2>4, ClaimStays DEF NewTx, stores, history, Saved, Probed
  <2>5. ASSUME NEW h \in Handlers, CreateLink(h) \/ CreateUserLinkRelation(h)
        PROVE  Registry!Next \/ UNCHANGED <<redis, Claims, Granted>>
    <3>1. CASE InsertFails(h)
      BY <3>1, <2>0, FailReleases DEF InsertFails, stores
    <3>2. CASE ~InsertFails(h)
      BY <2>5, <3>2, ClaimStays
         DEF CreateLink, CreateUserLinkRelation, history, Saved, Probed
    <3>. QED BY <3>1, <3>2
  <2>6. ASSUME NEW h \in Handlers, Commit(h) PROVE Registry!Next
    <3>1. CASE Fail(h)
      BY <2>6, <3>1, <2>0, FailReleases DEF Commit
    <3>2. CASE AnswerLink(h)
      <4> DEFINE l == slot[h].path
                 n == slot[h].key
                 u == Canonical[req[h].url]
      <4>1. pc[h] = "commit" /\ UNCHANGED redis
        BY <2>6 DEF Commit
      <4>2. /\ Claims[h] # NoClaim
            /\ Claims[h] = [link |-> l, name |-> n, url |-> u, blind |-> slot[h].blind, bound |-> TRUE]
        BY <4>1, HoldsClaim DEF Probed
      <4>3. Claims' = [Claims EXCEPT ![h] = NoClaim]
        BY <3>2, ReturnReleases DEF AnswerLink
      <4>4. Granted' = Granted \cup {[link |-> l, name |-> n, url |-> u]}
        <5>1. answered' = Append(answered, Answer(h)) /\ answered \in Seq(Answers)
          BY <3>2 DEF AnswerLink, TypeOK
        <5>2. /\ DOMAIN answered' = (DOMAIN answered) \cup {Len(answered) + 1}
              /\ answered'[Len(answered) + 1] = Answer(h)
              /\ \A i \in DOMAIN answered : answered'[i] = answered[i]
          BY <5>1
        <5>3. Answer(h).slot = slot[h] /\ Answer(h).url = req[h].url
          BY DEF Answer
        <5>. QED BY <5>2, <5>3 DEF Granted
      <4>5. Registry!Grant(h)
        <5>1. Claims[h].link = l /\ Claims[h].name = n /\ Claims[h].url = u /\ Claims[h].bound
          BY <4>2
        <5>. QED BY <4>1, <4>2, <4>3, <4>4, <5>1 DEF Registry!Grant, Claims, Granted
      <4>. QED BY <4>5 DEF Registry!Next
    <3>. QED BY <2>6, <3>1, <3>2 DEF Commit
  <2>7. ASSUME Crash PROVE Registry!Next
    <3>1. Claims' = [c \in Handlers |-> IF c \in Handlers THEN NoClaim ELSE Claims[c]]
      BY <2>7 DEF Crash, Claims, ClaimOf
    <3>2. Registry!Release(Handlers)
      BY <2>7, <3>1 DEF Crash, stores, history, Registry!Release, Claims, Granted
    <3>. QED BY <3>2 DEF Registry!Next
  <2>8. CASE UNCHANGED vars
    BY <2>8 DEF vars, local, stores, history, Claims, ClaimOf, Granted
  <2>9. ASSUME NEW h \in Handlers, SuggestPanics(h) PROVE Registry!Next
    BY <2>9, <2>0, FailReleases DEF SuggestPanics, stores
  <2>. QED BY <2>1, <2>2, <2>3, <2>4, <2>5, <2>6, <2>7, <2>8, <2>9 DEF Next, Step
<1>. QED BY <1>1, <1>2, TypeCorrect, PTL DEF Spec, ImplementsRegistry, Registry!Spec
================================================================================
