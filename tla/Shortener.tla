------------------------------- MODULE Shortener -------------------------------
(***************************************************************************)
(* The link shortener (url/internal/urlShortner): concurrent HTTP handlers  *)
(* run service.EnCode, which probes Redis for a free name, binds it with    *)
(* HMSET and then records the link and its owner in PostgreSQL.  Redis and  *)
(* PostgreSQL are written one after the other with no common transaction,   *)
(* and the probe and the HMSET are two commands.                            *)
(*                                                                          *)
(* A name is what follows "Shortener:" in a Redis key.  A random link has   *)
(* the key Decimal[id] and is answered as the path Base62[id]; a suggested  *)
(* link has one string for both.                                            *)
(***************************************************************************)
EXTENDS Naturals, Sequences

CONSTANTS
    Handlers,       \* goroutines serving POST /api/v1/encode
    Users,          \* values of user_id
    URLs,           \* URLs that pass the validator and ParseRequestURI
    StoredURLs,     \* what URI.String() renders
    Canonical,      \* URLs -> StoredURLs: the URL given and the URL stored
    NoURL,          \* the answer of HGET on an unbound key
    Names,          \* strings that can follow "Shortener:" in a key
    Empty,          \* the empty string
    Wishes,         \* values of similar_to, Empty when it is not given
    Suggestions,    \* name -> the strings Suggest(name, 2, 11) may return
    Panics,         \* names on which Suggest may index an empty string and panic
    Ids,            \* values of rand.Uint64
    Decimal,        \* Ids -> Names: strconv.FormatUint(id, 10)
    Base62,         \* Ids -> Names: base62.Encode(id)
    Faults,         \* which calls may fail, see FaultKinds
    MaxRequests,    \* bound of the model: requests received in a behaviour
    NoRequest,      \* the request of an idle handler
    NoClaim         \* the claim of a handler that has not found a name

\* exists, hmset: the Redis command returns an error; begin: DB.Beginx fails;
\* insert: an INSERT fails; commit: tx.Commit fails; crash: the process dies.
FaultKinds == {"exists", "hmset", "begin", "insert", "commit", "crash"}

ASSUME ShortenerAssumption ==
    /\ Canonical \in [URLs -> StoredURLs]
    /\ NoURL \notin StoredURLs
    /\ Empty \in Names
    /\ Wishes \subseteq Names
    /\ Suggestions \in [Names -> SUBSET Names]
    /\ Panics \subseteq Names
    /\ Decimal \in [Ids -> Names]
    /\ Base62 \in [Ids -> Names]
    /\ \A i, j \in Ids : Base62[i] = Base62[j] => i = j
    /\ Faults \subseteq FaultKinds
    /\ MaxRequests \in Nat
    /\ NoClaim \notin [link : Names, name : Names, url : StoredURLs,
                      blind : BOOLEAN, bound : BOOLEAN]

VARIABLES
    pc,         \* handler -> the next call of EnCode, or "idle"
    req,        \* handler -> the request and how many links were answered before it
    slot,       \* handler -> the key to bind, the path to answer, and whether
                \* the key was taken and a failed EXISTS said it was free
    tx,         \* handler -> "none", "open", or "nil" when NewTx returned no transaction
    link,       \* handler -> the link_id its INSERT returned, 0 before
    redis,      \* name -> the url field of its hash, NoURL when there is no key
    links,      \* committed rows of links
    userLinks,  \* committed rows of user_links
    nextLink,   \* the next link_id of the sequence
    received,   \* requests received so far, for the bound
    answered,   \* history: the links answered with 200, in order
    logged      \* history: link_ids whose Beginx or Commit failed, which is only logged

local == <<pc, req, slot, tx, link>>
stores == <<redis, links, userLinks, nextLink>>
history == <<answered, logged>>
vars == <<local, stores, received, history>>

Stages == {"idle", "probe", "save", "begin", "insertLink", "insertRelation", "commit"}
Requests == [user : Users, url : URLs, similarTo : Wishes, since : Nat]
Slots == [key : Names, path : Names, blind : BOOLEAN]
Answers == [user : Users, url : URLs, similarTo : Wishes, slot : Slots,
            link : Nat, since : Nat]
SlotOf(key, path) == [key |-> key, path |-> path, blind |-> FALSE]
NoSlot == SlotOf(Empty, Empty)

TypeOK ==
    /\ pc \in [Handlers -> Stages]
    /\ req \in [Handlers -> Requests \cup {NoRequest}]
    /\ \A h \in Handlers : pc[h] # "idle" => req[h] \in Requests
    /\ slot \in [Handlers -> Slots]
    /\ tx \in [Handlers -> {"none", "open", "nil"}]
    /\ link \in [Handlers -> Nat]
    /\ redis \in [Names -> StoredURLs \cup {NoURL}]
    /\ links \subseteq [id : Nat, url : URLs, path : Names]
    /\ userLinks \subseteq [user : Users, link : Nat]
    /\ nextLink \in Nat
    /\ received \in Nat
    /\ answered \in Seq(Answers)
    /\ logged \subseteq Nat

Init ==
    /\ pc = [h \in Handlers |-> "idle"]
    /\ req = [h \in Handlers |-> NoRequest]
    /\ slot = [h \in Handlers |-> NoSlot]
    /\ tx = [h \in Handlers |-> "none"]
    /\ link = [h \in Handlers |-> 0]
    /\ redis = [n \in Names |-> NoURL]
    /\ links = {}
    /\ userLinks = {}
    /\ nextLink = 1
    /\ received = 0
    /\ answered = << >>
    /\ logged = {}

--------------------------------------------------------------------------------
(* One request, call by call. *)

Fault(kind) == kind \in Faults

Goto(h, stage) == pc' = [pc EXCEPT ![h] = stage]

\* The handler returns: its locals are gone, an open transaction with them.
Return(h) ==
    /\ Goto(h, "idle")
    /\ req' = [req EXCEPT ![h] = NoRequest]
    /\ slot' = [slot EXCEPT ![h] = NoSlot]
    /\ tx' = [tx EXCEPT ![h] = "none"]
    /\ link' = [link EXCEPT ![h] = 0]

\* An error or a recovered panic is answered: no link is given out.
Fail(h) == Return(h) /\ UNCHANGED answered

Answer(h) == [user |-> req[h].user, url |-> req[h].url, similarTo |-> req[h].similarTo,
              slot |-> slot[h], link |-> link[h], since |-> req[h].since]

AnswerLink(h) == Return(h) /\ answered' = Append(answered, Answer(h))

Receive(h) ==
    /\ pc[h] = "idle"
    /\ received < MaxRequests
    /\ received' = received + 1
    /\ \E user \in Users, url \in URLs, similarTo \in Wishes :
        /\ req' = [req EXCEPT ![h] = [user |-> user, url |-> url,
                       similarTo |-> similarTo, since |-> Len(answered)]]
        /\ slot' = [slot EXCEPT ![h] = SlotOf(similarTo, similarTo)]
    /\ Goto(h, "probe")
    /\ UNCHANGED <<tx, link, stores, history>>

Taken(name) == redis[name] # NoURL

\* Mutant of Draws: every call draws from a generator with the same seed.
DrawsSeeded(h) ==
    LET one(S) == IF S = {} THEN {} ELSE {CHOOSE x \in S : TRUE}
    IN  IF req[h].similarTo = Empty
        THEN {SlotOf(Decimal[id], Base62[id]) : id \in one(Ids)}
        ELSE {SlotOf(s, s) : s \in one(Suggestions[slot[h].key])}

\* What one pass of the do-while loop of Create can draw: a random id, or a
\* suggestion made from the previous one.
Draws(h) ==
    IF req[h].similarTo = Empty
    THEN {SlotOf(Decimal[id], Base62[id]) : id \in Ids}
    ELSE {SlotOf(s, s) : s \in Suggestions[slot[h].key]}

\* Mutant of ProbeFree: the loop ends on any answer of EXISTS.
ProbeFreeUnchecked(h) ==
    /\ pc[h] = "probe"
    /\ \E d \in Draws(h) : slot' = [slot EXCEPT ![h] = d]
    /\ Goto(h, "save")
    /\ UNCHANGED <<req, tx, link, stores, received, history>>

\* Mutant of ProbeFree: EXISTS asks about the string before Suggest changes it.
ProbeFreeStale(h) ==
    /\ pc[h] = "probe"
    /\ ~Taken(slot[h].key)
    /\ \E d \in Draws(h) : slot' = [slot EXCEPT ![h] = d]
    /\ Goto(h, "save")
    /\ UNCHANGED <<req, tx, link, stores, received, history>>

\* EXISTS says no, or fails on a name that is free.
ProbeFree(h) ==
    /\ pc[h] = "probe"
    /\ \E d \in Draws(h) : ~Taken(d.key) /\ slot' = [slot EXCEPT ![h] = d]
    /\ Goto(h, "save")
    /\ UNCHANGED <<req, tx, link, stores, received, history>>

\* EXISTS fails on a name that is taken: isIDUsed and isSuggestedStrExists say
\* "free" all the same.
ProbeBlind(h) ==
    /\ pc[h] = "probe"
    /\ Fault("exists")
    /\ \E d \in Draws(h) :
        /\ Taken(d.key)
        /\ slot' = [slot EXCEPT ![h] = [key |-> d.key, path |-> d.path, blind |-> TRUE]]
    /\ Goto(h, "save")
    /\ UNCHANGED <<req, tx, link, stores, received, history>>

ProbeTaken(h) ==
    /\ pc[h] = "probe"
    /\ \E d \in Draws(h) : Taken(d.key) /\ slot' = [slot EXCEPT ![h] = d]
    /\ UNCHANGED <<pc, req, tx, link, stores, received, history>>

\* The panic is recovered by the error handler of the server.
SuggestPanics(h) ==
    /\ pc[h] = "probe"
    /\ req[h].similarTo # Empty
    /\ slot[h].key \in Panics
    /\ Fail(h)
    /\ UNCHANGED <<stores, received, logged>>

\* Mutant of Save: the URL is stored as it was given, not as ParseRequestURI
\* renders it.
SaveRaw(h) ==
    /\ pc[h] = "save"
    /\ redis' = [redis EXCEPT ![slot[h].key] = req[h].url]
    /\ Goto(h, "begin")
    /\ UNCHANGED <<req, slot, tx, link, links, userLinks, nextLink, received, history>>

\* Mutant of Save: the error of HMSET is ignored.
SaveUnchecked(h) ==
    LET bind == [redis EXCEPT ![slot[h].key] = Canonical[req[h].url]]
    IN  /\ pc[h] = "save"
        /\ redis' = bind \/ (Fault("hmset") /\ redis' = redis)
        /\ Goto(h, "begin")
        /\ UNCHANGED <<req, slot, tx, link, links, userLinks, nextLink, received, history>>

\* HMSET binds the key whatever it held.  When it returns an error, the server
\* may have executed it or not.
Save(h) ==
    LET bind == [redis EXCEPT ![slot[h].key] = Canonical[req[h].url]]
    IN  /\ pc[h] = "save"
        /\ \/ /\ redis' = bind
              /\ Goto(h, "begin")
              /\ UNCHANGED <<req, slot, tx, link, answered>>
           \/ /\ Fault("hmset")
              /\ redis' \in {redis, bind}
              /\ Fail(h)
        /\ UNCHANGED <<links, userLinks, nextLink, received, logged>>

NewTx(h) ==
    /\ pc[h] = "begin"
    /\ \/ tx' = [tx EXCEPT ![h] = "open"]
       \/ Fault("begin") /\ tx' = [tx EXCEPT ![h] = "nil"]
    /\ Goto(h, "insertLink")
    /\ UNCHANGED <<req, slot, link, stores, received, history>>

LinkRow(h, id) == [id |-> id, url |-> req[h].url, path |-> slot[h].path]
OwnerRow(h) == [user |-> req[h].user, link |-> link[h]]

\* Mutant of InsertFails: the transaction is committed where it is rolled back.
InsertFailsCommits(h) ==
    /\ Fault("insert")
    /\ Fail(h)
    /\ links' = links \cup {LinkRow(h, link[h])}
    /\ UNCHANGED <<redis, userLinks, nextLink, logged>>

\* Mutant of InsertFails: rolled back, but the error is not returned.
InsertFailsAnswers(h) ==
    /\ Fault("insert")
    /\ AnswerLink(h)
    /\ UNCHANGED <<stores, logged>>

\* The INSERT fails and EnCode rolls back, or, with no transaction, NewTx fails
\* again or Rollback(nil) panics.
InsertFails(h) ==
    /\ Fault("insert") \/ tx[h] = "nil"
    /\ Fail(h)
    /\ UNCHANGED <<stores, logged>>

\* Without a transaction the row is committed on its own, or the commit is lost.
CreateLink(h) ==
    /\ pc[h] = "insertLink"
    /\ \/ /\ link' = [link EXCEPT ![h] = nextLink]
          /\ nextLink' = nextLink + 1
          /\ \/ tx[h] = "open" /\ UNCHANGED links
             \/ tx[h] = "nil" /\ links' = links \cup {LinkRow(h, nextLink)}
             \/ tx[h] = "nil" /\ Fault("commit") /\ UNCHANGED links
          /\ logged' = IF tx[h] = "nil" THEN logged \cup {nextLink} ELSE logged
          /\ Goto(h, "insertRelation")
          /\ UNCHANGED <<req, slot, tx, redis, userLinks, answered>>
       \/ InsertFails(h)
    /\ UNCHANGED received

CreateUserLinkRelation(h) ==
    /\ pc[h] = "insertRelation"
    /\ \/ /\ \/ tx[h] = "open" /\ UNCHANGED userLinks
             \/ tx[h] = "nil" /\ userLinks' = userLinks \cup {OwnerRow(h)}
             \/ tx[h] = "nil" /\ Fault("commit") /\ UNCHANGED userLinks
          /\ Goto(h, "commit")
          /\ UNCHANGED <<req, slot, tx, link, redis, links, nextLink, history>>
       \/ InsertFails(h)
    /\ UNCHANGED received

\* The rows of a transaction become visible together.
RowsVisible(h) ==
    /\ links' = links \cup {LinkRow(h, link[h])}
    /\ userLinks' = userLinks \cup {OwnerRow(h)}

\* Commit only logs its error, with which the server may have committed or not:
\* the link is answered either way.  Commit(nil) panics and the recovered panic is
\* answered as an error.
Commit(h) ==
    /\ pc[h] = "commit"
    /\ \/ /\ tx[h] = "open"
          /\ \/ RowsVisible(h) /\ UNCHANGED logged
             \/ /\ Fault("commit")
                /\ RowsVisible(h) \/ UNCHANGED <<links, userLinks>>
                /\ logged' = logged \cup {link[h]}
          /\ AnswerLink(h)
       \/ tx[h] = "nil" /\ Fail(h) /\ UNCHANGED <<links, userLinks, logged>>
    /\ UNCHANGED <<redis, nextLink, received>>

\* The process dies and is started again: every handler is lost, PostgreSQL
\* rolls the open transactions back, the two stores keep what they have.
Crash ==
    /\ Fault("crash")
    /\ \E h \in Handlers : pc[h] # "idle"
    /\ pc' = [h \in Handlers |-> "idle"]
    /\ req' = [h \in Handlers |-> NoRequest]
    /\ slot' = [h \in Handlers |-> NoSlot]
    /\ tx' = [h \in Handlers |-> "none"]
    /\ link' = [h \in Handlers |-> 0]
    /\ UNCHANGED <<stores, received, history>>

Step(h) ==
    \/ ProbeFree(h) \/ ProbeTaken(h) \/ SuggestPanics(h) \/ Save(h) \/ NewTx(h)
    \/ CreateLink(h) \/ CreateUserLinkRelation(h) \/ Commit(h)

Next == (\E h \in Handlers : Receive(h) \/ Step(h) \/ ProbeBlind(h)) \/ Crash

Spec == Init /\ [][Next]_vars

\* Go runs every goroutine that can run, and the random draws of the loop do
\* not miss a free name for ever; no request need arrive, no EXISTS fail on a
\* taken name and no crash happen.
Fairness == \A h \in Handlers : WF_vars(Step(h)) /\ SF_vars(ProbeFree(h))

FairSpec == Spec /\ Fairness

\* The URL a visitor of /code is redirected to, NoURL for "not found".  HGET on
\* an unbound key is redigo.ErrNil and returned as an error: the second lookup,
\* under the number the code decodes to, is for a key whose url is "", which no
\* validated URL renders to.
FindOne(code) == redis[code]

--------------------------------------------------------------------------------
(* Properties. *)

\* The keys under which the link of a path may be stored.
KeysOf(path) == {path} \cup {Decimal[id] : id \in {i \in Ids : Base62[i] = path}}

\* The name of a random link is drawn, that of a suggested one made from the wish.
Random(a) == a.similarTo = Empty

\* Two clients are answered the same link only if their requests overlapped, if the
\* later one met the name taken and EXISTS failed to say so, or if one link is random
\* and the other suggested: a random link is bound under its number and not under
\* the text that is answered, which EXISTS therefore calls free.  No other request
\* is given a link already answered, whatever fails and crashes in between (Create,
\* the do-while loops over EXISTS).
SequentialUniqueness ==
    \A i, j \in DOMAIN answered :
        /\ i < j
        /\ answered[i].slot.path = answered[j].slot.path
        => \/ answered[j].since < i
           \/ answered[j].slot.blind
           \/ Random(answered[i]) # Random(answered[j])

\* What a visitor of an answered link finds (FindOne, a read of redis) is changed
\* only by a request received before that answer, or by one whose EXISTS failed on
\* the name, whether it succeeds in the end or not.  This is said of suggested links:
\* nobody binds the text of a random one, so that anybody may (repository.Create).
LinksKeepTheirURL ==
    [][\A i \in DOMAIN answered :
          LET path == answered[i].slot.path
          IN  ~Random(answered[i]) /\ redis'[path] # redis[path] =>
                  \E h \in Handlers : /\ pc[h] = "save"
                                      /\ slot[h].key = path
                                      /\ req[h].since < i \/ slot[h].blind]_vars

\* PostgreSQL never lists a link whose name is not bound in Redis: createLink
\* runs after Create succeeded, and nothing removes a binding.
BackedByRedis ==
    \A l \in links : \E key \in KeysOf(l.path) : Taken(key)

\* A link another session can see has an owner: the row of links and the row of
\* user_links become visible together (service.createLink).  Only a failure of
\* Beginx that was logged and then ignored can leave one without.
LinkHasOwner ==
    \A l \in links : l.id \in logged \/ \E o \in userLinks : o.link = l.id

\* Every link answered with 200 is listed for the user who asked for it, with
\* the URL as it was given, unless its Commit failed and was only logged.
AnsweredLinkIsListed ==
    \A a \in {answered[i] : i \in DOMAIN answered} :
        \/ a.link \in logged
        \/ /\ [id |-> a.link, url |-> a.url, path |-> a.slot.path] \in links
           /\ [user |-> a.user, link |-> a.link] \in userLinks

\* Every request is answered or fails: the probe loop ends while there are free
\* names it can draw, and no call after it can hold a handler.
EveryRequestAnswered ==
    \A h \in Handlers : pc[h] # "idle" ~> pc[h] = "idle"

\* What a handler holds of the registry: the name its probe found and the link it
\* is to answer for it, until it answers or fails.
ClaimOf(h) ==
    IF pc[h] \in {"idle", "probe"} THEN NoClaim
    ELSE [link |-> slot[h].path, name |-> slot[h].key, url |-> Canonical[req[h].url],
          blind |-> slot[h].blind, bound |-> pc[h] # "save"]

\* Concurrent handlers, with every fault and crash, implement the registry: a
\* handler binds only the name its probe found free (or could not ask about), to
\* the URL it was asked for, and answers only a link that stands for the name it has
\* bound itself: that name as it is, or the base62 text of the number it spells.
Registry == INSTANCE LinkRegistry WITH
    Clients <- Handlers,
    Links <- Names,
    NamesOf <- [path \in Names |-> KeysOf(path)],
    URLs <- StoredURLs,
    Unbound <- NoURL,
    bindings <- redis,
    claims <- [h \in Handlers |-> ClaimOf(h)],
    granted <- {[link |-> a.slot.path, name |-> a.slot.key, url |-> Canonical[a.url]] :
                   a \in {answered[i] : i \in DOMAIN answered}}

ImplementsRegistry == Registry!Spec

\* README.md:23-24 names Redis for the redirection: when no two requests overlap and
\* nothing fails, a link leads to the URL it was answered for.  A random link is
\* looked up under its base62 text and stored under its decimal one, so it does not:
\* it leads nowhere, or where a suggestion that spells its text is bound to.
AnsweredLinksResolve ==
    \A i \in DOMAIN answered :
        FindOne(answered[i].slot.path) = Canonical[answered[i].url]
================================================================================
