--------------------------------- MODULE Tokens ---------------------------------
(***************************************************************************)
(* Token pairs (url/pkg/jwt, with generateJWT and Refresh of                *)
(* url/internal/auth/service.go).  A pair is an access and a refresh token  *)
(* with one uuid; each has a record in Redis.  A sign-in makes a pair, a    *)
(* refresh deletes the record of the refresh token it is given and makes    *)
(* the next pair, and the middleware lets a request with an access token    *)
(* through when its record is there.  The commands are separate steps of    *)
(* handlers that run concurrently, any of which can fail.                   *)
(*                                                                          *)
(* A pair is its uuid.  The user id, which every record and claim repeats,  *)
(* and the signatures are left out; so is the "change-password" marker,     *)
(* which nothing in the repository writes.  EXPIRE is sent a duration Redis *)
(* does not parse and its error is dropped: records stay, and a token ages  *)
(* by its exp claim alone.                                                  *)
(***************************************************************************)
EXTENDS Naturals, FiniteSets

CONSTANTS
    Handlers,   \* goroutines serving /signin, /refresh-token and guarded routes
    Pairs,      \* the uuids uuid.New() returns, bounding the pairs made
    NoPair,     \* "none"
    Faults      \* calls that may fail, see FaultKinds

\* set, del, get: the Redis command returns an error, executed or not; answer:
\* the client does not get the response; crash: the process dies.
FaultKinds == {"set", "del", "get", "answer", "crash"}

ASSUME TokensAssumption ==
    /\ NoPair \notin Pairs
    /\ Faults \subseteq FaultKinds

VARIABLES
    pc,         \* handler -> the next command, or "idle"
    old,        \* handler -> the pair presented
    new,        \* handler -> the pair being made
    access,     \* pairs with an access record
    refresh,    \* pairs with a refresh record
    stale,      \* pairs whose access token is past its exp claim (15 minutes)
    expired,    \* pairs whose refresh token is, too (7 days)
    held,       \* pairs a client got in a response
    made,       \* uuids drawn so far
    parent,     \* history: pair -> the pair it was made from, NoPair at a sign-in
    session,    \* history: pair -> the first pair of its chain of refreshes
    consumed,   \* history: pairs whose refresh record was deleted
    rejected    \* history: pairs whose access token was found to have no record

local == <<pc, old, new>>
expiry == <<stale, expired>>
history == <<parent, session, consumed, rejected>>
vars == <<local, access, refresh, expiry, held, made, history>>

TypeOK ==
    /\ pc \in [Handlers -> {"idle", "get", "del", "setAccess", "setRefresh"}]
    /\ old \in [Handlers -> Pairs \cup {NoPair}]
    /\ new \in [Handlers -> Pairs \cup {NoPair}]
    /\ \A h \in Handlers : /\ pc[h] \in {"get", "del"} => old[h] \in Pairs
                           /\ pc[h] \in {"setAccess", "setRefresh"} => new[h] \in Pairs
    /\ access \subseteq Pairs
    /\ refresh \subseteq Pairs
    /\ stale \subseteq Pairs
    /\ expired \subseteq stale
    /\ held \subseteq Pairs
    /\ made \subseteq Pairs
    /\ parent \in [Pairs -> Pairs \cup {NoPair}]
    /\ session \in [Pairs -> Pairs \cup {NoPair}]
    /\ consumed \subseteq Pairs
    /\ rejected \subseteq Pairs

Init ==
    /\ pc = [h \in Handlers |-> "idle"]
    /\ old = [h \in Handlers |-> NoPair]
    /\ new = [h \in Handlers |-> NoPair]
    /\ access = {}
    /\ refresh = {}
    /\ stale = {}
    /\ expired = {}
    /\ held = {}
    /\ made = {}
    /\ parent = [p \in Pairs |-> NoPair]
    /\ session = [p \in Pairs |-> NoPair]
    /\ consumed = {}
    /\ rejected = {}

--------------------------------------------------------------------------------

Fault(kind) == kind \in Faults

Return(h) ==
    /\ pc' = [pc EXCEPT ![h] = "idle"]
    /\ old' = [old EXCEPT ![h] = NoPair]
    /\ new' = [new EXCEPT ![h] = NoPair]

\* CreateToken draws a fresh uuid and signs two tokens; nothing is stored yet.
CreateToken(h, from) ==
    \E p \in Pairs \ made :
        /\ made' = made \cup {p}
        /\ new' = [new EXCEPT ![h] = p]
        /\ parent' = [parent EXCEPT ![p] = from]
        /\ session' = [session EXCEPT ![p] = IF from = NoPair THEN p ELSE session[from]]
        /\ pc' = [pc EXCEPT ![h] = "setAccess"]

\* Mutant of SignIn: goes on when CreateToken returned no pair.
SignInTokenless(h) ==
    /\ pc[h] = "idle"
    /\ pc' = [pc EXCEPT ![h] = "setAccess"]
    /\ UNCHANGED <<old, new, access, refresh, expiry, held, made, history>>

\* A sign-in with the right password.
SignIn(h) ==
    /\ pc[h] = "idle"
    /\ CreateToken(h, NoPair)
    /\ UNCHANGED <<old, access, refresh, expiry, held, consumed, rejected>>

\* A request for a guarded route carries an access token.  Handler refuses it
\* once it is expired; the error of the GET of the marker is dropped.
Present(h, p) ==
    /\ pc[h] = "idle"
    /\ p \in held \ stale
    /\ pc' = [pc EXCEPT ![h] = "get"]
    /\ old' = [old EXCEPT ![h] = p]
    /\ UNCHANGED <<new, access, refresh, expiry, held, made, history>>

\* The request goes on if the token has a record, and is "unauthorized" if it has
\* none or GET fails.
FetchAuth(h) ==
    /\ pc[h] = "get"
    /\ \/ old[h] \in access /\ UNCHANGED rejected
       \/ old[h] \notin access /\ rejected' = rejected \cup {old[h]}
       \/ Fault("get") /\ UNCHANGED rejected
    /\ Return(h)
    /\ UNCHANGED <<access, refresh, expiry, held, made, parent, session, consumed>>

\* A client presents a refresh token it was given: for the first time, again, or
\* twice at once.  verifyToken refuses it once it is expired.
Refresh(h, p) ==
    /\ pc[h] = "idle"
    /\ p \in held \ expired
    /\ pc' = [pc EXCEPT ![h] = "del"]
    /\ old' = [old EXCEPT ![h] = p]
    /\ UNCHANGED <<new, access, refresh, expiry, held, made, history>>

\* Mutant of DeleteAuth: the number of deleted keys is not looked at.
DeleteAuthUncounted(h) ==
    /\ pc[h] = "del"
    /\ refresh' = refresh \ {old[h]}
    /\ consumed' = consumed \cup {old[h]}
    /\ CreateToken(h, old[h])
    /\ UNCHANGED <<old, access, expiry, held, rejected>>

\* Mutant of DeleteAuth: the access record is deleted in place of the other.
DeleteAuthWrongKey(h) ==
    /\ pc[h] = "del"
    /\ \/ /\ old[h] \in access
          /\ access' = access \ {old[h]}
          /\ CreateToken(h, old[h])
          /\ UNCHANGED old
       \/ /\ old[h] \notin access
          /\ Return(h)
          /\ UNCHANGED <<access, made, parent, session>>
    /\ UNCHANGED <<refresh, expiry, held, consumed, rejected>>

\* DEL says how many keys it deleted: one, and the next pair is made, or none,
\* and the answer is "unauthorized", as it is for an error.
DeleteAuth(h) ==
    /\ pc[h] = "del"
    /\ \/ /\ old[h] \in refresh
          /\ refresh' = refresh \ {old[h]}
          /\ consumed' = consumed \cup {old[h]}
          /\ CreateToken(h, old[h])
          /\ UNCHANGED old
       \/ /\ old[h] \notin refresh
          /\ Return(h)
          /\ UNCHANGED <<refresh, made, parent, session, consumed>>
       \/ /\ Fault("del")
          /\ \/ UNCHANGED <<refresh, consumed>>
             \/ /\ old[h] \in refresh
                /\ refresh' = refresh \ {old[h]}
                /\ consumed' = consumed \cup {old[h]}
          /\ Return(h)
          /\ UNCHANGED <<made, parent, session>>
    /\ UNCHANGED <<access, expiry, held, rejected>>

\* Mutant of SetAccess: the error of SET is ignored.
SetAccessUnchecked(h) ==
    /\ pc[h] = "setAccess"
    /\ access' = access \cup {new[h]} \/ (Fault("set") /\ UNCHANGED access)
    /\ pc' = [pc EXCEPT ![h] = "setRefresh"]
    /\ UNCHANGED <<old, new, refresh, expiry, held, made, history>>

\* CreateAuth: SET the access record ...
SetAccess(h) ==
    /\ pc[h] = "setAccess"
    /\ \/ /\ access' = access \cup {new[h]}
          /\ pc' = [pc EXCEPT ![h] = "setRefresh"]
          /\ UNCHANGED <<old, new>>
       \/ /\ Fault("set")
          /\ access' \in {access, access \cup {new[h]}}
          /\ Return(h)
    /\ UNCHANGED <<refresh, expiry, held, made, history>>

\* ... and the refresh record, and answer both tokens.
SetRefresh(h) ==
    /\ pc[h] = "setRefresh"
    /\ \/ /\ refresh' = refresh \cup {new[h]}
          /\ \/ held' = held \cup {new[h]}
             \/ Fault("answer") /\ UNCHANGED held
       \/ /\ Fault("set")
          /\ refresh' \in {refresh, refresh \cup {new[h]}}
          /\ UNCHANGED held
    /\ Return(h)
    /\ UNCHANGED <<access, expiry, made, history>>

\* An access token ages first, the refresh token of its pair long after.
Expire(p) ==
    /\ p \in held
    /\ \/ p \notin stale /\ stale' = stale \cup {p} /\ UNCHANGED expired
       \/ p \in stale \ expired /\ expired' = expired \cup {p} /\ UNCHANGED stale
    /\ UNCHANGED <<local, access, refresh, held, made, history>>

Crash ==
    /\ Fault("crash")
    /\ pc' = [h \in Handlers |-> "idle"]
    /\ old' = [h \in Handlers |-> NoPair]
    /\ new' = [h \in Handlers |-> NoPair]
    /\ UNCHANGED <<access, refresh, expiry, held, made, history>>

Next ==
    \/ \E h \in Handlers :
        \/ SignIn(h)
        \/ \E p \in Pairs : Refresh(h, p) \/ Present(h, p)
        \/ FetchAuth(h) \/ DeleteAuth(h) \/ SetAccess(h) \/ SetRefresh(h)
    \/ \E p \in Pairs : Expire(p)
    \/ Crash

Spec == Init /\ [][Next]_vars

--------------------------------------------------------------------------------
(* Properties. *)

\* A refresh token is redeemed for at most one pair, however often and however
\* concurrently it is presented: RefreshToken goes on only for the handler whose
\* DEL deleted the record.
RedeemedOnce ==
    \A p, q \in Pairs : parent[p] # NoPair /\ parent[p] = parent[q] => p = q

\* The chain of pairs that starts at a sign-in never forks: at most one of its
\* refresh tokens has a record, and while a refresh is under way none has.
SessionNotForked ==
    /\ \A p, q \in refresh : session[p] = session[q] => p = q
    /\ \A h \in Handlers, p \in refresh :
        pc[h] \in {"setAccess", "setRefresh"} => session[new[h]] # session[p]

\* A pair a client holds is honoured.  Both tokens are recorded, the refresh token
\* until somebody redeemed it, and nobody is turned away with an access token that
\* has not expired, unless Redis fails: a refresh, whether it succeeds, fails
\* half-way or is repeated by somebody else, leaves the access record of the old
\* pair alone, so requests under way with it go through.
HeldPairsAreHonoured ==
    /\ \A p \in held : p \in access /\ (p \in refresh <=> p \notin consumed)
    /\ rejected = {}

\* The refresh token whose record a chain of pairs has.
LiveToken(s) ==
    IF \E p \in refresh : session[p] = s THEN CHOOSE p \in refresh : session[p] = s
    ELSE NoPair

InFlight(h) == pc[h] \in {"setAccess", "setRefresh"}

\* The handlers together, with every fault and crash, keep the promise of sessions:
\* one token each, redeemed once, for one other that is new (RefreshToken,
\* DeleteAuth, CreateAuth).
Promise == INSTANCE Sessions WITH
    Names <- Pairs,
    Tokens <- Pairs,
    NoToken <- NoPair,
    begun <- {p \in made : session[p] = p},
    token <- [s \in Pairs |-> LiveToken(s)],
    owed <- {session[new[h]] : h \in {g \in Handlers : InFlight(g)}},
    issued <- refresh \cup consumed,
    handed <- held

ImplementsSessions == Promise!Spec
================================================================================
