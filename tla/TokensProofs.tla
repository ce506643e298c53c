------------------------------ MODULE TokensProofs ------------------------------
(***************************************************************************)
(* Theorems about Tokens for any handlers, any supply of uuids and faults.  *)
(***************************************************************************)
EXTENDS Tokens, TLAPS

\* Whatever is stored, answered or under way was drawn before, and a chain is
\* named after a drawn pair.
OnlyMade ==
    /\ access \subseteq made /\ refresh \subseteq made
    /\ held \subseteq made /\ consumed \subseteq made
    /\ \A h \in Handlers : InFlight(h) => new[h] \in made
    /\ \A h \in Handlers : pc[h] \in {"get", "del"} => old[h] \in held
    /\ \A p \in made : session[p] \in made
    /\ \A p \in Pairs : parent[p] # NoPair => p \in made

\* A pair that another was made from is consumed, and a consumed pair has no
\* refresh record and gets none.
ParentsConsumed ==
    /\ \A p \in Pairs : parent[p] # NoPair => parent[p] \in consumed
    /\ refresh \cap consumed = {}
    /\ \A h \in Handlers : InFlight(h) => new[h] \notin consumed \cup refresh \cup held

\* Two handlers at work never work on the same chain.
FlightsApart ==
    \A g, h \in Handlers : InFlight(g) /\ InFlight(h) /\ g # h =>
        new[g] # new[h] /\ session[new[g]] # session[new[h]]

AccessFirst == \A h \in Handlers : pc[h] = "setRefresh" => new[h] \in access

TokensInv ==
    /\ TypeOK /\ OnlyMade /\ ParentsConsumed /\ FlightsApart /\ AccessFirst
    /\ RedeemedOnce /\ SessionNotForked /\ HeldPairsAreHonoured

\* A handler that returns leaves nothing under way.
LEMMA ReturnStep ==
    ASSUME TokensInv, NEW h \in Handlers, Return(h)
    PROVE  /\ ~InFlight(h)' /\ pc'[h] \notin {"get", "del"}
           /\ \A g \in Handlers \ {h} :
                pc'[g] = pc[g] /\ old'[g] = old[g] /\ new'[g] = new[g]
           /\ pc' \in [Handlers -> {"idle", "get", "del", "setAccess", "setRefresh"}]
           /\ old' \in [Handlers -> Pairs \cup {NoPair}]
           /\ new' \in [Handlers -> Pairs \cup {NoPair}]
           /\ pc'[h] = "idle"
BY DEF Return, TokensInv, TypeOK, InFlight

\* The pair a handler creates is new to everything.
LEMMA CreateStep ==
    ASSUME TokensInv, NEW h \in Handlers, NEW from \in Pairs \cup {NoPair},
           CreateToken(h, from)
    PROVE  \E p \in Pairs \ made :
              /\ made' = made \cup {p}
              /\ pc' \in [Handlers -> {"idle", "get", "del", "setAccess", "setRefresh"}]
              /\ new' \in [Handlers -> Pairs \cup {NoPair}]
              /\ parent' \in [Pairs -> Pairs \cup {NoPair}]
              /\ session' \in [Pairs -> Pairs \cup {NoPair}]
              /\ pc'[h] = "setAccess" /\ new'[h] = p
              /\ \A g \in Handlers \ {h} : pc'[g] = pc[g] /\ new'[g] = new[g]
              /\ parent'[p] = from
              /\ session'[p] = IF from = NoPair THEN p ELSE session[from]
              /\ \A q \in Pairs \ {p} : parent'[q] = parent[q] /\ session'[q] = session[q]
BY DEF CreateToken, TokensInv, TypeOK

\* The parts of the invariant hold together from the first state on, for any
\* interleaving of sign-ins, refreshes and guarded requests and any failing commands.
LEMMA TokensInductive == Spec => []TokensInv
<1>1. Init => TokensInv
  BY TokensAssumption
     DEF Init, TokensInv, TypeOK, OnlyMade, ParentsConsumed, FlightsApart, AccessFirst,
         RedeemedOnce, SessionNotForked, HeldPairsAreHonoured, InFlight
<1>2. TokensInv /\ [Next]_vars => TokensInv'
  <2> SUFFICES ASSUME TokensInv, [Next]_vars PROVE TokensInv'
    OBVIOUS
  <2> USE DEF TokensInv, InFlight
  <2>1. ASSUME NEW h \in Handlers, SignIn(h) PROVE TokensInv'
    <3>1. PICK p \in Pairs \ made :
              /\ made' = made \cup {p}
              /\ pc' \in [Handlers -> {"idle", "get", "del", "setAccess", "setRefresh"}]
              /\ new' \in [Handlers -> Pairs \cup {NoPair}]
              /\ parent' \in [Pairs -> Pairs \cup {NoPair}]
              /\ session' \in [Pairs -> Pairs \cup {NoPair}]
              /\ pc'[h] = "setAccess" /\ new'[h] = p
              /\ \A g \in Handlers \ {h} : pc'[g] = pc[g] /\ new'[g] = new[g]
              /\ parent'[p] = NoPair
              /\ session'[p] = p
              /\ \A q \in Pairs \ {p} : parent'[q] = parent[q] /\ session'[q] = session[q]
      BY <2>1, CreateStep DEF SignIn
    <3>2. UNCHANGED <<old, access, refresh, stale, expired, held, consumed, rejected>>
      BY <2>1 DEF SignIn, expiry
    <3>3. \A q \in made : q # p /\ session[q] # p /\ q \in Pairs
      BY DEF OnlyMade, TypeOK
    <3>4. TypeOK'
      BY <3>1, <3>2 DEF TypeOK
    <3>5. OnlyMade'
      BY <3>1, <3>2, <3>3 DEF OnlyMade
    <3>6. ParentsConsumed' /\ AccessFirst'
      BY <3>1, <3>2, <3>3 DEF ParentsConsumed, AccessFirst, OnlyMade
    <3>7. FlightsApart'
      BY <3>1, <3>3 DEF FlightsApart, OnlyMade
    <3>8. RedeemedOnce'
      BY <3>1 DEF RedeemedOnce, TypeOK
    <3>9. SessionNotForked'
      BY <3>1, <3>2, <3>3 DEF SessionNotForked, OnlyMade
    <3>10. HeldPairsAreHonoured'
      BY <3>2 DEF HeldPairsAreHonoured
    <3>. QED BY <3>4, <3>5, <3>6, <3>7, <3>8, <3>9, <3>10
  <2>2. ASSUME NEW h \in Handlers, NEW p \in Pairs, Refresh(h, p) PROVE TokensInv'
    BY <2>2 DEF Refresh, history, expiry, TypeOK, OnlyMade, ParentsConsumed, FlightsApart,
                AccessFirst, RedeemedOnce, SessionNotForked, HeldPairsAreHonoured
  <2>3. ASSUME NEW h \in Handlers, NEW p \in Pairs, Present(h, p) PROVE TokensInv'
    BY <2>3 DEF Present, history, expiry, TypeOK, OnlyMade, ParentsConsumed, FlightsApart,
                AccessFirst, RedeemedOnce, SessionNotForked, HeldPairsAreHonoured
  \* A handler returns, and at most a record it does not own is lost.
  <2>4. ASSUME NEW h \in Handlers, Return(h), NEW D \in SUBSET refresh,
               refresh' = refresh \ D, consumed' = consumed \cup D,
               UNCHANGED <<expiry, held, made, parent, session, rejected>>,
               access' = access \/ (pc[h] = "setAccess" /\ access' = access \cup {new[h]})
        PROVE  TokensInv'
    <3>1. TypeOK'
      BY <2>4, ReturnStep DEF TypeOK, expiry
    <3>2. OnlyMade'
      BY <2>4, ReturnStep DEF OnlyMade
    <3>3. ParentsConsumed' /\ FlightsApart' /\ AccessFirst'
      BY <2>4, ReturnStep DEF ParentsConsumed, FlightsApart, AccessFirst
    <3>4. RedeemedOnce' /\ SessionNotForked' /\ HeldPairsAreHonoured'
      BY <2>4, ReturnStep DEF RedeemedOnce, SessionNotForked, HeldPairsAreHonoured, TypeOK
    <3>. QED BY <3>1, <3>2, <3>3, <3>4
  \* The token presented was held, so it has a record.
  <2>5. ASSUME NEW h \in Handlers, FetchAuth(h) PROVE TokensInv'
    <3>1. old[h] \in access
      BY <2>5 DEF FetchAuth, OnlyMade, HeldPairsAreHonoured
    <3>2. {} \in SUBSET refresh /\ refresh' = refresh \ {} /\ consumed' = consumed \cup {}
      BY <2>5 DEF FetchAuth
    <3>. QED BY <2>5, <3>1, <3>2, <2>4 DEF FetchAuth
  <2>6. ASSUME NEW h \in Handlers, DeleteAuth(h) PROVE TokensInv'
    <3>1. CASE Return(h)
      <4>1. CASE UNCHANGED <<refresh, consumed>>
        BY <2>6, <3>1, <4>1, <2>4, {} \in SUBSET refresh DEF DeleteAuth, history, CreateToken
      <4>2. CASE /\ old[h] \in refresh
                 /\ refresh' = refresh \ {old[h]}
                 /\ consumed' = consumed \cup {old[h]}
        <5>1. {old[h]} \in SUBSET refresh
          BY <4>2
        <5>2. UNCHANGED <<made, parent, session>>
          BY <2>6, <3>1, <4>2, ReturnStep DEF DeleteAuth, CreateToken, history, TypeOK
        <5>. QED BY <2>6, <3>1, <4>2, <5>1, <5>2, <2>4 DEF DeleteAuth
      <4>. QED BY <2>6, <3>1, <4>1, <4>2 DEF DeleteAuth, history
    <3>2. CASE /\ old[h] \in refresh
               /\ refresh' = refresh \ {old[h]}
               /\ consumed' = consumed \cup {old[h]}
               /\ CreateToken(h, old[h])
               /\ UNCHANGED old
      <4> DEFINE r == old[h]
      <4>0. r \in Pairs /\ r \in made /\ r \notin consumed /\ r # NoPair
        BY <3>2, TokensAssumption DEF TypeOK, OnlyMade, ParentsConsumed
      <4>1. PICK p \in Pairs \ made :
              /\ made' = made \cup {p}
              /\ pc' \in [Handlers -> {"idle", "get", "del", "setAccess", "setRefresh"}]
              /\ new' \in [Handlers -> Pairs \cup {NoPair}]
              /\ parent' \in [Pairs -> Pairs \cup {NoPair}]
              /\ session' \in [Pairs -> Pairs \cup {NoPair}]
              /\ pc'[h] = "setAccess" /\ new'[h] = p
              /\ \A g \in Handlers \ {h} : pc'[g] = pc[g] /\ new'[g] = new[g]
              /\ parent'[p] = r
              /\ session'[p] = session[r]
              /\ \A q \in Pairs \ {p} : parent'[q] = parent[q] /\ session'[q] = session[q]
        BY <3>2, <4>0, CreateStep
      <4>2. UNCHANGED <<access, stale, expired, held, rejected>>
        BY <2>6 DEF DeleteAuth, expiry
      <4>3. \A q \in made : q # p /\ q \in Pairs
        BY DEF OnlyMade, TypeOK
      <4>4. TypeOK'
        BY <3>2, <4>0, <4>1, <4>2 DEF TypeOK
      <4>5. OnlyMade'
        BY <3>2, <4>0, <4>1, <4>2, <4>3 DEF OnlyMade
      <4>6. \A g \in Handlers \ {h} : InFlight(g) => new[g] # r /\ session[new[g]] # session[r]
        BY <3>2 DEF SessionNotForked, ParentsConsumed
      <4>7. ParentsConsumed' /\ AccessFirst'
        BY <3>2, <4>0, <4>1, <4>2, <4>3, <4>6 DEF ParentsConsumed, AccessFirst, OnlyMade
      <4>8. FlightsApart'
        BY <4>1, <4>3, <4>6 DEF FlightsApart, OnlyMade
      <4>9. RedeemedOnce'
        BY <4>0, <4>1 DEF RedeemedOnce, ParentsConsumed, TypeOK
      <4>10. SessionNotForked'
        BY <3>2, <4>1, <4>3 DEF SessionNotForked, OnlyMade
      <4>11. HeldPairsAreHonoured'
        BY <3>2, <4>2 DEF HeldPairsAreHonoured
      <4>. QED BY <4>4, <4>5, <4>7, <4>8, <4>9, <4>10, <4>11
    <3>. QED BY <2>6, <3>1, <3>2 DEF DeleteAuth
  <2>7. ASSUME NEW h \in Handlers, SetAccess(h) PROVE TokensInv'
    <3>1. CASE Return(h)
      <4>1. {} \in SUBSET refresh /\ refresh' = refresh \ {} /\ consumed' = consumed \cup {}
        BY <2>7 DEF SetAccess, history
      <4>. QED BY <2>7, <3>1, <4>1, <2>4 DEF SetAccess, history
    <3>2. CASE /\ access' = access \cup {new[h]}
               /\ pc' = [pc EXCEPT ![h] = "setRefresh"]
               /\ UNCHANGED <<old, new>>
      <4>1. /\ UNCHANGED <<refresh, stale, expired, held, made, parent, session, consumed, rejected>>
            /\ pc[h] = "setAccess"
        BY <2>7 DEF SetAccess, history, expiry
      <4>2. TypeOK' /\ OnlyMade'
        BY <3>2, <4>1 DEF TypeOK, OnlyMade
      <4>3. ParentsConsumed' /\ FlightsApart' /\ AccessFirst'
        BY <3>2, <4>1 DEF ParentsConsumed, FlightsApart, AccessFirst, TypeOK
      <4>4. RedeemedOnce' /\ SessionNotForked' /\ HeldPairsAreHonoured'
        BY <3>2, <4>1 DEF RedeemedOnce, SessionNotForked, HeldPairsAreHonoured, TypeOK
      <4>. QED BY <4>2, <4>3, <4>4
    <3>. QED BY <2>7, <3>1, <3>2 DEF SetAccess
  <2>8. ASSUME NEW h \in Handlers, SetRefresh(h) PROVE TokensInv'
    <3> DEFINE p == new[h]
    <3>1. /\ Return(h) /\ pc[h] = "setRefresh" /\ p \in made /\ p \in Pairs /\ p \in access
          /\ p \notin consumed \cup refresh \cup held
          /\ UNCHANGED <<access, stale, expired, made, parent, session, consumed, rejected>>
      BY <2>8 DEF SetRefresh, history, expiry, TypeOK, OnlyMade, ParentsConsumed, AccessFirst
    <3>2. \/ refresh' = refresh \cup {p} /\ held' \in {held, held \cup {p}}
          \/ refresh' = refresh /\ held' = held
      BY <2>8 DEF SetRefresh
    <3>3. TypeOK'
      BY <3>1, <3>2, ReturnStep DEF TypeOK
    <3>4. OnlyMade'
      BY <3>1, <3>2, ReturnStep DEF OnlyMade
    <3>5. \A g \in Handlers \ {h} : InFlight(g) => new[g] # p /\ session[new[g]] # session[p]
      BY <3>1 DEF FlightsApart
    <3>6. ParentsConsumed' /\ FlightsApart' /\ AccessFirst'
      BY <3>1, <3>2, <3>5, ReturnStep DEF ParentsConsumed, FlightsApart, AccessFirst
    <3>7. RedeemedOnce'
      BY <3>1 DEF RedeemedOnce
    <3>8. SessionNotForked'
      BY <3>1, <3>2, <3>5, ReturnStep DEF SessionNotForked
    <3>9. HeldPairsAreHonoured'
      BY <3>1, <3>2 DEF HeldPairsAreHonoured
    <3>. QED BY <3>3, <3>4, <3>6, <3>7, <3>8, <3>9
  <2>9. ASSUME NEW p \in Pairs, Expire(p) PROVE TokensInv'
    BY <2>9 DEF Expire, local, history, TypeOK, OnlyMade, ParentsConsumed, FlightsApart,
                AccessFirst, RedeemedOnce, SessionNotForked, HeldPairsAreHonoured
  <2>10. ASSUME Crash PROVE TokensInv'
    BY <2>10 DEF Crash, history, expiry, TypeOK, OnlyMade, ParentsConsumed, FlightsApart,
                AccessFirst, RedeemedOnce, SessionNotForked, HeldPairsAreHonoured
  <2>11. CASE UNCHANGED vars
    BY <2>11 DEF vars, local, history, expiry, TypeOK, OnlyMade, ParentsConsumed, FlightsApart,
                AccessFirst, RedeemedOnce, SessionNotForked, HeldPairsAreHonoured
  <2>. QED BY <2>1, <2>2, <2>6, <2>7, <2>8, <2>9, <2>10, <2>11, <2>3, <2>5 DEF Next
<1>. QED BY <1>1, <1>2, PTL DEF Spec

--------------------------------------------------------------------------------
(* What it is for. *)

\* Every variable keeps its type: what a handler has under way is a pair.
THEOREM TypeCorrect == Spec => []TypeOK
<1>1. TokensInv => TypeOK
  BY DEF TokensInv
<1>. QED BY <1>1, TokensInductive, PTL

\* However often and however concurrently a refresh token is presented, one pair
\* at most is made from it (RefreshToken, DeleteAuth).
THEOREM RedeemedAtMostOnce == Spec => []RedeemedOnce
<1>1. TokensInv => RedeemedOnce
  BY DEF TokensInv
<1>. QED BY <1>1, TokensInductive, PTL

\* The chain of pairs that begins at a sign-in has one end, and none while a
\* refresh is under way (RefreshToken, CreateAuth).
THEOREM SessionsNeverFork == Spec => []SessionNotForked
<1>1. TokensInv => SessionNotForked
  BY DEF TokensInv
<1>. QED BY <1>1, TokensInductive, PTL

\* What a client was answered is recorded, both tokens of it, until the refresh
\* token is redeemed, so that no unexpired access token is turned away (CreateAuth
\* stores before the answer; Handler, FetchAuth).
THEOREM HeldPairsHonoured == Spec => []HeldPairsAreHonoured
<1>1. TokensInv => HeldPairsAreHonoured
  BY DEF TokensInv
<1>. QED BY <1>1, TokensInductive, PTL

--------------------------------------------------------------------------------
(* The refinement: sign-in begins a session, the DEL of a refresh redeems   *)
(* its token, the SET of a refresh record issues one, and what fails or     *)
(* crashes between them forfeits it.                                        *)

Begun == {p \in made : session[p] = p}
Live == [s \in Pairs |-> LiveToken(s)]
Owed == {session[new[h]] : h \in {g \in Handlers : InFlight(g)}}
Issued == refresh \cup consumed

\* The token of a session is the refresh record of its chain.
LEMMA LiveFacts ==
    ASSUME TokensInv, NEW s \in Pairs
    PROVE  /\ \A p \in refresh : session[p] = s => LiveToken(s) = p
           /\ (\A p \in refresh : session[p] # s) => LiveToken(s) = NoPair
BY DEF LiveToken, TokensInv, SessionNotForked

\* A session whose refresh record is the same has the same token.
LEMMA LiveSame ==
    ASSUME TokensInv, NEW s \in Pairs,
           \A q : q \in refresh' /\ session'[q] = s <=> q \in refresh /\ session[q] = s
    PROVE  LiveToken(s)' = LiveToken(s)
<1>1. CASE \E q \in refresh : session[q] = s
  <2>1. PICK q \in refresh : session[q] = s
    BY <1>1
  <2>2. \A r \in refresh : session[r] = s <=> r = q
    BY <2>1 DEF TokensInv, SessionNotForked
  <2>3. q \in refresh' /\ \A r \in refresh' : session'[r] = s <=> r = q
    BY <2>1, <2>2
  <2>4. LiveToken(s) = q
    BY <2>1, <2>2 DEF LiveToken
  <2>5. LiveToken(s)' = q
    BY <2>3 DEF LiveToken
  <2>. QED BY <2>4, <2>5
<1>2. CASE ~\E q \in refresh : session[q] = s
  <2>1. ~\E q \in refresh' : session'[q] = s
    BY <1>2
  <2>. QED BY <1>2, <2>1 DEF LiveToken
<1>. QED BY <1>1, <1>2

\* What a step leaves alone of records and chains it leaves alone of sessions.
LEMMA LiveUnchanged ==
    ASSUME TokensInv, refresh' = refresh,
           \A p \in refresh : session'[p] = session[p]
    PROVE  Live' = Live
BY LiveSame DEF Live

\* A handler that is done, or gives up, owes its session nothing any more, and the
\* others owe what they owed.
LEMMA OwedByOthers ==
    ASSUME TokensInv, NEW h \in Handlers, Return(h), session' = session
    PROVE  /\ InFlight(h) => Owed' = Owed \ {session[new[h]]}
           /\ ~InFlight(h) => Owed' = Owed
<1>1. ~InFlight(h)' /\ \A g \in Handlers \ {h} : InFlight(g)' = InFlight(g) /\ new'[g] = new[g]
  BY ReturnStep DEF InFlight
<1>2. \A g \in Handlers \ {h} : InFlight(g) /\ InFlight(h) => session[new[g]] # session[new[h]]
  BY DEF TokensInv, FlightsApart
<1>. QED BY <1>1, <1>2 DEF Owed

\* A pair that is made joins the session it is made for, if it does not name its own.
LEMMA Chained ==
    ASSUME TokensInv, NEW h \in Handlers, NEW from \in made \cup {NoPair},
           CreateToken(h, from), ~InFlight(h)
    PROVE  \E s \in Pairs :
              /\ s = session'[new'[h]]
              /\ from # NoPair => s = session[from] /\ Begun' = Begun
              /\ from = NoPair => s \notin Begun /\ Begun' = Begun \cup {s}
              /\ Owed' = Owed \cup {s}
              /\ \A q \in made : session'[q] = session[q]
<1>1. from \in Pairs \cup {NoPair} /\ NoPair \notin made
  BY TokensAssumption DEF TokensInv, TypeOK
<1>2. PICK p \in Pairs \ made :
              /\ made' = made \cup {p}
              /\ pc' \in [Handlers -> {"idle", "get", "del", "setAccess", "setRefresh"}]
              /\ new' \in [Handlers -> Pairs \cup {NoPair}]
              /\ parent' \in [Pairs -> Pairs \cup {NoPair}]
              /\ session' \in [Pairs -> Pairs \cup {NoPair}]
              /\ pc'[h] = "setAccess" /\ new'[h] = p
              /\ \A g \in Handlers \ {h} : pc'[g] = pc[g] /\ new'[g] = new[g]
              /\ parent'[p] = from
              /\ session'[p] = IF from = NoPair THEN p ELSE session[from]
              /\ \A q \in Pairs \ {p} : parent'[q] = parent[q] /\ session'[q] = session[q]
  BY <1>1, CreateStep
<1>3. \A q \in made : q # p /\ q \in Pairs /\ session[q] \in made
  BY DEF TokensInv, OnlyMade, TypeOK
<1>4. \A q \in made : session'[q] = session[q]
  BY <1>2, <1>3
<1>. DEFINE s == session'[p]
<1>5. s \in Pairs
  BY <1>1, <1>2, <1>3
<1>6. Owed' = Owed \cup {s}
  <2>1. \A g \in Handlers \ {h} : InFlight(g)' = InFlight(g) /\ new'[g] = new[g]
    BY <1>2 DEF InFlight
  <2>2. InFlight(h)' /\ new'[h] = p
    BY <1>2 DEF InFlight
  <2>3. \A g \in Handlers : InFlight(g) => session'[new[g]] = session[new[g]]
    BY <1>4 DEF TokensInv, OnlyMade
  <2>4. \A g \in Handlers \ {h} : InFlight(g) => session'[new'[g]] = session[new[g]]
    BY <2>1, <2>3
  <2>. QED BY <2>1, <2>2, <2>4 DEF Owed
<1>7. from # NoPair => s = session[from] /\ Begun' = Begun
  BY <1>1, <1>2, <1>3, <1>4 DEF Begun
<1>8. from = NoPair => s \notin Begun /\ Begun' = Begun \cup {s}
  BY <1>2, <1>3, <1>4 DEF Begun
<1>. QED BY <1>2, <1>4, <1>5, <1>6, <1>7, <1>8

\* A refresh record that is deleted was the token of its session, and there is none
\* in its place.
LEMMA RedeemLive ==
    ASSUME TokensInv, NEW p \in refresh, refresh' = refresh \ {p},
           \A q \in refresh : session'[q] = session[q]
    PROVE  /\ session[p] \in Pairs
           /\ Live[session[p]] = p
           /\ Live' = [Live EXCEPT ![session[p]] = NoPair]
<1>1. /\ session[p] \in Pairs
      /\ \A q \in refresh : session[q] = session[p] => q = p
  BY DEF TokensInv, TypeOK, OnlyMade, SessionNotForked
<1>2. Live[session[p]] = p
  BY <1>1, LiveFacts DEF Live
<1>3. LiveToken(session[p])' = NoPair
  BY <1>1 DEF LiveToken
<1>4. ASSUME NEW s \in Pairs, s # session[p] PROVE LiveToken(s)' = LiveToken(s)
  <2>1. \A q : q \in refresh' /\ session'[q] = s <=> q \in refresh /\ session[q] = s
    BY <1>4
  <2>. QED BY <2>1, LiveSame
<1>. QED BY <1>1, <1>2, <1>3, <1>4 DEF Live

\* A refresh record that is stored becomes the token of its session, which had none.
LEMMA IssueLive ==
    ASSUME TokensInv, NEW h \in Handlers, pc[h] = "setRefresh",
           NEW p, p = new[h], NEW s, s = session[p],
           refresh' = refresh \cup {p}, session' = session
    PROVE  /\ s \in Pairs /\ p \in Pairs \ Issued
           /\ Live[s] = NoPair
           /\ Live' = [Live EXCEPT ![s] = p]
<1>1. /\ s \in Pairs /\ p \in Pairs \ Issued
      /\ \A q \in refresh : session[q] # s
  BY DEF TokensInv, TypeOK, OnlyMade, ParentsConsumed, SessionNotForked, InFlight, Issued
<1>2. Live[s] = NoPair
  BY <1>1, LiveFacts DEF Live
<1>3. LiveToken(s)' = p
  <2>1. p \in refresh' /\ \A q \in refresh' : session'[q] = s <=> q = p
    BY <1>1
  <2>. QED BY <2>1 DEF LiveToken
<1>4. ASSUME NEW r \in Pairs, r # s PROVE LiveToken(r)' = LiveToken(r)
  <2>1. \A q : q \in refresh' /\ session'[q] = r <=> q \in refresh /\ session[q] = r
    BY <1>4
  <2>. QED BY <2>1, LiveSame
<1>. QED BY <1>1, <1>2, <1>3, <1>4 DEF Live

\* Every behaviour of the handlers is a behaviour of sessions, for any handlers, any
\* supply of uuids and any failing commands.
THEOREM SessionsImplemented == Spec => ImplementsSessions
<1>1. Init => Promise!Init
  BY DEF Init, Promise!Init, LiveToken, InFlight
<1>2. TokensInv /\ [Next]_vars => [Promise!Next]_Promise!vars
  <2> SUFFICES ASSUME TokensInv, [Next]_vars
               PROVE  Promise!Next \/ UNCHANGED <<Begun, Live, Owed, Issued, held>>
    BY DEF Promise!vars, Begun, Live, Owed, Issued
  <2>1. ASSUME NEW h \in Handlers, SignIn(h) PROVE Promise!Next
    <3>1. PICK s \in Pairs : /\ s \notin Begun /\ Begun' = Begun \cup {s}
                             /\ Owed' = Owed \cup {s}
                             /\ \A q \in made : session'[q] = session[q]
      BY <2>1, Chained DEF SignIn, InFlight
    <3>2. Live' = Live
      BY <2>1, <3>1, LiveUnchanged DEF SignIn, TokensInv, OnlyMade
    <3>3. UNCHANGED <<Issued, held>>
      BY <2>1 DEF SignIn, Issued
    <3>4. Promise!Begin(s)
      BY <3>1, <3>2, <3>3 DEF Promise!Begin, Begun, Live, Owed, Issued
    <3>. QED BY <3>4 DEF Promise!Next
  <2>2. ASSUME NEW h \in Handlers, NEW p \in Pairs, Refresh(h, p) \/ Present(h, p)
        PROVE  UNCHANGED <<Begun, Live, Owed, Issued, held>>
    <3>1. \A g \in Handlers : InFlight(g)' = InFlight(g)
      BY <2>2 DEF Refresh, Present, InFlight, TokensInv, TypeOK
    <3>2. UNCHANGED <<refresh, session, made, new, held, consumed>>
      BY <2>2 DEF Refresh, Present, history
    <3>. QED BY <3>1, <3>2, LiveUnchanged DEF Begun, Owed, Issued
  \* A handler returns and leaves the records as they are.
  <2>3. ASSUME NEW h \in Handlers, Return(h),
               UNCHANGED <<refresh, session, made, held, consumed>>
        PROVE  Promise!Next \/ UNCHANGED <<Begun, Live, Owed, Issued, held>>
    <3>1. UNCHANGED <<Begun, Live, Issued, held>>
      BY <2>3, LiveUnchanged DEF Begun, Issued
    <3>2. CASE InFlight(h)
      <4>1. PICK s \in Pairs : Owed' = Owed \ {s}
        BY <2>3, <3>2, OwedByOthers DEF TokensInv, OnlyMade, TypeOK
      <4>2. Promise!Forfeit({s})
        BY <3>1, <4>1 DEF Promise!Forfeit, Begun, Live, Owed, Issued
      <4>. QED BY <4>2 DEF Promise!Next
    <3>3. CASE ~InFlight(h)
      BY <2>3, <3>1, <3>3, OwedByOthers
    <3>. QED BY <3>2, <3>3
  <2>4. ASSUME NEW h \in Handlers, FetchAuth(h)
        PROVE  Promise!Next \/ UNCHANGED <<Begun, Live, Owed, Issued, held>>
    BY <2>3, <2>4 DEF FetchAuth
  \* DEL deletes the record of the token presented.
  <2>5. ASSUME NEW h \in Handlers, pc[h] = "del", old[h] \in refresh,
               refresh' = refresh \ {old[h]}, consumed' = consumed \cup {old[h]},
               UNCHANGED held, Begun' = Begun,
               \A q \in made : session'[q] = session[q],
               Owed' \in {Owed, Owed \cup {session[old[h]]}}
        PROVE  Promise!Next
    <3>1. PICK s \in Pairs : /\ s = session[old[h]]
                             /\ Live[s] = old[h]
                             /\ Live' = [Live EXCEPT ![s] = NoPair]
      BY <2>5, RedeemLive DEF TokensInv, OnlyMade
    <3>2. old[h] \in held /\ Issued' = Issued
      BY <2>5 DEF TokensInv, OnlyMade, Issued
    <3>3. Promise!Redeem(s)
      BY <2>5, <3>1, <3>2 DEF Promise!Redeem, Begun, Live, Owed, Issued
    <3>. QED BY <3>3 DEF Promise!Next
  <2>6. ASSUME NEW h \in Handlers, DeleteAuth(h)
        PROVE  Promise!Next \/ UNCHANGED <<Begun, Live, Owed, Issued, held>>
    <3>1. pc[h] = "del" /\ ~InFlight(h) /\ UNCHANGED held
      BY <2>6 DEF DeleteAuth, InFlight
    <3>2. CASE /\ old[h] \in refresh /\ refresh' = refresh \ {old[h]}
               /\ consumed' = consumed \cup {old[h]} /\ CreateToken(h, old[h])
      <4>1. old[h] \in made /\ old[h] # NoPair
        BY <3>2, TokensAssumption DEF TokensInv, OnlyMade, TypeOK
      <4>2. /\ Begun' = Begun /\ Owed' = Owed \cup {session[old[h]]}
            /\ \A q \in made : session'[q] = session[q]
        BY <3>1, <3>2, <4>1, Chained
      <4>. QED BY <2>5, <3>1, <3>2, <4>2
    <3>3. CASE Return(h) /\ UNCHANGED <<refresh, made, parent, session, consumed>>
      BY <2>3, <3>1, <3>3
    <3>4. CASE /\ old[h] \in refresh /\ refresh' = refresh \ {old[h]}
               /\ consumed' = consumed \cup {old[h]}
               /\ Return(h) /\ UNCHANGED <<made, parent, session>>
      <4>1. Owed' = Owed /\ Begun' = Begun
        BY <3>1, <3>4, OwedByOthers DEF Begun
      <4>. QED BY <2>5, <3>1, <3>4, <4>1
    <3>. QED BY <2>6, <3>2, <3>3, <3>4 DEF DeleteAuth
  <2>7. ASSUME NEW h \in Handlers, SetAccess(h)
        PROVE  Promise!Next \/ UNCHANGED <<Begun, Live, Owed, Issued, held>>
    <3>1. UNCHANGED <<refresh, session, made, held, consumed>>
      BY <2>7 DEF SetAccess, history
    <3>2. CASE pc[h] = "setAccess" /\ pc' = [pc EXCEPT ![h] = "setRefresh"] /\ UNCHANGED new
      <4>1. \A g \in Handlers : InFlight(g)' = InFlight(g)
        BY <3>2 DEF InFlight, TokensInv, TypeOK
      <4>. QED BY <3>1, <3>2, <4>1, LiveUnchanged DEF Begun, Owed, Issued
    <3>3. CASE Return(h)
      BY <2>3, <3>1, <3>3
    <3>. QED BY <2>7, <3>2, <3>3 DEF SetAccess
  <2>8. ASSUME NEW h \in Handlers, SetRefresh(h)
        PROVE  Promise!Next \/ UNCHANGED <<Begun, Live, Owed, Issued, held>>
    <3>1. /\ pc[h] = "setRefresh" /\ InFlight(h) /\ Return(h)
          /\ UNCHANGED <<session, made, consumed>>
      BY <2>8 DEF SetRefresh, InFlight, history
    <3>2. CASE refresh' = refresh /\ held' = held
      BY <2>3, <3>1, <3>2
    <3>3. CASE refresh' = refresh \cup {new[h]} /\ held' \in {held, held \cup {new[h]}}
      <4>1. PICK p, s : p = new[h] /\ s = session[p]
        OBVIOUS
      <4>2. /\ s \in Pairs /\ p \in Pairs \ Issued
            /\ Live[s] = NoPair /\ Live' = [Live EXCEPT ![s] = p]
        BY <3>1, <3>3, <4>1, IssueLive
      <4>3. Owed' = Owed \ {s} /\ s \in Owed
        BY <3>1, <4>1, OwedByOthers DEF Owed
      <4>4. Begun' = Begun /\ Issued' = Issued \cup {p}
        BY <3>1, <3>3, <4>1 DEF Begun, Issued
      <4>5. Promise!Issue(s, p)
        BY <3>3, <4>1, <4>2, <4>3, <4>4 DEF Promise!Issue, Begun, Live, Owed, Issued
      <4>. QED BY <4>2, <4>5 DEF Promise!Next
    <3>. QED BY <2>8, <3>2, <3>3 DEF SetRefresh
  <2>9. ASSUME NEW p \in Pairs, Expire(p)
        PROVE  UNCHANGED <<Begun, Live, Owed, Issued, held>>
    BY <2>9, LiveUnchanged DEF Expire, local, history, Begun, Owed, Issued, InFlight
  <2>10. ASSUME Crash PROVE Promise!Next
    <3>1. UNCHANGED <<Begun, Live, Issued, held>>
      BY <2>10, LiveUnchanged DEF Crash, history, Begun, Issued
    <3>2. Owed' = {} /\ Owed \in SUBSET Pairs
      BY <2>10 DEF Crash, Owed, InFlight, TokensInv, OnlyMade, TypeOK
    <3>3. Promise!Forfeit(Pairs)
      BY <3>1, <3>2 DEF Promise!Forfeit, Begun, Live, Owed, Issued
    <3>. QED BY <3>3 DEF Promise!Next
  <2>11. CASE UNCHANGED vars
    <3>1. UNCHANGED <<pc, new, refresh, session, made, held, consumed>>
      BY <2>11 DEF vars, local, history
    <3>. QED BY <3>1, LiveUnchanged DEF Begun, Owed, Issued, InFlight
  <2>. QED BY <2>1, <2>2, <2>4, <2>6, <2>7, <2>8, <2>9, <2>10, <2>11 DEF Next
<1>. QED BY <1>1, <1>2, TokensInductive, PTL DEF Spec, ImplementsSessions, Promise!Spec

================================================================================
