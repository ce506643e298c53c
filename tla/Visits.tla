--------------------------------- MODULE Visits ---------------------------------
(***************************************************************************)
(* What becomes of a visit to a short link: the redirect starts a hit,      *)
(* which is ignored or built from the request (internal/track), stored by   *)
(* the tracker some time later, and counted when the owner of the link asks *)
(* for its analytics (internal/analytics, PostgresStore.GetAnalytics).      *)
(*                                                                          *)
(* Links are made one at a time here (Shortener has them race) and a hit is *)
(* stored or lost (Tracker says when).  A path is the sequence of its       *)
(* pieces, "/" being one.                                                   *)
(***************************************************************************)
EXTENDS Naturals, Sequences, FiniteSets, FiniteSetsExt, TLC

CONSTANTS
    Users,
    Codes,              \* suggested names: random links do not resolve
    Requests,           \* what clients send with a visit: see RequestTypes
    MinVersion,         \* browser -> the oldest major version that is counted
    MaxVisits,          \* bounds of the model
    MaxDay,
    SystemParts, ProductTokens, MaxTokens, WindowsVersions, SafariVersions

VARIABLES
    urls,       \* codes bound in Redis
    links,      \* rows of links with their row of user_links
    visits,     \* the hits sent to the tracker, in order
    hit,        \* which of them are rows of hit
    day         \* days since the start, in UTC

vars == <<urls, links, visits, hit, day>>

Agent(header) == INSTANCE UserAgent WITH ua <- header

\* forwarded: the address of the first header of ipHeaders that has one, or "".
RequestTypes == [agent : Seq([prefix : STRING, version : Seq(Nat)]), dnt : BOOLEAN,
                 prefetch : BOOLEAN, forwarded : STRING, remote : STRING]

TypeOK ==
    /\ Requests \subseteq RequestTypes
    /\ urls \subseteq Codes
    /\ links \subseteq [user : Users, path : {<<c>> : c \in Codes}]
    /\ hit \subseteq DOMAIN visits
    /\ day \in 0..MaxDay

Init ==
    /\ urls = {}
    /\ links = {}
    /\ visits = << >>
    /\ hit = {}
    /\ day = 0

--------------------------------------------------------------------------------
(* A link, a visit, a hit. *)

\* The path of the link is its name (service.EnCode); a failing INSERT leaves the
\* name bound and the link unlisted.
EnCode(user, code) ==
    /\ code \notin urls
    /\ urls' = urls \cup {code}
    /\ links' \in {links, links \cup {[user |-> user, path |-> <<code>>]}}
    /\ UNCHANGED <<visits, hit, day>>

\* A browser whose version is known and older than those of early 2018.
IgnoreBrowserVersion(agent) ==
    /\ agent.BrowserVersion # << >>
    /\ agent.Browser \in DOMAIN MinVersion
    /\ agent.BrowserVersion[1] < MinVersion[agent.Browser]

IgnoreHit(request) ==
    \/ request.dnt
    \/ request.agent = << >>
    \/ request.prefetch
    \/ IgnoreBrowserVersion(Agent(request.agent)!ParseUserAgent)

GetIP(request) == IF request.forwarded # "" THEN request.forwarded ELSE request.remote

\* The MD5 of these, with the salt that every request has in common.
Fingerprint(request) == <<request.agent, GetIP(request), day>>

\* The path of the URL the request is for; nobody sets another in the options.
RequestPath(code) == <<"/", code>>

\* The columns that visitors are counted by.
HitFromRequest(request, path) ==
    [fingerprint |-> Fingerprint(request), path |-> path, time |-> day]

Redirect(request, code) ==
    /\ Len(visits) < MaxVisits
    /\ code \in urls
    /\ ~IgnoreHit(request)
    /\ visits' = Append(visits, HitFromRequest(request, RequestPath(code)))
    /\ UNCHANGED <<urls, links, hit, day>>

\* A worker hands its hits to the store, in any order and in one INSERT.
SaveHits ==
    /\ \E hits \in SUBSET (DOMAIN visits \ hit) :
        /\ hits # {}
        /\ hit' = hit \cup hits
    /\ UNCHANGED <<urls, links, visits, day>>

Midnight ==
    /\ day < MaxDay
    /\ day' = day + 1
    /\ UNCHANGED <<urls, links, visits, hit>>

Next ==
    \/ \E user \in Users, code \in Codes : EnCode(user, code)
    \/ \E request \in Requests, code \in Codes : Redirect(request, code)
    \/ SaveHits
    \/ Midnight

Spec == Init /\ [][Next]_vars

--------------------------------------------------------------------------------
(* GET /api/v1/anal: it changes nothing. *)

dateTypes == {"daily", "yesterday", "weekly", "monthly"}

\* The queries that are not answered 400.  Their mode is left out: it chooses how
\* the visitors of a path are split by browser and platform, not which are counted.
Queries == [unique : BOOLEAN, date : dateTypes]

\* The days before today that a date reaches back to; a month has 30.
DaysBack(date) == CASE date = "daily" -> 0
                    [] date = "yesterday" -> 1
                    [] date = "weekly" -> 7
                    [] OTHER -> 30

\* hit.time > CURRENT_DATE - interval: yesterday's includes today's.
InPeriod(n, date) == visits[n].time + DaysBack(date) >= day

\* The rows of hit_with_time.
HitWithTime(q) == {n \in hit : InPeriod(n, q.date)}

\* The join of the user's links with the rows of the same path: a row counts once per
\* link, or, when unique, once per fingerprint.
Visitors(q, path, user) ==
    LET rows == {n \in HitWithTime(q) : visits[n].path = path}
        linked == {l \in links : l.user = user /\ l.path = path}
    IN  IF q.unique THEN Cardinality({visits[n].fingerprint : n \in rows})
        ELSE Cardinality(rows) * Cardinality(linked)

GetAnalytics(q, user) ==
    {[path |-> path, visitors |-> Visitors(q, path, user)] :
        path \in {visits[n].path : n \in HitWithTime(q)}
                     \cap {l.path : l \in {k \in links : k.user = user}}}

--------------------------------------------------------------------------------
(* Properties. *)

\* The hits stored of a link are visitors in its owner's analytics, for every period
\* they fall in, each of them or, when unique, each client of them: src/README.md
\* promises "analytics", "daily, monthly, weekly", "uniq, overall".
VisitsAreCounted ==
    \A l \in links, q \in Queries :
        LET stored == {n \in HitWithTime(q) : visits[n].path = <<"/">> \o l.path}
            due == IF q.unique THEN {visits[n].fingerprint : n \in stored} ELSE stored
        IN  stored # {} =>
                \E stats \in GetAnalytics(q, l.user) : stats.visitors >= Cardinality(due)
================================================================================
