# go-shorti in TLA+

TLA+ models of [go-shorti](../src/README.md), a URL shortener in Go with Redis,
PostgreSQL, RabbitMQ and a mail service, the TLC runs that check them on small
instances, and theorems about them that TLAPS proves for instances of every size.

Paths below are relative to the repository. `PROJECT.json` lists every run, every
mutant and, for every definition, the lines it translates.

## 1. The system

Two processes. **url** (`src/url`) serves the HTTP API: accounts, links, redirects,
analytics. **microservice-email** (`src/microservice-email`) takes mails over HTTP,
queues them in RabbitMQ and sends them by SMTP. Every HTTP request has a goroutine of
its own; requests share the two stores and the tracker, and nothing else.

```
client --POST /api/v1/encode--> service.EnCode --HMSET--> Redis
                                               --INSERT-> PostgreSQL links, user_links
client --GET /code--> service.Load --HGET--> Redis
                            `--go track--> Tracker --INSERT--> PostgreSQL hit
client --GET /api/v1/anal--> service.Analytic --SELECT--> links JOIN hit
client --/api/v1/users/...--> auth.service --> users, codes and tokens in Redis
                                    `--POST--> email service --> RabbitMQ --> consumer --> SMTP
```

### 1.1 Components

| Component | State it keeps | Operations | Talks to |
|---|---|---|---|
| URL shortener (`url/internal/urlShortner`) | Redis hashes `Shortener:<name>`, rows of `links` and `user_links` | `EnCode`, `Create`, `createLink`, `Load`, `FindOne` | names, SQL store, tracker |
| Names (`url/pkg/base62`, `url/pkg/stringSuggestion`) | none; one global random generator | `Encode`, `Decode`, `Suggest` | - |
| Hit tracker (`url/internal/track/tracker.go`) | a buffered channel, a slice per worker, a flag, a context | `Hit`, `Flush`, `Stop`, `aggregate`, `flushHits` | hit construction, SQL store |
| Hit construction (`hit.go`, `user_agent.go`, `fingerprint.go`, `ip.go`) | none | `IgnoreHit`, `HitFromRequest`, `ParseUserAgent`, `Fingerprint` | - |
| Analytics (`url/internal/analytics`) | none; reads `links` and `hit` | `Analytic`, `queriesValidator`, `GetAnalytics` | SQL store |
| Accounts (`url/internal/auth`) | `users`, the verification code of an email in Redis | `SignUp`, `VerifyEmail`, `SignIn` | tokens, email service |
| Token pairs (`url/pkg/jwt`) | two records per pair in Redis | `CreateToken`, `CreateAuth`, `RefreshToken`, `verifyToken`, `FetchAuth`, the access check of `Handler` | Redis |
| SQL store (`url/internal/store/postgres.go`) | transactions | one method per statement, `NewTx`, `Commit`, `Rollback` | PostgreSQL |
| Email service (`microservice-email`) | a durable queue, a consumer | `sendEmailView`, `Send`, `StartConsumer`, `callback` | RabbitMQ, SMTP |
| Server (`url/cmd/server/main.go`) | the process, its listener, a channel for signals | set-up, `ListenAndServe`, shutdown on a signal | all of `url` |
| Error middleware and access log (`url/internal/errors`, `url/pkg/accesslog`) | the writer of one call | `Handler`, `buildErrorResponse` | every handler |
| Logging, configuration, validators, health check, connection pools | none of their own | - | - |

### 1.2 What is hard, and what makes a component correct

* **Shortener.** The probe for a free name (EXISTS) and the binding (HMSET) are two
  commands; Redis is written before PostgreSQL with no common transaction; errors of
  EXISTS, `Beginx` and COMMIT are swallowed in three different ways. *Correct* means
  that a link is not given out again, that no listed link dangles or is without an
  owner, that an answered link is listed, and that every request ends, all of it but for
  the swallowed errors.
* **Names.** Ids are rendered in two spellings and share a key space with suggestions;
  edits are counted in bytes and made on characters. *Correct*: the round trip of an id,
  a suggestion that stays a usable path and similar to what was asked for.
* **Tracker.** Four kinds of goroutines meet on one buffered and one unbuffered channel,
  an atomic flag and a context. *Correct*: no sent hit is lost while the process
  runs, none is stored twice, pools do not overlap, hits reach the store, and calls that do not overlap return.
* **Hit construction, analytics.** Browsers imitate each other; two parts of the program
  write the paths a query joins on. *Correct*: a browser is taken for itself, a phone for
  a phone, a visit is counted.
* **Accounts.** Four stores and services are called one after the other, each may fail,
  two requests for one email may race. *Correct*: nobody is verified but by the code that
  belongs to the account, every account can still be verified, and an answered sign-up
  was mailed.
* **Token pairs.** A refresh token can be presented twice, at once or after a lost
  answer, while other requests carry the access token of the pair. *Correct*: it is redeemed
  once, the chain of pairs of a session has one end, and no unexpired access token is turned
  away.
* **Server.** `main` and the goroutine of `ListenAndServe` both end the process and do not
  know of each other; signals come at any time. *Correct*: a signal ends the process, calls
  under way are awaited, a server that cannot listen does not stay.
* **Error middleware.** Handlers return errors of six kinds or panic, after anything they
  did. *Correct*: a failure is told to the client and to the access log.
* **Email service.** A view's connection, the consumer's or the process may go at any point
  between publish, delivery, sending and acknowledgement, and no confirm is waited for.
  *Correct*: an answered mail that the broker took is not lost, is repeated only for a loss,
  and is tried in order.

The hazards, each with its line and the properties that would catch it going wrong, are
in `PROJECT.json`.

## 2. The modules

| Module | Models | Level |
|---|---|---|
| `LinkRegistry` | what the shortener promises to concurrent clients: only an unbound name is claimed, unless blindly, and a client is granted only a link that stands for a name it bound itself | abstract |
| `Shortener` | `EnCode` call by call for concurrent handlers, `FindOne` | detailed |
| `ShortenerProofs` | theorems about `Shortener` | proofs |
| `HitLedger` | what the tracker promises: an append-only table of accepted hits, each once | abstract |
| `Tracker` | `Hit`, `Stop`, `Flush`, the workers, the drain, the store, the exit of the process | detailed |
| `TrackerProofs` | theorems about `Tracker` | proofs |
| `Subsequences` | the elements of a sequence at some of its positions | operators |
| `SequenceLemmas` | what `Append`, `Tail`, concatenation and `Subsequence` do to the elements of a sequence, how many of them are in a set, and functions defined from 0 on | lemmas |
| `Sessions` | what token pairs promise: a session can be continued with one token at a time, which is redeemed once, for one new token | abstract |
| `Tokens`, `TokensProofs` | sign-in, refresh and access check of token pairs, and theorems about them | detailed, proofs |
| `EmailParams` | the parameter check both sides of a mail depend on | operators |
| `Accounts`, `AccountsProofs` | sign-up, verification and the check of a sign-in (extends `EmailParams`), and theorems about them | detailed, proofs |
| `Mailbox` | what the email service promises: an answered email waits or was missed for good, emails wait in one order, and each is tried before it is done with, once more only for a loss | abstract |
| `EmailQueue`, `EmailQueueProofs` | views, broker, consumer, losses and restarts (extends `EmailParams`), and theorems about them | detailed, proofs |
| `Base62` | `Encode` and `Decode` digit by digit | detailed |
| `Suggestion` | `Suggest`, edit by edit (extends `Subsequences`) | detailed |
| `UserAgent` | `ParseUserAgent` as operators over headers of tokens (extends `Subsequences`) | operators |
| `Algorithms` | the three together, one computation at a time | composition |
| `AlgorithmsProofs` | theorems about `Base62`, `Suggestion`, `UserAgent` and `Algorithms` | proofs |
| `Visits` | a visit from the redirect to the analytics, over `UserAgent` | composition |
| `Server`, `ServerProofs` | the life of the process, and calls through the handlers of `router.Use`, and theorems about the calls | detailed, proofs |
| `MCShortener`, `MCTracker`, `MCTokens`, `MCAccounts`, `MCEmailQueue`, `MCAlgorithms`, `MCVisits`, `MCServer` | the instances for TLC | |

### 2.1 State and actions against the code

**Shortener.** `pc`, `req`, `slot`, `tx`, `link` are the locals of one `EnCode`; `redis`,
`links`, `userLinks`, `nextLink` are the stores. An action is one call another process can
see the effect of:

| Action | Code |
|---|---|
| `Receive` | `api.go` encode, `service.go:38-46` |
| `ProbeFree`, `ProbeTaken` | one pass of the loop of `Create`: a draw and its EXISTS |
| `ProbeBlind` | EXISTS fails on a name that is taken, and the code reads that as "free" |
| `SuggestPanics` | `Suggest` indexes an empty string; the panic is recovered and answered |
| `Save` | HMSET, `repository.go:51` and `62` |
| `NewTx` | `postgres.go:48`; `"nil"` when `Beginx` failed |
| `CreateLink`, `CreateUserLinkRelation`, `Commit` | the two INSERTs and the COMMIT, with a transaction or, after a nil one, each on its own |
| `Crash` | the process dies between any two of them |

A name is what follows `Shortener:`. A `slot` has the name that is bound (`key`) and the link
that is answered (`path`); for a suggested link they are one string, a random link is bound
under `Decimal[id]` and answered as `Base62[id]`. Of these encodings nothing is assumed but
their types and that `Base62` is one to one, as the round trip of the model of `base62.go` is
proved to make it (`RoundTrips`). `answered` is history: the
links answered 200, with, in `since`, how many had been answered when the request came and,
in `blind`, whether EXISTS failed on the taken name. `logged` is history too: the links whose
`Beginx` or COMMIT failed, which the code only logs. `Faults` names the calls that may fail;
a failing HMSET or COMMIT may or may not have been executed.

**LinkRegistry.** A client claims a name for a link that may stand for it, binds it, is
granted the link or gives up. `Shortener` implements it with `claims` standing for the
handlers past the probe and `granted` for the answers, each with its link and the name bound
for it: two handlers may hold one name, which is what the code allows, and only a failed
EXISTS makes a claim blind. A link may stand for the name it spells or for the number it is
the base62 text of (`KeysOf`).

**Tracker.** `hitPc`, `wpc`, `cpc` are the program counters of the goroutines of `Hit`, of
the workers and of the callers of `Stop` and `Flush`; `queue` is `tracker.hits`, `batch`
the local slices, `got` the receives of `stopWorker`. An atomic load, an atomic store, a
channel operation, a cancellation and a call to the store are a step each. `Done` is the
rendezvous on the unbuffered `workerDone`. A failing `SaveHits` may have stored
the rows or not; the slice is reset either way, as in the code. `Exit` is main returning
without `Stop`.

**Tokens.** A pair is its uuid; `access` and `refresh` are the records in Redis.
`SignIn`, `Refresh`, `DeleteAuth`, `SetAccess`, `SetRefresh` are the commands of making a
pair, `Present` and `FetchAuth` the check the middleware makes of an access token. A client may
present any token it holds, repeatedly and concurrently; `Expire` ages the access token of a
pair (`stale`), and later its refresh token (`expired`).

**Sessions.** A session is begun, its token redeemed and the next one issued; a session may be
entitled to a token it never gets (`Forfeit`: a failing SET, a crash). `Tokens` implements it
with the chain of pairs of a sign-in for the session, the pair of the chain that has a refresh
record for its token, and the handlers between DEL and the second SET for what is owed.

**Accounts.** `users` is the table, `codes` the keys in Redis, `inbox` what the email
service accepted. The actions are the calls of `SignUp` and `VerifyEmail` in their
order; `Authenticate` is the whole check of a sign-in. A sign-up that breaks off after its
INSERT, and a verification that breaks off after its DEL, are kept as history (`abandoned`,
`cutShort`).

**EmailQueue.** `Post`, `Dial`, `QueueBind`, `Send` are the steps of a view;
`Deliver`, `Callback`, `Ack` those of the consumer; `Disconnect`, `Crash`, `Restart` what
happens to them. `Enqueue`, `Deliver` and `Requeue` describe RabbitMQ from the way the code
uses it: a fanout exchange, a durable queue, persistent messages, manual acknowledgement.
`Publish` returns when it has written to the view's connection: `missed` is history, the emails
answered `ok` that the broker never took because that connection went before the deferred
closes, whose errors nobody looks at (the fault `close`). In `Mailbox`, what was taken on is what was published, what waits is the unacknowledged
deliveries followed by the queue, and its first email was tried when the consumer is about to
acknowledge: `Send` is `Take`, `Miss` or nothing, `Callback` is `Try`, `Ack` is `Finish`, `Disconnect`
and `Crash` are `Lose`, and every other step is a stutter.

**Base62, Suggestion.** An action per pass of a loop; a symbol is its position in the
alphabet, a character is a value with its number of UTF-8 bytes.

**UserAgent.** A header is a sequence of tokens, each a prefix the code looks for and a
version; `System`, `Products`, `GetOS`, `GetBrowser` follow the functions of
`user_agent.go`. The actions only build headers: the parser has no state.

**Visits.** `EnCode` and `SaveHits` are coarse (one step each: `Shortener` and `Tracker`
have the detail), `Redirect` builds the hit from the request, and `GetAnalytics` is the
SQL: `hit_with_time` and the join by path, with each row counted or each fingerprint. The mode
of a query, which splits these visitors by browser and platform, is left out.

**Server.** `main` is the next step of `main()`, `serving` the goroutine of `ListenAndServe`,
`done` the channel of one signal, `exit` how the process ended. A call goes in through `Chain`
(`Enter`), is handled with any result (`Handle`) and comes out again (`LeaveErrors`,
`LeaveAccessLog`); `written` is the status the access log's writer saw, `answer` what
the client got.

## 3. What is checked

Every property of a passing run has a mutant in `PROJECT.json`: the definition of the
code, changed the way a plausible bug would, on which TLC finds the property violated.

### 3.1 Passing runs

| Run | Instance | Distinct states | Shows |
|---|---|---|---|
| `race` | 2 handlers, 2 requests, 3 ids, 3 suggestions, 2 URLs; every call, a panic, crash | 131 k | `SequentialUniqueness`, `BackedByRedis`, `LinkHasOwner`, `AnsweredLinkIsListed`, `LinksKeepTheirURL`, `EveryRequestAnswered`, and that `Shortener` implements `LinkRegistry` |
| `stop` | 2 workers, 2 Stops, 1 Flush, 3 hits and an ignored one, slices of 2; store failures, exit | 603 k | `NothingVanishes`, `StopKeepsEarlierHits`, `PoolIsDown`, and that `Tracker` implements `HitLedger` |
| `tracker_live` | 2 workers, 1 Stop, 1 Flush, 3 hits, slices of 1; store failures | 294 k | `HitsSettle`, `CallsReturn` |
| `tokens` | 2 handlers, 4 pairs; SET, DEL, GET, lost answers, expiry, crash | 110 k | `RedeemedOnce`, `SessionNotForked`, `HeldPairsAreHonoured`, and that `Tokens` implements `Sessions` |
| `accounts` | 2 handlers, 2 emails, 2 passwords, 2 codes; every call, crash | 618 k | `VerifiedByItsCode`, `AccountsStayVerifiable` |
| `email` | 2 views, 4 mails, prefetch 2; every call, lost connections, 2 losses of the consumer or the process | 87 k | `AnsweredEmailIsKept`, `RetriedOnlyAfterLoss`, `TriedInOrder`, `AnsweredEmailIsTried`, and that `EmailQueue` implements `Mailbox` |
| `algorithms` | 256 ids, 8 wishes, headers of up to 5 tokens | 411 k | `RoundTrip`, `SingleByteNeverPanics`, `NameIsUsable`, `StaysSimilar`, `ImitatorIsItself`, `MobileIsNotDesktop` |
| `server` | 2 calls, errors of every kind and a panic, any signals | 60 k | `LoggedAsAnswered`, `FailuresAreTold`, `ProcessEnds` |

Each but `tracker_live` also checks a type invariant.

**Bounds, and why they are enough.**

* `race`: the properties compare two links at a time, and two requests come one after the
  other or overlap in any way, before and after a crash; a third would only take a name out
  of the way of both, for which the instance has the third name, and the theorems cover any
  number. With a free name always left the loop of `Create` must end. The ids are 1, 2 and
  53: 53 is answered as `1`, the decimal text of the first, and suggestions may spell the
  text of an id, so that every collision the encodings allow happens, between keys and between
  answered links. A wish of one
  character of two bytes is one `Suggest` may panic on. One of the two URLs is rendered
  differently from how it was given.
* `stop` has a channel of 4 for 3 hits, `tracker_live` one of 2 so that a send blocks.
  Two Stops can both pass the flag; a Flush restarts the pool between them. More
  callers repeat one of the two roles. `tracker_live` has one of each: behaviours in which
  they overlap are in it, and `CallsInTurn` sets them aside.
* Four pairs make a chain of three refreshes, or two sessions with a refresh
  each, with both handlers at work; one of them may be the check of an access token whose
  pair the other is refreshing.
* One of the codes of `accounts` begins with 0 and equals no number a client can send.
* Prefetch 2 is more than `Qos` asks for and covers the configuration that never calls it.
* `algorithms`: 6 symbols and 8 bits keep the shape of 62 symbols and 64 bits
  (6^3 < 2^8 < 6^4, 62^10 < 2^64 < 62^11); wishes have one to four characters of one to
  three bytes; five tokens are the shortest header of a Safari that says its version.
* `server`: a call meets no other call, but the drain waits for all of them: two are one that
  has ended and one that has not. A second signal finds the channel full. `OwnStatus` is two
  of the statuses an `ErrorResponse` carries.

**Deadlock** is not checked where the system may stop: requests, hits and mails are
bounded, and a process may have exited.

**Fairness, and why the code justifies it.**

* `Shortener`: a handler that has begun goes on (the Go scheduler; calls to the stores
  return or fail), and a loop of random draws does not miss the free names for ever
  (strong fairness of `ProbeFree`). Nobody must send a request, no EXISTS need fail on a
  taken name (`ProbeBlind` is in no fairness condition) and no crash happen.
* `Tracker`: a goroutine that can run does; a `select` with two ready cases
  chooses at random and passes over neither for ever (strong fairness of
  `WorkerTake` and `WorkerCancelled`); senders blocked on a channel are served in turn
  (strong fairness of `HitSend`). Fairness of `HitSend`, `WorkerTake` and `WorkerCancelled` is
  of all hits or all workers together: which of them is served is not said. A call of Stop or
  Flush need not be made, but once begun goes on.
* `EmailQueue`: the views and the consumer go on. Restarts are not fair: the
  property is conditional on a service that stays up.
* `Server`: `main` and the timer of `Shutdown` go on, and the goroutine does until `Shutdown`
  begins: what ends the process after a signal must be `main` itself. No call need ever end
  and no signal come.

### 3.2 Disagreements between the code and what it says

Four runs end in a violation, each of one property that states what the repository says of
itself.

| Run | Said | Found |
|---|---|---|
| `links_resolve` | Redis is for "redirection" (`src/README.md:23-24`) | a random link is stored under its decimal id and looked up under its base62 text; the fallback sits behind the error of the first HGET. The link leads nowhere, or to where a later suggestion that spells its text is bound |
| `signup_mail` | "send email to user" (`auth/service.go:84`) | the sign-up posts `text/plain`, the email service accepts `plain/text`, nobody looks at the answer |
| `analytics` | "analytics", "uniq, overall" (`src/README.md:16-18`) | hits have the path `/code`, links have `code`, and the query joins on equality: analytics are always empty |
| `graceful` | "gracefully shutdown the server, waiting max 30 seconds for current operations to complete" (`main.go:115`) | `Shutdown` makes `ListenAndServe` return `ErrServerClosed`, for which the goroutine calls `os.Exit(1)` (`main.go:100`) while a call is under way |

Others were met while modelling and have no run; the models contain the behaviour, and
the properties above are stated so that they hold with it:

* `Hit` loads `stopped` before `Stop` sets it and sends after the drain: such a hit stays in
  the channel, while `tracker.go:176` says that dangling hits will be saved.
  `StopKeepsEarlierHits` is about the hits in the channel before the flag.
* A `Stop` and a `Flush` that overlap count signals of one channel and may both wait for ever
  (`tracker.go:149` says that `Stop` stops all workers), and so may a `Flush` after a `Stop`
  has returned, since it does not look at the flag. `CallsReturn` and `HitsSettle` are about
  behaviours in which calls come in turn (`CallsInTurn`); `PoolIsDown` holds for any.
* `main` never calls `Tracker.Stop` (`tracker.go:77` asks for it): what channel and slices
  hold at exit is lost.
* `NewTx` says that it panics on failure (`store.go:9`) and returns nil (`postgres.go:50`).
* Two requests that overlap may be answered the same link, since EXISTS and HMSET are two
  commands, and so may one for which EXISTS failed on the taken name.
* The text a random link is answered as is bound by nobody, for the reason of `links_resolve`.
  EXISTS calls it free, and a later suggestion that spells it is answered the same link with
  another URL ("unique link per user if duplicated link", `src/README.md:8`). With the two
  cases above this is the third and last way to one link for two requests: that there is no
  other is `SequentialUniqueness`, which compares the links as they are answered. Two random
  links never meet in this way, nor do two suggested ones. `LinksKeepTheirURL` is about
  suggested links for the same reason, and `LinkRegistry` lets a link stand for a name that it
  does not spell.
* A view's connection that goes after `Publish` wrote to it loses the mail that the view then
  answers `ok`: no confirm is waited for, and the errors of the deferred closes are dropped
  (`rabbitmq.go:99-117`). The properties of `email` hold for every other answered mail.
* A sign-up that fails between the INSERT of the user and the SET of the code leaves an account
  that nobody can verify or sign up with again; a verification that fails between the DEL of
  the code and the COMMIT of the row does too. `AccountsStayVerifiable` says that these two
  are the only ways.
* `cmd/server/entrypoint.sh` runs the server as a child of bash without `exec`: the signal of a
  container that is stopped reaches bash and not the server.
* A code that begins with 0 can never be submitted, since it is compared with a number
  rendered by `Itoa` (`auth/service.go:99`); `ZeroLedCodesLockOut` proves that its account is
  never verified.
* EXPIRE is given a Go duration, which Redis does not parse: tokens and codes
  stay in Redis until they are deleted.
* `yesterday` counts today as well; a browser that is not known is in no column; two rows of
  links with one path double its visitors when `unique` is false.

## 4. What is proved

TLAPS proves these for every value of the constants that the named assumptions allow:
any number of handlers, names, workers, pairs, emails, calls, any alphabet, any set of
faults, any number of losses.

| Theorem | Says | Strengthening |
|---|---|---|
| `ShortenerProofs!TypeCorrect` | `TypeOK` | it is inductive |
| `ShortenerProofs!AnswersUnique` | `SequentialUniqueness`, whatever fails | of keys (`UniquenessInv`): what was answered is bound (`AnswersBound`), no request has seen the future (`SinceIsPast`), a key about to be bound that was not claimed blindly is that of no link answered before the request came (`SlotIsNew`), after HMSET it is bound (`SlotIsBound`), so that keys are not given out again (`KeysUnique`); and from keys to links: key and path belong to one number or are one string (`ShapesInductive`), so that equal links of one sort have equal keys |
| `ShortenerProofs!AnsweredLinksKeepTheirURL` | `LinksKeepTheirURL`, whatever fails | the same invariants: a step that binds the path of a suggested link, which is its key, is a `Save` whose key was claimed before the answer or blindly (`RebindsFairly`) |
| `ShortenerProofs!LinksBacked` | `BackedByRedis`, whatever fails | a handler past HMSET has its key bound, and the key is one of those its path may stand for (`SlotIsItsKey`); bindings are never removed (`BindingsStay`) |
| `ShortenerProofs!LinksOwned` | `LinkHasOwner`, whatever fails | none: it is inductive, since only `CreateLink` without a transaction and `Commit` make a row of `links` visible (`RowsAdded`), and nothing takes rows away (`RowsStay`) |
| `ShortenerProofs!AnswersListed` | `AnsweredLinkIsListed`, whatever fails | every answer comes from a `Commit`; rows and `logged` only grow (`RowsStay`) |
| `ShortenerProofs!RegistryImplemented` | `ImplementsRegistry`, for any number of handlers | types, and that a probe leaves a key its path may stand for (`ProbeDraws`): a claim is made from the probe alone, and every step maps to one of the registry's |
| `TrackerProofs!TypeCorrect` | no slice and no channel exceeds its capacity | a worker or caller about to receive has room (`HandsEmpty`), a caller that waits has met fewer workers than the pool has (`StillWaiting`) |
| `TrackerProofs!LedgerImplemented` | `Tracker` implements `HitLedger` | every hit is in one place only (`PlacesApart`), places hold sent hits (`OnlySent`) without repetition (`NoRepeats`) |
| `TrackerProofs!CallersTakeTurns` | `PoolIsDown` | `PoolInv`: the workers that have exited can be shared out among the callers so that each has as many as it has met (`Meetings`), all of them once it is past its wait |
| `TrackerProofs!NoHitIsLost` | `NothingVanishes` | `HitsKept`, the same without its hypothesis, on top of `PoolInv`: a pool is started again only when every worker has exited and so has saved its slice |
| `TrackerProofs!StopDrains` | `StopKeepsEarlierHits` | `DrainInv`: from the moment a Stop finds the channel empty none of the hits of `early` is in it, and `early` is set once; that they are in no slice either is `HitsKept` with `PoolInv` |
| `TokensProofs!TypeCorrect` | `TypeOK` | it is inductive |
| `TokensProofs!RedeemedAtMostOnce` | `RedeemedOnce` | `TokensInv`: a pair another was made from is consumed, and a consumed pair has no refresh record and gets none (`ParentsConsumed`) |
| `TokensProofs!SessionsNeverFork` | `SessionNotForked` | `TokensInv`: only drawn uuids are anywhere (`OnlyMade`), handlers at work have chains of their own (`FlightsApart`) |
| `TokensProofs!HeldPairsHonoured` | `HeldPairsAreHonoured` | `TokensInv`: the access record comes first (`AccessFirst`), what is under way is in nobody's hands (`ParentsConsumed`), what a handler checks is held (`OnlyMade`) |
| `TokensProofs!SessionsImplemented` | `ImplementsSessions`, for any number of handlers | `TokensInv` once more: with one refresh record a chain at most, `LiveToken` is that record (`LiveFacts`) and a step touches the token of its own chain alone (`LiveSame`, `OwedByOthers`) |
| `AccountsProofs!TypeCorrect` | `TypeOK` | it is inductive |
| `AccountsProofs!AccountsNeedTheirCode` | `VerifiedByItsCode` | `CodeInv`: a code in Redis, on its way there or about to verify is the one issued with the row of its email, which exists (`CodesAreIssued`), a verification under way was submitted (`UnderWayIsSubmitted`), and who signed in is verified (`SignedInIsVerified`) |
| `AccountsProofs!NoSignUpIsMailed` | once a sign-up is answered, `SignUpMailed` is false: the finding of `signup_mail` in every behaviour, not in one | `NoMail`: the email service has accepted nothing, since it refuses every mail a sign-up posts |
| `AccountsProofs!ZeroLedCodesLockOut` | an account whose code no number renders to is never verified and never signed in with | `CodeInv` |
| `AccountsProofs!NoAccountIsStranded` | `AccountsStayVerifiable` | `AccountsInv`: `CodeInv`, and a sign-up past its INSERT is the only one of its email, neither answered nor broken off (`OneSignUp`) |
| `EmailQueueProofs!TypeCorrect` | `TypeOK`: at most prefetch deliveries are unacknowledged | it is inductive |
| `EmailQueueProofs!RetriesArePaidFor` | `RetriedOnlyAfterLoss` | `QueueInv`: an email is published once (`PublishedOnce`, `InHand`), deliveries and queue together are the end of what was published (`PendingIsLast`), and what is pending has been tried no oftener than there were losses, but for the one about to be acknowledged (`PendingIsSpared`) |
| `EmailQueueProofs!OrderIsKept` | `TriedInOrder` | `QueueInv`: `PendingIsLast`, and all that is not pending was tried (`AcknowledgedWereTried`) |
| `EmailQueueProofs!NoAnsweredEmailIsLost` | `AnsweredEmailIsKept` | `QueueInv`: an answered email that was not missed was published (`OkIsPublished`), and what was published is pending or was tried |
| `EmailQueueProofs!MailboxImplemented` | `ImplementsMailbox`, for any number of views, emails and losses | `QueueInv`: what a view publishes was never published nor answered (`InHand`, in `SendTakes`), and the consumer that is about to acknowledge has a delivery; a loss leaves what waits as it is (`RequeueKeeps`), and a process that is down has no consumer (`DownHasNoConsumer`), so that a restart changes nothing |
| `ServerProofs!TypeCorrect` | `TypeOK` | `ServerInv`: `TypeOK` together with `CallSettled` for every call |
| `ServerProofs!TheLogIsTrue` | `LoggedAsAnswered` | `ServerInv`; `CallSettled` says what a call carries at each layer of the chain: nothing is written before the handler is entered, and what leaves the error handler is told |
| `ServerProofs!FailuresReachTheClient` | `FailuresAreTold` | `ServerInv` |
| `AlgorithmsProofs!RoundTrips` | `RoundTrip`, and that nothing overflows on the way | `DecodeExact`: what is decoded, plus the place value times what `Encode` had left after as many digits, is the id; `SymbolsSplit`: each digit is the remainder between two quotients |
| `AlgorithmsProofs!TypeCorrect` | `TypeOK` of the three algorithms together, for headers of any length | `IInv`, `SuggestionInv` and `IsHeader`; what the helpers of the parser find is a token of the list they search (`PrefixFound`, `VersionFacts`, `SystemFacts`, `BrowserFacts`) |
| `AlgorithmsProofs!NeverPanics` | `SingleByteNeverPanics` | `SuggestionInv`: types, and `EditsFit`: there are no fewer bytes than edits, fewer edits than bytes in a deletion, and a deletion has shortened the slice by one for each edit so far |
| `AlgorithmsProofs!NamesAreUsable` | `NameIsUsable` | `SuggestionInv`; what is escaped is at least as long as the bytes it was (`EscapeFacts`) |
| `AlgorithmsProofs!RoundsDoNotAddUp` | `StaysSimilar` | `AlikeSoFar` on top of `SuggestionInv`: within a round no more characters are gone than edits were made; each edit maps the positions it keeps one to one to new ones (`DeletionLosesOne`, `InsertionLosesNone`, `SubstitutionLosesOne`, `JoinLosesNone`) |
| `AlgorithmsProofs!ImitatorsAreKnown` | `ImitatorIsItself`, for headers of any length | `IsHeader`: the property holds of every sequence of tokens |
| `AlgorithmsProofs!MobilesAreKnown` | `MobileIsNotDesktop`, for headers of any length | `IsHeader` |

Why the strengthenings are needed:

* `SequentialUniqueness` compares two answered links, while what EXISTS is asked about and
  HMSET binds is keys; the proof is about keys first. The step that adds an answer knows
  nothing of the earlier ones unless every answered key is known to be bound and to stay so,
  and every unanswered one to have been free after them. `blind` and `logged` stand where the code
  swallows an error, so that no theorem needs a call to succeed.
* The ledger needs all places a hit can be in at once, since a hit moves from channel to slice
  to table.
* `PoolIsDown` is about callers that count anonymous signals: no variable says which worker a
  caller has met. The invariant says that *some* sharing out of the exited workers explains the
  counts of all callers; a step that counts a signal adds the worker to the share of
  its caller, and two callers with a whole pool each would need the same workers.
* `StopKeepsEarlierHits` is about a moment long past: the drain must have found the channel
  empty after `early` was set, and nobody may have put one of its hits anywhere since.
* `ImplementsSessions` maps records and program counters of many handlers to one token of a
  session. That the mapping is well defined, and that a `DeleteAuth` is a `Redeem` of one
  session and leaves the others, needs `SessionNotForked` and that two handlers between DEL and
  SET never work on one chain (`FlightsApart`).
* A verification compares a code with what is in Redis and writes the row two calls later. In
  between another sign-up of the email may come; that it issues no other code is
  `CodesAreIssued`: the row exists, so `CreateUser` fails.
* An email may be tried, put back and tried again with others behind it, so that "in order"
  is about first tries only; it is inductive together with where the emails not yet
  acknowledged are.
* The round trip is an invariant over two loops rather than an induction over ids: the
  quotients `Encode` went through are kept as history, and each symbol `Decode` reads undoes
  one division.
* `StaysSimilar` counts characters in strings of any length. The sizes of a string and its
  escaped form are recursive functions over its positions; what holds of them for every
  position comes from `FromZeroOn` of `SequenceLemmas`, a pigeonhole argument about finite
  sets, in place of the library's induction theorems, which take an operator.

The assumptions are `ShortenerAssumption`, `TrackerAssumption`, `TokensAssumption`,
`AccountsAssumption`, `EmailQueueAssumption`, `ServerAssumption`, `Base62Assumption`,
`SuggestionAssumption` and `AgentAssumption`: types of the constants, finite and non-empty
pools, disjoint roles, an encoding of ids that is one to one (`Base62` of `Shortener`, which
`RoundTrips` justifies), an alphabet of two symbols or more, that the value standing for "no
code" is not a code, that a character has a byte at least and that `url.QueryEscape` writes no
fewer, one-byte, characters than the bytes it escapes. TLC evaluates each in its module's runs.
The two invariants that were least obvious, `PoolInv` and `DrainInv`, were checked by TLC on
the instance of `stop` before they were proved.

**Only model-checked**: all liveness (`EveryRequestAnswered`, `HitsSettle`, `CallsReturn`,
`AnsweredEmailIsTried`, `ProcessEnds`), which needs fairness and ENABLED; and
`Visits`, whose parser is an INSTANCE with a parameter (`Agent(header)`), which this version of
tlapm does not process. Every other property of a passing run is a theorem. Of the four
disagreements of 3.2, that of `signup_mail` is proved for every instance; the others are
counterexamples TLC finds.

## 5. What is not modelled, and why

* Validation, parsing of JSON and URLs, bcrypt, signatures: they turn a request away before
  anything is read or written.
* `DeleteTokens` and the change-password marker of `pkg/jwt`: the marker is read, and nothing
  in the repository writes it. `tokenValid`, `errors.Forbidden`, `isAvailable`,
  `GenerateRandomString` and `HitOptionsFromRequest` have no caller.
* Language, screen class, referrer and URL of a hit: nothing reads them.
* The content negotiator and `cors.AllowAll` in the chain of handlers: they pass every call on.
* Configuration, text of logs, health check, connection pools: no state of the
  program's own. Neither pool has a limit. That loading and connecting may fail is `Setup` of
  `Server`.
* The schema of PostgreSQL is not in the repository. `users.username` is taken to be
  unique, as a sign-up that should fail for a known email needs it to be.
* What a browser caches: the redirect is a 301.

What of `src/` remains is of these kinds: every other operation that changes state is an
action of a module.

## 6. Plan

Done: every component that keeps state, with the hazards listed in `PROJECT.json`; a theorem
for every safety property, type invariant, action property and refinement the passing runs
check. Left: `Visits` with the paths made equal as a constant of the instance, so that more of the
query (yesterday against daily, the split by a mode) can be checked than that it counts nothing,
and with the header as a parameter of the parser's operators in place of the INSTANCE, so that
it can be proved about.

## 7. Running

```
tlc -config MCShortenerRace.cfg MCShortener     # any run: its cfg and module
tlapm ShortenerProofs.tla                       # any *Proofs module
```
