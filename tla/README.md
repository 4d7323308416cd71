# llm_api_factory: a verification project

The program is a proxy and administration backend for large language model
APIs (`src/backend/app`, FastAPI on one asyncio event loop per process, a SQL
database, Redis or an in-process stand-in for it, and optional remote agents on
websockets). A client asks for a model alias; the router chooses an ordered list
of candidates (an API key, its endpoint, a model name); the proxy walks over
them until one serves. This directory models the parts of it where the order of
events matters, checks the models with TLC and proves the central safety
properties with TLAPS.

Paths below are relative to `src/backend/app` unless they begin with `docs/`,
`backend/` or `src/`.

## 1. Inventory

| Component | Source | State it keeps | Operations | Status |
|---|---|---|---|---|
| Agent transport | `services/agent_transport.py` | connections by agent name; per connection the pending futures and streams | register, unregister, shutdown, send_request, handle_message, iter_bytes | modelled |
| Agent endpoint and administration | `api/v1/route_modules/agent_handlers.py`, `services/agents.py` | one coroutine per websocket; the agent's row | agent_ws, bootstrap, update, drain, disable, rotate, delete, heartbeat, register | websocket and row |
| Agent process | `services/agent_client.py`, `agent_worker.py` | its websocket, the request it serves | run, handle_proxy_request | loop and worker |
| Proxy walk | `route_modules/proxy_core.py`, `proxy_direct_handler.py`, `proxy_agent_handler.py`, `proxy_failures.py`, `proxy_attempts.py`, `proxy_context.py` | candidate, attempt number, what was logged | prepare, reserve, send, refresh, resend, classify, retry, fall back, reply | modelled |
| Streaming | `api/v1/route_proxy_helpers.py`, `route_modules/proxy_agent_streams.py` | outcome flags of a running stream | _stream_response, agent_stream_generator | verdicts and logs |
| Circuit breaker | `services/circuit_breaker.py` | two Redis keys per API key | is_open, record_failure, record_success | modelled |
| Router | `services/router.py` | RPM counters, active key, round robin weights | choose a rule, its keys, filter, order, reserve, record success | all but the provider filter and rule priorities |
| Redis | `core/redis.py` | keys with expiry | set, incr, expire, delete | as used |
| Health monitor | `services/health_monitor.py` | series of probes | probe_target, loop | the use of a key |
| Token refresh | `services/codex_oauth.py`, `route_proxy_helpers.py` | locks, cached results and tokens | refresh under a lock, wait, force | both refreshes |
| Admin API | `route_modules/admin_handlers.py`, `api/v1/route_helpers.py` | endpoints, keys, rules, access keys, model maps | create, update, delete, rotate, probe | these five tables |
| Access keys | `services/access_keys.py`, `route_helpers.py` | tokens and the groups they allow | create, rotate, delete, resolve the group of a request | life cycle and groups |
| Billing, background tasks | `services/billing.py`, `background_tasks.py` | logs, daily counters | write_request_log | dates, counters, losses |
| Statistics | `route_modules/stats_handlers.py` | none | series, overview, distributions, top keys, usage, route test and explanation | the totals and the routes |
| Database | `db/models.py`, `db/session.py` | rows, foreign keys | a session: read, change, commit | as the handlers rely on it |
| Payload rewriting, notifications, migrations, command line, console | see `PROJECT.json` | | pure functions, output, clients | not modelled |

How they interact. A proxied request resolves the rule group of its access key,
calls the router (reads the database and Redis), then for every attempt the
router's reservation (one Redis INCR), an HTTP client or
`AgentManager.send_request`, where the key needs one a token that other requests
may be refreshing, and afterwards the circuit breaker, the attempt log and, on
success, the sticky key and a task that writes the request log and the counters
the next choice reads. A streamed response does the last part in the `finally` of a
generator that runs after the handler has returned. The admin API changes the
rows the router reads, its pages reset the counters the tasks write, and its
health views and route tests use the breaker and the round robin of live
requests. `send_request` shares the pending table of a connection with the
websocket coroutine, which is resolved by agent *name*, with the idle timer of
each stream, and with the deletion of the agent; the agent's row is written by
the operator and by its own heartbeats.

What is hard, and what makes each part correct:

* **Agent transport**: answers, timeouts, disconnects, re-registrations and the
  deletion race on one table. Correct when every call settles once and for good,
  a settled call leaves no entry behind, a late frame changes nothing, a stream
  yields the agent's chunks in order and is reported complete only when whole,
  and a name is bound only to a connection that is served.
* **Agent registry**: every handler reads a row, awaits and writes; a registration
  reads it twice. Correct when agents never undo what the operator decided, a
  token given out is not lost, and a deleted agent stays deleted.
* **Proxy walk and streaming**: five places can raise, some outside any `try`;
  the retry, the fallback, the log and the breaker decide by themselves which
  attempt is the last. Correct when an attempt is logged and judged at most once
  and consistently, only a served response credits a key, a client is told of a
  failure only after every candidate, work is bounded, and nothing is sent after
  the client has been given anything.
* **Circuit breaker and RPM counter**: several Redis commands per operation, any
  number of coroutines and processes between them, each of which may die.
  Correct when the limit holds, the circuit opens only for enough failures, an
  undisturbed success closes it, and an open circuit closes by itself.
* **Token refresh**: locks with a TTL that are deleted without ownership, waiters
  that poll and give up, refresh tokens that are valid once, a death between the
  provider's answer and the commit. Correct when one call at a time asks the
  provider, no commit puts an older credential over a newer one, nobody is given
  again what was refused and replaced, and every call ends.
* **Admin API and routing**: who serves a group is written in two places and kept
  in step by hand, by handlers without locks or versions. Correct when the two
  agree, an access key stays within its groups, a revoked token stays dead, the
  default rule serves everybody, and the page that explains a route tells the
  truth about the router.
* **Serving and statistics**: weights kept per candidate set, an active key
  written by whoever ends last, counters written by tasks nobody awaits and reset
  by pages. Correct when the load is shared by weight, counters and pages agree
  with the logs, and a daily limit is overshot by no more than what is in flight.

`PROJECT.json` lists the hazards, each at its line with the properties that
would catch it.

## 2. Modules

| Module | Role |
|---|---|
| `AgentTransport` | AgentManager, agent_ws, the deletion of an agent and the agent's own process, with the wire between them |
| `AgentCallContract` | what a call through an agent promises; abstract specification of `AgentTransport` |
| `MCAgentTransport` | the budget of websockets, calls and chunks of the instance TLC checks |
| `AgentTransport_proofs` | inductive invariant and theorems of `AgentTransport`; that it implements `AgentCallContract` |
| `AgentRegistry` | the row of an agent under the operator's handlers and the agent's own calls; uses `UnitOfWork` |
| `MCAgentRegistry` | symmetry of the handlers for TLC |
| `AgentRegistry_proofs` | inductive invariant and theorems of `AgentRegistry` |
| `ProxyFailover` | one request in the candidate loop, and the generator of its stream |
| `ProxyFailover_proofs` | inductive invariant and theorems of `ProxyFailover` |
| `KeyGuards` | circuit breaker and RPM counter of one key, command by command |
| `KeyGuards_proofs` | inductive invariant and theorems of `KeyGuards` |
| `CodexRefresh` | the refresh of one Codex credential by the coroutines of several processes |
| `MCCodexRefresh` | workers and processes of the instance TLC checks |
| `CodexRefresh_proofs` | inductive invariant and theorems of `CodexRefresh` |
| `OAuthToken` | the cached access token of one OAuth endpoint |
| `OAuthToken_proofs` | inductive invariant and theorems of `OAuthToken` |
| `UnitOfWork` | what a session of SQLAlchemy writes at its commit |
| `Routing` | from an access key and a model to the keys that may serve; pure functions of the rows |
| `Catalog` | the admin API on the rows `Routing` reads; uses `UnitOfWork` |
| `MCCatalog` | groups, models and the four installations TLC starts from |
| `Catalog_proofs` | inductive invariant and theorems of `Catalog` |
| `Serving` | order of the candidates, daily limits, logs and counters; uses `Statistics` |
| `Statistics` | what the pages make of the logs; pure functions of the rows |
| `MCServing` | keys, weights and limits of the instance TLC checks |
| `Serving_proofs` | inductive invariant and theorems of `Serving` and `Statistics` |

### AgentTransport

A step is what asyncio runs between two awaits. `AgentManager` never relates two
names, so one agent name is modelled; `Channels` are the websockets this agent
opens in turn, which is what re-registration needs.

* `current` is `_connections.get(name)`, `pending[c]` the keys of
  `AgentConnection.pending`. `call`, `conn` and `signal` are one `send_request`:
  its progress, the connection it captured, and its future or `_started`.
  `queue`, `reader` and `got` are `AgentStream._queue` and the coroutine that
  iterates it. `up`, `down` and `link` are the websocket; `job`, `sent`,
  `source` and `running` the agent.
* `Call`, `SendReturns`, `SendRaises`, `Wake` and `Timeout` are `send_request`
  from its first line to each of its exits; `GiveUp` is the except clauses.
  `ReadItem`, `IdleTimeout` and `Abandon` are `iter_bytes` and a reader that
  stops: the client hangs up, or a 401 is dropped for the resend.
* `ReceiveRegister`, `ReceiveFrame` and `Disconnect` are `agent_ws` with
  `handle_message` and `unregister`; `DeleteSignals` and `DeleteCommits` the two
  halves of `admin_delete_agent`, with an await between them.
* `AgentConnects`, `AgentTakes`, `AgentAnswers`, `AgentStarts`,
  `AgentSendsChunk` and `AgentEnds` are the agent's loop; `LinkLost` is a broken
  path, a crash, or an exception out of that loop: frames are lost from the end,
  and the factory notices later.

Where Python versions differ (a timeout while the result is already set) both
outcomes are allowed. Frames are well formed and the database answers: `agent_ws`
catches `WebSocketDisconnect` only (`agent_handlers.py:232`), and an exception of
another kind, which would leave the name bound to a dead websocket, is outside the
model.

`AgentCallContract` has a state per request and the chunks given; no connection,
frame or timer. `CallerState` and `ReaderGiven` in `AgentTransport` read them off the
transport's variables; `produced`, `source` and `cut` are the same in both. The one exception it has to make, that a stream cut by the
deletion of the agent is reported complete, is the first finding below.

### AgentRegistry

`agents` is the table of agents restricted to one name, `bound` the token of the
connection `AgentManager` holds for it, `jobs` the open handlers. A handler reads
the row in the action named after it (`AdminAgentBootstrap`, `AdminUpdateAgent`
with drain, disable and enable, `AdminRotateAgentToken`, `AdminDeleteAgent`,
`AuthorizeAgentToken` for heartbeats and registrations) and ends in `Inserts`,
`Updates`, `Deletes` or `Rollback`; a deletion that finds no row ends with what it
found. `UpsertAgent` is the second look at the row that
`upsert_agent` takes after the token was accepted; `Register` the step in which
`agent_ws` puts the connection into the table, after the commit. Which columns an
UPDATE writes is `UnitOfWork!MergeRow`. `dead`, `met` and `raced` are history: the
tokens of deleted rows, whether a deletion has overlapped a call of the agent, and
whether two calls that generate a token have overlapped.

### ProxyFailover

`kind` gives every candidate an agent or none and one of three ways to sign in,
`at` is the await the coroutine stands at, and an upstream status is the class
the code puts it in (`FallbackStatuses`, `BreakerStatuses`, `LocalRetryStatuses`
are the sets of `proxy_failures.py`). `log`, `verdicts`, `sticky` and
`requestLogs` are the writes others see. Each action is one outcome of one
await up to the next; the direct and the agent handler are one action where they
agree and differ by a conjunct where they do not.

The end of a stream is several steps, as its `finally` block is: `EndsAt` writes the
attempt row (`StreamCompletes`, `StreamFails`, `ClientLeaves`,
`ClientLeavesFailedStream`), then the breaker is awaited (`StreamCredited`,
`StreamBlamed`), then the sticky key (`StreamSticks`), and the request log comes last.
A client that leaves cancels the block at whatever it awaits (`FinallyInterrupted`,
with or without the effect of the command that was under way) or before it has
written anything (`StreamUnrecorded`). So a success row may be left without a verdict
and a verdict without the sticky key, but then there is no request log either:
`LogAgreesWithBreaker` and `SuccessIsServed` say what holds at every one of these
points. The walk itself is not cancelled by a client that leaves. `CancelledError`
gets out of it another way: a sign-in, a refresh or a resend through an agent that is
being deleted (`PrepareEscapes`, `RefreshEscapes`, `ResendEscapes`).

Candidates are taken to be
pairwise different: `candidate != candidates[-1]` (`proxy_core.py:141`) compares by
value, and two equal model maps of one key would end the walk early.

### KeyGuards

`circuit`, `failures`, `ttl` and `used` are the Redis keys; each action of a
worker is one command and the code up to the next. A worker may die at any
point (`Dies`); time passes in `CircuitExpires`, `FailuresExpire` and
`MinutePasses`. `granted`, `blamed` and `quiet` are history: what was let
through, how many failures were reported since a success closed the circuit
undisturbed, and whether a `record_success` has overlapped a `record_failure`.
The guards `SeesCircuit` and `SeesRpm` are asked once per choice; a retry on the
same key (`Leaves`) only reserves again, as in the code.

### CodexRefresh

`stored` is the credential in the row of the API key, `locked` and `cache` the two
Redis keys, `issued` the provider (external: it rotates refresh tokens and takes
only the last one, which it may answer with an error as well). Credentials are numbered as they are issued, so a larger
number is a newer credential. `pc` and `call` are one `resolve_codex_credential`
per worker:

* `Begins` is the first check, on the row the caller brings, or a forced refresh
  after a 401; `Loads` the lock of the process and the second read of the row;
  `Peeks` the result of another process; `Locks` the SET NX; `FindsResult` and
  `GivesUp` the waiting rounds.
* `Presents` is the request at the provider, which sells a new credential for the
  last token or answers with an error, be the token good or used up; `NotSent`,
  `Refused`, `LosesAnswer` and `Commits` are how it ends, `Encodes` and `Publishes` the result in Redis,
  `Unlocks` the `finally`.
* `LockExpires`, `CacheExpires`, `CredentialExpires` are time; `Crashes` ends all
  calls of a process at once.

Every caller passes a session factory and Redis, so the branches without them are
left out. The clocks of the processes agree; `refreshed_at` counts the results
encoded. The local lock and the read of the row are one step: what happens between
them is the same as before both. A call forced by an older refusal than that of the
newest credential is not told apart, since it finds the same row. A Redis command
that fails ends the call like one that was not sent and is not an action of its own.

`overrun` and `lost` are history: a lock has expired under its holder, an answer
of the provider was not committed. `spent` records the refresh tokens each process
has bought a credential with, `again` who has shown the provider such a token after
that. A good token that was answered with an error is no case of it: showing it
again is a retry.

### OAuthToken

`cache` and `locked` are the two Redis keys of an endpoint, `issued` the provider,
`pc` and `call` one `_resolve_oauth_access_token` per worker. `Begins` is its first
look at the cache, or a 401 that refuses the token this request was given; `Locks`
and `Relocks` the two tries for the lock, `FindsToken` and `RoundsEnd` the waiting
between them; `Rechecks`, `Fetches`, `FetchFails`, `Writes` and `Unlocks` the work
under the lock. `RedisFails` is a command that raises, with the `finally` that is
run where there is one; `Dies`, `LockExpires` and `CacheExpires` leave the lock
behind or take it, or the token, away. `retired` and `overrun` are history: the
newest token that was refused and has been replaced, and whether a lock was lost
under its holder. Expiry times are not compared: a cached token about to expire
counts as none from then on.

### UnitOfWork, Routing and Catalog

`UnitOfWork` is what the handlers rely on without saying so: a session hands out
rows as they were, writes the columns that changed, refuses the commit if a row it
updates is gone, and compares nothing else. `Catalog` has a step in which a handler
reads the rows and works out its writes (`CreateEndpoint` ... `ProbeEndpoint`) and
one in which the session commits (`Commit`) or does not (`Rollback`); other handlers
may commit in between. `db` has the five tables, `jobs` the open sessions with their
`Changes`. The shared helpers are `SyncTargets` (`_sync_rule_targets_for_api_key`),
`SyncGroups` (`_sync_api_key_groups_for_rule_targets`), `EnsureDefault`
(`_ensure_default_rule_group`) and `SyncProbe` (`_sync_probe_model_maps`).
Foreign keys cascade in `Merged`. `ReusesIds` says whether the database is SQLite,
which gives the id of a deleted last row to the next one.

`Routing` has the selection of the router (`SelectRuleTargets`, `EffectiveSelection`,
`GetCandidates`), the resolution of the group of a request (`ResolveRuleGroup`), and
the page that repeats the selection in code of its own (`RouteExplain`). They are
operators on rows, which the properties of `Catalog` apply to every state.

The targets of a payload are any ids (`TargetIds`): `create_rule` and `update_rule`
store them as they come, and `SyncGroups` passes over those without a row. Ids of 0
and below are left out, which no key ever gets.

`raced`, `orphans` and `revoked` are history: keys or rules were written from rows
gone stale, ids among the targets without a key (named by a payload, or left by
`delete_endpoint`), tokens replaced or deleted. The first two are the exceptions of
`MembershipAgrees` and `GroupIsolation`; what comes of an id in `orphans`, a key that
serves a group it is not in, is the subject of `TargetsAreMembers`, which fails.

### Serving and Statistics

The choice of a key is three steps, with awaits between them in which others commit:
`ReadKeys` is the SELECT that reads the rows with their counters, `FilterCandidates`
compares them with the daily limit, on the day it is by then, and `Choose` orders
what is left by the strategy of the rule (`WeightedOrder`, `SequentialOrder`);
`FindNone` is a request that gets no candidate. A request holds a key
(`HeldBy`) from the reading of its counters until its use is logged; `OvershootBounded`
is about the most requests that ever held the key at one time. The second SELECT for
keys without a model map (`_load_unmapped_candidates`) is not a step of its own: it
goes through the same filter, and a row the session has already read keeps what it
read. `Fail` and `Serve` the walk as seen from here,
`Serve` with the active key of a sequential rule; `Stamp`, `WriteLog` and `LoseLog`
are `write_request_log`, which asks for the date before it writes; `SweepReads`,
`SweepCommits` and `SweepFails` a page that lists the keys and resets the counters of
an earlier day; `Peek` a route test, an explanation or a list of models, which move
the round robin on; `DeleteKey` and `Restart` what takes logs or pending tasks away.
`pools` is the LRU of the round robin, least recent first; `picked` in it, `peak` and
`unsettled` are history. Pools in which a key has two maps for the same alias are
outside the model: such a key gains its weight twice while the total counts it once
(`router.py:572`).

`Statistics` has the pages as functions of the log rows. `Serving!StatsAddUp` asks
that they agree with each other and with the counters, in every state, for every
window and bucket width of the instance.

`FairShare` bounds both sides of the round robin, for every pool it remembers: a key
is put first less than a whole turn more often than its weight entitles it to, and is
at most as many turns behind as it has rivals. The second bound is what the code
gives: with four keys a light one may be more than one turn behind, for example
with the weights 99, 99, 4 and 1.

## 3. Runs

| Run | Question | Bounds |
|---|---|---|
| `agent_transport` | `BoundMeansServed`, `SettledIsForgotten`, `LateAnswerIsDropped`, `ImplementsContract`, `EveryCallSettles`, `EveryStreamEnds`, `AbandonedStreamsDrain` | two websockets and one call, plain or a stream of up to two chunks; or one websocket and both calls, the stream with up to one chunk |
| `agent_registry` | `DeleteIsFinal`, `OnlyTheOperatorDecides` | three handlers at a time, five in all, with and without a row to start from |
| `failover` | `EachAttemptOnce`, `LogAgreesWithBreaker`, `SuccessIsServed`, `FailureMeansAllTried`, `BoundedWork`, `NothingAfterReply`, `EveryRequestAnswered` | two candidates of every kind, three attempts each |
| `key_guards` | `RpmHolds`, `OpenIsEarned`, `SuccessCloses`, `OpenCircuitCloses` | three workers, threshold 2, limit 2, two minutes, four uses |
| `codex_refresh` | `OneRefresher`, `FreshCredential`, `OncePerProcess`, `NothingLost`, `EveryResolveEnds` | two coroutines in one process that may die, one in another, three calls |
| `oauth_token` | `OneFetcher`, `RetiredIsGone` | three requests at a time, four calls |
| `catalog` | `TypeOK`, `MembershipAgrees`, `NoOverlap`, `GroupIsolation`, `RevokedStaysRevoked`, `ExplanationAgrees`, `DefaultServesAll`, `ProbeKeepsManual` | four installations, two handlers at a time, two calls, two groups, formats and models, payloads that name any of the ids 1 to 3 |
| `catalog_delete` | finding: `TargetsAreMembers` fails | the installation in service, one handler at a time, two calls, payloads that name no target |
| `serving` | `TypeOK`, `FairShare`, `UsageAddsUp`, `OvershootBounded`, `StatsAddUp` | two requests, two keys of weights 2 and 1, a rule of each strategy, two days of one tick, each key up or the heavier one out, two pools |
| `agent_delete_stream` | finding: `CompleteMeansWhole` fails | one websocket, one stream |
| `agent_replaced` | finding: `DisconnectFailsItsPending` fails | two websockets, one stream |
| `failover_agent` | finding: `AgentFailureFallsBack` fails | as `failover` |

Why the bounds are enough to be interesting. Two websockets are the least that
have a connection replaced while it has entries; a third would only repeat the
replacement. Two chunks tell order, loss and an early end apart. The budget of
`MCAgentTransport` has a reconnect under one call and two calls on one websocket, but
not both at once: calls meet only in `pending`, where each has an entry of its own, and
in the agent's loop, which serves them in turn. It holds back what the environment may
do (opening a websocket, a call) and a second chunk where the stream may end instead,
so no fair step is lost. Three handlers of
an agent let a deletion meet a heartbeat and a bootstrap, five calls let a row be
made, deleted, made again and written to. Two candidates have a first and a last,
the only distinction the loop makes, and three attempts is
`UPSTREAM_CANDIDATE_MAX_ATTEMPTS`. Three workers let a success run between the
counting and the opening of two failures; four uses let an open circuit be reached
twice. Two coroutines of one process and one of another meet both locks of a
refresh; three calls let one hold the lock, one wait and one come after the result
expired. Four calls on an OAuth endpoint let one fetch, one wait, one be refused and
one begin after the replacement. Two admin calls are the least that race; the four
installations are one just started, one in service with a rule per entry format, one
with a shared key and duplicate maps, and one whose default rule was made before
default rules were normalised. Two requests over two days share a counter over
midnight while a page resets it, and one may be logged between the other's reading
and its choice; two pools are fewer than the sets of candidates the instance has, so
that one is forgotten. `QuietNextDay` of `MCServing` explores the pools, which know
nothing of the day, on the first one: midnight comes while none is remembered (at
first, while only the sequential rule has served, or after a restart), and after it
only requests bring new ones. Two ticks give
the pages three windows, and buckets of two ticks one that reaches back before its
window. Ids 1 to 3
are keys that exist, keys to come and an id that no key has yet. Every safety
property of the passing runs is also proved, for every size (section 4).

Deadlock checking is off in each configuration: a bounded agent runs out of
websockets and requests, an answered request is over, the bounded clock stops, the
bounded calls run out.

Fairness. `FactoryFairness` says that the event loop runs what is ready and fires
its timers (`asyncio.wait_for` in `send_request` and `iter_bytes`), and that a dead
websocket is found, which uvicorn's keepalive pings do. Nothing is asked of the
agent, the network or the clients for `EveryCallSettles` and `EveryStreamEnds`.
`AbandonedStreamsDrain` assumes in its statement that the agent keeps working:
each wait of its worker has an HTTP timeout. `ProxyFailover!FairSpec` says that
the coroutine of a request goes on, since each of its awaits has a timeout.
`KeyGuards!FairSpec` asks only that Redis expires a key; workers may stop for good.
`CodexRefresh!FairSpec` says that a call goes on: its request has a timeout, its
rounds are bounded, and `asyncio.Lock` serves first come, first served. Nothing is
asked of the holder of the lock in another process. `OAuthToken`, `AgentRegistry`,
`Catalog` and `Serving` are checked without fairness: their calls end by bounded
loops and timeouts already said above, and what may go wrong there is safety.

## 4. Proofs

Every module below proves its theorems from an inductive invariant (`IInv`; in
`Catalog_proofs` `Invariant`): the initial states satisfy it, every action and every
stutter keeps it, and it implies the properties. Together they cover every invariant
and every action property that a passing run checks, and the refinement.

**AgentTransport_proofs**, for any sets of websockets and requests and any number
of chunks, from `DistinctKinds`, `NoneIsFresh` and `MaxChunksIsNat`. `IInv` joins
the types, `BoundMeansServed` and `OwnedEntries`: every entry of `pending[c]`
belongs to a call that captured `c` and is still waiting or, for a stream,
reading or abandoned. The second part is needed because `Forget` pops from the
captured connection only: without it an entry could sit in another table.
`TypeCorrect`, `BoundIsServed`, `NothingLeftBehind` (`SettledIsForgotten`) and
`LateAnswersDropped` (an action property: a call that gave up has no entry left,
so neither `handle_message` nor `unregister` can reach it) follow.

The second half of the module shows that `AgentTransport` implements
`AgentCallContract` (`ContractHolds`), for the same constants. A step of a reader maps to `Deliver` or
`Complete` only if the chunk it takes is the next one and an end marker comes after
the last, which `IInv` does not say; `PInv` does (`NothingIsMissing`). `Connected`,
`Serving`, `Ordered` and `Framed`: a frame stays on the websocket its call captured,
comes once, and says what the agent did. `Queued`: the queue of a stream that may
still be read continues what the reader was given, and its end marker is at the end
unless a deletion put it there. `Flowing`: the frames behind that queue, on the
connection the name is bound to now, continue it without a gap up to the last chunk
sent, as long as the link is up. Only that connection matters: `handle_message` looks
a frame up in the table of the *current* connection, so that what comes from a
replaced websocket reaches nobody. Then `Call`, `SendRaises`, `Wake`, `Timeout`,
`IdleTimeout` and `Abandon` are `Begin`, `Answer` or `Fail`; `ReadItem` is `Deliver`, `Complete` or
`Fail`; `AgentAnswers`, `AgentStarts` and `AgentEnds` are `Source`,
`AgentSendsChunk` is `Produce`, `DeleteSignals` is `Delete`, and the rest stutter.

**AgentRegistry_proofs**, for any set of handlers and number of calls. `Shape` says
what an open handler may write: only an update the flags, only a bootstrap or a
rotation the token, and that it holds the row it had read; with
`UnitOfWork!MergeRow`, which writes changed columns only, this is
`OperatorDecides`. `Fresh`: the token of an open generator is in no row. `Quiet`:
unless two generators overlap, a token is generated only while there is none.
`Gone`: as long as no deletion overlaps a call of the agent, nobody acts for a
deleted agent, which is `DeletedForGood`.

**ProxyFailover_proofs**, for any number of candidates and attempts. `Work` says how
far the attempt numbers and the requests sent may have come in each phase,
`Numbered` that the attempt under way has no row, or no verdict, yet (its verdict
comes phases after its row), `Unserved` that nothing is a success before the walk is
over, `Finishing` what a `finally` block that is still to credit the key, or to make it
the sticky one, has written already, `Passed` that every candidate behind the walk has
left a trace. `OneRowPerAttempt`, `SameStory`, `CreditIsServed`, `FailureIsFinal`,
`WorkIsBounded` and, from `Answered`, the action property `NoRetryAfterReply` follow.

**KeyGuards_proofs**, for any finite set of workers, any threshold, limit and
clock. `IInv` joins the types with four facts. `Budget`: grants never exceed the
counter or the limit. `Calm`: while an undisturbed `record_success` is under way
nobody is inside `record_failure`, and after its first delete the counter is
zero. `Pending`: the counter plus the workers about to increment it is at most
the failures reported (a cardinality argument, since several may be between the
call and the INCR). `Counted`: what INCR returned to a worker is at most the
failures reported, and reached the threshold if the worker goes on to open.
`OpenIsEarned` alone is not inductive: it needs `Counted` for the SET, `Pending`
for the INCR, and `Calm` for the moment a success forgets the failures.
`TypeCorrect`, `RpmIsHeld`, `OpenOnlyIfEarned` and `SuccessReallyCloses` follow.

**CodexRefresh_proofs**, for any workers and processes. `LocalMutex` and `Mutex` are
the two locks; `Rotation` says that the provider is at most one credential ahead of
the row, and then one call has it in hand (`NothingIsLost`); `Spent` that a process
may show no refresh token that it has bought with (`ShownOncePerProcess`); `Order` that
results are encoded in the order of their commits, and with it `Newer`, that
whatever a call may still adopt is newer than what it was told was refused
(`ForcedIsFresh`). `OnlyOneRefresher` follows from `Mutex`. The facts hold until a
lock expires under its holder or an answer is lost, as the properties say.

**OAuthToken_proofs**, for any number of requests. `Mutex`: between the lock and its
release there is one call, and the lock is there (`OnlyOneFetcher`); hence nobody
writes the cache while the holder fetches, and `Newer`, that what is cached or about
to be is newer than everything replaced, is kept, which gives `RetiredForGood` by way
of `Given`. `NothingAskedTwice` says that a request that was not forced asks the
provider only while no usable token is cached (`NoNeedlessFetch`).

**Catalog_proofs**, for any rows, any finite number of administrators, any number
of calls, and for databases that give ids again and those that do not, from
`CatalogAssumption` and `PopulationsAssumption` (the installations to start from are
well formed, their two records of memberships agree, no rules of a group overlap,
every access key has a token of its own). `ExplanationIsTrue` needs no invariant: it
is a fact about the operators of `Routing`. The rest follows from `Invariant`, which
has four parts.

* `TokenInv`: no two rows share a token (`Issued`), an open session writes no token
  but a new one (`Sessions`), no row has a revoked token (`Dead`). This gives
  `RevokedForGood` and `OneRowPerToken`, whatever sessions race.
* `TypeInv`: the columns of the committed rows, and of the rows an open session is
  about to write (`Writes`), whose rules may target any id and one key that has no id
  yet. This gives `TypeCorrect`.
* `StrayInv`: the ids without a key that an open call has named are ids.
* `AgreeInv`: as long as nobody wrote keys or rules from stale rows, the committed
  keys and rules are sound (`Membership`, `Disjoint`, and a proper default rule stays
  proper), and so are the tables that every session means to leave whose rows nobody
  has overtaken, where the ids its payload named without a key count as excused.
  `MembershipAgrees` alone is not inductive: it says nothing of what open sessions
  hold.

The work is in two places. `AllFine` goes through the handlers: the tables each of
them wants are well typed and sound if those it read were (`SyncGroupsIs` and
`OneKeySound` say what the two sync helpers do to one pair of a key and a group). A
commit is taken apart into the merge of each table (`CommitIs`), the ids it gives
out (`LastIdIs`: above all in use, also when ids are given again) and the rows it
leaves (`CommitRows`); `FreshLands` and `LandedSound` say that a session nobody
overtook leaves what it meant, with the new ids in place of `New`. A session that was
overtaken sets `raced`; `delete_endpoint`, which leaves targets without keys, and a
commit whose payload named ids without keys record them in `orphans`. `MembersAgree`, `FormatsDisjoint`, `Isolation` (with
`MembersServe`, that the router finds only members) and `DefaultKept` follow.
`ManualMapsKept` rests on one more invariant, `ProbeInv`: what an open probe means to
write is still `SyncProbe` of the maps as they are, unless another session wrote maps.

**Serving_proofs**, for any keys, weights, limits, rules, requests and length of a
day. The properties of `Serving` and `Statistics` are sums over sets of logs and keys.
What such a sum is for every finite set is proved without induction over an operator:
a smallest set for which the claim fails exists
(`FS_StrictSubsetOrderingWellFounded`), and the set without one of its elements
refutes it (`MinimalSet`, `UnfoldUnique`, `SumTakesAny`); in the same way sorted
orders and extreme elements exist. `IInv` has these parts:

* `Shape`: types, and what the order of an open request may be.
* `PoolsOK`: in every remembered pool the current value of a key is its turns times
  its weight less the total times how often it was picked, and the current values sum
  to zero. The picked key had the largest value, so it was not negative; this bounds
  how far a key is ahead, and the sum how far one is behind (`RoundRobinIsFair`). A
  rule and a key set are remembered once, and at most `MaxPools` of them.
* `AddUp`: the total of a key is the sum over its logs and, unless a stale page or a
  late date has overwritten it, its counter of today the sum over those of today
  (`CountersAreTheLogs`).
* `Held`, `Fits` and what they leave of the limit: what a limited key has used, with
  what the requests that hold it may still use, stays below the limit and what those
  requests may use (`OvershootIsBounded`). A request that has read the counters holds
  the key already, although others may have been logged since: what it read said that
  the limit was not reached.

`PagesAddUp` needs `AddUp` for the tokens of today; the rest of it is a fact about
the operators of `Statistics` for every set of logs: a sum over the parts of a set
adds up to the sum over the set (`SumOfParts`).

Only model-checked is everything about liveness (`EveryCallSettles`,
`EveryStreamEnds`, `AbandonedStreamsDrain`, `EveryRequestAnswered`,
`OpenCircuitCloses`, `EveryResolveEnds`): it rests on fairness and ENABLED, which the
prover does not reach.

## 5. Findings

1. `CompleteMeansWhole` (`agent_delete_stream`): `AgentManager.shutdown` ends the
   streams of a deleted agent with the clean end marker; a reader that needs no
   `response.completed` event takes a cut stream for whole, logs a success and
   credits the key, where `docs/observability.md:36-37` says `stream_complete` is
   false.
2. `DisconnectFailsItsPending` (`agent_replaced`): an agent that registers again
   before its old websocket is found dead replaces the table entry; the old
   coroutine then unregisters the *new* connection by name, and what was pending
   on the old one waits for its timeouts.
3. `AgentFailureFallsBack` (`failover_agent`): an agent that fails while the body
   of an error is read, or whose websocket raises in `send`, ends the request
   with a 500 although candidates are left, against `docs/agent.md:14`. So does the
   `CancelledError` of a deleted agent, in a send or in a sign-in or a refresh that
   goes through it.
4. `TargetsAreMembers` (`catalog_delete`): `delete_endpoint` deletes keys in bulk
   (`admin_handlers.py:1493`) and leaves their ids in the targets of rules; SQLite gives
   the id of a deleted last row again. The key that gets it is targeted by the rule,
   hence served to its group, although it is not in it, where
   `backend/tests/test_admin_rules.py:630` expects that a new key is no target of a rule
   whose group it was not put in. The same happens to an id that `create_rule` or
   `update_rule` was given before a key had it: they store it as it comes
   (`admin_handlers.py:2044`, `2148`), and the sync of the groups passes over it
   (`:940`). The run leaves such payloads out, to show the first way; `orphans` records
   the ids of both, and `MembershipAgrees` and `GroupIsolation` say that nothing else
   lets the records part.

Met while modelling, without a run of their own; where a property stands next to
one, it names the exception:

* A candidate passed over because its token could not be refreshed, or because the
  resend after it raised, leaves no row in the attempt log
  (`proxy_direct_handler.py:150-157`, `168-193`, `proxy_agent_handler.py:160-171`,
  `190-201`, `proxy_core.py:139-143`), where `docs/observability.md:76` says that
  every fallback can be found there.
* The row of a Codex key is read (`codex_oauth.py:397`) before the lock in Redis is
  taken (`:426`) and not again after it: a process that read it just before another one
  committed, published and unlocked shows the provider the refresh token that has been
  used, against `docs/codex-provider.md:42-43`. The model has these steps (`again`
  records them); `OncePerProcess` says that within one process it does not happen, and
  `NothingLost` that no older credential is put over a newer one by it.
* A client that leaves while the `finally` block of its stream awaits the breaker or
  the sticky key (`route_proxy_helpers.py:820-824`, `proxy_agent_streams.py:109-113`)
  leaves an attempt logged as a success without a request log, and possibly without a
  verdict or the sticky key.
* A heartbeat that overlaps the deletion of its agent makes the row again, active
  and without a token, since `upsert_agent` (`agents.py:123-147`) looks the name up a
  second time; a row without a token lets any token in (`route_helpers.py:547`).
  `backend/tests/test_admin_agents.py:195-199` expects no row. A registration that
  overlaps it leaves a connection without a row, against `docs/agent.md:100-104`.
  `DeleteIsFinal` excepts these overlaps and says that there is no other way.
* The page that explains a route and the router part in three cases: the rule that
  matches names no target, no rule of the group accepts the entry format, no default
  rule matches either. It also ignores the RPM limit and the fallback to keys without
  a map. `ExplanationAgrees` covers the rest.
* An update of the groups of a key that does not name its primary group appends the
  old one again. A key that leaves one group is put back among the targets of every
  rule of its other groups, and the targets of a sequential rule are sorted on the
  way (`admin_handlers.py:894`), which loses their order.
* A page that lists the keys may overwrite what tasks have counted since it read
  them (`route_helpers.py:98-103`), and a log whose date was taken before midnight
  dates the counter back (`billing.py:185`): `unsettled` in `UsageAddsUp`.
* Both windows of the statistics overview include the instant where they meet.

## 6. Plan

Next, in this order:

1. A composition of `ProxyFailover` with the guards of `KeyGuards` for two requests
   on two keys: today the walk takes the verdict of the guards as a choice.
2. The loop of the health monitor: its schedule, series and alerts.
3. The imports, settings and login flows of the admin API as further operations of
   `Catalog`; rules of one group with different priorities in `Routing`.
4. The list of models (`proxy_models.py`) as a function of the rows of `Routing`.

Next proofs: that `Catalog` leaves the two records of memberships agreeing for each
key and group that no race touched, where `raced` now excepts all of them at once;
that the least recently used pool is the one `Serving` forgets.

## 7. Not modelled, and why

The rewriting of requests and responses, the parsing of events and token usage
and the detection of errors in bodies are data without order of events: the walk
takes their outcome as a choice. Of the admin API the settings, imports, login
flows, key tests and dumps are single-step reads and writes of rows nothing above
depends on; so are the columns of agents, keys and endpoints that only lists show.
Of the access keys the hashing, the admin session, the encryption of secrets and the
audit rows are left out, and an admin session may ask for any rule group; of the
agents `agent_auth_token`, one shared secret that is unset by default and lets any
name in. Times of expiry are not compared: what may expire does so at any moment.
Statistics leave out latencies, percentiles and names. Notifications and usage
snapshots are output nothing decides upon. The migrations run once at start, alone.
The console, the command line, the mock server and the scripts are clients. The
eviction of `MemoryRedis` at its size limit only loses guards early; `OAuthToken`
takes it for an expiry, and Redis itself does not do it.
