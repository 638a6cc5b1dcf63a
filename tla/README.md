# OpenRouter-style LLM gateway: formal models

This directory holds TLA+ models of the program in `src/`, the TLC configurations that
check them and the TLAPS proofs of the results that matter most. `PROJECT.json` is the
machine-readable index: components, runs, mutants, theorems, findings, hazards, and for
every definition the source lines it translates.

- [The system](#the-system)
- [Modules](#modules): [ledger](#credit-ledger), [breakers](#circuit-breakers),
  [proxy](#proxy), [auth cache](#auth-cache), [rate limiter](#rate-limiter),
  [streams](#streams), [accounts](#accounts), [routing](#routing), [providers](#providers)
- [Runs](#runs), [fairness](#fairness), [proofs](#proofs), [findings](#findings)
- [What is not modelled](#what-is-not-modelled), [what is left](#what-is-left)

To check a run, inside this directory: `tlc -workers 2 -config X.cfg M`; to check a proof
module: `tlapm M.tla`.

## The system

A Go gateway answers the public OpenAI-compatible API. A Python backend owns accounts,
keys, credits, routing policy and guardrails, and talks to the gateway over gRPC.
Postgres and Redis are shared state. A CLI and a web frontend are clients.

| Component | State | Operations | Talks to |
|---|---|---|---|
| Credit ledger (`backend-python/app/repository/credits.py`, `service/billing_service.py`, `repository/billing/stripe_client.py`) | `credit_balances`, `usage_records` rows | `meter`, Stripe webhook, `get_for_update` reads | Postgres, Stripe |
| Key lifecycle (`service/auth_service.py`, `repository/api_keys.py`, `api/routes/admin.py`, `api/decorators.py`) | `api_keys`, `audit_log` rows | create, validate, revoke, suspend user, audit | Postgres |
| Gateway auth cache (`gateway-go/internal/repository/auth`, `api/middleware/auth.go`) | per-pod map key hash -> metadata with time | `Get`, `put`, `Invalidate`, loaders | Redis, backend `ValidateKey` |
| Rate limiter (`gateway-go/internal/service/ratelimit`, `api/middleware/ratelimit.go`) | Redis sorted set per key | `Check`, middleware | Redis |
| Proxy, circuit breakers, client pool, router (`gateway-go/internal/service/{proxy,circuitbreaker,router}`) | breaker per provider+model, HTTP clients, model table | `ChatCompletion`, `send`, `For`, `Swap` | providers |
| Stream adapters (`gateway-go/internal/repository/adapters`) | line buffer, translator state | `Translate`, `Close`, normalise | proxy |
| Response cache (`gateway-go/internal/repository/cache`) | Redis entries | `HashRequest`, `Get`, `Put` (never called) | Redis |
| Routing policy (`service/routing`, `repository/grpc/routing_servicer.py`, `main.py`, `grpc_main.py`) | cached YAML config per process | `filter`, strategies, `ResolveModel`, `ProviderScores`, start, reload | gRPC |
| Provider adapters of the backend (`repository/providers`) | registry of adapters | `complete`, `stream`, `pricing`, `health_check`, catalogue | providers, through their SDKs |
| Pricing cache (`repository/billing/pricing_repository.py`) | Redis entries over a table | `get`, `upsert`, invalidate | Redis, Postgres |
| OAuth provisioning (`service/oauth_service.py`) | `users`, `organizations` rows | `exchange` | Postgres, identity providers |
| Guardrails (`service/guardrails`) | none | pipeline of guards | - |
| Background tasks (`app/tasks`, `repository/tasks`) | Celery queue | webhook delivery, video jobs, monthly aggregation | Redis, S3 |
| MCP registry (`service/mcp`) | tool registry | list, call (stubs) | - |
| Clients (`cli/`, `frontend-web/`) | stored keys, sessions | requests with retries, SSE parsing, device login | gateway, backend |
| Mock providers (`tools/mock-providers`) | scenario overrides, counters | provider routes, control plane | - |

What is hard in it: sessions of the database interleave on one balance row; the gateway
is many pods and many goroutines over shared maps and Redis; clocks of pods differ;
upstream calls fail, stall, get cancelled or end half-way through a stream; Stripe and
Celery deliver at least once; configuration is swapped under running requests; a
revocation must reach caches nobody notifies.

A chat request meets the parts in this order: `middleware.Auth` (auth cache),
`middleware.RateLimit` (limiter), `ChatHandler.Create`, `Proxy.ChatCompletion` (router,
breakers, HTTP client), the adapter's stream translator, and the reader in the CLI. The
parts share no memory but what a module below names, so each has a module; the two pairs
that do share are composed: the breakers with the registry and with the proxy, the
translator with the reader.

What makes each correct:

- **Ledger**: money is neither made nor lost, a balance is never overdrawn, Stripe is
  told "done" about a payment of an organization only when its credit is committed, and
  such a payment is credited once and in the end.
- **Key lifecycle**: a revoked or suspended key stops working; every change has an audit entry.
- **Auth cache**: a revoked key stops within a bounded time; a good key is never refused
  as invalid; the cache stays bounded; an outage degrades as documented.
- **Rate limiter**: at most the limit of readings in any window; nobody is refused below
  it; a Redis error lets requests through.
- **Breakers**: one breaker per target; a half-open one admits few probes, loses none and
  decides by them alone.
- **Proxy**: one answer per request, from one target or the error body; the chain ends.
- **Streams**: chunks arrive in order, once and unaltered, however the text is cut.
- **Routing**: every answer is the best the configuration allows for the hints; a reload
  swaps to the configuration it validated or says that it failed.
- **Provisioning**: one account per e-mail address, and every token for it names that account.
- **Provider adapters**: the answer is to what was asked, nothing of it is lost, an answer
  cut by its limit on tokens does not look whole, and prices are those of the adapter.
- **Mock providers**: every request counts once; a status ordered for one call answers one.

## Modules

| Module | Models | MC module | Proofs |
|---|---|---|---|
| `Ledger` | what a prepaid balance promises: indivisible top-ups and charges | | |
| `CreditLedger` | the balance row and the database sessions that use it | `MCCreditLedger` | `CreditLedgerProofs` |
| `CircuitBreaker` | gobreaker's state machine as operators on a record (external library) | | `BreakerProofs` |
| `BreakerRegistry` | `Registry.For` and the calls under its breakers | `MCBreakerRegistry` | `BreakerProofs` |
| `ProxyChain` | fallback chain, upstream calls and what the client gets | `MCProxyChain` | `BreakerProofs` |
| `AuthCache` | gateway key cache, loaders, middleware, revocation | `MCAuthCache` | `AuthCacheProofs` |
| `RateLimiter` | sliding-window script and its callers | `MCRateLimiter` | `RateLimiterProofs` |
| `SseWire` | fragments of event-stream text; the response body | | |
| `StreamTranslator` | `streamResponse` with the Anthropic translator or the passthrough | | |
| `SseReader` | `parseSseChunks` of the CLI | | |
| `StreamRelay` | what a stream promises: the chunks of the answer in order | | |
| `StreamPath` | translator and reader composed over one body | `MCStreamPath` | `StreamPathProofs` |
| `Accounts` | OAuth provisioning, key lifecycle, suspension, audit | `MCAccounts` | `AccountsProofs` |
| `RoutingPolicy` | `routing.yaml`, filter, strategies, answers of both RPCs, as operators | | |
| `RoutingService` | processes of the backend, the configuration each caches, reload | `MCRouting` | `RoutingServiceProofs` |
| `ProviderAdapters` | requests, answers, streams and prices of the four adapters, as operators | | |
| `MockProviders` | scenario engine, control plane and routes of the mock server | | |
| `ProviderCalls` | calls through the adapters or directly, to the mock or a provider | `MCProviders` | `ProviderCallsProofs` |

Definitions named *Slip* in a comment are plausible bugs; the mutants of `PROJECT.json`
put them in place of the definition they follow, and TLC then finds the property violated.

### Credit ledger

A *session* is one SQLAlchemy session: a charge (`BillingService.meter`:
`UPDATE ... WHERE balance >= cost`, the usage record, the commit), a Stripe delivery
(`handle_webhook`: `SELECT ... FOR UPDATE`, then insert or add in Python, the commit, the
answer to Stripe) or a read (`get_for_update` under `GET /balance` and `ValidateKey`,
which takes the row lock and gives it back when the session closes). `balance`, `billed`
and `credited` are committed columns; staged values belong to a session until it commits.
`FOR UPDATE` on a missing row locks nothing, so two first top-ups may both insert, and
the primary key lets one of them win. A session may die before its commit, which rolls it
back; Stripe redelivers an event without a 2xx answer, and may redeliver one with it.

Events are `payment_intent.succeeded`; the other types only log. `OrgOf` is the `org_id`
of the metadata, `NoOrg` when it is missing: such an event is answered 200 and credits
nobody (`FirstStatement`; `test_stripe_webhook_idempotency.py:138` wants it so), so
`AckedIsApplied` and `EveryPaymentCredited` are about the events that name an
organization, and `Conservation` about what was credited. An `org_id` that is no UUID, or
of no organization, raises before anything changes and is answered 500; that delivery is
no action of the model.

`Ledger` is the abstract specification; `ImplementsLedger` says the sessions implement it
(`paid` is history). `LedgerInv` is the inductive invariant: a session that stages a
value on a row holds its lock and staged from the balance as it is, and a held lock has a
holder.

Not in the model: `reserve`, `settle` and `update` of `credits.py`, which nothing calls.

### Circuit breakers

`CircuitBreaker` models the library from how `registry.go` configures it: a record
`[state, generation, failures, successes, requests]` with `Admit`, `Report` and the
expiry of the open state. A report of an older generation is ignored. `BreakerRegistry`
has goroutines that look a breaker up under the read lock, miss, take the write lock,
look again and create; then call under the breaker and report. The counting interval
(60 s, `registry.go:27`) ends a closed generation as the timeout (30 s) ends an open one:
both are the flag `expired`, which may be raised at any time, and the next look at the
breaker starts a new generation with its counts cleared.

`RegistryInv` relates the breaker a goroutine holds to the map, and the half-open books:
requests = successes + calls in flight of that generation.

### Proxy

A request slot is received, walks `ChainOf[model]`, and for each target: has no adapter
(`Skip`), is rejected by the breaker (`Reject`), or is admitted and fails before the
status line (`SendFails`: transport error, 5xx, 429, no provider configuration,
cancellation), sends the status line (`StatusLine`), and the body ends (`BodyEnds`) or
breaks off (`BodyBreaks`); after the last target `Fail` writes the error body. A client
may disconnect at any time, which turns the errors of its calls into cancellations that
the breaker counts. Breakers are those of `CircuitBreaker`, one per target, which
`OneBreaker` of the registry justifies. The body is one part, whole or cut;
its inside is the business of the stream modules.

`ChainInv` holds the two properties and what they rest on: a call under way is to a
target of the chain and was admitted in this generation of its breaker or an older one
(`CallsAgree`), and until a body broke off the client has got nothing of the attempts
that failed (`Untouched`). `NothingAfterTheEnd` is part of it too.

### Auth cache

`Get` is split where another goroutine may step in: the look-up under the read lock, the
Redis loader, the gRPC loader, and `put` under the write lock, which evicts when the map
is full. `now` counts ticks; an entry is fresh while `now - cachedAt < TTL`. The loaders'
context deadline is `LoadTimeout`, scheduling included: a load that began at `t` has put
its entry by `t + LoadTimeout`. `End` is a revocation or an expiry; nothing is published
to the gateways (`auth_service.py:69` speaks of 5 s, but there is no publisher), so only
ageing removes an entry. The Redis loader never has a key either: nothing writes the
`auth:` entries it reads. Outages of Redis and of the backend come and go; `Restart`
empties a pod.

`EndsInTime`: after its end a key is let in for less than `TTL + LoadTimeout`. The
invariant behind it (`AuthInv`): an entry or a load in flight that says "valid" was read
at a time when the key was active (`StillActiveAt`), entries are not older than their
read plus `LoadTimeout` (`EntriesRecent`, `LoadsRecent`).

### Rate limiter

`Check` reads the pod's clock, then the Lua script runs in Redis as one step: prune by
the caller's reading, count, and add and `EXPIRE` when there is room. Pods' clocks are
within `Skew` of Redis's; a script runs within `Delay` of its reading, retries of the
client library included: the reply may be lost and the script sent again with the same
member (`UnixNano`, not the `request_id` of the comment in `limiter.go:60`; `Subs` are
the readings within one tick). Two requests with one reading share a member and count
once, as in the script, and `WindowBound` counts as it does. On an error the middleware
lets the request in (`FailOpen`, not counted as through the script). A limit of 0 means
unlimited, and is what every key from the backend has today, since `ValidateKey` leaves
the field unset.

`WindowBound`: in no period shorter than `Window - Skew - Delay` does a key get more than
its limit through the script. `RefusedForCause`: a refused key had used its limit up
within `Window + Skew + Delay`. The invariant (`BucketsAgree`) relates set, history and expiry.

### Streams

`SseWire` cuts text into fragments: a line end, a carriage return, a comment, an event
field, and the two halves of a data line; reads stop between any two of them. Anthropic's
translator is `Translate` with its line buffer, `currentEvent` and `currentData`; each
turn of its loop is a step (`ConsumeLine`, `Dispatch`, `AwaitMore`). The passthrough
copies. An upstream ends (`Eof`, after which the translator writes `[DONE]`) or breaks
off (`Fail`, also for a document that does not parse) at every point; a failed attempt is
taken to be the last of its chain. The reader looks for the first blank line of either
kind, joins the data lines, yields what parses, and stops at `[DONE]`, at the end of the
body, or when the timer of the request fires.

The answer an upstream gives is chosen as a sequence of *events*, of which the text is
the rendering; the reference the properties compare with is computed from the events, so
no property parses text the way the code does. `Relayed` is the end-to-end statement: the
path implements `StreamRelay`.

### Accounts

A request is a sequence of database steps under READ COMMITTED: what its unit of work
inserted is its own until it commits, and gone if the handler breaks off (`Abort`, at
every step). The exchange finds the user of the address, or inserts an organization, then
a user, then commits and issues the JWT. The unique index on `users.email` makes an
insert wait for a transaction that inserted the same address, and fail if that one
committed. A key route is authorised by the caller's key and the role of its owner, does
its one or two units of work, and then writes an audit entry in a session of its own,
which may fail without anybody noticing. `suspend_user` lists the keys and, after other
requests may have stepped in, revokes those it saw. The gateway's RPC revokes without
audit or check; keys expire.

`LoginsAgree`: an address has one user, that user has an organization, nobody else owns
it, and every token for the address names that user. `AuditNotAhead`: what the audit log
tells of was committed. `SuspensionHolds`: a suspension ends keys of its user only, and
all of them but those *raced*, that is issued by a request that had been authorised
before the suspension. The model keeps `raced` and `suspended` as history.
`AccountsInv` has two halves that share nothing but the requests: the exchange with the
rows of users and organizations, and the key routes with the keys.

Not part of it: `GET /keys`, which changes nothing, and `validate_for_request`, which no
route uses. A JWT is issued and never accepted (see the findings), so a first-time user
cannot act; the model has no such request.

### Routing

`RoutingPolicy` is pure: when a document parses (`WellFormed`), its defaults (`Parse`),
which entries fit (`Filter`), how a strategy sorts (`Ranked`, stable), the slice by
`fallback_max` with Python's meaning of a negative bound, the sentinel, and the clamped
score. The reference, `ChosenWell`, says what a good answer is without sorting: only
models that fit, none twice, none after a worse one, none better left out, as many as
asked for. `RoutingService` surrounds it with the processes: opening the database, Redis,
the event bus; the cache that is filled at first use; the SIGHUP handler, whose reload
reads the document, clears the cache and reads again; the operator who edits at any
moment. SIGHUP on a gRPC process, or on an HTTP process that is still starting, ends it
(nothing is installed to handle it), which is in `Stop`.

### Providers

`ProviderAdapters` translates requests and answers as the four adapters do, the fields
they drop included. `MockProviders` is the scenario engine with its overrides, counters
and one-shot statuses, and the routes over it as `arrived`, `asleep` and `streaming`.
`ProviderCalls` puts a client on each of them: a raw client, or an adapter under an SDK
that sends again after a 429 or 5xx, against the mock or against a provider (external).
The answers of a provider are a small set (`OpenAIAnswers`, `AnthropicAnswers`): with and
without text, with no call of a tool, one or two, with text, calls and a thought that
alternate, and every reason to stop the APIs list. The two are free of each other but for
one rule (`OpenAIAllows`, `AnthropicAllows`): an answer that stops to have tools called
calls one. So an answer may be cut by its limit inside a call: it is then told as
"length" with the call in it, and `AnswersAreTranslated` asks that of the adapters.
Streams through an adapter are against a provider only: `stream_chunks` frames its events
and `EventSourceResponse` frames them a second time, so an SDK could not read a stream of
the mock.

Bodies of the mock's routes are JSON objects. The routes of embeddings and images convert
a number with `int()` before they count; when that raises, the call is a 500 that no
counter has (`Raise500`), and `due` follows.

`GET /models` lists `provider/key`, as a sequence of the parts between the slashes.
`CatalogueIsPriced` asks that the rest of the id, without the provider, leads to the tier
that is listed through the adapter that is named. The id as listed is a key for the
Anthropic adapter alone (see the findings), and the property says that too.

`OneShotAnswersOnce` allows what the code allows: the status is taken by whichever call
of the route comes first. `CountersAddUp` counts from the last reset on.

## Runs

| Run | Shows | Instance, and why it is enough |
|---|---|---|
| `credit_ledger` | type, `NoOverspend`, `Conservation`, `AckedIsApplied`, `LedgerInv`, refinement, `EveryPaymentCredited` | one organisation, two reused sessions, three payments of which one names no organisation, one redelivery, one failure: two writers is what a lock conflict, a first-insert race and a lost update take; safety is proved for any number; 325,967 states |
| `stripe_redelivery` | violates `CreditedOnce` | one acknowledged event redelivered |
| `breaker_registry` | `RegistryInv`, `OneBreaker`, `ProbesAccounted`, `ReopenedByProbe`, `ProbesDecide` | three goroutines, two keys, trip after 2, two probes; three generations reach half-open and back with a late report of the first; no symmetry, as a liveness property is checked |
| `proxy_chain` | `ChainInv`, `WholeUnlessCut`, `NoProbeLost` | two requests, chains that overlap, a target without adapter, a model nobody offers; two breaker deadlines reach half-open and beyond |
| `proxy_chain_live` | `EveryRequestEnds` | the same without deadlines: liveness rules symmetry out, and with two deadlines the run would not fit |
| `broken_body` | violates `UpstreamOr503` | one request |
| `auth_cache` | `AuthInv`, `EndsInTime`, `NoFalseReject`, `Bounded` | two requests, a good and an unknown key, a map of one entry: two loads that race for the last place; TTL 2, load 1, three ticks, one more than a stale entry lives |
| `rate_limiter` | `RateInv`, `WindowBound`, `RefusedForCause` | two requests, limit 2 and unlimited; `MaxTime` 8 exceeds `Window + Skew + Delay` = 7, so a refusal is judged against a full past |
| `stream_path` | `TranslatedSoFar`, `DoneIsLast`, `Relayed`, `ReaderEnds` | twelve answers of three or four events with LF and CRLF, every size of read on both sides: carry-over spans at most an event and a partial line, so three events show leaks in both directions |
| `accounts` | `AccountsInv`, `LoginsAgree`, `AuditNotAhead`, `SuspensionHolds`, `EveryRequestEnds` | two requests at a time, an organisation with an owner and an admin and a key each, one address that signs in for the first time, one key to create: a race needs two requests, and requests are reused, so histories of any length are in it; 235,370 states |
| `routing` | `RoutingInv`, `ChosenWell`, `ScoresInOrder`, `ReloadIsAtomicUnlessEdited` | one HTTP and one gRPC process, which share nothing but the document; six documents: each strategy, an unregistered one, every default and floor, negative and zero `fallback_max`, one without a price, garbage; 67,158 states |
| `providers` | `ProvidersInv`, `OneShotAnswersOnce`, `StreamsAreWhole`, `AnswersAreUnderstood`, `CatalogueIsPriced` | two calls, one of every kind and one that meets it on a route; one forced status and one repeat, so that an order is taken by the wrong call or absorbed by a retry; 1,688,396 states, about two minutes |

Bounds, all named in the configurations: `MaxRedeliveries`, `MaxFailures` (ledger),
`MaxGeneration` (breakers and proxy), `MaxTime` (cache, limiter), the answers of
`MCStreamPath`; `Visitors`, `Targets`, `Expiring` and the ids that are left (accounts);
`Documents`, `Hints`, `Wanted` (routing); `MaxForced`, `MaxRequests`, `MaxRetries`,
`MaxDeltas`, `Jobs`, `Orders`, `Breakable` (providers). `CHECK_DEADLOCK FALSE` is in the
stream run only: a stream is over.

## Fairness

Each is fairness of steps the runtime takes by itself, weak but where a step waits for
others in turn; nothing is assumed of clients, upstreams or time beyond what is named.

- Ledger: a session's own steps (the server runs the coroutine; Postgres grants a free
  lock), and Stripe's retries of an event it has no 2xx for. Failures are bounded by
  `MaxFailures`, so a retry in the end gets through.
- Breakers: goroutines run, and calls return (the HTTP client of `pool.go` has a timeout
  of 60 s or what the configuration says), and an open breaker's deadline passes.
- Proxy: the handler's steps, with calls that end for the same reason.
- Accounts: weak fairness of a handler's steps, since the event loop runs it on and the
  database answers; strong fairness of the insert of a user, which waits for transactions
  that may follow one another and is woken whenever one of them ends.
- Streams: the gateway's loop (a read that gets nothing ends by that timeout) and the
  reader's event loop; the reader's own timer is not needed.
- Routing and providers state none: what they promise is safety.

## Proofs

| Module | Results | Assumptions on the constants |
|---|---|---|
| `CreditLedgerProofs` | `LedgerInvariant`, `TypeCorrect`, `MoneyIsConserved`, `NeverOverspent`, `AcknowledgedIsCredited`, `SessionsImplementLedger` | amounts and costs are natural numbers |
| `BreakerProofs` | registry: `RegistryInvariant`, `KeysShareOneBreaker`, `ProbesAreAccounted`, `OnlyProbesReopen`; proxy: `ChainInvariant`, `FallbackIsInvisible`, `ProbesComeBack` | settings at least 1; there is a key, finitely many callers; chains are finite sequences of targets, there is a model, finitely many requests |
| `AuthCacheProofs` | `AuthInvariant`, `RevocationBound`, `GoodKeysAreNotRefused`, `CacheIsBounded` | pods and finitely many keys; `Cap`, `TTL` at least 1 |
| `RateLimiterProofs` | `RateInvariant`, `LimitIsKept`, `RefusalsAreDeserved` | limits and times are natural numbers, `Window` at least 1 |
| `AccountsProofs` | `Agreement`, `LoginsAlwaysAgree`, `AuditNeverAhead`, `SuspensionAlwaysHolds` | the seed rows are well-formed: one user per address, every key has an owner |
| `RoutingServiceProofs` | `RoutingInvariant`, `LogIsTrue`, `AnswersAreChosenWell`, `ScoresAreInOrder`, `ReloadIsOneSwitch` | no process is both HTTP and gRPC; there is a document; one that parses has numbers where the code compares, and is not taken for the empty cache |
| `ProviderCallsProofs` | `ProvidersKeepTheirInvariant`, `OrdersAreAnsweredOnce`, `StreamsStayWhole`, `AnswersStayUnderstood`, `CatalogueStaysPriced` | finitely many slots, natural bounds; orders name pairs; jobs have the shape the handlers rely on (`IsJob`); the value for "left out" is no value of the API and no sequence of tool calls |
| `StreamPathProofs` | `TranslationLeavesNoTrace`, `DoneStaysLast` | an answer is a finite sequence of events with finitely many documents each, of any names and contents; its lines end in LF or CRLF |

`BreakerProofs` begins with the lemmas on the breaker (what renewing, admitting, entering
and reporting do to its counts) that the proofs of the registry and of the proxy share.

Each module follows one argument: the initial states satisfy an inductive invariant, every
action preserves it (one step per action, one below it per conjunct the action disturbs),
and the property follows. Why none of the properties is inductive by itself:

- **Ledger.** That a charge keeps the balance non-negative and that a top-up loses nothing
  depends on what other sessions may have done since the read: the invariant says that a
  staged write was computed from the committed balance and that the lock kept it so. For
  the refinement a step maps to a step of `Ledger` exactly when it is a commit.
- **Breakers.** "At most `MaxRequests` probes" needs the books: the request count of a
  half-open breaker is its successes plus the set of callers admitted in this generation,
  counted with `Cardinality`.
- **Auth cache.** The time bound needs to know of every load in flight when its row was
  read, since a load that read before the revocation puts after it.
- **Rate limiter.** A script prunes by a clock other than Redis's; the invariant says
  which accesses of the history the set must still hold, which it may, and when Redis
  may drop the whole set.

- **Proxy.** The answers half is about one request at a time: an answer is whole because
  nothing was written before it, which `Untouched` says. The calls half is about all of
  them: a step of one request moves the breaker of a target that others are calling, and
  the books of a half-open breaker balance only because a call admitted in an older
  generation is not counted (`CallsAgree` keeps admissions at or behind the breaker).
- **Accounts.** That an address keeps one user rests on what uncommitted transactions
  hold: no two pending users share an address or an id, and none has a committed
  namesake (`PendingFresh`). That a suspension is complete rests on what the requests in
  flight hold: a creation under way was authorised by a user who is not suspended, or is
  counted as raced.
- **Routing.** The reload is one switch because what it holds on to is still the document
  (`Validated`). What an answer says rests on how the pool is sorted: `InOrder` is *some*
  permutation that is in order, so `SortExists` first builds one, by inserting entry after
  entry, and `InOrderSorts` says that the chosen one has no later entry ahead of an
  earlier one. `ResolveNamesTheBest` then shows the slice of it to be the best chain, for
  every strategy and every `fallback_max`, and `ScoresListThePool` the other RPC.
- **Providers.** A handler is held to the question, not to itself: `ProvidersInv` says
  that what is on the wire of a slot is the answer to what the client of that slot asked,
  and that the client ends only with it, so that resets and orders of others leave it
  whole. A stream is whole because an event makes one chunk or none (`AnthropicChunks`,
  `OpenAIChunks`), and positions are counted instead of filtered (`Selected`, `Nth`). An
  answer is to the last message of the user because taking the system prompts out keeps
  the order of the rest; an answer of a provider keeps its texts and calls because each
  has a place of its own in what is selected (`Puts`), and its reason to stop is mapped
  by itself, whether calls came with it or not. The key of a catalogue entry is what is
  left of its id (`UnderTheProvider`), and an id cannot be a key of an adapter that takes
  nothing off, since all keys of one list have one length (`KeysOfAList`). A status
  ordered once answers once because the count of what is left only falls with the call
  that took it.
- **Streams.** That the sentinel is last needs to know where else it could come from: what
  the translator writes for an event is one chunk or nothing, an error body is neither,
  and `finished` is set in the step that writes it and closes the body (`DoneInv`).
  That the cuts leave no trace (`TranslatorInv`) is stated on the whole text: the
  translator has taken k events and, of the next one, the lines up to a fragment c; the
  line buffer is the text from c to what was read, the event being read holds what those
  lines say (`Between`), and what was written are the meanings of the k events (`Said`).
  `LinePlace` says where in the text each line of each event lies, `NextLineIs` that the
  translator takes that very line, with either line end, once it is there and not before,
  and `EndOfEvent` that what the empty line makes it write is what the event means, also
  for events without name or data and for several data lines, which are no document.

An induction over data, which the provers do not do, is replaced where it is needed by a
least counterexample (`LeastNat`: a set of naturals that is not empty has a least member).

Left to TLC: liveness (fairness and ENABLED are outside the prover), and of the streams
the refinement `Relayed`.

## Findings

1. `stripe_redelivery`: a redelivered Stripe event is credited twice; `handle_webhook`
   and a unit test say it is idempotent.
2. `broken_body`: after a body breaks off, the next target's answer or the error is
   appended to it, under the status already sent; the comment promises one or the other.

Further disagreements of text and code met on the way, with no run of their own:

- Gateway. A client that disconnects counts as a failure of every target it reaches and
  can open breakers (`proxy.go:74`; `ARCHITECTURE.md:136` says "5xx/timeout/429"). With
  Redis down, `cache.go:112` answers 401 without asking the backend (`ARCHITECTURE.md:159`
  has it fall back). `Close` of the Anthropic translator drops an unterminated event
  (`anthropic.go:196`; `adapter.go:40` says it flushes). `BEGINNERS_GUIDE.md:219` has one
  trial request in half-open, the code allows three. `ARCHITECTURE.md:161` has the gateway
  use the last known cache entry with the backend down, the code refuses once it has aged.
- Keys and accounts. `auth_service.py:69` speaks of a revocation heard within 5 s and
  nothing is published. `ValidateKey` never fills the rate limit. The JWT of the exchange
  is accepted nowhere (`get_current_auth` takes API keys), so that a first-time user
  cannot create a key. The audit entry of a creation has a random target. `DELETE /keys`
  and the RPC do not compare organizations, and a second revocation overwrites time and
  reason of the first.
- Routing. A SIGHUP reaches the FastAPI process, and `ResolveModel` runs in `grpc_main`,
  which keeps its first configuration for life. `config.py:3` says the document is loaded
  at import; it is loaded at first use. An unregistered `default_strategy` is accepted and
  fails every request. The sentinel ignores residency and geography.
- Providers. The routes of the mock name `openai`, `anthropic` or `google`, so scenarios
  for `together`, `fireworks` and `ollama` are never consulted (`config.py:54` of the
  mock lists them). `fallback.py` has a provider fail "for the next 30 seconds"; the
  status is for one call. The control plane cannot take a status back, since a null is
  left out. A forced status below 500 other than 429 is consumed without effect. The id
  that `GET /models` lists (`models.py:51`) is a `KeyError` for `pricing` of the OpenAI,
  Gemma and Qwen adapters (`openai_adapter.py:129`, `gemma_adapter.py:45`,
  `qwen_adapter.py:45`), which do not take the provider off; only tests call `pricing`.
  `base.py:33` calls a unified response OpenAI-compatible, and the Anthropic adapter
  hands the arguments of a tool call on as an object where OpenAI has a string. It also
  turns `pause_turn`, `refusal` and `model_context_window_exceeded` into "stop"
  (`anthropic_adapter.py:150`), so that an unfinished turn reads like a finished one.
  `health_check` of the OpenAI adapter asks a route the mock lacks. `stream()` drops
  tools, temperature and response format; `top_p` is never passed on (`base.py:28` lists
  it). An Anthropic stream finishes with "stop" whatever the reason. `register_providers`
  is not called by the lifespan its docstring names (`bootstrap.py:12`).
- CLI. `api-client.ts:402` claims to tolerate a blank line made of two carriage returns,
  which `indexOfEventBoundary` does not look for.

## What is not modelled

- Router, hot reload and client pool of the gateway: `ProxyChain` keeps one configuration.
  The hazard at `pool.go:41` (clients built from a configuration that was replaced, a
  chain whose providers are looked up under another) is the one without a property.
- Response cache: `Put` is never called, so `Get` always misses.
- Pricing cache: nothing changes a price or calls `invalidate`; a cached price is late by
  its TTL at most.
- `Cache.Invalidate`, `reserve`/`settle`/`update`, `count_tokens`, `validate_for_request`:
  never called.
- Background tasks and video jobs: placeholders that log; MCP, event bus beyond its start,
  storage: thin wrappers nothing in the request path calls.
- Guardrails: stateless matching in a fixed order, which unit tests reach.
- `NormalizeRequest` and `NormalizeResponse` of the gateway's adapters: pure mappings.
- Device login and credential store of the CLI, the web frontend, the snapshot store of
  the mock, deployment files, generated protobuf code.

Redis is taken to keep its data over an outage (append-only file in `docker-compose.yml`).

## What is left

In the order of what it would add:

1. The gateway's reload: `Router.Swap` under running requests and the pool that keeps its
   first settings, composed with `ProxyChain`.
2. `Accounts` composed with `AuthCache`, for the time from a suspension to the last
   request that is let in; today `EndsInTime` starts from the revocation of one key.
3. Device login of the CLI (polling, slow-down, expiry) and the request and response
   mappings of the gateway's adapters.
4. Proofs: `Relayed`, on top of `TranslatorInv` and the like of it for the reader.
