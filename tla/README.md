# Clever AI Gate: verification project

TLA+ models of the Go gateway in `src/`: an OpenAI-compatible proxy that spreads
client requests over pools of provider credentials, retries and fails over
between them, and keeps several nodes in step through PostgreSQL and Redis.
Line numbers below are of the files under `src/`; `PROJECT.json` maps every
definition to the lines it translates.

## 1. The system

### Inventory

| Component | State | Operations | Hard behaviour | Correct when |
|---|---|---|---|---|
| credential pool `internal/credentials/pool.go` | ring of weighted slots, shared atomic cursor, per-credential `CooldownUntil` | `AcquireActiveToken`, `AcquireLeastPenalizedToken`, `PenalizeToken`, `PenalizeByCredID`, `ResetCooldown`, `ResetByCredID`, `HealthyCount` | lock-free scans under concurrent penalties, clock read once, cascade into a fallback pool | a call returns what was available, passes over a pool only if it cooled, returns, starves nobody |
| retry engine `internal/proxy/handler.go` | per request: pool, tried slots, tried pools, spins, counts of 400s, what was written | `executeWithRetry`, `forwardRequest` | rotation, cancellation between any two steps, two kinds of pool switch; requests sent twice within an attempt, panics | one answer, bounded spend, the right key penalised, the right model |
| Gemini streaming `internal/proxy/gemini_sdk.go` | credential in use, failover attempt, what the client was sent | `geminiSDKStream`, `isKeyRateLimitedInRedis` | failover in mid-stream under one set of headers | as above, and no retry of a stream already begun |
| model names `internal/proxy/model_matcher.go`, `handler.go`, `internal/credentials/*_discovery.go` | routing patterns, `model_name` of the request | `FindExactModelFallbacks`, `StripProviderPrefix`, `ExtractCoreModelAndVersion`, `FormatUpstreamModelForPattern`, the pool lookup, each provider's registration | what one package puts in front of a name another must take off | the provider is asked for a model it lists, and for the one the client meant |
| stream proxy and transmux `internal/proxy/stream.go`, `internal/transmux` | first-chunk and think flags per stream, scanner, `[DONE]` and finish flags | `ProxyStream`, `Transmux` of each provider | providers end streams in different ways, clients leave, a translation panics | the client hears what the provider says, once, and its end |
| routing sync `internal/credentials/sync.go`, `internal/cache/redis_cache_manager.go`, `cmd/server/main.go` | L1 pools and tenants, `sm.pools`, debouncer, LISTEN connection, Redis subscription | `LoadInitialState`, `loadTenants`, `ReloadSync`, `PublishSync`, the listen and subscribe loops | three unsynchronised loaders, two where there is no Redis, lost notifications, full buffers, reload storms | the quiet node routes what PostgreSQL holds |
| cluster broadcaster `internal/cluster/broadcaster.go` | subscription | publish and apply penalties and resets | late, lost, reordered events | a cooldown set elsewhere harms nothing |
| catalogue: batch insert, registration, purge `internal/credentials/{batch_insert,rediscovery}.go`, `api/admin/{pools,credentials}.go` | `model_pools`, credentials bound to them, the report of a re-discovery | `BatchInsertDiscoveredModels`, the `DiscoverAndRegister*` functions, bulk deletion, purge, `queryDistinctAccounts` and the scan | transactions that wait for each other's rows, keys that share endpoints, failed statements | no deadlock of batches, no key bound twice, every account in the report |
| job queue `internal/jobs/{queue,worker,scheduler}.go` | `job_runs` rows, two Redis lists, workers, sleeping retries | `TriggerNow`, `Enqueue`, `Dequeue`, `processMessage`, `SendToDLQ` | at-most-once pop, repeated commands, hung executors, crashes | no run dropped, forked, over-tried or misreported |
| cron scheduler `internal/jobs/scheduler.go`, `api/admin/jobs.go` | rows of `jobs`, gocron's entries, `jobMap`, `execErr` of a run | create, update, pause, resume, delete; `registerJob`, the task, `runWithTimeout`, startup | admins at once, statements that fail between two steps, executors that return after their timeout | what is scheduled is what is defined, and a run's row tells the truth and ends |
| rate limiter `internal/middleware/{ratelimit,redis_ratelimit}.go` | one 64-bit word per tenant and node; a sorted set in Redis | admit or refuse | compare-and-swap across a minute boundary, scripts that arrive out of order, fallback | no more than the limit in a window, to a known excess |
| authentication, tenant cache `internal/middleware/auth.go`, `internal/cache/redis_tenant.go` | L1, L2 | look up, fill, invalidate | stale tenant after a suspension | a suspended tenant is refused |
| telemetry `internal/telemetry/pipeline.go`, `cmd/server/main.go` | bounded queue, three kinds of batch, Redis list | `Emit`, worker, consumer, `Stop`, the end of the process | full queue, order of stop, failed inserts, pushes sent again, crashes | an accepted entry is stored, once unless a push was repeated, or lost for a known cause |
| executors and probes `internal/jobs/executor.go`, `exhaustive_health_check.go` | session counters | HTTP probes, SQL | worker pools, cancellation | the counters add up |
| alerts, log hub, rewriting, provider adapters, transport, vault, quota, events, health, admin API, database, configuration, UI | see `PROJECT.json` | | | |

How they interact: a request passes authentication and the rate limiter, finds
its pool in L1 (filled by routing sync), and runs through the retry engine,
which acquires and penalises credentials of the pool and publishes penalties
through the broadcaster to the other nodes, where they are applied to the pool
objects in `sm.pools`. Each attempt is a `forwardRequest`, which relays a stream
through the provider's transmuxer; when it is over its log entry goes to the
telemetry queue. Admin handlers, health checks and discovery jobs write pools
and credentials to PostgreSQL; its triggers NOTIFY every node, and reloads are
announced on a Redis channel. Jobs are triggered by the admin API, and executed
by the workers of whichever node pops the message, or by the cron scheduler of
the node that holds the lock.

### Hazards

`PROJECT.json` lists forty, each at its line, with the properties that guard it
and what they leave uncovered.

## 2. Modules

| Module | Models | State and actions |
|---|---|---|
| `PoolRing` | the ring of `pool.go`, as operators on cooldowns | `Ring[p]` is the slice of slots `NewBalancedPool` builds; `cool[c]` is the ticks left until `CooldownUntil`; time is relative, so a clock is not needed |
| `ProxyRetry` | `executeWithRetry` for concurrent requests | `pc[r]` names the place in the loop; one action per exit, rotation, abort and switch; a failed attempt is on record (place "failed") before its key is penalised, and a client may leave in between; `PeerEvent` is a cluster event, `Tick` is time |
| `GeminiFailover` | extends `ProxyRetry` with `geminiSDKStream` | the streaming path replaces `Forward` for requests in `Streaming` with a Gemini key; `using`, `hop`, `turns`, `heard` are its locals |
| `Stream` | `ProxyStream` and the transmuxers | operators: a provider's line becomes what the client hears, with the flags a transmuxer keeps; a text is a sequence of words, breaks and tags |
| `Forward` | extends `Stream` with `forwardRequest`, the one step `ProxyRetry` takes it for | `at` is the place in the function, `wire` what was written, `sends` the requests to the provider; the relay takes one line per step |
| `AnswerPromise` | what the proxy promises the client of a request, whoever carries it | abstract: `stage` open, answered or over; `lines` the status lines written; `asked` how often a provider was asked |
| `ModelRouting` | discovery, pool lookup, prefix stripping, switches, upstream names | a name is a namespace path and a tag (`:free`, `:70b`); `bindings` are pattern and account; `req` the request with the names it has carried |
| `PoolPromise` | what `AcquireActiveToken` promises its caller | abstract: `avail` changes at will, and a call may end only as its doc comment says |
| `CredentialPool` | `AcquireActiveToken` at the grain of its atomic operations | one action per slot looked at; `late` is the set of cooldowns that ended after the scan read the clock |
| `RoutingSync` | reloads on every node | per node three loaders with a `place` and a snapshot; `wired` are the nodes that have Redis; versions stand for rows |
| `Catalog` | `model_pools` and credentials under concurrent transactions | per transaction a phase, the rows it holds and waits for; the detector aborts one of a circle; `scan` is the report of a re-discovery |
| `JobQueue` | triggers, list, workers, retries | per worker a `step` of `processMessage` and the message held; timers and abandoned executors are records with their node |
| `JobSchedule` | definitions, gocron's entries, the task | per request of an admin its `step`; `live[n]` what gocron fires, `mapped[n]` what `jobMap` knows; per run a task, a body and the error between them |
| `Admission` | authentication's verdict, the script of Redis, the node's counter | per request a step, the clock it read and who counted it; `sent` are scripts on their way |
| `Telemetry` | queue, worker, Redis list, consumer, the end of a process | per node the batches in hand and the phase of its end; an entry is the request it is about and the number of its copy |
| `ProxyRetry_proofs`, `CredentialPool_proofs`, `JobQueue_proofs`, `Catalog_proofs`, `Forward_proofs`, `JobSchedule_proofs`, `Admission_proofs`, `Telemetry_proofs` | theorems about them | `ProxyRetry_proofs` also holds those of `GeminiFailover`, `CredentialPool_proofs` those of `RoutingSync`, `Catalog_proofs` those of `ModelRouting`, `Forward_proofs` those of `Stream` |
| `…MC` | the small instances | |

`GeminiFailover` composes the streaming path with the retry engine, `Forward`
the attempt with the relay. `CredentialPool` refines `PoolPromise`
(`KeepsPromise`, with `avail` and `calling` mapped to what the cooldowns and
phases say). The pool calls of `ProxyRetry` take one ring's scan as one step;
the refinement justifies that: whatever interferes with a scan, its result is
one an atomic call could have given at some moment. `ProxyRetry` and `Forward`
meet in `AnswerPromise`, which both refine (`KeepsAnswer`): the loop, whose
attempt is one step, and the attempt, whose loop is one step, keep the same
promise to the client. The stage is read off `pc` and `answers` there, off `at`
and `wire` here. `GeminiFailover` refines it with the streams it may resume as
`Resumable` (`StreamKeepsAnswer`). `Telemetry` starts where
`Admission` and the retry engine end, and `JobSchedule` hands a run asked for by
hand to `JobQueue` where there is Redis.

## 3. Runs

| Run | Question | Instance |
|---|---|---|
| `retry_mixed` | does one request end well through every kind of failure? | one request; a weighted pool of two keys that falls back on a second pool of another model, and a third pool of the same; Puter and Gemini keys; 200, 400, 401, 429, 503, a 403 agreement and a 503 depleted body; cooldowns of two lengths; one key moved by other nodes |
| `gemini_stream` | does mid-stream failover keep one answer and a bound? | two Gemini pools, one the configured fallback of the other, failover cap 2 (5 in the code) |
| `pool_promise` | does the lock-free scan keep its promise? | two callers, a ring of two that falls back on a ring of one, any penalties and resets |
| `routing_sync` | does a node converge, with faults, and come to rest? | one node, with Redis or without, three changes, one lost connection, failed load or failed publish; `reloadChan` of 1 (100), subscription of 2 (100); fairness |
| `job_queue` | is every run carried, bounded, truthfully recorded and settled? | two runs of one singleton job, two nodes of one worker, two attempts, one fault of any kind: a crash, a lost or doubled command, a failed write |
| `model_routing` | is a provider asked for what it lists and the client meant? | one account of each of twelve providers, any two bound at once, NVIDIA's with a model of its own; listings that answer, are down, refuse; two switches |
| `catalog` | do concurrent writers of the catalogue keep it whole? | any two of: two re-discoveries, a registration, a deletion and a purge; two pools, two keys of one endpoint; one edit between any two statements |
| `forward` | does one attempt write one faithful answer? | up to two attempts over eleven kinds of credential, every class of reply and body, streams of up to three lines in seven formats, a client that leaves and a panic at any step |
| `job_schedule` | is what fires what is defined, and does a run's row tell the truth and end? | one node, three requests of one admin for one job, one run, one fault: a restart, a panic, a failed statement, a client gone |
| `admission` | how far can the limit be exceeded? | two nodes, four requests (symmetric), a limit of two, a minute of two ticks and two minutes, one failure of Redis |
| `telemetry` | where do log entries end up? | two nodes, two requests, a queue of one, batches of two, one fault: a crash, a failed or unanswered call, a push that Redis gets twice |
| `line_break_doubled` (violation) | does the client hear the text the provider sent? | `forward` with a text that holds an escaped character, of Anthropic's format alone |

Thirteen more configurations lie beside them and are run by hand, as the same
question on another instance or as a known disagreement. The first two find no
error:

| Configuration | Property | What it shows |
|---|---|---|
| `ProxyRetryTwins` | `AnsweredOnce`, `PenaltyIsolated`, `CancelledPenalizesNoKey` | two requests at once on one pool of two keys |
| `RoutingCluster` | `ConvergedWhenQuiet`, `Settles` | two nodes, two changes, no fault: they reload on each other's publishes |
| `ProxyRetryCrossModel` | `ExactModelOnly` violated | `AcquireActiveToken` cascades into the configured fallback pool without comparing models, which handler.go:1015 prohibits and pool.go:41 allows |
| `GeminiFailoverCancelled` | `CancelledPenalizesNoKey` violated | the Gemini path penalises a healthy key, for 30 s, when its client leaves in mid-stream (handler.go:741 says it does not), and then the keys it fails over to |
| `GeminiFailoverCascade` | `StreamPenaltyExact` violated | with a configured fallback it penalises the slot of the same number in the request's pool, not the key that failed |
| `RoutingAlone` | `ConvergedAlone` violated | on a node without Redis no reload follows an admin's load that ends after a later one of the debouncer (sync.go:366, 383; redis_cache_manager.go:179; main.go:94-100) |
| `RoutingPurged` | `PurgedIsGone` violated | `LoadInitialState` adds to L1 and never removes, so a purged pattern stays routed (pools.go:712: "removed instantly") |
| `CatalogPurge` | `PurgeSparesHealthy` violated | a purge reads which pools have no healthy key and deletes them after, with what was bound to them in between (pools.go:716) |
| `ModelRoutingOwn` | `SentIsListed` violated | a model NVIDIA lists under its own name is asked for without the namespace |
| `JobOverlap` | `NeverOverlaps` violated | a queue worker gives an executor no context (worker.go:112; types.go:161 says it must have one), so one that timed out runs on while its retry runs (007_jobs.sql:22, 80) |
| `JobSchedulePaused` | `PausedIsQuiet` violated | an update and a pause at once leave a paused job scheduled (jobs.go:426) |
| `AdmissionExact` | `ExactQuota` violated | two scripts that reach Redis in another order than that of their clocks let one more in (redis_ratelimit.go:14: "exact") |
| `TelemetryStop` | `StopFlushes` violated | `Stop` cancels the worker before it closes the queue; a worker that sees the former first leaves what is in the latter (pipeline.go:135) |

### Bounds

The code treats slots, pools, tenants, runs and transactions uniformly, so two
of each show whether an index, a cursor, a row or a message is taken for
another; the third pool of `retry_mixed` is there because a switch has to
choose. Capacities are cut to one or two so that the full buffer is reached; an
overflow needs no more. `MaxChanges` of three lets a later change overtake the
load of an earlier one, and a third load mix with both. Cooldowns of one and two
ticks distinguish the short ones from the long; a tick is about five seconds.
`AttemptCap` stays 20 and `MaxSpins` keeps its formula. `MaxBodies` of one is
enough to overlap with. A deadlock of row locks takes two transactions and two
rows, which `catalog` has; that more do not deadlock either is proved. Three
lines of a stream hold an opening, a text and an end, or what may follow one;
streams of any length are proved about. A push is sent twice in the run, where
the client may send one four times (redisclient/client.go:45). Four
requests at a limit of two fill a window and exceed it by as many again; two
minutes are what a counter can be set back by. Three requests of an admin make a
sequence such as pause, update, resume.

Deadlock is not checked where a system may come to rest (every request answered,
every change loaded, every run settled, every process ended); in `pool_promise`
and `model_routing` something can always happen, and it is.

Faults are counted (`MaxFaults`) and what they hit is remembered (`missed`,
`lost`, `twice`, `unwritten`, `lapsed`, `late`, `setBack`, `gaveUp`): a property
then excuses exactly the node, run or entry that was struck, and holds of all
others.

Each property has a mutant in `PROJECT.json`, an operator beside the one it
changes (`PenalizeAtCursor`, `DebounceLatest`, `DequeuePeek`, ...), that shows
the property fails when the code is wrong in that way.

### Fairness

Weak fairness of every step of a goroutine: the Go scheduler runs what can run.
`Tick`: time passes. `Engine` includes the return of an upstream call, which
the client's context bounds. In `RoutingSync` lost connections are made again
(every 5 s; with a backoff of 1 to 30 s), and faults are not fair. In `JobQueue`
and `JobSchedule` the timeout is fair and the return of an executor is not: a
hung one may hang for ever, and does in the mutants of `RunsSettle` and
`RunsEnd`. In `Telemetry` worker, consumer and handlers run, and a process whose
end has begun comes to it; that it begins is not assumed. `NoStarvation` assumes
that calls keep coming. `Forward`, `Catalog`, `ModelRouting` and `Admission`
state no liveness and no fairness.

## 4. What the runs show

Held: a client is answered once, with what a provider said that was asked, and
nobody is asked after that, unless to resume a stream; a request's upstream
calls are bounded, within an attempt, across them and in mid-stream; a payload
that earns 400 is not sent round every key; a failed attempt penalises its own
key, and a client that has left costs none, in the ordinary path, but the one
whose failure was on record when it left; every request ends. The
lock-free acquisition implements its doc comment and starves no key. As long as
a client stays it hears the words of the provider, in order and once, until a
chunk has words on both sides of a tag, and `[DONE]` once. A finish is made up
where a stream in Anthropic's format or of 1min.ai closes without one, not where
it ends with a `[DONE]` of the provider's own (stream.go:111-116). An Ollama of one's
own is the exception: it answers in OpenAI's format, of which its transmuxer makes
nothing (rewriter.go:359, ollama.go:84), and the client hears `[DONE]` alone. A
request that stays with its pool asks for a model its account lists, unless the
account lists it under a namespace, or answers under a prefix, that the proxy gets
wrong (names, below), and then still for a model of that name; a switch keeps the
model the client meant, and what the engine works through is the model asked for
or a configured fallback of it; a re-discovery gives an account every pattern its registration would.
Re-discoveries at once do not deadlock, bind no key twice and report every
account. A node that lost no news routes what PostgreSQL holds, in the same pool
objects that receive the cluster's cooldowns, although three loaders interleave:
loads that could finish late announce themselves and are followed by another.
That is so with Redis; a node without it hears no announcement, and is right only
if none of its loads ran beside another (`overlapped`; `RoutingAlone` shows it
stale for good). Reloads come to rest. A run is executed at most `max_retries` times, is neither
dropped nor forked by the worker, and ends up recorded as it ended, by the queue
and by the scheduler alike. Between requests of one admin a node has scheduled
what is defined. The limiter admits no more than its limit, and a known excess
for clocks read before another's. An entry of the log is in one place and never
in none: it waits, is in one row, or is lost for a cause that can be named. Only a
push to Redis that goes unanswered makes copies: the client sends it again after
200 ms (redisclient/client.go:41, 45), and its entries, up to fifty, may then have
a row for each time Redis got it; `EntryAccounted` counts the copies and ties them
to that fault. No
handler runs into the closed queue that main waited for.

Not as documented (`findings`): texts of Anthropic's format, thoughts of OpenAI's
and texts of Vertex are escaped twice, so that a line break is shown as a
backslash and an n; ollama.go:35-38 says why that is wrong. The other
disagreements are the configurations of the table above.

Met on the way, and not stated as properties because the code promises nothing
of them, grouped by where they were met:

* Pools and retries. A success resets the slot of that number in the request's
  pool, whichever pool the key came from; a reload forgets all cooldowns.
* Attempts and streams. `handleGeminiStream` (the JSON-array mode) is
  unreachable; a 400 of the Gemini builder is answered as 500; a repeat after
  Cloudflare's agreement that fails gives the old status with the new body; a
  panic of the Gemini SDK after the headers is returned as a 500 and answered
  again (handler.go:1173). Vertex' usage chunk repeats the finish reason; Ollama's
  `thinking` is dropped; a chunk with words on both sides of a tag loses those of one
  side (openai.go:60-73, against 12-14), and what follows may then be taken for the
  other side (`mixed` in `Stream`).
* Names. Ids of OpenRouter under `nvidia/` lose their namespace;
  `FormatUpstreamModelForPattern` strips publishers it does not know, and `@cf`;
  a switch to a `gemini/` pool leaves the prefix in the request's model; a
  re-discovery registers `openrouter/…` for accounts without a prefix.
* Catalogue. Registration with Cloudflare succeeds with a refused token through
  the public catalogue; a re-scan of a refused AgentRouter key binds the default
  catalogue; two registrations of one key can bind it twice
  (agentrouter_discovery.go:72).
* Reloads. Nothing reloads after a lost LISTEN connection is made again.
* Jobs. A node that stops leaves runs that nothing continues, and the
  re-discovery then refuses to start; the first retry goroutine starts before the
  failure is written, so `retry_delay = 0` lets an old failure overwrite a success
  (`DelayCovers = FALSE`); `max_retries` of n gives n executions, not n retries;
  `SendToDLQ` sets no TTL, which its comment announces. Resuming an enabled job
  registers it with gocron a second time; pauses, updates and settings reach only
  the node that serves them; a global pause does not cover runs asked for by hand;
  `runWithTimeout` has no recover (scheduler.go:503), and `execErr` is read while
  the executor may write it (scheduler.go:365-375).
* Telemetry. An entry of the admin key, whose tenant no table has, aborts the
  transaction of its whole batch (pipeline.go:336-338). A push or a commit whose
  answer is lost is logged as failed though it may have been done
  (pipeline.go:230, 366).
* Never called: `RateLimiter.Cleanup`, `RedisTenantCache.Set` and `Invalidate`,
  `internal/quota`, `internal/events`.

## 5. Proofs

Eight modules hold theorems, each for any values of the constants that meet the
named assumptions of its module. Every invariant, action property and refinement
the passing runs check is a theorem; liveness is not. The invariants were first
run with TLC. Where a theorem has a hypothesis of its own, what it excludes is
something the code does, and is named.

`ProxyRetry_proofs`, for any pools, weights, fallback chains, requests, routes
and replies:

* `TypeCorrect`: `TypeOK`, by induction on the steps; the work is in showing
  that slots computed modulo the ring's size and cooldowns stay in range.
* `OneAnswer`: `AnsweredOnce`, a request is sent one status line at most and has
  one when it ends. It is not inductive: `AnswerInv` adds that a request between
  loop and reply has been sent nothing, and one whose reply is a success exactly
  one answer.
* `AnswerIsKept`: the refinement `Spec => KeepsAnswer`, which says more: nobody is
  asked after a success, and none is written that no provider gave. A step of
  one request is an `Ask`, `Answer`, `End` or `Fail` of that request or leaves its
  stage alone (`StageMoves`); which it is follows from `AnswerInv` and from
  `PaidInv`, that a request whose reply is in hand has asked somebody. Steps of
  the pools, of other nodes and of time stutter.
* `PenaltyIsIsolated` and `CancellationIsFree`: action properties, from the
  type invariant and the lemma that `SetSlot` moves one cooldown. For the second,
  `RecordedStep`: a failure goes on record only while the client is there.
* `ModelIsKept`: `ModelOrItsFallback`, for any fallbacks. `ModelInv` says that the
  request's own pool hosts a model it may ask for, which every switch keeps;
  `Linked`, that what it scans or has picked is of a pool in the `Chain` of its
  own, the pools that configured fallbacks lead to. That these may host another
  model is what `ProxyRetryCrossModel` shows.
* `SpendIsBounded`: `SpendBounded`. `SpendInv(fee)` adds that the tried slots of a
  pool never exceed the cap and that the attempt in flight has been counted, at
  `fee` calls an attempt; here the fee is one.
* `PayloadFaultsAreBounded`: `PayloadFaultsBounded` **if** the body of a 400 never
  tells of the account (`PlainPayloadFaults`). A 400 that does rotates the key
  and is counted with the others, so that only the attempts bound it. `FaultInv`:
  a request still in a pool's loop has one 400 of each provider in hand for each
  pool it has left, because the second one in a pool is what sends it away; between
  the record of that one and the switch it has one more (`Suspect`).

and, of `GeminiFailover`, whose `StreamNext` has all steps of `Next`, so that each
lemma about `Next` is used again:

* `StreamAnswerIsKept`: `StreamKeepsAnswer`. The steps of the loop are those of
  `AnswerIsKept` under a promise that allows more (`PromisesMore`); a hop in the
  middle of an answer is the `Ask` that only `Resumable` requests have.
* `StreamOneAnswer` and `HeardStaysFinal`: `AnsweredOnce` of the composed system,
  and `HeardIsFinal`. `HeardInv`: what the client heard of a stream and what was
  written for it agree as long as the stream and its reply last.
* `StreamSpendIsBounded`: `StreamSpendBounded`, from `SpendInv(MaxFailovers)` and, in
  a stream, that what is left of the attempt's fee after `hop` calls can still be
  spent (`HopInvOf`).
* `StreamPenaltyIsIsolated`: `StreamPenaltyIsolated`, for any fallbacks: what a
  broken stream cools down is its own key or, where that is of a fallback pool,
  the one in its slot of the request's pool. `StreamLinked`: the key of a stream
  is of a pool in the `Chain` of the request's pool. That the code does penalise
  another key is shown by `GeminiFailoverCascade`, of `StreamPenaltyExact`.

`CredentialPool_proofs`, `PromiseIsKept`: the refinement `Spec => KeepsPromise`.
`Call` is a `Begin`, `Take` and `Fail` are an `End`, penalties, resets and ticks
are a `Change`, and the other steps of a scan stutter. A returning step is an
`End` because of `ScanInv`: what is available now was free during the call, the
slots looked at so far hold credentials that were cooling during it
(`Scanned`), and so do the pools before the one being scanned (`Cascaded`). That
a full round leaves no slot out is `RoundTheRing`, arithmetic modulo the size of
the ring. Chains may be cyclic here: a call that does not return keeps every
promise.

The same module, of `RoutingSync`, for any nodes, administrators, rows and buffer
sizes: `TablesConverge` (`ConvergedWhenQuiet`) and `PoolsAreOneObject`
(`OnePoolObject`). Neither is inductive, nor does it help to say what each load has
read: loads overtake one another. `SyncInv` says instead of a node that lost no
news that either a reload of the pools is still to come (`PoolNews`: a
notification, a timer, an administrator's change; with Redis also a load of the
administrator or the debouncer, which publish when they end, or a message so
published), or whoever is loading has read what there is (`PoolsLast`); and the
same of tenants (`TenantNews`, `TenantsLast`). With Redis only the subscriber can
be loading once no reload is to come. Without it anybody can, and `Alone`, that
nobody else is loading, is what a node that is `Followed` without Redis has
instead. A quiet node has no news.

`JobQueue_proofs`:

* `StatusIsSettled`: `SettledStatus`, **if** `DelayCovers`. What has to be excluded
  is a second carrier of a run, which would write its row after the first has
  settled it. The dead letter is part of it where dead letters are enabled
  (`DLQEnabled`, either way). `Single` says that a run whose message was not doubled is on the
  list once, or sleeps in one timer, or is in the hands of one worker; a worker
  that still has to record the failure it retries after is paired with the timer
  (`Paired`), which `DelayCovers` keeps from firing. `Decided` ties what the
  worker holds to the run's outcome, `Settled` the row and the dead letter to it.
* `RunIsAccounted`: `Accounted`, however short the delay. For its first half
  `TrackInv` says which of handler, list, timer and worker has the run, exclusively.
  For its second `BudgetInv` sums, over the four, the executions a run may still
  have: an attempt `a` in the list or a timer stands for those from `a` on, one
  that runs for those after it. The sum and `tries` together stay within
  `MaxAttempt`, and a doubling adds no more than that again. Each sum is the
  cardinality of a set of pairs, so that a step moves elements and no recursion
  is needed.

`Catalog_proofs`, for finitely many accounts:

* `NoBatchDeadlock`: `BatchesNeverDeadlock`. By `LockOrder` a transaction of a
  scan asks for patterns in order, so that the one in a circle that asks for the
  last pattern waits for one that holds it and asks for an earlier: none does.
* `BoundOnce`: `BatchBindsOnce`. `PoolsApart` says that no two patterns share a
  pool and no two upserting transactions hold one; `OnlyMissing`, that what a
  batch is about to copy is bound by none but an administrator.
* `EveryAccountCounted`: `ScanAccounted`, as `ScanCounts`: those reported and
  those still waiting partition the accounts.
* `CatalogTypeCorrect`: types, on which they rest.

and of `ModelRouting`, for any accounts, listings, aliases and prefixes. Names
are sequences, but no proof needs induction over them: taking a prefix off and
putting one on are a `Tail` and a concatenation with one element (`Trim`,
`Under`).

* `ScanIsComplete`: `ScanCoversRegistration`. `FetchedCovers` compares what a
  re-discovery fetches with what a registration binds, provider by provider.
* `ModelKeptAcrossPools`: `SwitchKeepsModel` **if** no account but Puter's has a
  name under `puter/` (`PuterApart`). A small request for a name under it is taken
  for one of Puter's and asks for the small model (`Optimized`). Two names are the
  same model if the code's own comparison says so (`Core`): `:free` does not
  matter to it, `:70b` does. 1min.ai is asked for what its table has for the
  model, of which `1min/gpt-4o:code` is another than `gpt-4o` to that comparison.
* `AskedIsListed`: `DirectSendsListed`, for any names. `Clear` is a name that has
  none of the proxy's namespaces in front. One that is clear arrives as the
  account lists it, with nothing before it (`UpstreamClear`) or with a space that
  the proxy takes off (`UpstreamSpaced`). Under a space it leaves alone a name
  arrives with it (`UpstreamKept`); a name that is not clear may lose what it
  began with, but no step changes what model it means (`UpstreamCore`,
  `SmallCore`). The last two are the names of section 4: models NVIDIA lists under
  its own, those of OpenRouter under `nvidia/`, and `openrouter/` before the names
  of an account without a prefix. The names of 1min.ai go through a table,
  `OneMinAI`, and come out as one of its models, whatever rows it has.

`PuterApart` is true of the instance of `model_routing`. The three rest on
`BindInv`, that a binding's pattern is a name its account answers to, or one of
them under the account's space, and `RequestInv`, that each name a request carries
is a name of the account it will reach, with or without the space.

`Forward_proofs`:

* `WrittenOnce`: `WrittenIffReturned` by `Written`, which says at each place of the
  function what has been written: something exactly where it will report that
  it wrote.
* `AttemptsKeepAnswer`: the refinement `Spec => KeepsAnswer` from `Written` and
  `Paid`, that what writes a success has asked. Mirrors, agreements and unusable
  bodies ask while nothing is written; what is returned unwritten is an error
  the loop may write.
* `SendsAreBounded`: `SendsBounded` by `Spent`, which says at each place of the
  function how many requests an attempt can have sent: only AgentRouter has a
  mirror, and only Cloudflare terms, which take two requests before the repeat.
* `DoneIsHeardOnce`: `DoneOnce` by `HeardInv`: a stream that is open has said no
  `[DONE]`, and one that ended says it last. The step that ends a stream says it
  for each way to end.
* `FinishIsTold`: `FinishTold` by `Seen`: in Anthropic's format the client has
  heard one finish if the translation has seen one and none otherwise, and a tool
  call is remembered. A `[DONE]` of the provider's ends the stream in that state,
  with no finish unless the provider gave one; a close adds the one that is
  missing. A text is cut into its parts by a recursive function, of
  which it must be known that it yields no finish. Induction over its argument is
  not to be had from the library's theorems; `Least` derives it from the
  well-foundedness of the numbers, a set at a time.
* `StreamIsFaithful`: `Faithful`, of streams of any length and with any texts. The
  invariant `FollowInv` says that transmuxer and provider are on the same side of
  a tag (`InStep`) until a chunk has words on both sides of one (`mixed`), and that
  what was said and what was heard have the same `Content` but for escapes; one
  lemma for each kind of line (`Followed`) says that the items it becomes mean
  what the line says. That the contents of two sequences after each other are
  those of the whole is an induction over a sequence, done as `Least` does it
  (`Recursion`, `Everywhere`), and what a chunk's words mean, wherever they stand
  in it, is `MeansWords`. What is lost of a mixed chunk is in section 4, what the
  escapes become is the finding `line_break_doubled`.

`JobSchedule_proofs`:

* `SuccessIsEarned`: `SuccessEarned`. `Honest`: an error of "none" means the
  executor returned without one, whoever wrote `execErr` last.
* `ScheduleIsAsDefined`: `ScheduledAsDefined` **if** there is one node (`OneNode`):
  an update reaches no other. Between requests node and table agree (`Right`); in
  one, `Underway` says by how much they differ at each step: not scheduled
  (`Bare`), scheduled and known to `jobMap` (`Linked`), or scheduled and known only
  to the request that is about to remove it.

`Admission_proofs`, for finitely many requests:

* `MinuteIsKept`: `MinuteKept`. `Tally`: those let in during a minute are those
  the counter shows and a minute's worth for each time it was set back.
* `WindowIsKept`: `WindowKept`. `WindowInv` bounds every window, not only those
  that end with a request: as long as no script is late those let in are no
  later than the last, so that one of them that a window counts is still in the
  set; and a late one adds itself to the bound.

`Telemetry_proofs`:

* `EmitIsSafe`: `EmitSafe`. `Awaited`: a node past draining has no handler at work,
  or has given up waiting.
* `EntryIsAccounted`: `EntryAccounted`, every copy of what was handed over is in
  flight, in one row or lost, and in one of them only. `Counted` says that what
  waits before the push is the only copy of its entry, so that the copies a
  repeated push makes (`OfSent`) are new; more than one exist only where there is
  Redis and a fault. `FiledInv` adds that an entry is in one
  place of one box, of a node or in Redis (`Held`); each step of worker, consumer
  and handler moves a set of entries from some boxes to another box, to rows or to
  `lost`, and leaves the rest (`Move`, `Refiled`). That the worker may empty both
  its batches at its end and write one needs `OneKind`: the other is empty.

Only model-checked:

* Liveness (`Termination`, `CallReturns`, `NoStarvation`, `Settles`, `RunsSettle`,
  `RunsEnd`, `LogSettles`): it needs fairness and `ENABLED`, which the prover does
  not have.

## 6. What is left out

* In `ProxyRetry`: the agreement's own two requests (handler.go:876), which
  `sends` does not count and `Forward` does; bytes, headers and bodies; two branches no request reaches,
  the 404 fast fail (handler.go:928-938), which `KeyFault` precedes, and the third
  fallback search, which finds nothing the first has not; the routing snapshot is
  fixed while a request runs; the question to Redis whether a key is limited and
  the penalty that follows are one step.
* Fallback chains are acyclic in the runs. The admin API accepts a cycle, on which
  the cascade does not return.
* In `Forward` and `Stream`: the JSON of requests and whole replies, image
  inlining, usage figures, the transcript kept for the log.
* In `ModelRouting`: the classification of names into capabilities, HTTP and the
  client's retries, Redis' list of models.
* In `RoutingSync`: a gateway has Redis for the whole run or not at all (`wired`);
  the list of models in Redis; the reads of one load are one
  step, as no property relates pools to tenants; one admin change at a time per node.
* In `Catalog`: a pool that is renamed, and a credential that is read and written
  back by an edit of its other fields; accounts are counted by their plain key,
  where the code counts ciphertexts.
* In `JobQueue` and `JobSchedule`: `dlq_enabled` is fixed at the start and on in
  the runs, as by default; job statistics; the trim at 10000 dead letters;
  deletion of rows; how long a delay is, beyond `DelayCovers`; what gocron does
  within (its limits, its singleton queue, its lock in Redis) is external.
* In `Admission`: `Cleanup`, which nothing calls; header parsing.
* In `Telemetry`: the contents of an entry, the partitions of the table.
* Components with the status `not_modelled` in `PROJECT.json`, each with its
  reason: text and JSON conversion, HTTP probes, cryptography, SQL, UI.

## 7. Plan

Done, in this order: `PoolRing`, `ProxyRetry` and its proofs; `GeminiFailover`;
`CredentialPool` refining `PoolPromise`; `RoutingSync`; `JobQueue`;
`ModelRouting`; `Catalog`; `Stream` and `Forward`; `JobSchedule`; `Admission`;
`Telemetry`; theorems on seven more modules; then theorems on `GeminiFailover`,
`RoutingSync`, `ModelRouting` and `Stream`, and on the remaining invariants of
the other modules; `AnswerPromise` and its three refinements, the faithfulness of
streams of any length, and the whereabouts of every log entry.

Left:

1. `ProxyRetry` with `Forward` in the place of its one-step attempt. They agree on
   the client's answer (`AnswerPromise`); that the replies, fees and rotations the
   loop sees are those the attempt returns is left.
2. `ScheduledAsDefined` of the node that serves every request, with other nodes
   beside it.
3. The lookup of tenants in L1 and L2 against `RoutingSync`'s reloads.
4. The two sorted-set windows of the failover alerts, and the ring of the log hub.
5. The singleton guard of the re-discovery (credentials.go:1284), which counts open
   runs and then inserts one.
