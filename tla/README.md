# Verification of the NexusGate LLM gateway

TLA+ models of the parts of this repository that decide something under concurrency or
failure, the TLC runs that check them on small instances, and TLAPS proofs for every size.
Paths are relative to the repository root (`app/...` is `src/app/...` in `PROJECT.json`).

    tlc -config router_serves.cfg MCRouter      # one run; the module of each is in PROJECT.json
    tlapm RouterProofs.tla                      # one proof module

## 1. The system and its parts

| part | state it keeps | operations | modelled by |
|---|---|---|---|
| Circuit breaker, `app/gateway/circuit_breaker.py` | state, failure count, opening time, probe flag, in each process | `state` (writes when read), `allow_request`, `adopt`, `record_success`, `record_failure` | `CircuitBreaker`, `LocalBreakers` |
| Cluster breakers, `app/gateway/breaker_cluster.py` | three expiring Redis keys per deployment, time of the last refresh | `sync`, `_claim_probe`, `record_success`, `record_failure`, `_open` | `BreakerCluster` |
| LLM router, `app/gateway/router.py` | breakers by deployment; a request's place in its chain | `complete`, `open_stream`, the retry loops, `_relay` | `Router`; its use of one shared breaker in `BreakerCluster` |
| Ingestion jobs, `app/workers/` | job records, attempt counters, payloads, dead letters in Redis; messages in the broker | `submit`, `execute`, the Celery task, redelivery | `IngestJobs`, abstractly `JobLifecycle` |
| Chat service, `app/gateway/service.py` | none; orders cache, router, meter, rollout | `complete`, `stream`, billing after a hang-up | `ChatService` |
| Rollout, `app/gateway/rollout.py` | stable and canary tables and statistics in Redis, a cached pair in each replica | `select`, `record`, `publish`, `set_weight`, `roll_back`, `promote`, `discard` | `Rollout` |
| Documents, `app/rag/ingestion.py`, `documents.py`, `vector_store.py` | registry in Redis, chunks in Qdrant, the collection itself | start-up, `ingest`, `delete` | `Documents` |
| Chunking and retrieval, `app/rag/chunking.py`, `retrieval.py`, `service.py` | none between requests | splitting, packing; search, rerank or degrade, answer | `Chunking`, `Retrieval` |
| Semantic cache, `app/cache/semantic_cache.py` | entries, a recency set per namespace, a namespace set per tenant | `lookup`, `store`, `purge_tenant`, `purge_all` | `SemanticCache` |
| Agent graph, `app/agents/` | a run's state | nodes and edges, bounded steps and revisions | `AgentGraph` |
| Inference gate, `app/core/concurrency.py` | a semaphore and a count of waiters | `run` | `InferenceGate`, abstractly `BoundedSlots` |
| Rate limiter, `app/core/rate_limit.py` | tokens and a timestamp in Redis | one Lua script | `TokenBucket` |
| API keys, `app/core/security.py`, `app/api/deps.py` | three Redis structures per key | `create`, `revoke`, authentication, token exchange | `ApiKeys` |
| Fault injection, `app/gateway/faults.py` | a table in Redis, a copy in each replica | `set`, `clear`, `rates` | `FaultInjector` |
| Metering, `app/core/metering.py` | a hash per key and day | `record`, `daily` | `Metering` |
| Provider streams, `app/gateway/providers.py`, the end of `router.py` | the running price of a stream | adapters' parts, `_relay`, `_estimate`, `_settle` | `ProviderStream` |
| Job books, `app/workers/jobs.py`, `queue.py` | index, totals, dead letters in Redis | inline queue, `save`, `list`, scrape, `purge` | `JobLedger` |
| Replica, `app/main.py`, `container.py`, `demo.py`, `health.py` | what has been built and opened | lifespan, readiness | `Replica` |
| Alerts, tracing, `app/api/alerts.py`, `app/observability/tracing.py` | a trimmed list in Redis; one trace | webhook and listing; a request under the SDK | `Alerts`, `Tracing` |
| Routing tables, schemas, embeddings, evaluation, load tests, infrastructure | | | not modelled, see section 6 |

**How they interact.** The API runs in several replicas, each one asyncio event loop: within a
replica only an `await` lets another request run, and between replicas everything interleaves.
A chat request asks the rollout for a table, the cache for an answer, then the router, which
refreshes its breakers from Redis (`_prepare`), walks the chain, calls providers and reports
outcomes to the breakers and to Redis. Replicas meet in Redis only. An upload is parked in Redis,
recorded, and announced through the broker; workers in other processes run it and write its
record, which the client polls.

**What is hard.** State read before an `await` and used after it; a property (`state`) that
writes when it is read by whoever comes first; a Redis command that has effect although its
reply is lost; a replica or worker killed between two writes; a message delivered again, or to
two workers at once; clients that leave. `PROJECT.json` lists these hazards at their lines, with
the properties that watch them.

**What makes each part correct.**

* Breakers: a probe flag always has an owner who will clear it; failures pooled over replicas open
  the circuit; after recovery every replica closes; without Redis each replica behaves as the
  plain breaker did.
* Router: a deployment is passed over only for cause; once a deployment has answered the choice is
  final; a working deployment in the chain means no failed request; every request ends.
* Jobs: an accepted upload is always settled; nothing is lost when a worker dies; failures reach the
  dead-letter queue; a job is tried at most `job_max_attempts` times; the client sees one orderly
  life cycle.
* Rollout: a replica never routes by a pair older than the refresh window; a canary over its error
  budget is withdrawn in the end; a rollback hits the canary it was decided for (it may miss: section 4).
* Chat service: a request is billed at most once and for what was produced; no part of an answer is
  served as the whole; the rollout hears of it once, of a success if it was answered whole and of an error
  if not (whoever is to blame: section 4); it ends.
* Documents: a writer that was alone at a document leaves it whole, whatever was torn before.
* Cache: a purge leaves nothing that was stored before it began; the cap bounds what Redis holds.
* Chunks and retrieval: no word is lost, repeated beyond the overlap or put under a wrong heading; the
  passages returned are the best of the candidates, and in the store's order when the reranker sheds.
* Agent: no text goes out that the reviewer has not seen, unless the budget or the reviewer gave out;
  the step budget never ends a run that its revision budget would have ended.
* Gate: slots go to the first in line, and nobody waits beside a free one. Bucket: no more is spent than
  capacity plus refill, but for clocks that disagree.
* Keys: nobody who comes after a revocation gets in. Faults: a change takes effect within a second.
* Streams: priced once, on the best knowledge there is. Job books: totals, dead letters and listings
  agree in every state. Replica: no traffic before everything the settings ask for is there.

## 2. Modules

    CircuitBreaker ──┬── LocalBreakers  <──implements (Redis down)── BreakerCluster ── MCBreakerCluster
                     ├── BreakerCluster ── BreakerClusterProofs
                     ├── Router ── MCRouter, RouterProofs
                     └── CircuitBreakerProofs (lemmas for both proof modules)
    Rollout ── MCRollout, RolloutProofs
    ChatService ── MCChatService, ChatServiceProofs
    JobLifecycle  <──implements (messages delivered once)── IngestJobs ── MCIngestJobs, IngestJobsProofs
    BoundedSlots  <──implements── InferenceGate ──┐
    ApiKeys, TokenBucket, FaultInjector,           ├── MCFrontDoor ── FrontDoorProofs
    Metering, ProviderStream,                      │
    Replica, Alerts, Tracing, JobLedger ───────────┘
    SemanticCache, Documents, AgentGraph, Chunking, Retrieval ── MCKnowledge ── KnowledgeProofs

**CircuitBreaker** gives the methods of the class as functions of a breaker record. `fails` is
saturated at `THRESHOLD` (the code only compares it with the threshold); `opened_at` becomes `cool`,
the ticks until the cooldown has passed. `Look` is the `state` property with its side effect, and
the other methods apply it where the code reads the property.

**LocalBreakers** is the abstract specification of a gateway without a cluster: each replica's
breaker changes only by its own methods.

**BreakerCluster** is one deployment seen by any number of replicas and coroutines (`Tasks`, each at
home on a replica). A Redis command is two actions: the server executes it (`ReadKeys`,
`ClaimProbe`, `CountFailure`, `ClearKeys`, `OpenKeys`), and the coroutine resumes and acts on the
reply (`ApplyRead`, `ApplyClaim`, `ApplyCount`, `AdoptPooled`). `RedisOutcomes` says whether it
works, raises, or works and loses its reply. A pipeline runs as one step. Time is one clock of
ticks; key TTLs, cooldowns and the refresh interval count down in `Tick`. `OtherChainSync` is a
refresh used up by a chain without this deployment, `Restart` a replica killed and started again,
`Recover` the end of the provider's outage, `HangUp` a client leaving a stream. The sleep between
retries is merged with the call that follows, since neither touches the breaker. `sync_breakers`,
for the admin page, is not modelled.

**Router** is one replica and whole chains. Requests share the breakers of the deployments they
share. What the cluster can do to a breaker is a choice taken from `BreakerCluster`: a refresh may
adopt any state of a deployment that can fail (`Synced`), and a recorded failure may open the
circuit on the pooled count. A deployment in `Healthy` answers every valid request; no replica
shares a failure of it. An attempt is its position in the chain and its outcome.

**Rollout** is the route table's two Redis keys and the pooled counters, a cached pair in each
replica (`view`, `age`), chat requests and operators. `_load` is `Load` (the cache, or an `MGET`
sent), `Read` (Redis answers, or raises) and `Resume` (the coroutine goes on with the reply, up to its
next `await`: `Proceed`); `op` says which caller of `_load` goes on. Between a `SET` and the
invalidation after it, anything may happen, and a write may take effect without the coroutine
learning of it (`Wrote`). `set_weight` and `roll_back` change the `CanaryState` in the cache before they
write it, which `Proceed` keeps. Counters stop at `MAX_COUNT`, the two `HINCRBY`s of a pipeline are one
step, and `MAX_EVENTS` bounds operations and Redis errors together. A version in `Good` never fails.
`late` watches, for each pair, how long ago it was last what Redis held.

**ChatService** is `complete` and `stream` with the relay that feeds the latter. `req[r].at` names the
await or yield where a request is suspended: `relay` awaits the provider inside `opened.rest`, `chunk`
and `first` are yields, `store`, `meter` and `tell` are the awaits of the finish. Words stand for tokens;
`priced` is `opened.usage`, which the relay first fills when the chunk after the first is asked for.
`HangUp` is `GeneratorExit` or `CancelledError` at any point once the response has started
(`Leavable`): within the `try` block (`InTry`) it leaves `later`, the task of `_meter_later`; after it,
nothing. The meter's pipeline may raise, with or without effect. The cache is the lengths of the
answers stored for a prompt; lookups may miss, stores may fail, entries may go at any time. Routing is
the choice between an answer, a chain that failed (`Reject`) and a provider that refused the request
(`ClientError`), which `Router` works out; telling the rollout is the call
of `record`, which `Rollout` works out.

**IngestJobs** is the API's `submit`, the workers' `execute`, and the broker. Each `await` of
`execute` is an action and `pc` names the next one; `msg`, `job` and `attempt` are the local
variables that survive an `await`. A message holds its job and Celery's `retries`; `queue` counts
its copies, unordered, since the countdown of a retry and the number of workers reorder them (an
ETA message that Celery holds back counts as waiting). `Crash` kills a worker: the broker has the
message back (`acks_late`, `reject_on_worker_lost`). `Redeliver` is the visibility timeout: a second
copy while the first worker goes on. `RedisRaises` is an exception outside the `try` around
`ingestion.ingest`: it is no `TransientJobError`, so the task fails and is acknowledged.
`ingestion.ingest` itself succeeds, fails for good (`Bad`) or fails for now. Attempts saturate one
above `MAX_ATTEMPTS`. A record expires only when no delivery of its job is under way, because
the retention (a day) is much longer than a delivery, and its attempt counter, which has an expiry of
its own, with it; the payload may expire at any time. The dead letters are a set here: their cap and
their purge are in `JobLedger`.

**JobLifecycle** is what a polling client may rely on: queued, processing, then done or failed for
good, or queued again, with the attempts counting up to the limit.

**InferenceGate** models `run` between two awaits on one event loop, with asyncio's semaphore and
`wait_for` as they behave in the Python of the containers (external to `app/`): a waiter that is woken
owns its slot before it runs again (`granted`), may be cancelled then and gives the slot back
(`withdrawn`), and with a wait budget acquires in a task of its own that starts later than the check
for shedding (`starting`). A request cancelled while its inference runs frees the slot and leaves a
thread behind (`strays`). **BoundedSlots** is the promise: at most so many holders, first come first
served; the line is a set with the relation of who was there before whom. The refinement maps `held` to those with
a slot, `line` to the waiters not yet woken and `before` to the order of the queue.

**TokenBucket** is one key's bucket: a request reads its replica's clock (up to `SKEW` apart), and
later Redis runs the script with it. Tokens are integers of any unit. `drift` counts the seconds that
were refilled twice, because the clock went back or the hash had expired early.

**ApiKeys** makes each lookup of a key or token a step, so that a revocation, itself a read and a
transaction, falls between them. `late` marks a request that came after a revocation of its key had
returned. **FaultInjector** has the table as a count of its changes; a replica's copy is the change it
has seen and the time at which it asked. **Metering** runs a pipeline command by command, cut short
by lost connections, beside reports that read day after day. **Alerts** and **Tracing** are small:
deliveries and listings of one trimmed list; the request's outcome under an SDK whose calls may raise
(`escaped` marks an exit of its contexts that did: section 4).

**ProviderStream** cuts an answer into parts of letters, spaces and line breaks, with usage reports
and a failure anywhere, and follows the running word count that prices it. **Replica** goes through the
lifespan step by step, each of which may raise or be the last, over stores that outlive it. A start that
dies within a step may leave a collection or a key behind (`StartFails`); within the other steps, which
the next start repeats over whatever it finds, it is taken to leave nothing.
**JobLedger** has the same job service as `IngestJobs` with the inline queue instead of Celery, and
makes every Redis call of `save`, `list`, the scrape and `purge` a step, to relate what they leave.
Any number of listings, scrapes and purges are under way at once (`Readers`, `Purgers`); `reader` holds
what each has read.

**SemanticCache** gives an entry the order in which its store read the clock as its id; `voided`,
`raced` and `stranded` remember which entries a finished purge had to remove, which were stored while one
ran, and which lost their eviction to a crash. Similarity is a choice among the live entries of a
namespace. All replicas read one clock: how far theirs are apart, which would shift the recency of
entries by as much, is left out. **Documents** covers start-up (index, collection, migration to the lexical vector) and then
`ingest` and `delete` in several replicas, batch by batch, with failures and restarts between any two
calls; `torn` marks a document two writers were at, or one left half way, until a lone writer ends.

**Chunking** reads lines (headings of two levels, items, broken and whole sentences, blanks) and packs
units into chunks; a word is its number, so loss and repetition show. What is bounded is a chunk's body, as
in the code: the title and heading that `chunk` puts before it (`chunking.py:127`) are not counted. **Retrieval** ranks abstractly:
the halves of the store offer rankings, the server fuses them, the reranker gives scores or sheds.
**AgentGraph** is one run: texts are the numbers of the calls that wrote them; `_ask` may raise before
or after it was billed (`Survived`, `Raise`); `hits` remembers what the searches found until the
draft, to judge the merge.

## 3. Runs

Most runs take a few seconds to a minute, `knowledge` about two, `front_door` about three. "V" marks a run that refutes something the
repository says of itself.

| run | instance | shows |
|---|---|---|
| `cluster_flaky` | 3 tasks, two of them on one replica; threshold 2; Redis works or loses a reply after doing what it was asked; no hang-ups | `TypeOK`, `ProbeHasOwner` |
| `cluster_redis_down` | 2 replicas with a task each, every command raises, restarts and hang-ups | `WithoutRedisLocal`: the cluster implements `LocalBreakers` |
| `cluster_recovers` | Redis works but may be slower than a tick; other chains use refreshes; fair | `PooledFailuresOpen`, `EventuallyClosed` |
| `cluster_probe_leak` V | 1 replica, 2 tasks, clients leave; fair | `EventuallyClosed` fails |
| `router_serves` | 2 concurrent requests, chains of 2 and 1 deployments sharing the first, one retry, shared breakers; fair | `PassedOverForCause`, `AnswerIsLast`, `HealthyServes`, `Terminates` |
| `rollout` | a request coroutine and an operator on different replicas, 2 versions, any live canary at the start, one operation or Redis error, samples of 2; fair | `StaleAtMostRefresh`, `BadCanaryWithdrawn` |
| `chat` | 2 streamed requests and a whole one, one prompt, cache on, answers of 2 words, meter may fail; fair | `TypeOK`, `BilledOnce`, `GeneratedIsBilled`, `AnswersWhole`, `OutcomeTold`, `Ends` |
| `jobs_once` | 2 jobs, one unparsable, 2 workers, 2 attempts; no redelivery; Redis errors, expiring payloads | `LifecycleKept`: refines `JobLifecycle` |
| `jobs_crashes` | 2 jobs, 2 workers, 2 attempts, 2 crashes, expiring payloads; fair | `NothingLost`, `FailedIsBuried`, `Settles` |
| `jobs_faults` | 1 job, 2 workers, 2 attempts, 3 crashes or timeouts, Redis errors, both expiries | `AttemptsDiffer`, `CeilingNotReached` |
| `front_door` | ten components that share nothing, one moving at a time: 5 callers at a gate of 2 slots and 2 waiting, with or without budgets; 2 requests at a bucket of 3 units, rate 2, clocks one second apart, 5 hits; 1 key, 2 bearers, 2 operators; 2 calls and 2 pods of a fault table; 2 recorders over 2 days; streams of up to 3 parts; 2 starts of a replica; 2 hooks and 4 alerts in a list of 2; 2 jobs of 2 attempts with 1 dead letter kept, and two requests that purge, one of which may list or scrape instead | `FrontDoorTypes`, `NoOverspend`, `RevokedStaysOut`, `NoIdleSlot`, `FaultsFresh`, `StreamPriced`, `StartsWhole`, `LedgerKept`; `SlotsImplemented`: the gate implements `BoundedSlots` |
| `knowledge` | five components that share nothing: 2 callers, 2 namespaces of one tenant, 2 stores, cap 1; one document of 2 chunks, upserted one by one, 2 replicas, 2 ingestions; texts of 4 lines of 7 kinds, chunks of 3 words, overlap 1; 3 stored chunks, 2 scores; agent runs with 2, 8 or 12 steps, up to 3 revisions, 2 searches over 3 passages | `KnowledgeTypes`, `PurgedGone`, `CapHolds`, `DocumentRepaired`, `AnswerReviewed`, `ResearchBounded`, `BestKept`, `ChunksFaithful` |

**Bounds.** Two replicas with one task each reach every race of the protocol (claim against claim,
success against claim, late failure against refresh); two tasks on one replica share its
probe flag and are in `cluster_flaky` and `cluster_probe_leak`; the proofs of section 5 cover restarts
and errors for the same two invariants. Threshold 2 is the least for which a pooled count differs from
a local one; cooldown 2 and refresh 1 let a refresh fall inside a cooldown; a window of 2 lets keys
expire between failures. Two attempts are the least with a retry and a last attempt. `FAULTS` is the
only cap on an otherwise unbounded choice: with 3 of them one job is given to two workers while
its count passes the limit. In `rollout` a refresh window of
one tick and an operator on another replica are what a slow reply needs to outlast a write; a sample of 2
is the least that has a first failure and a deciding one; with one event a write may be lost, may leave
a stale copy elsewhere, or may come while the canary is being judged. In `chat` one stream may
break while another and a whole request look for its answer; two words separate the first chunk from
those that are estimated, and a part from the whole. Jobs meet only in the choice of workers, so two of them
suffice for `Settles`, and one for the properties about the deliveries of a job.

The parts of `front_door` and of `knowledge` share no variable in the code either, so their product
has no behaviour that one part does not have by itself; the first state picks the part that moves,
and the others stay as they began. Five callers at two slots are what it takes for a waiter to be
woken while another is being cancelled and a third is still in line. Two units of cost in a bucket of
three leave a rest that a wrong refill shows in; time runs to 4, past a full refill. Two purges at once are what it takes to report a letter twice; a
listing or a scrape changes nothing another reader sees, so one of them, beside a purge, is enough. In `knowledge` a
cap of one and two stores evict and purge; 4 lines reach a heading under a heading with text around
them, and an item longer than a chunk; two searches over three passages with `top_k` 2 are the least
in which a merge that keeps a worse score returns the wrong passage; 8 steps are fewer and 12 more than
the 10 that 3 revisions take. `MAX_TIME`, `MAX_HITS`, `MAX_STORES`, `MAX_INGESTS`, `MAX_STRAYS`, `MAX_TICKS`,
`MAX_SWITCHES`, `MAX_PARTS`, `MAX_STARTS`, `MAX_ALERTS`, `MAX_NOW` and `LAST_DAY` only end the exploration.
`front_door` uses symmetry in its jobs, `knowledge` in its callers, namespaces and replicas; neither checks
liveness, and the other runs use none.

**Deadlock** is checked everywhere except for the jobs, where all uploads may be settled, for `chat`, where all
requests may have been made, and for `front_door` and `knowledge`, whose parts end: a run of the agent, a stream, a
replica's last start.

**Fairness.** `BreakerCluster`: every task keeps going (each `await` has a timeout), requests keep
arriving, clocks move, the outage ends; nothing makes a client stay or leave. `Router`: a request
that has arrived keeps going; no new ones need come. `Rollout`: a coroutine that has started goes on, requests keep coming and time passes; each replica
draws its canary again and again, and the canary's requests, if they can fail, fail again and again
(strong fairness: the canary under suspicion really is bad). No operator need act. `ChatService`: a request that was made keeps going, since every
await has a timeout and clients read or leave; no client need leave. `IngestJobs`: workers keep consuming; no client
need upload and no fault need happen; `faults` is finite, as a worker killed for ever at the same
place is ruled out by the attempt limit and not by luck.

## 4. What the code does not do

* **A probe abandoned by its client wedges the breaker** (`cluster_probe_leak`). A stream closed by
  the client records neither outcome; the flag stays set, and with one replica nothing clears it.

Further limits met on the way, each visible in the models, and excluded by name from the
property it would break:

* Two replicas may probe at once. `sync` reads `breaker.state`, which turns an `OPEN` breaker
  whose own timer has run out into `HALF_OPEN`; such a replica never takes the branch that competes
  for the probe key, against "One replica probes; the rest wait." (`breaker_cluster.py:93`).
* A rollback may hit the wrong canary. `_maybe_roll_back` compares versions, awaits the statistics, and
  calls `roll_back`, which reads the canary again without comparing (`rollout.py:166`): a canary published
  meanwhile, on any replica, is marked rolled back for its predecessor's failures.
* A refresh during a probe that finds a re-created failure count adopts it and clears the probe flag, so a
  second request is let through (`breaker_cluster.py:96`); a claim answered late makes a breaker
  that has closed meanwhile half-open (`breaker_cluster.py:116`). Both heal: `EventuallyClosed`.
* When the shared failure count has expired, `sync` leaves the replica's own count as it was
  (`breaker_cluster.py:95`): a failure of an idle hour ago still counts locally.
* A retry calls after its backoff without asking the breaker, which another request may have opened
  (`router.py:457`); `PassedOverForCause` is stated for the decisions of the chain walk.
* `set_weight`, `roll_back` and `promote` write back, or delete for, a canary read up to a refresh
  window ago, so a publication on another replica in that time is lost; `promote` that fails between its
  two writes leaves one version stable and canary at once. A replica may also not see its own write at
  once, when a load that was waiting for Redis replaces the invalidated cache
  (`rollout.py:126`, against `rollout.py:263`); `StaleAtMostRefresh` says for how long.
* A finished job may become a failed one: the payload is deleted and `DONE` saved before the
  acknowledgement, so a worker killed in between is redelivered and the second attempt finds no payload
  (`workers/service.py:138`). Ingestion is idempotent for the document, not for the job's record.
* Every delivery saves the copy of the record it read at its start (`workers/service.py:83`): of two that overlap,
  the slower may take the status a client sees a step back. `LifecycleKept` is stated for single deliveries.
* A client that leaves right after the first chunk is not billed, since the running estimate is filled
  in by the relay's next step (`service.py:370`), nor one that leaves while the answer is stored or
  metered, since that is after the `try` (`service.py:253`): `Lost` in `ChatService` names both. A
  process that dies takes its billing tasks with it.
* A meter that fails after a good answer counts as an error of the route table for `complete`
  (`service.py:76`) and is not told to the rollout at all by `stream`; `OutcomeTold` excludes it (`raised`).
* A caller's own bad request counts against the route table that served it. A provider's 400 that no retry can
  mend raises `ClientRequestError` (`router.py:285`, `:466`), of which the breaker hears as a success, "because a
  bad request isn't an outage" (`src/README.md:291`); but the `except Exception` of `complete` and `stream`
  (`service.py:76`, `:223`) tells the rollout `ok=False` for it as for "a provider that fails everywhere", which its
  comment says is meant. Bad requests alone can so use up a canary's error budget. `OutcomeTold` states what the
  code does (`ClientError` in `ChatService`); `Rollout`, where a version in `Good` never fails, claims nothing of
  a good canary's staying.
* When the reply of the counting `INCR` is lost, the pooled count can stand at the threshold with nobody to
  publish it, until the next failure; `PooledFailuresOpen` is claimed only while Redis answers.
* A Redis error outside the ingestion itself, or a broker that refuses the message, leaves a record
  that says queued or processing with nobody to run it; `NothingLost` assumes `REDIS_ERRORS = FALSE`.
* Cancelling `asyncio.to_thread` frees the slot while the thread goes on (`concurrency.py:68`): threads may
  outnumber `max_concurrency`, `strays` of them at a time. With a wait budget callers that were not shed
  may exceed `max_queue` by those that start together, since the check precedes the wait (`concurrency.py:49`).
* The bucket takes its caller's clock, backwards too (`rate_limit.py:40`): each second two clocks are apart can
  be refilled twice; `NoOverspend` counts them (`drift`).
* An entry stored while a purge of its tenant runs may survive that purge and all later ones until it expires
  (`raced`), and a crash before the eviction leaves an unlisted entry to the index (`stranded`).
* Two writers of one document, or one that dies half way, may leave chunks without a record, a record without
  chunks, or the chunks of two ingestions (`torn`); the next lone writer repairs it.
* A streamed answer is priced by its words, by spaces: the running count may lag by a first word that came
  late and by one word per line break (`router.py:360`), until the end settles it.
* Two `DELETE /v1/admin/dead-letters` that overlap may both count the same letters before either deletes
  (`jobs.py:145`), so that together they report more than was removed; letters pushed between the two calls of
  a purge are removed unreported. `LedgerKept` says what is left: what one purge reports is removed between its
  calls, by it or by another. Only the figures in the responses are wrong.
* A metering pipeline is no transaction: a lost connection may leave a request counted and not its cost.
* An SDK that raises while a trace is closed makes a good answer an error: the exits of the tracing contexts are
  not guarded, unlike everything else in `tracing.py` (`:104`). `NeverFatal` makes this one exception.
* An inline job is a task of the replica: a shutdown does not wait for it (`container.py:83`), and its record then says
  queued or processing for a day.
* A crash after the visibility timeout has given the message back is not followed by another
  delivery; if the copy is gone by then, `NothingLost` and `FailedIsBuried` fail. They assume that
  crashes and timeouts do not both occur.

## 5. Proofs

Checked by `tlapm` with Z3, Zenon and LS4, for every value of the constants that the `ASSUME`s of
the modules allow (positive thresholds, TTLs and attempts; a home for each task; chains over the
deployments). No other assumption is made except where a theorem states it.

| theorem | says | argument |
|---|---|---|
| `BreakerClusterProofs!TypeCorrect` | `[]TypeOK` | inductive as it stands: `BreakerMethods` shows each method keeps a breaker sound, in particular that `adopt` clears the flag of a breaker that leaves half-open |
| `BreakerClusterProofs!ProbeOwned` | `[]ProbeHasOwner` if `HANGUPS = FALSE` | with `TypeOK`: the flag is raised only by `Gate`, which makes the task its owner, and an owner leaves its call only by an outcome that clears it |
| `BreakerClusterProofs!PooledFailuresAct` | `[]PooledFailuresOpen` if Redis always works and nothing restarts | inductive together with `TypeOK`: a count that reaches the threshold was returned to the task that counted, and until that task publishes, its reply is at the threshold; assumes `RedisOutcomes \subseteq {"ok"}` and `RESTARTS = FALSE` |
| `BreakerClusterProofs!RedisDownIsLocal` | `Spec => WithoutRedisLocal` if every command raises | refinement: an invariant that no task ever holds a reply, then each action is a method of `LocalBreakers` or a stutter |
| `RouterProofs!RouterTypes` | `[]TypeOK` | from `IInv` |
| `RouterProofs!HealthyAlwaysServes` | `[]HealthyServes` | `IInv` adds that a healthy deployment's breaker is as new, so it lets everybody in, and that no walk has passed one |
| `RouterProofs!ChoiceIsLockedIn` | `[]AnswerIsLast` | on top of `IInv`, `Chosen`: an answered request is relaying or done at the deployment that answered, and whatever was reported after is that it broke |
| `RouterProofs!NonePassedOver` | `[]PassedOverForCause` | `Cause`: nothing is reported of a position ahead, each one behind has its cause, and the failures at the current one are as many as `retry` has counted |
| `RolloutProofs!TypeCorrect` | `[]TypeOK` | from `IInv`, whose parts are the types of Redis, of the coroutines and of the cached pairs |
| `RolloutProofs!NeverStale` | `[]StaleAtMostRefresh` | `IInv` has `LagBounded`, the same bound for every pair, those still on their way included: a reply is as old as its question, so a slow one may come late but not unnoticed |
| `ChatServiceProofs!TypeCorrect`, `NeverBilledTwice`, `ProducedIsBilled`, `WholeAnswersOnly`, `ToldOnce` | the five invariants of `chat` | `IInv`: only whole answers are cached, and each request is `Sound`: what it was given (`Answered`), its running price (`Priced`), the ledger with the billing task (`Billed`) and what the rollout was told (`Told`) agree at every location. `Replaced` reduces a step to the request that takes it |
| `IngestJobsProofs!TypeCorrect` | `[]TypeOK` | from `IInv` |
| `IngestJobsProofs!CeilingNeverReached` | `[]CeilingNotReached` | `IInv` orders the three counts of a job's deliveries: the message's retries < the worker's attempt <= the counter in Redis, for every message that waits or is held |
| `IngestJobsProofs!AttemptsApart` | `[]AttemptsDiffer` | a new attempt is one above the counter, which bounds all that are under way |
| `IngestJobsProofs!NothingIsLost`, `FailuresBuried` | `[]NothingLost`, `[]FailedIsBuried` without Redis errors, and without crashes and timeouts together | `Alive`: a waiting message or a busy worker keeps a job in hand in every step but those that settle it (`AliveStep`); `Retry` relies on `CeilingNeverReached`, since at its ceiling Celery would drop the job |
| `IngestJobsProofs!ClientsSeeLifecycle` | `Spec => LifecycleKept` if nothing is killed, delivered late or forgotten | refinement: `DeliveredOnce` says that a job has one message or one worker and not both, and what the record reads at each location of that worker; each action then is a step of `JobLifecycle` or a stutter |
| `FrontDoorProofs!BucketTypes`, `NeverOverspent` | the bucket's type, `[]NoOverspend` | the inductive step is arithmetic: what a hit refills is at most the rate times the time passed plus the drift it adds, and a bucket that expired was due to be full |
| `FrontDoorProofs!KeysTogether`, `RevokedNeverEnters` | the keys' type, `[]RevokedStaysOut` | a late request's key has no record any more, and no step brings a dropped one back, so neither of its lookups succeeds |
| `FrontDoorProofs!FaultsStayFresh` | `[]FaultsFresh` | `FaultInv`: a copy, or an answer on its way to become one, that is behind the table fell behind no earlier than the date it bears; the date is the clock before the read, so an answer that comes back late is old already |
| `FrontDoorProofs!GateTypes`, `SlotsNeverIdle` | the gate's type, `[]NoIdleSlot` | the value of the semaphore, the callers in a slot and those already woken add up to the limit, and the count of waiters is the number of those that wait |
| `FrontDoorProofs!SlotsInOrder` | `GateSpec => SlotsImplemented` | refinement: `before` is the order of the queue, and who is woken is the first in it that still waits, so nobody in line before him is left there |
| `FrontDoorProofs!MeterTypes` | `[]MeterTypeOK` | what the fields of a day are apart covers what the pipelines under way still owe them (`Due`), and a pipeline that breaks off owes nothing; a report's totals are sums over its rows, by induction |
| `FrontDoorProofs!TracingHarmlessUntilExit` | `[]NeverFatal`: entering and recording never show, an exit that raises does | a context entered is left before the end, and each place in a request tells what of its outcome is noted already |
| `FrontDoorProofs!StreamsPriced` | `[]StreamPriced` | `Priced`: the usage is the provider's last report, or else the running count and in the end the words of the text, which no cut into parts changes |
| `FrontDoorProofs!AlertsNewest` | `[]NewestKept` | `Mirrors`: the list is the end of what was stored, backwards, and shorter than the cap only if it is all of it; what a webhook is still to store nobody else has |
| `FrontDoorProofs!BooksKept` | `[]LedgerKept` | `LedgerInv` counts two sets of jobs in: those counted as submitted and not yet as ended, and those counted as failed and not yet pushed; the order of a listing comes from the first number a job takes (`PlaceInv`); what a scrape or a listing has read stays below what it was read from, and what a purge has counted below the letters that are there or were removed since (`Reading`), which every step keeps for the readers that do not take it (`OthersRead`) |
| `FrontDoorProofs!TrafficNeedsAll` | `[]StartsWhole` | each step of the lifespan finds what the ones before it have left in this start |
| `FrontDoorProofs!SideBySide` | `[]FrontDoorTypes` | a step of the product is a step or a stutter of each part, so each part's theorem holds in it |
| `KnowledgeProofs!AgentTypes`, `NothingUnreviewed`, `RunsAreBounded` | the type, `[]AnswerReviewed`, `[]ResearchBounded` | `AgentInv`: where a run is tells how many steps and calls it has made, two of each for a round of the loop (`Pace`), and the bill covers the report but for failed calls (`Bill`) |
| `KnowledgeProofs!MergeKeepsBest` | `[]BestPassagesKept` | `MergeInv`: until the draft, the merge holds one hit of every passage found, and that one the best |
| `KnowledgeProofs!PurgedStaysGone` | `[]PurgedGone` | `CacheInv`: what can be served and was not stored during a purge is in a namespace the tenant's set lists for as long as it lives (`Known`), and what a purge is to delete and has not yet deleted is still ahead of it (`Aimed`) |
| `KnowledgeProofs!CapIsKept`, `CacheTypes` | `[]CapHolds`, the cache's type | `ListInv` on top of `CacheInv`: an entry that is served and not listed is on some caller's list of evictions, expired or stranded (`Accounted`), and a list is trimmed in the transaction that extends it |
| `KnowledgeProofs!LoneWriterRepairs`, `StoresTyped` | `[]DocumentRepaired`, the stores' type | `Clean`: an untorn document has one writer, who has left what the next of its steps needs, or none and is whole |
| `KnowledgeProofs!RetrievalTypes`, `BestReturned` | the type, `[]BestAreReturned` | `RetrievalInv`: no candidate twice, as many as the store offers up to the limit, a score for all or for none; the reranked order is a permutation, since the places `Outranks` gives are all different (`Places`) |
| `KnowledgeProofs!ChunkTypes`, `NothingLost`, `SectionsKept` | the chunker's type, `[]ChunksCover`, `[]OneSectionPerChunk` | `ChunkInv`. While the text is read, its units with the paragraph make the words read so far, and each unit is under the headings that no later one closes, which the stack holds (`SplitInv`). While units are packed, the chunks' new words with those of the chunk being built make what the units packed have to give, and the chunk being built is the last of those units, its repeated part within the overlap (`PackOK`); a window starts where the one before it stops, less the overlap (`CutsAre`) |
| `KnowledgeProofs!BestOfBoth`, `FaithfulChunks`, `TypesOfAll` | `KnowledgeSpec => []BestKept`, `[]ChunksFaithful`, `[]KnowledgeTypes` | from those above: a step of the product is a step or a stutter of each part |

The `TypeOK` of `Router`, `Rollout` and `IngestJobs` is proved and no longer repeated in their runs.

**Induction.** The library's induction theorems cannot be cited, since they take an operator. Where a proof needs
induction over the naturals, it goes through a least counterexample, which exists because the strict subsets of a
finite set are well-founded (`FS_StrictSubsetOrderingWellFounded`): `LeastNat` and `Induction` of
`FrontDoorProofs`, for the first in the gate's line and for the totals of a usage report, and of
`KnowledgeProofs`, where `OverSeqs` carries it over to sequences: a set that has the empty sequence and every
extension of its members has all sequences. With it, what the recursive functions of `Chunking` compute
(`Joined`, `Sentences`) is proved for every text.

**Model-checked only**: liveness (`EventuallyClosed`, `BadCanaryWithdrawn`, `Terminates`, `Ends`, `Settles`), which the
prover cannot do. Every other property of the runs that pass has a theorem.

## 6. Not modelled

* **Routing tables, pricing, schemas** (`routing_config.py`, `pricing.py`, `schemas.py`): validation of values that
  are constants of the models, and one multiplication.
* **Embeddings, reranker models, tokenising, PDF extraction**: pure functions of text and floats; what the models
  need of them (a ranking, a score, a parse that fails) is a choice.
* **Provider calls**: HTTP behind a library; `Router` and `ProviderStream` take their outcomes as choices.
* **Metrics and logs**: nothing reads them to decide, but for the totals of `JobLedger`.
* **`sync_breakers`** (`router.py`): a refresh without a request behind it, for the admin page.
* **Evaluation, load tests, infrastructure, scripts**: programs that measure the system or deploy it, sequential, with
  no state of the running gateway. They are a third of the repository's code and bound what a map can cover.
* **Composition of `Documents` with `IngestJobs`**: `Documents` lets any replica ingest at any time, which includes every
  schedule of deliveries that `IngestJobs` can produce, so it is the more general of the two.
