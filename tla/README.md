# TLA+ models of the document question-answering service

The program is a FastAPI application (`src/app`) with Celery workers. Users upload
documents; workers extract the text, cut it into chunks and embed the chunks in a
vector store; queries search the chunks and have a language model answer from them.
PostgreSQL keeps the records, MinIO the files, Qdrant the vectors, Redis the Celery
queue, caches and counters, Kafka the events. No transaction spans two of them, several
API replicas and workers run at once, and that is what these models are about.

File names below are relative to `src/`.

## The system

| part | state it keeps | operations | interacts with |
|---|---|---|---|
| Document handlers, `app/routes/documents.py` | `documents`, `chunks`, `shorturls` rows | upload, create (deprecated), delete, share, redirect, status, metadata | MinIO, Qdrant, PostgreSQL; queues `process_document`; publishes events |
| Processing tasks, `app/tasks/` | status, content and chunks of a document | `process_document` → `chunk_document` → `embed_chunks`, `on_failure` | the same, and each other through the broker |
| Snowflake ids, `app/utility/snowflake.py` | `sequence`, `last_timestamp`, a lock, per process | `generate` | every INSERT, every event |
| Short URLs, `app/routes/documents.py` 350-477 | `shorturls` rows with a click counter | share, redirect, stats | document deletes (foreign key) |
| Idempotency, `app/middleware/idempotency.py` | saved responses in Redis | wrap a POST with a key | every POST handler |
| Rate limiting, `app/middleware/rate_limit.py` | a token bucket per user in Redis | take a token | every handler |
| RAG and cache, `app/services/ai/rag.py`, `app/services/optimization/redis_service.py`, `app/routes/query.py`, `app/routes/metrics.py` | answers in Redis, `queries` rows | ask, stream, search, invalidate, clear | vector store, language models |
| Language models, `app/services/ai/llm.py` | none | generate, stream, with fallback | RAG |
| Service container, `app/core/services.py`, `app/dependencies.py` | the services a process has initialised | `init`, `shutdown` | handlers and tasks |
| Events, `app/services/events/`, `scripts/event_consumer.py` | a lazily started producer; a consumer's handlers and offsets | publish; consume | Kafka |
| Hybrid search, `app/services/ai/hybrid_search.py` | none | fuse two rankings | RAG |
| Chunker, `app/services/ai/chunking.py` | none | cut a text | `chunk_document` |
| Authentication, `app/core/security.py`, `app/routes/auth.py` | revoked tokens in Redis | login, refresh, logout | every handler |
| Query classifier, metrics, embeddings, extraction, validation, configuration | counters in Redis, a loaded model | | |

What makes it hard:

- **Several stores, no transaction.** An upload writes an object, a row and a message;
  a delete removes vectors, an object and a row. Any step may fail or be the last one of
  its process, and most failures are only logged.
- **A chain of tasks beside the handlers.** A DELETE, or a share request, may fall
  between any two steps of a task, and the task acts on what it loaded before.
- **A failure handler that may fail.** Celery calls `on_failure` in the worker; a worker
  that is killed calls nothing, and the message was acknowledged when it was taken.
- **Services that may be half there.** A worker process that could not reach the vector
  store goes on without it; what it has depends on what its earlier tasks found.
- **Check and act in separate statements.** Share, redirect, idempotency and rate
  limiting read, decide and write without a lock or a constraint.
- **Copies that outlive what they were made from.** Answers stay cached for an hour,
  whatever happens to the documents; a token is valid until it expires unless a list
  in Redis says otherwise; a committed offset says that an event was read, not handled.
- **Clocks** that differ between servers, and whole seconds.
- **Ids from a clock**, by threads that share a generator and processes that share a
  worker number.

What makes each part correct: the stores, the status and the events of a document tell
the same story once its task is over, and one task at a time works on it; a delete of a
document at rest leaves nothing; every task and upload ends with an outcome; ids of a
process only grow; a short URL that was handed out leads where it should; a request is
handled once; a cached answer fits its question and is gone after an invalidation, or an
hour; a token that was revoked is refused and none is refused early; a user gets the quota
of the tier and not much more; a service that could not be reached is tried again; an event
in the log reaches a handler; chunks cover the text, and a chunk that two searches
found comes first.

## Modules

| module | models | used by |
|---|---|---|
| `DocumentPipeline` | upload, create, share and delete handlers with the three tasks | `MCDocumentPipeline`, `DocumentPipelineProofs` |
| `DocumentLifecycle` | what a client of the status endpoint may rely on (abstract) | instantiated by `DocumentPipeline` |
| `Snowflake` | `SnowflakeID.generate` | `MCSnowflake`, `SnowflakeProofs` |
| `IdAllocator` | growing ids (abstract) | instantiated by `Snowflake` |
| `ShortUrl` | share and redirect, with deletes | `MCShortUrl`, `ShortUrlProofs` |
| `RequestMiddleware` | the idempotency middleware behind the rate limiter | `MCRequestMiddleware`, `MiddlewareProofs` |
| `AnswerStream` | a streamed answer, from retrieval to the history | `MCAnswerStream`, `AnswerStreamProofs` |
| `QueryCache` | answers that do not stream, the response cache and its invalidation | `MCQueryCache`, `RagProofs` |
| `TokenSession` | tokens from login to logout, on servers with different clocks | `MCTokenSession`, `TokenSessionProofs` |
| `TokenBucket` | the rate limiter's bucket of a user | `MCTokenBucket`, `MiddlewareProofs` |
| `ServiceContainer` | `Services.init` by many coroutines, the producer's connection | extended by `EventDelivery` |
| `EventDelivery` | an event from the handler that publishes it to the consumer's | `MCEventDelivery`, `EventDeliveryProofs` |
| `TextChunker` | `DocumentChunker.chunk` | extended by `HybridSearch` |
| `HybridSearch` | the two searches over the chunks, and their fusion | `MCHybridSearch`, `RagProofs` |

The `MC*` modules give sets, tags and symmetry for TLC; the `*Proofs` modules hold the
theorems: `MiddlewareProofs` of what a request passes on its way in, `RagProofs` of how
a question is answered. Definitions that begin with "Mutant:" in their comment are not part of any
specification: each is a plausible bug, in the place of the action that follows it,
that one of the properties is there to catch.

### DocumentPipeline

State: `row` is `documents.status` ("absent" without a row), `text` the content as the
number of chunks it will make, `chunks` the rows of `chunks`, `shared` the documents with
a short URL; `file` and `vectors` are MinIO and Qdrant; `queue` the broker; `events` what
was published; `up`, `del` and `wk` say where each upload, delete and worker is, a
worker's record holding the local variables that outlive an `await` (`n` chunks, `i`
embedded so far, the status `seen` when the row was loaded, whether a failed commit
`expired` the object); `svc` the fields of `Services` that are set in a worker process;
`lost` a history of documents whose task ended with nothing recorded.

One action is the code up to the next effect another process can see:

| actions | code |
|---|---|
| `UploadStore`, `UploadCommit`, `UploadEnqueue`, `UploadFinish`, `UploadFails` | `upload_document` |
| `CreateDocument`, `Share` | `create_document`, `create_short_url` |
| `DeleteBegin` … `DeletePublish`, `DeleteFails` | `verify_document_ownership`, `delete_document` |
| `Take` | a worker takes a message and acknowledges it |
| `ProcessFetch`, `ProcessDownload`, `ProcessSave`, `ProcessMark`, `ProcessChain` | `_async_process` |
| `ChunkFetch`, `ChunkBuild`, `ChunkInsert`, `ChunkFinish` | `_async_chunking`, `ChunkRepository.create_chunks` |
| `EmbedInit`, `EmbedFetch`, `EmbedAdd`, `EmbedFinish` | `_async_embedding`, `Services.init` |
| `OnFailure`, `WorkerCrash` | `ProcessingTask.on_failure`; a killed process |

`Faults` says which kinds of failure may happen, so that a run can ask what holds with
none of them. Details that decide behaviour and are easy to miss:

- SQLAlchemy sends an UPDATE only for a value that changed: marking a document completed
  that was loaded as completed touches nothing, and does not notice that the row is gone
  (`MarkCompleted`).
- A failed commit expires the loaded object, so that the except branch of
  `process_document` raises again before it publishes its event (`ProcessMark`); in
  `chunk_document` the object stays readable.
- `session.delete` loads the chunks it cascades to before the DELETE statements are sent;
  chunks committed in between, and any short URL, make the database refuse
  (`DeleteLoad`, `DeleteCommit`).
- `services.init()` sets `events` first, then storage, embeddings, vector store, each of
  which may fail, and stays set for the life of the process (`InitServices`).

Assumptions: Celery runs with early acknowledgement, its default, so that a message is
taken once and never redelivered; a publish is part of the step before it, since it cannot raise and
no one waits for it; a task ends when it queues the next one, since what is left of it
only logs; a document is created by one request.

### DocumentLifecycle

`absent → pending → completed | failed → deleted`, where a status other than "deleted"
changes only while something works on the document, and "failed" never becomes
"completed". `DocumentPipeline` implements it with `status` mapped to the row (a row that
is gone shows as deleted) and `working` to "a task is queued or running".

### Snowflake and IdAllocator

One action per step of `generate()` that another thread, or the clock, could fall
between: taking the lock, reading the clock, comparing, waiting, building the id. Each process
has its own clock, lock and generator; a restarted process is a new one (`Processes` is
any set), since it remembers nothing. `Tag` is datacenter and worker number together. The
bits do not overlap, so the id is a sum. `IdAllocator` only says that the ids of a process
grow; `Snowflake` implements it.

### ShortUrl

Codes are what the id generator and base62 return, and two processes may return the same
one. A request is split at each query and commit. `clicks` is
written as the loaded value plus one, because that is what `clicks += 1` on a loaded
object does. A DELETE is its commit only: the rest is in `DocumentPipeline`.

### RequestMiddleware

POSTs with an `Idempotency-Key`, in any number of API processes. `main.py` puts the rate
limiter outside, logging (which raises again what it sees) in between,
`IdempotencyMiddleware` inside; the first and the last answer any exception by
calling what is behind them again. `at` says before which Redis command or call a request
is, `left` how often the limiter would still start over (0 for a request without a valid
token, or when the limiter itself failed), `runs` how often the handler ran for it,
`saved` and `ttl` the keys in Redis with the request whose answer they hold, `answer` whose
answer a client got. `trouble`, `promised` and `retry` are histories that properties use.

| actions | code |
|---|---|
| `Arrive` | `rate_limit_middleware`, up to its `call_next` |
| `Bypass`, `Lookup`, `LookupFails` | `dispatch` up to the handler: no Redis, `hgetall`, its failure |
| `Succeed`, `Decline`, `Raise` | the handler, in the first call or in an except branch |
| `Save`, `Expire` | `hset` and `expire`, either of which may fail after it was carried out |
| `BodyIsGone` | a handler with a body that is called again finds the body consumed |
| `Die`, `Elapse` | a process dies; Redis drops a key |

A run in the except branch is not saved, though it may succeed. The key is bound to
neither user nor path; `Keys` and `Bodies` are whatever clients send. Which requests the
token bucket lets pass does not matter here.
One assumption: no request takes a day (`ttl_seconds`), so that a key does not expire
under a request that looked before it was there.

### AnswerStream

One stream; streams share nothing. `at` is where the chain of generators stands, `sent` the events the client has
received, `answer` the endpoint's `full_answer` as the provider of each token, `whole` the
providers that got to their end, `saved` whether the row of `queries` is committed.
`fallback` is chosen at the start: whether one is enabled and could be created.

| actions | code |
|---|---|
| `Retrieve`, `RetrieveNothing`, `CiteNothing`, `RetrieveFails` | `RAGService.ask_stream`, `_retrieve_chunks` |
| `Token`, `Usage`, `ReportError` | the providers' `generate_stream`, through to the endpoint |
| `Raise`, `PrimaryEnds`, `FallbackEnds` | `LLMService.generate_stream` |
| `Save`, `Finish`, `Fail` | the rest of `event_generator` and its except branch |
| `Disconnect` | the client leaves and the task is cancelled |

Two kinds of failure of a provider differ: for the errors it knows, it yields an error event
first, the endpoint returns at that event and the fallback is never tried
(`ReportError`); for any other exception the fallback goes on behind the tokens already
sent (`Raise`).

### QueryCache

State: `existing` and `index` are the documents with a row and with vectors, `cache` the
`rag_response:*` keys, `request` the ask of each client with the documents its citations
name, `sweep` the endpoint that removes keys. `began` and `swept` number the sweeps, so
that a response can be compared with them.

| actions | code |
|---|---|
| `Ask`, `Lookup`, `Search`, `Generate`, `Store`, `AskFails` | `RAGService.ask`, `_retrieve_chunks`, `LLMService.generate`, `get_` and `set_rag_response` |
| `Save` | the row and the event of `query_documents` and `query_document` |
| `SweepBegin`, `SweepKey`, `SweepFails`, `SweepEnd` | `DELETE /cache/documents/{id}`, `POST /cache/clear` |
| `AddVector`, `DeleteVectors`, `DeleteRow`, `Expire` | embedding, the DELETE of a document, the hour of a key |

An invalidation removes every response, whichever document it names, since keys are
hashes. `SCAN` returns what is there from its start to its end and may return what comes
later. The embedding cache is left out: an embedding depends on nothing but the query.

### TokenSession

State: `issued` the tokens with the whole second they expire at, `blacklist` when the
key of each expires in Redis (0 if there is none), `offset` how far the clock of each server
is off, `call` what each request presents and how far it is; `revoked` and `late` are
histories. Time is in ticks, several to a second, because a logout reads the clock once, cuts
to whole seconds and writes later.

| actions | code |
|---|---|
| `Login`, `Refresh` | `login_for_access_token`, `refresh_access_token` with `TokenManager` |
| `Present`, `AskBlacklist`, `Refuse`, `Accept` | `get_current_user`, `get_current_active_user`, `is_token_blacklisted`, `decode_token` |
| `LogoutBegin`, `LogoutAccess`, `LogoutCookie` | `logout`, `blacklist_token` |

`LeewayAssumption` states how far the clocks may be off for the ten seconds of
`decode_token` to be enough: four seconds either way.

### TokenBucket

State: `bucket` is the `rate_limit:*` hash of one user and its expiry, `call` the requests,
each with the time it has read and the level it is about to write. Levels are counted in
parts of a token, so that refilling is exact. `lost` counts the admissions that an
overlapping write did not know of, `given` the parts that a failure, or a key that expired
early, gave away.

| actions | code |
|---|---|
| `ReadClock` | `now = time.time()` (`rate_limit.py:40`), before anything is awaited |
| `LetIn` | the limiter without Redis |
| `Read`, `Deny`, `ReadNothing`, `ReadFails` | `get_rate_limit_state`, and what `consume` makes of it |
| `Write`, `ExpireBucket`, `WriteFails` | the two commands of `set_rate_limit_state` |
| `DieHalfway`, `Tick` | a process dies; time passes, and keys expire with it |

The clock is older than the bucket: others may have written a later `last_refill` in between.
What is "refilled" (`Refilled`) is then negative, tokens are taken away, and the write sets the
time back. Time also passes between hset and expire, so that the key may be gone when
`expire` comes. Assumptions: one clock for all replicas (`time.time()` is their
own in the code); the tier of a user does not change.

### ServiceContainer and EventDelivery

`container` has the fields of `Services`: "none", "starting" (assigned, its start
awaited) or "set". `init` runs from one await to the next in one step (`Proceed`), for the
lifespan of the application first and later for any request whose dependency finds a service
missing (`InitAgain`), so that several coroutines can be inside it. Metrics and classifier
are set without an await and are left out. `made` is what exists outside of the process (the bucket,
the collection); a failed start of the embedding drops its object, so `attempts` numbers these
objects, and `models` are those with a model loaded. `call` holds, for each request, the services it
has yet to obtain and has obtained, the object of the embedding among them, and the failures `before` it came. A service
that is "starting" is handed out like any other, and a handler that uses it fails. `producer`, `initialized` and `lock` are those of
`EventProducer`, connected by the lifespan or by the first publish. A worker process runs one task at a
time and calls no `init` concurrently; that one is in `DocumentPipeline`.

| actions | code |
|---|---|
| `Start`, `InitAgain`, `Started`, `StartFails` | `lifespan`, `Services.init` with its except branches, `RedisService.initialize` |
| `FindCollection`, `CreateCollection`, `CreateConflicts`, `ReplicaCreates` | `_ensure_collection_exists`, also in another replica |
| `Arrive`, `Obtain` | the dependencies of an endpoint, in order |
| `LoadModel`, `LoadFails` | a question loads the model itself when it finds none (`rag.py:87`) |
| `UseFails`, `Serve` | a handler uses what it has obtained: "Model not loaded" (`embeddings.py:40`, `:61`), a bucket or collection that does not exist; a search is answered |
| `Publish`, `FindConnected`, `Connect`, `Connected`, `ConnectFails` | `EventProducer.publish`, `initialize` |

`EventDelivery` goes on where a request sends its event. `log` holds the partitions,
each message with the events that had been acknowledged before; `position` and `committed`
are the consumer's offsets, `handled`, `failed` and `cut` say what became of each event.

| actions | code |
|---|---|
| `AppendEvent`, `AppendAgain`, `Acknowledge`, `SendFails` | `send_and_wait` and what aiokafka does inside |
| `StartConsumer`, `Take`, `Handle`, `HandlerFails` | `EventConsumer.start`, `consume`, `_route_event`, the handlers of `scripts/event_consumer.py` |
| `Commit`, `CrashConsumer`, `StopConsumer` | the timer of `enable_auto_commit`, death, Ctrl-C and `stop()` |

Assumptions: one consumer (the script starts one) and no rebalancing; a send that was given
up is not appended later; an upload and a question publish one event each, a search none; a question that is
answered from the cache publishes too, whether or not there is a collection.

### TextChunker and HybridSearch

`TextChunker` is the loop of `chunk()`, a chunk being the interval of tokens it holds, for every
length, chunk size and overlap of small sets, an overlap that is too large included.
`HybridSearch` searches those chunks: both searches answer with any list, in either
order (`asyncio.gather`), or raise; `Fuse` is `reciprocal_rank_fusion`: `Merged` the keys
of `rrf_scores`, `Entered` the order in which they enter it, `Sorted` the stable sort. A score is a
fraction, and fractions are compared by multiplying across, so that ties are ties; in the code the
sum of two floats does not depend on their order either. `Legacy` stands for points
without a chunk id, which `add_documents` writes.

## Runs

| run | what it checks | result |
|---|---|---|
| `pipeline_faults` | `TypeOK`, `OneTaskPerDocument`, `SettledIsIndexed`, `CompletedEventIsTrue`, `OutcomeEventsAgree`, `RowHasFile`, `ImplementsLifecycle`, with every failure possible at every step | holds |
| `pipeline_deletes` | `QuietDeleteIsClean`, `EveryTaskSettles`, `EveryUploadSettles`, with two DELETEs | holds |
| `pipeline_orphans` | a finished DELETE leaves no vectors once no task is left | violated |
| `snowflake_threads` | `TypeOK`, `ImplementsAllocator`, `LockIsReleased` | holds |
| `short_url_races` | `CodesLead`, `ReusedAnswersAgree`, `ClicksTookPlace` | holds |
| `middleware_faults` | `TypeOK`, `AnswersAreGenuine`, `RetriesDoNotRun`, `RunsAreExplained`, `SavedAnswersExpire` | holds |
| `stream_faults` | `SavedIsWhole`, `OneOutcome`, `StreamEnds` | holds |
| `query_cache` | `CachedAnswersFit`, `SweptIsGone`, `DeletedIsForgotten` | holds |
| `token_session` | `RevokedIsRefused`, `LeewayCoversSkew` | holds |
| `token_bucket` | `AdmittedIsBounded`, `DeniedHadQuota` | holds |
| `event_delivery` | `StartsAreUnderWay`, `FailuresAreExplained`, `CommittedIsAccounted`, `RepeatsAreExplained`, `OneKeyIsInOrder`, `LoggedIsConsumed` | holds |
| `hybrid_search` | `PassagesAreWhole`, `ChunksAdvance`, `BothBeatOne` | holds |

The type invariants of the other modules hold on the same instances; they are
what proofs begin with, and no run
lists them.

What the newer properties do not say matters as much. `SweptIsGone` is about responses
stored before the invalidation began: one that was being computed is cached after it.
`DeletedIsForgotten` needs the hour of a key; until then a deleted document is cited.
`RevokedIsRefused` leaves the last second of a token and the leeway after it, where no
blacklist entry is left and other servers may still accept it. `AdmittedIsBounded` counts what
overlapping writes lose: k requests that read the same bucket pay for one.
`DeniedHadQuota` counts whoever was let in or cut off after paying, in the period before the time
that the denied request had read. If others with later times were faster, it falls short of what is refilled
between its time and theirs, and of nothing else; no failure excuses a denial.
`RunsAreExplained` allows four runs, though a body that was consumed stops some of them.
`ReusedAnswersAgree`, `ClicksTookPlace` and `SavedAnswersExpire` say what is left where the code does create
two short URLs, loses clicks, and leaves a key without expiry after a cut between two commands.
`StartsAreUnderWay` excepts the vector store that `services.py:135` leaves assigned, which takes a failed embedding and a
failed start of the store, and `FailuresAreExplained` allows a request to fail at any
service that it needs and that is assigned but not started at that moment: being handed out half started is
what the code does, and an abandoned vector store excuses every later failure. What it says is that nothing that failed
before and was dropped is why a request fails.
A `stop()` whose last commit fails counts as a crash in `RepeatsAreExplained`.
`LoggedIsConsumed` speaks of a consumer that runs; events wait in the log while none does. `RepeatsAreExplained` and `CommittedIsAccounted` together are "at least once, except for
the event in hand when the consumer ends". `BothBeatOne` stops at rank k + 2, which
with k = 60 and four times the limit fetched covers limits up to 15; up to 50 are allowed. At
k + 2 in both lists a chunk ties with the first of one list and is cut off behind it when that one
came earlier: with k = 1, `<<1, Legacy, 2>>` and `<<3, 4, 2>>` and a limit of 1 return chunk 1.
The property once included that rank and held in a run with three chunks; its proof failed, and
the run now has the fourth chunk for which the tie exists.

`SavedIsWhole` holds for a reason worth knowing: the answer that would break it, tokens
of the primary followed by those of the fallback, is kept out of the history only
because `FallbackEnds` reports an error. Repairing the one without clearing `full_answer`
breaks the other; that is the mutant of this property.

**Bounds, and why they are enough.** The pipeline runs have one document: no action of a
document reads or writes another's state, apart from `svc`, which a task of the same
document can also leave in any state it can be in. Two workers let a task start while the
previous one's process still runs, or dies. Two chunks (`MaxChunks`) are the least
for which embedding can stop in the middle; 0 and 1 occur too. One DELETE in
`pipeline_faults` meets every step of the tasks, two in `pipeline_deletes` meet each
other; there one worker and one chunk suffice, since only one task exists at a time, which the
first run checks. That run leaves out dropped events, which no store depends on. Snowflake:
two threads are one to hold the lock and one to wait; `MaxSequence = 1` makes every third
id of a millisecond wait; four times and one correction reach every order of
last_timestamp, the time read and the time now. ShortUrl: four shares (two that
collide, two later ones), two codes, two documents, two redirects of the same value.
RequestMiddleware: keys do not meet, so one is enough; three requests are one whose answer
is promised, one that overwrites it or has another body, and one that retries. AnswerStream:
three tokens from each provider (`MaxTokens`) leave room before, between and after a
failure; 504 states are all there are.
QueryCache: two clients, one to overtake the other; two documents and requests for one of
them or for all; one question, since keys do not meet; one sweep (`MaxSweeps`), since what it
promises is compared with the state before it only. TokenSession: two servers, two
requests, three tokens (a login and a refresh), two ticks to the second, a skew of one tick and the least
leeway that covers it; 9 ticks let every token and entry expire. TokenBucket: two tokens, a
period of three ticks that does not divide evenly, three requests (one to overtake, one to be
overtaken, one that pays for it) and five ticks (`MaxTime`), so
that a bucket refills and its key expires in between. EventDelivery: an upload, a
question and a search meet every service in either order, and each way to use one. Set-up is explored with all of
them and three failures (`MaxTroubles`): two abandon the vector store, the third is one that follows.
Once an event was sent or a consumer started, the search has not begun and two failures
(`EventTroubles`) are left to all parts (`Bounded`): a search publishes nothing, and set-up reads nothing of
the log. Two partitions; that of the search is fixed. HybridSearch: texts up to 7 tokens, chunks up to 3 and
overlaps up to 3; up to four chunks are searched (`MaxChunks`), k = 1, and limits of 1 and 2,
for which fetching 4 and 8 results cuts nothing off in hybrid mode and the other modes do cut.

**Symmetry** is used in runs without temporal liveness only, on sets whose
members no definition tells apart.

**Deadlock** is off everywhere: requests and tasks are finite in number and the system
may stop when they are done.

**Fairness.** `pipeline_deletes`: weak fairness of each worker's steps (a worker is a
process that the operating system schedules, a task has a hard time limit, and the pool replaces what
died) and of an upload that has begun (the handler goes on or fails).
Nothing is assumed of clients, deletes, or of the death of workers.
`snowflake_threads`: time passes, and the thread inside `generate()` is scheduled.
`stream_faults`: the generators go on while the client listens (requests to providers have
a timeout, an answer a largest length); nothing is assumed of failures or of the client.
`query_cache`: a request that was taken goes on or fails, and Redis lets keys expire; nobody
has to ask, sweep or delete. `event_delivery`: the loop of a consumer that runs goes on
(`LoopStep`). Nothing is assumed of its start, since the script is run by hand and no service or restart
policy brings it back, nor of producers, of commits or of failures.

## Proofs

| theorem | says |
|---|---|
| `DocumentPipelineProofs!TypeCorrect` | `Spec => []TypeOK` |
| `DocumentPipelineProofs!OneTask` | `Spec => []OneTaskPerDocument` |
| `DocumentPipelineProofs!FileBeforeRow`, `CompletedIsIndexed`, `AnnouncedIsTrue`, `OneOutcome`, `QuietDelete` | `RowHasFile`, `SettledIsIndexed`, `CompletedEventIsTrue`, `OutcomeEventsAgree`, `QuietDeleteIsClean` |
| `DocumentPipelineProofs!LifecycleImplemented` | `Spec => ImplementsLifecycle` |
| `SnowflakeProofs!TypeCorrect` | `Spec => []TypeOK` |
| `SnowflakeProofs!Implements` | `Spec => ImplementsAllocator` |
| `ShortUrlProofs!CodesLeadOn`, `ReusedAgree`, `ClicksAreReal` | the three invariants of `short_url_races` |
| `MiddlewareProofs!TypeCorrect`, `AnswersGenuine`, `RetriesAreSafe`, `RunsExplained`, `AnswersExpire` | the five invariants of `middleware_faults` |
| `MiddlewareProofs!QuotaHolds`, `DenialsAreEarned` | `BucketSpec => []AdmittedIsBounded`, and the action property `DeniedHadQuota` |
| `AnswerStreamProofs!TypeCorrect`, `HistoryIsWhole`, `OutcomeIsHeardOnce` | `TypeOK` and the two invariants of `stream_faults` |
| `EventDeliveryProofs!NoStartIsAbandoned`, `FailuresHaveACause` | `StartsAreUnderWay`, and the action property `FailuresAreExplained`, of `ServiceContainer` |
| `EventDeliveryProofs!EventTypes`, `NothingIsSkipped`, `RepeatsAreBounded`, `PartitionsKeepOrder` | `TypeOK`, `CommittedIsAccounted`, `RepeatsAreExplained`, `OneKeyIsInOrder` of `EventDelivery` |
| `RagProofs!ChunksGoForward`, `NoPassageIsTorn`, `BothComeFirst` | the three invariants of `hybrid_search` |
| `RagProofs!CacheTyped`, `ReusedAnswersFit`, `SweepsAreThorough` | `TypeOK` and the two invariants of `query_cache` |
| `TokenSessionProofs!SessionTyped`, `RevokedIsOut`, `NobodyIsOutEarly` | `TypeOK` and the two invariants of `token_session` |

They hold for any number of documents, workers, requests, threads, processes, chunks,
partitions and servers, and any set of faults, from the ASSUMEs of the modules: the "no ..." values are not
members of the sets they stand beside, bounds are naturals, each thread has a process,
tags are in range, `Visits` is finite (a click count is compared with a cardinality), there is
a question to ask (`QuestionsAssumption`), and the leeway covers two clocks that are off and a
second (`LeewayAssumption`). Every invariant of a passing run has its theorem.

*DocumentPipeline.* `OneTaskPerDocument` is not inductive: a step that queues a task
must know that nothing is queued already. `IInv` adds `Holding` (a worker has a document
exactly when it is not idle), `NotYetQueued` (a document whose upload has not queued its
task has none, queued or running) and `InLoop` (a worker that embeds is inside the chunks it
loaded, which type correctness needs). The lemma `Moves` covers the many actions that
change one worker's position only.

`FullInv` adds, for each document, what is stored given where its request and its task
stand (`DocumentInv`). `StatusFollows`: the row is pending until the text is saved and completed from
then on, or gone. `IndexFollows`: as long as nobody asks for a delete, each task finds what the one
before it left (no vectors, then as many chunks as the text makes, then the vectors up to
the loop's position), and after the last one everything is there. `CompletedFollows` and `FailedFollows`: an
outcome is announced by the last step of a task, so that nothing can follow it. `FileFollows`: objects
go only on behalf of a DELETE. None of the five properties is inductive without these, since a
step of a task knows what the task before it did only from the state it left. `QuietFollows` says what a
DELETE of a document at rest has removed so far; `RestStays` that nothing comes back.
The proof is by frames: a step concerns one document (`UploadFrame`, `DeleteFrame`,
`WorkerOwn`), and all others are left alone.

*DocumentLifecycle.* `LifecycleStep` lists what a step may do to the status a client sees and to
whether a task is under way; every action does one of these (from `StatusFollows`), and
each is a step of the abstract specification or a stutter.

*Snowflake.* Ids grow because of what the lock holder knows: past the comparison its
timestamp is not before `last_timestamp`, and if equal the sequence is one more than that of the last
id. The inductive invariant states that for each step, with mutual exclusion, and that
every id issued is below the next one that could be built. That ids with larger fields
are larger is a lemma on integers (`FieldsApart` and those that use it).

*ShortUrl.* Each of the three is strengthened with what the request's step knows:
a code that was found or inserted is still that document's; if two codes of a document
exist, no later request reuses one; a click is written from a value that was the count when an
earlier set of redirects had taken place.

*RequestMiddleware.* `Counted` bounds the runs at each step by whether the rate limiter
would still start over (at most two per call of the rest) and says which kind of failure
explains them; `Produced` that a request that arrived has a key and that whoever's answer
is saved did run; `Kept` that every promise is backed by a saved answer of its key,
although others may replace it, and that a request relying on one is at its look-up.

*TokenBucket.* `AdmittedIsBounded` speaks of what was let in, but the next request acts on
what is left: `Balance` bounds the two together by the time of the last refill, `Paid` says the same of a request about
to write, by the time that it has read, since its write puts the bucket back there; what was admitted
in between is then counted as lost. `Timely`: a key that expires takes nothing with it that was not
refilled by then, unless a write is about to set its expiry, which is when its end is a gift. For denials,
`Spared` says that the bucket, refilled up to any time m that no admitted request has read
beyond (`Latest`), lacks at most what was let in during the Period before a time up to m; `Spares` says so of what
a request is about to write. With its own time, and the latest one, these are what a denied request knows. Products of
variables go by names (`Parts`, `Refill`), with lemmas about how they add up.

*AnswerStream.* `Gathered` says whose tokens the answer can hold at each point and that
after the providers it holds those of one that ended; `OneOutcome` is inductive together
with the type invariant.

*ServiceContainer.* Between two awaits `init` does several things, and where it goes on depends on
what others have set; `InitTurnIs` says what one turn can end with. `UnderWay`: a service is
"starting" exactly while one coroutine is behind its start, or is the abandoned vector store; `LockInv` says so of the
producer. `StartInv`: what is set has been made or loaded, and a store that starts without an
embedding needed a failed attempt. `Hopeful`: while nothing has failed since a request came, what it has
obtained is still there, the embedding is the present object, and its `init` has passed what it needs.

*EventDelivery.* `LogInv` keeps the copies of an event together: the same message, in the partition of its
key, behind those it follows. `ReadInv` says of the consumer's position what
`CommittedIsAccounted` says of the committed one. `CountInv`: since the last crash each
copy was handled once at most, so that counts are compared with the cardinality of a set that grows
by what was read.

*TextChunker.* `WholeSoFar`: while the loop runs, every token before the next start has its
passage; `LastLeadsOn`: the last chunk is as long as a chunk can be, and the next begins a
stride behind it. `Strides` is the reason: a stride less one, and a passage, fit in a chunk.

*HybridSearch.* `SearchIInv` says that what is returned is the top of `Sorted`. That `Sorted` holds every
merged chunk once, in order, is proved from a count: `Before` is a strict total order, so that
chunks have different numbers of others before them (`PlacesFollow`, `PlacesDiffer`), and an injection into as many
numbers as there are chunks reaches all of them (`PlacesAreTaken`). `TwoBeatOne` is the
arithmetic of the property, `FractionsLead` that of the order.

*QueryCache.* `Numbered` ties the numbers of sweeps to the past, `SweepIsThorough` says of a sweep under way
what `SweptIsGone` says of one that ended: what it has not still to remove was stored
after it began. `FindingsFit` carries what a search found to the moment it is stored.

*TokenSession.* `WholeLives` says how much of its life a token may lose to the clock that
issued it, `Held` that the blacklist keeps a revoked token up to its last second, given (`Presented`)
that the clock a logout read was ahead by no more than the skew. The bound of
`LeewayAssumption` is the least one: with one tick less a token can end early.

Only model-checked: liveness (`EveryTaskSettles`, `EveryUploadSettles`, `LockIsReleased`, `StreamEnds`,
`DeletedIsForgotten`, `LoggedIsConsumed`), which the prover does not support under fairness, and the
run that shows a violation. Of the types, those of `ServiceContainer` and `TokenBucket`
are proved as parts of the invariants (`ContainerType`, `BucketType`); that of `HybridSearch` is
proved as far as the fusion needs it.

## Where the code and its documentation part

`pipeline_orphans` shows that a DELETE while the document is embedded leaves vectors for
ever, where `documents.py:243` cleans up the vector store.

Seen while reading, without a run. Documents and ids:

- `completed` is set by the first task, before anything is chunked or indexed, while
  `documents.py:441` calls it "Ready for queries and summarization".
- A DELETE of a document with a short URL fails after it has removed the vectors and the
  file: the foreign key has neither a cascade nor may it be NULL.
- All processes use datacenter 1 and worker 1, so that ids repeat across them.
- Two overlapping share requests create two short URLs, and every later one fails.
- A fallback that has streamed its whole answer is followed by "LLM generation failed".
- `snowflake.py:50` says "Clock moved backwards - wait" and the code raises.
- `documents.py:439-440` lists "processing", which no code sets, and a document whose
  worker was killed stays as it was; `events.py:154` lists the failed stage "embedding",
  which is never published.

Requests and queries:

- `rate_limit.py` says 10 requests a minute where `constants.py:31` says 20.
- The limiter's clock is read before the bucket, so that a request may find a bucket that is newer than its time; the refill is
  negative and the request is denied, or writes the earlier time back.
- Two requests with the same key that arrive together both run, where `README.md:138`
  promises that duplicates are prevented.
- `query.py:471` announces citations before the first token, which is not so when nothing was found.
- `llm.py:84` does not await the asynchronous client, so that answers that are not
  streamed always come from the fallback.
- No handler invalidates the cache, and `DELETE /cache/documents/{id}` needs the document to
  exist: the answers about a deleted one can only be removed by an administrator.
- `query_document` saves the `document_id` of the body, not the one of its path
  (`query.py:265`), so that running such a query again searches every document.
- `main.py` refuses to start when the embedding works and the index does not
  (`services.py:143`), as for the slower of two replicas on an empty index, although init
  is meant to go on without what failed.
- "Initialize services with proper error handling" (`services.py:43`): the except branch of the vector store asks the embedding for its
  dimension (`:135`), raises when another coroutine has dropped it (`:113`), and leaves the store assigned for
  the life of the process, where no later `init` tries it again.
- A request that finds a service assigned uses it, though it may still be starting: a search fails with "Model
  not loaded" while the model loads for another.

Events:

- `services.redis` that could not be reached stays set and is never tried again, unlike the others.
- The first `document.processing_started` of a worker process is never published:
  `document_processing.py:43` looks at `services.events` before `services.init()`.
- `query.cached` and `query.failed` have no publisher, `user.logout` is commented out.
- Stopping the consumer commits the event in hand, which its handler may not have finished.
- `consumer.py` mentions retries and a dead letter queue it does not have, and its branch
  for invalid JSON is never reached: the deserialiser runs outside of it.

## Not modelled

See "components" in `PROJECT.json` for each part. The metadata PUT, listings, downloads,
stats, headers, logging, configuration, schemas and migrations keep no state a property
could be about; performance counters are single commands that nothing reads back but a
report. How a text is extracted and embedded, what a model answers, and how a password is
hashed are data that no property tells apart. Registration is one insert with a unique
name. The shutdown of a process is left out, since nothing runs after it, and so are
several consumers with rebalancing, the soft time limit of a task (`celery_app.py:23`, which could also fire while
an event is published), late appends of a send that was given up, and
requests cancelled inside `init`.

## Plan

Every component with behaviour of its own has its module, and every invariant and refinement that a
run checks is proved. What is left:

1. What the proofs show that no property says yet: the least leeway, and under which conditions a DELETE leaves no vectors (the repaired
   counterpart of `pipeline_orphans`).
2. `HybridTypeOK` in full, and the types of `ShortUrl` as a theorem of its own.
3. The hazard without a property, and the soft time limit of the tasks.
