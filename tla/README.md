# TLA+ specifications of TurkRAG

TurkRAG is a multi-tenant retrieval-augmented chat service: documents are
uploaded through a FastAPI application, ingested by a background worker into
Qdrant, a BM25 file and PostgreSQL, and questions are answered by one local
llama.cpp model. This directory holds TLA+ modules of its concurrent and
fault-handling parts, of its access rules and of its pure algorithms, TLC
configurations that check them on small instances, and TLAPS proofs of the central
invariants for every instance. Each module names the source files it models;
`PROJECT.json` maps each definition to lines.

## 1. The system

One API process runs (`api/Dockerfile`: `uvicorn --workers 1`) and is restarted
by Docker (`restart: unless-stopped`). In it run

- the **event loop**. Almost all handlers are `async def` without an `await`
  between their database and file operations, so on the loop they are atomic
  with respect to each other, and they block it while they wait for a lock;
- the **ingestion worker**, a daemon thread, with one **heartbeat** thread per
  job at work;
- the **executor threads** of the loop (`run_in_executor`, background tasks),
  and one daemon thread per background call of a stream;
- the **warm-up** thread that loads the model.

They share PostgreSQL rows, the BM25 file of a tenant under a
`threading.Lock`, the Qdrant collections, and the model under two locks. The
queue (`FOR UPDATE SKIP LOCKED`) and the evaluations (advisory lock) are
written for several processes, so their models have several.

### Inventory

| component | state it keeps | operations | hard behaviour | what makes it correct |
|---|---|---|---|---|
| queue (`ingestion/queue.py`) | `ingestion_jobs` rows | enqueue, pick, heartbeat, complete, fail, recover | stale recovery against live workers, updates without status guard | no job stranded, every attempt charged, failures final |
| worker (`ingestion/worker.py`) | the job in hand | loop, process, mark error | crash anywhere, lost acknowledgement, long pause | every job settles, `error` means failed |
| indexer (`ingestion/indexer.py`) | Qdrant points, BM25 file, per-tenant lock | ingest, delete | read-modify-write, truncation before dump, appends on retry | ready documents are searchable, deletions are clean |
| document API (`api/routers/documents.py`) | `documents` rows, files | upload, delete, status | multi-transaction upload, deletion during ingestion | no document without a job |
| tenant API (`api/routers/tenants.py`) | `tenants`, collection | create, delete | cascade and unlink beside the worker | nothing survives a purge |
| BM25 search (`retrieval/bm25_store.py`) | loaded file | load, search | load without the lock | searches do not fail |
| evaluations (`eval/auto_eval.py`, `api/routers/evaluation.py`) | `eval_runs.config_json` status | trigger, claim, complete, fail | concurrent triggers, stale rule, lost tasks | one active run, evaluated once |
| model (`generation/llm.py`) | instance, load error, two locks | load, stream, generate | double-checked load, warm-up | loaded once, calls serialised |
| streamer (`generation/streamer.py`) | queues, cancel event, coroutine | produce, consume, background phases | disconnects, failures, few executor threads | streams end, answers complete |
| chat (`api/routers/chat.py`, sessions, `generation/memory.py`) | sessions, messages | query, stream, history, feedback | blocking call on the loop, streams of one session, equal time stamps | texts stay with their owner, windows hold whole exchanges |
| retrieval (`retrieval/hybrid.py`, vector store, reranker) | none | retrieve, fuse, filter | ties, empty rankings, copies, filter after the cut, failing reranker | only readable hits, consensus kept, silence only when judged |
| semantic cache (`retrieval/semantic_cache.py`) | Qdrant points with time stamp | get, put, invalidate | never cleared by revocations and deletions | no answer is older than the permissions it rests on plus the time to live |
| access control (`api/rbac.py`, permissions, collections) | `document_permissions` | grant, revoke, list, assign | revoking the last row opens the document | nobody comes to see a document but by a step that concerns him |
| users, auth (`api/routers/users.py`, `api/auth.py`) | `users`, tokens | create, login, change, deactivate, switch tenant | tokens outlive roles and activity | the row decides, not the token; tenants keep their admins |
| rate limit (`api/limits.py`) | hits per key | hit | window boundary | never more than the limit |
| pool (`api/db.py`) | connections | borrow, return | exhaustion, double closes, a failing `putconn` | no connection doubled, a slot lost only by a failed return |
| chunker (`ingestion/chunker.py`) | none | chunk | overlap, termination | nothing of the text is lost, or the loop never ends |
| citations, attribution, prompt | none | cite, attribute | marks of chunks that do not exist, limits, rounded scores | no answer without a source, closest sources up to the rounding |
| evaluation metrics (`eval/*_metrics.py`, `ragas_eval.py`, `error_analysis.py`) | none | score, classify | repeated files, cut-offs | scores are fractions and agree |
| parser, embedder, stemmer, guardrails | none | text processing | - | - |
| settings, dashboard, analytics, export, health | rows | single reads or upserts | - | - |
| schema migrations, scripts, dashboard client | - | - | - | - |

Components interact by rows and calls: upload -> `documents`, `ingestion_jobs`
-> worker -> indexer -> Qdrant, BM25 file, `documents`; deletions cut across all
of them; chat -> cache -> retrieval -> Qdrant, BM25 file -> model; the worker's
chunk enrichment, HyDE, follow-up questions and evaluations share the model with
the answers.

## 2. Modules

| module | models | status |
|---|---|---|
| `IngestionQueue` | queue, worker loop, upload and deletion of rows | done |
| `JobLifecycle` | what the queue promises, abstractly | done |
| `IngestionQueueRefinement` | the mapping from the queue to the lifecycle | done |
| `IngestionQueueProofs` | inductive invariants and theorems of the queue, its documents and the ownership of jobs; the queue implements the lifecycle | done |
| `TenantIndex`, `TenantIndexProofs` | Qdrant collection and BM25 file of a tenant under ingestion, deletion, purge and search; theorems | done |
| `EvalJobs`, `EvalJobsProofs` | background evaluations, with their theorems | done |
| `Generation`, `GenerationProofs` | model load, inference lock, streams, executor, event loop; theorems | done |
| `MC*` | TLC instances: symmetry; those of the queue and of the evaluations extend the proof module, so that its first invariant is checked too | done |
| `DocumentAccess` | users, tokens, permissions, collections, and the documents these speak of | done |
| `AnswerAccess`, `AnswerAccessProofs` | extends it with chat, cache, streams, listings and uploads, and states the properties of both; theorems about both | done |
| `ChatSessions` | sessions, messages, histories, prompts, feedback | done |
| `RateLimit` | the WebSocket rate limit | done |
| `DbPool` | the connection pool | done |
| `ServiceProofs` | theorems about the rate limit, the pool and the chat sessions | done |
| `HybridRetrieval`, `Chunker`, `Citations`, `EvalMetrics` | pure algorithms, over all inputs within bounds | done |
| `Sorting` | Python's stable `sorted`, which three of them use | done |
| `AlgorithmProofs` | theorems about these algorithms, for all inputs | done |
| `LoopLemmas` | lemmas about loops, least elements and sorted lists, for the two modules of proofs above | done |
| `MCComponents` | one of the seven modules above in each behaviour | done |

`DocumentAccess` and `AnswerAccess` see ingestion as `StartIngest`, `WriteIndex`,
`EndIngest`, which is what `IngestionQueue` and `TenantIndex` have in full.

Operators called `Something_Slip` (`WillRetry_OffByOne`, `Recheck_Forgotten`, ...)
are deliberate mistakes of `Something`. No specification uses them; each
property is known to fail when the slip replaces the original, and `PROJECT.json`
lists the pairs under `mutants`.

### IngestionQueue

An action is one transaction, or one stretch of a handler between two of them.

| code | actions |
|---|---|
| `_worker_loop` | `RecoverStaleJobs`, `MarkStaleDocument`, `PickNextJob`, `PickNothing` |
| `_process_job` | `CheckJob`, `CompleteReadyJob`, `WriteIndex`, `IngestNothing`, `PipelineFails`, `UpdateStatus`, `CompleteJob`, `FailJob`, `MarkDocumentError` |
| `_JobHeartbeat` | `Heartbeat` |
| exceptions and lost acknowledgements | `LoseTransaction`, `LoseCompletion`, `LoseStatusUpdate`, `LoseAcknowledgement`, `UploadFails` |
| process | `Crash`, `Restart`; time: `Tick` |
| documents and tenants API | `InsertDocument`, `EnqueueJob`, `RollbackUpload`, `DeleteDocument`, `DeleteTenant` |

Time stamps are ages in ticks, capped one above the timeout; `wait` counts down
to `retry_after`. `max_attempts` of a row is the constant `MaxAttempts`.
`PausesBounded = TRUE` is the assumption that a live worker sends a heartbeat or
commits before the stale timeout (60 heartbeats fit into the default 900 s); with
`FALSE` a worker may sleep as long as it likes and wake up as a zombie. `indexed`
is a history variable: the attempts that wrote the index of a document. Abstracted: `SKIP LOCKED`
skipping a row in the middle of another transaction (transactions are atomic
here), heartbeats that fail (the same as a heartbeat that does not happen), a
heartbeat after its stop (it is guarded by `status='processing'`), more than one
upload at a time.

`IngestionQueueRefinement` maps a row to `JobLifecycle`. A completion that has
committed but whose acknowledgement the worker has not seen (`Unacknowledged`) still
counts as `processing` there, because the worker's exception handler may fail it.

### TenantIndex

`Upload`, `StartIngest`, `FailIngest` and `FinishIngest` condense the queue; the
indexer itself is in full detail: `EnsureCollection`, `UpsertBatch`,
`LockForUpdate`, `ExistsForUpdate` (no file: a fresh index and nothing to load),
`LoadForUpdate`, `OpenForUpdate` (truncation), `DumpUpdate`; `LoadForUpdateFails`
is an exception of `open` or `pickle.load`: a torn file, a failing disk, or a file that
`delete_tenant` unlinked, without the lock, after `exists()` had seen it; for
deletion `DeleteRow`, `DeleteVectors`, `ProbeIndex` (the unlocked `exists`),
`LockForRemove`, `RemoveLastEntries` (unlink), `LoadForRemove`, `OpenForRemove`,
`DumpRemoval`; for tenants `DeleteTenantRows`, `DropCollection`, `UnlinkIndex`; for
searches `BeginSearch` (`exists`) and `LoadForSearch`. A file is absent, torn or
whole, with the number of copies of each document's chunks. `excused` is a
history variable: deletions whose document was being ingested, or that a failure or
a crash cut short. The handler is one actor, because handlers on the loop do not
overlap. Tokenising and ranking are abstracted.

### EvalJobs

`create_eval_job` is cut at its statements (`MarkStaleRuns`, then `RefuseRun` or
`SelectNoActive` and `InsertRun`), because claims and completions of other
processes commit between them; rows it has marked are locked for the others
until it ends. `run_eval_job` is `ClaimRun`/`SkipRun`, `EvaluateRun`,
`CompleteRun`, `FailRun`, with `ClaimFails`, `CompleteFails` and
`FailureNotPersisted` for exceptions before or after a commit. A process may
crash (`Crash`). `Duplicates` allows invocations beyond the one that
`trigger_eval` schedules, which the code's claim is written for; a run without
them is `GivenOnce`. An evaluation may take any number of ticks, so that it can
outlive the stale timeout: `OneEvaluationAtWork` and `FailedIsFinal` say that
nothing else lets two evaluations work at once or reopens a failed run. Tenant
deletion during an evaluation is not modelled.

### Generation

A step is what a thread does between two lock operations, or the coroutine between
two awaits. `FastPath`, `LockLoad`, `Recheck`, `Construct`, `WarmUp`, `LoadFails`
are `_get_llm`; `LockInfer`, `Infer`, `InferFails` are `generate_stream`, whose list
comprehension consumes the model inside the lock; `Produce`, `Attribute` are the
stream's threads; `StartStream` (HyDE blocks the loop), `EndRetrieval`,
`TakeExecutorThread`, `GetItem`, `ReceiveToken`, `ReceiveEnd`, `ReceiveException`
are the coroutine; `Disconnect` is the client. `loop` names the caller that
blocks the event loop. `WarmupThreads` is the thread that `lifespan` may start
to load the model (at most one). Of the up to three model calls of a `POST /chat` (memory,
HyDE, answer), which follow each other without giving the loop back, one is
modelled. Token texts are abstracted; an answer has at most `MaxTokens` of them.

### DocumentAccess and AnswerAccess

Handlers without an `await` are one action each, authentication included.

| code | actions |
|---|---|
| `api/main.py`, `api/auth.py` | `Login`, `SwitchTenant`; guards `Authenticated`, `IsAdmin` |
| `api/routers/users.py` | `CreateUser`, `ChangeRole`, `Activate`, `Deactivate` |
| `api/rbac.py`, `api/routers/permissions.py` | `GrantAccess`, `RevokeAccess`; operators `HasLevel`, `HasAcl`, `CanManage`, `Accessible`, `Listed` |
| `api/routers/collections.py` | `CreateCollection`, `DeleteCollection`, `AssignDocument` |
| `api/routers/documents.py` | `BeginUpload`, then `EndUpload` (`AcceptUpload`, `StrandUpload`) or `AbandonUpload`; `DeleteDocument`; `List` |
| `api/routers/chat.py`, `retrieval/semantic_cache.py` | `AnswerFromCache`, `AnswerFresh`, `BeginStream`, `AnswerStream`; `CacheGet`, `CachePut`, `CacheInvalidate` |
| process, time | `Restart`, `Tick` |

The cache holds entries of a tenant and a scope (`user:<id>`) with an age; any
question may be near enough to any entry. `Permitted` is the reference: what a
user may be told of now. `lastSeen` is a history variable, the ticks since it
held; it is kept only while an answer of that user is in the cache or on its way,
which is what `AnswersWerePermitted` compares. `opened` and `beside` are
history variables too. An answer cites one document here; since whatever is said
of an answer is said of each document it cites, that is enough. Grantees are
users of any tenant (the code accepts any string). Permissions older than
migration 0003 appear in the initial state: a document with the rows its
backfill gave it. Left out: passwords, expiry of tokens, development tokens (off
in production), the `platform_admin` role, `update_collection` (names and colours).

### ChatSessions

`PostAnswered`, `PostCached`, `PostUnanswered` are `POST /chat`; `OpenStream` and
`CloseStream` the two ends of a stream, between which others of the same session
may run; `ReadSession` is the messages listing and both exports; `Feedback`. A
session is the sequence of its rows as they were inserted. The rows of one
transaction have the same `created_at`, so `Orders` lets any exchange of a session
come with its answer first. Messages are numbered by
question and carry who asked, which is how `TextStaysWithItsOwner` knows.
`Compressed` is `build_context_with_memory`, whose summary may be empty;
`Prompted` is the cut in `build_prompt`. The query log is left out.

### RateLimit and DbPool

`Accept` and `Refuse` are the two outcomes of `websocket_rate_limited`;
`admitted` is a history of what was let through. `Expired` is the number of hits
that the `popleft` loop drops. `ForgetHits` is a new process.
In `DbPool` the library's `getconn` and `putconn` are modelled from how
`api/db.py` uses them; `Close` may be called again on a closed handle, and
`CloseAll` comes while daemon threads still hold connections. `close()` clears its
handle before it calls `putconn`, which may keep the connection or close it beyond
`MinConn` (`PutBack`), drop one the server has closed (`Discard`), or raise before
the pool has crossed it off, as when the rollback of an open transaction fails on a
dead connection (`PutRaises`). `close()` logs that exception and swallows it
(`tests/test_db.py:20`), and the slot stays taken by a connection nobody holds:
`lost` is the history of those.

### HybridRetrieval, Chunker, Citations, EvalMetrics

One step applies the algorithm to any input within the bounds; the properties
compare input and result. Scores and fractions are integers, multiples of a
common denominator, so that comparisons are exact; floating-point rounding is
not modelled, except for `round(sim, 4)`, which decides an order. A loop of the
code is a function of the number of its turns
(`Merging`, `Building`, `Sliding`, `Choosing`, ...) and the operator beside it one
turn; the sorts are `Sorted`, which gives every element the place behind all that
belong before it. A text is the sequence of the sizes of its units. The hits of the
two searches are any rankings; the BM25 ranking may hold copies of a chunk, as a
retried ingestion leaves them. A chunk's text is its set of tokens (`TokensOf`), so
the similarity that MMR takes off a relevance is the Jaccard overlap of the code:
shared tokens over tokens of either, any fraction from 0 to 1. In `Citations` the
sources of a sentence are sorted by the rounded similarity (`Rounded`, a half to the
even neighbour, with `Grain` the 0.0001 of the code), while the threshold and the
fallback compare the exact one. In `Chunker` the parts of the recursive chunker carry
the places of their first and last characters, so a word that is cut into letters
remains accounted for; a result of the fixed-size loop says whether the loop ends
(`ended`), and so does one of the paragraph chunker, which calls that loop for each
paragraph that is too long. The `start_char` offsets that the recursive and the paragraph
chunker write into their chunks are left out.

`MCComponents` chooses one component in its initial state and lets it run
alone: they share no state, and their products would only multiply states. It fixes
the scope and the `final_k` of a retrieval there too, so that the searches of one
caller can be enumerated without those of the others.

## 3. Runs

| run | checks | bounds and why they suffice |
|---|---|---|
| `QueueWorkers` | `ReadyIsIndexed`, `NoDoubleProcessing`, `ErrorMeansFailedJob`, `ProcessingHasJob`, `ImplementsLifecycle`, `EveryJobSettles` | 2 processes with bounded pauses, so that one may recover the other's jobs; 2 jobs, so that the order of picks matters; 2 attempts (a first and a last); 1 crash and 1 failed transaction |
| `QueueZombie` | `PendingJobsHaveAttemptsLeft`, `IndexWritesAreCharged`, `AttemptsAreExclusive`, `QueueInv` (with `TypeOK`) | the same with unbounded pauses: both workers may hold one job |
| `QueueReadyError` | expected violation | 1 job, 1 crash |
| `IndexDeployed` | `TypeOK`, `LockGuardsRewrites`, `ReadyIsSearchable`, `OnlyFailuresLeaveTornFile`, `DeletionsAreClean`, `CopiesAreCharged` | 3 documents, so that a file with another's entries is rewritten from both sides; 2 batches, 2 attempts, 1 crash, 1 failure |
| `IndexDelete` | expected violation | no crash and no failure needed; `DeletedIsGone` speaks of `delete_document` only: it asks nothing once the tenant is deleted |
| `IndexSearch` | expected violation | no crash, no failure needed |
| `EvalDeployed` | `EvalInv` (with `TypeOK`), `AtMostOneActive`, `EvaluatedOnce`, `OneEvaluationAtWork`, `FailedIsFinal`, `LostRunsAreReplaced` | 2 processes, a run and its successor, duplicated invocations, 1 crash, 1 failed transaction |
| `GenerationDeployed` | `TypeOK`, `OneModelLoaded`, `AnswersAreComplete`, `EveryStreamEnds`, `EveryCallReturns` | 2 streams that compete for 1 executor thread, 1 caller that blocks the loop, answers of up to 1 token |
| `GenerationWarmup` | expected violation | 1 caller beside the warm-up |
| `AccessDeployed` | `AccessInv` (`TypeOK`, `CopiesOverlapped`, `CollectionsStayInTenant`), `AnswersWerePermitted`, `OpenMeansRevoked`, `SightWidensKnowingly`, `LastAdminLeavesHimself` | 2 tenants; an admin, a member, and the admin's row in the other tenant; 2 documents of the same content, one of which may be older than permissions; 1 collection; 2 edits of users, permissions or collections, a grant and its revocation for instance (`MaxEdits`; none once there is a second document, which is there for the duplicates); 2 tokens; 1 cache entry; a time to live of 0 ticks, so that an entry is fresh or expired |
| `ComponentsDeployed` | `TextStaysWithItsOwner`, `WindowsHoldWholeExchanges`, `RateLimitIsFair`, `ConnectionsAreAccounted`, `RetrievalIsSound`, `ChunksAreFaithful`, `CitationsAreFaithful`, `ScoresAreHonest` (below) | chat: 3 callers (a member, his admin, the same user id in another tenant), 2 sessions, 2 streams, 4 questions with limits halved, so that histories are cut and summarised; limit: 2 questions in 2 ticks of 5; pool: 3 handles on at most 2 of 3 connections, so that one may be lost and another opened; retrieval: 3 chunks of 2 documents, which share three, one or no tokens, scopes, all rankings, 3 scores around the threshold and close enough for an overlap to turn them; chunker: up to 5 units of 4 sizes around the limits, overlaps of 0, half a chunk, a whole one and one more; citations: 3 chunks with one sentence or 2 with two, similarities below 0, on both sides of the threshold, and two that round to the same; metrics: 3 files, 4 ranks |
| `ChatOrder` | expected violation | the bounds of `ComponentsDeployed` |

The last six properties of `ComponentsDeployed` are conjunctions, one per module:

| property | its parts |
|---|---|
| `RateLimitIsFair` | `NoWindowExceedsLimit`, `RefusalsAreDeserved` |
| `ConnectionsAreAccounted` | `HandlesAreExclusive`, `OnlyFailedReturnsLeak` |
| `RetrievalIsSound` | `OnlyReadableHits`, `FusionKeepsConsensus`, `DiversityCostsOnlyOverlap`, `SilenceIsJudged` |
| `ChunksAreFaithful` | `TurkishKeepsTheText`, `TurkishChunksAreBounded`, `FixedCoversOrNeverEnds`, `RecursiveKeepsTheText`, `RecursiveChunksAreBounded`, `ParagraphsAreKeptOrNeverEnd` |
| `CitationsAreFaithful` | `CitationsAreNeverMissing`, `SourcesAreTheClosest` |
| `ScoresAreHonest` | `ScoresAreFractions`, `PerfectMeansPerfect`, `EvaluationsAgree`, `CorrectMeansRetrieved` |

`CHECK_DEADLOCK FALSE` is set where the system really may stop: a bounded
number of documents, runs or requests is dealt with and nothing is left to do. The
queue's worker polls for ever, so its runs check deadlock.

The bounds `JobCount`, `MaxCrashes`, `MaxDbFaults`, `MaxFaults`, `RunCount`,
`MaxTokens`, `MaxEdits`, `MaxEntries`, `MaxQuestions`, `MaxTime`, `MaxUnits`,
`MaxContext`, `MaxPairs`, `MaxRanks` limit what a behaviour may contain; the timeouts are 1 tick, which is
enough for "not yet", "exactly" and "past" the limit.

### What the violations show

- `QueueReadyError`: the process dies after the document became `ready` and
  before `complete_job`, in the last attempt; recovery fails the job and
  `_mark_document_error` overwrites `ready`.
- `IndexDelete`: `delete_document` does not know of the ingestion at work, which
  writes its points and entries afterwards.
- `IndexSearch`: `BM25Store._load` reads the file without the lock.
- `GenerationWarmup`: the instance is published before its warm-up call, which
  runs outside `_infer_lock`.
- `ChatOrder`: `_load_history` promises "oldest-first", but both messages of an exchange
  carry the `NOW()` of one transaction, so the answer may come before its question in
  the prompt. `WindowsHoldWholeExchanges` shows that nothing worse follows: limits
  never separate the two.

What the properties that hold say of surprising behaviour:

- a revocation, a deletion or a demotion does not clear the cache; the user concerned
  may be told of the document for the time to live, nobody else
  (`AnswersWerePermitted`);
- revoking the last permission opens a document to the tenant
  (`SightWidensKnowingly`, `OpenMeansRevoked`); a failed upload never does;
- a tenant may lose its last admin, but only by that admin's own request
  (`LastAdminLeavesHimself`);
- two uploads of one file may both become ready, if they overlap
  (`CopiesOverlapped`);
- a single hit passes the confidence gate unjudged, whatever the cross-encoder would
  say (`SilenceIsJudged`); with a failing cross-encoder all do;
- `FixedSizeChunker` never ends when the overlap is not smaller than the chunk and
  the text is longer than it (`FixedCoversOrNeverEnds`), and neither does
  `ParagraphChunker` when one paragraph is (`ParagraphsAreKeptOrNeverEnd`); the worker
  uses neither;
- each connection whose return to the pool fails costs the pool a slot until the
  process ends (`OnlyFailedReturnsLeak`): nothing takes it back, and after
  `DB_POOL_MAX` of them every `get_conn` raises;
- MMR leaves out a chunk that repeats no other, if it shares some words with a chosen
  one and is better than another by less than that (`DiversityCostsOnlyOverlap`);
- of two chunks whose similarities round to the same, the limit of sources may keep the
  less similar one (`SourcesAreTheClosest`).

Seen while modelling, in the models, but without a run of their own:

- `ingest` returns early for a text without chunks (`IngestNothing`): the job
  completes and the document stays `processing`;
- `delete_tenant` overlaps an ingestion like `delete_document` does: the worker
  creates the collection or the BM25 file again after the purge;
- the stale rule of the evaluations compares `created_at`, not a sign of life, so
  an evaluation that is at work for longer than the timeout is failed;
- `generate_stream` builds the list of all tokens before it yields one, so the
  `cancel_event` of a client that left comes too late to save any inference;
- the searches cut to `top_k` before the access filter, so that a member may get
  nothing although readable chunks exist further down;
- expired points stay in the cache's collection for ever, and the nearest point may
  be an expired one, which hides a fresh one;
- `eval/error_analysis.py:10` says of the label `no_answer` that the "system returned
  empty / fallback string", but the fallback string of an empty retrieval does not get
  it: `lower()` makes of the first letter of "İlgili belge bulunamadı." (`:182`) an i and a
  combining dot (U+0307), so that the phrase at `:38` is not found in it, and the query is
  labelled `retrieval_fail` if it names a relevant file, and by the words of the
  fallback otherwise (`IsNoAnswer`, `Classify`). `CorrectMeansRetrieved` is about the
  label `correct` only and says nothing of which failure this is.

Seen, and outside of the models, because one request shows it: the JSON export calls
`json.loads` on a column that the driver has decoded already
(`api/routers/export.py:91`), and the preview of a session is the alphabetically
smallest user message, not the first (`api/routers/sessions.py:38`).

### Fairness

`IngestionQueue`: weak fairness of each worker's step (its thread is never blocked
for ever: parsing and embedding are assumed to end), of `Restart`
(`restart: unless-stopped`), of the upload handler and of time. `TenantIndex`
states no fairness: it has only safety properties. `EvalJobs`: weak fairness of
open triggers, of scheduled runs and of time; nobody need trigger anything,
which is why `LostRunsAreReplaced` is conditional on triggers. `Generation`: weak
fairness of threads and coroutines; locks are taken in any order, but each caller
takes a lock a bounded number of times, so that weak fairness suffices. Failures, crashes,
deletions, uploads and disconnects are never fair. The modules of access and of
`MCComponents` state no fairness: what they promise is safety, and nothing in that code
retries or waits.

## 4. Proofs

The theorems hold for every value of the constants that the `ASSUME`s of the
modelled modules allow: any number of jobs, documents, workers, processes,
streams, users, connections and questions, any timeout, and any budget of crashes
and failures. These assumptions are types of constants and distinctness of the
values that stand for "none"; those of the algorithms also say what the numbers of
the code satisfy (even limits of a history, an overlap of the default chunker that is
smaller than a chunk - those of the other chunkers are any numbers - a common denominator, a gain that falls with the rank). TLC evaluates them in the
runs. Three theorems and one invariant of the queue have a hypothesis besides,
`PausesBounded`, which is the constant of that name (section 2, IngestionQueue),
and the theorem about retrieval has one about the threshold (below): without it
they are false.

Each proof module states an inductive invariant, proves that `Init` establishes it
and that each action preserves it (one lemma per action or group of actions), and
derives the properties. The parts of an invariant that are not properties
themselves say what the code relies on without writing it down.

### Ingestion queue (`IngestionQueueProofs`)

| theorem | property | hypothesis |
|---|---|---|
| `QueueTypeCorrect`, `QueueInvariance` | `TypeOK`, `QueueInv` | |
| `NoJobIsStranded` | `PendingJobsHaveAttemptsLeft` | |
| `AttemptsExclusive` | `AttemptsAreExclusive` | |
| `IndexWritesCharged` | `IndexWritesAreCharged` | |
| `ReadyDocumentsAreIndexed` | `ReadyIsIndexed` | |
| `ProcessingDocumentsHaveJobs` | `ProcessingHasJob` | |
| `JobsAreInOneHand` | `NoDoubleProcessing` | `PausesBounded` |
| `ErrorsAreFinal` | `ErrorMeansFailedJob` | `PausesBounded` |
| `QueueImplementsLifecycle` | `ImplementsLifecycle` | `PausesBounded` |

`TypeOK` needs `PendingJobsHaveAttemptsLeft`, or a pick could push `attempts`
beyond its bound; exclusiveness needs that the attempt a worker has in hand is
at most the row's counter (so that a pick, which increments it, makes a new
one) and that a worker at work holds a job; `IndexWritesAreCharged` needs the
same, and that a row not inserted yet has no index. `QueueInv` is their
conjunction.

`DocumentInv` adds documents and uploads: a job's row hangs on its document's
(the cascade), a worker that is about to set the status has written the index, and
a roll-back that found the document present has spent a failure - this is why one
failed transaction leaves no document without a job, and two may.

`OwnershipInv` is where `PausesBounded` comes in: the row of a job in a
worker's hands is gone, or `processing` with a heartbeat that recovery does not
take for stale, or `completed` by a commit whose acknowledgement was lost. The last
case is the reason for `Unacknowledged` in the refinement mapping.

The refinement is proved in two steps. `RowMoves` says what one action may do to one
mapped row; `NextMovesRows` shows it for every action, with the three invariants;
`StepsAreMoves` shows that any such change of all rows is a step of
`JobLifecycle` or a stutter.

### Tenant index (`TenantIndexProofs`)

`IndexTypeCorrect`, `RewritesAreGuarded` (`LockGuardsRewrites`),
`ReadyDocumentsAreFound` (`ReadyIsSearchable`), `TornFilesAreExplained`
(`OnlyFailuresLeaveTornFile`), `DeletionsLeaveNothing` (`DeletionsAreClean`),
`CopiesBoundedByAttempts` (`CopiesAreCharged`): all six properties of `IndexDeployed`.
`IndexInv` says what the two sides of a rewrite carry in memory: whoever is about to
write the file has every searchable document in it, because of the lock; a writer
that found no file has nothing but its own document; copies in memory are
charged before they are in the file; each step of an ingestion has left its chunks
where the steps before it put them; and a deletion has removed, at each of its
steps, what the steps before it were to remove, unless the document is excused.

### Evaluations (`EvalJobsProofs`)

`EvalTypeCorrect`, `EvalInvariance` (`EvalInv`), `OneActiveRun`
(`AtMostOneActive`), `RunsAreEvaluatedOnce` (`EvaluatedOnce`),
`OneEvaluationWorks` (`OneEvaluationAtWork`) and the action property
`FailedRunsStayFailed` (`FailedIsFinal`). `EvalInv`: a process inside the
transaction holds the advisory lock and only it has marked rows; runs beyond
`created` are absent; when the transaction has seen no active run, none appears
before its INSERT, because only an INSERT makes a run active; and a run that was
evaluated is no longer `queued`, so no second claim finds it. `WorkInv` adds
time: a trigger marks stale rows only, so the row of a young run at work,
given to one process, is still `running`; with one active run at most, two such
evaluations are the same.

### Model and streams (`GenerationProofs`)

`GenerationTypeCorrect` (`TypeOK`), `OneModelIsLoaded` (`OneModelLoaded`) and
`DoneMeansComplete` (`AnswersAreComplete`). The argument for the first is the
re-check under `_load_lock`; for the second, that tokens collected, in the
coroutine's hand, in the queue and still to be put always add up to the answer,
and that the end mark is the last item (`AnswerOnItsWay`). `OverlapsAreWarmUps` is
not a run's property: it says of the violation `GenerationWarmup` that nothing
worse follows, since two calls of the model that overlap are always one
inference and one warm-up.

### Access and answers (`AnswerAccessProofs`)

`RowsStayConsistent` (`AccessInv`), `OpennessIsDeliberate` (`OpenMeansRevoked`),
`NoAnswerBeyondPermission` (`AnswersWerePermitted`), and the action properties
`SightIsGranted` (`SightWidensKnowingly`) and `LastAdminIsHisOwn`
(`LastAdminLeavesHimself`). `RowInv` says that only documents whose upload got its
permission and its job are ever ingested, that of two rows with one content one
was inserted while the other was not ready, and that a tenant comes with the row.
`AnswerInv` adds what must hold of an answer before anybody reads it: an entry of
the cache, or a stream under way, is at least as old as the last moment at which
its reader was permitted what it cites.

### Pool, limit and chat (`ServiceProofs`)

`EveryConnectionAccounted` (`ConnectionsAreAccounted`): of the connections that the
pool has given out, each is in the hands of one open proxy or was lost by a return
that raised, and none is both (`PoolInv`); so the pool is exhausted exactly when
open proxies and lost connections together are `DB_POOL_MAX`. Counting each borrowing and
each kind of return keeps this until `closeall`.

`LimitIsFair` (`RateLimitIsFair`): the hits that are kept are the last ones of all
accepted questions (`IsTail`), the others have left the window, and question
`i + Limit` came more than a window after question `i` (`Spaced`); then any
window has at most `Limit` of them. The loop that drops expired hits is a least
number, found by counting a set (`PrefixIsInterval`) rather than by induction.

`TextIsPrivate` (`TextStaysWithItsOwner`) and `WindowsAreWhole`
(`WindowsHoldWholeExchanges`) follow from `ChatInv`: the rows of a session were
all asked by its owner, and the session into which an open stream will write is
still its caller's (`SessionsAreOwned`) - an id of somebody else's never gets that far;
and a session is a list of questions with their answers behind them
(`TalkIsPaired`). An order of such a list, whichever exchanges it turns, is again a
list of pairs, so a cut at an even place from the end separates none; the
assumption that `HISTORY_LIMIT` and `KEEP_RECENT` are even is used exactly here,
and `MAX_HISTORY_TURNS` counts exchanges.

The specifications of these theorems are `PoolSpec`, `LimitSpec` and `ChatSpec`, and
those of the next section `CitationSpec`, `ChunkerSpec`, `RetrievalSpec` and
`MetricsSpec`; of each, `MCComponents` runs the initial state and the next-state
relation.

### Algorithms (`AlgorithmProofs`, `LoopLemmas`)

Of these modules the theorems say for every input what the runs say for the small
ones: texts, rankings and answers of any length.

| theorem | property | how |
|---|---|---|
| `CitationsFaithful` | `CitationsAreFaithful` | `Ranked` lists the supporting chunks by rounded similarity, so a cut of the list leaves out none that rounds to more than a chosen one; a similarity and its rounding differ by half a `Grain` at most, so none that is more similar by more than a `Grain` |
| `ChunksFaithful` | `ChunksAreFaithful` | after each turn, what is finished and what is in the buffer cover the units so far, in order (`Covering`, `Holds`, `Built`), for the recursive chunker the characters so far, through the cutting of words into letters and the merging of the parts (`SplittingCovers`, `JoiningHolds`); sizes stay within the limits; each span of the fixed-size loop begins where the one before it ends, less the overlap (`Linked`), and advances by at least one character unless the overlap is too large, so that the loop ends exactly as stated, in the paragraph chunker for each of the long paragraphs (`ParagraphIsCut`) |
| `RetrievalSound`, if `Confident <= 0` | `RetrievalIsSound` | the filter keeps the order of the hits; a reciprocal rank falls with the rank, so a chunk that is never behind another has the larger sum; after each pick of MMR, whoever was passed over for a less relevant chunk shares as much with one chosen before it as it is better (`Diverse`), because a similarity is never negative and all it can do is to be taken off |
| `ScoresHonest` | `ScoresAreHonest` | the ranks that count are as many as the relevant files found; among the sets of ranks of one size the first ranks are worth most, because gains fall (`FirstRanksAreBest`), and a precision at a rank is 1 exactly if every rank up to it counts |

`RetrievalSound` needs `Confident <= 0`: `RERANK_CONFIDENCE_THRESHOLD` is -2.0 unless
the environment says otherwise. With a positive threshold the gate would compare it
with the reciprocal ranks of a failed or skipped reranking, which are at most a
fraction above 0, and an answer could be empty without any judgement.

There is no induction over data in these proofs, and no principle of it is
assumed. A function on `0..N` is a loop; `LoopComputes` shows that a function
with a given first value and a given step exists and so that the `CHOOSE`
behind a recursive definition finds it, and `LoopStays` that what the step keeps
holds after each turn. Both rest on `TurnByTurn`: a set that has 0 and with each
number below `N` the next has all of `0..N`, or there would be a least number
missing; and that a set of numbers has a least one is shown by counting the
numbers below all of its own (`PrefixIsInterval`, `SmallestExists`). In the same way
`SortedLists` counts: the places of the elements of a set in a strict order are
different numbers up to its size, so each place is taken once.

### Only model-checked

- Liveness: `EveryJobSettles`, `LostRunsAreReplaced`, `EveryStreamEnds`,
  `EveryCallReturns`. They rest on fairness, and the prover does not reason about
  `ENABLED`.
- The five expected violations, which are counterexamples and not theorems.

Every other property of a passing run is stated by a theorem.

## 5. Roadmap

The modules planned are written and their safety properties proved. What could be
added:

1. The components that are modelled in part (`PROJECT.json`, `components`):
   expiry of tokens and the platform administrator in `DocumentAccess`, the averages
   over questions in `EvalMetrics`.
2. A statement of liveness for the tenant index, which retries through the queue:
   the composition of `IngestionQueue` and `TenantIndex`, which now see each other
   only in condensed form.
3. In `HybridRetrieval`, a threshold and scores of any size together with a
   failing cross-encoder, as a run that shows what the hypothesis of
   `RetrievalSound` rules out.

## 6. Not modelled

PostgreSQL, Qdrant and llama.cpp appear only as the code uses them: atomic
transactions, atomic calls, each of which may fail. Outside are

- parser, embedder, stemmer, language detection, guardrails, cleaning of model
  output: text rules without shared state, or library calls;
- scores of library models (BM25, embeddings, cross-encoder), which are inputs here;
  HyDE's blended vector;
- passwords, expiry of tokens, development tokens, `platform_admin`;
- settings, analytics and dashboard summaries: single reads and upserts; the
  query log they count;
- faithfulness, relevancy and the LLM judge of the evaluations; averages, reports;
- `_ingest_document`, which nothing calls; scripts; the dashboard client.
