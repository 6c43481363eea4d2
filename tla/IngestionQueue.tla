--------------------------- MODULE IngestionQueue ---------------------------
(***************************************************************************)
(* The PostgreSQL ingestion queue (ingestion/queue.py), the worker thread  *)
(* that drains it (ingestion/worker.py) and the three API operations that  *)
(* create and remove its rows (api/routers/documents.py, tenants.py).      *)
(*                                                                         *)
(* Every action is one database transaction, or one stretch of a handler   *)
(* between two transactions.  A process hosts one event loop and one       *)
(* worker thread; the deployed image runs a single process, FOR UPDATE     *)
(* SKIP LOCKED lets several run.                                           *)
(***************************************************************************)
EXTENDS Integers, FiniteSets

CONSTANTS
    JobCount,       \* number of uploads of a behaviour
    Workers,        \* processes, each with an event loop and a worker thread
    MaxAttempts,    \* INGESTION_MAX_JOB_ATTEMPTS
    RetryDelay,     \* INGESTION_RETRY_DELAY_SECONDS, in ticks
    StaleTimeout,   \* INGESTION_STALE_JOB_TIMEOUT_SECONDS, in ticks
    MaxCrashes,     \* bound: process crashes of a behaviour
    MaxDbFaults,    \* bound: failed transactions of a behaviour
    PausesBounded   \* TRUE: a live worker's job never goes StaleTimeout
                    \* without a heartbeat or a commit of that worker

ASSUME QueueAssumption ==
    /\ JobCount \in Nat \ {0}
    /\ MaxAttempts \in Nat \ {0}
    /\ RetryDelay \in Nat \ {0}
    /\ StaleTimeout \in Nat \ {0}
    /\ MaxCrashes \in Nat
    /\ MaxDbFaults \in Nat
    /\ PausesBounded \in BOOLEAN

\* Numbered in the order of created_at; job j ingests document j.
Jobs == 1..JobCount
NoJob == 0

VARIABLES
    \* table ingestion_jobs; "absent" is a row not inserted yet, or deleted
    status, attempts,
    age,            \* ticks since COALESCE(last_heartbeat_at, started_at)
    wait,           \* ticks until retry_after
    \* tables documents and tenants
    doc, tenantLive,
    \* the worker threads
    pc, held, attempt, marks,
    \* the upload handler of each process: none, a row inserted, rolling back
    upload, uploading,
    created,        \* documents inserted so far
    \* history: the attempts that wrote the index of a document
    indexed,
    crashes, dbFaults

rows   == <<status, attempts, age, wait>>
procs  == <<pc, held, attempt, marks>>
api    == <<upload, uploading, created>>
budget == <<crashes, dbFaults>>
vars   == <<rows, doc, tenantLive, procs, api, indexed, budget>>

Statuses == {"absent", "pending", "processing", "completed", "failed"}
WorkerPC == {"down", "recover", "markStale", "pick", "check", "noTenant",
             "alreadyReady", "index", "status", "complete", "fail", "mark"}

\* The points of _process_job at which the worker still owes its job a commit.
BusyPC == {"check", "noTenant", "alreadyReady", "index", "status",
           "complete", "fail"}
Busy(w) == pc[w] \in BusyPC

Init ==
    /\ status = [j \in Jobs |-> "absent"]
    /\ attempts = [j \in Jobs |-> 0]
    /\ age = [j \in Jobs |-> 0]
    /\ wait = [j \in Jobs |-> 0]
    /\ doc = [j \in Jobs |-> "absent"]
    /\ tenantLive = TRUE
    /\ pc = [w \in Workers |-> "recover"]
    /\ held = [w \in Workers |-> NoJob]
    /\ attempt = [w \in Workers |-> 0]
    /\ marks = [w \in Workers |-> {}]
    /\ upload = [w \in Workers |-> "none"]
    /\ uploading = [w \in Workers |-> NoJob]
    /\ created = 0
    /\ indexed = [j \in Jobs |-> {}]
    /\ crashes = 0
    /\ dbFaults = 0

-----------------------------------------------------------------------------
(* The transactions of ingestion/queue.py, as changes of the rows.  Each    *)
(* UPDATE names the row by id: on a deleted row it changes nothing.         *)

EnqueueTx(j) ==
    /\ status' = [status EXCEPT ![j] = "pending"]
    /\ UNCHANGED <<attempts, age, wait>>

Runnable(j) ==
    /\ status[j] = "pending"
    /\ attempts[j] < MaxAttempts
    /\ wait[j] = 0

\* ORDER BY created_at ASC LIMIT 1
Oldest(j) == Runnable(j) /\ \A k \in Jobs : Runnable(k) => j <= k

PickTx(j) ==
    /\ status' = [status EXCEPT ![j] = "processing"]
    /\ attempts' = [attempts EXCEPT ![j] = @ + 1]
    /\ age' = [age EXCEPT ![j] = 0]
    /\ UNCHANGED wait

HeartbeatTx(j) ==
    /\ status[j] = "processing"
    /\ age' = [age EXCEPT ![j] = 0]
    /\ UNCHANGED <<status, attempts, wait>>

\* No guard on the current status: any row that still exists is overwritten.
CompleteTx(j) ==
    IF status[j] = "absent" THEN UNCHANGED rows
    ELSE /\ status' = [status EXCEPT ![j] = "completed"]
         /\ age' = [age EXCEPT ![j] = 0]
         /\ wait' = [wait EXCEPT ![j] = 0]
         /\ UNCHANGED attempts

WillRetry_OffByOne(j, retry) == retry /\ attempts[j] <= MaxAttempts

WillRetry(j, retry) == retry /\ attempts[j] < MaxAttempts

FailTx(j, retry) ==
    IF status[j] = "absent" THEN UNCHANGED rows
    ELSE /\ status' = [status EXCEPT ![j] =
                         IF WillRetry(j, retry) THEN "pending" ELSE "failed"]
         /\ age' = [age EXCEPT ![j] = 0]
         /\ wait' = [wait EXCEPT ![j] =
                         IF WillRetry(j, retry) THEN RetryDelay ELSE 0]
         /\ UNCHANGED attempts

StaleJobs_OffByOne ==
    {j \in Jobs : status[j] = "processing" /\ age[j] >= StaleTimeout}
StaleJobs_SkipsExhausted ==
    {j \in Jobs : /\ status[j] = "processing" /\ age[j] > StaleTimeout
                  /\ attempts[j] < MaxAttempts}

StaleJobs == {j \in Jobs : status[j] = "processing" /\ age[j] > StaleTimeout}
ExhaustedJobs == {j \in StaleJobs : attempts[j] >= MaxAttempts}

RecoverRows ==
    /\ status' = [j \in Jobs |-> IF j \in ExhaustedJobs THEN "failed"
                                 ELSE IF j \in StaleJobs THEN "pending"
                                 ELSE status[j]]
    /\ age' = [j \in Jobs |-> IF j \in StaleJobs THEN 0 ELSE age[j]]
    /\ wait' = [j \in Jobs |-> IF j \in StaleJobs THEN 0 ELSE wait[j]]

\* Slips: the lost attempt is refunded, or charged a second time.
RecoverTx_Refunds ==
    RecoverRows /\ attempts' = [j \in Jobs |-> IF j \in StaleJobs
                                   THEN attempts[j] - 1 ELSE attempts[j]]

RecoverTx == RecoverRows /\ UNCHANGED attempts

-----------------------------------------------------------------------------
(* The worker loop.                                                         *)

Goto(w, p) == pc' = [pc EXCEPT ![w] = p]

\* Back to the top of _worker_loop, with nothing in hand.
Release(w) ==
    /\ Goto(w, "recover")
    /\ held' = [held EXCEPT ![w] = NoJob]
    /\ attempt' = [attempt EXCEPT ![w] = 0]
    /\ marks' = [marks EXCEPT ![w] = {}]

RecoverStaleJobs(w) ==
    /\ pc[w] = "recover"
    /\ RecoverTx
    /\ marks' = [marks EXCEPT ![w] = ExhaustedJobs]
    /\ Goto(w, IF ExhaustedJobs = {} THEN "pick" ELSE "markStale")
    /\ UNCHANGED <<held, attempt, doc, tenantLive, api, indexed, budget>>

\* A database call fails, within the budget of failures.
DbFault == dbFaults < MaxDbFaults /\ dbFaults' = dbFaults + 1

SetError(j) == doc' = IF doc[j] = "absent" THEN doc
                      ELSE [doc EXCEPT ![j] = "error"]

\* _mark_document_error for one recovered job; a failed UPDATE is swallowed.
MarkStaleDocument(w) ==
    /\ pc[w] = "markStale"
    /\ \E j \in marks[w] :
          /\ \/ SetError(j) /\ UNCHANGED budget
             \/ DbFault /\ UNCHANGED <<doc, crashes>>
          /\ marks' = [marks EXCEPT ![w] = @ \ {j}]
          /\ Goto(w, IF marks[w] = {j} THEN "pick" ELSE "markStale")
    /\ UNCHANGED <<rows, held, attempt, tenantLive, api, indexed>>

PickNextJob(w) ==
    /\ pc[w] = "pick"
    /\ \E j \in Jobs :
          /\ Oldest(j)
          /\ PickTx(j)
          /\ held' = [held EXCEPT ![w] = j]
          /\ attempt' = [attempt EXCEPT ![w] = attempts[j] + 1]
    /\ Goto(w, "check")
    /\ UNCHANGED <<marks, doc, tenantLive, api, indexed, budget>>

PickNothing(w) ==
    /\ pc[w] = "pick"
    /\ \A j \in Jobs : ~Runnable(j)
    /\ Goto(w, "recover")
    /\ UNCHANGED <<rows, held, attempt, marks, doc, tenantLive, api, indexed,
                   budget>>

\* SELECT slug, d.status FROM tenants LEFT JOIN documents: a deleted document
\* reads as NULL, which is not 'ready', and the job goes on.
CheckJob(w) ==
    /\ pc[w] = "check"
    /\ Goto(w, IF ~tenantLive THEN "noTenant"
               ELSE IF doc[held[w]] = "ready" THEN "alreadyReady"
               ELSE "index")
    /\ UNCHANGED <<rows, held, attempt, marks, doc, tenantLive, api, indexed,
                   budget>>

CompleteReadyJob(w) ==
    /\ pc[w] = "alreadyReady"
    /\ CompleteTx(held[w])
    /\ Release(w)
    /\ UNCHANGED <<doc, tenantLive, api, indexed, budget>>

\* The heartbeat thread lives while _active_job_heartbeat is entered.
Heartbeat(w) ==
    /\ pc[w] \in {"index", "status"}
    /\ HeartbeatTx(held[w])
    /\ UNCHANGED <<doc, tenantLive, procs, api, indexed, budget>>

\* parse_document, chunk, embed, _upsert_qdrant and _update_bm25 succeed.
WriteIndex(w) ==
    /\ pc[w] = "index"
    /\ indexed' = [indexed EXCEPT ![held[w]] = @ \cup {attempt[w]}]
    /\ Goto(w, "status")
    /\ UNCHANGED <<rows, doc, tenantLive, held, attempt, marks, api, budget>>

\* Slip: an empty document is marked ready all the same.
IngestNothing_MarksReady(w) ==
    /\ pc[w] = "index"
    /\ Goto(w, "status")
    /\ UNCHANGED <<rows, doc, tenantLive, held, attempt, marks, api, indexed,
                   budget>>

\* The text has no chunks: ingest returns early and the job completes.
IngestNothing(w) ==
    /\ pc[w] = "index"
    /\ Goto(w, "complete")
    /\ UNCHANGED <<rows, doc, tenantLive, held, attempt, marks, api, indexed,
                   budget>>

\* parse_document, embed, Qdrant or the BM25 file raise.
PipelineFails(w) ==
    /\ pc[w] = "index"
    /\ Goto(w, "fail")
    /\ UNCHANGED <<rows, doc, tenantLive, held, attempt, marks, api, indexed,
                   budget>>

UpdateStatus(w) ==
    /\ pc[w] = "status"
    /\ doc' = IF doc[held[w]] = "absent" THEN doc
              ELSE [doc EXCEPT ![held[w]] = "ready"]
    /\ Goto(w, "complete")
    /\ UNCHANGED <<rows, tenantLive, held, attempt, marks, api, indexed,
                   budget>>

CompleteJob(w) ==
    /\ pc[w] = "complete"
    /\ CompleteTx(held[w])
    /\ Release(w)
    /\ UNCHANGED <<doc, tenantLive, api, indexed, budget>>

\* Slip: the document is marked on every failure, retried or not.
FailJob_MarksAlways(w) ==
    /\ pc[w] \in {"fail", "noTenant"}
    /\ FailTx(held[w], pc[w] = "fail")
    /\ Goto(w, "mark")
    /\ marks' = [marks EXCEPT ![w] = {held[w]}]
    /\ UNCHANGED <<held, attempt, doc, tenantLive, api, indexed, budget>>

\* fail_job, with retry after an exception and without when the tenant is
\* gone; only a row that became 'failed' has its document marked.
FailJob(w) ==
    /\ pc[w] \in {"fail", "noTenant"}
    /\ LET j == held[w]
           retry == pc[w] = "fail"
       IN /\ FailTx(j, retry)
          /\ IF status[j] = "absent" \/ WillRetry(j, retry)
             THEN Release(w)
             ELSE /\ Goto(w, "mark")
                  /\ marks' = [marks EXCEPT ![w] = {j}]
                  /\ UNCHANGED <<held, attempt>>
    /\ UNCHANGED <<doc, tenantLive, api, indexed, budget>>

MarkDocumentError(w) ==
    /\ pc[w] = "mark"
    /\ SetError(held[w])
    /\ Release(w)
    /\ UNCHANGED <<rows, tenantLive, api, indexed, budget>>

WorkerStep(w) ==
    \/ RecoverStaleJobs(w) \/ MarkStaleDocument(w)
    \/ PickNextJob(w) \/ PickNothing(w)
    \/ CheckJob(w) \/ CompleteReadyJob(w)
    \/ WriteIndex(w) \/ IngestNothing(w) \/ PipelineFails(w)
    \/ UpdateStatus(w) \/ CompleteJob(w)
    \/ FailJob(w) \/ MarkDocumentError(w)

-----------------------------------------------------------------------------
(* Failures.  A transaction may raise before it commits, or after: the      *)
(* server commits and the acknowledgement is lost.                          *)

\* The exception leaves _process_job or the loop body: the job keeps its row.
LoseTransaction(w) ==
    /\ pc[w] \in {"markStale", "check", "noTenant", "alreadyReady", "fail",
                  "mark"}
    /\ DbFault
    /\ Release(w)
    /\ UNCHANGED <<rows, doc, tenantLive, api, indexed, crashes>>

\* An exception of complete_job is handled like one of the pipeline.
LoseCompletion(w) ==
    /\ pc[w] = "complete"
    /\ DbFault
    /\ UNCHANGED rows \/ CompleteTx(held[w])
    /\ Goto(w, "fail")
    /\ UNCHANGED <<held, attempt, marks, doc, tenantLive, api, indexed,
                   crashes>>

\* _update_postgres_status logs its exception and returns.
LoseStatusUpdate(w) ==
    /\ pc[w] = "status"
    /\ DbFault
    /\ Goto(w, "complete")
    /\ UNCHANGED <<rows, held, attempt, marks, doc, tenantLive, api, indexed,
                   crashes>>

\* Committed without acknowledgement.
LoseAcknowledgement(w) ==
    /\ DbFault
    /\ \/ pc[w] = "recover" /\ RecoverTx
       \/ pc[w] = "pick" /\ \E j \in Jobs : Oldest(j) /\ PickTx(j)
       \/ pc[w] = "alreadyReady" /\ CompleteTx(held[w])
       \/ pc[w] = "fail" /\ FailTx(held[w], TRUE)
    /\ Release(w)
    /\ UNCHANGED <<doc, tenantLive, api, indexed, crashes>>

\* The process dies: worker, heartbeat and upload handler die with it.
Crash(w) ==
    /\ pc[w] # "down"
    /\ crashes < MaxCrashes
    /\ crashes' = crashes + 1
    /\ Goto(w, "down")
    /\ held' = [held EXCEPT ![w] = NoJob]
    /\ attempt' = [attempt EXCEPT ![w] = 0]
    /\ marks' = [marks EXCEPT ![w] = {}]
    /\ upload' = [upload EXCEPT ![w] = "none"]
    /\ uploading' = [uploading EXCEPT ![w] = NoJob]
    /\ UNCHANGED <<rows, doc, tenantLive, created, indexed, dbFaults>>

Restart(w) ==
    /\ pc[w] = "down"
    /\ Release(w)
    /\ UNCHANGED <<rows, doc, tenantLive, api, indexed, budget>>

\* Time passes for the rows.  With PausesBounded, no live worker lets the
\* heartbeat of the job it is processing grow older than StaleTimeout.
Tick ==
    /\ PausesBounded =>
          \A w \in Workers :
             Busy(w) /\ status[held[w]] = "processing"
                => age[held[w]] < StaleTimeout
    /\ age' = [j \in Jobs |->
                 IF status[j] = "processing" /\ age[j] <= StaleTimeout
                 THEN age[j] + 1 ELSE age[j]]
    /\ wait' = [j \in Jobs |-> IF wait[j] > 0 THEN wait[j] - 1 ELSE wait[j]]
    /\ UNCHANGED <<status, attempts, doc, tenantLive, procs, api, indexed,
                   budget>>

-----------------------------------------------------------------------------
(* The API.  A handler without an await is one stretch of the event loop,   *)
(* cut here at its transactions; one upload is in progress at a time, so    *)
(* that job numbers follow created_at.                                      *)

\* INSERT INTO documents ... 'processing'.
InsertDocument(w) ==
    /\ pc[w] # "down"
    /\ \A v \in Workers : upload[v] = "none"
    /\ tenantLive
    /\ created < JobCount
    /\ created' = created + 1
    /\ doc' = [doc EXCEPT ![created + 1] = "processing"]
    /\ upload' = [upload EXCEPT ![w] = "inserted"]
    /\ uploading' = [uploading EXCEPT ![w] = created + 1]
    /\ UNCHANGED <<rows, tenantLive, procs, indexed, budget>>

EndUpload(w) ==
    /\ upload' = [upload EXCEPT ![w] = "none"]
    /\ uploading' = [uploading EXCEPT ![w] = NoJob]
    /\ UNCHANGED created

\* enqueue_job; a document or tenant deleted meanwhile fails the foreign key.
EnqueueJob(w) ==
    /\ upload[w] = "inserted"
    /\ IF doc[uploading[w]] # "absent"
       THEN EnqueueTx(uploading[w]) /\ EndUpload(w)
       ELSE /\ upload' = [upload EXCEPT ![w] = "rollback"]
            /\ UNCHANGED <<rows, uploading, created>>
    /\ UNCHANGED <<doc, tenantLive, procs, indexed, budget>>

\* Saving the file, or the INSERT, raises; the INSERT may have committed.
UploadFails(w) ==
    /\ upload[w] = "inserted"
    /\ DbFault
    /\ \/ UNCHANGED rows
       \/ doc[uploading[w]] # "absent" /\ EnqueueTx(uploading[w])
    /\ upload' = [upload EXCEPT ![w] = "rollback"]
    /\ UNCHANGED <<uploading, created, doc, tenantLive, procs, indexed,
                   crashes>>

\* DELETE FROM documents WHERE id=j, and ON DELETE CASCADE its job.
DeleteTx(S) ==
    /\ doc' = [j \in Jobs |-> IF j \in S THEN "absent" ELSE doc[j]]
    /\ status' = [j \in Jobs |-> IF j \in S THEN "absent" ELSE status[j]]
    /\ attempts' = [j \in Jobs |-> IF j \in S THEN 0 ELSE attempts[j]]
    /\ age' = [j \in Jobs |-> IF j \in S THEN 0 ELSE age[j]]
    /\ wait' = [j \in Jobs |-> IF j \in S THEN 0 ELSE wait[j]]

\* Slip: the failed upload forgets the row it inserted.
RollbackUpload_KeepsRow(w) ==
    /\ upload[w] = "rollback"
    /\ EndUpload(w)
    /\ UNCHANGED <<rows, doc, tenantLive, procs, indexed, budget>>

\* _delete_document_row is best effort: its exception is logged.
RollbackUpload(w) ==
    /\ upload[w] = "rollback"
    /\ \/ DeleteTx({uploading[w]}) /\ UNCHANGED budget
       \/ DbFault /\ UNCHANGED <<rows, doc, crashes>>
    /\ EndUpload(w)
    /\ UNCHANGED <<tenantLive, procs, indexed>>

DeleteDocument(w, j) ==
    /\ pc[w] # "down" /\ upload[w] = "none"
    /\ doc[j] # "absent"
    /\ DeleteTx({j})
    /\ UNCHANGED <<tenantLive, procs, api, indexed, budget>>

DeleteTenant(w) ==
    /\ pc[w] # "down" /\ upload[w] = "none"
    /\ tenantLive
    /\ tenantLive' = FALSE
    /\ DeleteTx(Jobs)
    /\ UNCHANGED <<procs, api, indexed, budget>>

UploadStep(w) == EnqueueJob(w) \/ RollbackUpload(w)

-----------------------------------------------------------------------------
Next ==
    \/ Tick
    \/ \E w \in Workers :
          \/ WorkerStep(w) \/ Heartbeat(w)
          \/ LoseTransaction(w) \/ LoseCompletion(w)
          \/ LoseStatusUpdate(w) \/ LoseAcknowledgement(w)
          \/ Crash(w) \/ Restart(w)
          \/ InsertDocument(w) \/ UploadStep(w) \/ UploadFails(w)
          \/ DeleteTenant(w)
          \/ \E j \in Jobs : DeleteDocument(w, j)

Spec == Init /\ [][Next]_vars

\* The loop thread is never blocked for ever, a dead process is restarted
\* (restart: unless-stopped), handlers finish, time passes.
Fairness ==
    /\ WF_vars(Tick)
    /\ \A w \in Workers :
          /\ WF_vars(WorkerStep(w))
          /\ WF_vars(Restart(w))
          /\ WF_vars(UploadStep(w))

FairSpec == Spec /\ Fairness

-----------------------------------------------------------------------------
(* Properties.                                                              *)

TypeOK ==
    /\ status \in [Jobs -> Statuses]
    /\ attempts \in [Jobs -> 0..MaxAttempts]
    /\ age \in [Jobs -> 0..(StaleTimeout + 1)]
    /\ wait \in [Jobs -> 0..RetryDelay]
    /\ doc \in [Jobs -> {"absent", "processing", "ready", "error"}]
    /\ tenantLive \in BOOLEAN
    /\ pc \in [Workers -> WorkerPC]
    /\ held \in [Workers -> Jobs \cup {NoJob}]
    /\ attempt \in [Workers -> 0..MaxAttempts]
    /\ marks \in [Workers -> SUBSET Jobs]
    /\ upload \in [Workers -> {"none", "inserted", "rollback"}]
    /\ uploading \in [Workers -> Jobs \cup {NoJob}]
    /\ created \in 0..JobCount
    /\ indexed \in [Jobs -> SUBSET (1..MaxAttempts)]
    /\ crashes \in 0..MaxCrashes
    /\ dbFaults \in 0..MaxDbFaults

\* No job is stranded: pick_next_job ignores a pending row whose attempts are
\* spent and recover_stale_jobs looks at processing rows only, so such a row
\* would stay pending for ever, whatever sequence of failures led to it.
PendingJobsHaveAttemptsLeft ==
    \A j \in Jobs : status[j] = "pending" => attempts[j] < MaxAttempts

\* Two workers may meet on a job (a paused worker whose job was recovered),
\* but never in the same attempt: each run of the pipeline was paid for by an
\* increment of attempts that no other run used.
AttemptsAreExclusive ==
    \A v, w \in Workers :
        v # w /\ Busy(v) /\ Busy(w) /\ held[v] = held[w]
            => attempt[v] # attempt[w]

\* The pipeline writes the index of a document in charged attempts only, so
\* never more than max_attempts times over all crashes, recoveries and retries.
IndexWritesAreCharged ==
    \A j \in Jobs : status[j] # "absent" => indexed[j] \subseteq 1..attempts[j]

\* While no pause outlasts StaleTimeout, a job is in the hands of one worker
\* at most: neither recovery nor a retry hands it out a second time.
NoDoubleProcessing ==
    \A v, w \in Workers :
        v # w /\ Busy(v) /\ Busy(w) => held[v] # held[w]

\* A document is 'ready' only if some attempt wrote its index.
ReadyIsIndexed ==
    \A j \in Jobs : doc[j] = "ready" => indexed[j] # {}

\* While no pause outlasts StaleTimeout, a document is shown as 'error' only
\* when its job really ended as failed, never while it may still be retried.
ErrorMeansFailedJob ==
    \A j \in Jobs : doc[j] = "error" => status[j] = "failed"

\* Without a crash, one failed step of an upload never leaves a document that
\* is 'processing' with no job that could ever finish it, deletions included.
ProcessingHasJob ==
    \A j \in Jobs :
        /\ crashes = 0 /\ dbFaults <= 1
        /\ doc[j] = "processing" /\ (\A w \in Workers : uploading[w] # j)
        => status[j] # "absent"

\* Every queued job is eventually completed, failed or deleted, through every
\* bounded run of crashes and database failures.
EveryJobSettles ==
    \A j \in Jobs :
        status[j] = "pending" ~> status[j] \in {"completed", "failed", "absent"}

\* What _mark_document_error is for: it reports a terminal ingestion failure,
\* so a document whose ingestion succeeded does not become 'error'.
ReadyIsNotMarkedError ==
    [][\A j \in Jobs : doc[j] = "ready" => doc'[j] # "error"]_doc
=============================================================================
