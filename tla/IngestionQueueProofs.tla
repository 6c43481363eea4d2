------------------------ MODULE IngestionQueueProofs ------------------------
(***************************************************************************)
(* Safety of IngestionQueue for every number of jobs, every set of worker  *)
(* processes, every limit and every budget of failures, with or without    *)
(* the bound on pauses: jobs first, then what is promised for documents.   *)
(* While no pause outlasts StaleTimeout, a job is in one pair of hands and *)
(* the rows of ingestion_jobs implement JobLifecycle.                      *)
(***************************************************************************)
EXTENDS IngestionQueueRefinement, TLAPS

\* A worker that owes a job a commit holds the attempt it was charged for.
BusyWorkersAreCharged ==
    \A w \in Workers :
        /\ Busy(w) \/ pc[w] = "mark" => held[w] \in Jobs
        /\ Busy(w) => /\ attempt[w] >= 1
                      /\ status[held[w]] # "absent"
                            => attempt[w] <= attempts[held[w]]

\* A job that never had a row: not charged, not indexed, in nobody's hands.
Untouched(j) ==
    /\ status[j] = "absent"
    /\ indexed[j] = {}
    /\ \A v \in Workers : Busy(v) => held[v] # j

AbsentJobsAreUncharged ==
    \A j \in Jobs : status[j] = "absent" => attempts[j] = 0

UploadsAreFresh ==
    /\ \A j \in Jobs : j > created => Untouched(j)
    /\ \A w \in Workers :
          /\ upload[w] # "none" => uploading[w] \in Jobs
          /\ upload[w] = "inserted" => Untouched(uploading[w])
    /\ \A v, w \in Workers : upload[v] # "none" /\ upload[w] # "none" => v = w
    /\ \A w \in Workers : upload[w] # "none" => uploading[w] <= created

\* The inductive invariant.  TypeOK is not inductive alone: an attempt that
\* writes the index must be a charged one, and the row a worker names exists.
QueueInv ==
    /\ TypeOK
    /\ PendingJobsHaveAttemptsLeft
    /\ AbsentJobsAreUncharged
    /\ BusyWorkersAreCharged
    /\ IndexWritesAreCharged
    /\ AttemptsAreExclusive
    /\ UploadsAreFresh

\* No row, no worker in a job and no upload: the empty queue satisfies the
\* invariant.
THEOREM InitEstablishesInv == Init => QueueInv
BY QueueAssumption DEF Init, QueueInv, TypeOK, PendingJobsHaveAttemptsLeft,
   AbsentJobsAreUncharged, BusyWorkersAreCharged, IndexWritesAreCharged,
   AttemptsAreExclusive, UploadsAreFresh, Untouched, Busy, BusyPC, WorkerPC,
   Statuses, Jobs, NoJob

\* The transactions keep the row types; Runnable bounds the new attempt.
RowsTyped ==
    /\ status \in [Jobs -> Statuses]
    /\ attempts \in [Jobs -> 0..MaxAttempts]
    /\ age \in [Jobs -> 0..(StaleTimeout + 1)]
    /\ wait \in [Jobs -> 0..RetryDelay]

\* pick_next_job charges an attempt that max_attempts allows.
LEMMA PickTyped ==
    ASSUME TypeOK, NEW j \in Jobs, Runnable(j), PickTx(j)
    PROVE  RowsTyped' /\ attempts[j] + 1 \in 1..MaxAttempts
BY QueueAssumption DEF TypeOK, RowsTyped, Runnable, PickTx, Statuses

\* recover_stale_jobs keeps the rows well-formed and fails existing jobs only.
LEMMA RecoverTyped ==
    ASSUME TypeOK, RecoverTx
    PROVE  RowsTyped' /\ ExhaustedJobs \subseteq Jobs
BY QueueAssumption DEF TypeOK, RowsTyped, RecoverTx, RecoverRows, Statuses,
   ExhaustedJobs, StaleJobs

\* complete_job keeps the rows well-formed, whichever row it names.
LEMMA CompleteTyped ==
    ASSUME TypeOK, NEW j, CompleteTx(j)
    PROVE  RowsTyped'
BY QueueAssumption DEF TypeOK, RowsTyped, CompleteTx, Statuses, rows

\* fail_job keeps the rows well-formed, with and without a retry.
LEMMA FailTyped ==
    ASSUME TypeOK, NEW j, NEW retry \in BOOLEAN, FailTx(j, retry)
    PROVE  RowsTyped'
BY QueueAssumption DEF TypeOK, RowsTyped, FailTx, WillRetry, Statuses, rows

\* Deleting documents, with the jobs they cascade to, keeps the rows
\* well-formed.
LEMMA DeleteTyped ==
    ASSUME TypeOK, NEW S, DeleteTx(S)
    PROVE  /\ RowsTyped'
           /\ doc' \in [Jobs -> {"absent", "processing", "ready", "error"}]
BY QueueAssumption DEF TypeOK, RowsTyped, DeleteTx, Statuses

\* No step of a worker, a handler or time leaves the types.
LEMMA TypePreserved ==
    ASSUME QueueInv, Next
    PROVE  TypeOK'
<1>1. TypeOK
  BY DEF QueueInv
<1> USE <1>1, QueueAssumption DEF TypeOK, Statuses, WorkerPC, NoJob
<1>2. ASSUME NEW w \in Workers, RecoverStaleJobs(w)
      PROVE  TypeOK'
  BY <1>2 DEF RecoverStaleJobs, RecoverTx, RecoverRows, StaleJobs,
     ExhaustedJobs, Goto, rows, procs, api, budget
<1>3. ASSUME NEW w \in Workers, MarkStaleDocument(w)
      PROVE  TypeOK'
  <2>1. dbFaults' \in 0..MaxDbFaults /\ crashes' \in 0..MaxCrashes
    BY <1>3 DEF MarkStaleDocument, DbFault, budget
  <2>2. QED
    BY <1>3, <2>1 DEF MarkStaleDocument, SetError, Goto, rows, procs, api
<1>4. ASSUME NEW w \in Workers, PickNextJob(w)
      PROVE  TypeOK'
  <2>1. PICK j \in Jobs : /\ Runnable(j) /\ PickTx(j)
                        /\ held' = [held EXCEPT ![w] = j]
                        /\ attempt' = [attempt EXCEPT ![w] = attempts[j] + 1]
    BY <1>4 DEF PickNextJob, Oldest
  <2>2. RowsTyped' /\ attempts[j] + 1 \in 1..MaxAttempts
    BY <2>1, PickTyped
  <2>3. QED
    BY <2>1, <2>2, <1>4 DEF PickNextJob, RowsTyped, Goto, api, budget
<1>5. ASSUME NEW w \in Workers, PickNothing(w)
      PROVE  TypeOK'
  BY <1>5 DEF PickNothing, Goto, rows, procs, api, budget
<1>6. ASSUME NEW w \in Workers, CheckJob(w)
      PROVE  TypeOK'
  BY <1>6 DEF CheckJob, Goto, rows, procs, api, budget
<1>7. ASSUME NEW w \in Workers, CompleteReadyJob(w)
      PROVE  TypeOK'
  <2>1. RowsTyped'
    BY CompleteTyped, <1>7 DEF CompleteReadyJob
  <2>2. QED
    BY <2>1, <1>7 DEF CompleteReadyJob, RowsTyped, Release, Goto, api, budget
<1>8. ASSUME NEW w \in Workers, WriteIndex(w)
      PROVE  TypeOK'
  <2>1. attempt[w] \in 1..MaxAttempts
    BY <1>8 DEF WriteIndex, QueueInv, BusyWorkersAreCharged, Busy, BusyPC
  <2>2. indexed' \in [Jobs -> SUBSET (1..MaxAttempts)]
    BY <2>1, <1>8 DEF WriteIndex
  <2>3. QED
    BY <2>2, <1>8 DEF WriteIndex, Goto, rows, api, budget
<1>9. ASSUME NEW w \in Workers, IngestNothing(w)
      PROVE  TypeOK'
  BY <1>9 DEF IngestNothing, Goto, rows, procs, api, budget
<1>10. ASSUME NEW w \in Workers, PipelineFails(w)
      PROVE  TypeOK'
  BY <1>10 DEF PipelineFails, Goto, rows, procs, api, budget
<1>11. ASSUME NEW w \in Workers, UpdateStatus(w)
      PROVE  TypeOK'
  BY <1>11 DEF UpdateStatus, Goto, rows, procs, api, budget
<1>12. ASSUME NEW w \in Workers, CompleteJob(w)
      PROVE  TypeOK'
  <2>1. RowsTyped'
    BY CompleteTyped, <1>12 DEF CompleteJob
  <2>2. QED
    BY <2>1, <1>12 DEF CompleteJob, RowsTyped, Release, Goto, api, budget
<1>13. ASSUME NEW w \in Workers, FailJob(w)
      PROVE  TypeOK'
  <2>1. held[w] \in Jobs
    BY <1>13 DEF FailJob, QueueInv, BusyWorkersAreCharged, Busy, BusyPC
  <2>2. RowsTyped'
    BY FailTyped, <1>13 DEF FailJob
  <2>3. /\ pc' \in [Workers -> WorkerPC]
        /\ marks' \in [Workers -> SUBSET Jobs]
        /\ held' \in [Workers -> Jobs \cup {NoJob}]
        /\ attempt' \in [Workers -> 0..MaxAttempts]
    <3> DEFINE gone == \/ status[held[w]] = "absent"
                       \/ WillRetry(held[w], pc[w] = "fail")
    <3>1. CASE gone
      <4>1. Release(w)
        BY <3>1, <1>13 DEF FailJob
      <4>2. QED
        BY <4>1 DEF Release, Goto
    <3>2. CASE ~gone
      BY <2>1, <3>2, <1>13 DEF FailJob, Goto
    <3>3. QED
      BY <3>1, <3>2
  <2>4. QED
    BY <2>2, <2>3, <1>13 DEF FailJob, RowsTyped, api, budget
<1>14. ASSUME NEW w \in Workers, MarkDocumentError(w)
      PROVE  TypeOK'
  <2>1. doc' \in [Jobs -> {"absent", "processing", "ready", "error"}]
    BY <1>14 DEF MarkDocumentError, SetError
  <2>2. QED
    BY <2>1, <1>14 DEF MarkDocumentError, Release, Goto, rows, api, budget
<1>15. ASSUME NEW w \in Workers, Heartbeat(w)
      PROVE  TypeOK'
  <2>1. 0 \in 0..(StaleTimeout + 1)
    OBVIOUS
  <2>2. age' \in [Jobs -> 0..(StaleTimeout + 1)]
    BY <2>1, <1>15 DEF Heartbeat, HeartbeatTx
  <2>3. QED
    BY <2>2, <1>15 DEF Heartbeat, HeartbeatTx, procs, api, budget
<1>16. ASSUME NEW w \in Workers, LoseTransaction(w)
      PROVE  TypeOK'
  BY <1>16 DEF LoseTransaction, DbFault, Release, Goto, rows, procs, api,
     budget
<1>17. ASSUME NEW w \in Workers, LoseCompletion(w)
      PROVE  TypeOK'
  <2>1. RowsTyped'
    BY CompleteTyped, <1>17 DEF LoseCompletion, RowsTyped, rows
  <2>2. QED
    BY <2>1, <1>17 DEF LoseCompletion, RowsTyped, DbFault, Goto, api
<1>18. ASSUME NEW w \in Workers, LoseStatusUpdate(w)
      PROVE  TypeOK'
  BY <1>18 DEF LoseStatusUpdate, DbFault, Goto, rows, procs, api, budget
<1>19. ASSUME NEW w \in Workers, LoseAcknowledgement(w)
      PROVE  TypeOK'
  <2>1. RowsTyped'
    BY PickTyped, RecoverTyped, CompleteTyped, FailTyped, <1>19
       DEF LoseAcknowledgement, Oldest
  <2>2. QED
    BY <2>1, <1>19 DEF LoseAcknowledgement, RowsTyped, DbFault, Release, Goto,
       api
<1>20. ASSUME NEW w \in Workers, Crash(w)
      PROVE  TypeOK'
  BY <1>20 DEF Crash, Goto, rows, procs, api, budget
<1>21. ASSUME NEW w \in Workers, Restart(w)
      PROVE  TypeOK'
  BY <1>21 DEF Restart, Release, Goto, rows, procs, api, budget
<1>22. ASSUME NEW w \in Workers, InsertDocument(w)
      PROVE  TypeOK'
  <2>1. created + 1 \in Jobs /\ created' \in 0..JobCount
    BY <1>22 DEF InsertDocument, Jobs
  <2>2. QED
    BY <2>1, <1>22 DEF InsertDocument, rows, procs, budget
<1>23. ASSUME NEW w \in Workers, EnqueueJob(w)
      PROVE  TypeOK'
  BY <1>23 DEF EnqueueJob, EnqueueTx, EndUpload, rows, procs, api, budget
<1>24. ASSUME NEW w \in Workers, RollbackUpload(w)
      PROVE  TypeOK'
  <2>1. /\ RowsTyped'
        /\ doc' \in [Jobs -> {"absent", "processing", "ready", "error"}]
    BY DeleteTyped, <1>24 DEF RollbackUpload, RowsTyped, rows
  <2>2. QED
    BY <2>1, <1>24 DEF RollbackUpload, RowsTyped, EndUpload, DbFault, budget,
       procs
<1>25. ASSUME NEW w \in Workers, UploadFails(w)
      PROVE  TypeOK'
  BY <1>25 DEF UploadFails, DbFault, EnqueueTx, rows, procs, api, budget
<1>26. ASSUME NEW w \in Workers, DeleteTenant(w)
      PROVE  TypeOK'
  <2>1. QED
    BY DeleteTyped, <1>26 DEF DeleteTenant, RowsTyped, procs, api, budget
<1>27. ASSUME NEW w \in Workers, NEW j \in Jobs, DeleteDocument(w, j)
      PROVE  TypeOK'
  BY <1>27, DeleteTyped DEF DeleteDocument, RowsTyped, procs, api, budget
<1>28. CASE Tick
  <2>1. age' \in [Jobs -> 0..(StaleTimeout + 1)]
    BY <1>28 DEF Tick
  <2>2. wait' \in [Jobs -> 0..RetryDelay]
    BY <1>28 DEF Tick
  <2>3. QED
    BY <2>1, <2>2, <1>28 DEF Tick, procs, api, budget
<1>29. QED
  BY <1>2, <1>3, <1>4, <1>5, <1>6, <1>7, <1>8, <1>9, <1>10, <1>11, <1>12,
     <1>13, <1>14, <1>15, <1>16, <1>17, <1>18, <1>19, <1>20, <1>21, <1>22,
     <1>23, <1>24, <1>25, <1>26, <1>27, <1>28 DEF Next, WorkerStep, UploadStep

-----------------------------------------------------------------------------
(* The kinds of step.  Every action changes the rows by one transaction of  *)
(* queue.py or not at all, and leaves every worker with the work it had,    *)
(* unless the worker picks a job.                                           *)

RowStep ==
    \/ UNCHANGED <<status, attempts>>
    \/ RecoverTx
    \/ \E j \in Jobs : Oldest(j) /\ PickTx(j)
    \/ \E j \in Jobs \cup {NoJob} : CompleteTx(j)
    \/ \E j \in Jobs \cup {NoJob}, retry \in BOOLEAN : FailTx(j, retry)
    \/ \E S \in SUBSET Jobs : DeleteTx(S)
    \/ \E w \in Workers : /\ upload[w] = "inserted" /\ EnqueueTx(uploading[w])
                         /\ upload'[w] # "inserted"

\* Whatever a step is, ingestion_jobs changes by one of the transactions of
\* RowStep, or not at all.
LEMMA NextIsRowStep ==
    ASSUME TypeOK, Next
    PROVE  RowStep
<1> USE DEF rows
<1>1. ASSUME NEW w \in Workers, WorkerStep(w)
      PROVE  RowStep
  <2>1. held[w] \in Jobs \cup {NoJob}
    BY DEF TypeOK
  <2>2. CASE RecoverStaleJobs(w)
    BY <2>2 DEF RecoverStaleJobs, RowStep
  <2>3. CASE PickNextJob(w)
    BY <2>3 DEF PickNextJob, RowStep
  <2>4. CASE CompleteReadyJob(w) \/ CompleteJob(w)
    BY <2>1, <2>4 DEF CompleteReadyJob, CompleteJob, RowStep
  <2>5. CASE FailJob(w)
    <3>1. FailTx(held[w], pc[w] = "fail")
      BY <2>5 DEF FailJob
    <3>2. QED
      BY <2>1, <3>1 DEF RowStep
  <2>6. CASE \/ MarkStaleDocument(w) \/ PickNothing(w) \/ CheckJob(w)
             \/ WriteIndex(w) \/ IngestNothing(w) \/ PipelineFails(w)
             \/ UpdateStatus(w) \/ MarkDocumentError(w)
    BY <2>6 DEF MarkStaleDocument, PickNothing, CheckJob, WriteIndex,
       IngestNothing, PipelineFails, UpdateStatus, MarkDocumentError, RowStep
  <2>7. QED
    BY <1>1, <2>2, <2>3, <2>4, <2>5, <2>6 DEF WorkerStep
<1>2. ASSUME NEW w \in Workers, LoseCompletion(w) \/ LoseAcknowledgement(w)
      PROVE  RowStep
  <2>1. held[w] \in Jobs \cup {NoJob}
    BY DEF TypeOK
  <2>2. QED
    BY <1>2, <2>1 DEF LoseCompletion, LoseAcknowledgement, RowStep
<1>3. ASSUME NEW w \in Workers, EnqueueJob(w) \/ UploadFails(w)
      PROVE  RowStep
  BY <1>3 DEF EnqueueJob, UploadFails, EndUpload, RowStep, TypeOK
<1>4. ASSUME NEW w \in Workers, RollbackUpload(w)
      PROVE  RowStep
  <2>1. DeleteTx({uploading[w]}) <=> DeleteTx({uploading[w]} \cap Jobs)
    BY DEF DeleteTx
  <2>2. QED
    BY <1>4, <2>1 DEF RollbackUpload, RowStep
<1>5. ASSUME NEW w \in Workers, DeleteTenant(w)
      PROVE  RowStep
  BY <1>5 DEF DeleteTenant, RowStep
<1>6. ASSUME NEW w \in Workers, NEW j \in Jobs, DeleteDocument(w, j)
      PROVE  RowStep
  BY <1>6 DEF DeleteDocument, RowStep
<1>7. ASSUME NEW w \in Workers,
             \/ Heartbeat(w) \/ LoseTransaction(w) \/ LoseStatusUpdate(w)
             \/ Crash(w) \/ Restart(w) \/ InsertDocument(w)
      PROVE  RowStep
  BY <1>7 DEF Heartbeat, HeartbeatTx, LoseTransaction, LoseStatusUpdate, Crash,
     Restart, InsertDocument, RowStep
<1>8. CASE Tick
  BY <1>8 DEF Tick, RowStep
<1>9. QED
  BY <1>1, <1>2, <1>3, <1>4, <1>5, <1>6, <1>7, <1>8 DEF Next, UploadStep

\* Each of those transactions keeps a pending job runnable and an absent one
\* uncharged.
LEMMA RowsPreserved ==
    ASSUME QueueInv, RowStep, TypeOK'
    PROVE  PendingJobsHaveAttemptsLeft' /\ AbsentJobsAreUncharged'
<1> USE QueueAssumption DEF QueueInv, PendingJobsHaveAttemptsLeft,
        AbsentJobsAreUncharged, TypeOK
<1>1. CASE UNCHANGED <<status, attempts>>
  BY <1>1
<1>2. CASE RecoverTx
  BY <1>2 DEF RecoverTx, RecoverRows, StaleJobs, ExhaustedJobs
<1>3. CASE \E j \in Jobs : Oldest(j) /\ PickTx(j)
  BY <1>3 DEF PickTx, Oldest, Runnable
<1>4. CASE \E j \in Jobs \cup {NoJob} : CompleteTx(j)
  BY <1>4 DEF CompleteTx, rows
<1>5. CASE \E j \in Jobs \cup {NoJob}, retry \in BOOLEAN : FailTx(j, retry)
  BY <1>5 DEF FailTx, WillRetry, rows
<1>6. CASE \E S \in SUBSET Jobs : DeleteTx(S)
  BY <1>6 DEF DeleteTx
<1>7. CASE \E w \in Workers : /\ upload[w] = "inserted"
                             /\ EnqueueTx(uploading[w])
                              /\ upload'[w] # "inserted"
  BY <1>7 DEF EnqueueTx, UploadsAreFresh, Untouched
<1>8. QED
  BY <1>1, <1>2, <1>3, <1>4, <1>5, <1>6, <1>7 DEF RowStep

\* A row that exists keeps its charge, and only a fresh upload creates one.
LEMMA ChargesOnlyGrow ==
    ASSUME QueueInv, RowStep, TypeOK'
    PROVE  \A j \in Jobs :
              status'[j] # "absent" =>
                 /\ attempts[j] <= attempts'[j]
                 /\ status[j] = "absent" =>
                       \E w \in Workers : /\ upload[w] = "inserted"
                                          /\ uploading[w] = j
                                          /\ upload'[w] # "inserted"
<1> USE QueueAssumption DEF QueueInv, TypeOK
<1>1. CASE UNCHANGED <<status, attempts>>
  BY <1>1
<1>2. CASE RecoverTx
  BY <1>2 DEF RecoverTx, RecoverRows, StaleJobs, ExhaustedJobs
<1>3. CASE \E j \in Jobs : Oldest(j) /\ PickTx(j)
  BY <1>3 DEF PickTx, Oldest, Runnable
<1>4. CASE \E j \in Jobs \cup {NoJob} : CompleteTx(j)
  BY <1>4 DEF CompleteTx, rows
<1>5. CASE \E j \in Jobs \cup {NoJob}, retry \in BOOLEAN : FailTx(j, retry)
  BY <1>5 DEF FailTx, rows
<1>6. CASE \E S \in SUBSET Jobs : DeleteTx(S)
  BY <1>6 DEF DeleteTx
<1>7. CASE \E w \in Workers : /\ upload[w] = "inserted"
                             /\ EnqueueTx(uploading[w])
                              /\ upload'[w] # "inserted"
  BY <1>7 DEF EnqueueTx
<1>8. QED
  BY <1>1, <1>2, <1>3, <1>4, <1>5, <1>6, <1>7 DEF RowStep

\* Worker v holds in the next state what it holds in this one, or less.
KeepsWork(v) ==
    /\ Busy(v)' => /\ Busy(v)
                   /\ held'[v] = held[v]
                   /\ attempt'[v] = attempt[v]
    /\ pc'[v] = "mark" => /\ Busy(v) \/ pc[v] = "mark"
                         /\ held'[v] = held[v]

\* Worker w picks job j; the other workers keep their work.
Picks(w, j) ==
    /\ Runnable(j) /\ PickTx(j)
    /\ Busy(w)' /\ held'[w] = j /\ attempt'[w] = attempts[j] + 1
    /\ \A v \in Workers : v # w => KeepsWork(v)
    /\ UNCHANGED <<indexed, upload, uploading, created>>

\* Every step moves the work of one worker at most, in one of a few ways.
LEMMA NextMovesWork ==
    ASSUME TypeOK, Next
    PROVE  \/ \A v \in Workers : KeepsWork(v)
           \/ \E w \in Workers, j \in Jobs : Picks(w, j)
<1> USE DEF TypeOK, KeepsWork, Busy, BusyPC
<1>1. ASSUME NEW w \in Workers, WorkerStep(w), ~PickNextJob(w)
      PROVE  \A v \in Workers : KeepsWork(v)
  <2>1. CASE RecoverStaleJobs(w)
    BY <2>1 DEF RecoverStaleJobs, Goto
  <2>2. CASE MarkStaleDocument(w)
    BY <2>2 DEF MarkStaleDocument, Goto
  <2>3. CASE PickNothing(w) \/ CheckJob(w)
    BY <2>3 DEF PickNothing, CheckJob, Goto
  <2>4. CASE CompleteReadyJob(w) \/ CompleteJob(w) \/ MarkDocumentError(w)
    BY <2>4 DEF CompleteReadyJob, CompleteJob, MarkDocumentError, Release, Goto
  <2>5. CASE WriteIndex(w) \/ IngestNothing(w) \/ PipelineFails(w)
    BY <2>5 DEF WriteIndex, IngestNothing, PipelineFails, Goto
  <2>6. CASE UpdateStatus(w)
    BY <2>6 DEF UpdateStatus, Goto
  <2>7. CASE FailJob(w)
    BY <2>7 DEF FailJob, Release, Goto
  <2>8. QED
    BY <1>1, <2>1, <2>2, <2>3, <2>4, <2>5, <2>6, <2>7 DEF WorkerStep
<1>2. ASSUME NEW w \in Workers, PickNextJob(w)
      PROVE  \E j \in Jobs : Picks(w, j)
  BY <1>2 DEF PickNextJob, Oldest, Picks, Goto, api
<1>3. ASSUME NEW w \in Workers,
             \/ LoseTransaction(w) \/ LoseCompletion(w)
             \/ LoseStatusUpdate(w) \/ LoseAcknowledgement(w)
      PROVE  \A v \in Workers : KeepsWork(v)
  BY <1>3 DEF LoseTransaction, LoseCompletion, LoseStatusUpdate,
     LoseAcknowledgement, Release, Goto
<1>4. ASSUME NEW w \in Workers, Crash(w) \/ Restart(w)
      PROVE  \A v \in Workers : KeepsWork(v)
  BY <1>4 DEF Crash, Restart, Release, Goto
<1>5. ASSUME NEW w \in Workers,
             \/ Heartbeat(w) \/ InsertDocument(w) \/ EnqueueJob(w)
             \/ RollbackUpload(w) \/ UploadFails(w) \/ DeleteTenant(w)
             \/ \E j \in Jobs : DeleteDocument(w, j)
      PROVE  \A v \in Workers : KeepsWork(v)
  BY <1>5 DEF Heartbeat, InsertDocument, EnqueueJob, RollbackUpload,
     UploadFails, DeleteTenant, DeleteDocument, procs
<1>6. CASE Tick
  BY <1>6 DEF Tick, procs
<1>7. QED
  BY <1>1, <1>2, <1>3, <1>4, <1>5, <1>6 DEF Next, UploadStep

\* A busy worker keeps a charged attempt of its own: another worker that picks
\* the job is charged a higher one.
LEMMA WorkersPreserved ==
    ASSUME QueueInv, Next, RowStep, TypeOK'
    PROVE  BusyWorkersAreCharged' /\ AttemptsAreExclusive'
<1>1. \A j \in Jobs :
         status'[j] # "absent" =>
            /\ attempts[j] <= attempts'[j]
            /\ status[j] = "absent" =>
                  \E w \in Workers : upload[w] = "inserted" /\ uploading[w] = j
                                     /\ upload'[w] # "inserted"
  BY ChargesOnlyGrow
<1>2. \A v \in Workers : Busy(v) /\ status[held[v]] = "absent"
         => status'[held[v]] = "absent"
  BY <1>1 DEF QueueInv, BusyWorkersAreCharged, UploadsAreFresh, Untouched
<1>3. CASE \A v \in Workers : KeepsWork(v)
  <2>1. BusyWorkersAreCharged'
    BY <1>1, <1>2, <1>3 DEF QueueInv, BusyWorkersAreCharged, KeepsWork, TypeOK
  <2>2. AttemptsAreExclusive'
    BY <1>3 DEF QueueInv, AttemptsAreExclusive, KeepsWork
  <2>3. QED
    BY <2>1, <2>2
<1>4. ASSUME NEW w \in Workers, NEW j \in Jobs, Picks(w, j)
      PROVE  BusyWorkersAreCharged' /\ AttemptsAreExclusive'
  <2>1. /\ status[j] = "pending" /\ attempts[j] \in Nat
        /\ attempts'[j] = attempts[j] + 1
    BY <1>4, QueueAssumption DEF Picks, Runnable, PickTx, QueueInv, TypeOK
  <2>2. \A v \in Workers : Busy(v) /\ held[v] = j => attempt[v] <= attempts[j]
    BY <2>1 DEF QueueInv, BusyWorkersAreCharged
  <2>3. BusyWorkersAreCharged'
    <3>1. pc'[w] # "mark"
      BY <1>4 DEF Picks, Busy, BusyPC
    <3>2. QED
      BY <1>1, <1>2, <1>4, <2>1, <3>1
         DEF QueueInv, BusyWorkersAreCharged, KeepsWork, Picks, TypeOK
  <2>4. \A v \in Workers : v # w /\ Busy(v)' /\ held'[v] = j
                             => attempt'[v] # attempt'[w]
    BY <1>4, <2>1, <2>2, QueueAssumption DEF Picks, KeepsWork, QueueInv, TypeOK
  <2>5. AttemptsAreExclusive'
    BY <1>4, <2>4 DEF QueueInv, AttemptsAreExclusive, KeepsWork, Picks
  <2>6. QED
    BY <2>3, <2>5
<1>5. QED
  BY <1>3, <1>4, NextMovesWork DEF QueueInv

\* The index of a document grows only in the hands of a busy worker, by the
\* attempt that worker was charged for.
LEMMA IndexGrowsByCharge ==
    ASSUME TypeOK, Next
    PROVE  \/ UNCHANGED indexed
           \/ \E w \in Workers :
                 /\ pc[w] = "index" /\ UNCHANGED <<rows, api>>
                 /\ indexed' = [indexed EXCEPT ![held[w]] = @ \cup {attempt[w]}]
<1>1. ASSUME NEW w \in Workers, WorkerStep(w), ~WriteIndex(w)
      PROVE  UNCHANGED indexed
  BY <1>1 DEF WorkerStep, RecoverStaleJobs, MarkStaleDocument, PickNextJob,
     PickNothing, CheckJob, CompleteReadyJob, IngestNothing, PipelineFails,
     UpdateStatus, CompleteJob, FailJob, MarkDocumentError
<1>2. ASSUME NEW w \in Workers, WriteIndex(w)
      PROVE  /\ pc[w] = "index" /\ UNCHANGED <<rows, api>>
             /\ indexed' = [indexed EXCEPT ![held[w]] = @ \cup {attempt[w]}]
  BY <1>2 DEF WriteIndex
<1>3. QED
  BY <1>1, <1>2 DEF Next, UploadStep, Heartbeat, LoseTransaction,
     LoseCompletion, LoseStatusUpdate, LoseAcknowledgement, Crash, Restart,
     InsertDocument, EnqueueJob, RollbackUpload, UploadFails, DeleteTenant,
     DeleteDocument, Tick

\* The attempts that wrote an index stay within the charged ones.
LEMMA IndexPreserved ==
    ASSUME QueueInv, Next, RowStep, TypeOK'
    PROVE  IndexWritesAreCharged'
<1>1. \A j \in Jobs :
         status'[j] # "absent" =>
            /\ attempts[j] <= attempts'[j]
            /\ status[j] = "absent" =>
                  \E w \in Workers : upload[w] = "inserted" /\ uploading[w] = j
                                     /\ upload'[w] # "inserted"
  BY ChargesOnlyGrow
<1>2. CASE UNCHANGED indexed
  <2>1. \A j \in Jobs :
           status'[j] # "absent" => indexed[j] \subseteq 1..attempts[j]
    BY <1>1 DEF QueueInv, IndexWritesAreCharged, UploadsAreFresh, Untouched
  <2>2. QED
    BY <1>1, <1>2, <2>1, QueueAssumption
       DEF IndexWritesAreCharged, QueueInv, TypeOK
<1>3. ASSUME NEW w \in Workers, pc[w] = "index", UNCHANGED <<rows, api>>,
             indexed' = [indexed EXCEPT ![held[w]] = @ \cup {attempt[w]}]
      PROVE  IndexWritesAreCharged'
  <2>1. /\ held[w] \in Jobs /\ attempt[w] >= 1 /\ attempt[w] \in Nat
        /\ status[held[w]] # "absent" => attempt[w] <= attempts[held[w]]
    BY <1>3, QueueAssumption
       DEF QueueInv, TypeOK, BusyWorkersAreCharged, Busy, BusyPC
  <2>2. QED
    BY <1>3, <2>1, QueueAssumption
       DEF IndexWritesAreCharged, QueueInv, TypeOK, rows
<1>4. QED
  BY <1>2, <1>3, IndexGrowsByCharge DEF QueueInv

\* An upload in progress goes on with its document, or a new one begins with
\* the next number while none is in progress.
GoesOn(w) ==
    /\ upload[w] # "none" /\ uploading'[w] = uploading[w]
    /\ upload'[w] = "inserted" => upload[w] = "inserted"

Begins(w) ==
    /\ \A v \in Workers : upload[v] = "none"
    /\ \A v \in Workers : v # w => upload'[v] = "none"
    /\ created + 1 \in Jobs
    /\ uploading'[w] = created + 1 /\ created' = created + 1

\* Every step leaves the uploads alone, or starts, moves or ends the one there
\* is.
LEMMA NextMovesUploads ==
    ASSUME TypeOK, Next
    PROVE  /\ created <= created'
           /\ \A w \in Workers : upload'[w] # "none" => GoesOn(w) \/ Begins(w)
<1> USE DEF TypeOK, GoesOn
<1>1. CASE UNCHANGED api
  BY <1>1, QueueAssumption DEF api
<1>2. ASSUME NEW w \in Workers, InsertDocument(w)
      PROVE  /\ created <= created'
             /\ \A v \in Workers : upload'[v] # "none" => GoesOn(v) \/ Begins(v)
  BY <1>2, QueueAssumption DEF InsertDocument, Begins, Jobs
<1>3. ASSUME NEW w \in Workers,
             EnqueueJob(w) \/ UploadFails(w) \/ RollbackUpload(w) \/ Crash(w)
      PROVE  /\ created <= created'
             /\ \A v \in Workers : upload'[v] # "none" => GoesOn(v) \/ Begins(v)
  <2>1. created' = created
    BY <1>3 DEF EnqueueJob, UploadFails, RollbackUpload, Crash, EndUpload
  <2>2. \A v \in Workers : upload'[v] # "none" => GoesOn(v)
    BY <1>3 DEF EnqueueJob, UploadFails, RollbackUpload, Crash, EndUpload
  <2>3. QED
    BY <2>1, <2>2, QueueAssumption
<1>4. ASSUME NEW w \in Workers, WorkerStep(w)
      PROVE  UNCHANGED api
  BY <1>4 DEF WorkerStep, RecoverStaleJobs, MarkStaleDocument, PickNextJob,
     PickNothing, CheckJob, CompleteReadyJob, WriteIndex, IngestNothing,
     PipelineFails, UpdateStatus, CompleteJob, FailJob, MarkDocumentError
<1>5. QED
  BY <1>1, <1>2, <1>3, <1>4 DEF Next, UploadStep, Heartbeat, LoseTransaction,
     LoseCompletion, LoseStatusUpdate, LoseAcknowledgement, Restart,
     DeleteTenant, DeleteDocument, Tick

\* A job without a row stays untouched until it is enqueued.
LEMMA UntouchedPreserved ==
    ASSUME QueueInv, Next, NEW j \in Jobs, Untouched(j), status'[j] = "absent"
    PROVE  Untouched(j)'
<1>1. indexed'[j] = {}
  BY IndexGrowsByCharge DEF QueueInv, TypeOK, Untouched, Busy, BusyPC
<1>2. \A v \in Workers : Busy(v)' => held'[v] # j
  BY NextMovesWork DEF QueueInv, Untouched, KeepsWork, Picks, Runnable
<1>3. QED
  BY <1>1, <1>2 DEF Untouched

\* One upload at a time, and its job is untouched until it is enqueued.
LEMMA UploadsPreserved ==
    ASSUME QueueInv, Next, RowStep, TypeOK'
    PROVE  UploadsAreFresh'
<1> USE QueueAssumption DEF QueueInv, TypeOK
<1>1. \A j \in Jobs :
         status[j] = "absent" /\ status'[j] # "absent" =>
            \E w \in Workers : /\ upload[w] = "inserted" /\ uploading[w] = j
                               /\ upload'[w] # "inserted"
  BY ChargesOnlyGrow
<1>2. /\ created <= created'
      /\ \A w \in Workers : upload'[w] # "none" => GoesOn(w) \/ Begins(w)
  BY NextMovesUploads
<1>3. ASSUME NEW j \in Jobs, j > created'
      PROVE  Untouched(j)'
  <2>1. j > created
    BY <1>2, <1>3 DEF Jobs
  <2>2. Untouched(j)
    BY <2>1 DEF UploadsAreFresh
  <2>3. status'[j] = "absent"
    <3>1. status[j] = "absent"
      BY <2>2 DEF Untouched
    <3>2. \A w \in Workers : upload[w] = "inserted" => uploading[w] <= created
      BY DEF UploadsAreFresh
    <3>3. QED
      BY <1>1, <2>1, <3>1, <3>2 DEF Jobs
  <2>4. QED
    BY <2>2, <2>3, UntouchedPreserved
<1>4. ASSUME NEW w \in Workers, upload'[w] # "none"
      PROVE  uploading'[w] \in Jobs /\ uploading'[w] <= created'
  <2>1. CASE GoesOn(w)
    <3>1. upload[w] # "none" /\ uploading[w] \in Jobs /\ uploading[w] <= created
      BY <2>1 DEF GoesOn, UploadsAreFresh
    <3>2. created \in Int /\ created' \in Int /\ uploading[w] \in Int
      BY <3>1 DEF Jobs
    <3>3. uploading'[w] = uploading[w]
      BY <2>1 DEF GoesOn
    <3>4. created <= created'
      BY <1>2
    <3>5. QED
      BY <3>1, <3>2, <3>3, <3>4
  <2>2. CASE Begins(w)
    BY <2>2 DEF Begins, Jobs
  <2>3. QED
    BY <1>2, <1>4, <2>1, <2>2
<1>5. ASSUME NEW w \in Workers, upload'[w] = "inserted",
             NEW j \in Jobs, uploading'[w] = j
      PROVE  Untouched(j)'
  <2>1. Untouched(j)
    <3>1. CASE GoesOn(w)
      BY <1>5, <3>1 DEF GoesOn, UploadsAreFresh
    <3>2. CASE Begins(w)
      BY <1>5, <3>2 DEF Begins, UploadsAreFresh, Jobs
    <3>3. QED
      BY <1>2, <1>5, <3>1, <3>2
  <2>2. \A v \in Workers :
           upload[v] = "inserted" /\ uploading[v] = j => v = w
    <3>1. CASE GoesOn(w)
      BY <1>5, <3>1 DEF GoesOn, UploadsAreFresh
    <3>2. CASE Begins(w)
      BY <3>2 DEF Begins
    <3>3. QED
      BY <1>2, <1>5, <3>1, <3>2
  <2>3. status'[j] = "absent"
    BY <1>1, <1>5, <2>1, <2>2 DEF Untouched
  <2>4. QED
    BY <2>1, <2>3, UntouchedPreserved
<1>6. \A v, w \in Workers : upload'[v] # "none" /\ upload'[w] # "none" => v = w
  BY <1>2 DEF UploadsAreFresh, GoesOn, Begins
<1>7. /\ \A j \in Jobs : j > created' => Untouched(j)'
      /\ \A w \in Workers : upload'[w] = "inserted" =>
            \A j \in Jobs : uploading'[w] = j => Untouched(j)'
  BY <1>3, <1>5
<1>8. QED
  BY <1>4, <1>6, <1>7 DEF UploadsAreFresh, Untouched

-----------------------------------------------------------------------------
\* The inductive invariant holds in every reachable state.
THEOREM QueueInvariance == Spec => []QueueInv
<1>1. Init => QueueInv
  BY InitEstablishesInv
<1>2. QueueInv /\ [Next]_vars => QueueInv'
  <2>1. ASSUME QueueInv, Next
        PROVE  QueueInv'
    <3>1. TypeOK' /\ RowStep
      BY <2>1, TypePreserved, NextIsRowStep DEF QueueInv
    <3>2. QED
      BY <2>1, <3>1, RowsPreserved, WorkersPreserved, IndexPreserved,
         UploadsPreserved DEF QueueInv
  <2>2. ASSUME QueueInv, UNCHANGED vars
        PROVE  QueueInv'
    BY <2>2 DEF QueueInv, vars, rows, procs, api, budget, TypeOK,
       PendingJobsHaveAttemptsLeft, AbsentJobsAreUncharged,
       BusyWorkersAreCharged, IndexWritesAreCharged, AttemptsAreExclusive,
       UploadsAreFresh, Untouched, Busy
  <2>3. QED
    BY <2>1, <2>2
<1>3. QED
  BY <1>1, <1>2, PTL DEF Spec

\* Every variable keeps its type, the attempts of every job stay within
\* max_attempts: code of pick_next_job, fail_job and recover_stale_jobs.
THEOREM QueueTypeCorrect == Spec => []TypeOK
<1>1. QueueInv => TypeOK
  BY DEF QueueInv
<1>2. QED
  BY <1>1, QueueInvariance, PTL

\* No sequence of failures, recoveries and retries strands a pending job.
THEOREM NoJobIsStranded == Spec => []PendingJobsHaveAttemptsLeft
<1>1. QueueInv => PendingJobsHaveAttemptsLeft
  BY DEF QueueInv
<1>2. QED
  BY <1>1, QueueInvariance, PTL

\* Two workers are never in the same attempt of a job, with no bound on how
\* long a worker may be paused.
THEOREM AttemptsExclusive == Spec => []AttemptsAreExclusive
<1>1. QueueInv => AttemptsAreExclusive
  BY DEF QueueInv
<1>2. QED
  BY <1>1, QueueInvariance, PTL

\* The index of a document is written in charged attempts only.
THEOREM IndexWritesCharged == Spec => []IndexWritesAreCharged
<1>1. QueueInv => IndexWritesAreCharged
  BY DEF QueueInv
<1>2. QED
  BY <1>1, QueueInvariance, PTL
-----------------------------------------------------------------------------
(* Documents, the ownership of jobs, and the refinement of JobLifecycle.    *)

\* A job's row hangs on its document's row, by the foreign key.
JobsHaveDocuments ==
    \A j \in Jobs : doc[j] = "absent" => status[j] = "absent"

\* Documents are numbered as they are inserted, and go with their tenant.
DocumentsExist ==
    \A j \in Jobs :
        doc[j] # "absent" => tenantLive /\ j <= created

\* Between _upsert_qdrant and _update_postgres_status the index is written.
StatusComesAfterIndex ==
    \A w \in Workers : pc[w] = "status" => indexed[held[w]] # {}

\* A handler that names no document is not uploading one; a rollback that
\* found the document there spent a failure.
UploadsAreAccounted ==
    \A w \in Workers :
        /\ upload[w] = "none" <=> uploading[w] = NoJob
        /\ upload[w] = "rollback" =>
              doc[uploading[w]] = "absent" \/ dbFaults >= 1

\* A worker finds no tenant only after its deletion.
NoTenantMeansDeleted ==
    \A w \in Workers : pc[w] = "noTenant" => ~tenantLive

\* The invariant of the documents, pauses bounded or not.
DocumentInv ==
    /\ JobsHaveDocuments
    /\ DocumentsExist
    /\ StatusComesAfterIndex
    /\ ReadyIsIndexed
    /\ UploadsAreAccounted
    /\ ProcessingHasJob
    /\ NoTenantMeansDeleted

\* The row of a job in a worker's hands is gone, or is 'processing' with a
\* heartbeat that recovery does not take for stale, or was completed by a
\* commit whose acknowledgement the worker never saw.
WorkersOwnTheirRows ==
    \A w \in Workers :
        Busy(w) =>
            \/ status[held[w]] = "absent"
            \/ status[held[w]] = "processing" /\ age[held[w]] <= StaleTimeout
            \/ status[held[w]] = "completed" /\ pc[w] = "fail"

\* The documents a worker is about to mark belong to failed jobs, or are gone.
MarksAreFailed ==
    \A w \in Workers :
        /\ \A j \in marks[w] :
              j <= created /\ (doc[j] = "absent" \/ status[j] = "failed")
        /\ pc[w] = "mark" => held[w] \in marks[w]

\* The invariant of the pauses that stay below StaleTimeout.
OwnershipInv ==
    /\ WorkersOwnTheirRows
    /\ NoDoubleProcessing
    /\ MarksAreFailed
    /\ ErrorMeansFailedJob

\* Settling, picking or recovering a job neither creates a row nor deletes one.
LEMMA SettlingKeepsRows ==
    ASSUME TypeOK,
           \/ RecoverTx
           \/ \E j \in Jobs : Oldest(j) /\ PickTx(j)
           \/ \E j \in Jobs \cup {NoJob} : CompleteTx(j)
           \/ \E j \in Jobs \cup {NoJob}, retry \in BOOLEAN : FailTx(j, retry)
    PROVE  \A j \in Jobs : status'[j] = "absent" <=> status[j] = "absent"
<1> USE DEF TypeOK, rows
<1>1. CASE RecoverTx
  BY <1>1 DEF RecoverTx, RecoverRows, StaleJobs, ExhaustedJobs
<1>2. CASE \E j \in Jobs : Oldest(j) /\ PickTx(j)
  BY <1>2 DEF PickTx, Oldest, Runnable
<1>3. CASE \E j \in Jobs \cup {NoJob} : CompleteTx(j)
  BY <1>3 DEF CompleteTx
<1>4. CASE \E j \in Jobs \cup {NoJob}, retry \in BOOLEAN : FailTx(j, retry)
  BY <1>4 DEF FailTx
<1>5. QED
  BY <1>1, <1>2, <1>3, <1>4

\* The index is written before the document is 'ready', whatever comes between.
LEMMA IndexComesFirst ==
    ASSUME QueueInv, DocumentInv, Next
    PROVE  StatusComesAfterIndex' /\ ReadyIsIndexed'
<1>1. /\ TypeOK /\ StatusComesAfterIndex /\ ReadyIsIndexed
      /\ \A w \in Workers : Busy(w) => held[w] \in Jobs
  BY DEF QueueInv, DocumentInv, BusyWorkersAreCharged
<1> USE <1>1 DEF TypeOK, StatusComesAfterIndex, ReadyIsIndexed, Busy, BusyPC,
        rows, procs, api
<1>2. ASSUME NEW w \in Workers, RecoverStaleJobs(w)
      PROVE  StatusComesAfterIndex' /\ ReadyIsIndexed'
  BY <1>2 DEF RecoverStaleJobs, RecoverTx, RecoverRows, StaleJobs,
     ExhaustedJobs, Goto
<1>3. ASSUME NEW w \in Workers, MarkStaleDocument(w)
      PROVE  StatusComesAfterIndex' /\ ReadyIsIndexed'
  BY <1>3 DEF MarkStaleDocument, SetError, DbFault, Goto
<1>4. ASSUME NEW w \in Workers, PickNextJob(w)
      PROVE  StatusComesAfterIndex' /\ ReadyIsIndexed'
  BY <1>4 DEF PickNextJob, Oldest, Runnable, PickTx, Goto
<1>5. ASSUME NEW w \in Workers, PickNothing(w)
      PROVE  StatusComesAfterIndex' /\ ReadyIsIndexed'
  BY <1>5 DEF PickNothing, Goto
<1>6. ASSUME NEW w \in Workers, CheckJob(w)
      PROVE  StatusComesAfterIndex' /\ ReadyIsIndexed'
  BY <1>6 DEF CheckJob, Goto
<1>7. ASSUME NEW w \in Workers, CompleteReadyJob(w)
      PROVE  StatusComesAfterIndex' /\ ReadyIsIndexed'
  BY <1>7 DEF CompleteReadyJob, CompleteTx, Release, Goto
<1>8. ASSUME NEW w \in Workers, WriteIndex(w)
      PROVE  StatusComesAfterIndex' /\ ReadyIsIndexed'
  BY <1>8 DEF WriteIndex, Goto
<1>9. ASSUME NEW w \in Workers, IngestNothing(w)
      PROVE  StatusComesAfterIndex' /\ ReadyIsIndexed'
  BY <1>9 DEF IngestNothing, Goto
<1>10. ASSUME NEW w \in Workers, PipelineFails(w)
      PROVE  StatusComesAfterIndex' /\ ReadyIsIndexed'
  BY <1>10 DEF PipelineFails, Goto
<1>11. ASSUME NEW w \in Workers, UpdateStatus(w)
      PROVE  StatusComesAfterIndex' /\ ReadyIsIndexed'
  BY <1>11 DEF UpdateStatus, Goto
<1>12. ASSUME NEW w \in Workers, CompleteJob(w)
      PROVE  StatusComesAfterIndex' /\ ReadyIsIndexed'
  BY <1>12 DEF CompleteJob, CompleteTx, Release, Goto
<1>13. ASSUME NEW w \in Workers, FailJob(w)
      PROVE  StatusComesAfterIndex' /\ ReadyIsIndexed'
  BY <1>13 DEF FailJob, FailTx, WillRetry, Release, Goto
<1>14. ASSUME NEW w \in Workers, MarkDocumentError(w)
      PROVE  StatusComesAfterIndex' /\ ReadyIsIndexed'
  BY <1>14 DEF MarkDocumentError, SetError, Release, Goto
<1>15. ASSUME NEW w \in Workers, Heartbeat(w)
      PROVE  StatusComesAfterIndex' /\ ReadyIsIndexed'
  BY <1>15 DEF Heartbeat, HeartbeatTx
<1>16. ASSUME NEW w \in Workers, LoseTransaction(w)
      PROVE  StatusComesAfterIndex' /\ ReadyIsIndexed'
  BY <1>16 DEF LoseTransaction, DbFault, Release, Goto
<1>17. ASSUME NEW w \in Workers, LoseCompletion(w)
      PROVE  StatusComesAfterIndex' /\ ReadyIsIndexed'
  BY <1>17 DEF LoseCompletion, DbFault, CompleteTx, Goto
<1>18. ASSUME NEW w \in Workers, LoseStatusUpdate(w)
      PROVE  StatusComesAfterIndex' /\ ReadyIsIndexed'
  BY <1>18 DEF LoseStatusUpdate, DbFault, Goto
<1>19. ASSUME NEW w \in Workers, LoseAcknowledgement(w)
      PROVE  StatusComesAfterIndex' /\ ReadyIsIndexed'
  BY <1>19 DEF LoseAcknowledgement, DbFault, RecoverTx, RecoverRows,
     StaleJobs, ExhaustedJobs, Oldest, Runnable, PickTx, CompleteTx, FailTx,
     WillRetry, Release, Goto
<1>20. ASSUME NEW w \in Workers, Crash(w)
      PROVE  StatusComesAfterIndex' /\ ReadyIsIndexed'
  BY <1>20 DEF Crash, Goto
<1>21. ASSUME NEW w \in Workers, Restart(w)
      PROVE  StatusComesAfterIndex' /\ ReadyIsIndexed'
  BY <1>21 DEF Restart, Release, Goto
<1>22. ASSUME NEW w \in Workers, InsertDocument(w)
      PROVE  StatusComesAfterIndex' /\ ReadyIsIndexed'
  BY <1>22 DEF InsertDocument
<1>23. ASSUME NEW w \in Workers, EnqueueJob(w)
      PROVE  StatusComesAfterIndex' /\ ReadyIsIndexed'
  BY <1>23 DEF EnqueueJob, EnqueueTx, EndUpload
<1>24. ASSUME NEW w \in Workers, RollbackUpload(w)
      PROVE  StatusComesAfterIndex' /\ ReadyIsIndexed'
  BY <1>24 DEF RollbackUpload, DeleteTx, DbFault, EndUpload
<1>25. ASSUME NEW w \in Workers, UploadFails(w)
      PROVE  StatusComesAfterIndex' /\ ReadyIsIndexed'
  BY <1>25 DEF UploadFails, DbFault, EnqueueTx
<1>26. ASSUME NEW w \in Workers, DeleteTenant(w)
      PROVE  StatusComesAfterIndex' /\ ReadyIsIndexed'
  BY <1>26 DEF DeleteTenant, DeleteTx
<1>27. ASSUME NEW w \in Workers, NEW j \in Jobs, DeleteDocument(w, j)
      PROVE  StatusComesAfterIndex' /\ ReadyIsIndexed'
  BY <1>27 DEF DeleteDocument, DeleteTx
<1>28. CASE Tick
  BY <1>28 DEF Tick
<1>29. QED
  BY <1>2, <1>3, <1>4, <1>5, <1>6, <1>7, <1>8, <1>9, <1>10, <1>11, <1>12,
     <1>13, <1>14, <1>15, <1>16, <1>17, <1>18, <1>19, <1>20, <1>21, <1>22,
     <1>23, <1>24, <1>25, <1>26, <1>27, <1>28 DEF Next, WorkerStep,
     UploadStep

\* A step that creates and deletes neither a document nor a job, starts and
\* ends no upload, and restarts no process.
Quiet ==
    /\ \A j \in Jobs : /\ status'[j] = "absent" <=> status[j] = "absent"
                       /\ doc'[j] = "absent" <=> doc[j] = "absent"
                       /\ doc'[j] = "processing" => doc[j] = "processing"
    /\ \A w \in Workers :
          pc'[w] = "noTenant" => pc[w] = "noTenant" \/ ~tenantLive
    /\ dbFaults <= dbFaults'
    /\ UNCHANGED <<tenantLive, api, crashes>>

\* The worker threads, their heartbeats, their failed transactions and time
\* are quiet.
LEMMA WorkersAreQuiet ==
    ASSUME TypeOK, Next
    PROVE  \/ Quiet
           \/ \E w \in Workers :
                 \/ Crash(w) \/ InsertDocument(w) \/ UploadStep(w)
                 \/ UploadFails(w) \/ DeleteTenant(w)
                 \/ \E j \in Jobs : DeleteDocument(w, j)
<1> USE QueueAssumption DEF Quiet
<1>1. dbFaults \in Nat /\ Workers = DOMAIN pc
  BY DEF TypeOK
<1>2. ASSUME NEW w \in Workers,
             \/ RecoverStaleJobs(w) \/ PickNextJob(w) \/ CompleteReadyJob(w)
             \/ CompleteJob(w) \/ FailJob(w)
             \/ LoseCompletion(w) \/ LoseAcknowledgement(w)
      PROVE  Quiet
  <2>1. \A j \in Jobs : status'[j] = "absent" <=> status[j] = "absent"
    <3>1. held[w] \in Jobs \cup {NoJob}
      BY DEF TypeOK
    <3>2. CASE RecoverStaleJobs(w) \/ PickNextJob(w)
      BY <3>2, SettlingKeepsRows DEF RecoverStaleJobs, PickNextJob
    <3>3. CASE CompleteReadyJob(w) \/ CompleteJob(w)
      BY <3>1, <3>3, SettlingKeepsRows DEF CompleteReadyJob, CompleteJob
    <3>4. CASE FailJob(w)
      <4>1. FailTx(held[w], pc[w] = "fail")
        BY <3>4 DEF FailJob
      <4>2. QED
        BY <3>1, <4>1, SettlingKeepsRows
    <3>5. CASE LoseCompletion(w)
      BY <3>1, <3>5, SettlingKeepsRows DEF LoseCompletion, rows
    <3>6. CASE LoseAcknowledgement(w)
      BY <3>1, <3>6, SettlingKeepsRows DEF LoseAcknowledgement
    <3>7. QED
      BY <1>2, <3>2, <3>3, <3>4, <3>5, <3>6
  <2>2. /\ \A v \in Workers : pc'[v] = "noTenant" => pc[v] = "noTenant"
        /\ dbFaults' \in {dbFaults, dbFaults + 1}
        /\ UNCHANGED <<doc, tenantLive, api, crashes>>
    <3> USE <1>1 DEF Goto, Release, budget, DbFault
    <3>1. CASE RecoverStaleJobs(w) \/ PickNextJob(w)
      BY <3>1 DEF RecoverStaleJobs, PickNextJob, TypeOK
    <3>2. CASE CompleteReadyJob(w) \/ CompleteJob(w)
      BY <3>2 DEF CompleteReadyJob, CompleteJob, TypeOK
    <3>3. CASE FailJob(w)
      BY <3>3 DEF FailJob, TypeOK
    <3>4. CASE LoseCompletion(w) \/ LoseAcknowledgement(w)
      BY <3>4 DEF LoseCompletion, LoseAcknowledgement, TypeOK
    <3>5. QED
      BY <1>2, <3>1, <3>2, <3>3, <3>4
  <2>3. dbFaults <= dbFaults'
    BY <1>1, <2>2
  <2>4. QED
    BY <2>1, <2>2, <2>3
<1>3. ASSUME NEW w \in Workers,
             MarkStaleDocument(w) \/ UpdateStatus(w) \/ MarkDocumentError(w)
      PROVE  Quiet
  <2>1. \A j \in Jobs : /\ doc'[j] = "absent" <=> doc[j] = "absent"
                        /\ doc'[j] = "processing" => doc[j] = "processing"
    BY <1>3 DEF MarkStaleDocument, UpdateStatus, MarkDocumentError, SetError,
       TypeOK
  <2>2. /\ \A v \in Workers : pc'[v] = "noTenant" => pc[v] = "noTenant"
        /\ dbFaults' \in {dbFaults, dbFaults + 1}
        /\ UNCHANGED <<rows, tenantLive, api, crashes>>
    BY <1>1, <1>3 DEF MarkStaleDocument, UpdateStatus, MarkDocumentError,
       DbFault, Release, Goto, budget, TypeOK
  <2>3. QED
    BY <1>1, <2>1, <2>2 DEF rows
<1>4. ASSUME NEW w \in Workers,
             \/ PickNothing(w) \/ CheckJob(w) \/ WriteIndex(w)
             \/ IngestNothing(w) \/ PipelineFails(w)
             \/ LoseTransaction(w) \/ LoseStatusUpdate(w) \/ Restart(w)
      PROVE  Quiet
  <2>1. /\ \A v \in Workers :
              pc'[v] = "noTenant" => pc[v] = "noTenant" \/ ~tenantLive
        /\ dbFaults' \in {dbFaults, dbFaults + 1}
        /\ UNCHANGED <<rows, doc, tenantLive, api, crashes>>
    BY <1>1, <1>4 DEF PickNothing, CheckJob, WriteIndex, IngestNothing,
       PipelineFails, LoseTransaction, LoseStatusUpdate, Restart, DbFault,
       Release, Goto, budget, TypeOK
  <2>2. QED
    BY <1>1, <2>1 DEF rows
<1>5. ASSUME Tick \/ \E w \in Workers : Heartbeat(w)
      PROVE  Quiet
  BY <1>1, <1>5 DEF Tick, Heartbeat, HeartbeatTx, procs, budget
<1>6. QED
  BY <1>2, <1>3, <1>4, <1>5 DEF Next, WorkerStep

\* A row goes with its document, a document with its tenant.
LEMMA RowsHaveDocuments ==
    ASSUME QueueInv, DocumentInv, Next
    PROVE  JobsHaveDocuments' /\ DocumentsExist' /\ NoTenantMeansDeleted'
<1>1. /\ TypeOK /\ JobsHaveDocuments /\ DocumentsExist /\ NoTenantMeansDeleted
      /\ \A w \in Workers : upload[w] # "none" =>
            uploading[w] \in Jobs /\ uploading[w] <= created
  BY DEF QueueInv, DocumentInv, UploadsAreFresh
<1> USE <1>1, QueueAssumption
        DEF TypeOK, JobsHaveDocuments, DocumentsExist, NoTenantMeansDeleted,
            rows, procs, api
<1>2. CASE Quiet
  BY <1>2 DEF Quiet
<1>3. ASSUME NEW w \in Workers, Crash(w)
      PROVE  JobsHaveDocuments' /\ DocumentsExist' /\ NoTenantMeansDeleted'
  BY <1>3 DEF Crash, Goto
<1>4. ASSUME NEW w \in Workers, InsertDocument(w)
      PROVE  JobsHaveDocuments' /\ DocumentsExist' /\ NoTenantMeansDeleted'
  BY <1>4 DEF InsertDocument, Jobs
<1>5. ASSUME NEW w \in Workers, EnqueueJob(w) \/ UploadFails(w)
      PROVE  JobsHaveDocuments' /\ DocumentsExist' /\ NoTenantMeansDeleted'
  <2>1. /\ \A j \in Jobs : \/ status'[j] = status[j]
                           \/ doc[j] # "absent"
        /\ UNCHANGED <<doc, tenantLive, pc, created>>
    BY <1>5 DEF EnqueueJob, UploadFails, EnqueueTx, EndUpload
  <2>2. QED
    BY <2>1
<1>6. ASSUME NEW S, DeleteTx(S), UNCHANGED <<tenantLive, pc, created>>
      PROVE  JobsHaveDocuments' /\ DocumentsExist' /\ NoTenantMeansDeleted'
  BY <1>6 DEF DeleteTx
<1>7. ASSUME NEW w \in Workers, RollbackUpload(w)
      PROVE  JobsHaveDocuments' /\ DocumentsExist' /\ NoTenantMeansDeleted'
  <2>1. CASE DeleteTx({uploading[w]})
    BY <1>6, <1>7, <2>1 DEF RollbackUpload, EndUpload
  <2>2. CASE UNCHANGED <<rows, doc>>
    BY <1>7, <2>2 DEF RollbackUpload, EndUpload
  <2>3. QED
    BY <1>7, <2>1, <2>2 DEF RollbackUpload
<1>8. ASSUME NEW w \in Workers, DeleteTenant(w)
      PROVE  JobsHaveDocuments' /\ DocumentsExist' /\ NoTenantMeansDeleted'
  BY <1>8 DEF DeleteTenant, DeleteTx
<1>9. ASSUME NEW w \in Workers, NEW j \in Jobs, DeleteDocument(w, j)
      PROVE  JobsHaveDocuments' /\ DocumentsExist' /\ NoTenantMeansDeleted'
  BY <1>6, <1>9 DEF DeleteDocument
<1>10. QED
  BY <1>2, <1>3, <1>4, <1>5, <1>7, <1>8, <1>9, WorkersAreQuiet DEF UploadStep

\* An upload that failed once leaves no document without a job.
LEMMA UploadsAccountedFor ==
    ASSUME QueueInv, DocumentInv, Next
    PROVE  UploadsAreAccounted' /\ ProcessingHasJob'
<1>1. /\ status \in [Jobs -> Statuses]
      /\ doc \in [Jobs -> {"absent", "processing", "ready", "error"}]
      /\ upload \in [Workers -> {"none", "inserted", "rollback"}]
      /\ uploading \in [Workers -> Jobs \cup {NoJob}]
      /\ JobsHaveDocuments /\ DocumentsExist
      /\ UploadsAreAccounted /\ ProcessingHasJob
      /\ \A w \in Workers : upload[w] # "none" =>
            uploading[w] \in Jobs /\ uploading[w] <= created
      /\ \A v, w \in Workers :
            upload[v] # "none" /\ upload[w] # "none" => v = w
  BY DEF QueueInv, DocumentInv, UploadsAreFresh, TypeOK
<1>types. TypeOK'
  BY TypePreserved
<1>nats. /\ NoJob \notin Jobs /\ \A j \in Jobs : j \in Nat
      /\ created \in Nat /\ dbFaults \in Nat /\ dbFaults' \in Nat
      /\ crashes \in Nat
  BY <1>types, QueueAssumption DEF QueueInv, TypeOK, Jobs, NoJob
<1> USE <1>1, <1>nats
    DEF UploadsAreAccounted, ProcessingHasJob, rows, api, budget
<1>2. CASE Quiet
  <2>1. UploadsAreAccounted'
    BY <1>2 DEF Quiet
  <2>2. dbFaults' <= 1 => dbFaults <= 1
    BY <1>2 DEF Quiet
  <2>3. ProcessingHasJob'
    BY <1>2, <2>2 DEF Quiet
  <2>4. QED
    BY <2>1, <2>3
<1>3. ASSUME NEW w \in Workers, Crash(w)
      PROVE  UploadsAreAccounted' /\ ProcessingHasJob'
  <2>1. /\ crashes' # 0
        /\ upload' = [upload EXCEPT ![w] = "none"]
        /\ uploading' = [uploading EXCEPT ![w] = NoJob]
        /\ UNCHANGED <<doc, dbFaults>>
    BY <1>3 DEF Crash
  <2>2. QED
    BY <2>1
<1>4. ASSUME NEW w \in Workers, InsertDocument(w)
      PROVE  UploadsAreAccounted' /\ ProcessingHasJob'
  <2>1. /\ \A v \in Workers : upload[v] = "none" /\ uploading[v] = NoJob
        /\ created + 1 \in Jobs
    BY <1>4, QueueAssumption DEF InsertDocument, Jobs
  <2>2. /\ upload' = [upload EXCEPT ![w] = "inserted"]
        /\ uploading' = [uploading EXCEPT ![w] = created + 1]
        /\ doc' = [doc EXCEPT ![created + 1] = "processing"]
        /\ UNCHANGED <<rows, budget>>
    BY <1>4 DEF InsertDocument
  <2>3. UploadsAreAccounted'
    BY <2>1, <2>2
  <2>4. \A j \in Jobs : doc'[j] = "processing" =>
           doc[j] = "processing" \/ j = uploading'[w]
    BY <2>1, <2>2
  <2>5. QED
    BY <2>1, <2>2, <2>3, <2>4
<1>5. ASSUME NEW w \in Workers, upload[w] # "none", EndUpload(w),
             dbFaults' >= dbFaults, crashes' = crashes,
             \A v \in Workers : v # w => upload[v] = "none",
             \A j \in Jobs : \/ /\ doc'[j] = doc[j]
                                /\ status'[j] = "absent" => status[j] = "absent"
                             \/ doc'[j] = "absent",
             \/ dbFaults' > 1 \/ crashes' # 0
             \/ doc'[uploading[w]] # "processing"
             \/ status'[uploading[w]] # "absent"
      PROVE  UploadsAreAccounted' /\ ProcessingHasJob'
  <2>1. /\ upload' = [upload EXCEPT ![w] = "none"]
        /\ uploading' = [uploading EXCEPT ![w] = NoJob]
    BY <1>5 DEF EndUpload
  <2>2. \A v \in Workers : upload'[v] = "none" /\ uploading'[v] = NoJob
    BY <1>5, <2>1
  <2>3. UploadsAreAccounted'
    BY <2>2
  <2>4. ASSUME NEW j \in Jobs, crashes' = 0, dbFaults' <= 1,
               doc'[j] = "processing"
        PROVE  status'[j] # "absent"
    <3>1. CASE j = uploading[w]
      BY <1>5, <2>4, <3>1
    <3>2. CASE j # uploading[w]
      <4>1. \A v \in Workers : uploading[v] # j
        BY <1>5, <3>2
      <4>2. dbFaults <= 1
        BY <1>5, <2>4
      <4>3. QED
        BY <1>5, <2>4, <4>1, <4>2
    <3>3. QED
      BY <3>1, <3>2
  <2>5. QED
    BY <2>3, <2>4
<1>6. ASSUME NEW w \in Workers, upload' = [upload EXCEPT ![w] = "rollback"],
             upload[w] = "inserted", UNCHANGED <<uploading, doc, crashes>>,
             dbFaults' >= dbFaults,
             dbFaults' >= 1 \/ doc[uploading[w]] = "absent",
             \A j \in Jobs : status'[j] = "absent" => status[j] = "absent"
      PROVE  UploadsAreAccounted' /\ ProcessingHasJob'
  <2>1. \A v \in Workers : v # w => upload[v] = "none"
    BY <1>6
  <2>2. UploadsAreAccounted'
    BY <1>6, <2>1
  <2>3. dbFaults' <= 1 => dbFaults <= 1
    BY <1>6
  <2>4. QED
    BY <1>6, <2>2, <2>3
<1>7. ASSUME NEW w \in Workers,
             EnqueueJob(w) \/ UploadFails(w) \/ RollbackUpload(w)
      PROVE  UploadsAreAccounted' /\ ProcessingHasJob'
  <2> \A v \in Workers : v # w => upload[v] = "none"
    BY <1>7 DEF EnqueueJob, UploadFails, RollbackUpload
  <2> uploading[w] \in Jobs /\ upload[w] # "none"
    BY <1>7 DEF EnqueueJob, UploadFails, RollbackUpload
  <2>1. CASE EnqueueJob(w) /\ doc[uploading[w]] # "absent"
    <3>1. EndUpload(w) /\ status' = [status EXCEPT ![uploading[w]] = "pending"]
          /\ UNCHANGED <<doc, crashes, dbFaults>>
      BY <2>1 DEF EnqueueJob, EnqueueTx
    <3>2. QED
      BY <1>5, <3>1
  <2>2. CASE EnqueueJob(w) /\ doc[uploading[w]] = "absent"
    BY <1>6, <2>2 DEF EnqueueJob
  <2>3. CASE UploadFails(w)
    <3>1. \A j \in Jobs : status'[j] = "absent" => status[j] = "absent"
      BY <2>3 DEF UploadFails, EnqueueTx
    <3>2. dbFaults' = dbFaults + 1 /\ dbFaults >= 0
      BY <2>3 DEF UploadFails, DbFault
    <3>3. QED
      BY <1>6, <2>3, <3>1, <3>2 DEF UploadFails
  <2>4. CASE RollbackUpload(w)
    <3>1. EndUpload(w) /\ upload[w] = "rollback"
      BY <2>4 DEF RollbackUpload
    <3>2. CASE DeleteTx({uploading[w]}) /\ UNCHANGED budget
      <4>1. /\ \A j \in Jobs :
                  \/ doc'[j] = doc[j] /\ status'[j] = status[j]
                  \/ doc'[j] = "absent"
            /\ doc'[uploading[w]] = "absent"
            /\ dbFaults' = dbFaults /\ crashes' = crashes
        BY <3>2 DEF DeleteTx
      <4>2. QED
        BY <1>5, <3>1, <4>1
    <3>3. CASE DbFault /\ UNCHANGED <<rows, doc, crashes>>
      BY <1>5, <3>1, <3>3 DEF DbFault
    <3>4. QED
      BY <2>4, <3>2, <3>3 DEF RollbackUpload
  <2>5. QED
    BY <1>7, <2>1, <2>2, <2>3, <2>4
<1>8. ASSUME NEW w \in Workers,
             DeleteTenant(w) \/ \E j \in Jobs : DeleteDocument(w, j)
      PROVE  UploadsAreAccounted' /\ ProcessingHasJob'
  <2>1. /\ \A j \in Jobs : \/ doc'[j] = doc[j] /\ status'[j] = status[j]
                           \/ doc'[j] = "absent"
        /\ UNCHANGED <<api, budget>>
    BY <1>8 DEF DeleteTenant, DeleteDocument, DeleteTx
  <2>2. QED
    BY <2>1
<1>9. QED
  BY <1>2, <1>3, <1>4, <1>7, <1>8, WorkersAreQuiet DEF QueueInv, UploadStep

\* The documents' invariant holds in every reachable state.
THEOREM DocumentInvariance == Spec => []DocumentInv
<1>1. Init => DocumentInv
  BY DEF Init, DocumentInv, JobsHaveDocuments, DocumentsExist,
     StatusComesAfterIndex, ReadyIsIndexed, UploadsAreAccounted,
     ProcessingHasJob, NoTenantMeansDeleted
<1>2. QueueInv /\ DocumentInv /\ [Next]_vars => DocumentInv'
  <2>1. ASSUME QueueInv, DocumentInv, Next
        PROVE  DocumentInv'
    BY <2>1, IndexComesFirst, RowsHaveDocuments, UploadsAccountedFor
       DEF DocumentInv
  <2>2. ASSUME DocumentInv, UNCHANGED vars
        PROVE  DocumentInv'
    BY <2>2 DEF vars, rows, procs, api, budget, DocumentInv, JobsHaveDocuments,
       DocumentsExist, StatusComesAfterIndex, ReadyIsIndexed,
       UploadsAreAccounted, ProcessingHasJob, NoTenantMeansDeleted
  <2>3. QED
    BY <2>1, <2>2
<1>3. QED
  BY <1>1, <1>2, QueueInvariance, PTL DEF Spec

\* A document is shown as 'ready' only if an attempt wrote its index, with no
\* bound on pauses, crashes or failures.
THEOREM ReadyDocumentsAreIndexed == Spec => []ReadyIsIndexed
<1>1. DocumentInv => ReadyIsIndexed
  BY DEF DocumentInv
<1>2. QED
  BY <1>1, DocumentInvariance, PTL

\* One failed step of an upload leaves no document that is 'processing' with
\* no job that could finish it, unless the process crashed.
THEOREM ProcessingDocumentsHaveJobs == Spec => []ProcessingHasJob
<1>1. DocumentInv => ProcessingHasJob
  BY DEF DocumentInv
<1>2. QED
  BY <1>1, DocumentInvariance, PTL

-----------------------------------------------------------------------------
(* Pauses below StaleTimeout.                                               *)

\* A worker is handed a job that nobody else has.
LEMMA HandsAreExclusive ==
    ASSUME QueueInv, OwnershipInv, Next
    PROVE  NoDoubleProcessing'
<1>1. CASE \A v \in Workers : KeepsWork(v)
  BY <1>1 DEF KeepsWork, OwnershipInv, NoDoubleProcessing
<1>2. ASSUME NEW w \in Workers, NEW j \in Jobs, Picks(w, j)
      PROVE  NoDoubleProcessing'
  <2>1. \A v \in Workers : Busy(v) => held[v] # j
    BY <1>2 DEF Picks, Runnable, OwnershipInv, WorkersOwnTheirRows
  <2>2. QED
    BY <1>2, <2>1 DEF Picks, KeepsWork, OwnershipInv, NoDoubleProcessing
<1>3. QED
  BY <1>1, <1>2, NextMovesWork DEF QueueInv

\* Neither recovery nor another worker touches the row of a job in hand.
LEMMA RowsStayOwned ==
    ASSUME QueueInv, OwnershipInv, PausesBounded, Next
    PROVE  WorkersOwnTheirRows'
<1>1. /\ TypeOK /\ WorkersOwnTheirRows /\ NoDoubleProcessing
      /\ \A w \in Workers : Busy(w) => held[w] \in Jobs
      /\ \A v, w \in Workers :
            upload[w] = "inserted" /\ Busy(v) => held[v] # uploading[w]
  BY DEF QueueInv, OwnershipInv, BusyWorkersAreCharged, UploadsAreFresh,
     Untouched
<1> USE <1>1, QueueAssumption
        DEF TypeOK, WorkersOwnTheirRows, NoDoubleProcessing, Busy, BusyPC,
            rows, procs, api
<1>2. ASSUME NEW w \in Workers, RecoverStaleJobs(w)
      PROVE  WorkersOwnTheirRows'
  BY <1>2 DEF RecoverStaleJobs, RecoverTx, RecoverRows, StaleJobs,
     ExhaustedJobs, Goto
<1>3. ASSUME NEW w \in Workers, MarkStaleDocument(w)
      PROVE  WorkersOwnTheirRows'
  BY <1>3 DEF MarkStaleDocument, SetError, DbFault, Goto
<1>4. ASSUME NEW w \in Workers, PickNextJob(w)
      PROVE  WorkersOwnTheirRows'
  BY <1>4 DEF PickNextJob, Oldest, Runnable, PickTx, Goto
<1>5. ASSUME NEW w \in Workers, PickNothing(w)
      PROVE  WorkersOwnTheirRows'
  BY <1>5 DEF PickNothing, Goto
<1>6. ASSUME NEW w \in Workers, CheckJob(w)
      PROVE  WorkersOwnTheirRows'
  BY <1>6 DEF CheckJob, Goto
<1>7. ASSUME NEW w \in Workers, CompleteReadyJob(w)
      PROVE  WorkersOwnTheirRows'
  BY <1>7 DEF CompleteReadyJob, CompleteTx, Release, Goto
<1>8. ASSUME NEW w \in Workers, WriteIndex(w)
      PROVE  WorkersOwnTheirRows'
  BY <1>8 DEF WriteIndex, Goto
<1>9. ASSUME NEW w \in Workers, IngestNothing(w)
      PROVE  WorkersOwnTheirRows'
  BY <1>9 DEF IngestNothing, Goto
<1>10. ASSUME NEW w \in Workers, PipelineFails(w)
      PROVE  WorkersOwnTheirRows'
  BY <1>10 DEF PipelineFails, Goto
<1>11. ASSUME NEW w \in Workers, UpdateStatus(w)
      PROVE  WorkersOwnTheirRows'
  BY <1>11 DEF UpdateStatus, Goto
<1>12. ASSUME NEW w \in Workers, CompleteJob(w)
      PROVE  WorkersOwnTheirRows'
  BY <1>12 DEF CompleteJob, CompleteTx, Release, Goto
<1>13. ASSUME NEW w \in Workers, FailJob(w)
      PROVE  WorkersOwnTheirRows'
  BY <1>13 DEF FailJob, FailTx, WillRetry, Release, Goto
<1>14. ASSUME NEW w \in Workers, MarkDocumentError(w)
      PROVE  WorkersOwnTheirRows'
  BY <1>14 DEF MarkDocumentError, SetError, Release, Goto
<1>15. ASSUME NEW w \in Workers, Heartbeat(w)
      PROVE  WorkersOwnTheirRows'
  BY <1>15 DEF Heartbeat, HeartbeatTx
<1>16. ASSUME NEW w \in Workers, LoseTransaction(w)
      PROVE  WorkersOwnTheirRows'
  BY <1>16 DEF LoseTransaction, DbFault, Release, Goto
<1>17. ASSUME NEW w \in Workers, LoseCompletion(w)
      PROVE  WorkersOwnTheirRows'
  BY <1>17 DEF LoseCompletion, DbFault, CompleteTx, Goto
<1>18. ASSUME NEW w \in Workers, LoseStatusUpdate(w)
      PROVE  WorkersOwnTheirRows'
  BY <1>18 DEF LoseStatusUpdate, DbFault, Goto
<1>19. ASSUME NEW w \in Workers, LoseAcknowledgement(w)
      PROVE  WorkersOwnTheirRows'
  BY <1>19 DEF LoseAcknowledgement, DbFault, RecoverTx, RecoverRows,
     StaleJobs, ExhaustedJobs, Oldest, Runnable, PickTx, CompleteTx, FailTx,
     WillRetry, Release, Goto
<1>20. ASSUME NEW w \in Workers, Crash(w)
      PROVE  WorkersOwnTheirRows'
  BY <1>20 DEF Crash, Goto
<1>21. ASSUME NEW w \in Workers, Restart(w)
      PROVE  WorkersOwnTheirRows'
  BY <1>21 DEF Restart, Release, Goto
<1>22. ASSUME NEW w \in Workers, InsertDocument(w)
      PROVE  WorkersOwnTheirRows'
  BY <1>22 DEF InsertDocument
<1>23. ASSUME NEW w \in Workers, EnqueueJob(w)
      PROVE  WorkersOwnTheirRows'
  BY <1>23 DEF EnqueueJob, EnqueueTx, EndUpload
<1>24. ASSUME NEW w \in Workers, RollbackUpload(w)
      PROVE  WorkersOwnTheirRows'
  BY <1>24 DEF RollbackUpload, DeleteTx, DbFault, EndUpload
<1>25. ASSUME NEW w \in Workers, UploadFails(w)
      PROVE  WorkersOwnTheirRows'
  BY <1>25 DEF UploadFails, DbFault, EnqueueTx
<1>26. ASSUME NEW w \in Workers, DeleteTenant(w)
      PROVE  WorkersOwnTheirRows'
  BY <1>26 DEF DeleteTenant, DeleteTx
<1>27. ASSUME NEW w \in Workers, NEW j \in Jobs, DeleteDocument(w, j)
      PROVE  WorkersOwnTheirRows'
  BY <1>27 DEF DeleteDocument, DeleteTx
<1>28. CASE Tick
  BY <1>28 DEF Tick
<1>29. QED
  BY <1>2, <1>3, <1>4, <1>5, <1>6, <1>7, <1>8, <1>9, <1>10, <1>11, <1>12,
     <1>13, <1>14, <1>15, <1>16, <1>17, <1>18, <1>19, <1>20, <1>21, <1>22,
     <1>23, <1>24, <1>25, <1>26, <1>27, <1>28 DEF Next, WorkerStep,
     UploadStep

\* A failed job stays failed as long as its document exists.
LEMMA FailedStays ==
    ASSUME QueueInv, OwnershipInv, Next,
           NEW j \in Jobs, status[j] = "failed"
    PROVE  status'[j] = "failed" \/ doc'[j] = "absent"
<1>1. /\ TypeOK /\ WorkersOwnTheirRows
      /\ \A w \in Workers : Busy(w) => held[w] \in Jobs
      /\ \A w \in Workers : upload[w] = "inserted" =>
            uploading[w] \in Jobs /\ status[uploading[w]] = "absent"
  BY DEF QueueInv, OwnershipInv, BusyWorkersAreCharged, UploadsAreFresh,
     Untouched
<1>2. /\ status \in [Jobs -> Statuses]
      /\ doc \in [Jobs -> {"absent", "processing", "ready", "error"}]
      /\ \A w \in Workers : Busy(w) => held[w] # j
      /\ \A w \in Workers : upload[w] = "inserted" => uploading[w] # j
  BY <1>1 DEF TypeOK, WorkersOwnTheirRows
<1> USE <1>2 DEF Busy, BusyPC, rows, procs, api
<1>3. ASSUME NEW w \in Workers,
             RecoverStaleJobs(w) \/ PickNextJob(w) \/ LoseAcknowledgement(w)
      PROVE  status'[j] = "failed"
  <2>1. CASE RecoverTx
    BY <2>1 DEF RecoverTx, RecoverRows, StaleJobs, ExhaustedJobs
  <2>2. ASSUME NEW k \in Jobs, Oldest(k), PickTx(k)
        PROVE  status'[j] = "failed"
    BY <2>2 DEF Oldest, Runnable, PickTx
  <2>3. QED
    BY <1>3, <2>1, <2>2 DEF RecoverStaleJobs, PickNextJob, LoseAcknowledgement,
       CompleteTx, FailTx
<1>4. ASSUME NEW w \in Workers,
             \/ CompleteReadyJob(w) \/ CompleteJob(w) \/ LoseCompletion(w)
             \/ FailJob(w)
      PROVE  status'[j] = "failed"
  BY <1>4 DEF CompleteReadyJob, CompleteJob, LoseCompletion, FailJob,
     CompleteTx, FailTx
<1>5. ASSUME NEW w \in Workers, EnqueueJob(w) \/ UploadFails(w)
      PROVE  status'[j] = "failed"
  BY <1>5 DEF EnqueueJob, UploadFails, EnqueueTx
<1>6. ASSUME NEW w \in Workers,
             \/ RollbackUpload(w) \/ DeleteTenant(w)
             \/ \E k \in Jobs : DeleteDocument(w, k)
      PROVE  status'[j] = "failed" \/ doc'[j] = "absent"
  BY <1>6 DEF RollbackUpload, DeleteTenant, DeleteDocument, DeleteTx
<1>7. ASSUME NEW w \in Workers,
             \/ MarkStaleDocument(w) \/ PickNothing(w) \/ CheckJob(w)
             \/ WriteIndex(w) \/ IngestNothing(w) \/ PipelineFails(w)
             \/ UpdateStatus(w) \/ MarkDocumentError(w) \/ Heartbeat(w)
             \/ LoseTransaction(w) \/ LoseStatusUpdate(w) \/ Crash(w)
             \/ Restart(w) \/ InsertDocument(w)
      PROVE  status'[j] = "failed"
  BY <1>7 DEF MarkStaleDocument, PickNothing, CheckJob, WriteIndex,
     IngestNothing, PipelineFails, UpdateStatus, MarkDocumentError, Heartbeat,
     HeartbeatTx, LoseTransaction, LoseStatusUpdate, Crash, Restart,
     InsertDocument
<1>8. CASE Tick
  BY <1>8 DEF Tick
<1>9. QED
  BY <1>3, <1>4, <1>5, <1>6, <1>7, <1>8 DEF Next, WorkerStep, UploadStep

\* A deleted document does not come back: its number is used up.
LEMMA DeletedStays ==
    ASSUME QueueInv, Next, NEW j \in Jobs, j <= created, doc[j] = "absent"
    PROVE  doc'[j] = "absent" /\ j <= created'
<1> USE QueueAssumption DEF QueueInv, TypeOK
<1>1. CASE Quiet
  BY <1>1 DEF Quiet, api
<1>2. ASSUME NEW w \in Workers, InsertDocument(w)
      PROVE  doc'[j] = "absent" /\ j <= created'
  <2>1. j \in Nat /\ j # created + 1
    BY DEF Jobs
  <2>2. QED
    BY <1>2, <2>1 DEF InsertDocument
<1>3. ASSUME NEW w \in Workers,
             \/ Crash(w) \/ EnqueueJob(w) \/ UploadFails(w)
             \/ RollbackUpload(w) \/ DeleteTenant(w)
             \/ \E k \in Jobs : DeleteDocument(w, k)
      PROVE  doc'[j] = "absent" /\ j <= created'
  BY <1>3 DEF Crash, EnqueueJob, UploadFails, RollbackUpload, EndUpload,
     DeleteTenant, DeleteDocument, DeleteTx, api
<1>4. QED
  BY <1>1, <1>2, <1>3, WorkersAreQuiet DEF UploadStep

\* A worker marks nothing new, or what its own step failed.
MarksGrow(w) ==
    \/ /\ marks'[w] \subseteq marks[w]
       /\ pc'[w] = "mark" => UNCHANGED <<pc[w], held[w], marks[w]>>
    \/ RecoverTx /\ marks'[w] = ExhaustedJobs /\ pc'[w] # "mark"
    \/ \E retry \in BOOLEAN :
          /\ FailTx(held[w], retry) /\ ~WillRetry(held[w], retry)
          /\ status[held[w]] # "absent" /\ Busy(w)
          /\ held'[w] = held[w] /\ marks'[w] = {held[w]}

\* Only recovery and a final failure give a worker documents to mark.
LEMMA NextMovesMarks ==
    ASSUME TypeOK, Next, NEW v \in Workers
    PROVE  MarksGrow(v)
<1> USE DEF TypeOK, MarksGrow, procs
<1>1. ASSUME NEW w \in Workers, FailJob(w)
      PROVE  MarksGrow(v)
  <2>1. CASE Release(w)
    BY <2>1 DEF Release, Goto
  <2>2. CASE ~Release(w)
    <3>1. /\ FailTx(held[w], pc[w] = "fail")
          /\ ~WillRetry(held[w], pc[w] = "fail")
          /\ status[held[w]] # "absent" /\ Busy(w)
          /\ Goto(w, "mark") /\ UNCHANGED <<held, attempt>>
          /\ marks' = [marks EXCEPT ![w] = {held[w]}]
      BY <1>1, <2>2 DEF FailJob, Busy, BusyPC
    <3>2. QED
      BY <3>1 DEF Goto
  <2>3. QED
    BY <2>1, <2>2
<1>2. ASSUME NEW w \in Workers,
             RecoverStaleJobs(w) \/ MarkStaleDocument(w) \/ MarkDocumentError(w)
      PROVE  MarksGrow(v)
  BY <1>2 DEF RecoverStaleJobs, MarkStaleDocument, MarkDocumentError, Release,
     Goto
<1>3. ASSUME NEW w \in Workers,
             \/ PickNextJob(w) \/ PickNothing(w) \/ CheckJob(w)
             \/ CompleteReadyJob(w) \/ WriteIndex(w) \/ IngestNothing(w)
             \/ PipelineFails(w) \/ UpdateStatus(w) \/ CompleteJob(w)
      PROVE  MarksGrow(v)
  BY <1>3 DEF PickNextJob, PickNothing, CheckJob, CompleteReadyJob, WriteIndex,
     IngestNothing, PipelineFails, UpdateStatus, CompleteJob, Release, Goto
<1>4. ASSUME NEW w \in Workers,
             \/ LoseTransaction(w) \/ LoseCompletion(w) \/ LoseStatusUpdate(w)
             \/ LoseAcknowledgement(w) \/ Crash(w) \/ Restart(w)
      PROVE  MarksGrow(v)
  BY <1>4 DEF LoseTransaction, LoseCompletion, LoseStatusUpdate,
     LoseAcknowledgement, Crash, Restart, Release, Goto
<1>5. ASSUME UNCHANGED procs
      PROVE  MarksGrow(v)
  BY <1>5
<1>6. QED
  BY <1>1, <1>2, <1>3, <1>4, <1>5 DEF Next, WorkerStep, UploadStep, Tick,
     Heartbeat, InsertDocument, EnqueueJob, RollbackUpload, UploadFails,
     DeleteTenant, DeleteDocument

\* Whatever is marked has failed for good, or is gone.
LEMMA MarksStayFailed ==
    ASSUME QueueInv, DocumentInv, OwnershipInv, Next
    PROVE  MarksAreFailed'
<1>1. \A j \in Jobs :
         j <= created /\ (doc[j] = "absent" \/ status[j] = "failed")
         => j <= created' /\ (doc'[j] = "absent" \/ status'[j] = "failed")
  <2>1. created \in Nat /\ created' \in Nat /\ created <= created'
    BY TypePreserved, NextMovesUploads, QueueAssumption DEF QueueInv, TypeOK
  <2>2. \A j \in Jobs : j <= created => j <= created'
    BY <2>1 DEF Jobs
  <2>3. QED
    BY <2>2, FailedStays, DeletedStays
<1>2. \A j \in Jobs : status[j] # "absent" => j <= created
  BY DEF DocumentInv, JobsHaveDocuments, DocumentsExist
<1>3. /\ TypeOK /\ TypeOK' /\ MarksAreFailed
      /\ created \in Nat /\ created' \in Nat /\ created <= created'
  BY TypePreserved, NextMovesUploads, QueueAssumption
     DEF QueueInv, OwnershipInv, TypeOK
<1>4. SUFFICES ASSUME NEW w \in Workers
               PROVE  /\ \A j \in marks'[w] :
                            /\ j <= created'
                            /\ doc'[j] = "absent" \/ status'[j] = "failed"
                      /\ pc'[w] = "mark" => held'[w] \in marks'[w]
  BY DEF MarksAreFailed
<1>5. CASE /\ marks'[w] \subseteq marks[w]
           /\ pc'[w] = "mark" => UNCHANGED <<pc[w], held[w], marks[w]>>
  BY <1>1, <1>3, <1>5 DEF MarksAreFailed, TypeOK
<1>6. CASE RecoverTx /\ marks'[w] = ExhaustedJobs /\ pc'[w] # "mark"
  BY <1>2, <1>3, <1>6 DEF RecoverTx, RecoverRows, ExhaustedJobs, StaleJobs, Jobs
<1>7. ASSUME NEW retry \in BOOLEAN,
             FailTx(held[w], retry), ~WillRetry(held[w], retry),
             status[held[w]] # "absent", Busy(w),
             held'[w] = held[w], marks'[w] = {held[w]}
      PROVE  /\ \A j \in marks'[w] :
                   /\ j <= created'
                   /\ doc'[j] = "absent" \/ status'[j] = "failed"
             /\ pc'[w] = "mark" => held'[w] \in marks'[w]
  <2>1. held[w] \in Jobs
    BY <1>7 DEF QueueInv, BusyWorkersAreCharged
  <2>2. held[w] <= created'
    BY <1>2, <1>3, <1>7, <2>1 DEF Jobs
  <2>3. status'[held[w]] = "failed"
    BY <1>3, <1>7, <2>1 DEF FailTx, TypeOK
  <2>4. QED
    BY <1>7, <2>2, <2>3
<1>8. QED
  BY <1>3, <1>5, <1>6, <1>7, NextMovesMarks DEF MarksGrow

\* Only a document some worker marks becomes 'error'.
LEMMA ErrorsAreMarked ==
    ASSUME QueueInv, OwnershipInv, Next, NEW j \in Jobs, doc'[j] = "error"
    PROVE  \/ doc[j] = "error"
           \/ doc[j] # "absent" /\ \E w \in Workers : j \in marks[w]
<1> USE DEF QueueInv, TypeOK
<1>1. ASSUME NEW w \in Workers, MarkStaleDocument(w) \/ MarkDocumentError(w)
      PROVE  \/ doc[j] = "error"
             \/ doc[j] # "absent" /\ \E v \in Workers : j \in marks[v]
  BY <1>1 DEF MarkStaleDocument, MarkDocumentError, SetError, OwnershipInv,
     MarksAreFailed
<1>2. ASSUME NEW w \in Workers,
             \/ UpdateStatus(w) \/ InsertDocument(w) \/ RollbackUpload(w)
             \/ DeleteTenant(w) \/ \E k \in Jobs : DeleteDocument(w, k)
      PROVE  doc[j] = "error"
  BY <1>2 DEF UpdateStatus, InsertDocument, RollbackUpload, DeleteTenant,
     DeleteDocument, DeleteTx
<1>3. CASE UNCHANGED doc
  BY <1>3
<1>4. QED
  BY <1>1, <1>2, <1>3 DEF Next, WorkerStep, UploadStep, RecoverStaleJobs,
     PickNextJob, PickNothing, CheckJob, CompleteReadyJob, WriteIndex,
     IngestNothing, PipelineFails, CompleteJob, FailJob, Heartbeat,
     LoseTransaction, LoseCompletion, LoseStatusUpdate, LoseAcknowledgement,
     Crash, Restart, EnqueueJob, UploadFails, Tick

\* An error shown is an error that is final.
LEMMA ErrorsStayFinal ==
    ASSUME QueueInv, OwnershipInv, Next
    PROVE  ErrorMeansFailedJob'
<1>1. SUFFICES ASSUME NEW j \in Jobs, doc'[j] = "error"
               PROVE  status'[j] = "failed"
  BY DEF ErrorMeansFailedJob
<1>2. status[j] = "failed"
  BY <1>1, ErrorsAreMarked DEF OwnershipInv, ErrorMeansFailedJob, MarksAreFailed
<1>3. QED
  BY <1>1, <1>2, FailedStays

\* While pauses are bounded, the invariants of this module hold together.
THEOREM OwnershipInvariance ==
    ASSUME PausesBounded
    PROVE  Spec => []OwnershipInv
<1>1. Init => OwnershipInv
  BY DEF Init, OwnershipInv, WorkersOwnTheirRows, NoDoubleProcessing,
     MarksAreFailed, ErrorMeansFailedJob, Busy, BusyPC
<1>2. QueueInv /\ DocumentInv /\ OwnershipInv /\ [Next]_vars => OwnershipInv'
  <2>1. ASSUME QueueInv, DocumentInv, OwnershipInv, Next
        PROVE  OwnershipInv'
    BY <2>1, HandsAreExclusive, RowsStayOwned, MarksStayFailed,
       ErrorsStayFinal DEF OwnershipInv
  <2>2. ASSUME OwnershipInv, UNCHANGED vars
        PROVE  OwnershipInv'
    BY <2>2 DEF vars, rows, procs, api, budget, OwnershipInv,
       WorkersOwnTheirRows, NoDoubleProcessing, MarksAreFailed,
       ErrorMeansFailedJob, Busy
  <2>3. QED
    BY <2>1, <2>2
<1>3. QED
  BY <1>1, <1>2, QueueInvariance, DocumentInvariance, PTL DEF Spec

\* While no pause outlasts StaleTimeout, neither recovery nor a retry hands a
\* job to a second worker.
THEOREM JobsAreInOneHand ==
    ASSUME PausesBounded
    PROVE  Spec => []NoDoubleProcessing
<1>1. OwnershipInv => NoDoubleProcessing
  BY DEF OwnershipInv
<1>2. QED
  BY <1>1, OwnershipInvariance, PTL

\* While no pause outlasts StaleTimeout, a document shown as 'error' has a job
\* that failed for good.
THEOREM ErrorsAreFinal ==
    ASSUME PausesBounded
    PROVE  Spec => []ErrorMeansFailedJob
<1>1. OwnershipInv => ErrorMeansFailedJob
  BY DEF OwnershipInv
<1>2. QED
  BY <1>1, OwnershipInvariance, PTL

-----------------------------------------------------------------------------
(* The refinement.                                                          *)

\* What one step of the queue does to the row of job j.
RowMoves(j) ==
    \/ UNCHANGED <<status[j], attempts[j]>>
    \/ /\ status[j] = "absent" /\ doc[j] # "absent"
       /\ status'[j] = "pending" /\ attempts'[j] = attempts[j]
    \/ /\ Runnable(j)
       /\ status'[j] = "processing" /\ attempts'[j] = attempts[j] + 1
    \/ /\ status[j] = "processing" \/ Unacknowledged(j)
       /\ status'[j] = IF attempts[j] < MaxAttempts THEN "pending" ELSE "failed"
       /\ attempts'[j] = attempts[j]
    \/ /\ status[j] = "processing"
       /\ status'[j] = "completed" /\ attempts'[j] = attempts[j]
    \/ doc'[j] = "absent" /\ status'[j] = "absent" /\ UNCHANGED created

\* Every row moves in one of those ways, whatever the step.
LEMMA NextMovesRows ==
    ASSUME QueueInv, DocumentInv, OwnershipInv, Next, NEW j \in Jobs
    PROVE  RowMoves(j)
<1>1. /\ status \in [Jobs -> Statuses] /\ attempts \in [Jobs -> 0..MaxAttempts]
      /\ doc \in [Jobs -> {"absent", "processing", "ready", "error"}]
      /\ \A w \in Workers : Busy(w) => held[w] \in Jobs
      /\ \A w \in Workers : upload[w] = "inserted" =>
            uploading[w] \in Jobs /\ status[uploading[w]] = "absent"
      /\ WorkersOwnTheirRows
      /\ \A w \in Workers : pc[w] = "noTenant" => status[held[w]] = "absent"
  BY DEF QueueInv, TypeOK, OwnershipInv, DocumentInv, BusyWorkersAreCharged,
     UploadsAreFresh, Untouched, NoTenantMeansDeleted, DocumentsExist,
     JobsHaveDocuments, Busy, BusyPC
<1> USE <1>1, QueueAssumption DEF RowMoves, rows, api
<1>2. CASE RecoverTx
  BY <1>2 DEF RecoverTx, RecoverRows, StaleJobs, ExhaustedJobs
<1>3. ASSUME NEW k \in Jobs, Oldest(k), PickTx(k)
      PROVE  RowMoves(j)
  BY <1>3 DEF Oldest, PickTx
<1>4. ASSUME NEW w \in Workers, pc[w] \in {"alreadyReady", "complete"},
             CompleteTx(held[w])
      PROVE  RowMoves(j)
  BY <1>4 DEF CompleteTx, WorkersOwnTheirRows, Busy, BusyPC
<1>5. ASSUME NEW w \in Workers, pc[w] = "fail", FailTx(held[w], TRUE)
      PROVE  RowMoves(j)
  BY <1>5 DEF FailTx, WillRetry, WorkersOwnTheirRows, Unacknowledged, Busy,
     BusyPC
<1>6. ASSUME NEW w \in Workers, pc[w] = "noTenant", FailTx(held[w], FALSE)
      PROVE  RowMoves(j)
  BY <1>6 DEF FailTx
<1>7. ASSUME NEW w \in Workers, WorkerStep(w) \/ LoseAcknowledgement(w)
      PROVE  RowMoves(j)
  <2>1. CASE \/ RecoverStaleJobs(w) \/ PickNextJob(w) \/ CompleteReadyJob(w)
             \/ CompleteJob(w) \/ LoseAcknowledgement(w)
    BY <1>2, <1>3, <1>4, <1>5, <2>1 DEF RecoverStaleJobs, PickNextJob,
       CompleteReadyJob, CompleteJob, LoseAcknowledgement
  <2>2. CASE FailJob(w)
    BY <1>5, <1>6, <2>2 DEF FailJob
  <2>3. CASE \/ MarkStaleDocument(w) \/ PickNothing(w) \/ CheckJob(w)
             \/ WriteIndex(w) \/ IngestNothing(w) \/ PipelineFails(w)
             \/ UpdateStatus(w) \/ MarkDocumentError(w)
    BY <2>3 DEF MarkStaleDocument, PickNothing, CheckJob, WriteIndex,
       IngestNothing, PipelineFails, UpdateStatus, MarkDocumentError
  <2>4. QED
    BY <1>7, <2>1, <2>2, <2>3 DEF WorkerStep
<1>8. ASSUME NEW w \in Workers,
             \/ LoseCompletion(w) \/ LoseTransaction(w) \/ LoseStatusUpdate(w)
             \/ Heartbeat(w) \/ Crash(w) \/ Restart(w) \/ InsertDocument(w)
      PROVE  RowMoves(j)
  BY <1>4, <1>8 DEF LoseCompletion, LoseTransaction, LoseStatusUpdate,
     Heartbeat, HeartbeatTx, Crash, Restart, InsertDocument
<1>9. ASSUME NEW w \in Workers, EnqueueJob(w) \/ UploadFails(w)
      PROVE  RowMoves(j)
  BY <1>9 DEF EnqueueJob, UploadFails, EnqueueTx
<1>10. ASSUME NEW w \in Workers,
              \/ RollbackUpload(w) \/ DeleteTenant(w)
              \/ \E k \in Jobs : DeleteDocument(w, k)
       PROVE  RowMoves(j)
  BY <1>10 DEF RollbackUpload, DeleteTenant, DeleteDocument, DeleteTx, EndUpload
<1>11. CASE Tick
  BY <1>11 DEF Tick
<1>12. QED
  BY <1>7, <1>8, <1>9, <1>10, <1>11 DEF Next, UploadStep

\* A completed job is not taken for unfinished later on.
LEMMA CompletionsAreSeen ==
    ASSUME QueueInv, OwnershipInv, Next, NEW j \in Jobs,
           status[j] = "completed", status'[j] = "completed",
           Unacknowledged(j)'
    PROVE  Unacknowledged(j)
<1>1. PICK w \in Workers : pc'[w] = "fail" /\ held'[w] = j
  BY DEF Unacknowledged
<1>2. CASE KeepsWork(w)
  BY <1>1, <1>2 DEF KeepsWork, OwnershipInv, WorkersOwnTheirRows,
     Unacknowledged, Busy, BusyPC
<1>3. ASSUME NEW v \in Workers, NEW k \in Jobs, Picks(v, k), ~KeepsWork(w)
      PROVE  FALSE
  BY <1>1, <1>3 DEF Picks, Runnable
<1>4. QED
  BY <1>2, <1>3, NextMovesWork DEF QueueInv

\* A step of the queue is a move, or a stutter, of every job of JobLifecycle.
LEMMA StepsAreMoves ==
    ASSUME QueueInv, QueueInv', DocumentInv, DocumentInv', OwnershipInv, Next,
           NEW j \in Jobs
    PROVE  Lifecycle!Moves(jobStatus[j], attempts[j],
                           jobStatus'[j], attempts'[j])
<1>1. /\ status[j] \in Statuses /\ attempts[j] \in 0..MaxAttempts
      /\ status[j] = "absent" => attempts[j] = 0
      /\ status'[j] = "absent" => attempts'[j] = 0
      /\ doc[j] = "absent" => status[j] = "absent"
      /\ doc'[j] = "absent" => status'[j] = "absent"
      /\ doc[j] # "absent" => j <= created
  BY DEF QueueInv, TypeOK, AbsentJobsAreUncharged, DocumentInv,
     JobsHaveDocuments, DocumentsExist
<1>2. /\ jobStatus[j] = IF Deleted(j) THEN "gone"
                        ELSE IF status[j] = "absent" THEN "new"
                        ELSE IF Unacknowledged(j) THEN "processing"
                        ELSE status[j]
      /\ jobStatus'[j] = IF Deleted(j)' THEN "gone"
                         ELSE IF status'[j] = "absent" THEN "new"
                         ELSE IF Unacknowledged(j)' THEN "processing"
                         ELSE status'[j]
  BY DEF jobStatus
<1>3. /\ Unacknowledged(j) => status[j] = "completed"
      /\ Unacknowledged(j)' => status'[j] = "completed"
  BY DEF Unacknowledged
<1>4. Deleted(j) => Deleted(j)'
  BY DeletedStays DEF Deleted
<1>5. RowMoves(j)
  BY NextMovesRows
<1>6. CASE status'[j] = "absent"
  <2>1. CASE Deleted(j)'
    BY <1>1, <1>2, <1>6, <2>1 DEF Lifecycle!Moves
  <2>2. CASE ~Deleted(j)'
    <3>1. status[j] = "absent"
      BY <1>1, <1>5, <1>6, <2>2 DEF RowMoves, Deleted
    <3>2. QED
      BY <1>1, <1>2, <1>4, <1>6, <2>2, <3>1 DEF Lifecycle!Moves
  <2>3. QED
    BY <2>1, <2>2
<1>7. CASE status'[j] # "absent"
  <2>1. ~Deleted(j) /\ ~Deleted(j)'
    BY <1>1, <1>4, <1>7 DEF Deleted
  <2>2. CASE UNCHANGED <<status[j], attempts[j]>>
    BY <1>1, <1>2, <1>3, <1>7, <2>1, <2>2, CompletionsAreSeen
       DEF Lifecycle!Moves
  <2>3. CASE ~UNCHANGED <<status[j], attempts[j]>>
    BY <1>1, <1>2, <1>3, <1>5, <1>7, <2>1, <2>3, QueueAssumption
       DEF RowMoves, Runnable, Lifecycle!Moves, Statuses
  <2>4. QED
    BY <2>2, <2>3
<1>8. QED
  BY <1>6, <1>7

\* IngestionQueue implements JobLifecycle: an attempt is charged once, a job
\* ends as completed, or as failed when its attempts are spent, and a deleted
\* job never comes back, while no pause outlasts StaleTimeout.
THEOREM QueueImplementsLifecycle ==
    ASSUME PausesBounded
    PROVE  Spec => ImplementsLifecycle
<1>1. Init => Lifecycle!Init
  BY QueueAssumption DEF Init, Lifecycle!Init, jobStatus, Deleted, Jobs
<1>2. ASSUME QueueInv, QueueInv', DocumentInv, DocumentInv', OwnershipInv,
             [Next]_vars
      PROVE  [Lifecycle!Next]_(Lifecycle!vars)
  <2>1. CASE Next
    BY <1>2, <2>1, StepsAreMoves DEF Lifecycle!Next
  <2>2. CASE UNCHANGED vars
    BY <2>2 DEF vars, rows, procs, api, Lifecycle!vars, jobStatus, Deleted,
       Unacknowledged
  <2>3. QED
    BY <1>2, <2>1, <2>2
<1>3. QED
  BY <1>1, <1>2, QueueInvariance, DocumentInvariance, OwnershipInvariance, PTL
     DEF Spec, ImplementsLifecycle, Lifecycle!Spec
=============================================================================
