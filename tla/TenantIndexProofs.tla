------------------------- MODULE TenantIndexProofs -------------------------
(***************************************************************************)
(* Safety of TenantIndex for every set of documents, every number of       *)
(* batches and attempts, and every budget of crashes and failures.         *)
(***************************************************************************)
EXTENDS TenantIndex, TLAPS

\* The steps of delete_document_vectors, the worker's steps before it has read
\* the BM25 file, and the steps at which either side is about to write what it
\* has read.
RemovalSteps == {"vectors", "probe", "lock", "load", "open", "dump"}
BeforeLoad == {"ensure", "upsert", "lock", "exists", "load"}
Rewriting == {"open", "dump"}

\* A document that is not, or no longer, in the database has no job; what is
\* queued has an attempt left; a deleted tenant has no rows.
RowsAgreeWithJobs ==
    \A d \in Docs :
        /\ row[d] \in {"none", "deleted"} => job[d] = "none"
        /\ row[d] = "none" => tries[d] = 0 /\ wdoc # d
        /\ job[d] = "queued" => tries[d] < MaxAttempts
        /\ ~tenantLive => row[d] \in {"none", "deleted"}

\* Each side works on a document or is idle, and what it works on tells which
\* endpoint is running.
WorkersAreOccupied ==
    /\ wpc = "idle" <=> wdoc = NoDoc
    /\ wpc \in {"idle", "ensure"} => wbatch = 1
    /\ apc \in RemovalSteps <=> adoc # NoDoc
    /\ adoc # NoDoc => row[adoc] = "deleted"
    /\ apc \in RemovalSteps => tenantLive
    /\ apc \in {"dropCollection", "unlink"} => ~tenantLive
    /\ ~tenantLive /\ wpc # "idle" => excused = Docs

\* A missing file has no entries; while the tenant lives, a writer that finds
\* the file missing has loaded nothing from it but adds its own document.
MissingFileIsEmpty ==
    /\ file = "absent" => entries = NoEntries
    /\ file = "absent" /\ wpc \in Rewriting /\ tenantLive
        => \A d \in Docs : d # wdoc => wmem[d] = 0
    /\ file = "absent" /\ wpc = "dump" => ~tenantLive

\* Every copy, in the file or in memory, is charged; the attempt that is
\* running has not added its copy before it has loaded the file.
CopiesInMemoryAreCharged ==
    /\ \A d \in Docs : wmem[d] <= tries[d] /\ amem[d] <= tries[d]
    /\ wpc \in BeforeLoad
        => entries[wdoc] < tries[wdoc] /\ amem[wdoc] < tries[wdoc]

\* What must be found: ready documents, and the one that is about to be.
Indexed(d) == row[d] = "ready"
              \/ (wpc = "status" /\ wdoc = d /\ row[d] # "deleted")

\* Each step of an ingestion has left its chunks where the steps before it
\* put them, and nobody who rewrites the file has forgotten a document.
StepsLeaveTheirChunks ==
    /\ wpc = "upsert" /\ row[wdoc] # "deleted"
        => \A b \in 1..Batches : b < wbatch => <<wdoc, b>> \in points
    /\ wpc \in {"lock", "exists", "load", "open", "dump", "status"}
       /\ row[wdoc] # "deleted"
        => \A b \in 1..Batches : <<wdoc, b>> \in points
    /\ wpc \in Rewriting => wmem[wdoc] > 0
    /\ \A d \in Docs : Indexed(d) =>
        /\ \A b \in 1..Batches : <<d, b>> \in points
        /\ file = "torn" \/ entries[d] > 0
        /\ wpc \in Rewriting => wmem[d] > 0
        /\ apc \in Rewriting => amem[d] > 0

\* A deletion in progress leaves behind what its steps have removed, and a
\* finished one is undone by nobody.
DeletionsStayClean ==
    \A d \in Docs : row[d] = "deleted" /\ d \notin excused =>
        /\ wdoc # d
        /\ d # adoc /\ apc \notin {"dropCollection", "unlink"} =>
            /\ entries[d] = 0
            /\ wpc \in Rewriting => wmem[d] = 0
        /\ ~(d = adoc /\ apc = "vectors") /\ apc # "dropCollection"
            => \A b \in 1..Batches : <<d, b>> \notin points
        /\ apc \in Rewriting => amem[d] = 0

\* The inductive invariant.
IndexInv ==
    /\ TypeOK
    /\ RowsAgreeWithJobs
    /\ WorkersAreOccupied
    /\ LockGuardsRewrites
    /\ MissingFileIsEmpty
    /\ CopiesAreCharged
    /\ CopiesInMemoryAreCharged
    /\ OnlyFailuresLeaveTornFile
    /\ StepsLeaveTheirChunks
    /\ DeletionsStayClean

-----------------------------------------------------------------------------
\* Types.

\* The bookkeeping after a failed attempt keeps the tables well-formed.
LEMMA FailIngestTyped ==
    ASSUME TypeOK, wdoc \in Docs, FailIngest
    PROVE  /\ row' \in [Docs -> {"none", "processing", "ready", "error",
                                 "deleted"}]
           /\ job' \in [Docs -> {"none", "queued", "running", "done",
                                 "failed"}]
           /\ tries' = tries /\ tenantLive' = tenantLive
           /\ wpc' = "idle" /\ wdoc' = NoDoc /\ wbatch' = 1
           /\ wmem' = NoEntries
BY DEF TypeOK, FailIngest, WorkerIdle, WorkerAt

\* A file is rewritten with contents: what it had, or what was in memory.
LEMMA ContentsTyped ==
    /\ NoEntries \in Contents
    /\ \A c \in Contents : \A d \in Docs :
          /\ [c EXCEPT ![d] = 0] \in Contents
          /\ c[d] < MaxAttempts => [c EXCEPT ![d] = @ + 1] \in Contents
BY IndexAssumption DEF Contents, NoEntries

\* No step leaves the types.
LEMMA TypePreserved ==
    ASSUME IndexInv, Next
    PROVE  TypeOK'
<1> USE IndexAssumption, NoDocAssumption
<1>types. TypeOK
  BY DEF IndexInv
<1>doc. wpc # "idle" => wdoc \in Docs
  BY DEF IndexInv, TypeOK, WorkersAreOccupied
<1>adoc. apc \in RemovalSteps => adoc \in Docs
  BY DEF IndexInv, TypeOK, WorkersAreOccupied
<1>fault. Fault => faults' \in 0..MaxFaults /\ crashes' \in 0..MaxCrashes
  BY <1>types DEF Fault, TypeOK
<1>1. ASSUME NEW d \in Docs, Upload(d)
      PROVE  TypeOK'
  BY <1>1, <1>types DEF Upload, TypeOK, qdrant, bm25, worker, handler, budget
<1>2. ASSUME NEW d \in Docs, StartIngest(d)
      PROVE  TypeOK'
  <2>1. tries[d] < MaxAttempts
    BY <1>2 DEF IndexInv, RowsAgreeWithJobs, StartIngest
  <2>2. QED
    BY <1>2, <2>1, <1>types DEF StartIngest, TypeOK, qdrant, bm25, handler,
       budget, WorkerAt, WorkerPC
<1>3. CASE EnsureCollection
  BY <1>3, <1>types DEF EnsureCollection, TypeOK, database, bm25, handler,
     budget, WorkerAt, WorkerPC
<1>4. CASE UpsertBatch
  BY <1>4, <1>types, <1>doc DEF UpsertBatch, TypeOK, database, bm25, handler,
     budget, WorkerAt, WorkerPC
<1>5. CASE UpsertFails
  BY <1>5, <1>types, <1>doc, <1>fault, FailIngestTyped, ContentsTyped
     DEF UpsertFails, TypeOK, qdrant, bm25, handler, budget, WorkerPC
<1>6. CASE LockForUpdate
  BY <1>6, <1>types DEF LockForUpdate, TypeOK, database, qdrant, bm25,
     handler, budget, WorkerAt, WorkerPC
<1>7. CASE LoadForUpdate
  <2>1. entries[wdoc] < MaxAttempts /\ wdoc \in Docs
    BY <1>7, <1>types, <1>doc
       DEF LoadForUpdate, TypeOK, IndexInv, CopiesInMemoryAreCharged,
           BeforeLoad, Contents
  <2>2. wmem' \in Contents
    BY <1>7, <2>1, <1>types, ContentsTyped DEF LoadForUpdate, TypeOK
  <2>3. QED
    BY <1>7, <2>2, <1>types DEF LoadForUpdate, TypeOK, database, qdrant, bm25,
       handler, budget, WorkerAt, WorkerPC
<1>fresh. CASE ExistsForUpdate
  <2>1. 1 \in 0..MaxAttempts
    BY DEF IndexAssumption
  <2>2. [NoEntries EXCEPT ![wdoc] = 1] \in Contents
    BY <2>1, ContentsTyped DEF Contents
  <2>3. QED
    BY <1>fresh, <2>2, <1>types DEF ExistsForUpdate, TypeOK, database, qdrant,
       bm25, handler, budget, WorkerAt, WorkerPC
<1>8. CASE LoadForUpdateFails
  BY <1>8, <1>types, <1>doc, <1>fault, FailIngestTyped, ContentsTyped
     DEF LoadForUpdateFails, TypeOK, qdrant, bm25, handler, budget, WorkerPC,
         Unlock
<1>9. CASE OpenForUpdate
  BY <1>9, <1>types, ContentsTyped DEF OpenForUpdate, Truncate, TypeOK,
     database, qdrant, handler, budget, WorkerAt, WorkerPC
<1>10. CASE DumpUpdate
  BY <1>10, <1>types DEF DumpUpdate, Dump, Unlock, TypeOK, database, qdrant,
     bm25, handler, budget, WorkerAt, WorkerPC
<1>11. CASE DumpUpdateFails
  BY <1>11, <1>types, <1>doc, <1>fault, FailIngestTyped, ContentsTyped
     DEF DumpUpdateFails, TypeOK, qdrant, bm25, handler, WorkerPC, Unlock
<1>12. CASE FinishIngest
  BY <1>12, <1>types, <1>doc, <1>fault, ContentsTyped
     DEF FinishIngest, WorkerIdle, WorkerAt, WorkerPC, TypeOK, qdrant, bm25,
         handler, budget
<1>13. ASSUME NEW d \in Docs, DeleteRow(d)
       PROVE  TypeOK'
  BY <1>13, <1>types DEF DeleteRow, HandlerAt, HandlerPC, TypeOK, qdrant,
     bm25, worker, budget
<1>14. CASE DeleteVectors
  BY <1>14, <1>types DEF DeleteVectors, HandlerAt, HandlerPC, TypeOK,
     database, bm25, worker, budget
<1>15. CASE DeleteVectorsFails
  BY <1>15, <1>types, <1>adoc, <1>fault, ContentsTyped
     DEF DeleteVectorsFails, GiveUpDelete, HandlerIdle, HandlerAt, HandlerPC,
         RemovalSteps, TypeOK, database, qdrant, bm25, worker, budget
<1>16. CASE ProbeIndex
  BY <1>16, <1>types, ContentsTyped DEF ProbeIndex, HandlerIdle, HandlerAt,
     HandlerPC, TypeOK, database, qdrant, bm25, worker, budget
<1>17. CASE LockForRemove
  BY <1>17, <1>types DEF LockForRemove, HandlerAt, HandlerPC, TypeOK,
     database, qdrant, bm25, worker, budget
<1>18. CASE RemoveLastEntries
  BY <1>18, <1>types, ContentsTyped DEF RemoveLastEntries, HandlerIdle,
     HandlerAt, HandlerPC, Unlock, TypeOK, database, qdrant, worker, budget
<1>19. CASE LoadForRemove
  BY <1>19, <1>types, <1>adoc, ContentsTyped DEF LoadForRemove, HandlerAt,
     HandlerPC, RemovalSteps, TypeOK, database, qdrant, bm25, worker, budget
<1>20. CASE LoadForRemoveFails
  BY <1>20, <1>types, <1>adoc, <1>fault, ContentsTyped
     DEF LoadForRemoveFails, GiveUpDelete, HandlerIdle, HandlerAt, HandlerPC,
         RemovalSteps, Unlock, TypeOK, database, qdrant, bm25, worker, budget
<1>21. CASE OpenForRemove
  BY <1>21, <1>types, ContentsTyped DEF OpenForRemove, Truncate, HandlerAt,
     HandlerPC, TypeOK, database, qdrant, worker, budget
<1>22. CASE DumpRemoval
  BY <1>22, <1>types, ContentsTyped DEF DumpRemoval, Dump, HandlerIdle,
     HandlerAt, HandlerPC, Unlock, TypeOK, database, qdrant, bm25, worker,
     budget
<1>23. CASE DumpRemovalFails
  BY <1>23, <1>types, <1>adoc, <1>fault, ContentsTyped
     DEF DumpRemovalFails, GiveUpDelete, HandlerIdle, HandlerAt, HandlerPC,
         RemovalSteps, Unlock, TypeOK, database, qdrant, bm25, worker, budget
<1>24. CASE DeleteTenantRows
  BY <1>24, <1>types DEF DeleteTenantRows, HandlerAt, HandlerPC, TypeOK,
     qdrant, bm25, worker, budget
<1>25. CASE DropCollection
  BY <1>25, <1>types, <1>fault DEF DropCollection, HandlerAt, HandlerPC,
     TypeOK, database, qdrant, bm25, worker, budget
<1>26. CASE UnlinkIndex
  BY <1>26, <1>types, ContentsTyped DEF UnlinkIndex, HandlerIdle, HandlerAt,
     HandlerPC, TypeOK, database, qdrant, worker, budget
<1>27. CASE BeginSearch
  BY <1>27, <1>types DEF BeginSearch, HandlerAt, HandlerPC, TypeOK, database,
     qdrant, bm25, worker, budget
<1>28. CASE LoadForSearch
  BY <1>28, <1>types, ContentsTyped DEF LoadForSearch, HandlerIdle, HandlerAt,
     HandlerPC, TypeOK, database, qdrant, bm25, worker, budget
<1>29. CASE Crash
  <2>1. /\ crashes' \in 0..MaxCrashes /\ faults' \in 0..MaxFaults
        /\ lock' = "free" /\ UNCHANGED <<qdrant, bm25, searchRaised>>
        /\ apc' = "idle" /\ adoc' = NoDoc /\ amem' = NoEntries
        /\ excused' \subseteq Docs
    BY <1>29, <1>types DEF Crash, Unlock, HandlerIdle, HandlerAt, TypeOK
  <2>2. /\ row' \in [Docs -> {"none", "processing", "ready", "error",
                              "deleted"}]
        /\ job' \in [Docs -> {"none", "queued", "running", "done", "failed"}]
        /\ tries' = tries /\ tenantLive' = tenantLive
        /\ wpc' \in WorkerPC /\ wdoc' \in Docs \cup {NoDoc}
        /\ wbatch' \in 1..Batches /\ wmem' \in Contents
    BY <1>29, <1>types, <1>doc, FailIngestTyped, ContentsTyped
       DEF Crash, TypeOK, database, worker, WorkerPC
  <2>3. QED
    BY <2>1, <2>2, <1>types, ContentsTyped DEF TypeOK, qdrant, bm25, HandlerPC
<1>30. QED
  BY <1>1, <1>2, <1>3, <1>4, <1>5, <1>6, <1>7, <1>8, <1>9, <1>10, <1>11,
     <1>12, <1>13, <1>14, <1>15, <1>16, <1>17, <1>18, <1>19, <1>20, <1>21,
     <1>22, <1>23, <1>24, <1>25, <1>26, <1>27, <1>28, <1>29, <1>fresh
     DEF Next, WorkerStep, HandlerStep

-----------------------------------------------------------------------------
\* Which steps touch what.

\* Deletions and searches leave the database and the worker alone once their
\* rows are committed.
LEMMA HandlerSteps ==
    HandlerStep \/ BeginSearch => UNCHANGED <<database, worker, crashes>>
BY DEF HandlerStep, BeginSearch, DeleteVectors, DeleteVectorsFails, ProbeIndex,
   LockForRemove, RemoveLastEntries, LoadForRemove, LoadForRemoveFails,
   OpenForRemove, DumpRemoval, DumpRemovalFails, DropCollection, UnlinkIndex,
   LoadForSearch, GiveUpDelete, Fault, budget

\* The worker leaves handlers and the tenant alone; a failure inside ingest
\* ends its attempt, and the other steps but the last keep the database.
WorkerMoves ==
    EnsureCollection \/ UpsertBatch \/ LockForUpdate \/ ExistsForUpdate
    \/ LoadForUpdate \/ OpenForUpdate \/ DumpUpdate
WorkerFails == UpsertFails \/ LoadForUpdateFails \/ DumpUpdateFails

\* What the groups of steps leave alone.
LEMMA WorkerSteps ==
    /\ WorkerMoves => UNCHANGED <<database, handler, wdoc, excused, budget>>
    /\ WorkerFails => FailIngest /\ UNCHANGED <<qdrant, bm25, handler, excused>>
    /\ WorkerStep => UNCHANGED <<tenantLive, handler, excused, crashes>>
BY DEF WorkerMoves, WorkerFails, WorkerStep, StartIngest, EnsureCollection,
   UpsertBatch, UpsertFails, LockForUpdate, ExistsForUpdate, LoadForUpdate,
   LoadForUpdateFails, OpenForUpdate, DumpUpdate, DumpUpdateFails,
   FinishIngest, FailIngest, Fault, database, handler, budget

\* The next-state relation, by those groups.
LEMMA NextByGroups ==
    ASSUME Next
    PROVE  \/ WorkerMoves \/ WorkerFails \/ FinishIngest
           \/ HandlerStep \/ BeginSearch \/ DeleteTenantRows \/ Crash
           \/ \E d \in Docs : Upload(d) \/ StartIngest(d) \/ DeleteRow(d)
BY DEF Next, WorkerStep, WorkerMoves, WorkerFails

-----------------------------------------------------------------------------
\* Rows, jobs and who works on what.

\* A job that runs again has attempts left, and no step revives the job or the
\* row of a deleted document.
LEMMA RowsPreserved ==
    ASSUME IndexInv, Next
    PROVE  RowsAgreeWithJobs'
<1> USE IndexAssumption, NoDocAssumption DEF RowsAgreeWithJobs
<1>inv. TypeOK /\ RowsAgreeWithJobs /\ WorkersAreOccupied
  BY DEF IndexInv
<1>fail. ASSUME FailIngest, wpc # "idle"
         PROVE  RowsAgreeWithJobs'
  <2>1. wdoc \in Docs
    BY <1>fail, <1>inv DEF WorkersAreOccupied, TypeOK
  <2>2. QED
    BY <1>fail, <1>inv, <2>1 DEF FailIngest, WorkerIdle, TypeOK
<1>1. ASSUME NEW d \in Docs, Upload(d)
      PROVE  RowsAgreeWithJobs'
  BY <1>1, <1>inv DEF Upload, worker, TypeOK
<1>2. ASSUME NEW d \in Docs, StartIngest(d)
      PROVE  RowsAgreeWithJobs'
  BY <1>2, <1>inv DEF StartIngest, TypeOK
<1>3. ASSUME NEW d \in Docs, DeleteRow(d)
      PROVE  RowsAgreeWithJobs'
  BY <1>3, <1>inv DEF DeleteRow, worker, TypeOK
<1>4. CASE WorkerMoves
  BY <1>4, <1>inv, WorkerSteps DEF database
<1>5. CASE WorkerFails
  BY <1>5, <1>fail, WorkerSteps DEF WorkerFails, UpsertFails,
     LoadForUpdateFails, DumpUpdateFails
<1>6. CASE FinishIngest
  <2>1. wdoc \in Docs
    BY <1>6, <1>inv DEF FinishIngest, WorkersAreOccupied, TypeOK
  <2>2. QED
    BY <1>6, <1>inv, <2>1 DEF FinishIngest, WorkerIdle, TypeOK
<1>7. CASE HandlerStep \/ BeginSearch
  BY <1>7, <1>inv, HandlerSteps DEF database, worker
<1>8. CASE DeleteTenantRows
  BY <1>8, <1>inv DEF DeleteTenantRows, worker, TypeOK
<1>9. CASE Crash
  BY <1>9, <1>inv, <1>fail DEF Crash, database, worker
<1>10. QED
  BY <1>1, <1>2, <1>3, <1>4, <1>5, <1>6, <1>7, <1>8, <1>9, NextByGroups

\* Who works on what stays consistent.
LEMMA OccupationPreserved ==
    ASSUME IndexInv, Next
    PROVE  WorkersAreOccupied'
<1> USE IndexAssumption, NoDocAssumption DEF WorkersAreOccupied, RemovalSteps
<1>inv. TypeOK /\ RowsAgreeWithJobs /\ WorkersAreOccupied
  BY DEF IndexInv
<1>fail. ASSUME FailIngest, wpc # "idle"
         PROVE  /\ wpc' = "idle" /\ wdoc' = NoDoc /\ wbatch' = 1
                /\ \A d \in Docs : row[d] = "deleted" => row'[d] = "deleted"
                /\ tenantLive' = tenantLive
  <2>1. wdoc \in Docs
    BY <1>fail, <1>inv DEF TypeOK
  <2>2. QED
    BY <1>fail, <1>inv, <2>1
       DEF FailIngest, WorkerIdle, WorkerAt, TypeOK, RowsAgreeWithJobs
<1>1. ASSUME NEW d \in Docs, Upload(d)
      PROVE  WorkersAreOccupied'
  BY <1>1, <1>inv DEF Upload, worker, handler, TypeOK
<1>2. ASSUME NEW d \in Docs, StartIngest(d)
      PROVE  WorkersAreOccupied'
  BY <1>2, <1>inv DEF StartIngest, WorkerAt, handler, TypeOK,
     RowsAgreeWithJobs
<1>3. ASSUME NEW d \in Docs, DeleteRow(d)
      PROVE  WorkersAreOccupied'
  BY <1>3, <1>inv DEF DeleteRow, HandlerAt, worker, TypeOK, RowsAgreeWithJobs
<1>4. CASE WorkerMoves
  BY <1>4, <1>inv, WorkerSteps
     DEF WorkerMoves, EnsureCollection, UpsertBatch, LockForUpdate,
         ExistsForUpdate, LoadForUpdate, OpenForUpdate, DumpUpdate, WorkerAt,
         database, handler
<1>5. CASE WorkerFails
  BY <1>5, <1>inv, <1>fail, WorkerSteps
     DEF WorkerFails, UpsertFails, LoadForUpdateFails, DumpUpdateFails,
         handler, TypeOK
<1>6. CASE FinishIngest
  BY <1>6, <1>inv DEF FinishIngest, WorkerIdle, WorkerAt, handler, TypeOK
<1>7. CASE HandlerStep
  BY <1>7, <1>inv, HandlerSteps
     DEF HandlerStep, DeleteVectors, DeleteVectorsFails, ProbeIndex,
         LockForRemove, RemoveLastEntries, LoadForRemove, LoadForRemoveFails,
         OpenForRemove, DumpRemoval, DumpRemovalFails, DropCollection,
         UnlinkIndex, LoadForSearch, GiveUpDelete, HandlerIdle, HandlerAt,
         database, worker, TypeOK
<1>8. CASE BeginSearch
  BY <1>8, <1>inv DEF BeginSearch, HandlerAt, database, worker
<1>9. CASE DeleteTenantRows
  BY <1>9, <1>inv DEF DeleteTenantRows, HandlerAt, worker, TypeOK
<1>10. CASE Crash
  BY <1>10, <1>inv, <1>fail
     DEF Crash, HandlerIdle, HandlerAt, database, worker, TypeOK
<1>11. QED
  BY <1>1, <1>2, <1>3, <1>4, <1>5, <1>6, <1>7, <1>8, <1>9, <1>10, NextByGroups

\* The lock is taken before the load and released with the dump or with any
\* exception in between.
LEMMA LockPreserved ==
    ASSUME IndexInv, Next
    PROVE  LockGuardsRewrites'
<1> USE DEF LockGuardsRewrites, WorkerAt, HandlerAt, Unlock
<1>inv. TypeOK /\ LockGuardsRewrites
  BY DEF IndexInv
<1>1. ASSUME NEW d \in Docs, Upload(d) \/ StartIngest(d) \/ DeleteRow(d)
      PROVE  LockGuardsRewrites'
  BY <1>1, <1>inv DEF Upload, StartIngest, DeleteRow, worker, handler
<1>2. CASE WorkerMoves
  BY <1>2, <1>inv
     DEF WorkerMoves, EnsureCollection, UpsertBatch, LockForUpdate,
         ExistsForUpdate, LoadForUpdate, OpenForUpdate, DumpUpdate, handler
<1>3. CASE WorkerFails
  BY <1>3, <1>inv
     DEF WorkerFails, UpsertFails, LoadForUpdateFails, DumpUpdateFails,
         FailIngest, WorkerIdle, handler
<1>4. CASE FinishIngest
  BY <1>4, <1>inv DEF FinishIngest, WorkerIdle, handler
<1>5. CASE HandlerStep
  BY <1>5, <1>inv, HandlerSteps
     DEF HandlerStep, DeleteVectors, DeleteVectorsFails, ProbeIndex,
         LockForRemove, RemoveLastEntries, LoadForRemove, LoadForRemoveFails,
         OpenForRemove, DumpRemoval, DumpRemovalFails, DropCollection,
         UnlinkIndex, LoadForSearch, GiveUpDelete, HandlerIdle, worker
<1>6. CASE BeginSearch \/ DeleteTenantRows
  BY <1>6, <1>inv DEF BeginSearch, DeleteTenantRows, worker
<1>7. CASE Crash
  BY <1>7, <1>inv DEF Crash, HandlerIdle, FailIngest, WorkerIdle, worker
<1>8. QED
  BY <1>1, <1>2, <1>3, <1>4, <1>5, <1>6, <1>7, NextByGroups

-----------------------------------------------------------------------------
\* The contents of the file.

\* A file that is unlinked while a writer has it open stays unlinked.
LEMMA MissingFilePreserved ==
    ASSUME IndexInv, Next
    PROVE  MissingFileIsEmpty'
<1> USE DEF MissingFileIsEmpty, Rewriting, WorkerAt, HandlerAt
<1>inv. TypeOK /\ LockGuardsRewrites /\ WorkersAreOccupied
        /\ MissingFileIsEmpty
  BY DEF IndexInv
<1>1. ASSUME NEW d \in Docs, Upload(d) \/ StartIngest(d) \/ DeleteRow(d)
      PROVE  MissingFileIsEmpty'
  BY <1>1, <1>inv DEF Upload, StartIngest, DeleteRow, bm25, worker
<1>2. CASE EnsureCollection \/ UpsertBatch \/ LockForUpdate
  BY <1>2, <1>inv
     DEF EnsureCollection, UpsertBatch, LockForUpdate, bm25, database
<1>3. CASE LoadForUpdate
  BY <1>3, <1>inv DEF LoadForUpdate, bm25, database
<1>fresh. CASE ExistsForUpdate
  <2>1. file = "absent" => \A d \in Docs : d # wdoc => wmem'[d] = 0
    BY <1>fresh DEF ExistsForUpdate, NoEntries
  <2>2. QED
    BY <1>fresh, <1>inv, <2>1 DEF ExistsForUpdate, bm25, database
<1>4. CASE OpenForUpdate
  BY <1>4, <1>inv DEF OpenForUpdate, Truncate
<1>5. CASE DumpUpdate
  BY <1>5, <1>inv DEF DumpUpdate, Dump, bm25
<1>6. CASE WorkerFails \/ FinishIngest
  BY <1>6, <1>inv
     DEF WorkerFails, UpsertFails, LoadForUpdateFails, DumpUpdateFails,
         FinishIngest, FailIngest, WorkerIdle, bm25
<1>7. CASE HandlerStep
  BY <1>7, <1>inv, HandlerSteps
     DEF HandlerStep, DeleteVectors, DeleteVectorsFails, ProbeIndex,
         LockForRemove, RemoveLastEntries, LoadForRemove, LoadForRemoveFails,
         OpenForRemove, DumpRemoval, DumpRemovalFails, DropCollection,
         UnlinkIndex, LoadForSearch, GiveUpDelete, Truncate, Dump,
         LockGuardsRewrites, WorkersAreOccupied, database, worker, bm25
<1>8. CASE BeginSearch \/ DeleteTenantRows
  BY <1>8, <1>inv DEF BeginSearch, DeleteTenantRows, database, bm25, worker
<1>9. CASE Crash
  BY <1>9, <1>inv DEF Crash, FailIngest, WorkerIdle, database, bm25, worker
<1>10. QED
  BY <1>1, <1>2, <1>3, <1>fresh, <1>4, <1>5, <1>6, <1>7, <1>8, <1>9,
     NextByGroups DEF WorkerMoves

\* Every rewrite puts back what was loaded, less a deleted document or plus
\* the one copy of the running attempt.
LEMMA CopiesPreserved ==
    ASSUME IndexInv, Next
    PROVE  CopiesAreCharged' /\ CopiesInMemoryAreCharged'
<1> USE IndexAssumption, NoDocAssumption
    DEF CopiesAreCharged, CopiesInMemoryAreCharged, BeforeLoad, WorkerAt,
        HandlerAt, NoEntries, Contents
<1>inv. TypeOK /\ WorkersAreOccupied /\ CopiesAreCharged
        /\ CopiesInMemoryAreCharged
  BY DEF IndexInv
<1>fail. ASSUME FailIngest
         PROVE  /\ tries' = tries /\ wpc' = "idle"
                /\ \A d \in Docs : wmem'[d] = 0
  BY <1>fail DEF FailIngest, WorkerIdle
<1>1. ASSUME NEW d \in Docs, Upload(d) \/ DeleteRow(d)
      PROVE  CopiesAreCharged' /\ CopiesInMemoryAreCharged'
  BY <1>1, <1>inv DEF Upload, DeleteRow, bm25, worker, handler
<1>2. ASSUME NEW d \in Docs, StartIngest(d)
      PROVE  CopiesAreCharged' /\ CopiesInMemoryAreCharged'
  BY <1>2, <1>inv DEF StartIngest, TypeOK, bm25, handler
<1>3. CASE EnsureCollection \/ UpsertBatch \/ LockForUpdate
  BY <1>3, <1>inv
     DEF EnsureCollection, UpsertBatch, LockForUpdate, bm25, database, handler
<1>4. CASE LoadForUpdate
  <2>1. wdoc \in Docs
    BY <1>4, <1>inv DEF LoadForUpdate, WorkersAreOccupied, TypeOK
  <2>2. \A d \in Docs : wmem'[d] <= tries[d]
    BY <1>4, <1>inv, <2>1 DEF LoadForUpdate, TypeOK
  <2>3. QED
    BY <1>4, <1>inv, <2>2 DEF LoadForUpdate, bm25, database, handler
<1>fresh. CASE ExistsForUpdate
  <2>1. \A d \in Docs : wmem'[d] <= tries[d]
    BY <1>fresh, <1>inv DEF ExistsForUpdate, TypeOK, WorkersAreOccupied
  <2>2. QED
    BY <1>fresh, <1>inv, <2>1 DEF ExistsForUpdate, bm25, database, handler
<1>5. CASE OpenForUpdate \/ DumpUpdate
  BY <1>5, <1>inv
     DEF OpenForUpdate, DumpUpdate, Truncate, Dump, bm25, database, handler,
         TypeOK
<1>6. CASE WorkerFails
  BY <1>6, <1>inv, <1>fail, WorkerSteps DEF bm25, handler, TypeOK
<1>7. CASE FinishIngest
  BY <1>7, <1>inv DEF FinishIngest, WorkerIdle, bm25, handler, TypeOK
<1>8. CASE HandlerStep
  <2>1. CASE LoadForRemove
    <3>1. \A d \in Docs : amem'[d] \in {0, entries[d]}
      BY <2>1, <1>inv DEF LoadForRemove, TypeOK
    <3>2. QED
      BY <2>1, <3>1, <1>inv
         DEF LoadForRemove, database, bm25, worker, TypeOK, WorkersAreOccupied
  <2>2. CASE RemoveLastEntries \/ OpenForRemove \/ DumpRemoval \/ UnlinkIndex
    BY <2>2, <1>inv
       DEF RemoveLastEntries, OpenForRemove, DumpRemoval, UnlinkIndex,
           HandlerIdle, Truncate, Dump, database, bm25, worker, TypeOK,
           WorkersAreOccupied
  <2>3. CASE DeleteVectors \/ LockForRemove \/ DropCollection
    BY <2>3, <1>inv
       DEF DeleteVectors, LockForRemove, DropCollection, database, bm25,
           worker
  <2>4. CASE DeleteVectorsFails \/ ProbeIndex \/ LoadForRemoveFails
             \/ DumpRemovalFails \/ LoadForSearch
    BY <2>4, <1>inv
       DEF DeleteVectorsFails, ProbeIndex, LoadForRemoveFails,
           DumpRemovalFails, LoadForSearch, GiveUpDelete, HandlerIdle,
           database, bm25, worker, TypeOK, WorkersAreOccupied
  <2>5. QED
    BY <1>8, <2>1, <2>2, <2>3, <2>4 DEF HandlerStep
<1>9. CASE BeginSearch \/ DeleteTenantRows
  BY <1>9, <1>inv
     DEF BeginSearch, DeleteTenantRows, database, bm25, worker
<1>10. CASE Crash
  <2>1. /\ tries' = tries /\ wpc' = "idle"
        /\ \A d \in Docs : wmem'[d] <= tries[d]
    BY <1>10, <1>inv, <1>fail DEF Crash, database, worker, TypeOK
  <2>2. QED
    BY <1>10, <1>inv, <2>1 DEF Crash, HandlerIdle, bm25, TypeOK
<1>11. QED
  BY <1>1, <1>2, <1>3, <1>4, <1>fresh, <1>5, <1>6, <1>7, <1>8, <1>9, <1>10,
     NextByGroups DEF WorkerMoves

\* Whoever truncates the file fills it, unless a failure or a crash stops it.
LEMMA TornPreserved ==
    ASSUME IndexInv, Next
    PROVE  OnlyFailuresLeaveTornFile'
<1> USE DEF OnlyFailuresLeaveTornFile, WorkerAt, HandlerAt
<1>inv. TypeOK /\ OnlyFailuresLeaveTornFile
  BY DEF IndexInv
<1>counts. crashes \in Nat /\ faults \in Nat
  BY <1>inv DEF TypeOK
<1>1. ASSUME NEW d \in Docs, Upload(d) \/ StartIngest(d) \/ DeleteRow(d)
      PROVE  OnlyFailuresLeaveTornFile'
  BY <1>1, <1>inv
     DEF Upload, StartIngest, DeleteRow, bm25, worker, handler, budget
<1>2. CASE WorkerMoves
  BY <1>2, <1>inv
     DEF WorkerMoves, EnsureCollection, UpsertBatch, LockForUpdate,
         ExistsForUpdate, LoadForUpdate, OpenForUpdate, DumpUpdate, Truncate,
         Dump, bm25, handler, budget
<1>3. CASE WorkerFails
  BY <1>3, <1>inv, <1>counts
     DEF WorkerFails, UpsertFails, LoadForUpdateFails, DumpUpdateFails, Fault,
         FailIngest, WorkerIdle, bm25, handler, budget
<1>4. CASE FinishIngest
  BY <1>4, <1>inv, <1>counts
     DEF FinishIngest, WorkerIdle, Fault, bm25, handler, budget
<1>5. CASE HandlerStep
  BY <1>5, <1>inv, <1>counts
     DEF HandlerStep, DeleteVectors, DeleteVectorsFails, ProbeIndex,
         LockForRemove, RemoveLastEntries, LoadForRemove, LoadForRemoveFails,
         OpenForRemove, DumpRemoval, DumpRemovalFails, DropCollection,
         UnlinkIndex, LoadForSearch, GiveUpDelete, HandlerIdle, Truncate,
         Dump, Fault, bm25, worker, budget
<1>6. CASE BeginSearch \/ DeleteTenantRows
  BY <1>6, <1>inv DEF BeginSearch, DeleteTenantRows, bm25, worker, budget
<1>7. CASE Crash
  BY <1>7, <1>counts DEF Crash
<1>8. QED
  BY <1>1, <1>2, <1>3, <1>4, <1>5, <1>6, <1>7, NextByGroups

-----------------------------------------------------------------------------
\* Searchability.

\* Chunks that must be found are removed by no step: batches only go with a
\* deleted document or tenant, entries only by a rewrite that has loaded them.
LEMMA ChunksPreserved ==
    ASSUME IndexInv, Next
    PROVE  StepsLeaveTheirChunks'
<1> USE IndexAssumption, NoDocAssumption
    DEF StepsLeaveTheirChunks, Indexed, Rewriting, WorkerAt, HandlerAt,
        NoEntries, Contents
<1>inv. TypeOK /\ RowsAgreeWithJobs /\ WorkersAreOccupied
        /\ LockGuardsRewrites /\ MissingFileIsEmpty /\ StepsLeaveTheirChunks
  BY DEF IndexInv
<1>doc. wpc # "idle" => wdoc \in Docs /\ row[wdoc] # "none"
  BY <1>inv DEF WorkersAreOccupied, RowsAgreeWithJobs, TypeOK
<1>fail. ASSUME FailIngest, wpc # "idle"
         PROVE  /\ wpc' = "idle"
                /\ \A d \in Docs : row'[d] = "ready" => row[d] = "ready"
  BY <1>fail, <1>doc, <1>inv DEF FailIngest, WorkerIdle, TypeOK
<1>1. ASSUME NEW d \in Docs, Upload(d)
      PROVE  StepsLeaveTheirChunks'
  BY <1>1, <1>inv, <1>doc DEF Upload, qdrant, bm25, worker, handler, TypeOK
<1>2. ASSUME NEW d \in Docs, StartIngest(d)
      PROVE  StepsLeaveTheirChunks'
  BY <1>2, <1>inv DEF StartIngest, qdrant, bm25, handler, TypeOK
<1>3. ASSUME NEW d \in Docs, DeleteRow(d)
      PROVE  StepsLeaveTheirChunks'
  BY <1>3, <1>inv, <1>doc
     DEF DeleteRow, qdrant, bm25, worker, handler, TypeOK
<1>4. CASE EnsureCollection \/ LockForUpdate
  BY <1>4, <1>inv
     DEF EnsureCollection, LockForUpdate, database, bm25, handler, TypeOK,
         WorkersAreOccupied, qdrant
<1>5. CASE UpsertBatch
  BY <1>5, <1>inv DEF UpsertBatch, database, bm25, handler, TypeOK
<1>6. CASE LoadForUpdate
  <2>1. \A d \in Docs : entries[d] \in Nat /\ (Indexed(d) => entries[d] > 0)
    BY <1>6, <1>inv DEF LoadForUpdate, TypeOK
  <2>2. /\ wdoc \in Docs
        /\ \A d \in Docs : wmem'[d] = IF d = wdoc THEN entries[d] + 1
                                                ELSE entries[d]
    BY <1>6, <1>doc, <1>inv DEF LoadForUpdate, TypeOK
  <2>3. QED
    BY <1>6, <1>inv, <2>1, <2>2
       DEF LoadForUpdate, database, qdrant, bm25, handler
<1>fresh. CASE ExistsForUpdate
  <2>1. file = "absent" => \A d \in Docs : ~Indexed(d)
    BY <1>inv DEF MissingFileIsEmpty
  <2>2. /\ wdoc \in Docs
        /\ file = "absent" => wmem'[wdoc] = 1
    BY <1>fresh, <1>doc, <1>inv DEF ExistsForUpdate
  <2>3. QED
    BY <1>fresh, <1>inv, <2>1, <2>2
       DEF ExistsForUpdate, database, qdrant, bm25, handler
<1>7. CASE OpenForUpdate
  BY <1>7, <1>inv DEF OpenForUpdate, Truncate, database, qdrant, handler
<1>8. CASE DumpUpdate
  BY <1>8, <1>inv, <1>doc
     DEF DumpUpdate, Dump, database, qdrant, bm25, handler, TypeOK,
         MissingFileIsEmpty, LockGuardsRewrites, RowsAgreeWithJobs
<1>9. CASE WorkerFails
  BY <1>9, <1>inv, <1>fail, WorkerSteps
     DEF WorkerFails, UpsertFails, LoadForUpdateFails, DumpUpdateFails, qdrant,
         bm25, handler
<1>10. CASE FinishIngest
  BY <1>10, <1>inv, <1>doc
     DEF FinishIngest, WorkerIdle, qdrant, bm25, handler, TypeOK
<1>11. CASE HandlerStep
  <2>1. UNCHANGED <<row, wpc, wdoc, wbatch, wmem>>
    BY <1>11, HandlerSteps DEF database, worker
  <2>2. \A d \in Docs : Indexed(d)' <=> Indexed(d)
    BY <2>1
  <2>3. CASE DeleteVectors
    <3>1. \A d \in Docs, b \in 1..Batches :
              row[d] # "deleted" /\ <<d, b>> \in points
              => <<d, b>> \in points'
      BY <2>3, <1>inv DEF DeleteVectors, WorkersAreOccupied, RemovalSteps
    <3>2. QED
      BY <2>3, <1>inv, <1>doc, <2>1, <3>1
         DEF DeleteVectors, bm25, TypeOK
  <2>4. CASE DropCollection
    BY <2>4, <1>inv, <1>doc, <2>1
       DEF DropCollection, bm25, WorkersAreOccupied, RowsAgreeWithJobs
  <2>5. CASE LoadForRemove
    <3>1. \A d \in Docs : Indexed(d) => amem'[d] > 0
      BY <2>5, <1>inv
         DEF LoadForRemove, WorkersAreOccupied, RemovalSteps, TypeOK
    <3>2. QED
      BY <2>5, <1>inv, <2>1, <3>1 DEF LoadForRemove, qdrant, bm25
  <2>6. CASE OpenForRemove
    BY <2>6, <1>inv, <2>1 DEF OpenForRemove, Truncate, qdrant
  <2>7. CASE DumpRemoval
    BY <2>7, <1>inv, <2>1
       DEF DumpRemoval, Dump, HandlerIdle, qdrant, bm25, MissingFileIsEmpty,
           TypeOK
  <2>8. CASE RemoveLastEntries
    <3>1. \A d \in Docs : ~Indexed(d)
      <4>1. CASE file = "absent"
        BY <4>1, <1>inv DEF MissingFileIsEmpty
      <4>2. CASE file = "whole" /\ [entries EXCEPT ![adoc] = 0] = NoEntries
        <5>1. \A d \in Docs : d # adoc => entries[d] = 0
          BY <4>2, <1>inv DEF TypeOK
        <5>2. QED
          BY <4>2, <5>1, <1>inv, <2>8
             DEF RemoveLastEntries, WorkersAreOccupied, RemovalSteps
      <4>3. QED
        BY <2>8, <4>1, <4>2 DEF RemoveLastEntries
    <3>2. QED
      BY <2>8, <1>inv, <2>1, <3>1 DEF RemoveLastEntries, HandlerIdle, qdrant
  <2>9. CASE UnlinkIndex
    BY <2>9, <1>inv, <1>doc, <2>1
       DEF UnlinkIndex, HandlerIdle, qdrant, WorkersAreOccupied,
           RowsAgreeWithJobs
  <2>10. CASE DeleteVectorsFails \/ ProbeIndex \/ LockForRemove
              \/ LoadForRemoveFails \/ DumpRemovalFails \/ LoadForSearch
    BY <2>10, <1>inv, <2>1
       DEF DeleteVectorsFails, ProbeIndex, LockForRemove, LoadForRemoveFails,
           DumpRemovalFails, LoadForSearch, GiveUpDelete, HandlerIdle, qdrant,
           bm25
  <2>11. QED
    BY <1>11, <2>3, <2>4, <2>5, <2>6, <2>7, <2>8, <2>9, <2>10 DEF HandlerStep
<1>12. CASE BeginSearch
  BY <1>12, <1>inv DEF BeginSearch, database, qdrant, bm25, worker
<1>13. CASE DeleteTenantRows
  BY <1>13, <1>inv, <1>doc DEF DeleteTenantRows, qdrant, bm25, worker
<1>14. CASE Crash
  BY <1>14, <1>inv, <1>fail
     DEF Crash, HandlerIdle, database, qdrant, bm25, worker
<1>15. QED
  BY <1>1, <1>2, <1>3, <1>4, <1>5, <1>6, <1>7, <1>8, <1>9, <1>10, <1>11,
     <1>12, <1>13, <1>14, <1>fresh, NextByGroups DEF WorkerMoves

-----------------------------------------------------------------------------
\* Deletions.

\* What the removal of a document has taken out stays out, unless the deletion
\* is excused: nobody puts its chunks back from what he loaded before.
LEMMA DeletionsPreserved ==
    ASSUME IndexInv, Next
    PROVE  DeletionsStayClean'
<1> USE IndexAssumption, NoDocAssumption
    DEF DeletionsStayClean, Rewriting, WorkerAt, HandlerAt, NoEntries, Contents
<1>inv. TypeOK /\ RowsAgreeWithJobs /\ WorkersAreOccupied
        /\ LockGuardsRewrites /\ MissingFileIsEmpty /\ DeletionsStayClean
  BY DEF IndexInv
<1>doc. wpc # "idle" => wdoc \in Docs
  BY <1>inv DEF WorkersAreOccupied, TypeOK
<1>fail. ASSUME FailIngest, wpc # "idle"
         PROVE  /\ wpc' = "idle" /\ wdoc' = NoDoc
                /\ \A d \in Docs : row'[d] = "deleted" => row[d] = "deleted"
  BY <1>fail, <1>doc, <1>inv DEF FailIngest, WorkerIdle, TypeOK
<1>1. ASSUME NEW d \in Docs, Upload(d)
      PROVE  DeletionsStayClean'
  BY <1>1, <1>inv DEF Upload, qdrant, bm25, worker, handler, TypeOK
<1>2. ASSUME NEW d \in Docs, StartIngest(d)
      PROVE  DeletionsStayClean'
  BY <1>2, <1>inv
     DEF StartIngest, RowsAgreeWithJobs, qdrant, bm25, handler, TypeOK
<1>3. ASSUME NEW d \in Docs, DeleteRow(d)
      PROVE  DeletionsStayClean'
  BY <1>3, <1>inv
     DEF DeleteRow, WorkersAreOccupied, RemovalSteps, qdrant, bm25, worker,
         TypeOK
<1>4. CASE EnsureCollection \/ LockForUpdate
  BY <1>4, <1>inv
     DEF EnsureCollection, LockForUpdate, database, qdrant, bm25, handler
<1>5. CASE UpsertBatch
  BY <1>5, <1>inv DEF UpsertBatch, database, bm25, handler
<1>6. CASE LoadForUpdate
  <2>1. \A d \in Docs : d # wdoc => wmem'[d] = entries[d]
    BY <1>6, <1>inv DEF LoadForUpdate, TypeOK
  <2>2. QED
    BY <1>6, <1>inv, <2>1
       DEF LoadForUpdate, database, qdrant, bm25, handler
<1>fresh. CASE ExistsForUpdate
  <2>1. file = "absent" => \A d \in Docs : d # wdoc => wmem'[d] = 0
    BY <1>fresh DEF ExistsForUpdate
  <2>2. QED
    BY <1>fresh, <1>inv, <2>1
       DEF ExistsForUpdate, database, qdrant, bm25, handler
<1>7. CASE OpenForUpdate
  BY <1>7, <1>inv DEF OpenForUpdate, Truncate, database, qdrant, handler
<1>8. CASE DumpUpdate
  BY <1>8, <1>inv
     DEF DumpUpdate, Dump, database, qdrant, bm25, handler
<1>9. CASE WorkerFails
  BY <1>9, <1>inv, <1>fail, WorkerSteps
     DEF WorkerFails, UpsertFails, LoadForUpdateFails, DumpUpdateFails, qdrant,
         bm25, handler
<1>10. CASE FinishIngest
  BY <1>10, <1>inv, <1>doc
     DEF FinishIngest, WorkerIdle, qdrant, bm25, handler, TypeOK
<1>11. CASE HandlerStep
  <2>1. UNCHANGED <<row, tenantLive, wpc, wdoc, wbatch, wmem>>
    BY <1>11, HandlerSteps DEF database, worker
  <2>2. CASE DeleteVectors
    BY <2>2, <1>inv, <2>1
       DEF DeleteVectors, WorkersAreOccupied, RemovalSteps, bm25, TypeOK
  <2>3. CASE ProbeIndex
    <3>1. CASE file = "absent"
      BY <2>3, <3>1, <1>inv, <2>1
         DEF ProbeIndex, HandlerIdle, WorkersAreOccupied, RemovalSteps,
             MissingFileIsEmpty, qdrant, bm25, TypeOK
    <3>2. CASE file # "absent"
      BY <2>3, <3>2, <1>inv, <2>1 DEF ProbeIndex, qdrant, bm25
    <3>3. QED
      BY <3>1, <3>2
  <2>4. CASE LockForRemove
    BY <2>4, <1>inv, <2>1 DEF LockForRemove, qdrant, bm25
  <2>5. CASE RemoveLastEntries
    BY <2>5, <1>inv, <2>1
       DEF RemoveLastEntries, HandlerIdle, LockGuardsRewrites, qdrant
  <2>6. CASE LoadForRemove
    BY <2>6, <1>inv, <2>1 DEF LoadForRemove, qdrant, bm25, TypeOK
  <2>7. CASE OpenForRemove
    BY <2>7, <1>inv, <2>1 DEF OpenForRemove, Truncate, qdrant
  <2>8. CASE DumpRemoval
    BY <2>8, <1>inv, <2>1
       DEF DumpRemoval, Dump, HandlerIdle, LockGuardsRewrites,
           MissingFileIsEmpty, qdrant, bm25, TypeOK
  <2>9. CASE DeleteVectorsFails \/ LoadForRemoveFails \/ DumpRemovalFails
    BY <2>9, <1>inv, <2>1
       DEF DeleteVectorsFails, LoadForRemoveFails, DumpRemovalFails,
           GiveUpDelete, HandlerIdle, qdrant, bm25
  <2>10. CASE DropCollection
    BY <2>10, <1>inv, <2>1
       DEF DropCollection, qdrant, bm25, WorkersAreOccupied, RemovalSteps
  <2>11. CASE UnlinkIndex
    BY <2>11, <1>inv, <2>1
       DEF UnlinkIndex, HandlerIdle, WorkersAreOccupied, RemovalSteps, qdrant,
           TypeOK
  <2>12. CASE LoadForSearch
    BY <2>12, <1>inv, <2>1
       DEF LoadForSearch, HandlerIdle, WorkersAreOccupied, RemovalSteps,
           qdrant, bm25, TypeOK
  <2>13. QED
    BY <1>11, <2>2, <2>3, <2>4, <2>5, <2>6, <2>7, <2>8, <2>9, <2>10, <2>11,
       <2>12 DEF HandlerStep
<1>12. CASE BeginSearch
  BY <1>12, <1>inv
     DEF BeginSearch, database, qdrant, bm25, worker, handler
<1>13. CASE DeleteTenantRows
  BY <1>13, <1>inv
     DEF DeleteTenantRows, WorkersAreOccupied, qdrant, bm25, worker
<1>14. CASE Crash
  BY <1>14, <1>inv, <1>fail
     DEF Crash, HandlerIdle, WorkersAreOccupied, RemovalSteps, database, qdrant,
         bm25, worker
<1>15. QED
  BY <1>1, <1>2, <1>3, <1>4, <1>5, <1>6, <1>7, <1>8, <1>9, <1>10, <1>11,
     <1>12, <1>13, <1>14, <1>fresh, NextByGroups DEF WorkerMoves

-----------------------------------------------------------------------------
\* The theorems.

\* A tenant without documents satisfies the invariant.
LEMMA InitEstablishesIndexInv == Init => IndexInv
<1> USE IndexAssumption, NoDocAssumption
<1> SUFFICES ASSUME Init
             PROVE  IndexInv
  OBVIOUS
<1>1. TypeOK
  <2>1. /\ 0 \in 0..MaxAttempts /\ 1 \in 1..Batches
        /\ 0 \in 0..MaxCrashes /\ 0 \in 0..MaxFaults
    BY DEF IndexAssumption
  <2>2. /\ row \in [Docs -> {"none"}] /\ job \in [Docs -> {"none"}]
        /\ tries \in [Docs -> {0}]
    BY DEF Init
  <2>3. QED
    BY <2>1, <2>2, ContentsTyped DEF Init, TypeOK, WorkerPC, HandlerPC
<1>2. RowsAgreeWithJobs /\ WorkersAreOccupied
  BY DEF Init, RowsAgreeWithJobs, WorkersAreOccupied, RemovalSteps
<1>3. LockGuardsRewrites /\ MissingFileIsEmpty
  BY DEF Init, LockGuardsRewrites, MissingFileIsEmpty, Rewriting
<1>4. CopiesAreCharged /\ CopiesInMemoryAreCharged
  BY DEF Init, NoEntries, CopiesAreCharged, CopiesInMemoryAreCharged,
     BeforeLoad
<1>5. OnlyFailuresLeaveTornFile /\ StepsLeaveTheirChunks
      /\ DeletionsStayClean
  BY DEF Init, NoEntries, OnlyFailuresLeaveTornFile, StepsLeaveTheirChunks,
     Indexed, Rewriting, DeletionsStayClean
<1>6. QED
  BY <1>1, <1>2, <1>3, <1>4, <1>5 DEF IndexInv

\* Every step of the worker, of a handler and of a crash preserves it.
THEOREM IndexInvariance == Spec => []IndexInv
<1>1. IndexInv /\ Next => IndexInv'
  BY TypePreserved, RowsPreserved, OccupationPreserved, LockPreserved,
     MissingFilePreserved, CopiesPreserved, TornPreserved, ChunksPreserved,
     DeletionsPreserved DEF IndexInv
<1>2. IndexInv /\ UNCHANGED vars => IndexInv'
  <2> SUFFICES ASSUME IndexInv, UNCHANGED vars
               PROVE  IndexInv'
    OBVIOUS
  <2>1. TypeOK'
    BY DEF IndexInv, TypeOK, vars, database, qdrant, bm25, worker, handler,
       budget
  <2>2. RowsAgreeWithJobs' /\ WorkersAreOccupied' /\ LockGuardsRewrites'
        /\ MissingFileIsEmpty'
    BY DEF IndexInv, vars, database, bm25, worker, handler, RowsAgreeWithJobs,
       WorkersAreOccupied, LockGuardsRewrites, MissingFileIsEmpty
  <2>3. CopiesAreCharged' /\ CopiesInMemoryAreCharged'
        /\ OnlyFailuresLeaveTornFile'
    BY DEF IndexInv, vars, database, bm25, worker, handler, budget,
       CopiesAreCharged, CopiesInMemoryAreCharged, OnlyFailuresLeaveTornFile
  <2>4. StepsLeaveTheirChunks'
    BY DEF IndexInv, vars, database, qdrant, bm25, worker, handler,
       StepsLeaveTheirChunks, Indexed
  <2>5. DeletionsStayClean'
    BY DEF IndexInv, vars, database, qdrant, bm25, worker, handler,
       DeletionsStayClean
  <2>6. QED
    BY <2>1, <2>2, <2>3, <2>4, <2>5 DEF IndexInv
<1>3. QED
  BY InitEstablishesIndexInv, <1>1, <1>2, PTL DEF Spec

\* Type correctness.
THEOREM IndexTypeCorrect == Spec => []TypeOK
BY IndexInvariance, PTL DEF IndexInv

\* The per-tenant lock is held exactly between a load and its dump, so no two
\* rewrites of the file overlap and no exception keeps the lock.
THEOREM RewritesAreGuarded == Spec => []LockGuardsRewrites
BY IndexInvariance, PTL DEF IndexInv

\* A document shown as 'ready' is found by both searches.
THEOREM ReadyDocumentsAreFound == Spec => []ReadyIsSearchable
<1>1. IndexInv => ReadyIsSearchable
  BY DEF IndexInv, StepsLeaveTheirChunks, Indexed, ReadyIsSearchable
<1>2. QED
  BY IndexInvariance, <1>1, PTL

\* Without a crash and without a failed call the file is only torn while one
\* writer is filling it.
THEOREM TornFilesAreExplained == Spec => []OnlyFailuresLeaveTornFile
BY IndexInvariance, PTL DEF IndexInv

\* A deletion that overlapped no ingestion of its document and met no failure
\* leaves nothing of it in either index, ever after.
THEOREM DeletionsLeaveNothing == Spec => []DeletionsAreClean
<1>1. IndexInv => DeletionsAreClean
  BY NoDocAssumption
     DEF IndexInv, WorkersAreOccupied, RemovalSteps, DeletionsStayClean,
         DeletionsAreClean, TypeOK
<1>2. QED
  BY IndexInvariance, <1>1, PTL

\* The copies of a document in the BM25 file never exceed its attempts.
THEOREM CopiesBoundedByAttempts == Spec => []CopiesAreCharged
BY IndexInvariance, PTL DEF IndexInv
=============================================================================
