----------------------------- MODULE TenantIndex -----------------------------
(***************************************************************************)
(* The two indexes of one tenant, a Qdrant collection and a pickled BM25   *)
(* file, under the ingestion worker (ingestion/indexer.py, TenantIndexer), *)
(* document deletion (delete_document and delete_document_vectors), tenant *)
(* deletion (api/routers/tenants.py) and searches (retrieval/bm25_store).  *)
(*                                                                         *)
(* One process, as deployed: one worker thread and one event loop, whose   *)
(* handlers do not await here and so run to the end one after the other;   *)
(* _bm25_lock is a threading.Lock of that process.  The file is written in *)
(* place: open(path, "wb") truncates it and pickle.dump fills it later.    *)
(***************************************************************************)
EXTENDS Integers, FiniteSets

CONSTANTS
    Docs,           \* documents of the tenant
    Batches,        \* upsert batches of a document (BATCH = 100 chunks each)
    MaxAttempts,    \* attempts the queue grants to a document
    MaxCrashes,     \* bound: process crashes of a behaviour
    MaxFaults       \* bound: failed Qdrant, disk or database calls

ASSUME IndexAssumption ==
    /\ Batches \in Nat \ {0}
    /\ MaxAttempts \in Nat \ {0}
    /\ MaxCrashes \in Nat /\ MaxFaults \in Nat

NoDoc == "no document"
ASSUME NoDocAssumption == NoDoc \notin Docs

VARIABLES
    row,            \* documents.status; "deleted" once the row is gone
    job,            \* the queue's view of the document (module IngestionQueue)
    tries,          \* attempts charged to the document
    tenantLive,
    collection,     \* the Qdrant collection exists
    points,         \* its points: <<document, batch>>
    file,           \* the BM25 file: absent, torn (truncated) or whole
    entries,        \* copies of each document's chunks in a whole file
    lock,           \* who holds _bm25_lock(tenant)
    wpc, wdoc, wbatch, wmem,    \* worker: step, document, batch, loaded data
    apc, adoc, amem,            \* API handler: step, document, loaded data
    searchRaised,   \* history: some search raised
    excused,        \* history: deletions that a running ingestion overlapped
                    \* or that a failure cut short
    crashes, faults

database == <<row, job, tries, tenantLive>>
qdrant   == <<collection, points>>
bm25     == <<file, entries>>
worker   == <<wpc, wdoc, wbatch, wmem>>
handler  == <<apc, adoc, amem>>
budget   == <<crashes, faults>>
vars == <<database, qdrant, bm25, lock, worker, handler, searchRaised, excused,
          budget>>

NoEntries == [d \in Docs |-> 0]

Init ==
    /\ row = [d \in Docs |-> "none"]
    /\ job = [d \in Docs |-> "none"]
    /\ tries = [d \in Docs |-> 0]
    /\ tenantLive = TRUE
    /\ collection \in BOOLEAN       \* _provision_qdrant is best effort
    /\ points = {}
    /\ file = "absent" /\ entries = NoEntries
    /\ lock = "free"
    /\ wpc = "idle"
    /\ wdoc = NoDoc
    /\ wbatch = 1
    /\ wmem = NoEntries
    /\ apc = "idle"
    /\ adoc = NoDoc
    /\ amem = NoEntries
    /\ searchRaised = FALSE
    /\ excused = {}
    /\ crashes = 0 /\ faults = 0

Fault == faults < MaxFaults /\ faults' = faults + 1 /\ UNCHANGED crashes

Unlock == lock' = "free"

\* Opening for writing empties the file; the dump gives it its new content.
Truncate == file' = "torn" /\ entries' = NoEntries
\* A file unlinked while it is open is written to no avail.
Dump(content) == IF file = "absent" THEN UNCHANGED bm25
                 ELSE file' = "whole" /\ entries' = content

-----------------------------------------------------------------------------
(* TenantIndexer.ingest, driven by the queue.                               *)

WorkerAt(pc) == wpc' = pc

WorkerIdle ==
    /\ WorkerAt("idle")
    /\ wdoc' = NoDoc
    /\ wbatch' = 1
    /\ wmem' = NoEntries

\* The upload handler's row and job.
Upload(d) ==
    /\ apc = "idle" /\ tenantLive
    /\ row[d] = "none"
    /\ row' = [row EXCEPT ![d] = "processing"]
    /\ job' = [job EXCEPT ![d] = "queued"]
    /\ UNCHANGED <<tries, tenantLive, qdrant, bm25, lock, worker, handler,
                   searchRaised, excused, budget>>

\* Slip: only the first attempt is charged.
StartIngest_FreeRetries(d) ==
    /\ wpc = "idle"
    /\ job[d] = "queued"
    /\ job' = [job EXCEPT ![d] = "running"]
    /\ tries' = [tries EXCEPT ![d] = 1]
    /\ WorkerAt("ensure")
    /\ wdoc' = d
    /\ UNCHANGED <<row, tenantLive, qdrant, bm25, lock, wbatch, wmem, handler,
                   searchRaised, excused, budget>>

\* pick_next_job and the start of _process_job, document not 'ready'.
StartIngest(d) ==
    /\ wpc = "idle"
    /\ job[d] = "queued"
    /\ job' = [job EXCEPT ![d] = "running"]
    /\ tries' = [tries EXCEPT ![d] = @ + 1]
    /\ WorkerAt("ensure")
    /\ wdoc' = d
    /\ UNCHANGED <<row, tenantLive, qdrant, bm25, lock, wbatch, wmem, handler,
                   searchRaised, excused, budget>>

\* Slip: one retry too many.
FailIngest_OffByOne ==
    /\ LET d == wdoc IN
       /\ job' = IF job[d] = "none" THEN job
                 ELSE [job EXCEPT ![d] =
                         IF tries[d] <= MaxAttempts THEN "queued" ELSE "failed"]
       /\ UNCHANGED row
    /\ WorkerIdle
    /\ UNCHANGED <<tries, tenantLive>>

\* An exception inside ingest: retried while attempts remain, else failed.
FailIngest ==
    /\ LET d == wdoc IN
       /\ job' = IF job[d] = "none" THEN job
                 ELSE [job EXCEPT ![d] =
                         IF tries[d] < MaxAttempts THEN "queued" ELSE "failed"]
       /\ row' = IF job[d] # "none" /\ tries[d] >= MaxAttempts
                 THEN [row EXCEPT ![d] = "error"] ELSE row
    /\ WorkerIdle
    /\ UNCHANGED <<tries, tenantLive>>

\* _ensure_collection, after the embeddings are computed.
EnsureCollection ==
    /\ wpc = "ensure"
    /\ collection' = TRUE
    /\ WorkerAt("upsert")
    /\ UNCHANGED <<database, points, bm25, lock, wdoc, wbatch, wmem, handler,
                   searchRaised, excused, budget>>

\* One turn of the batch loop.
UpsertBatch ==
    /\ wpc = "upsert"
    /\ collection
    /\ points' = points \cup {<<wdoc, wbatch>>}
    /\ IF wbatch = Batches
       THEN WorkerAt("lock") /\ wbatch' = 1
       ELSE wbatch' = wbatch + 1 /\ UNCHANGED wpc
    /\ UNCHANGED <<database, collection, bm25, lock, wdoc, wmem, handler,
                   searchRaised, excused, budget>>

\* Parsing, embedding or Qdrant fail, or the collection was deleted meanwhile.
UpsertFails ==
    /\ wpc \in {"ensure", "upsert"}
    /\ \/ Fault
       \/ wpc = "upsert" /\ ~collection /\ UNCHANGED budget
    /\ FailIngest
    /\ UNCHANGED <<qdrant, bm25, lock, handler, searchRaised, excused>>

LockForUpdate ==
    /\ wpc = "lock"
    /\ lock = "free"
    /\ lock' = "worker"
    /\ WorkerAt("exists")
    /\ UNCHANGED <<database, qdrant, bm25, wdoc, wbatch, wmem, handler,
                   searchRaised, excused, budget>>

\* A missing file is a fresh index; the tenant's deletion may unlink one after
\* this look at it, without the lock.
ExistsForUpdate ==
    /\ wpc = "exists"
    /\ IF file = "absent"
       THEN wmem' = [NoEntries EXCEPT ![wdoc] = 1] /\ WorkerAt("open")
       ELSE WorkerAt("load") /\ UNCHANGED wmem
    /\ UNCHANGED <<database, qdrant, bm25, lock, wdoc, wbatch, handler,
                   searchRaised, excused, budget>>

LoadForUpdate ==
    /\ wpc = "load"
    /\ file = "whole"
    /\ wmem' = [entries EXCEPT ![wdoc] = @ + 1]
    /\ WorkerAt("open")
    /\ UNCHANGED <<database, qdrant, bm25, lock, wdoc, wbatch, handler,
                   searchRaised, excused, budget>>

\* Slip: acquire() and release() instead of the with block.
LoadForUpdateFails_KeepsLock ==
    /\ wpc = "load"
    /\ file = "torn"
    /\ FailIngest
    /\ UNCHANGED <<qdrant, bm25, lock, handler, searchRaised, excused,
                   budget>>

\* pickle.load raises on a torn file, open on a disk error or when the file was
\* unlinked since exists() saw it; the with block releases the lock.
LoadForUpdateFails ==
    /\ wpc = "load"
    /\ \/ Fault
       \/ file # "whole" /\ UNCHANGED budget
    /\ Unlock
    /\ FailIngest
    /\ UNCHANGED <<qdrant, bm25, handler, searchRaised, excused>>

OpenForUpdate ==
    /\ wpc = "open"
    /\ Truncate
    /\ WorkerAt("dump")
    /\ UNCHANGED <<database, qdrant, lock, wdoc, wbatch, wmem, handler,
                   searchRaised, excused, budget>>

DumpUpdate ==
    /\ wpc = "dump"
    /\ Dump(wmem)
    /\ Unlock
    /\ WorkerAt("status")
    /\ UNCHANGED <<database, qdrant, wdoc, wbatch, wmem, handler,
                   searchRaised, excused, budget>>

\* The disk is full: the lock is released, the file stays torn.
DumpUpdateFails ==
    /\ wpc = "dump"
    /\ Fault
    /\ Unlock
    /\ FailIngest
    /\ UNCHANGED <<qdrant, bm25, handler, searchRaised, excused>>

\* _update_postgres_status, whose exception is swallowed; the complete_job
\* that follows, and what may fail there, is the subject of IngestionQueue.
FinishIngest ==
    /\ wpc = "status"
    /\ LET d == wdoc IN
       /\ \/ /\ row' = IF row[d] = "deleted" THEN row
                       ELSE [row EXCEPT ![d] = "ready"]
             /\ UNCHANGED budget
          \/ Fault /\ UNCHANGED row
       /\ job' = IF job[d] = "none" THEN job ELSE [job EXCEPT ![d] = "done"]
    /\ WorkerIdle
    /\ UNCHANGED <<tries, tenantLive, qdrant, bm25, lock, handler,
                   searchRaised, excused>>

WorkerStep ==
    \/ \E d \in Docs : StartIngest(d)
    \/ EnsureCollection \/ UpsertBatch \/ UpsertFails
    \/ LockForUpdate \/ ExistsForUpdate \/ LoadForUpdate \/ LoadForUpdateFails
    \/ OpenForUpdate \/ DumpUpdate \/ DumpUpdateFails
    \/ FinishIngest

-----------------------------------------------------------------------------
(* The API handlers.                                                        *)

HandlerAt(pc) == apc' = pc

HandlerIdle ==
    /\ HandlerAt("idle")
    /\ adoc' = NoDoc
    /\ amem' = NoEntries

\* DELETE FROM documents commits and cascades to the job.
DeleteRow(d) ==
    /\ apc = "idle"
    /\ row[d] \notin {"none", "deleted"}
    /\ row' = [row EXCEPT ![d] = "deleted"]
    /\ job' = [job EXCEPT ![d] = "none"]
    /\ HandlerAt("vectors")
    /\ adoc' = d
    /\ excused' = IF wdoc = d THEN excused \cup {d} ELSE excused
    /\ UNCHANGED <<tries, tenantLive, qdrant, bm25, lock, worker, amem,
                   searchRaised, budget>>

\* delete_document_vectors: the Qdrant filter delete; then _remove_from_bm25,
\* which tests the file once before it takes the lock.
DeleteVectors ==
    /\ apc = "vectors"
    /\ collection
    /\ points' = {x \in points : x[1] # adoc}
    /\ HandlerAt("probe")
    /\ UNCHANGED <<database, collection, bm25, lock, worker, adoc, amem,
                   searchRaised, excused, budget>>

\* Slip: the early return is taken when there is something to remove.
ProbeIndex_Inverted ==
    /\ apc = "probe"
    /\ IF file # "absent"
       THEN HandlerIdle
       ELSE HandlerAt("lock") /\ UNCHANGED <<adoc, amem>>
    /\ UNCHANGED <<database, qdrant, bm25, lock, worker, searchRaised,
                   excused, budget>>

ProbeIndex ==
    /\ apc = "probe"
    /\ IF file = "absent"
       THEN HandlerIdle
       ELSE HandlerAt("lock") /\ UNCHANGED <<adoc, amem>>
    /\ UNCHANGED <<database, qdrant, bm25, lock, worker, searchRaised,
                   excused, budget>>

\* delete_document logs what delete_document_vectors raises and answers 204.
GiveUpDelete ==
    /\ HandlerIdle
    /\ excused' = excused \cup {adoc}
    /\ UNCHANGED <<database, qdrant, bm25, worker, searchRaised>>

DeleteVectorsFails ==
    /\ apc = "vectors"
    /\ \/ Fault
       \/ ~collection /\ UNCHANGED budget
    /\ GiveUpDelete
    /\ UNCHANGED lock

\* Slip: the rebuild for a deletion forgets the lock.
LockForRemove_NoWait ==
    /\ apc = "lock"
    /\ HandlerAt("load")
    /\ UNCHANGED <<database, qdrant, bm25, lock, worker, adoc, amem,
                   searchRaised, excused, budget>>

LockForRemove ==
    /\ apc = "lock"
    /\ lock = "free"
    /\ lock' = "handler"
    /\ HandlerAt("load")
    /\ UNCHANGED <<database, qdrant, bm25, worker, adoc, amem, searchRaised,
                   excused, budget>>

\* Slip: an index without entries is truncated, not unlinked.
RemoveLastEntries_Truncates ==
    /\ apc = "load"
    /\ file = "whole" /\ [entries EXCEPT ![adoc] = 0] = NoEntries
    /\ Truncate
    /\ Unlock
    /\ HandlerIdle
    /\ UNCHANGED <<database, qdrant, worker, searchRaised, excused, budget>>

\* The file is gone meanwhile, or no entry is kept and it is unlinked.
RemoveLastEntries ==
    /\ apc = "load"
    /\ \/ file = "absent"
       \/ file = "whole" /\ [entries EXCEPT ![adoc] = 0] = NoEntries
    /\ file' = "absent" /\ entries' = NoEntries
    /\ Unlock
    /\ HandlerIdle
    /\ UNCHANGED <<database, qdrant, worker, searchRaised, excused, budget>>

LoadForRemove ==
    /\ apc = "load"
    /\ file = "whole" /\ [entries EXCEPT ![adoc] = 0] # NoEntries
    /\ amem' = [entries EXCEPT ![adoc] = 0]
    /\ HandlerAt("open")
    /\ UNCHANGED <<database, qdrant, bm25, lock, worker, adoc, searchRaised,
                   excused, budget>>

LoadForRemoveFails ==
    /\ apc = "load"
    /\ \/ Fault
       \/ file = "torn" /\ UNCHANGED budget
    /\ Unlock
    /\ GiveUpDelete

OpenForRemove ==
    /\ apc = "open"
    /\ Truncate
    /\ HandlerAt("dump")
    /\ UNCHANGED <<database, qdrant, lock, worker, adoc, amem, searchRaised,
                   excused, budget>>

DumpRemoval ==
    /\ apc = "dump"
    /\ Dump(amem)
    /\ Unlock
    /\ HandlerIdle
    /\ UNCHANGED <<database, qdrant, worker, searchRaised, excused, budget>>

DumpRemovalFails ==
    /\ apc = "dump"
    /\ Fault
    /\ Unlock
    /\ GiveUpDelete

\* delete_tenant: the rows and, by cascade, documents and jobs; then the
\* collection; then the BM25 file, without its lock.  A worker that loaded
\* the file before writes the entries of every document back.
DeleteTenantRows ==
    /\ apc = "idle" /\ tenantLive
    /\ tenantLive' = FALSE
    /\ row' = [d \in Docs |-> IF row[d] = "none" THEN "none" ELSE "deleted"]
    /\ job' = [d \in Docs |-> "none"]
    /\ HandlerAt("dropCollection")
    /\ excused' = IF wpc # "idle" THEN Docs ELSE excused
    /\ UNCHANGED <<tries, qdrant, bm25, lock, worker, adoc, amem,
                   searchRaised, budget>>

DropCollection ==
    /\ apc = "dropCollection"
    /\ \/ collection' = FALSE /\ points' = {} /\ UNCHANGED <<excused, budget>>
       \/ /\ Fault
          /\ excused' = Docs
          /\ UNCHANGED qdrant
    /\ HandlerAt("unlink")
    /\ UNCHANGED <<database, bm25, lock, worker, adoc, amem, searchRaised>>

UnlinkIndex ==
    /\ apc = "unlink"
    /\ file' = "absent" /\ entries' = NoEntries
    /\ HandlerIdle
    /\ UNCHANGED <<database, qdrant, lock, worker, searchRaised, excused,
                   budget>>

\* BM25Store._load: exists() and then open and load, without the lock.
BeginSearch ==
    /\ apc = "idle" /\ tenantLive
    /\ file # "absent"
    /\ HandlerAt("search")
    /\ UNCHANGED <<database, qdrant, bm25, lock, worker, adoc, amem,
                   searchRaised, excused, budget>>

LoadForSearch ==
    /\ apc = "search"
    /\ searchRaised' = (searchRaised \/ file # "whole")
    /\ HandlerIdle
    /\ UNCHANGED <<database, qdrant, bm25, lock, worker, excused, budget>>

HandlerStep ==
    \/ DeleteVectors \/ DeleteVectorsFails \/ ProbeIndex
    \/ LockForRemove \/ RemoveLastEntries
    \/ LoadForRemove \/ LoadForRemoveFails
    \/ OpenForRemove \/ DumpRemoval \/ DumpRemovalFails
    \/ DropCollection \/ UnlinkIndex \/ LoadForSearch

-----------------------------------------------------------------------------
\* The process dies and restarts: its lock goes with it, the file stays as it
\* is, its job is recovered as stale, its deletion is never resumed.
Crash ==
    /\ crashes < MaxCrashes
    /\ crashes' = crashes + 1 /\ UNCHANGED faults
    /\ Unlock
    /\ IF wpc # "idle" THEN FailIngest ELSE UNCHANGED <<database, worker>>
    /\ HandlerIdle
    /\ excused' = IF apc \in {"dropCollection", "unlink"} THEN Docs
                  ELSE IF adoc # NoDoc THEN excused \cup {adoc}
                  ELSE excused
    /\ UNCHANGED <<qdrant, bm25, searchRaised>>

Next ==
    \/ WorkerStep \/ HandlerStep \/ Crash
    \/ DeleteTenantRows \/ BeginSearch
    \/ \E d \in Docs : Upload(d) \/ DeleteRow(d)

Spec == Init /\ [][Next]_vars

-----------------------------------------------------------------------------
(* Properties.                                                              *)

WorkerPC == {"idle", "ensure", "upsert", "lock", "exists", "load", "open",
             "dump", "status"}
HandlerPC == {"idle", "vectors", "probe", "lock", "load", "open", "dump",
              "dropCollection", "unlink", "search"}
Contents == [Docs -> 0..MaxAttempts]

TypeOK ==
    /\ row \in [Docs -> {"none", "processing", "ready", "error", "deleted"}]
    /\ job \in [Docs -> {"none", "queued", "running", "done", "failed"}]
    /\ tries \in [Docs -> 0..MaxAttempts]
    /\ tenantLive \in BOOLEAN
    /\ collection \in BOOLEAN
    /\ points \subseteq Docs \X (1..Batches)
    /\ file \in {"absent", "torn", "whole"} /\ entries \in Contents
    /\ lock \in {"free", "worker", "handler"}
    /\ wpc \in WorkerPC
    /\ wdoc \in Docs \cup {NoDoc}
    /\ wbatch \in 1..Batches
    /\ wmem \in Contents
    /\ apc \in HandlerPC
    /\ adoc \in Docs \cup {NoDoc}
    /\ amem \in Contents
    /\ searchRaised \in BOOLEAN
    /\ excused \subseteq Docs
    /\ crashes \in 0..MaxCrashes /\ faults \in 0..MaxFaults

\* A document shown as 'ready' can be found by both searches: every batch is
\* in Qdrant and no concurrent rebuild of the BM25 file, for another upload or
\* a deletion, has lost its entries.  (A torn file is the subject of
\* OnlyFailuresLeaveTornFile.)
ReadyIsSearchable ==
    \A d \in Docs :
        row[d] = "ready" =>
            /\ \A b \in 1..Batches : <<d, b>> \in points
            /\ file = "torn" \/ entries[d] > 0

\* With no writer at work, the file is torn only after a crash or a failed
\* write; a deletion never unlinks or truncates what an ingestion is writing
\* so that it stays broken.
OnlyFailuresLeaveTornFile ==
    file = "torn" /\ crashes + faults = 0
        => wpc = "dump" \/ apc = "dump"

\* What a finished deletion leaves behind is explained: without an ingestion
\* of the same document running when its row was deleted, and without a
\* failure on the way, neither index holds anything of a deleted document.
DeletionsAreClean ==
    \A d \in Docs :
        /\ row[d] = "deleted" /\ d \notin excused
        /\ apc \in {"idle", "search"}
        => /\ \A b \in 1..Batches : <<d, b>> \notin points
           /\ entries[d] = 0

\* Retries append the chunks again, so a document may have several copies of
\* its entries, but never more than the attempts it was charged.
CopiesAreCharged == \A d \in Docs : entries[d] <= tries[d]

\* The lock is held exactly while its holder is between exists() and the dump,
\* whatever raises there: otherwise a deletion that waits for it would stop the
\* event loop for ever, and two rewrites of the file could overlap.
LockGuardsRewrites ==
    /\ lock = "worker" <=> wpc \in {"exists", "load", "open", "dump"}
    /\ lock = "handler" <=> apc \in {"load", "open", "dump"}

\* delete_document: the document is removed from Qdrant and BM25.  (While the
\* tenant lives, no row is deleted by delete_tenant.)
DeletedIsGone ==
    \A d \in Docs :
        /\ tenantLive /\ row[d] = "deleted"
        /\ apc \in {"idle", "search"} /\ wpc = "idle"
        => /\ \A b \in 1..Batches : <<d, b>> \notin points
           /\ entries[d] = 0

\* The per-tenant lock guards all BM25 operations: no search meets a file that
\* another thread is rewriting.
SearchNeverRaises == ~searchRaised
=============================================================================
