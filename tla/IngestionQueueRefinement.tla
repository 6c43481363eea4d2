---------------------- MODULE IngestionQueueRefinement ----------------------
(***************************************************************************)
(* IngestionQueue implements JobLifecycle.  A document that was inserted   *)
(* and is absent has been deleted, and its job with it.  A completion that *)
(* committed without acknowledgement counts when its worker has reported   *)
(* the failure it saw instead, or has died.                                *)
(***************************************************************************)
EXTENDS IngestionQueue

Deleted(j) == j <= created /\ doc[j] = "absent"

Unacknowledged(j) ==
    /\ status[j] = "completed"
    /\ \E w \in Workers : pc[w] = "fail" /\ held[w] = j

jobStatus == [j \in Jobs |-> IF Deleted(j) THEN "gone"
                             ELSE IF status[j] = "absent" THEN "new"
                             ELSE IF Unacknowledged(j) THEN "processing"
                             ELSE status[j]]

Lifecycle == INSTANCE JobLifecycle WITH status <- jobStatus

\* Whatever the interleaving of workers, heartbeats, recoveries, crashes, lost
\* acknowledgements and deletions, the rows of ingestion_jobs follow the
\* lifecycle, while no pause outlasts StaleTimeout.
ImplementsLifecycle == Lifecycle!Spec
=============================================================================
