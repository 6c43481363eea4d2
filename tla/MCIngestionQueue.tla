-------------------------- MODULE MCIngestionQueue --------------------------
(* TLC instances of IngestionQueue, of its refinement and of the invariant  *)
(* of its proofs.                                                           *)
EXTENDS IngestionQueueRefinement, IngestionQueueProofs, TLC

\* Worker processes are interchangeable; jobs are ordered by created_at.
WorkerSymmetry == Permutations(Workers)
=============================================================================
