----------------------------- MODULE MCEvalJobs -----------------------------
(* TLC instance of EvalJobs, with the invariant of its proofs.  Liveness is *)
(* checked in the same run, so no symmetry is declared.                     *)
EXTENDS EvalJobsProofs
=============================================================================
