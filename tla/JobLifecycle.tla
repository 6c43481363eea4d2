---------------------------- MODULE JobLifecycle ----------------------------
(***************************************************************************)
(* What the ingestion queue promises for its jobs, without workers, time   *)
(* or failures: a job is queued once, every attempt is counted and there   *)
(* are at most MaxAttempts of them, a job ends as completed, or as failed  *)
(* when its attempts are spent, and a deleted job never comes back.        *)
(***************************************************************************)
EXTENDS Naturals

CONSTANTS Jobs, MaxAttempts

VARIABLES status, attempts

vars == <<status, attempts>>

Init ==
    /\ status = [j \in Jobs |-> "new"]
    /\ attempts = [j \in Jobs |-> 0]

\* One transition of one job: from status s with n attempts to t with m.
Moves(s, n, t, m) ==
    \/ s = "new"        /\ t = "pending"    /\ m = 0
    \/ s = "pending"    /\ t = "processing" /\ n < MaxAttempts /\ m = n + 1
    \/ s = "processing" /\ t = "pending"    /\ n < MaxAttempts /\ m = n
    \/ s = "processing" /\ t = "failed"     /\ n = MaxAttempts /\ m = n
    \/ s = "processing" /\ t = "completed"  /\ m = n
    \/ t = "gone"       /\ m = 0
    \/ t = s            /\ m = n

\* Jobs move independently; recovery and tenant deletion move several at once.
Next ==
    \A j \in Jobs : Moves(status[j], attempts[j], status'[j], attempts'[j])

Spec == Init /\ [][Next]_vars
=============================================================================
