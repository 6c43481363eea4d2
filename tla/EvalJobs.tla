------------------------------ MODULE EvalJobs ------------------------------
(***************************************************************************)
(* Background evaluations of one tenant (eval/auto_eval.py), triggered by  *)
(* POST /eval/run (api/routers/evaluation.py) in one or several processes. *)
(*                                                                         *)
(* create_eval_job is one transaction of three statements under a          *)
(* transaction-scoped advisory lock; it is cut at its statements, because  *)
(* the other updates of eval_runs commit between them.  The rows it has    *)
(* marked stale are locked and change for the others when it commits.      *)
(***************************************************************************)
EXTENDS Integers, FiniteSets

CONSTANTS
    RunCount,       \* bound: evaluation runs of a behaviour; no trigger follows
    Processes,      \* API processes
    StaleTimeout,   \* EVAL_STALE_JOB_TIMEOUT_SECONDS, in ticks
    MaxCrashes,     \* bound: process crashes of a behaviour
    MaxDbFaults,    \* bound: failed transactions of a behaviour
    Duplicates      \* TRUE: run_eval_job may be invoked in several processes

ASSUME EvalAssumption ==
    /\ RunCount \in Nat \ {0}
    /\ StaleTimeout \in Nat \ {0}
    /\ MaxCrashes \in Nat /\ MaxDbFaults \in Nat
    /\ Duplicates \in BOOLEAN

Runs == 1..RunCount        \* in the order of created_at
NoProcess == "nobody"
ASSUME NobodyAssumption == NoProcess \notin Processes

VARIABLES
    status,     \* eval_runs.config_json->>'status'; "absent" before INSERT
    age,        \* ticks since created_at
    created,    \* runs inserted so far
    trigger,    \* step of create_eval_job in each process
    lock,       \* holder of the advisory lock of the tenant
    marked,     \* rows the open transaction of a process has marked failed
    call,       \* step of run_eval_job(run) in each process
    evaluated,  \* history: the processes that evaluated a run
    crashes, dbFaults

table    == <<status, age, created>>
triggers == <<trigger, lock, marked>>
calls    == <<call, evaluated>>
budget   == <<crashes, dbFaults>>
vars     == <<table, triggers, calls, budget>>

Init ==
    /\ status = [r \in Runs |-> "absent"]
    /\ age = [r \in Runs |-> 0]
    /\ created = 0
    /\ trigger = [p \in Processes |-> "idle"]
    /\ lock = NoProcess
    /\ marked = [p \in Processes |-> {}]
    /\ call = [p \in Processes |-> [r \in Runs |-> "none"]]
    /\ evaluated = [r \in Runs |-> {}]
    /\ crashes = 0 /\ dbFaults = 0

DbFault ==
    /\ dbFaults < MaxDbFaults
    /\ dbFaults' = dbFaults + 1
    /\ UNCHANGED crashes

Active(r) == status[r] \in {"queued", "running"}
\* The statements of the others wait for the row locks of an open transaction.
RowFree(r) == \A p \in Processes : r \notin marked[p]

-----------------------------------------------------------------------------
(* create_eval_job.                                                         *)

\* Slips: running rows are forgotten; one tick too early.
StaleRuns_QueuedOnly ==
    {r \in Runs : status[r] = "queued" /\ age[r] > StaleTimeout}
StaleRuns_OffByOne == {r \in Runs : Active(r) /\ age[r] >= StaleTimeout}
StaleRuns == {r \in Runs : Active(r) /\ age[r] > StaleTimeout}

\* Slip: the advisory lock is not taken.
MarkStaleRuns_NoLock(p) ==
    /\ trigger[p] = "idle" /\ created < RunCount
    /\ marked' = [marked EXCEPT ![p] = {r \in StaleRuns : RowFree(r)}]
    /\ trigger' = [trigger EXCEPT ![p] = "select"]
    /\ UNCHANGED <<table, lock, calls, budget>>

\* pg_advisory_xact_lock and the UPDATE of the stale rows.
MarkStaleRuns(p) ==
    /\ trigger[p] = "idle" /\ created < RunCount
    /\ lock = NoProcess
    /\ lock' = p
    /\ marked' = [marked EXCEPT ![p] = StaleRuns]
    /\ trigger' = [trigger EXCEPT ![p] = "select"]
    /\ UNCHANGED <<table, calls, budget>>

\* Commit or rollback: row locks and advisory lock are released.
EndTransaction(p) ==
    /\ trigger' = [trigger EXCEPT ![p] = "idle"]
    /\ marked' = [marked EXCEPT ![p] = {}]
    /\ lock' = IF lock = p THEN NoProcess ELSE lock

\* What the transaction's own SELECT sees as active.
ActiveFor(p) == {r \in Runs : Active(r) /\ r \notin marked[p]}

WithMarks(p) == [r \in Runs |-> IF r \in marked[p] THEN "failed" ELSE status[r]]

\* An active run exists: the marks commit, the caller gets 409.
RefuseRun(p) ==
    /\ trigger[p] = "select"
    /\ ActiveFor(p) # {}
    /\ status' = WithMarks(p)
    /\ EndTransaction(p)
    /\ UNCHANGED <<age, created, calls, budget>>

SelectNoActive(p) ==
    /\ trigger[p] = "select"
    /\ ActiveFor(p) = {}
    /\ trigger' = [trigger EXCEPT ![p] = "insert"]
    /\ UNCHANGED <<table, lock, marked, calls, budget>>

\* INSERT 'queued' and commit.
InsertTx(p) ==
    /\ created < RunCount
    /\ created' = created + 1
    /\ status' = [WithMarks(p) EXCEPT ![created + 1] = "queued"]
    /\ UNCHANGED age

\* trigger_eval registers run_eval_job and answers 202.
InsertRun(p) ==
    /\ trigger[p] = "insert"
    /\ InsertTx(p)
    /\ call' = [call EXCEPT ![p][created + 1] = "scheduled"]
    /\ EndTransaction(p)
    /\ UNCHANGED <<evaluated, budget>>

\* The transaction raises, before its commit or after it: 500, and a row that
\* was committed has no task.
TriggerFails(p) ==
    /\ trigger[p] \in {"select", "insert"}
    /\ DbFault
    /\ UNCHANGED table \/ (trigger[p] = "insert" /\ InsertTx(p))
    /\ EndTransaction(p)
    /\ UNCHANGED calls

-----------------------------------------------------------------------------
(* run_eval_job, in a thread of the process.                                *)

CallAt(p, r, step) == call' = [call EXCEPT ![p][r] = step]

\* A second invocation for the same run, in another process.
InvokeAgain(p, r) ==
    /\ Duplicates
    /\ status[r] # "absent"
    /\ call[p][r] = "none"
    /\ CallAt(p, r, "scheduled")
    /\ UNCHANGED <<table, triggers, evaluated, budget>>

\* Slip: the row is claimed unless it is finished.
ClaimRun_RunningToo(p, r) ==
    /\ call[p][r] = "scheduled" /\ RowFree(r)
    /\ Active(r)
    /\ status' = [status EXCEPT ![r] = "running"]
    /\ CallAt(p, r, "evaluate")
    /\ evaluated' = [evaluated EXCEPT ![r] = @ \cup {p}]
    /\ UNCHANGED <<age, created, triggers, budget>>

\* _claim_job finds the row queued.
ClaimRun(p, r) ==
    /\ call[p][r] = "scheduled" /\ RowFree(r)
    /\ status[r] = "queued"
    /\ status' = [status EXCEPT ![r] = "running"]
    /\ CallAt(p, r, "evaluate")
    /\ evaluated' = [evaluated EXCEPT ![r] = @ \cup {p}]
    /\ UNCHANGED <<age, created, triggers, budget>>

SkipRun(p, r) ==
    /\ call[p][r] = "scheduled" /\ RowFree(r)
    /\ status[r] # "queued"
    /\ CallAt(p, r, "done")
    /\ UNCHANGED <<table, triggers, evaluated, budget>>

\* _claim_job raises, before or after its commit.
ClaimFails(p, r) ==
    /\ call[p][r] = "scheduled" /\ RowFree(r)
    /\ DbFault
    /\ \/ UNCHANGED status
       \/ status[r] = "queued" /\ status' = [status EXCEPT ![r] = "running"]
    /\ CallAt(p, r, "fail")
    /\ UNCHANGED <<age, created, triggers, evaluated>>

\* run_eval returns, or it or _tenant_slug raises.
EvaluateRun(p, r) ==
    /\ call[p][r] = "evaluate"
    /\ \E step \in {"complete", "fail"} : CallAt(p, r, step)
    /\ UNCHANGED <<table, triggers, evaluated, budget>>

\* _complete_job, whatever the row's status is by now.
CompleteRun(p, r) ==
    /\ call[p][r] = "complete" /\ RowFree(r)
    /\ status' = [status EXCEPT ![r] = "completed"]
    /\ CallAt(p, r, "done")
    /\ UNCHANGED <<age, created, triggers, evaluated, budget>>

CompleteFails(p, r) ==
    /\ call[p][r] = "complete" /\ RowFree(r)
    /\ DbFault
    /\ UNCHANGED status \/ status' = [status EXCEPT ![r] = "completed"]
    /\ CallAt(p, r, "fail")
    /\ UNCHANGED <<age, created, triggers, evaluated>>

\* _set_job_status 'failed', whatever the row's status is by now.
FailRun(p, r) ==
    /\ call[p][r] = "fail" /\ RowFree(r)
    /\ status' = [status EXCEPT ![r] = "failed"]
    /\ CallAt(p, r, "done")
    /\ UNCHANGED <<age, created, triggers, evaluated, budget>>

\* Its exception is logged: the row keeps its status.
FailureNotPersisted(p, r) ==
    /\ call[p][r] = "fail" /\ RowFree(r)
    /\ DbFault
    /\ CallAt(p, r, "done")
    /\ UNCHANGED <<table, triggers, evaluated>>

RunCall(p, r) ==
    \/ ClaimRun(p, r) \/ SkipRun(p, r) \/ EvaluateRun(p, r)
    \/ CompleteRun(p, r) \/ FailRun(p, r)

TriggerStep(p) == RefuseRun(p) \/ SelectNoActive(p) \/ InsertRun(p)

-----------------------------------------------------------------------------
\* The process dies: its transaction is rolled back, its tasks are lost.
Crash(p) ==
    /\ crashes < MaxCrashes
    /\ crashes' = crashes + 1 /\ UNCHANGED dbFaults
    /\ EndTransaction(p)
    /\ call' = [call EXCEPT ![p] = [r \in Runs |-> IF @[r] = "none" THEN "none"
                                                   ELSE "done"]]
    /\ UNCHANGED <<table, evaluated>>

Tick ==
    /\ age' = [r \in Runs |->
                 IF status[r] # "absent" /\ age[r] <= StaleTimeout
                 THEN age[r] + 1 ELSE age[r]]
    /\ UNCHANGED <<status, created, triggers, calls, budget>>

Next ==
    \/ Tick
    \/ \E p \in Processes :
          \/ MarkStaleRuns(p) \/ TriggerStep(p) \/ TriggerFails(p) \/ Crash(p)
          \/ \E r \in Runs :
                \/ RunCall(p, r) \/ InvokeAgain(p, r)
                \/ ClaimFails(p, r) \/ CompleteFails(p, r)
                \/ FailureNotPersisted(p, r)

Spec == Init /\ [][Next]_vars

\* Handlers and evaluations end, time passes; nobody need trigger anything.
Fairness ==
    /\ WF_vars(Tick)
    /\ \A p \in Processes :
          WF_vars(TriggerStep(p)) /\ \A r \in Runs : WF_vars(RunCall(p, r))

FairSpec == Spec /\ Fairness

-----------------------------------------------------------------------------
(* Properties.                                                              *)

CallSteps == {"none", "scheduled", "evaluate", "complete", "fail", "done"}

TypeOK ==
    /\ status \in [Runs -> {"absent", "queued", "running", "completed",
                            "failed"}]
    /\ age \in [Runs -> 0..(StaleTimeout + 1)]
    /\ created \in 0..RunCount
    /\ trigger \in [Processes -> {"idle", "select", "insert"}]
    /\ lock \in Processes \cup {NoProcess}
    /\ marked \in [Processes -> SUBSET Runs]
    /\ call \in [Processes -> [Runs -> CallSteps]]
    /\ evaluated \in [Runs -> SUBSET Processes]
    /\ crashes \in 0..MaxCrashes /\ dbFaults \in 0..MaxDbFaults

\* Only one queued or running evaluation per tenant, whatever the processes
\* trigger at once, and however long an evaluation takes.
AtMostOneActive == \A r, s \in Runs : Active(r) /\ Active(s) => r = s

\* A run is evaluated at most once, although run_eval_job is invoked in
\* several processes and claims, completions and crashes interleave.
EvaluatedOnce ==
    \A r \in Runs : \A p, q \in evaluated[r] : p = q

GivenOnce(r) ==
    \A p, q \in Processes : call[p][r] # "none" /\ call[q][r] # "none" => p = q

\* The tenant has one evaluation at work at most, unless one of them is older
\* than the stale timeout, or was given to two processes (the second one fails
\* the row when it cannot claim it): triggers of several processes, marks and
\* claims together start no second evaluation beside a younger one.
OneEvaluationAtWork ==
    \A p, q \in Processes, r, s \in Runs :
        /\ call[p][r] = "evaluate" /\ call[q][s] = "evaluate"
        /\ age[r] <= StaleTimeout /\ age[s] <= StaleTimeout
        /\ GivenOnce(r) /\ GivenOnce(s)
        => p = q /\ r = s

\* 'failed' is final for a run that one process was given, unless it is older
\* than the stale timeout: no late result replaces the verdict that the tenant
\* was shown.
FailedIsFinal ==
    [][\A r \in Runs :
          status[r] = "failed" /\ age[r] <= StaleTimeout /\ GivenOnce(r)
              => status'[r] = "failed"]_<<status, age, call>>

\* A lost run does not lock the tenant out: if evaluations keep being asked
\* for, every queued or running one ends, by its task or by the stale rule.
LostRunsAreReplaced ==
    []<>(\E p \in Processes : trigger[p] = "select")
        => \A r \in Runs : Active(r) ~> ~Active(r)
=============================================================================
