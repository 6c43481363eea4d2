--------------------------- MODULE EvalJobsProofs ---------------------------
(***************************************************************************)
(* Safety of EvalJobs for every number of runs and processes, every limit  *)
(* and every budget of failures, however long an evaluation takes.         *)
(***************************************************************************)
EXTENDS EvalJobs, TLAPS

\* The advisory lock covers create_eval_job from its first statement on.
LockCoversTrigger ==
    \A p \in Processes :
        /\ trigger[p] # "idle" => lock = p
        /\ trigger[p] = "idle" => marked[p] = {}

\* What SELECT saw stays true until the commit: the transactions of the
\* tasks only touch active rows, and those are all locked by the marks.
NothingActiveAtInsert ==
    \A p \in Processes : trigger[p] = "insert" => ActiveFor(p) = {}

RowsAreCreated ==
    \A r \in Runs :
        /\ r > created => status[r] = "absent"
        /\ \A p \in Processes :
              call[p][r] # "none" \/ r \in marked[p] => r <= created

\* An evaluation started by a claim, and the claimed row is never 'queued'
\* again.
EvaluatedRunsAreClaimed ==
    \A r \in Runs : evaluated[r] # {} => status[r] \notin {"absent", "queued"}

\* The inductive invariant.
EvalInv ==
    /\ TypeOK
    /\ LockCoversTrigger
    /\ NothingActiveAtInsert
    /\ RowsAreCreated
    /\ EvaluatedRunsAreClaimed
    /\ AtMostOneActive
    /\ EvaluatedOnce

\* Init satisfies the invariant: there is no run and nobody holds the lock.
THEOREM InitEstablishesInv == Init => EvalInv
BY EvalAssumption, NobodyAssumption
   DEF Init, EvalInv, TypeOK, LockCoversTrigger, NothingActiveAtInsert,
       RowsAreCreated, EvaluatedRunsAreClaimed, AtMostOneActive, EvaluatedOnce,
       Active, Runs, CallSteps

\* A step of run_eval_job that writes its row: the row is not locked by a
\* trigger, was created, and no row becomes active that was not.
RowWrite(p, r, new) ==
    /\ call[p][r] # "none" /\ RowFree(r)
    /\ status' = [status EXCEPT ![r] = new]
    /\ new = "running" => status[r] = "queued"
    /\ new \in {"running", "completed", "failed"}

\* Such a write preserves the parts of the invariant about rows and triggers.
LEMMA RowWritePreserves ==
    ASSUME EvalInv, NEW p \in Processes, NEW r \in Runs, NEW new,
           RowWrite(p, r, new), UNCHANGED <<age, created, triggers>>
    PROVE  /\ NothingActiveAtInsert' /\ LockCoversTrigger' /\ AtMostOneActive'
           /\ \A s \in Runs : s > created => status'[s] = "absent"
           /\ \A s \in Runs : evaluated[s] # {} =>
                                status'[s] \notin {"absent", "queued"}
<1>1. r <= created /\ created \in Nat
  BY DEF EvalInv, RowsAreCreated, RowWrite, TypeOK
<1>2. \A s \in Runs : s # r => status'[s] = status[s]
  BY DEF RowWrite, EvalInv, TypeOK
<1>3. status'[r] = new
  BY DEF RowWrite, EvalInv, TypeOK
<1>4. \A s \in Runs : Active(s)' => Active(s)
  BY <1>2, <1>3 DEF Active, RowWrite
<1>5. NothingActiveAtInsert'
  BY <1>4 DEF EvalInv, NothingActiveAtInsert, ActiveFor, triggers
<1>6. AtMostOneActive'
  BY <1>4 DEF EvalInv, AtMostOneActive
<1>7. LockCoversTrigger'
  BY DEF EvalInv, LockCoversTrigger, triggers
<1>8. \A s \in Runs : s > created => status'[s] = "absent"
  BY <1>1, <1>2 DEF EvalInv, RowsAreCreated, Runs
<1>9. \A s \in Runs : evaluated[s] # {} =>
                        status'[s] \notin {"absent", "queued"}
  BY <1>2, <1>3 DEF EvalInv, EvaluatedRunsAreClaimed, RowWrite
<1>10. QED
  BY <1>5, <1>6, <1>7, <1>8, <1>9

\* A step of one call keeps the table of calls well-formed.
LEMMA CallTyped ==
    ASSUME call \in [Processes -> [Runs -> CallSteps]],
           NEW p \in Processes, NEW r \in Runs, NEW step \in CallSteps,
           CallAt(p, r, step)
    PROVE  call' \in [Processes -> [Runs -> CallSteps]]
<1>1. call' = [call EXCEPT ![p] = [call[p] EXCEPT ![r] = step]]
  BY DEF CallAt
<1>2. [call[p] EXCEPT ![r] = step] \in [Runs -> CallSteps]
  OBVIOUS
<1>3. QED
  BY <1>1, <1>2

\* No step leaves the types; a run number is bounded where it is inserted.
LEMMA TypePreserved ==
    ASSUME EvalInv, Next
    PROVE  TypeOK'
<1>calls. ASSUME NEW p \in Processes, NEW r \in Runs, NEW step \in CallSteps,
             CallAt(p, r, step)
      PROVE  call' \in [Processes -> [Runs -> CallSteps]]
  BY <1>calls, CallTyped DEF EvalInv, TypeOK
<1> USE EvalAssumption DEF EvalInv, TypeOK, Runs
<1>faults. ASSUME DbFault
       PROVE  crashes' \in 0..MaxCrashes /\ dbFaults' \in 0..MaxDbFaults
  BY <1>faults DEF DbFault
<1>1. CASE Tick
  BY <1>1 DEF Tick, triggers, calls, budget
<1>2. ASSUME NEW p \in Processes, MarkStaleRuns(p)
      PROVE  TypeOK'
  BY <1>2 DEF MarkStaleRuns, StaleRuns, table, calls, budget
<1>3. ASSUME NEW p \in Processes, RefuseRun(p)
      PROVE  TypeOK'
  BY <1>3 DEF RefuseRun, WithMarks, EndTransaction, calls, budget
<1>4. ASSUME NEW p \in Processes, SelectNoActive(p)
      PROVE  TypeOK'
  BY <1>4 DEF SelectNoActive, table, calls, budget
<1>5. ASSUME NEW p \in Processes, InsertTx(p)
      PROVE  /\ status' \in [Runs -> {"absent", "queued", "running",
                                      "completed", "failed"}]
             /\ age' \in [Runs -> 0..(StaleTimeout + 1)]
             /\ created' \in 0..RunCount
             /\ created + 1 \in Runs
  BY <1>5 DEF InsertTx, WithMarks
<1>6. ASSUME NEW p \in Processes, InsertRun(p)
      PROVE  TypeOK'
  BY <1>5, <1>6 DEF InsertRun, EndTransaction, budget, CallSteps
<1>7. ASSUME NEW p \in Processes, TriggerFails(p)
      PROVE  TypeOK'
  BY <1>5, <1>7 DEF TriggerFails, EndTransaction, DbFault, table, calls
<1>8. ASSUME NEW p \in Processes, Crash(p)
      PROVE  TypeOK'
  BY <1>8 DEF Crash, EndTransaction, table, CallSteps
<1>9. ASSUME NEW p \in Processes, NEW r \in Runs,
              ClaimRun(p, r)
       PROVE  TypeOK'
  BY <1>calls, <1>9 DEF ClaimRun, triggers, budget, CallSteps
<1>10. ASSUME NEW p \in Processes, NEW r \in Runs,
              SkipRun(p, r)
       PROVE  TypeOK'
  BY <1>calls, <1>10 DEF SkipRun, table, triggers, budget, CallSteps
<1>11. ASSUME NEW p \in Processes, NEW r \in Runs,
              InvokeAgain(p, r)
       PROVE  TypeOK'
  BY <1>calls, <1>11 DEF InvokeAgain, table, triggers, budget, CallSteps
<1>12. ASSUME NEW p \in Processes, NEW r \in Runs,
              EvaluateRun(p, r)
       PROVE  TypeOK'
  BY <1>calls, <1>12 DEF EvaluateRun, table, triggers, budget, CallSteps
<1>13. ASSUME NEW p \in Processes, NEW r \in Runs,
              CompleteRun(p, r)
       PROVE  TypeOK'
  BY <1>calls, <1>13 DEF CompleteRun, triggers, budget, CallSteps
<1>14. ASSUME NEW p \in Processes, NEW r \in Runs,
              FailRun(p, r)
       PROVE  TypeOK'
  BY <1>calls, <1>14 DEF FailRun, triggers, budget, CallSteps
<1>15. ASSUME NEW p \in Processes, NEW r \in Runs,
              ClaimFails(p, r)
       PROVE  TypeOK'
  BY <1>calls, <1>faults, <1>15 DEF ClaimFails, triggers, CallSteps
<1>16. ASSUME NEW p \in Processes, NEW r \in Runs,
              CompleteFails(p, r)
       PROVE  TypeOK'
  BY <1>calls, <1>faults, <1>16 DEF CompleteFails, triggers, CallSteps
<1>17. ASSUME NEW p \in Processes, NEW r \in Runs,
              FailureNotPersisted(p, r)
       PROVE  TypeOK'
  BY <1>calls, <1>faults, <1>17 DEF FailureNotPersisted, table, triggers,
     CallSteps
<1>18. QED
  BY <1>1, <1>2, <1>3, <1>4, <1>6, <1>7, <1>8, <1>9, <1>10, <1>11, <1>12,
     <1>13, <1>14, <1>15, <1>16, <1>17 DEF Next, TriggerStep, RunCall

\* Committing the marks deactivates rows and activates none.
LEMMA MarksOnlyDeactivate ==
    ASSUME EvalInv, NEW p \in Processes
    PROVE  /\ \A r \in Runs : WithMarks(p)[r] \in {"queued", "running"}
                                => r \in ActiveFor(p)
           /\ \A r \in Runs : status[r] = "absent" /\ r \notin marked[p]
                                => WithMarks(p)[r] = "absent"
           /\ \A r \in Runs : WithMarks(p)[r] \in {status[r], "failed"}
BY DEF WithMarks, ActiveFor, Active, Runs

\* Ending a transaction gives the lock back to nobody, and no other trigger
\* holds it.
LEMMA EndTransactionPreserves ==
    ASSUME EvalInv, NEW p \in Processes, trigger[p] # "idle",
           EndTransaction(p)
    PROVE  LockCoversTrigger' /\ \A q \in Processes : trigger'[q] = "idle"
BY NobodyAssumption
   DEF EvalInv, TypeOK, LockCoversTrigger, EndTransaction

\* A step of run_eval_job that leaves the rows alone preserves the invariant.
LEMMA CallStepPreserves ==
    ASSUME EvalInv, TypeOK', NEW p \in Processes, NEW r \in Runs, NEW step,
           CallAt(p, r, step), step = "none" \/ r <= created,
           UNCHANGED <<table, triggers, evaluated>>
    PROVE  EvalInv'
<1>1. LockCoversTrigger' /\ NothingActiveAtInsert' /\ AtMostOneActive'
  BY DEF EvalInv, LockCoversTrigger, NothingActiveAtInsert, ActiveFor,
     AtMostOneActive, Active, table, triggers
<1>2. EvaluatedRunsAreClaimed' /\ EvaluatedOnce'
  BY DEF EvalInv, EvaluatedRunsAreClaimed, EvaluatedOnce, table
<1>3. RowsAreCreated'
  BY DEF EvalInv, TypeOK, RowsAreCreated, CallAt, table, triggers
<1>4. QED
  BY <1>1, <1>2, <1>3 DEF EvalInv

\* Neither does one that writes its row.
LEMMA RowWriteStepPreserves ==
    ASSUME EvalInv, TypeOK', NEW p \in Processes, NEW r \in Runs, NEW new,
           NEW step, RowWrite(p, r, new), CallAt(p, r, step),
           UNCHANGED <<age, created, triggers>>,
           \/ UNCHANGED evaluated
           \/ /\ status[r] = "queued" /\ new = "running"
              /\ evaluated' = [evaluated EXCEPT ![r] = @ \cup {p}]
    PROVE  EvalInv'
<1>1. /\ NothingActiveAtInsert' /\ LockCoversTrigger' /\ AtMostOneActive'
      /\ \A s \in Runs : s > created => status'[s] = "absent"
      /\ \A s \in Runs : evaluated[s] # {} =>
                           status'[s] \notin {"absent", "queued"}
  BY RowWritePreserves
<1>2. RowsAreCreated'
  BY <1>1 DEF EvalInv, TypeOK, RowsAreCreated, RowWrite, CallAt, triggers
<1>3. CASE UNCHANGED evaluated
  BY <1>1, <1>2, <1>3 DEF EvalInv, EvaluatedRunsAreClaimed, EvaluatedOnce
<1>4. CASE /\ status[r] = "queued" /\ new = "running"
           /\ evaluated' = [evaluated EXCEPT ![r] = @ \cup {p}]
  <2>1. evaluated[r] = {}
    BY <1>4 DEF EvalInv, EvaluatedRunsAreClaimed
  <2>2. /\ evaluated'[r] = {p}
        /\ \A s \in Runs : s # r => evaluated'[s] = evaluated[s]
        /\ status'[r] = "running"
    BY <1>4, <2>1 DEF EvalInv, TypeOK, RowWrite
  <2>3. EvaluatedRunsAreClaimed' /\ EvaluatedOnce'
    BY <1>1, <2>2 DEF EvalInv, EvaluatedRunsAreClaimed, EvaluatedOnce
  <2>4. QED
    BY <1>1, <1>2, <2>3 DEF EvalInv
<1>5. QED
  BY <1>3, <1>4

\* Inserting the run: the marks and the SELECT leave it the only active one.
LEMMA InsertPreserves ==
    ASSUME EvalInv, TypeOK', NEW p \in Processes, trigger[p] = "insert",
           InsertTx(p), EndTransaction(p), UNCHANGED evaluated,
           \/ UNCHANGED call
           \/ call' = [call EXCEPT ![p][created + 1] = "scheduled"]
    PROVE  EvalInv'
<1>1. created + 1 \in Runs /\ created' = created + 1 /\ created \in Nat
  BY DEF InsertTx, EvalInv, TypeOK, Runs
<1>2. /\ status'[created + 1] = "queued"
      /\ \A r \in Runs : r # created + 1 => status'[r] = WithMarks(p)[r]
  BY <1>1 DEF InsertTx, WithMarks
<1>3. ActiveFor(p) = {}
  BY DEF EvalInv, NothingActiveAtInsert
<1>4. \A r \in Runs : Active(r)' => r = created + 1
  BY <1>2, <1>3, MarksOnlyDeactivate DEF Active
<1>5. LockCoversTrigger' /\ \A q \in Processes : trigger'[q] = "idle"
  BY EndTransactionPreserves
<1>6. NothingActiveAtInsert'
  BY <1>5 DEF NothingActiveAtInsert
<1>7. AtMostOneActive'
  BY <1>4 DEF AtMostOneActive
<1>8. status[created + 1] = "absent"
  BY <1>1 DEF EvalInv, RowsAreCreated
<1>9. EvaluatedRunsAreClaimed'
  <2>1. evaluated[created + 1] = {}
    BY <1>1, <1>8 DEF EvalInv, EvaluatedRunsAreClaimed
  <2>2. QED
    BY <1>2, <2>1, MarksOnlyDeactivate DEF EvalInv, EvaluatedRunsAreClaimed
<1>10. RowsAreCreated'
  <2>1. \A r \in Runs : r > created' => status'[r] = "absent"
    BY <1>1, <1>2, MarksOnlyDeactivate DEF EvalInv, RowsAreCreated, Runs
  <2>2. \A r \in Runs, q \in Processes : call'[q][r] # "none" => r <= created'
    <3>1. CASE UNCHANGED call
      BY <1>1, <3>1 DEF EvalInv, RowsAreCreated, Runs
    <3>2. CASE call' = [call EXCEPT ![p][created + 1] = "scheduled"]
      <4>1. \A r \in Runs, q \in Processes :
               r # created + 1 => call'[q][r] = call[q][r]
        BY <1>1, <3>2 DEF EvalInv, TypeOK
      <4>2. QED
        BY <1>1, <4>1 DEF EvalInv, RowsAreCreated, Runs
    <3>3. QED
      BY <3>1, <3>2
  <2>3. \A q \in Processes : marked'[q] = {}
    BY <1>5 DEF LockCoversTrigger
  <2>4. QED
    BY <2>1, <2>2, <2>3 DEF RowsAreCreated
<1>11. QED
  BY <1>5, <1>6, <1>7, <1>9, <1>10 DEF EvalInv, EvaluatedOnce

\* Every step preserves the invariant.
LEMMA NextPreserves ==
    ASSUME EvalInv, [Next]_vars
    PROVE  EvalInv'
<1>1. CASE UNCHANGED vars
  BY <1>1 DEF EvalInv, TypeOK, LockCoversTrigger, NothingActiveAtInsert,
     ActiveFor, RowsAreCreated, EvaluatedRunsAreClaimed, AtMostOneActive,
     EvaluatedOnce, Active, vars, table, triggers, calls, budget
<1>2. ASSUME Next
      PROVE  TypeOK'
  BY <1>2, TypePreserved
<1>3. CASE Tick
  BY <1>2, <1>3 DEF Next, Tick, EvalInv, LockCoversTrigger,
     NothingActiveAtInsert, ActiveFor, RowsAreCreated, EvaluatedRunsAreClaimed,
     AtMostOneActive, EvaluatedOnce, Active, triggers, calls
<1>4. ASSUME NEW p \in Processes, MarkStaleRuns(p), TypeOK'
      PROVE  EvalInv'
  <2>1. /\ trigger' = [trigger EXCEPT ![p] = "select"] /\ lock' = p
        /\ marked' = [marked EXCEPT ![p] = StaleRuns]
        /\ lock = NoProcess
        /\ UNCHANGED <<status, created, call, evaluated>>
    BY <1>4 DEF MarkStaleRuns, table, calls
  <2>2. \A q \in Processes : trigger[q] = "idle"
    BY <2>1, NobodyAssumption DEF EvalInv, LockCoversTrigger
  <2>3. LockCoversTrigger' /\ NothingActiveAtInsert'
    BY <2>1, <2>2 DEF EvalInv, TypeOK, LockCoversTrigger,
       NothingActiveAtInsert
  <2>4. \A r \in StaleRuns : r \in Runs /\ status[r] # "absent"
    BY DEF StaleRuns, Active
  <2>5. RowsAreCreated'
    BY <2>1, <2>4 DEF EvalInv, TypeOK, RowsAreCreated, Runs
  <2>6. QED
    BY <1>4, <2>1, <2>3, <2>5 DEF EvalInv, EvaluatedRunsAreClaimed,
       AtMostOneActive, EvaluatedOnce, Active
<1>5. ASSUME NEW p \in Processes, RefuseRun(p), TypeOK'
      PROVE  EvalInv'
  <2>1. /\ status' = WithMarks(p) /\ EndTransaction(p)
        /\ UNCHANGED <<created, call, evaluated>>
        /\ trigger[p] # "idle"
    BY <1>5 DEF RefuseRun, calls
  <2>2. LockCoversTrigger' /\ \A q \in Processes : trigger'[q] = "idle"
    BY <2>1, EndTransactionPreserves
  <2>3. \A r \in Runs : Active(r)' => Active(r)
    BY <2>1, MarksOnlyDeactivate DEF Active, ActiveFor
  <2>4. AtMostOneActive' /\ NothingActiveAtInsert'
    BY <2>2, <2>3 DEF EvalInv, AtMostOneActive, NothingActiveAtInsert
  <2>5. RowsAreCreated'
    <3>1. \A r \in Runs : r > created => status'[r] = "absent"
      BY <2>1, MarksOnlyDeactivate DEF EvalInv, TypeOK, RowsAreCreated, Runs
    <3>2. \A q \in Processes : marked'[q] = {}
      BY <2>2 DEF LockCoversTrigger
    <3>3. QED
      BY <2>1, <3>1, <3>2 DEF EvalInv, RowsAreCreated
  <2>6. EvaluatedRunsAreClaimed'
    BY <2>1, MarksOnlyDeactivate DEF EvalInv, EvaluatedRunsAreClaimed
  <2>7. QED
    BY <1>5, <2>1, <2>2, <2>4, <2>5, <2>6 DEF EvalInv, EvaluatedOnce
<1>6. ASSUME NEW p \in Processes, SelectNoActive(p), TypeOK'
      PROVE  EvalInv'
  BY <1>6 DEF SelectNoActive, EvalInv, TypeOK, LockCoversTrigger,
     NothingActiveAtInsert, ActiveFor, RowsAreCreated, EvaluatedRunsAreClaimed,
     AtMostOneActive, EvaluatedOnce, Active, table, calls
<1>7. ASSUME NEW p \in Processes, InsertRun(p), TypeOK'
      PROVE  EvalInv'
  BY <1>7, InsertPreserves DEF InsertRun
<1>8. ASSUME NEW p \in Processes, EndTransaction(p), UNCHANGED table,
             UNCHANGED evaluated, TypeOK', trigger[p] # "idle",
             \A q \in Processes, r \in Runs :
                call'[q][r] # "none" => call[q][r] # "none"
      PROVE  EvalInv'
  <2>1. LockCoversTrigger' /\ \A q \in Processes : trigger'[q] = "idle"
    BY <1>8, EndTransactionPreserves
  <2>2. QED
    BY <1>8, <2>1 DEF EvalInv, LockCoversTrigger, NothingActiveAtInsert,
       RowsAreCreated, EvaluatedRunsAreClaimed, AtMostOneActive,
       EvaluatedOnce, Active, table
<1>9. ASSUME NEW p \in Processes, TriggerFails(p), TypeOK'
      PROVE  EvalInv'
  <2>1. /\ trigger[p] # "idle" /\ EndTransaction(p)
        /\ UNCHANGED <<call, evaluated>>
    BY <1>9 DEF TriggerFails, calls
  <2>2. CASE UNCHANGED table
    BY <1>8, <1>9, <2>1, <2>2
  <2>3. CASE trigger[p] = "insert" /\ InsertTx(p)
    BY <1>9, <2>1, <2>3, InsertPreserves
  <2>4. QED
    BY <1>9, <2>2, <2>3 DEF TriggerFails
<1>10. ASSUME NEW p \in Processes, Crash(p), TypeOK'
       PROVE  EvalInv'
  <2>1. /\ EndTransaction(p) /\ UNCHANGED table /\ UNCHANGED evaluated
        /\ \A q \in Processes, r \in Runs :
              call'[q][r] # "none" => call[q][r] # "none"
    BY <1>10 DEF Crash, EvalInv, TypeOK
  <2>2. CASE trigger[p] # "idle"
    BY <1>8, <1>10, <2>1, <2>2
  <2>3. CASE trigger[p] = "idle"
    <3>1. /\ UNCHANGED <<trigger, marked>>
          /\ \A q \in Processes : trigger[q] # "idle" => lock' = lock
      BY <2>1, <2>3 DEF EndTransaction, EvalInv, TypeOK, LockCoversTrigger
    <3>2. QED
      BY <1>10, <2>1, <3>1 DEF EvalInv, LockCoversTrigger,
         NothingActiveAtInsert, ActiveFor, RowsAreCreated,
         EvaluatedRunsAreClaimed, AtMostOneActive, EvaluatedOnce, Active, table
  <2>4. QED
    BY <2>2, <2>3
<1>11. ASSUME NEW p \in Processes, NEW r \in Runs, call[p][r] # "none"
       PROVE  r <= created
  BY <1>11 DEF EvalInv, RowsAreCreated
<1>12. ASSUME NEW p \in Processes, NEW r \in Runs, TypeOK',
              \/ SkipRun(p, r) \/ EvaluateRun(p, r) \/ FailureNotPersisted(p, r)
       PROVE  EvalInv'
  <2>1. \E step : CallAt(p, r, step)
    BY <1>12 DEF SkipRun, EvaluateRun, FailureNotPersisted
  <2>2. r <= created /\ UNCHANGED <<table, triggers, evaluated>>
    BY <1>11, <1>12 DEF SkipRun, EvaluateRun, FailureNotPersisted
  <2>3. QED
    BY <1>12, <2>1, <2>2, CallStepPreserves
<1>13. ASSUME NEW p \in Processes, NEW r \in Runs, TypeOK',
              InvokeAgain(p, r)
       PROVE  EvalInv'
  <2>1. r <= created
    BY <1>13 DEF InvokeAgain, EvalInv, TypeOK, RowsAreCreated, Runs
  <2>2. CallAt(p, r, "scheduled") /\ UNCHANGED <<table, triggers, evaluated>>
    BY <1>13 DEF InvokeAgain
  <2>3. QED
    BY <1>13, <2>1, <2>2, CallStepPreserves
<1>14. ASSUME NEW p \in Processes, NEW r \in Runs, TypeOK',
              \/ ClaimRun(p, r) \/ CompleteRun(p, r) \/ FailRun(p, r)
       PROVE  EvalInv'
  <2>1. CASE ClaimRun(p, r)
    BY <1>14, <2>1, RowWriteStepPreserves DEF ClaimRun, RowWrite
  <2>2. CASE CompleteRun(p, r)
    BY <1>14, <2>2, RowWriteStepPreserves DEF CompleteRun, RowWrite
  <2>3. CASE FailRun(p, r)
    BY <1>14, <2>3, RowWriteStepPreserves DEF FailRun, RowWrite
  <2>4. QED
    BY <1>14, <2>1, <2>2, <2>3
<1>15. ASSUME NEW p \in Processes, NEW r \in Runs, TypeOK',
              ClaimFails(p, r) \/ CompleteFails(p, r)
       PROVE  EvalInv'
  <2>1. /\ CallAt(p, r, "fail") /\ call[p][r] # "none" /\ RowFree(r)
        /\ UNCHANGED <<age, created, triggers, evaluated>>
    BY <1>15 DEF ClaimFails, CompleteFails
  <2>2. CASE UNCHANGED status
    BY <1>11, <1>15, <2>1, <2>2, CallStepPreserves DEF table
  <2>3. CASE status[r] = "queued" /\ status' = [status EXCEPT ![r] = "running"]
    BY <1>15, <2>1, <2>3, RowWriteStepPreserves DEF RowWrite
  <2>4. CASE status' = [status EXCEPT ![r] = "completed"]
    BY <1>15, <2>1, <2>4, RowWriteStepPreserves DEF RowWrite
  <2>5. QED
    BY <1>15, <2>2, <2>3, <2>4 DEF ClaimFails, CompleteFails
<1>16. QED
  BY <1>1, <1>2, <1>3, <1>4, <1>5, <1>6, <1>7, <1>9, <1>10, <1>12, <1>13,
     <1>14, <1>15 DEF Next, TriggerStep, RunCall

\* The invariant holds in every reachable state.
THEOREM EvalInvariance == Spec => []EvalInv
BY InitEstablishesInv, NextPreserves, PTL DEF Spec

\* The types of the state, for every value of the constants.
THEOREM EvalTypeCorrect == Spec => []TypeOK
BY EvalInvariance, PTL DEF EvalInv

\* Only one queued or running evaluation per tenant: the advisory lock and
\* the stale rule are enough, without any assumption on time.
THEOREM OneActiveRun == Spec => []AtMostOneActive
BY EvalInvariance, PTL DEF EvalInv

\* A run is evaluated by one invocation at most.
THEOREM RunsAreEvaluatedOnce == Spec => []EvaluatedOnce
BY EvalInvariance, PTL DEF EvalInv

-----------------------------------------------------------------------------
(* Time.  Only a stale row is marked, so a young run that one process was   *)
(* given has nobody but that process to change its row.                     *)

MarkedRunsAreStale ==
    \A p \in Processes : \A r \in marked[p] : age[r] > StaleTimeout

\* The row of a young run at work is 'running'.
WorkIsRunning ==
    \A p \in Processes, r \in Runs :
        /\ call[p][r] \in {"evaluate", "complete"}
        /\ age[r] <= StaleTimeout /\ GivenOnce(r)
        => status[r] = "running"

WorkInv == MarkedRunsAreStale /\ WorkIsRunning

\* Time does not run backwards, and an invocation is not taken back.
LEMMA NothingIsTakenBack ==
    ASSUME TypeOK, Next, NEW r \in Runs
    PROVE  /\ age[r] <= age'[r]
           /\ \A p \in Processes : call[p][r] # "none" => call'[p][r] # "none"
<1> USE EvalAssumption DEF TypeOK, table, triggers, calls
<1>1. CASE Tick
  BY <1>1 DEF Tick
<1>2. ASSUME NEW p \in Processes, MarkStaleRuns(p) \/ RefuseRun(p)
                                  \/ SelectNoActive(p) \/ TriggerFails(p)
      PROVE  UNCHANGED <<age, call>>
  BY <1>2 DEF MarkStaleRuns, RefuseRun, SelectNoActive, TriggerFails, InsertTx
<1>3. ASSUME NEW p \in Processes, InsertRun(p) \/ Crash(p)
      PROVE  /\ age[r] <= age'[r]
             /\ \A q \in Processes : call[q][r] # "none" => call'[q][r] # "none"
  BY <1>3 DEF InsertRun, InsertTx, Crash
<1>4. ASSUME NEW p \in Processes, NEW s \in Runs,
             NEW step \in CallSteps \ {"none"},
             CallAt(p, s, step), UNCHANGED age
      PROVE  /\ age[r] <= age'[r]
             /\ \A q \in Processes : call[q][r] # "none" => call'[q][r] # "none"
  BY <1>4 DEF CallAt
<1>5. ASSUME NEW p \in Processes, NEW s \in Runs,
             \/ RunCall(p, s) \/ InvokeAgain(p, s) \/ ClaimFails(p, s)
             \/ CompleteFails(p, s) \/ FailureNotPersisted(p, s)
      PROVE  /\ UNCHANGED age
             /\ \E step \in CallSteps \ {"none"} : CallAt(p, s, step)
  BY <1>5 DEF RunCall, ClaimRun, SkipRun, EvaluateRun, CompleteRun, FailRun,
     InvokeAgain, ClaimFails, CompleteFails, FailureNotPersisted, CallSteps
<1>6. QED
  BY <1>1, <1>2, <1>3, <1>4, <1>5 DEF Next, TriggerStep

\* A young run given to one process was one already before the step.
LEMMA YoungRunsWereYoung ==
    ASSUME EvalInv, Next, NEW r \in Runs,
           age'[r] <= StaleTimeout, GivenOnce(r)'
    PROVE  age[r] <= StaleTimeout /\ GivenOnce(r)
<1>1. age[r] \in Int /\ age'[r] \in Int
  BY TypePreserved, EvalAssumption DEF EvalInv, TypeOK
<1>2. QED
  BY <1>1, NothingIsTakenBack, EvalAssumption DEF EvalInv, GivenOnce

\* Marks are set on stale rows, and rows only grow older.
LEMMA MarksStayStale ==
    ASSUME EvalInv, WorkInv, Next
    PROVE  MarkedRunsAreStale'
<1>1. \A r \in Runs : age[r] \in Int /\ age'[r] \in Int
  BY TypePreserved, EvalAssumption DEF EvalInv, TypeOK
<1>2. \A r \in Runs : age[r] > StaleTimeout => age'[r] > StaleTimeout
  BY <1>1, NothingIsTakenBack, EvalAssumption DEF EvalInv
<1>3. \A p \in Processes : marked'[p] \subseteq marked[p] \cup StaleRuns
  BY DEF EvalInv, TypeOK, Next, Tick, MarkStaleRuns, TriggerStep, RefuseRun,
     SelectNoActive, InsertRun, TriggerFails, EndTransaction, Crash, RunCall,
     ClaimRun, SkipRun, EvaluateRun, CompleteRun, FailRun, InvokeAgain,
     ClaimFails, CompleteFails, FailureNotPersisted, triggers
<1>4. \A p \in Processes : \A r \in marked[p] \cup StaleRuns :
         r \in Runs /\ age[r] > StaleTimeout
  BY DEF WorkInv, MarkedRunsAreStale, StaleRuns, EvalInv, TypeOK
<1>5. QED
  BY <1>2, <1>3, <1>4 DEF MarkedRunsAreStale

\* The row of a young run changes only by the process it was given to.
LEMMA OthersLeaveYoungRuns ==
    ASSUME EvalInv, WorkInv, Next, NEW r \in Runs,
           age[r] <= StaleTimeout, status[r] # "absent", status'[r] # status[r]
    PROVE  \E p \in Processes :
              \/ ClaimRun(p, r) \/ ClaimFails(p, r)
              \/ CompleteRun(p, r) \/ CompleteFails(p, r) \/ FailRun(p, r)
<1>1. /\ TypeOK /\ r \in 1..created /\ created \in Nat
      /\ \A p \in Processes : r \notin marked[p]
  BY EvalAssumption DEF EvalInv, RowsAreCreated, WorkInv, MarkedRunsAreStale,
     TypeOK, Runs
<1>2. ASSUME NEW p \in Processes,
             \/ MarkStaleRuns(p) \/ TriggerStep(p)
             \/ TriggerFails(p) \/ Crash(p)
      PROVE  status'[r] = status[r]
  <2>1. ASSUME status' = WithMarks(p)
        PROVE  status'[r] = status[r]
    BY <1>1, <2>1 DEF WithMarks
  <2>2. ASSUME InsertTx(p)
        PROVE  status'[r] = status[r]
    <3>1. r # created + 1 /\ WithMarks(p)[r] = status[r]
      BY <1>1 DEF WithMarks
    <3>2. QED
      BY <2>2, <3>1 DEF InsertTx, WithMarks
  <2>3. QED
    BY <1>2, <2>1, <2>2 DEF MarkStaleRuns, TriggerStep, RefuseRun,
       SelectNoActive, InsertRun, TriggerFails, Crash, table
<1>3. ASSUME NEW p \in Processes, NEW s \in Runs,
             \/ RunCall(p, s) \/ InvokeAgain(p, s) \/ ClaimFails(p, s)
             \/ CompleteFails(p, s) \/ FailureNotPersisted(p, s)
      PROVE  \/ s = r /\ \/ ClaimRun(p, s) \/ ClaimFails(p, s)
                         \/ CompleteRun(p, s) \/ CompleteFails(p, s)
                         \/ FailRun(p, s)
             \/ status'[r] = status[r]
  BY <1>1, <1>3 DEF RunCall, ClaimRun, SkipRun, EvaluateRun, CompleteRun,
     FailRun, InvokeAgain, ClaimFails, CompleteFails, FailureNotPersisted,
     table, TypeOK
<1>4. CASE Tick
  BY <1>4 DEF Tick
<1>5. QED
  BY <1>2, <1>3, <1>4 DEF Next

\* The process at work on a young run finds its row 'running' at every step.
LEMMA WorkStaysRunning ==
    ASSUME EvalInv, WorkInv, Next
    PROVE  WorkIsRunning'
<1>1. SUFFICES ASSUME NEW p \in Processes, NEW r \in Runs,
                      call'[p][r] \in {"evaluate", "complete"},
                      age'[r] <= StaleTimeout, GivenOnce(r)'
               PROVE  status'[r] = "running"
  BY DEF WorkIsRunning
<1>2. age[r] <= StaleTimeout /\ GivenOnce(r)
  BY <1>1, YoungRunsWereYoung
<1>3. \/ call[p][r] \in {"evaluate", "complete"}
      \/ status'[r] = "running"
  <2> USE DEF EvalInv, TypeOK, calls, CallAt
  <2>1. ASSUME NEW q \in Processes, InsertRun(q) \/ Crash(q)
        PROVE  call[p][r] \in {"evaluate", "complete"}
    <3>1. CASE InsertRun(q)
      <4>1. call'[p][r] \in {call[p][r], "scheduled"}
        BY <3>1 DEF InsertRun
      <4>2. QED
        BY <1>1, <4>1
    <3>2. CASE Crash(q)
      <4>1. call'[p][r] \in {call[p][r], "done", "none"}
        BY <3>2 DEF Crash
      <4>2. QED
        BY <1>1, <4>1
    <3>3. QED
      BY <2>1, <3>1, <3>2
  <2>2. ASSUME NEW q \in Processes,
               MarkStaleRuns(q) \/ RefuseRun(q) \/ SelectNoActive(q)
               \/ TriggerFails(q)
        PROVE  call[p][r] \in {"evaluate", "complete"}
    BY <1>1, <2>2 DEF MarkStaleRuns, RefuseRun, SelectNoActive, TriggerFails
  <2>3. ASSUME NEW q \in Processes, NEW s \in Runs, ClaimRun(q, s)
        PROVE  \/ call[p][r] \in {"evaluate", "complete"}
               \/ status'[r] = "running"
    BY <1>1, <2>3 DEF ClaimRun
  <2>4. ASSUME NEW q \in Processes, NEW s \in Runs,
               \/ SkipRun(q, s) \/ EvaluateRun(q, s) \/ CompleteRun(q, s)
               \/ FailRun(q, s) \/ InvokeAgain(q, s) \/ ClaimFails(q, s)
               \/ CompleteFails(q, s) \/ FailureNotPersisted(q, s)
        PROVE  call[p][r] \in {"evaluate", "complete"}
    BY <1>1, <2>4 DEF SkipRun, EvaluateRun, CompleteRun, FailRun, InvokeAgain,
       ClaimFails, CompleteFails, FailureNotPersisted
  <2>5. CASE Tick
    BY <1>1, <2>5 DEF Tick
  <2>6. QED
    BY <2>1, <2>2, <2>3, <2>4, <2>5 DEF Next, TriggerStep, RunCall
<1>4. CASE call[p][r] \in {"evaluate", "complete"}
  <2>1. status[r] = "running"
    BY <1>2, <1>4 DEF WorkInv, WorkIsRunning
  <2>2. ASSUME status'[r] # "running"
        PROVE  FALSE
    <3>1. PICK q \in Processes :
             \/ ClaimRun(q, r) \/ ClaimFails(q, r)
             \/ CompleteRun(q, r) \/ CompleteFails(q, r) \/ FailRun(q, r)
      BY <1>2, <2>1, <2>2, OthersLeaveYoungRuns
    <3>2. call[q][r] \in {"scheduled", "complete", "fail"}
      BY <3>1 DEF ClaimRun, ClaimFails, CompleteRun, CompleteFails, FailRun
    <3>3. q = p
      BY <1>2, <1>4, <3>2 DEF GivenOnce
    <3>4. call'[p][r] \in {"done", "fail"}
      BY <1>4, <3>1, <3>3 DEF ClaimRun, ClaimFails, CompleteRun, CompleteFails,
         FailRun, CallAt, EvalInv, TypeOK
    <3>5. QED
      BY <1>1, <3>4
  <2>3. QED
    BY <2>2
<1>5. QED
  BY <1>3, <1>4

\* Marks and work keep their invariant in every reachable state.
THEOREM WorkInvariance == Spec => []WorkInv
<1>1. Init => WorkInv
  BY DEF Init, WorkInv, MarkedRunsAreStale, WorkIsRunning
<1>2. EvalInv /\ WorkInv /\ [Next]_vars => WorkInv'
  <2>1. ASSUME EvalInv, WorkInv, Next
        PROVE  WorkInv'
    BY <2>1, MarksStayStale, WorkStaysRunning DEF WorkInv
  <2>2. ASSUME WorkInv, UNCHANGED vars
        PROVE  WorkInv'
    BY <2>2 DEF vars, table, triggers, calls, WorkInv, MarkedRunsAreStale,
       WorkIsRunning, GivenOnce
  <2>3. QED
    BY <2>1, <2>2
<1>3. QED
  BY <1>1, <1>2, EvalInvariance, PTL DEF Spec

\* A tenant has one young evaluation at work at most: the database's one
\* active row bounds what the processes do, not only what it says.
THEOREM OneEvaluationWorks == Spec => []OneEvaluationAtWork
<1>1. EvalInv /\ WorkInv => OneEvaluationAtWork
  <2>1. ASSUME EvalInv, WorkInv,
               NEW p \in Processes, NEW q \in Processes,
               NEW r \in Runs, NEW s \in Runs,
               call[p][r] = "evaluate", call[q][s] = "evaluate",
               age[r] <= StaleTimeout, age[s] <= StaleTimeout,
               GivenOnce(r), GivenOnce(s)
        PROVE  p = q /\ r = s
    <3>1. status[r] = "running" /\ status[s] = "running"
      BY <2>1 DEF WorkInv, WorkIsRunning
    <3>2. r = s
      BY <2>1, <3>1 DEF EvalInv, AtMostOneActive, Active
    <3>3. QED
      BY <2>1, <3>2 DEF GivenOnce
  <2>2. QED
    BY <2>1 DEF OneEvaluationAtWork
<1>2. QED
  BY <1>1, EvalInvariance, WorkInvariance, PTL

\* 'failed' is final for a young run given to one process: _complete_job has
\* no guard on the status, the claim and the stale rule are enough.
THEOREM FailedRunsStayFailed == Spec => FailedIsFinal
<1>1. ASSUME EvalInv, WorkInv, [Next]_vars
      PROVE  [\A r \in Runs :
                 status[r] = "failed" /\ age[r] <= StaleTimeout /\ GivenOnce(r)
                     => status'[r] = "failed"]_<<status, age, call>>
  <2>1. ASSUME Next, NEW r \in Runs, status[r] = "failed",
               age[r] <= StaleTimeout, GivenOnce(r), status'[r] # "failed"
        PROVE  FALSE
    <3>1. PICK p \in Processes :
             \/ ClaimRun(p, r) \/ ClaimFails(p, r)
             \/ CompleteRun(p, r) \/ CompleteFails(p, r) \/ FailRun(p, r)
      BY <1>1, <2>1, OthersLeaveYoungRuns
    <3>2. call[p][r] = "complete"
      BY <1>1, <2>1, <3>1 DEF ClaimRun, ClaimFails, CompleteRun, CompleteFails,
         FailRun, EvalInv, TypeOK
    <3>3. status[r] = "running"
      BY <1>1, <2>1, <3>2 DEF WorkInv, WorkIsRunning
    <3>4. QED
      BY <2>1, <3>3
  <2>2. CASE UNCHANGED vars
    BY <2>2 DEF vars, table, calls
  <2>3. QED
    BY <1>1, <2>1, <2>2
<1>2. QED
  BY <1>1, EvalInvariance, WorkInvariance, PTL DEF Spec, FailedIsFinal
=============================================================================
