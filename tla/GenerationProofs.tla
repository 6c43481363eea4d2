-------------------------- MODULE GenerationProofs --------------------------
(***************************************************************************)
(* Safety of Generation for every number of streams, callers, executor     *)
(* threads and tokens.                                                     *)
(***************************************************************************)
EXTENDS Generation, SequenceTheorems, TLAPS

\* The steps of a thread on its way to an answer of the model.
Asking == {"fast", "lockLoad", "recheck", "construct", "warmup", "lockInfer",
           "infer"}

\* Both locks are held exactly inside their with blocks.
LocksAreHeld ==
    \A t \in Threads :
        /\ loadLock = t <=> pc[t] \in {"recheck", "construct", "warmup"}
        /\ inferLock = t <=> pc[t] = "infer"

\* The thread that constructs the model has seen that there is none.
ModelIsMissingOrLoaded ==
    /\ loads = IF instance THEN 1 ELSE 0
    /\ \A t \in Threads : pc[t] = "construct" => ~instance

\* Nothing is in the queue or in the hand of the coroutine.
NothingSent(s) == queue[s] = <<>> /\ got[s] = None

InHand(s) == IF got[s] = Token THEN 1 ELSE 0

\* The tokens collected, in hand, in the queue and still to be put are all the
\* tokens of the answer.
AddUp(coll, hand, queued, left, all) == coll + hand + queued + left = all

TokensUpTo(s, n) == \A i \in 1..n : queue[s][i] = Token

\* Where the answer of a stream is: not begun; being produced; all put; all
\* received; or replaced by an exception.
AnswerOnItsWay(s) ==
    \/ pc[s] \in Asking /\ NothingSent(s) /\ collected[s] = 0
    \/ /\ pc[s] = "produce" /\ got[s] \in {None, Token}
       /\ TokensUpTo(s, Len(queue[s]))
       /\ AddUp(collected[s], InHand(s), Len(queue[s]), rest[s], answer[s])
    \/ /\ pc[s] = "done" /\ got[s] \in {None, Token} /\ queue[s] # <<>>
       /\ TokensUpTo(s, Len(queue[s]) - 1) /\ queue[s][Len(queue[s])] = End
       /\ AddUp(collected[s], InHand(s), Len(queue[s]) - 1, 0, answer[s])
    \/ /\ pc[s] = "done" /\ got[s] = End /\ queue[s] = <<>>
       /\ collected[s] = answer[s]
    \/ pc[s] = "done" /\ got[s] = None /\ queue[s] = <<Raised, End>>
    \/ pc[s] = "done" /\ got[s] = Raised /\ queue[s] = <<End>>

\* Where the result of a background call is.
ResultOnItsWay(s) ==
    \/ pc[s] \in Asking \cup {"attribute"} /\ NothingSent(s)
    \/ pc[s] = "done" /\ got[s] = None /\ queue[s] \in {<<End>>, <<Raised>>}
    \/ pc[s] = "done" /\ got[s] \in {End, Raised} /\ queue[s] = <<>>

\* The coroutine of a stream and its thread agree on how far they are.
StreamInStep(s) ==
    /\ s \in executing => consumer[s] = "await" /\ got[s] = None
    /\ cancel[s] => consumer[s] = "failed"
    /\ consumer[s] = "idle" =>
        /\ pc[s] = "idle" /\ phase[s] = "retrieval"
        /\ NothingSent(s) /\ collected[s] = 0
    /\ consumer[s] = "retrieve" =>
        /\ pc[s] \in Asking \cup {"retrieved"} /\ phase[s] = "retrieval"
        /\ NothingSent(s) /\ collected[s] = 0
    /\ consumer[s] = "await" =>
        /\ phase[s] # "retrieval"
        /\ phase[s] = "answer" => AnswerOnItsWay(s)
        /\ phase[s] \in {"attribution", "followups"} => ResultOnItsWay(s)
    /\ consumer[s] = "closed" => pc[s] = "done"
    /\ consumer[s] = "failed" =>
        /\ pc[s] \in {"produce", "done"}
        /\ phase[s] \in {"retrieval", "answer"}

\* The inductive invariant.
GenerationInv ==
    /\ TypeOK
    /\ LocksAreHeld
    /\ ModelIsMissingOrLoaded
    /\ \A s \in Streams : StreamInStep(s)
    /\ AnswersAreComplete

-----------------------------------------------------------------------------
\* How the tokens of an answer add up.

\* A token that is put, handed over or collected is counted once before and
\* once after.
LEMMA TokensMove ==
    ASSUME NEW coll \in Nat, NEW hand \in Nat, NEW queued \in Nat,
           NEW left \in Nat, NEW all \in Int
    PROVE  /\ AddUp(coll, hand, queued, left, all)
              => AddUp(coll, hand, queued + 1, left - 1, all)
           /\ AddUp(coll, 0, queued, left, all)
              => AddUp(coll, 1, queued - 1, left, all)
           /\ AddUp(coll, 1, queued, left, all)
              => AddUp(coll + 1, 0, queued, left, all)
BY DEF AddUp

\* With nothing on the way, all tokens are collected.
LEMMA TokensAllCollected ==
    ASSUME NEW coll \in Nat, NEW all \in Int, AddUp(coll, 0, 0, 0, all)
    PROVE  coll = all
BY DEF AddUp

\* While one is in hand, not all tokens are collected.
LEMMA TokensLeft ==
    ASSUME NEW coll \in Nat, NEW queued \in Nat, NEW left \in Nat,
           NEW all \in Int, AddUp(coll, 1, queued, left, all)
    PROVE  coll + 1 <= all
BY DEF AddUp

\* At the beginning, all tokens are still to be put.
LEMMA TokensNotPut ==
    ASSUME NEW all \in Nat
    PROVE  AddUp(0, 0, 0, all, all)
BY DEF AddUp

-----------------------------------------------------------------------------
\* What the outcomes of a model call change.

\* An exception moves the thread on and may leave items in its own queue.
LEMMA RaisesMoves ==
    ASSUME TypeOK, NEW t \in Threads, ModelRaises(t)
    PROVE  /\ \E step \in {"retrieved", "done"} :
                  /\ Goto(t, step)
                  /\ step = "retrieved" => t \in Streams
           /\ loop' \in {loop, Nobody}
           /\ queue' \in [Streams -> Seq(Items)]
           /\ answer' \in [Streams -> -1..MaxTokens]
           /\ \A s \in Streams : s # t => /\ queue'[s] = queue[s]
                                         /\ answer'[s] = answer[s]
<1> USE GenerationAssumption
<1>1. CASE t \notin Streams
  BY <1>1 DEF ModelRaises, Return, TypeOK, Goto
<1>2. CASE t \in Streams /\ phase[t] = "retrieval"
  BY <1>2 DEF ModelRaises, TypeOK
<1>3. CASE t \in Streams /\ phase[t] = "answer"
  <2>1. queue[t] \o <<Raised, End>> \in Seq(Items)
    BY <1>3 DEF TypeOK, Items
  <2>2. /\ Goto(t, "done") /\ loop' = loop
        /\ queue' = [queue EXCEPT ![t] = queue[t] \o <<Raised, End>>]
        /\ answer' = [answer EXCEPT ![t] = -1]
    BY <1>3 DEF ModelRaises
  <2>3. -1 \in -1..MaxTokens
    OBVIOUS
  <2>4. answer' \in [Streams -> -1..MaxTokens]
    BY <2>2, <2>3 DEF TypeOK
  <2>5. queue' \in [Streams -> Seq(Items)]
    BY <2>1, <2>2 DEF TypeOK
  <2>6. QED
    BY <2>2, <2>4, <2>5 DEF TypeOK
<1>4. CASE t \in Streams /\ phase[t] = "followups"
  <2>1. Append(queue[t], Raised) \in Seq(Items)
    BY <1>4 DEF TypeOK, Items
  <2>2. /\ Goto(t, "done") /\ UNCHANGED <<loop, answer>>
        /\ queue' = [queue EXCEPT ![t] = Append(queue[t], Raised)]
    BY <1>4 DEF ModelRaises, Put
  <2>3. QED
    BY <2>1, <2>2 DEF TypeOK
<1>5. QED
  BY <1>1, <1>2, <1>3, <1>4 DEF ModelRaises

\* So does an answer.
LEMMA AnswersMove ==
    ASSUME TypeOK, NEW t \in Threads, ModelAnswers(t)
    PROVE  /\ \E step \in {"retrieved", "produce", "done"} :
                  /\ Goto(t, step)
                  /\ step # "done" => t \in Streams
           /\ loop' \in {loop, Nobody}
           /\ queue' \in [Streams -> Seq(Items)]
           /\ rest' \in [Streams -> 0..MaxTokens]
           /\ answer' \in [Streams -> -1..MaxTokens]
           /\ \A s \in Streams : s # t => /\ queue'[s] = queue[s]
                                         /\ rest'[s] = rest[s]
                                         /\ answer'[s] = answer[s]
<1> USE GenerationAssumption
<1>1. CASE t \notin Streams
  BY <1>1 DEF ModelAnswers, Return, TypeOK, Goto
<1>2. CASE t \in Streams /\ phase[t] = "retrieval"
  BY <1>2 DEF ModelAnswers, TypeOK
<1>3. CASE t \in Streams /\ phase[t] = "answer"
  <2>1. /\ Goto(t, "produce") /\ UNCHANGED <<loop, queue>>
        /\ \E n \in 0..MaxTokens : /\ rest' = [rest EXCEPT ![t] = n]
                                 /\ answer' = [answer EXCEPT ![t] = n]
    BY <1>3 DEF ModelAnswers
  <2>2. 0..MaxTokens \subseteq -1..MaxTokens
    OBVIOUS
  <2>3. QED
    BY <1>3, <2>1, <2>2 DEF TypeOK
<1>4. CASE t \in Streams /\ phase[t] = "followups"
  <2>1. Append(queue[t], End) \in Seq(Items)
    BY <1>4 DEF TypeOK, Items
  <2>2. /\ Goto(t, "done") /\ UNCHANGED <<loop, rest, answer>>
        /\ queue' = [queue EXCEPT ![t] = Append(queue[t], End)]
    BY <1>4 DEF ModelAnswers, Put
  <2>3. QED
    BY <2>1, <2>2 DEF TypeOK
<1>5. QED
  BY <1>1, <1>2, <1>3, <1>4 DEF ModelAnswers

\* A thread moves to a step.
LEMMA GotoTyped ==
    ASSUME TypeOK, NEW t \in Threads, NEW step \in Steps, Goto(t, step)
    PROVE  /\ pc' \in [Threads -> Steps] /\ pc'[t] = step
           /\ \A u \in Threads : u # t => pc'[u] = pc[u]
BY DEF TypeOK, Goto

\* The coroutine only resumes with the end of a call when the thread is done.
LEMMA EndsFindThreadDone ==
    ASSUME GenerationInv, NEW s \in Streams,
           consumer[s] = "await", got[s] \in {End, Raised}
    PROVE  pc[s] = "done" /\ s \in Threads
BY DEF GenerationInv, StreamInStep, AnswerOnItsWay, ResultOnItsWay,
   NothingSent, TypeOK, Threads, None, End, Raised, Token

\* What the next phase does to the thread: it is left alone, or restarted.
LEMMA NextPhaseMoves ==
    ASSUME TypeOK, NEW s \in Streams, NextPhase(s)
    PROVE  /\ pc' = pc \/ \E step \in {"attribute", "fast"} : Goto(s, step)
           /\ phase' \in [Streams -> {"retrieval", "answer", "attribution",
                                     "followups"}]
           /\ consumer' \in [Streams -> {"idle", "retrieve", "await",
                                        "closed", "failed"}]
           /\ \A r \in Streams : r # s => /\ phase'[r] = phase[r]
                                         /\ consumer'[r] = consumer[r]
BY DEF NextPhase, TypeOK

\* One more token is collected while the answer has more of them.
LEMMA CollectedBounded ==
    ASSUME GenerationInv, NEW s \in Streams,
           phase[s] = "answer", consumer[s] = "await", got[s] = Token
    PROVE  collected[s] + 1 \in 0..MaxTokens
<1> USE DEF Token, None, End, Raised
<1>1. /\ AnswerOnItsWay(s) /\ collected[s] \in Nat /\ rest[s] \in Nat
      /\ answer[s] \in -1..MaxTokens /\ queue[s] \in Seq(Items)
  BY DEF GenerationInv, StreamInStep, TypeOK
<1>2. Len(queue[s]) \in Nat /\ (queue[s] # <<>> => Len(queue[s]) > 0)
  BY <1>1
<1>3. collected[s] + 1 <= answer[s]
  <2>1. InHand(s) = 1
    BY DEF InHand
  <2>2. CASE AddUp(collected[s], InHand(s), Len(queue[s]), rest[s], answer[s])
    BY <1>1, <1>2, <2>1, <2>2, TokensLeft
  <2>3. CASE /\ queue[s] # <<>>
             /\ AddUp(collected[s], InHand(s), Len(queue[s]) - 1, 0, answer[s])
    <3>1. Len(queue[s]) - 1 \in Nat
      BY <1>2, <2>3
    <3>2. QED
      BY <1>1, <2>1, <2>3, <3>1, TokensLeft
  <2>4. QED
    BY <1>1, <2>2, <2>3 DEF AnswerOnItsWay, NothingSent
<1>4. QED
  BY <1>1, <1>3, GenerationAssumption

-----------------------------------------------------------------------------
\* Types.

\* No step of a thread leaves the types.
LEMMA ThreadsTyped ==
    ASSUME GenerationInv, NEW t \in Threads, ThreadStep(t)
    PROVE  TypeOK'
<1> USE GenerationAssumption DEF Steps
<1>types. TypeOK
  BY DEF GenerationInv
<1>1. CASE FastPath(t)
  BY <1>1, <1>types DEF FastPath, WithModel, Goto, TypeOK, model, streams
<1>8. CASE Construct(t)
  BY <1>8, <1>types DEF Construct, Goto, TypeOK, streams
<1>9. CASE WarmUp(t)
  BY <1>9, <1>types DEF WarmUp, WithModel, Goto, TypeOK, streams
<1>2. CASE LockLoad(t) \/ Recheck(t) \/ LockInfer(t)
  BY <1>2, <1>types
     DEF LockLoad, Recheck, LockInfer, WithModel, Goto, TypeOK, model, streams
<1>3. CASE LoadFails(t) \/ InferFails(t)
  <2>1. ModelRaises(t) /\ UNCHANGED StreamsButQueue
        /\ UNCHANGED <<instance, loads>> /\ loadError' \in {loadError, TRUE}
        /\ loadLock' \in {loadLock, Nobody}
        /\ inferLock' \in {inferLock, Nobody}
    BY <1>3 DEF LoadFails, InferFails
  <2>2. /\ pc' \in [Threads -> Steps] /\ loop' \in {loop, Nobody}
        /\ queue' \in [Streams -> Seq(Items)]
        /\ answer' \in [Streams -> -1..MaxTokens]
    BY <2>1, <1>types, RaisesMoves, GotoTyped
  <2>3. QED
    BY <2>1, <2>2, <1>types DEF TypeOK, StreamsButQueue
<1>4. CASE Infer(t)
  BY <1>4, <1>types, AnswersMove, GotoTyped, SMTT(30) DEF Infer, TypeOK
<1>5. CASE t \in Streams /\ Produce(t)
  <2>1. \A item \in Items : Append(queue[t], item) \in Seq(Items)
    BY <1>5, <1>types DEF TypeOK
  <2>2. Token \in Items /\ End \in Items
    BY DEF Items
  <2>3. queue' \in [Streams -> Seq(Items)]
    BY <1>5, <2>1, <2>2, <1>types, ZenonT(60) DEF Produce, Put, TypeOK
  <2>4. rest' \in [Streams -> 0..MaxTokens]
    <3>1. rest[t] \in 0..MaxTokens
      BY <1>5, <1>types DEF TypeOK
    <3>2. rest[t] > 0 => rest[t] - 1 \in 0..MaxTokens
      BY <3>1
    <3>3. CASE rest' = rest
      BY <3>3, <1>types DEF TypeOK
    <3>4. CASE rest[t] > 0 /\ rest' = [rest EXCEPT ![t] = rest[t] - 1]
      BY <1>5, <3>2, <3>4, <1>types DEF TypeOK
    <3>5. QED
      BY <1>5, <3>3, <3>4 DEF Produce
  <2>5. QED
    BY <1>5, <2>3, <2>4, <1>types DEF Produce, Goto, TypeOK, model
<1>6. CASE t \in Streams /\ Attribute(t)
  <2>1. \A item \in Items : Append(queue[t], item) \in Seq(Items)
    BY <1>6, <1>types DEF TypeOK
  <2>2. Raised \in Items /\ End \in Items
    BY DEF Items
  <2>3. QED
    BY <1>6, <2>1, <2>2, <1>types DEF Attribute, Put, Goto, TypeOK, model
<1>7. QED
  BY <1>1, <1>2, <1>3, <1>4, <1>5, <1>6, <1>8, <1>9 DEF ThreadStep

\* Nor does a step of a coroutine or the start of a request.
LEMMA CoroutinesTyped ==
    ASSUME GenerationInv, NEW s \in Streams,
           StartStream(s) \/ ConsumerStep(s) \/ Disconnect(s)
    PROVE  TypeOK'
<1> USE GenerationAssumption DEF Steps
<1>types. TypeOK
  BY DEF GenerationInv
<1>thread. s \in Threads
  BY DEF Threads
<1>1. CASE StartStream(s) \/ Disconnect(s)
  BY <1>1, <1>types, <1>thread
     DEF StartStream, Disconnect, Goto, TypeOK, model
<1>2. CASE EndRetrieval(s)
  BY <1>2, <1>types, <1>thread DEF EndRetrieval, Goto, TypeOK, model
<1>3. CASE TakeExecutorThread(s)
  BY <1>3, <1>types DEF TakeExecutorThread, TypeOK, model
<1>4. CASE GetItem(s)
  <2>1. Head(queue[s]) \in Items /\ Tail(queue[s]) \in Seq(Items)
    BY <1>4, <1>types DEF GetItem, TypeOK
  <2>2. QED
    BY <1>4, <2>1, <1>types DEF GetItem, TypeOK, model
<1>5. CASE ReceiveToken(s)
  <2>1. collected' \in [Streams -> 0..MaxTokens]
    BY <1>5, <1>types, CollectedBounded DEF ReceiveToken, Resume, TypeOK
  <2>2. QED
    BY <1>5, <2>1, <1>types DEF ReceiveToken, Resume, GiveUp, TypeOK, model
<1>6. CASE ReceiveEnd(s)
  BY <1>6, <1>types, <1>thread, NextPhaseMoves, GotoTyped, ZenonT(60)
     DEF ReceiveEnd, Resume, TypeOK, model
<1>7. CASE ReceiveException(s)
  <2>1. CASE phase[s] = "answer"
    BY <1>7, <2>1, <1>types DEF ReceiveException, Resume, GiveUp, TypeOK, model
  <2>2. CASE phase[s] # "answer"
    BY <1>7, <2>2, <1>types, <1>thread, NextPhaseMoves, GotoTyped, ZenonT(60)
       DEF ReceiveException, Resume, TypeOK, model
  <2>3. QED
    BY <2>1, <2>2
<1>8. QED
  BY <1>1, <1>2, <1>3, <1>4, <1>5, <1>6, <1>7 DEF ConsumerStep

\* Nor does the start of a blocking request.
LEMMA TypePreserved ==
    ASSUME GenerationInv, Next
    PROVE  TypeOK'
<1>1. ASSUME NEW t \in LoopCallers, StartLoopCall(t)
      PROVE  TypeOK'
  BY <1>1 DEF GenerationInv, StartLoopCall, Goto, TypeOK, model, streams, Steps,
     Threads
<1>2. QED
  BY <1>1, ThreadsTyped, CoroutinesTyped DEF Next

-----------------------------------------------------------------------------
\* The locks and the model.

\* A step that moves one thread outside both locks keeps their holders.
LEMMA MovesOutsideLocks ==
    ASSUME GenerationInv, NEW t \in Threads, NEW step, Goto(t, step),
           pc[t] \in {"idle", "fast", "retrieved", "produce", "attribute",
                     "done"},
           step \in {"fast", "lockLoad", "lockInfer", "attribute", "done"},
           UNCHANGED model
    PROVE  LocksAreHeld' /\ ModelIsMissingOrLoaded'
<1>1. \A u \in Threads : pc'[u] = IF u = t THEN step ELSE pc[u]
  BY DEF GenerationInv, TypeOK, Goto
<1>2. QED
  BY <1>1 DEF GenerationInv, LocksAreHeld, ModelIsMissingOrLoaded, model

\* A step that leaves a lock on the way out of it.
LEMMA LeavesLoadLock ==
    ASSUME GenerationInv, NEW t \in Threads, NEW step, Goto(t, step),
           pc[t] \in {"recheck", "construct", "warmup"},
           step \in {"retrieved", "done", "lockInfer"},
           loadLock' = Nobody, UNCHANGED <<instance, inferLock, loads>>
    PROVE  LocksAreHeld' /\ ModelIsMissingOrLoaded'
<1>1. \A u \in Threads : pc'[u] = IF u = t THEN step ELSE pc[u]
  BY DEF GenerationInv, TypeOK, Goto
<1>2. QED
  BY <1>1, GenerationAssumption
     DEF GenerationInv, LocksAreHeld, ModelIsMissingOrLoaded

\* The same for the lock of the inference.
LEMMA LeavesInferLock ==
    ASSUME GenerationInv, NEW t \in Threads, NEW step, Goto(t, step),
           pc[t] = "infer", step \in {"retrieved", "produce", "done"},
           inferLock' = Nobody, UNCHANGED <<instance, loadLock, loads>>
    PROVE  LocksAreHeld' /\ ModelIsMissingOrLoaded'
<1>1. \A u \in Threads : pc'[u] = IF u = t THEN step ELSE pc[u]
  BY DEF GenerationInv, TypeOK, Goto
<1>2. QED
  BY <1>1, GenerationAssumption
     DEF GenerationInv, LocksAreHeld, ModelIsMissingOrLoaded

\* Both locks are held where the code says, and only the thread that found no
\* model inside the lock constructs one.
LEMMA ThreadsKeepLocks ==
    ASSUME GenerationInv, NEW t \in Threads, ThreadStep(t)
    PROVE  LocksAreHeld' /\ ModelIsMissingOrLoaded'
<1> USE GenerationAssumption
<1>inv. TypeOK /\ LocksAreHeld /\ ModelIsMissingOrLoaded
  BY DEF GenerationInv
<1>1. CASE FastPath(t)
  BY <1>1, MovesOutsideLocks DEF FastPath, WithModel
<1>2. CASE LockLoad(t)
  BY <1>2, <1>inv DEF LockLoad, Goto, TypeOK, LocksAreHeld,
     ModelIsMissingOrLoaded
<1>3. CASE Recheck(t)
  <2>1. CASE instance
    BY <1>3, <2>1, LeavesLoadLock DEF Recheck, WithModel
  <2>2. CASE ~instance
    BY <1>3, <2>2, <1>inv DEF Recheck, Goto, TypeOK, LocksAreHeld,
       ModelIsMissingOrLoaded
  <2>3. QED
    BY <2>1, <2>2
<1>4. CASE LoadFails(t)
  <2>1. PICK step \in {"retrieved", "done"} : Goto(t, step)
    BY <1>4, <1>inv, RaisesMoves DEF LoadFails
  <2>2. QED
    BY <1>4, <2>1, LeavesLoadLock DEF LoadFails
<1>5. CASE Construct(t)
  <2>1. \A u \in Threads : pc'[u] = IF u = t THEN "warmup" ELSE pc[u]
    BY <1>5, <1>inv DEF Construct, Goto, TypeOK
  <2>2. \A u \in Threads : pc[u] = "construct" => u = t
    BY <1>5, <1>inv DEF Construct, LocksAreHeld
  <2>3. QED
    BY <1>5, <2>1, <2>2, <1>inv DEF Construct, LocksAreHeld,
       ModelIsMissingOrLoaded
<1>6. CASE WarmUp(t)
  BY <1>6, LeavesLoadLock DEF WarmUp, WithModel
<1>7. CASE LockInfer(t)
  BY <1>7, <1>inv DEF LockInfer, Goto, TypeOK, LocksAreHeld,
     ModelIsMissingOrLoaded
<1>8. CASE Infer(t)
  <2>1. PICK step \in {"retrieved", "produce", "done"} : Goto(t, step)
    BY <1>8, <1>inv, AnswersMove DEF Infer
  <2>2. QED
    BY <1>8, <2>1, LeavesInferLock DEF Infer
<1>9. CASE InferFails(t)
  <2>1. PICK step \in {"retrieved", "done"} : Goto(t, step)
    BY <1>9, <1>inv, RaisesMoves DEF InferFails
  <2>2. QED
    BY <1>9, <2>1, LeavesInferLock DEF InferFails
<1>10. CASE t \in Streams /\ Produce(t)
  <2>1. CASE pc' = pc
    BY <1>10, <2>1, <1>inv
       DEF Produce, model, LocksAreHeld, ModelIsMissingOrLoaded
  <2>2. CASE Goto(t, "done")
    BY <1>10, <2>2, MovesOutsideLocks DEF Produce
  <2>3. QED
    BY <1>10, <2>1, <2>2 DEF Produce
<1>11. CASE t \in Streams /\ Attribute(t)
  BY <1>11, MovesOutsideLocks DEF Attribute
<1>12. QED
  BY <1>1, <1>2, <1>3, <1>4, <1>5, <1>6, <1>7, <1>8, <1>9, <1>10, <1>11
     DEF ThreadStep

\* A coroutine starts threads, but only idle ones.
LEMMA CoroutinesKeepLocks ==
    ASSUME GenerationInv, NEW s \in Streams,
           StartStream(s) \/ ConsumerStep(s) \/ Disconnect(s)
    PROVE  LocksAreHeld' /\ ModelIsMissingOrLoaded'
<1>inv. TypeOK /\ LocksAreHeld /\ ModelIsMissingOrLoaded /\ s \in Threads
  BY DEF GenerationInv, Threads
<1>1. CASE UNCHANGED <<model, pc>>
  BY <1>1, <1>inv DEF model, LocksAreHeld, ModelIsMissingOrLoaded
<1>2. CASE StartStream(s)
  <2>1. pc[s] = "idle"
    BY <1>2 DEF StartStream, GenerationInv, StreamInStep
  <2>2. CASE Goto(s, "fast")
    BY <1>2, <2>1, <2>2, <1>inv, MovesOutsideLocks DEF StartStream
  <2>3. CASE Goto(s, "retrieved")
    BY <1>2, <2>1, <2>3, <1>inv
       DEF StartStream, Goto, TypeOK, model, LocksAreHeld,
           ModelIsMissingOrLoaded
  <2>4. QED
    BY <1>2, <2>2, <2>3 DEF StartStream
<1>3. CASE EndRetrieval(s)
  <2>1. PICK step \in {"fast", "done"} : Goto(s, step)
    BY <1>3 DEF EndRetrieval
  <2>2. QED
    BY <1>3, <2>1, <1>inv, MovesOutsideLocks DEF EndRetrieval
<1>4. CASE ReceiveEnd(s) \/ ReceiveException(s)
  <2>1. pc[s] = "done"
    BY <1>4, EndsFindThreadDone DEF ReceiveEnd, ReceiveException, Resume
  <2>2. CASE NextPhase(s)
    <3>1. CASE pc' = pc
      BY <1>1, <1>4, <3>1 DEF ReceiveEnd, ReceiveException
    <3>2. ASSUME NEW step \in {"attribute", "fast"}, Goto(s, step)
          PROVE  LocksAreHeld' /\ ModelIsMissingOrLoaded'
      BY <1>4, <2>1, <3>2, <1>inv, MovesOutsideLocks
         DEF ReceiveEnd, ReceiveException
    <3>3. QED
      BY <2>2, <3>1, <3>2, <1>inv, NextPhaseMoves
  <2>3. CASE ~NextPhase(s)
    BY <1>1, <1>4, <2>3 DEF ReceiveEnd, ReceiveException
  <2>4. QED
    BY <2>2, <2>3
<1>5. CASE TakeExecutorThread(s) \/ GetItem(s) \/ ReceiveToken(s)
           \/ Disconnect(s)
  BY <1>1, <1>5 DEF TakeExecutorThread, GetItem, ReceiveToken, Disconnect
<1>6. QED
  BY <1>2, <1>3, <1>4, <1>5 DEF ConsumerStep

\* So every step keeps the locks and the one model.
LEMMA LocksPreserved ==
    ASSUME GenerationInv, Next
    PROVE  LocksAreHeld' /\ ModelIsMissingOrLoaded'
<1>1. ASSUME NEW t \in LoopCallers, StartLoopCall(t)
      PROVE  LocksAreHeld' /\ ModelIsMissingOrLoaded'
  BY <1>1, MovesOutsideLocks DEF StartLoopCall, Threads
<1>2. QED
  BY <1>1, ThreadsKeepLocks, CoroutinesKeepLocks DEF Next

-----------------------------------------------------------------------------
\* Streams and their threads.

Untouched(s) ==
    /\ UNCHANGED <<pc[s], phase[s], consumer[s], queue[s], got[s], rest[s],
                   answer[s], collected[s], cancel[s]>>
    /\ s \in executing' <=> s \in executing

InStep(s) == StreamInStep(s) /\ (phase[s] \notin {"retrieval", "answer"}
                                    => collected[s] = answer[s])

\* What nobody touches stays in step.
LEMMA UntouchedInStep ==
    ASSUME NEW s \in Streams, InStep(s), Untouched(s)
    PROVE  InStep(s)'
BY DEF InStep, StreamInStep, Untouched, AnswerOnItsWay, ResultOnItsWay,
   NothingSent, InHand, TokensUpTo

\* A thread that asks the model for a stream has sent nothing yet.
LEMMA AskingHasSentNothing ==
    ASSUME TypeOK, NEW s \in Streams, InStep(s), pc[s] \in Asking
    PROVE  /\ NothingSent(s)
           /\ consumer[s] \in {"retrieve", "await"}
           /\ phase[s] = "retrieval" <=> consumer[s] = "retrieve"
           /\ phase[s] \in {"retrieval", "answer"} => collected[s] = 0
BY DEF TypeOK, InStep, StreamInStep, AnswerOnItsWay, ResultOnItsWay, Asking

\* On its way to the answer of the model, the thread of a stream stays in step.
LEMMA AskingInStep ==
    ASSUME TypeOK, NEW s \in Streams, InStep(s), pc[s] \in Asking,
           pc'[s] \in Asking, UNCHANGED streams
    PROVE  InStep(s)'
BY AskingHasSentNothing
   DEF TypeOK, InStep, StreamInStep, AnswerOnItsWay, ResultOnItsWay,
       NothingSent, streams

\* An exception of the model reaches the coroutine as the only item, before
\* the end of an answer.
LEMMA RaisesInStep ==
    ASSUME TypeOK, NEW s \in Streams, InStep(s), pc[s] \in Asking,
           ModelRaises(s), UNCHANGED StreamsButQueue
    PROVE  InStep(s)'
<1> USE DEF Asking
<1>1. s \in Threads
  BY DEF Threads
<1>2. CASE phase[s] = "retrieval"
  BY <1>1, <1>2, AskingHasSentNothing
     DEF ModelRaises, Goto, TypeOK, InStep, StreamInStep, NothingSent,
         StreamsButQueue
<1>3. CASE phase[s] = "answer"
  <2>q. queue[s] = <<>> /\ queue'[s] = queue[s] \o <<Raised, End>>
    BY <1>1, <1>3, AskingHasSentNothing DEF ModelRaises, TypeOK, NothingSent
  <2>1. /\ pc'[s] = "done" /\ queue'[s] = <<Raised, End>>
        /\ got'[s] = None /\ consumer'[s] = "await" /\ phase'[s] = "answer"
    BY <1>1, <1>3, <2>q, AskingHasSentNothing
       DEF ModelRaises, Goto, TypeOK, NothingSent, StreamsButQueue
  <2>2. AnswerOnItsWay(s)'
    BY <2>1 DEF AnswerOnItsWay
  <2>3. QED
    BY <2>1, <2>2 DEF InStep, StreamInStep, StreamsButQueue
<1>4. CASE phase[s] = "followups"
  <2>1. /\ pc'[s] = "done" /\ queue'[s] = <<Raised>> /\ got'[s] = None
        /\ consumer'[s] = "await" /\ phase'[s] = "followups"
        /\ answer'[s] = answer[s]
    BY <1>1, <1>4, AskingHasSentNothing
       DEF ModelRaises, Put, Goto, TypeOK, NothingSent, StreamsButQueue
  <2>2. ResultOnItsWay(s)'
    BY <2>1 DEF ResultOnItsWay
  <2>3. QED
    BY <2>1, <2>2 DEF InStep, StreamInStep, StreamsButQueue
<1>5. QED
  BY <1>2, <1>3, <1>4 DEF ModelRaises

\* An answer is produced from the first token on, with nothing sent before it.
LEMMA AnswersInStep ==
    ASSUME TypeOK, NEW s \in Streams, InStep(s), Infer(s)
    PROVE  InStep(s)'
<1>1. s \in Threads /\ pc[s] \in Asking
  BY DEF Threads, Asking, Infer
<1>2. CASE phase[s] = "retrieval"
  BY <1>1, <1>2, AskingHasSentNothing
     DEF Infer, ModelAnswers, Goto, TypeOK, InStep, StreamInStep, NothingSent
<1>3. CASE phase[s] = "answer"
  <2>1. /\ pc'[s] = "produce" /\ queue'[s] = <<>>
        /\ got'[s] = None /\ consumer'[s] = "await" /\ phase'[s] = "answer"
        /\ collected'[s] = 0 /\ rest'[s] = answer'[s] /\ rest'[s] \in Nat
    BY <1>1, <1>3, AskingHasSentNothing, GenerationAssumption
       DEF Infer, ModelAnswers, Goto, TypeOK, NothingSent
  <2>2. AnswerOnItsWay(s)'
    <3>1. InHand(s)' = 0 /\ Len(queue'[s]) = 0
      BY <2>1 DEF InHand, None, Token
    <3>2. TokensUpTo(s, Len(queue[s]))'
      BY <3>1 DEF TokensUpTo
    <3>3. QED
      BY <2>1, <3>1, <3>2, TokensNotPut DEF AnswerOnItsWay
  <2>3. QED
    BY <2>1, <2>2 DEF InStep, StreamInStep, Infer
<1>4. CASE phase[s] = "followups"
  <2>1. /\ pc'[s] = "done" /\ queue'[s] = <<End>> /\ got'[s] = None
        /\ consumer'[s] = "await" /\ phase'[s] = "followups"
        /\ answer'[s] = answer[s]
    BY <1>1, <1>4, AskingHasSentNothing
       DEF Infer, ModelAnswers, Put, Goto, TypeOK, NothingSent
  <2>2. ResultOnItsWay(s)'
    BY <2>1 DEF ResultOnItsWay
  <2>3. QED
    BY <2>1, <2>2 DEF InStep, StreamInStep, Infer
<1>5. QED
  BY <1>2, <1>3, <1>4 DEF Infer, ModelAnswers

\* Each token put is one less to put; the end is put after the last.
LEMMA ProduceInStep ==
    ASSUME TypeOK, NEW s \in Streams, InStep(s), Produce(s)
    PROVE  InStep(s)'
<1>1. /\ s \in Threads /\ queue[s] \in Seq(Items) /\ rest[s] \in Nat
      /\ Len(queue[s]) \in Nat /\ collected[s] \in Nat
      /\ answer[s] \in Int
  BY GenerationAssumption DEF Threads, TypeOK
<1>2. /\ UNCHANGED <<phase[s], consumer[s], got[s], answer[s], collected[s],
                     cancel[s]>>
      /\ executing' = executing /\ pc[s] = "produce"
  BY DEF Produce
<1>3. CASE consumer[s] = "await"
  <2>cancel. phase[s] = "answer" /\ ~cancel[s]
    BY <1>2, <1>3 DEF InStep, StreamInStep, ResultOnItsWay, Asking, TypeOK
  <2>1. /\ got[s] \in {None, Token}
        /\ TokensUpTo(s, Len(queue[s]))
        /\ AddUp(collected[s], InHand(s), Len(queue[s]), rest[s], answer[s])
    BY <1>2, <1>3, <2>cancel DEF InStep, StreamInStep, AnswerOnItsWay, Asking
  <2>2. CASE rest[s] > 0
    <3>1. /\ queue'[s] = Append(queue[s], Token) /\ rest'[s] = rest[s] - 1
          /\ pc'[s] = "produce"
      BY <2>cancel, <2>2, <1>1, <1>2 DEF Produce, Put, TypeOK
    <3>2. /\ Len(queue'[s]) = Len(queue[s]) + 1
          /\ \A i \in 1..Len(queue'[s]) : queue'[s][i] = Token
      BY <3>1, <2>1, <1>1 DEF TokensUpTo
    <3>3. InHand(s)' = InHand(s) /\ InHand(s) \in Nat
      BY <1>2 DEF InHand
    <3>4. AddUp(collected[s], InHand(s), Len(queue[s]), rest[s], answer[s])'
      <4>1. AddUp(collected[s], InHand(s), Len(queue[s]) + 1, rest[s] - 1,
                  answer[s])
        BY <2>1, <3>3, <1>1, TokensMove
      <4>2. QED
        BY <4>1, <1>2, <3>1, <3>2, <3>3
    <3>5. AnswerOnItsWay(s)'
      BY <3>1, <3>2, <3>4, <2>1, <1>2 DEF AnswerOnItsWay, TokensUpTo
    <3>6. QED
      BY <3>1, <3>5, <2>cancel, <1>2, <1>3 DEF InStep, StreamInStep
  <2>3. CASE rest[s] = 0
    <3>1. queue'[s] = Append(queue[s], End) /\ pc'[s] = "done"
      BY <2>3, <1>1, <1>2 DEF Produce, Put, Goto, TypeOK
    <3>2. /\ Len(queue'[s]) = Len(queue[s]) + 1 /\ queue'[s] # <<>>
          /\ queue'[s][Len(queue'[s])] = End
          /\ \A i \in 1..Len(queue'[s]) - 1 : queue'[s][i] = Token
      BY <3>1, <2>1, <1>1 DEF TokensUpTo
    <3>h. InHand(s)' = InHand(s) /\ Len(queue'[s]) - 1 = Len(queue[s])
      BY <1>1, <1>2, <3>2 DEF InHand
    <3>3. AnswerOnItsWay(s)'
      BY <3>1, <3>2, <3>h, <2>1, <2>3, <1>2 DEF AnswerOnItsWay, TokensUpTo
    <3>4. QED
      BY <3>1, <3>3, <2>cancel, <1>2, <1>3 DEF InStep, StreamInStep
  <2>4. QED
    BY <2>2, <2>3, <1>1
<1>4. CASE consumer[s] # "await"
  <2>1. consumer[s] = "failed"
    BY <1>2, <1>4 DEF InStep, StreamInStep, TypeOK, Asking
  <2>2. pc'[s] \in {"produce", "done"}
    BY <1>1, <1>2 DEF Produce, Goto, TypeOK
  <2>3. QED
    BY <1>2, <2>1, <2>2 DEF InStep, StreamInStep
<1>5. QED
  BY <1>3, <1>4

\* A background call that does not ask the model ends in one item.
LEMMA AttributeInStep ==
    ASSUME TypeOK, NEW s \in Streams, InStep(s), Attribute(s)
    PROVE  InStep(s)'
<1>1. /\ s \in Threads /\ pc[s] = "attribute"
      /\ consumer[s] = "await" /\ phase[s] \in {"attribution", "followups"}
      /\ ~cancel[s] /\ NothingSent(s) /\ collected[s] = answer[s]
  BY DEF Attribute, TypeOK, Threads, InStep, StreamInStep, AnswerOnItsWay,
     ResultOnItsWay, Asking
<1>2. pc'[s] = "done" /\ queue'[s] \in {<<End>>, <<Raised>>}
  BY <1>1 DEF Attribute, Put, Goto, TypeOK, NothingSent
<1>3. ResultOnItsWay(s)'
  BY <1>1, <1>2 DEF Attribute, ResultOnItsWay, NothingSent
<1>4. QED
  BY <1>1, <1>3 DEF Attribute, InStep, StreamInStep

\* The other streams do not notice a step of a thread.
LEMMA ThreadsInStep ==
    ASSUME GenerationInv, \A r \in Streams : InStep(r),
           NEW t \in Threads, ThreadStep(t), NEW s \in Streams
    PROVE  InStep(s)'
<1> USE GenerationAssumption
<1>inv. TypeOK /\ InStep(s) /\ s \in Threads
  BY DEF GenerationInv, Threads
<1>1. CASE FastPath(t) \/ LockLoad(t) \/ Recheck(t) \/ Construct(t)
           \/ WarmUp(t) \/ LockInfer(t)
  <2>1. UNCHANGED streams
    BY <1>1 DEF FastPath, LockLoad, Recheck, Construct, WarmUp, LockInfer
  <2>2. CASE s # t
    <3>1. pc'[s] = pc[s]
      BY <1>1, <2>2, <1>inv
         DEF FastPath, LockLoad, Recheck, Construct, WarmUp, LockInfer,
             WithModel, Goto, TypeOK
    <3>2. QED
      BY <2>1, <3>1, <1>inv, UntouchedInStep DEF Untouched, streams
  <2>3. CASE s = t
    <3>1. pc[s] \in Asking /\ pc'[s] \in Asking
      BY <1>1, <2>3, <1>inv
         DEF FastPath, LockLoad, Recheck, Construct, WarmUp, LockInfer,
             WithModel, Goto, TypeOK, Asking
    <3>2. QED
      BY <2>1, <3>1, <1>inv, AskingInStep
  <2>4. QED
    BY <2>2, <2>3
<1>2. CASE LoadFails(t) \/ InferFails(t)
  <2>1. ModelRaises(t) /\ UNCHANGED StreamsButQueue /\ pc[t] \in Asking
    BY <1>2 DEF LoadFails, InferFails, Asking
  <2>2. CASE s # t
    <3>1. pc'[s] = pc[s] /\ queue'[s] = queue[s] /\ answer'[s] = answer[s]
      <4>1. /\ \E step \in Steps : Goto(t, step)
            /\ \A r \in Streams : r # t => /\ queue'[r] = queue[r]
                                          /\ answer'[r] = answer[r]
        BY <2>1, <1>inv, RaisesMoves DEF Steps
      <4>2. QED
        BY <4>1, <2>2, <1>inv, GotoTyped
    <3>2. QED
      BY <2>1, <3>1, <1>inv, UntouchedInStep DEF Untouched, StreamsButQueue
  <2>3. CASE s = t
    BY <2>1, <2>3, <1>inv, RaisesInStep
  <2>4. QED
    BY <2>2, <2>3
<1>3. CASE Infer(t)
  <2>1. CASE s # t
    <3>1. /\ pc'[s] = pc[s] /\ queue'[s] = queue[s]
          /\ rest'[s] = rest[s] /\ answer'[s] = answer[s]
      <4>1. /\ \E step \in Steps : Goto(t, step)
            /\ \A r \in Streams : r # t => /\ queue'[r] = queue[r]
                                          /\ rest'[r] = rest[r]
                                          /\ answer'[r] = answer[r]
        BY <1>3, <1>inv, AnswersMove DEF Infer, Steps
      <4>2. QED
        BY <4>1, <2>1, <1>inv, GotoTyped
    <3>2. QED
      BY <1>3, <3>1, <1>inv, UntouchedInStep DEF Untouched, Infer
  <2>2. CASE s = t
    BY <1>3, <2>2, <1>inv, AnswersInStep
  <2>3. QED
    BY <2>1, <2>2
<1>4. CASE t \in Streams /\ (Produce(t) \/ Attribute(t))
  <2>1. CASE s # t
    <3>1. pc'[s] = pc[s] /\ queue'[s] = queue[s] /\ rest'[s] = rest[s]
      BY <1>4, <2>1, <1>inv DEF Produce, Attribute, Put, Goto, TypeOK
    <3>2. QED
      BY <1>4, <3>1, <1>inv, UntouchedInStep DEF Untouched, Produce, Attribute
  <2>2. CASE s = t
    BY <1>4, <2>2, <1>inv, ProduceInStep, AttributeInStep
  <2>3. QED
    BY <2>1, <2>2
<1>5. QED
  BY <1>1, <1>2, <1>3, <1>4 DEF ThreadStep

\* What a queue loses when its first item is taken.
LEMMA FirstItemTaken ==
    ASSUME NEW S, NEW q \in Seq(S), q # <<>>
    PROVE  /\ Head(q) = q[1] /\ Len(q) \in Nat \ {0}
           /\ Len(Tail(q)) = Len(q) - 1
           /\ \A i \in 1..Len(q) - 1 : Tail(q)[i] = q[i + 1]
           /\ Len(q) = 1 => Tail(q) = <<>>
           /\ Len(q) > 1 => Tail(q) # <<>>
           /\ Len(q) = 1 \/ Len(q) > 1
<1>1. Len(q) \in Nat \ {0} /\ Head(q) = q[1]
  OBVIOUS
<1>2. Tail(q) \in Seq(S) /\ Len(Tail(q)) = Len(q) - 1
  OBVIOUS
<1>3. \A i \in 1..Len(q) - 1 : Tail(q)[i] = q[i + 1]
  BY <1>1
<1>e. \A p \in Seq(S) : p = <<>> <=> Len(p) = 0
  BY EmptySeq
<1>n. \A n \in Nat \ {0} : n - 1 = 0 <=> n = 1
  OBVIOUS
<1>4. Len(q) = 1 => Tail(q) = <<>>
  BY <1>1, <1>2, <1>e, <1>n
<1>5. Len(q) > 1 => Tail(q) # <<>>
  <2>1. \A n \in Nat : n > 1 => n - 1 # 0
    OBVIOUS
  <2>2. Len(q) > 1 => Len(Tail(q)) # 0
    BY <2>1, <1>1, <1>2
  <2>3. QED
    BY <2>2, <1>2, <1>e
<1>6. \A n \in Nat \ {0} : n = 1 \/ n > 1
  OBVIOUS
<1>7. QED
  BY <1>1, <1>2, <1>3, <1>4, <1>5, <1>6

\* The coroutine is given the first item; what is left of the answer is behind
\* it in the queue.
LEMMA GetItemInStep ==
    ASSUME TypeOK, NEW s \in Streams, InStep(s), GetItem(s)
    PROVE  InStep(s)'
<1> DEFINE q == queue[s]
           r == queue'[s]
<1>1. /\ s \in Threads /\ q \in Seq(Items) /\ q # <<>>
      /\ collected[s] \in Nat /\ rest[s] \in Nat /\ answer[s] \in Int
  BY GenerationAssumption DEF Threads, TypeOK, GetItem
<1>2. /\ consumer[s] = "await" /\ got[s] = None /\ s \notin executing'
      /\ UNCHANGED <<pc[s], phase[s], consumer[s], rest[s], answer[s],
                     collected[s]>>
      /\ got'[s] = Head(q) /\ r = Tail(q)
  BY DEF GetItem, InStep, StreamInStep, TypeOK
<1>c. cancel' = cancel /\ ~cancel[s] /\ phase[s] # "retrieval"
  BY <1>2 DEF GetItem, InStep, StreamInStep
<1>3. /\ got'[s] = q[1] /\ Len(q) \in Nat \ {0} /\ Len(r) = Len(q) - 1
      /\ \A i \in 1..Len(q) - 1 : r[i] = q[i + 1]
      /\ Len(q) = 1 => r = <<>>
      /\ Len(q) > 1 => r # <<>>
      /\ Len(q) = 1 \/ Len(q) > 1
  BY <1>1, <1>2, FirstItemTaken
<1>h. InHand(s) = 0
  BY <1>2 DEF InHand, None, Token
<1>4. CASE phase[s] = "answer"
  <2>0. SUFFICES AnswerOnItsWay(s)'
    BY <1>2, <1>c, <1>4 DEF InStep, StreamInStep
  <2>1. CASE /\ pc[s] = "produce" /\ TokensUpTo(s, Len(q))
             /\ AddUp(collected[s], InHand(s), Len(q), rest[s], answer[s])
    <3>1. got'[s] = Token /\ InHand(s)' = 1
      BY <2>1, <1>3 DEF InHand, TokensUpTo
    <3>2. \A i \in 1..Len(r) : r[i] = Token
      BY <2>1, <1>3 DEF TokensUpTo
    <3>3. AddUp(collected[s], 1, Len(q) - 1, rest[s], answer[s])
      BY <2>1, <1>h, <1>1, <1>3, TokensMove
    <3>4. QED
      BY <2>1, <3>1, <3>2, <3>3, <1>2, <1>3 DEF AnswerOnItsWay, TokensUpTo
  <2>2. CASE /\ pc[s] = "done" /\ TokensUpTo(s, Len(q) - 1)
             /\ q[Len(q)] = End
             /\ AddUp(collected[s], InHand(s), Len(q) - 1, 0, answer[s])
    <3>1. CASE Len(q) = 1
      <4>1. AddUp(collected[s], 0, 0, 0, answer[s])
        BY <2>2, <1>h, <3>1
      <4>2. collected'[s] = answer'[s] /\ got'[s] = End /\ r = <<>>
        BY <4>1, <2>2, <3>1, <1>1, <1>2, <1>3, TokensAllCollected
      <4>3. QED
        BY <2>2, <4>2, <1>2 DEF AnswerOnItsWay
    <3>2. CASE Len(q) > 1
      <4>1. got'[s] = Token /\ InHand(s)' = 1 /\ r # <<>>
        BY <2>2, <3>2, <1>3 DEF InHand, TokensUpTo
      <4>2. Len(r) \in Nat \ {0} /\ Len(r) + 1 = Len(q)
        BY <3>2, <1>3
      <4>3. r[Len(r)] = End /\ \A i \in 1..Len(r) - 1 : r[i] = Token
        <5>1. \A i \in 1..Len(r) : r[i] = q[i + 1]
          BY <1>3
        <5>2. Len(r) \in 1..Len(r) /\ r[Len(r)] = q[Len(q)]
          BY <5>1, <4>2
        <5>3. \A i \in 1..Len(r) - 1 : i \in 1..Len(r)
                                     /\ i + 1 \in 1..Len(q) - 1
          BY <4>2
        <5>4. QED
          BY <5>1, <5>2, <5>3, <2>2 DEF TokensUpTo
      <4>4. AddUp(collected[s], 1, Len(r) - 1, 0, answer[s])
        <5>1. AddUp(collected[s], 0, Len(r), 0, answer[s])
          BY <2>2, <1>h, <1>3
        <5>2. QED
          BY <5>1, <4>2, <1>1, TokensMove
      <4>5. QED
        BY <2>2, <4>1, <4>3, <4>4, <1>2 DEF AnswerOnItsWay, TokensUpTo
    <3>3. QED
      BY <3>1, <3>2, <1>3
  <2>3. CASE pc[s] = "done" /\ q = <<Raised, End>>
    BY <2>3, <1>2 DEF AnswerOnItsWay
  <2>4. QED
    BY <2>1, <2>2, <2>3, <1>1, <1>2, <1>c, <1>4
       DEF InStep, StreamInStep, AnswerOnItsWay, NothingSent, None, End, Raised
<1>5. CASE phase[s] # "answer"
  <2>1. phase[s] \in {"attribution", "followups"} /\ ResultOnItsWay(s)
    BY <1>2, <1>c, <1>5 DEF InStep, StreamInStep, TypeOK
  <2>2. pc[s] = "done" /\ q \in {<<End>>, <<Raised>>}
    BY <1>1, <1>2, <2>1 DEF ResultOnItsWay, NothingSent, None, End, Raised
  <2>3. got'[s] \in {End, Raised} /\ r = <<>>
    <3>1. Len(q) = 1 /\ q[1] \in {End, Raised}
      BY <2>2
    <3>2. QED
      BY <3>1, <1>3
  <2>4. ResultOnItsWay(s)'
    BY <2>2, <2>3, <1>2 DEF ResultOnItsWay
  <2>5. QED
    BY <2>1, <2>4, <1>2, <1>c DEF InStep, StreamInStep
<1>6. QED
  BY <1>4, <1>5

\* Retrieval begins with nothing sent, and the producer thread after it too.
LEMMA RetrievalInStep ==
    ASSUME TypeOK, NEW s \in Streams, InStep(s),
           StartStream(s) \/ EndRetrieval(s)
    PROVE  InStep(s)'
<1>1. s \in Threads
  BY DEF Threads
<1>2. CASE StartStream(s)
  BY <1>1, <1>2
     DEF StartStream, Goto, TypeOK, InStep, StreamInStep, NothingSent, Asking
<1>3. CASE EndRetrieval(s)
  <2>1. /\ consumer[s] = "retrieve" /\ NothingSent(s) /\ collected[s] = 0
        /\ s \notin executing
    BY <1>3 DEF EndRetrieval, InStep, StreamInStep, AnswerOnItsWay,
       ResultOnItsWay, Asking, TypeOK
  <2>2. CASE /\ consumer' = [consumer EXCEPT ![s] = "failed"]
             /\ Goto(s, "done") /\ phase' = phase
    BY <1>1, <1>3, <2>1, <2>2
       DEF EndRetrieval, Goto, TypeOK, InStep, StreamInStep
  <2>3. CASE /\ consumer' = [consumer EXCEPT ![s] = "await"]
             /\ phase' = [phase EXCEPT ![s] = "answer"]
             /\ Goto(s, "fast")
    <3>1. pc'[s] = "fast" /\ consumer'[s] = "await" /\ phase'[s] = "answer"
      BY <1>1, <2>3 DEF Goto, TypeOK
    <3>2. AnswerOnItsWay(s)'
      BY <1>3, <2>1, <3>1
         DEF EndRetrieval, AnswerOnItsWay, NothingSent, Asking
    <3>3. ~cancel'[s] /\ s \notin executing'
      BY <1>3, <2>1 DEF EndRetrieval, InStep, StreamInStep
    <3>4. QED
      BY <3>1, <3>2, <3>3 DEF InStep, StreamInStep
  <2>4. QED
    BY <1>3, <2>2, <2>3 DEF EndRetrieval
<1>4. QED
  BY <1>2, <1>3

\* A token is collected, or the stream gives up while the thread still works.
LEMMA TokenInStep ==
    ASSUME TypeOK, NEW s \in Streams, InStep(s), ReceiveToken(s)
    PROVE  InStep(s)'
<1>1. /\ consumer[s] = "await" /\ got[s] = Token /\ phase[s] = "answer"
      /\ got'[s] = None /\ collected'[s] = collected[s] + 1
      /\ UNCHANGED <<pc[s], phase[s], queue[s], rest[s], answer[s]>>
      /\ executing' = executing
      /\ collected[s] \in Nat /\ rest[s] \in Nat /\ answer[s] \in Int
      /\ queue[s] \in Seq(Items)
  BY DEF ReceiveToken, Resume, TypeOK
<1>2. s \notin executing /\ AnswerOnItsWay(s)
  BY <1>1 DEF InStep, StreamInStep, None, Token
<1>3. CASE GiveUp(s)
  <2>1. consumer'[s] = "failed" /\ pc'[s] \in {"produce", "done"}
    <3>1. pc[s] \in {"produce", "done"}
      BY <1>1, <1>2 DEF AnswerOnItsWay, NothingSent, None, Token
    <3>2. QED
      BY <1>1, <1>3, <3>1 DEF GiveUp, TypeOK
  <2>2. QED
    BY <1>1, <1>2, <2>1 DEF InStep, StreamInStep
<1>4. CASE UNCHANGED <<consumer, cancel>>
  <2>1. InHand(s) = 1 /\ InHand(s)' = 0
    BY <1>1 DEF InHand, None, Token
  <2>2. CASE /\ pc[s] = "produce" /\ TokensUpTo(s, Len(queue[s]))
             /\ AddUp(collected[s], InHand(s), Len(queue[s]), rest[s],
                      answer[s])
    <3>1. AddUp(collected[s] + 1, 0, Len(queue[s]), rest[s], answer[s])
      BY <2>1, <2>2, <1>1, TokensMove
    <3>2. AnswerOnItsWay(s)'
      BY <2>1, <2>2, <3>1, <1>1 DEF AnswerOnItsWay, TokensUpTo
    <3>3. QED
      BY <1>1, <1>2, <1>4, <3>2 DEF InStep, StreamInStep
  <2>3. CASE /\ pc[s] = "done" /\ queue[s] # <<>>
             /\ TokensUpTo(s, Len(queue[s]) - 1)
             /\ queue[s][Len(queue[s])] = End
             /\ AddUp(collected[s], InHand(s), Len(queue[s]) - 1, 0,
                      answer[s])
    <3>1. Len(queue[s]) - 1 \in Nat
      BY <1>1, <2>3
    <3>2. AddUp(collected[s] + 1, 0, Len(queue[s]) - 1, 0, answer[s])
      BY <2>1, <2>3, <3>1, <1>1, TokensMove
    <3>3. AnswerOnItsWay(s)'
      BY <2>1, <2>3, <3>2, <1>1 DEF AnswerOnItsWay, TokensUpTo
    <3>4. QED
      BY <1>1, <1>2, <1>4, <3>3 DEF InStep, StreamInStep
  <2>4. QED
    BY <2>2, <2>3, <1>1, <1>2
       DEF AnswerOnItsWay, NothingSent, None, Token, End, Raised
<1>5. QED
  BY <1>3, <1>4 DEF ReceiveToken

\* What the coroutine knows when it resumes with the end of a call.
LEMMA EndsAreLast ==
    ASSUME TypeOK, NEW s \in Streams, InStep(s), consumer[s] = "await",
           got[s] \in {End, Raised}
    PROVE  /\ pc[s] = "done" /\ s \notin executing /\ ~cancel[s]
           /\ phase[s] \in {"answer", "attribution", "followups"}
           /\ phase[s] = "answer" /\ got[s] = End
              => queue[s] = <<>> /\ collected[s] = answer[s]
           /\ phase[s] # "answer"
              => queue[s] = <<>> /\ collected[s] = answer[s]
BY DEF TypeOK, InStep, StreamInStep, AnswerOnItsWay, ResultOnItsWay,
   NothingSent, None, Token, End, Raised

\* The next phase starts with nothing sent, after a complete answer.
LEMMA NextPhaseInStep ==
    ASSUME TypeOK, NEW s \in Streams, s \in Threads, InStep(s),
           consumer[s] = "await", pc[s] = "done", queue[s] = <<>>,
           collected[s] = answer[s], s \notin executing, ~cancel[s],
           phase[s] \in {"answer", "attribution", "followups"},
           NextPhase(s), got'[s] = None,
           UNCHANGED <<queue, executing, answer, collected, cancel>>
    PROVE  InStep(s)'
<1>1. CASE consumer' = [consumer EXCEPT ![s] = "closed"]
           /\ UNCHANGED <<phase, pc>>
  BY <1>1 DEF TypeOK, InStep, StreamInStep
<1>2. CASE consumer' = consumer /\ \E step \in {"attribute", "fast"} :
             Goto(s, step) /\ phase'[s] \in {"attribution", "followups"}
  <2>1. pc'[s] \in Asking \cup {"attribute"}
    BY <1>2 DEF Goto, TypeOK, Asking
  <2>2. ResultOnItsWay(s)'
    BY <2>1 DEF ResultOnItsWay, NothingSent
  <2>3. QED
    BY <1>2, <2>2 DEF InStep, StreamInStep
<1>3. QED
  BY <1>1, <1>2 DEF NextPhase, TypeOK

\* The end of a call opens the next phase or ends the stream.
LEMMA EndInStep ==
    ASSUME TypeOK, NEW s \in Streams, InStep(s),
           ReceiveEnd(s) \/ ReceiveException(s)
    PROVE  InStep(s)'
<1>1. /\ s \in Threads /\ consumer[s] = "await" /\ got[s] \in {End, Raised}
      /\ got'[s] = None
      /\ UNCHANGED <<queue, executing, answer, collected>>
  BY DEF ReceiveEnd, ReceiveException, Resume, Threads, TypeOK
<1>2. CASE NextPhase(s) /\ UNCHANGED cancel
           /\ (got[s] = End \/ phase[s] # "answer")
  BY <1>1, <1>2, EndsAreLast, NextPhaseInStep
<1>3. CASE consumer' = [consumer EXCEPT ![s] = "failed"]
           /\ phase[s] = "answer" /\ UNCHANGED <<phase, pc>>
  BY <1>1, <1>3, EndsAreLast DEF TypeOK, InStep, StreamInStep
<1>4. QED
  BY <1>1, <1>2, <1>3
     DEF ReceiveEnd, ReceiveException, Resume, GiveUp, End, Raised

\* A step of one coroutine leaves every stream in step.
LEMMA CoroutinesInStep ==
    ASSUME TypeOK, \A s \in Streams : InStep(s), NEW r \in Streams,
           StartStream(r) \/ ConsumerStep(r) \/ Disconnect(r),
           NEW s \in Streams
    PROVE  InStep(s)'
<1>1. CASE s # r
  <2>1. s \in Threads /\ r \in Threads
    BY DEF Threads
  <2>2. CASE StartStream(r) \/ EndRetrieval(r) \/ TakeExecutorThread(r)
             \/ GetItem(r) \/ ReceiveToken(r) \/ Disconnect(r)
    BY <1>1, <2>1, <2>2, UntouchedInStep
       DEF StartStream, EndRetrieval, TakeExecutorThread, GetItem,
           ReceiveToken, Disconnect, Resume, GiveUp, Goto, TypeOK, Untouched
  <2>3. CASE ReceiveEnd(r) \/ ReceiveException(r)
    BY <1>1, <2>1, <2>3, UntouchedInStep
       DEF ReceiveEnd, ReceiveException, Resume, GiveUp, NextPhase, Goto,
           TypeOK, Untouched
  <2>4. QED
    BY <2>2, <2>3 DEF ConsumerStep
<1>2. CASE s = r
  <2>1. CASE TakeExecutorThread(s)
    BY <2>1, UntouchedInStep
       DEF TakeExecutorThread, InStep, StreamInStep, AnswerOnItsWay,
           ResultOnItsWay, NothingSent, InHand, TokensUpTo
  <2>2. CASE Disconnect(s)
    BY <2>2, UntouchedInStep DEF Disconnect, Untouched
  <2>3. QED
    BY <1>2, <2>1, <2>2, RetrievalInStep, GetItemInStep, TokenInStep,
       EndInStep DEF ConsumerStep
<1>3. QED
  BY <1>1, <1>2

\* So every step does.
LEMMA StreamsPreserved ==
    ASSUME GenerationInv, Next
    PROVE  \A s \in Streams : InStep(s)'
<1>1. TypeOK /\ \A s \in Streams : InStep(s)
  BY DEF GenerationInv, InStep, AnswersAreComplete
<1>2. ASSUME NEW t \in LoopCallers, StartLoopCall(t), NEW s \in Streams
      PROVE  InStep(s)'
  BY <1>1, <1>2, GenerationAssumption, UntouchedInStep
     DEF StartLoopCall, Goto, TypeOK, Threads, streams, Untouched
<1>3. QED
  BY <1>1, <1>2, ThreadsInStep, CoroutinesInStep DEF Next

-----------------------------------------------------------------------------
\* The theorems.

\* The invariant holds when the process starts.
LEMMA InitEstablishesGenerationInv == Init => GenerationInv
<1> SUFFICES ASSUME Init PROVE GenerationInv
  OBVIOUS
<1> USE GenerationAssumption
<1>1. 0 \in 0..MaxTokens /\ 0 \in -1..MaxTokens
  OBVIOUS
<1>2. TypeOK
  <2>1. /\ rest \in [Streams -> 0..MaxTokens]
        /\ collected \in [Streams -> 0..MaxTokens]
        /\ answer \in [Streams -> -1..MaxTokens]
    BY <1>1 DEF Init
  <2>2. /\ pc \in [Threads -> Steps] /\ queue \in [Streams -> Seq(Items)]
        /\ loads \in Nat
    BY DEF Init, Steps
  <2>3. QED
    BY <2>1, <2>2 DEF Init, TypeOK
<1>3. LocksAreHeld /\ ModelIsMissingOrLoaded
  BY DEF Init, LocksAreHeld, ModelIsMissingOrLoaded, Threads
<1>4. \A s \in Streams : StreamInStep(s)
  BY DEF Init, StreamInStep, NothingSent, Threads
<1>5. AnswersAreComplete
  BY DEF Init, AnswersAreComplete
<1>6. QED
  BY <1>2, <1>3, <1>4, <1>5 DEF GenerationInv

\* A step in which nothing happens keeps it.
LEMMA StutteringKeepsGenerationInv ==
    ASSUME GenerationInv, UNCHANGED vars
    PROVE  GenerationInv'
<1>1. TypeOK'
  BY DEF GenerationInv, TypeOK, vars, model, streams
<1>2. LocksAreHeld' /\ ModelIsMissingOrLoaded'
  BY DEF GenerationInv, LocksAreHeld, ModelIsMissingOrLoaded, vars, model
<1>s. \A s \in Streams : InStep(s) /\ Untouched(s)
  BY DEF GenerationInv, AnswersAreComplete, InStep, Untouched, vars, streams
<1>3. \A s \in Streams : InStep(s)'
  BY <1>s, UntouchedInStep
<1>4. QED
  BY <1>1, <1>2, <1>3 DEF GenerationInv, AnswersAreComplete, InStep

\* The coroutines and their threads stay in step, whatever the interleaving,
\* the failures of the model and the disconnects.
THEOREM GenerationInvariance == Spec => []GenerationInv
<1>1. GenerationInv /\ [Next]_vars => GenerationInv'
  BY TypePreserved, LocksPreserved, StreamsPreserved,
     StutteringKeepsGenerationInv DEF GenerationInv, AnswersAreComplete, InStep
<1>2. QED
  BY <1>1, InitEstablishesGenerationInv, PTL DEF Spec

\* Every variable stays in its type; the counter of collected tokens never
\* passes the length of an answer.
THEOREM GenerationTypeCorrect == Spec => []TypeOK
BY GenerationInvariance, PTL DEF GenerationInv

\* The double-checked _load_lock of _get_llm loads one model, whoever asks.
THEOREM OneModelIsLoaded == Spec => []OneModelLoaded
<1>1. GenerationInv => OneModelLoaded
  BY DEF GenerationInv, ModelIsMissingOrLoaded, OneModelLoaded
<1>2. QED
  BY <1>1, GenerationInvariance, PTL

\* An answer that reaches its done frame is the whole answer of the model.
THEOREM DoneMeansComplete == Spec => []AnswersAreComplete
BY GenerationInvariance, PTL DEF GenerationInv

\* Two calls of the model at the same time are one inference and the warm-up.
\* Neither lock is shared by both, so nothing rules this pair out.
OnlyWarmUpOverlaps ==
    \A t, u \in Threads :
        /\ t # u
        /\ {pc[t], pc[u]} \subseteq {"warmup", "infer"}
        => pc[t] # pc[u]

\* All inferences are serialized by _infer_lock, all warm-ups by _load_lock:
\* a warm-up beside an inference is the only overlap of model calls.
THEOREM OverlapsAreWarmUps == Spec => []OnlyWarmUpOverlaps
<1>1. GenerationInv => OnlyWarmUpOverlaps
  BY DEF GenerationInv, LocksAreHeld, OnlyWarmUpOverlaps
<1>2. QED
  BY <1>1, GenerationInvariance, PTL
=============================================================================
