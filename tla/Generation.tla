----------------------------- MODULE Generation -----------------------------
(***************************************************************************)
(* Answer generation in one API process: the shared llama.cpp model        *)
(* (generation/llm.py), the WebSocket streamer (generation/streamer.py)    *)
(* with its producer threads and the event loop's default executor, and    *)
(* the blocking callers of generate: POST /chat and the HyDE query of a    *)
(* stream's retrieval on the event loop itself, the ingestion worker and   *)
(* evaluations on threads of their own.                                    *)
(*                                                                         *)
(* A step is what a thread does between two lock operations, or a          *)
(* coroutine between two awaits.  generate_stream consumes the model       *)
(* inside _infer_lock, so the tokens of an answer are handed over one by   *)
(* one only after all of them exist.                                       *)
(***************************************************************************)
EXTENDS Integers, Sequences, FiniteSets

CONSTANTS
    Streams,            \* WebSocket requests, each with one background thread
    LoopCallers,        \* POST /chat requests: generate on the event loop
    ThreadCallers,      \* generate on other threads
    WarmupThreads,      \* the thread of lifespan that only loads the model
    ExecutorThreads,    \* size of the event loop's default executor
    MaxTokens           \* bound: tokens of an answer

Threads == Streams \cup LoopCallers \cup ThreadCallers \cup WarmupThreads
Nobody == "nobody"

ASSUME GenerationAssumption ==
    /\ ExecutorThreads \in Nat \ {0}
    /\ MaxTokens \in Nat \ {0}
    /\ Nobody \notin Threads
    /\ WarmupThreads \cap (Streams \cup LoopCallers \cup ThreadCallers) = {}
    /\ Streams \cap (LoopCallers \cup ThreadCallers) = {}
    /\ LoopCallers \cap ThreadCallers = {}

VARIABLES
    instance, loadError,    \* _llm_instance is set; _load_error is set
    loadLock, inferLock,    \* holders of _load_lock and _infer_lock
    loads,          \* history: models constructed
    pc,             \* step of every thread
    loop,           \* the caller or stream that blocks the event loop
    phase,          \* what a stream calls: retrieval, answer, attribution...
    consumer,       \* step of the coroutine of a stream
    queue,          \* token_queue, then result_queue, of a stream
    got,            \* the item the coroutine has been given
    executing,      \* streams whose queue.get holds an executor thread
    rest,           \* tokens the producer still has to put
    answer,         \* history: tokens the model generated; -1 when it raised
    collected,      \* full_response: tokens the coroutine received
    cancel,         \* cancel_event
    gone            \* the client has disconnected

model   == <<instance, loadError, loadLock, inferLock, loads>>
streams == <<phase, consumer, queue, got, executing, rest, answer, collected,
             cancel, gone>>
vars    == <<model, pc, loop, streams>>

None == "none"          \* no item
End == "end"            \* the None that ends a stream, or a result
Raised == "raised"      \* an exception passed through the queue
Token == "token"

Init ==
    /\ instance = FALSE /\ loadError = FALSE
    /\ loadLock = Nobody /\ inferLock = Nobody
    /\ loads = 0
    /\ pc = [t \in Threads |->
               IF t \in WarmupThreads \cup ThreadCallers THEN "fast"
               ELSE "idle"]
    /\ loop = Nobody
    /\ phase = [s \in Streams |-> "retrieval"]
    /\ consumer = [s \in Streams |-> "idle"]
    /\ queue = [s \in Streams |-> <<>>]
    /\ got = [s \in Streams |-> None]
    /\ executing = {}
    /\ rest = [s \in Streams |-> 0]
    /\ answer = [s \in Streams |-> 0]
    /\ collected = [s \in Streams |-> 0]
    /\ cancel = [s \in Streams |-> FALSE]
    /\ gone = [s \in Streams |-> FALSE]

Goto(t, step) == pc' = [pc EXCEPT ![t] = step]
Put(s, item) == queue' = [queue EXCEPT ![s] = Append(@, item)]

\* The call ends: a POST /chat gives the event loop back.
Return(t) ==
    /\ Goto(t, "done")
    /\ loop' = IF loop = t THEN Nobody ELSE loop

-----------------------------------------------------------------------------
(* _get_llm.                                                                *)

\* What the thread does with the model once it has it.
WithModel(t) == Goto(t, IF t \in WarmupThreads THEN "done" ELSE "lockInfer")

\* Slip: an exception of the model is not passed on.
ModelRaises_Silent(t) ==
    /\ UNCHANGED <<queue, answer>>
    /\ IF t \in Streams
       THEN /\ Goto(t, IF phase[t] = "retrieval" THEN "retrieved" ELSE "done")
            /\ UNCHANGED loop
       ELSE Return(t)

\* RuntimeError out of generate_stream: _produce and run_background put it in
\* the queue, and _produce None after it; HyDE goes on without; the other
\* callers return.
ModelRaises(t) ==
    \/ /\ t \notin Streams
       /\ Return(t)
       /\ UNCHANGED <<queue, answer>>
    \/ /\ t \in Streams /\ phase[t] = "retrieval"
       /\ Goto(t, "retrieved")
       /\ UNCHANGED <<loop, queue, answer>>
    \/ /\ t \in Streams /\ phase[t] = "answer"
       /\ Goto(t, "done")
       /\ queue' = [queue EXCEPT ![t] = @ \o <<Raised, End>>]
       /\ answer' = [answer EXCEPT ![t] = -1]
       /\ UNCHANGED loop
    \/ /\ t \in Streams /\ phase[t] = "followups"
       /\ Goto(t, "done")
       /\ Put(t, Raised)
       /\ UNCHANGED <<loop, answer>>

StreamsButQueue == <<phase, consumer, got, executing, rest, collected, cancel,
                     gone>>

FastPath(t) ==
    /\ pc[t] = "fast"
    /\ IF instance THEN WithModel(t) ELSE Goto(t, "lockLoad")
    /\ UNCHANGED <<model, loop, streams>>

LockLoad(t) ==
    /\ pc[t] = "lockLoad" /\ loadLock = Nobody
    /\ loadLock' = t
    /\ Goto(t, "recheck")
    /\ UNCHANGED <<instance, loadError, inferLock, loads, loop, streams>>

\* Slip: no second look at _llm_instance inside the lock.
Recheck_Forgotten(t) ==
    /\ pc[t] = "recheck"
    /\ ~loadError
    /\ Goto(t, "construct")
    /\ UNCHANGED <<model, loop, streams>>

\* Another thread has loaded the model, or nobody has tried.
Recheck(t) ==
    /\ pc[t] = "recheck"
    /\ \/ instance /\ WithModel(t) /\ loadLock' = Nobody
       \/ ~instance /\ ~loadError /\ Goto(t, "construct") /\ UNCHANGED loadLock
    /\ UNCHANGED <<instance, loadError, inferLock, loads, loop, streams>>

\* A load failed before, the file is missing, Llama() or the warmup raises.
LoadFails(t) ==
    /\ \/ pc[t] = "recheck" /\ ~instance
       \/ pc[t] \in {"construct", "warmup"}
    /\ loadError' = TRUE
    /\ loadLock' = Nobody
    /\ ModelRaises(t)
    /\ UNCHANGED <<instance, inferLock, loads, StreamsButQueue>>

\* _llm_instance is assigned before the warmup inference.
Construct(t) ==
    /\ pc[t] = "construct"
    /\ instance' = TRUE
    /\ loads' = loads + 1
    /\ Goto(t, "warmup")
    /\ UNCHANGED <<loadError, loadLock, inferLock, loop, streams>>

WarmUp(t) ==
    /\ pc[t] = "warmup"
    /\ loadLock' = Nobody
    /\ WithModel(t)
    /\ UNCHANGED <<instance, loadError, inferLock, loads, loop, streams>>

-----------------------------------------------------------------------------
(* generate_stream and its callers.                                         *)

LockInfer(t) ==
    /\ pc[t] = "lockInfer" /\ inferLock = Nobody
    /\ inferLock' = t
    /\ Goto(t, "infer")
    /\ UNCHANGED <<instance, loadError, loadLock, loads, loop, streams>>

\* The model has answered: the text is returned, or the list of all tokens is
\* complete.
ModelAnswers(t) ==
    \/ /\ t \notin Streams
       /\ Return(t)
       /\ UNCHANGED <<queue, rest, answer>>
    \/ /\ t \in Streams /\ phase[t] = "retrieval"
       /\ Goto(t, "retrieved")
       /\ UNCHANGED <<loop, queue, rest, answer>>
    \/ /\ t \in Streams /\ phase[t] = "answer"
       /\ \E n \in 0..MaxTokens :
             /\ rest' = [rest EXCEPT ![t] = n]
             /\ answer' = [answer EXCEPT ![t] = n]
       /\ Goto(t, "produce")
       /\ UNCHANGED <<loop, queue>>
    \/ /\ t \in Streams /\ phase[t] = "followups"
       /\ Goto(t, "done")
       /\ Put(t, End)
       /\ UNCHANGED <<loop, rest, answer>>

Infer(t) ==
    /\ pc[t] = "infer"
    /\ inferLock' = Nobody
    /\ ModelAnswers(t)
    /\ UNCHANGED <<instance, loadError, loadLock, loads, phase, consumer, got,
                   executing, collected, cancel, gone>>

\* Slip: an exception of the model leaves the lock taken.
InferFails_KeepsLock(t) ==
    /\ pc[t] = "infer"
    /\ ModelRaises(t)
    /\ UNCHANGED <<model, StreamsButQueue>>

InferFails(t) ==
    /\ pc[t] = "infer"
    /\ inferLock' = Nobody
    /\ ModelRaises(t)
    /\ UNCHANGED <<instance, loadError, loadLock, loads, StreamsButQueue>>

\* Slip: the end of the tokens is not noticed.
Produce_PastEnd(s) ==
    /\ pc[s] = "produce"
    /\ ~cancel[s]
    /\ Put(s, Token)
    /\ rest' = [rest EXCEPT ![s] = @ - 1]
    /\ UNCHANGED <<model, pc, loop, phase, consumer, got, executing, answer,
                   collected, cancel, gone>>

\* _produce: one token, unless the consumer gave up; None at the end.
Produce(s) ==
    /\ pc[s] = "produce"
    /\ IF rest[s] > 0 /\ ~cancel[s]
       THEN /\ Put(s, Token)
            /\ rest' = [rest EXCEPT ![s] = @ - 1]
            /\ UNCHANGED pc
       ELSE Put(s, End) /\ Goto(s, "done") /\ UNCHANGED rest
    /\ UNCHANGED <<model, loop, phase, consumer, got, executing, answer,
                   collected, cancel, gone>>

\* attribute_answer in a thread: no model call; its exception is passed on.
Attribute(s) ==
    /\ pc[s] = "attribute"
    /\ \E item \in {End, Raised} : Put(s, item)
    /\ Goto(s, "done")
    /\ UNCHANGED <<model, loop, phase, consumer, got, executing, rest, answer,
                   collected, cancel, gone>>

\* POST /chat calls generate without a thread: nothing else runs on the loop
\* until it returns.
StartLoopCall(t) ==
    /\ pc[t] = "idle" /\ loop = Nobody
    /\ loop' = t
    /\ Goto(t, "fast")
    /\ UNCHANGED <<model, streams>>

ThreadStep(t) ==
    \/ FastPath(t) \/ LockLoad(t) \/ Recheck(t) \/ LoadFails(t)
    \/ Construct(t) \/ WarmUp(t)
    \/ LockInfer(t) \/ Infer(t) \/ InferFails(t)
    \/ t \in Streams /\ (Produce(t) \/ Attribute(t))

-----------------------------------------------------------------------------
(* stream_rag_response.                                                     *)

\* Retrieval starts with the HyDE query, on the event loop, when it is enabled.
StartStream(s) ==
    /\ consumer[s] = "idle" /\ loop = Nobody
    /\ loop' = s
    /\ consumer' = [consumer EXCEPT ![s] = "retrieve"]
    /\ Goto(s, "fast") \/ Goto(s, "retrieved")
    /\ UNCHANGED <<model, phase, queue, got, executing, rest, answer,
                   collected, cancel, gone>>

\* The producer thread starts and the loop is free; no documents, no model file
\* or an exception end the stream with an error frame instead.
EndRetrieval(s) ==
    /\ pc[s] = "retrieved"
    /\ loop' = Nobody
    /\ \/ /\ consumer' = [consumer EXCEPT ![s] = "await"]
          /\ phase' = [phase EXCEPT ![s] = "answer"]
          /\ Goto(s, "fast")
       \/ /\ consumer' = [consumer EXCEPT ![s] = "failed"]
          /\ Goto(s, "done")
          /\ UNCHANGED phase
    /\ UNCHANGED <<model, queue, got, executing, rest, answer, collected,
                   cancel, gone>>

\* queue.get is submitted to the default executor and waits for a thread.
TakeExecutorThread(s) ==
    /\ consumer[s] = "await" /\ s \notin executing /\ got[s] = None
    /\ Cardinality(executing) < ExecutorThreads
    /\ executing' = executing \cup {s}
    /\ UNCHANGED <<model, pc, loop, phase, consumer, queue, got, rest, answer,
                   collected, cancel, gone>>

GetItem(s) ==
    /\ s \in executing
    /\ queue[s] # <<>>
    /\ got' = [got EXCEPT ![s] = Head(queue[s])]
    /\ queue' = [queue EXCEPT ![s] = Tail(@)]
    /\ executing' = executing \ {s}
    /\ UNCHANGED <<model, pc, loop, phase, consumer, rest, answer, collected,
                   cancel, gone>>

Resume(s, item) ==
    /\ consumer[s] = "await" /\ got[s] = item /\ loop = Nobody
    /\ got' = [got EXCEPT ![s] = None]

\* The exception handlers: cancel_event is set, an error frame is tried.
GiveUp(s) ==
    /\ consumer' = [consumer EXCEPT ![s] = "failed"]
    /\ cancel' = [cancel EXCEPT ![s] = TRUE]

\* full_response grows; sending to a client that left raises, or is suppressed
\* when it is a RuntimeError.
ReceiveToken(s) ==
    /\ phase[s] = "answer"
    /\ Resume(s, Token)
    /\ collected' = [collected EXCEPT ![s] = @ + 1]
    /\ \/ UNCHANGED <<consumer, cancel>>
       \/ gone[s] /\ GiveUp(s)
    /\ UNCHANGED <<model, pc, loop, phase, queue, executing, rest, answer,
                   gone>>

\* The background call that follows: attribution, then the follow-up questions.
NextPhase(s) ==
    \/ /\ phase[s] = "answer"
       /\ phase' = [phase EXCEPT ![s] = "attribution"]
       /\ Goto(s, "attribute")
       /\ UNCHANGED consumer
    \/ /\ phase[s] = "attribution"
       /\ phase' = [phase EXCEPT ![s] = "followups"]
       /\ Goto(s, "fast")
       /\ UNCHANGED consumer
    \/ /\ phase[s] # "answer"       \* the last, or follow-ups are disabled
       /\ consumer' = [consumer EXCEPT ![s] = "closed"]
       /\ UNCHANGED <<phase, pc>>

\* None ends the answer and the done frame is sent; a result ends a phase.
ReceiveEnd(s) ==
    /\ Resume(s, End)
    /\ \/ NextPhase(s)
       \/ /\ gone[s] /\ phase[s] = "answer"
          /\ consumer' = [consumer EXCEPT ![s] = "failed"]
          /\ UNCHANGED <<phase, pc>>
    /\ UNCHANGED <<model, loop, queue, executing, rest, answer, collected,
                   cancel, gone>>

\* Slip: an exception in the queue ends the answer like None.
ReceiveException_AsEnd(s) ==
    /\ Resume(s, Raised)
    /\ NextPhase(s)
    /\ queue' = [queue EXCEPT ![s] = <<>>]
    /\ UNCHANGED <<model, loop, executing, rest, answer, collected, cancel,
                   gone>>

\* An exception fails the answer; one of the later phases is logged only.
ReceiveException(s) ==
    /\ Resume(s, Raised)
    /\ IF phase[s] = "answer"
       THEN GiveUp(s) /\ UNCHANGED <<phase, pc>>
       ELSE NextPhase(s) /\ UNCHANGED cancel
    /\ UNCHANGED <<model, loop, queue, executing, rest, answer, collected,
                   gone>>

Disconnect(s) ==
    /\ consumer[s] \in {"retrieve", "await"} /\ ~gone[s]
    /\ gone' = [gone EXCEPT ![s] = TRUE]
    /\ UNCHANGED <<model, pc, loop, phase, consumer, queue, got, executing,
                   rest, answer, collected, cancel>>

ConsumerStep(s) ==
    \/ EndRetrieval(s) \/ TakeExecutorThread(s) \/ GetItem(s)
    \/ ReceiveToken(s) \/ ReceiveEnd(s) \/ ReceiveException(s)

Next ==
    \/ \E t \in Threads : ThreadStep(t)
    \/ \E t \in LoopCallers : StartLoopCall(t)
    \/ \E s \in Streams : StartStream(s) \/ ConsumerStep(s) \/ Disconnect(s)

Spec == Init /\ [][Next]_vars

\* Every thread runs; the loop resumes a coroutine whose await is over.
Fairness ==
    /\ \A t \in Threads : WF_vars(ThreadStep(t))
    /\ \A s \in Streams : WF_vars(ConsumerStep(s))

FairSpec == Spec /\ Fairness

-----------------------------------------------------------------------------
(* Properties.                                                              *)

Steps == {"idle", "fast", "lockLoad", "recheck", "construct", "warmup",
          "lockInfer", "infer", "retrieved", "produce", "attribute", "done"}
Items == {Token, End, Raised}

TypeOK ==
    /\ instance \in BOOLEAN /\ loadError \in BOOLEAN
    /\ loadLock \in Threads \cup {Nobody} /\ inferLock \in Threads \cup {Nobody}
    /\ loads \in Nat
    /\ pc \in [Threads -> Steps]
    /\ loop \in LoopCallers \cup Streams \cup {Nobody}
    /\ phase \in [Streams -> {"retrieval", "answer", "attribution",
                           "followups"}]
    /\ consumer \in [Streams -> {"idle", "retrieve", "await", "closed",
                              "failed"}]
    /\ queue \in [Streams -> Seq(Items)]
    /\ got \in [Streams -> Items \cup {None}]
    /\ executing \subseteq Streams
    /\ rest \in [Streams -> 0..MaxTokens]
    /\ answer \in [Streams -> -1..MaxTokens]
    /\ collected \in [Streams -> 0..MaxTokens]
    /\ cancel \in [Streams -> BOOLEAN]
    /\ gone \in [Streams -> BOOLEAN]

\* However many threads ask for the model at once, while it is missing, being
\* loaded or warming up, it is loaded into memory once.
OneModelLoaded == loads <= 1

\* An answer that is closed with a done frame and then saved holds every token
\* that the model generated: no failure or disconnect truncates it silently.
AnswersAreComplete ==
    \A s \in Streams :
        phase[s] \notin {"retrieval", "answer"} => collected[s] = answer[s]

\* Every stream ends, although its thread waits for the model behind all other
\* callers, its coroutine waits for one of few executor threads, and POST /chat
\* requests block the event loop while they wait for the model themselves.
EveryStreamEnds ==
    \A s \in Streams :
        consumer[s] = "retrieve" ~> consumer[s] \in {"closed", "failed"}

\* No blocking call hangs: the event loop is always given back.
EveryCallReturns ==
    \A t \in LoopCallers \cup ThreadCallers : pc[t] = "fast" ~> pc[t] = "done"

\* llama.cpp is not thread-safe; all calls of the model are serialized.
ModelCallsAreSerialized ==
    \A t, u \in Threads :
        pc[t] \in {"warmup", "infer"} /\ pc[u] \in {"warmup", "infer"} => t = u
=============================================================================
