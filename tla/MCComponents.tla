----------------------------- MODULE MCComponents -----------------------------
(* The components that share no state, one of them in each behaviour.       *)
EXTENDS ChatSessions, RateLimit, DbPool, HybridRetrieval, Chunker, Citations,
        EvalMetrics

MCCallers == {"ann", "boss", "ann2"}
MCCallerTenant == [c \in MCCallers |-> IF c = "ann2" THEN "t2" ELSE "t1"]
MCCallerId == [c \in MCCallers |-> IF c = "boss" THEN "b" ELSE "a"]
MCDocOf == [c \in {"a1", "a2", "b1"} |-> IF c = "b1" THEN "b" ELSE "a"]
MCTokensOf == [c \in {"a1", "a2", "b1"} |->
                CASE c = "a1" -> {"p", "q", "r", "s"}
                  [] c = "a2" -> {"p", "q", "r"}
                  [] OTHER -> {"s", "t"}]
MCLogits == {-6, 0, 1}
MCConfident == -4
MCSimilarities == {-1, 2, 4, 5, 8}
MCGain == <<1000, 631, 500, 431>>

VARIABLES
    part,       \* the component that runs
    asker       \* retrieval: the scope and final_k of its caller

\* A caller is fixed from the start, so that each has a search of his own.
Askers == [scope : SUBSET Documents, k : FinalKs]
AskedBy(c) == {a \in Askings : a.scope = c.scope /\ a.k = c.k}

vars == <<part, asker, chatVars, limitVars, poolVars, retrievalVars,
          chunkerVars, citationVars, metricsVars>>

Init ==
    /\ part \in {"chat", "limit", "pool", "retrieval", "chunker", "citations",
                 "metrics"}
    /\ asker \in IF part = "retrieval" THEN Askers ELSE {<<>>}
    /\ ChatInit /\ LimitInit /\ PoolInit /\ RetrievalInit /\ ChunkerInit
    /\ CitationInit /\ MetricsInit

Rest(p) ==
    /\ part = p /\ UNCHANGED <<part, asker>>
    /\ p # "chat" => UNCHANGED chatVars
    /\ p # "limit" => UNCHANGED limitVars
    /\ p # "pool" => UNCHANGED poolVars
    /\ p # "retrieval" => UNCHANGED retrievalVars
    /\ p # "chunker" => UNCHANGED chunkerVars
    /\ p # "citations" => UNCHANGED citationVars
    /\ p # "metrics" => UNCHANGED metricsVars

Next ==
    \/ Rest("chat") /\ ChatNext
    \/ Rest("limit") /\ LimitNext
    \/ Rest("pool") /\ PoolNext
    \/ /\ Rest("retrieval") /\ asking = <<>>
       /\ asking' \in AskedBy(asker) /\ AskForChunks
    \/ Rest("chunker") /\ ChunkText
    \/ Rest("citations") /\ CitationNext
    \/ Rest("metrics") /\ MetricsNext

Spec == Init /\ [][Next]_vars
=============================================================================
