--------------------------- MODULE HybridRetrieval ---------------------------
(***************************************************************************)
(* HybridRetriever.retrieve and _mmr (retrieval/hybrid.py): from the hits  *)
(* of the two searches to the chunks of an answer.  Scores are integers:   *)
(* multiples of 1/Unit, so that the reciprocal ranks are exact.            *)
(***************************************************************************)
EXTENDS Integers, Sequences, SequencesExt, FiniteSetsExt, Sorting

CONSTANTS
    Chunks,     \* (doc_id, chunk_index) of the chunks of a tenant's index
    DocOf,      \* doc_id of a chunk
    TokensOf,   \* the tokens of a chunk's text
    RrfK,       \* RRF_K
    Unit,       \* an even common multiple of RrfK + rank over all ranks, and
                \* of the numbers of tokens that two chunks have together
    TopK,       \* top_k of each search
    RerankCandidates,
    Logits,     \* scores that the cross-encoder may give, in halves
    Confident,  \* CONFIDENCE_THRESHOLD, in halves
    FinalKs     \* values of final_k

\* The tokens of one or the other, and of both.
Together(c, d) == Cardinality(TokensOf[c] \cup TokensOf[d])
Shared(c, d) == Cardinality(TokensOf[c] \cap TokensOf[d])

ASSUME RetrievalAssumption ==
    /\ RrfK \in Nat \ {0} /\ Unit \in Nat \ {0} /\ TopK \in Nat
    /\ \A r \in 0..TopK - 1 : Unit % (RrfK + r) = 0
    /\ Unit % 2 = 0 /\ RerankCandidates \in Nat \ {0}
    /\ \A c \in Chunks : IsFiniteSet(TokensOf[c])
    /\ \A c, d \in Chunks : Unit % Max({1, Together(c, d)}) = 0
    /\ FinalKs \subseteq Nat \ {0}
    /\ Logits \subseteq Int /\ Confident \in Int

VARIABLES
    asking,     \* arguments of the last retrieval, hits and scores it met
    found       \* the chunks it returned, or "nothing yet"
retrievalVars == <<asking, found>>

Modes == {"sparse", "dense", "hybrid", "hybrid+rerank"}
Documents == {DocOf[c] : c \in Chunks}
Rankings == {q \in SeqOf(Chunks, TopK) : IsInjective(q)}
\* A retried ingestion leaves copies in the BM25 file (TenantIndex), whereas
\* Qdrant's points are replaced.
SparseRankings == SeqOf(Chunks, TopK)

\* A scope is the accessible_doc_ids, or everything for an admin.  `logit` is
\* empty when the cross-encoder fails.
Askings ==
    [mode : Modes, sparse : SparseRankings, dense : Rankings,
     scope : SUBSET Documents, logit : {<<>>}, k : FinalKs] \cup
    [mode : {"hybrid+rerank"}, sparse : SparseRankings, dense : Rankings,
     scope : SUBSET Documents, logit : [Chunks -> Logits], k : FinalKs]

RetrievalInit == asking = <<>> /\ found = "nothing yet"

-----------------------------------------------------------------------------
\* _filter_accessible, after the searches have cut their hits to top_k.
Keep(kept, c, scope) == IF DocOf[c] \in scope THEN Append(kept, c) ELSE kept
Filtering(hits, scope) ==
    LET kept[n \in 0..Len(hits)] ==
            IF n = 0 THEN <<>> ELSE Keep(kept[n - 1], hits[n], scope)
    IN  kept
Filtered(hits, scope) == Filtering(hits, scope)[Len(hits)]

\* The place of the first copy of c.
Rank(c, hits) == Min({i \in DOMAIN hits : hits[i] = c})

Reciprocal(c, hit, n) ==
    IF hit = c THEN Unit \div (RrfK + (n - 1)) ELSE 0

\* Each copy of a chunk counts.
Scoring(c, hits) ==
    LET sum[n \in 0..Len(hits)] ==
            IF n = 0 THEN 0 ELSE sum[n - 1] + Reciprocal(c, hits[n], n)
    IN  sum
RrfScore(c, sparse, dense) ==
    Scoring(c, sparse)[Len(sparse)] + Scoring(c, dense)[Len(dense)]

\* sorted(..., reverse=True) keeps equal elements in their order.
Better(S, q, score) ==
    {p \in S \X S :
        \/ score[p[1]] > score[p[2]]
        \/ score[p[1]] = score[p[2]] /\ Rank(p[1], q) < Rank(p[2], q)}
SortedDown(q, score) == Sorted(Range(q), Better(Range(q), q, score))

\* _rrf_fusion: the sparse hits enter the table of scores first.
Fused(sparse, dense) ==
    LET hits == sparse \o dense
    IN  SortedDown(hits, [c \in Range(hits) |-> RrfScore(c, sparse, dense)])

FirstN(q, n) == SubSeq(q, 1, IF Len(q) < n THEN Len(q) ELSE n)

\* The first of S in q with the largest score, as max() finds it.
BestOf(S, q, score) == Sorted(S, Better(S, q, score))[1]

Similarity(c, d) == (Unit * Shared(c, d)) \div Max({1, Together(c, d)})
MaxSimilarity(c, chosen) == Max({Similarity(c, d) : d \in Range(chosen)})

\* Half the relevance less half the greatest similarity to what is chosen.
NextPick(candidates, relevance, chosen) ==
    LET left == Range(candidates) \ Range(chosen)
    IN  BestOf(left, candidates,
               [c \in left |-> IF chosen = <<>> THEN relevance[c]
                               ELSE relevance[c] - MaxSimilarity(c, chosen)])

\* _mmr with lambda 0.5.
Choosing(candidates, k, relevance) ==
    LET chosen[n \in 0..k] ==
            IF n = 0 THEN <<>>
            ELSE Append(chosen[n - 1],
                        NextPick(candidates, relevance, chosen[n - 1]))
    IN  chosen
Mmr(candidates, k, relevance) ==
    IF Len(candidates) <= k THEN candidates
    ELSE Choosing(candidates, k, relevance)[k]

\* One candidate is not sent to the cross-encoder, and its failure is survived:
\* then the scores are reciprocal ranks.
Reranked(a, candidates) == a.logit # <<>> /\ Len(candidates) > 1

Gate(top) == top < Confident * (Unit \div 2)

FullPipeline(a, sparse, dense) ==
    LET candidates == FirstN(Fused(sparse, dense), RerankCandidates)
        score == [c \in Range(candidates) |->
                    IF Reranked(a, candidates) THEN a.logit[c] * (Unit \div 2)
                    ELSE RrfScore(c, sparse, dense)]
        ordered == SortedDown(candidates, score)
    IN  IF candidates = <<>> \/ Gate(score[ordered[1]]) THEN <<>>
        ELSE Mmr(ordered, a.k, score)

Retrieve_DenseUnfiltered(a) ==
    LET sparse == Filtered(a.sparse, a.scope)
    IN  CASE a.mode = "sparse" -> FirstN(sparse, a.k)
          [] a.mode = "dense"  -> FirstN(a.dense, a.k)
          [] a.mode = "hybrid" ->
                FirstN(FirstN(Fused(sparse, a.dense), RerankCandidates), a.k)
          [] OTHER -> FullPipeline(a, sparse, a.dense)

Retrieve(a) ==
    LET sparse == Filtered(a.sparse, a.scope)
        dense  == Filtered(a.dense, a.scope)
    IN  CASE a.mode = "sparse" -> FirstN(sparse, a.k)
          [] a.mode = "dense"  -> FirstN(dense, a.k)
          [] a.mode = "hybrid" ->
                FirstN(FirstN(Fused(sparse, dense), RerankCandidates), a.k)
          [] OTHER -> FullPipeline(a, sparse, dense)

AskForChunks ==
    /\ asking = <<>>
    /\ asking' \in Askings
    /\ found' = Retrieve(asking')

RetrievalSpec == RetrievalInit /\ [][AskForChunks]_retrievalVars

-----------------------------------------------------------------------------
Hits(a) == CASE a.mode = "sparse" -> Range(a.sparse)
             [] a.mode = "dense"  -> Range(a.dense)
             [] OTHER -> Range(a.sparse) \cup Range(a.dense)

Readable(a) == {c \in Hits(a) : DocOf[c] \in a.scope}

\* Whatever the mode, an answer is made of hits within the caller's scope: they
\* are distinct, and final_k unless there are fewer or nothing is returned, but
\* that the sparse mode keeps the copies it finds.
OnlyReadableHits(a, answer) ==
    /\ Range(answer) \subseteq Readable(a)
    /\ \/ a.mode = "sparse" /\ ~IsInjective(a.sparse)
       \/ /\ IsInjective(answer)
          /\ answer # <<>> =>
                Len(answer) = Min({a.k, Cardinality(Readable(a))}
                                  \cup IF a.mode \in {"sparse", "dense"}
                                       THEN {} ELSE {RerankCandidates})

\* c is before d, or alone, in the hits of one search, or d is not there.
NoWorse(c, d, hits) ==
    d \in Range(hits) => c \in Range(hits) /\ Rank(c, hits) < Rank(d, hits)

\* A chunk that one search ranks before another, or finds alone, and that the
\* other search does not rank behind it, is returned before it by the fusion
\* and never left out in its favour, as long as no hit comes in copies.
FusionKeepsConsensus(a, answer) ==
    a.mode = "hybrid" /\ IsInjective(a.sparse) =>
        \A d \in Range(answer), c \in Readable(a) :
            /\ c # d
            /\ NoWorse(c, d, Filtered(a.sparse, a.scope))
            /\ NoWorse(c, d, Filtered(a.dense, a.scope))
            => c \in Range(answer) /\ Rank(c, answer) < Rank(d, answer)

\* What the cross-encoder is given.
Judged(a) ==
    Range(FirstN(Fused(Filtered(a.sparse, a.scope), Filtered(a.dense, a.scope)),
                 RerankCandidates))
IsJudged(a) ==
    a.mode = "hybrid+rerank" /\ a.logit # <<>> /\ Cardinality(Judged(a)) > 1

\* The full pipeline puts the chunk that the cross-encoder likes best first.  It
\* leaves one out that it prefers to a chosen one only if the chunk shares as
\* much with one chosen before that one as it is better.
DiversityCostsOnlyOverlap(a, answer) ==
    answer # <<>> /\ IsJudged(a) =>
        \A c \in Judged(a) :
            /\ a.logit[c] <= a.logit[answer[1]]
            /\ \/ c \in Range(answer)
               \/ \A n \in DOMAIN answer :
                    \/ a.logit[c] <= a.logit[answer[n]]
                    \/ \E m \in 1..n - 1 :
                        (a.logit[c] - a.logit[answer[n]]) * (Unit \div 2)
                            <= Similarity(c, answer[m])

\* With readable hits, nothing is returned only because the cross-encoder has
\* judged two or more of them and found the best below the threshold; a single
\* hit passes unjudged, and so do all when it fails.
SilenceIsJudged(a, answer) ==
    answer = <<>> =>
        \/ Readable(a) = {}
        \/ IsJudged(a) /\ \A c \in Judged(a) : a.logit[c] < Confident

\* What retrieve promises in all its modes: nothing outside the caller's scope,
\* and no readable hit lost to fusion, diversity or the gate without its reason.
RetrievalIsSound ==
    asking # <<>> =>
        /\ OnlyReadableHits(asking, found)
        /\ FusionKeepsConsensus(asking, found)
        /\ DiversityCostsOnlyOverlap(asking, found)
        /\ SilenceIsJudged(asking, found)
=============================================================================
