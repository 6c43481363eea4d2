----------------------------- MODULE EvalMetrics -----------------------------
(***************************************************************************)
(* The scores of an evaluation (eval/retrieval_metrics.py and the overlap  *)
(* metrics of eval/ragas_eval.py) and the labels of the error analysis     *)
(* (eval/error_analysis.py), for one question.  Fractions are integers,    *)
(* multiples of 1/Whole.                                                   *)
(***************************************************************************)
EXTENDS Naturals, Sequences, SequencesExt, FiniteSets, FiniteSetsExt

CONSTANTS
    Files,      \* file names that retrieved chunks have
    MaxRanks,   \* bound: chunks retrieved for a question
    Whole,      \* a common multiple of ranks and numbers of relevant files
    Gain        \* 1 / log2(rank + 1), scaled; all that matters is that it falls

ASSUME MetricsAssumption ==
    /\ IsFiniteSet(Files) /\ MaxRanks \in Nat \ {0} /\ Whole \in Nat \ {0}
    /\ Gain \in [1..MaxRanks -> Nat]
    /\ \A i \in 1..MaxRanks, n \in 1..Cardinality(Files) : Whole % (i * n) = 0
    /\ \A i \in 1..MaxRanks - 1 : Gain[i] > Gain[i + 1]
    /\ Gain[MaxRanks] > 0

VARIABLES
    graded,     \* the ranking that was scored last, with its scores
    label       \* the category of the last answer, with what it was
metricsVars == <<graded, label>>

MetricsInit == graded = <<>> /\ label = <<>>

\* chunks of one file repeat its name
Retrieved == SeqOf(Files, MaxRanks)

-----------------------------------------------------------------------------
Share(n, d) == IF d = 0 THEN 0 ELSE (Whole * n) \div d
TopFiles(ret, k) == Range(SubSeq(ret, 1, Min({k, Len(ret)})))

FilesFound(ret, rel, k) == Cardinality(TopFiles(ret, k) \cap rel)

Recall(ret, rel, k) == Share(FilesFound(ret, rel, k), Cardinality(rel))
Precision(ret, rel, k) == Share(FilesFound(ret, rel, k), k)

ReciprocalRank(ret, rel) ==
    LET ranks == {i \in DOMAIN ret : ret[i] \in rel}
    IN  IF ranks = {} THEN 0 ELSE Whole \div Min(ranks)

FirstHits_Repeats(ret, rel) == {i \in DOMAIN ret : ret[i] \in rel}
\* The ranks that count: later chunks of a file that was seen do not.
FirstHits(ret, rel) ==
    {i \in DOMAIN ret : ret[i] \in rel /\ \A j \in 1..i - 1 : ret[j] # ret[i]}

\* What the ranks that count are worth, added up rank by rank.
Counted(n, ranks, worth) == IF n \in ranks THEN worth[n] ELSE 0
Summing(ranks, worth) ==
    LET sum[n \in 0..MaxRanks] ==
            IF n = 0 THEN 0 ELSE sum[n - 1] + Counted(n, ranks, worth)
    IN  sum
SumOver(ranks, worth) == Summing(ranks, worth)[MaxRanks]

Dcg(ret, rel, k) == SumOver(FirstHits(ret, rel) \cap 1..k, Gain)
IdealDcg(rel, k) == SumOver(1..Min({Cardinality(rel), k}), Gain)

PrecisionAt(hits, i) == Share(Cardinality({j \in hits : j <= i}), i)
AveragePrecision(ret, rel) ==
    LET hits == FirstHits(ret, rel)
    IN  IF rel = {} THEN 0
        ELSE SumOver(hits, [i \in hits |-> PrecisionAt(hits, i)])
                \div Cardinality(rel)

\* ragas_eval counts chunks where retrieval_metrics counts files.
ContextPrecision(ret, rel) ==
    Share(Cardinality({i \in DOMAIN ret : ret[i] \in rel}), Len(ret))
ContextRecall(ret, rel) ==
    Share(Cardinality(Range(ret) \cap rel), Cardinality(rel))

Scores(ret, rel, k) ==
    [ret |-> ret, rel |-> rel, k |-> k,
     recall |-> Recall(ret, rel, k), precision |-> Precision(ret, rel, k),
     mrr |-> ReciprocalRank(ret, rel), ap |-> AveragePrecision(ret, rel),
     dcg |-> Dcg(ret, rel, k), ideal |-> IdealDcg(rel, k),
     contextPrecision |-> ContextPrecision(ret, rel),
     contextRecall |-> ContextRecall(ret, rel)]

ScoreRanking ==
    /\ graded = <<>> /\ label = <<>>
    /\ \E ret \in Retrieved, rel \in SUBSET Files, k \in 0..MaxRanks :
        graded' = Scores(ret, rel, k)
    /\ UNCHANGED label

-----------------------------------------------------------------------------
(* The error analysis.                                                      *)

\* run_error_analysis: what stands for an answer.
Answer(ret, available, says) ==
    IF ret = <<>> THEN "not found" ELSE IF available THEN says ELSE "no model"

\* lower() turns the first letter of "Ilgili belge bulunamadi", a dotted capital
\* I, into two characters, so that this one of the phrases is not recognised.
IsNoAnswer(answer) == answer \in {"no model", "a refusal", "nothing"}

\* _classify_heuristic: `covered`, some context has the words of the answer;
\* `close`, the ground truth has them.
Classify(answer, relevant, ret, covered, close) ==
    IF IsNoAnswer(answer) THEN "no_answer"
    ELSE IF relevant # "" /\ relevant \notin Range(ret) THEN "retrieval_fail"
    ELSE IF ~covered THEN "hallucination"
    ELSE IF ~close THEN "wrong_citation" ELSE "correct"

ClassifyAnswer ==
    /\ graded = <<>> /\ label = <<>>
    /\ \E ret \in Retrieved, relevant \in Files \cup {""}, close \in BOOLEAN,
          says \in {"an answer", "a refusal", "nothing"}, covered \in BOOLEAN,
          available \in BOOLEAN :
        /\ covered => ret # <<>>
        /\ label' = [ret |-> ret, relevant |-> relevant,
                     available |-> available, says |-> says,
                     category |-> Classify(Answer(ret, available, says),
                                           relevant, ret, covered, close)]
    /\ UNCHANGED graded

MetricsNext == ScoreRanking \/ ClassifyAnswer

MetricsSpec == MetricsInit /\ [][MetricsNext]_metricsVars

-----------------------------------------------------------------------------
\* Every score is a fraction, although a file may be retrieved with many chunks
\* and a cut-off may be larger than what was retrieved.
ScoresAreFractions ==
    graded # <<>> =>
        /\ {graded.recall, graded.precision, graded.mrr, graded.ap,
            graded.contextPrecision, graded.contextRecall} \subseteq 0..Whole
        /\ graded.dcg <= graded.ideal

\* The first m chunks are of different relevant files.
Begins(ret, rel, m) ==
    Len(ret) >= m /\ FirstHits(ret, rel) \cap 1..m = 1..m

\* Average precision and nDCG are perfect for exactly those rankings that begin
\* with the relevant files, each once.
PerfectMeansPerfect ==
    graded # <<>> /\ graded.rel # {} =>
        LET n == Cardinality(graded.rel)
        IN  /\ (graded.ap = Whole) <=> Begins(graded.ret, graded.rel, n)
            /\ (graded.dcg = graded.ideal)
                  <=> Begins(graded.ret, graded.rel, Min({n, graded.k}))

\* Recall never falls with the cut-off, and at the end of the ranking the two
\* evaluations agree on it, as they do on precision when no file repeats.
EvaluationsAgree ==
    graded # <<>> =>
        LET ret == graded.ret rel == graded.rel
        IN  /\ graded.recall <= Recall(ret, rel, graded.k + 1)
            /\ Len(ret) <= graded.k => graded.recall = graded.contextRecall
            /\ IsInjective(ret) /\ Len(ret) = graded.k =>
                graded.precision = graded.contextPrecision

\* An answer is called correct only if the model gave it from chunks among
\* which the relevant file was, although the words it is compared with may be
\* anywhere.
CorrectMeansRetrieved ==
    label # <<>> /\ label.category = "correct" =>
        /\ label.available /\ label.says = "an answer" /\ label.ret # <<>>
        /\ label.relevant \in Range(label.ret) \cup {""}

\* The numbers of an evaluation and its label for success mean what their names
\* say, whatever repeats in the ranking and wherever it is cut.
ScoresAreHonest ==
    /\ ScoresAreFractions
    /\ PerfectMeansPerfect
    /\ EvaluationsAgree
    /\ CorrectMeansRetrieved
=============================================================================
