------------------------------ MODULE Citations ------------------------------
(***************************************************************************)
(* What an answer is said to rest on: the chunks that its [Kaynak N] marks *)
(* name (generation/citations.py) and the sources of each of its sentences *)
(* (generation/attribution.py).  Similarities are integers.                *)
(***************************************************************************)
EXTENDS Integers, Sequences, SequencesExt, FiniteSetsExt, Sorting

CONSTANTS
    Names,          \* file names; "" is a chunk without one
    MaxContext,     \* bound: chunks given to the model
    MaxPairs,       \* bound: pairs of a sentence and a chunk to be compared
    Similarities,   \* cosine similarities of a sentence and a chunk
    Grain,          \* what 0.0001 is among them
    Enough,         \* ATTRIBUTION_THRESHOLD
    MaxSources      \* MAX_SOURCES_PER_SENTENCE

ASSUME CitationAssumption ==
    /\ Similarities \subseteq Int /\ Enough \in Int /\ Enough > 0
    /\ Grain \in Nat \ {0} /\ MaxSources \in Nat \ {0} /\ MaxContext \in Nat
    /\ MaxPairs \in Nat

VARIABLES
    cited,      \* the last answer's chunks, marks and citations
    attributed  \* the last answer's chunks, similarities and sources
citationVars == <<cited, attributed>>

Nothing == <<>>
CitationInit == cited = Nothing /\ attributed = Nothing

-----------------------------------------------------------------------------
InRange(marks, n) == {i \in marks : 1 <= i /\ i <= n}

ExtractCitations_OnlyUnmarked(marks, n) ==
    IF marks = {} THEN 1..n ELSE InRange(marks, n)

\* extract_citations: all the chunks if no mark names one of them.
ExtractCitations(marks, n) ==
    IF InRange(marks, n) = {} THEN 1..n ELSE InRange(marks, n)

Cite ==
    /\ cited = Nothing /\ attributed = Nothing
    /\ \E n \in 0..MaxContext, marks \in SUBSET (0..(MaxContext + 1)) :
        cited' = [n |-> n, marks |-> marks,
                  chunks |-> ExtractCitations(marks, n)]
    /\ UNCHANGED attributed

\* The first with the largest score comes first.
Ranked(score, chunks) ==
    Sorted(chunks, {p \in chunks \X chunks :
        \/ score[p[1]] > score[p[2]]
        \/ score[p[1]] = score[p[2]] /\ p[1] < p[2]})

\* round(sim, 4), which rounds a half to the even neighbour.
Rounded(sim) ==
    LET q == sim \div Grain r == sim % Grain
    IN  IF 2 * r < Grain \/ (2 * r = Grain /\ q % 2 = 0) THEN q ELSE q + 1
Rounding(sims) == [i \in DOMAIN sims |-> Rounded(sims[i])]

Supporting(sims) == {i \in DOMAIN sims : sims[i] >= Enough}

\* argmax: the first of the chunks that are most similar, if it is at all.
Fallback(sims) ==
    LET best == Ranked(sims, DOMAIN sims)[1]
    IN  IF sims[best] > 0 THEN <<best>> ELSE <<>>

Sources(sims) ==
    IF Supporting(sims) = {} THEN Fallback(sims)
    ELSE LET all == Ranked(Rounding(sims), Supporting(sims))
         IN  SubSeq(all, 1, Min({MaxSources, Len(all)}))

\* A chunk above the threshold is cited even if the limit cuts it off, and even
\* without a name; the chunk one falls back to must have a name.
CitedDocs(sims, file) ==
    {file[i] : i \in Supporting(sims)} \cup
    ({file[i] : i \in Range(Sources(sims))} \ {""})

\* attribute_answer; an empty answer or no chunks give nothing.
Attribute ==
    /\ cited = Nothing /\ attributed = Nothing
    /\ \E file \in SeqOf(Names, MaxContext) \ {<<>>} :
        \E sims \in SeqOf([DOMAIN file -> Similarities],
                         MaxPairs \div Len(file)) \ {<<>>} :
            attributed' =
                [file |-> file, sims |-> sims,
                 sources |-> [s \in DOMAIN sims |-> Sources(sims[s])],
                 docs |-> UNION {CitedDocs(sims[s], file) : s \in DOMAIN sims}]
    /\ UNCHANGED cited

CitationNext == Cite \/ Attribute

CitationSpec == CitationInit /\ [][CitationNext]_citationVars

-----------------------------------------------------------------------------
(* Properties.                                                              *)

\* An answer from chunks is never shown without a citation, although the model
\* may write marks that name no chunk; such a mark cites nothing beside others.
CitationsAreNeverMissing ==
    cited # Nothing =>
        /\ cited.n > 0 => cited.chunks # {}
        /\ cited.chunks \subseteq 1..cited.n
        /\ cited.chunks \cap cited.marks # {} =>
            cited.chunks \subseteq cited.marks

AreTheClosest(a) ==
    LET Chosen(s) == Range(a.sources[s])
    IN  /\ \A s \in DOMAIN a.sims, i, j \in DOMAIN a.file :
            j \in Chosen(s) =>
                /\ a.sims[s][i] > a.sims[s][j] + Grain => i \in Chosen(s)
                /\ a.sims[s][j] < Enough =>
                    Chosen(s) = {j} /\ a.sims[s][i] <= a.sims[s][j]
        /\ \A s \in DOMAIN a.sims, j \in DOMAIN a.file :
            j \in Chosen(s) => a.file[j] \in a.docs \cup {""}
        /\ \A d \in a.docs : \E s \in DOMAIN a.sims, j \in DOMAIN a.file :
            /\ a.file[j] = d
            /\ \/ j \in Chosen(s)
               \/ a.sims[s][j] >= Enough /\ Len(a.sources[s]) = MaxSources

\* No chunk is passed over for one that is less similar by more than the
\* rounding, and one below the threshold is a source only alone and as the most
\* similar of all.  The list of cited files has the file of every source, and
\* another only if it is similar enough and the limit kept it from being one.
SourcesAreTheClosest == attributed # Nothing => AreTheClosest(attributed)

\* An answer always rests on chunks that it was given, and on the best of them
\* up to the rounding of their scores.
CitationsAreFaithful == CitationsAreNeverMissing /\ SourcesAreTheClosest
=============================================================================
