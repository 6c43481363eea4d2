------------------------------- MODULE Chunker -------------------------------
(***************************************************************************)
(* The four chunkers (ingestion/chunker.py) on the sizes of what they cut: *)
(* sentences, paragraphs or a number of characters.  A text is given by    *)
(* the sizes of its units; nothing here depends on their letters.          *)
(***************************************************************************)
EXTENDS Integers, Sequences, SequencesExt, FiniteSetsExt

CONSTANTS
    MaxChars,       \* MAX_CHARS, max_chars
    OverlapChars,   \* OVERLAP_CHARS
    Overlaps,       \* overlap_chars of the other chunkers
    MinChars,       \* MIN_SENTENCE_CHARS
    Sizes,          \* sizes of sentences, words and paragraphs
    MaxUnits        \* bound: units of a text

ASSUME ChunkerAssumption ==
    /\ MaxChars \in Nat \ {0} /\ OverlapChars \in Nat /\ MinChars \in Nat
    /\ OverlapChars < MaxChars /\ Overlaps \subseteq Nat
    /\ Sizes \subseteq Nat \ {0} /\ MaxUnits \in Nat

VARIABLES
    task,       \* the last text: strategy, units, overlap
    pieces      \* its chunks
chunkerVars == <<task, pieces>>

Strategies == {"turkish", "fixed", "recursive", "paragraph"}
NoBuffer == [first |-> 0, last |-> 0, size |-> 0]

\* The sizes of the first n units together.
Sums(q) ==
    LET sum[n \in 0..Len(q)] == IF n = 0 THEN 0 ELSE sum[n - 1] + q[n].size
    IN  sum

Total(q) == Sums(q)[Len(q)]
\* The size of units joined by a separator of that width.
Joined(q, width) == IF q = <<>> THEN 0 ELSE Total(q) + width * (Len(q) - 1)
Units(sizes) ==
    [i \in DOMAIN sizes |-> [first |-> i, last |-> i, size |-> sizes[i]]]
Join(a, b, width) ==
    IF a = NoBuffer THEN b
    ELSE [first |-> a.first, last |-> b.last, size |-> a.size + width + b.size]

-----------------------------------------------------------------------------
(* TurkishChunker.                                                          *)

WithRest_Dropped(merged, rest) == merged

\* A short rest is joined to the last sentence, if there is one.
WithRest(merged, rest) ==
    IF rest = NoBuffer THEN merged
    ELSE IF merged = <<>> THEN <<rest>>
    ELSE Append(Front(merged), Join(Last(merged), rest, 1))

\* A short sentence is joined to the next one.
MergeNext(acc, s) ==
    LET buffer == Join(acc.buffer, s, 1)
    IN  IF buffer.size >= MinChars
          THEN [merged |-> Append(acc.merged, buffer), buffer |-> NoBuffer]
          ELSE [merged |-> acc.merged, buffer |-> buffer]

Merging(sentences) ==
    LET turn[n \in 0..Len(sentences)] ==
            IF n = 0 THEN [merged |-> <<>>, buffer |-> NoBuffer]
                     ELSE MergeNext(turn[n - 1], sentences[n])
    IN  turn

MergeShort(sentences) ==
    LET end == Merging(sentences)[Len(sentences)]
    IN  WithRest(end.merged, end.buffer)

EndOf(q, k) == SubSeq(q, Len(q) - k + 1, Len(q))

Fits(filled, size) == filled + size + 1 <= MaxChars

\* _build_overlap: the most sentences of the end that fit.
Overlap(q) ==
    EndOf(q, Max({k \in 0..Len(q) : Joined(EndOf(q, k), 1) <= OverlapChars}))

\* _build_chunks: the overlap is not counted against the size of a chunk.
CutOff(acc) == Append(acc.chunks, [own |-> acc.own, overlap |-> acc.overlap])

TakeSentence(acc, s) ==
    IF acc.own = <<>> \/ Fits(Total(acc.own) + Len(acc.own), s.size)
      THEN [chunks |-> acc.chunks, own |-> Append(acc.own, s),
            overlap |-> acc.overlap]
      ELSE [chunks |-> CutOff(acc), own |-> <<s>>, overlap |-> Overlap(acc.own)]

Building(sentences) ==
    LET turn[n \in 0..Len(sentences)] ==
            IF n = 0 THEN [chunks |-> <<>>, own |-> <<>>, overlap |-> <<>>]
                     ELSE TakeSentence(turn[n - 1], sentences[n])
    IN  turn

BuildChunks(sentences) ==
    LET end == Building(sentences)[Len(sentences)]
    IN  IF end.own = <<>> THEN end.chunks ELSE CutOff(end)

-----------------------------------------------------------------------------
(* FixedSizeChunker: spans of characters; `ended` tells that the loop ends. *)

NextStart(end, size, overlap) == IF end < size THEN end - overlap ELSE size

NextSpan(acc, size, overlap) ==
    IF acc.start >= size THEN acc
    ELSE LET end == IF acc.start + MaxChars < size THEN acc.start + MaxChars
                                                   ELSE size
         IN  [spans |-> Append(acc.spans, [first |-> acc.start, last |-> end]),
              start |-> NextStart(end, size, overlap)]

\* A turn that makes progress makes one character of it at least, so more turns
\* than characters mean that the loop goes on for ever.
Sliding(size, overlap) ==
    LET turn[n \in 0..size + 1] ==
            IF n = 0 THEN [spans |-> <<>>, start |-> 0]
                     ELSE NextSpan(turn[n - 1], size, overlap)
    IN  turn

FixedChunks(size, overlap) ==
    LET end == Sliding(size, overlap)[size + 1]
    IN  [spans |-> end.spans, ended |-> end.start >= size]

-----------------------------------------------------------------------------
(* RecursiveChunker: a separator is a blank here; a word that is too long   *)
(* falls into characters, which the merge joins with blanks.                *)

\* The words with the places of their first and last characters; the blanks
\* between them are not counted.
Located(words) ==
    [i \in DOMAIN words |->
        [first |-> Sums(words)[i - 1] + 1, last |-> Sums(words)[i],
         size |-> words[i].size]]

Letters(u) ==
    [i \in 1..u.size |->
        [first |-> u.first + i - 1, last |-> u.first + i - 1, size |-> 1]]
PartsOf(u) == IF u.size <= MaxChars THEN <<u>> ELSE Letters(u)

Splitting(words) ==
    LET turn[n \in 0..Len(words)] ==
            IF n = 0 THEN <<>>
                     ELSE turn[n - 1] \o PartsOf(words[n])
    IN  turn

SplitParts(words) ==
    IF words # <<>> /\ Joined(words, 1) <= MaxChars
      THEN <<[first |-> 1, last |-> Total(words), size |-> Joined(words, 1)]>>
      ELSE Splitting(Located(words))[Len(words)]

Flushed(merged, buffer) ==
    IF buffer = NoBuffer THEN merged ELSE Append(merged, buffer)

\* The tail of a full buffer begins the next one, which has its own characters
\* from `first` on.
JoinPart(acc, part, overlap) ==
    IF acc.buffer = NoBuffer \/ Fits(acc.buffer.size, part.size)
      THEN [merged |-> acc.merged, buffer |-> Join(acc.buffer, part, 1)]
      ELSE [merged |-> Flushed(acc.merged, acc.buffer),
            buffer |-> IF overlap = 0 THEN part
                       ELSE [part EXCEPT !.size =
                                @ + 1 + Min({overlap, acc.buffer.size})]]

Joining(parts, overlap) ==
    LET turn[n \in 0..Len(parts)] ==
            IF n = 0 THEN [merged |-> <<>>, buffer |-> NoBuffer]
                     ELSE JoinPart(turn[n - 1], parts[n], overlap)
    IN  turn

MergeWithOverlap(parts, overlap) ==
    LET end == Joining(parts, overlap)[Len(parts)]
    IN  Flushed(end.merged, end.buffer)

-----------------------------------------------------------------------------
(* ParagraphChunker: paragraphs merged while they fit, long ones cut.       *)

TakeParagraph(acc, p) ==
    LET candidate == Join(acc.buffer, p, 2)
    IN  IF candidate.size <= MaxChars
          THEN [merged |-> acc.merged, buffer |-> candidate]
          ELSE [merged |-> Flushed(acc.merged, acc.buffer), buffer |-> p]

Gathering(paragraphs) ==
    LET turn[n \in 0..Len(paragraphs)] ==
            IF n = 0 THEN [merged |-> <<>>, buffer |-> NoBuffer]
                     ELSE TakeParagraph(turn[n - 1], paragraphs[n])
    IN  turn

MergeParagraphs(paragraphs) ==
    LET end == Gathering(paragraphs)[Len(paragraphs)]
    IN  Flushed(end.merged, end.buffer)

\* A whole paragraph is one span.
ChunkParagraph(p, overlap) ==
    LET whole == <<[first |-> 0, last |-> p.size]>>
        cut == IF p.size > MaxChars THEN FixedChunks(p.size, overlap)
                                    ELSE [spans |-> whole, ended |-> TRUE]
    IN  [first |-> p.first, last |-> p.last, size |-> p.size,
         spans |-> cut.spans, ended |-> cut.ended]

ChunkParagraphs(paragraphs, overlap) ==
    LET merged == MergeParagraphs(paragraphs)
        cuts == [i \in DOMAIN merged |-> ChunkParagraph(merged[i], overlap)]
    IN  [cuts |-> cuts, ended |-> \A i \in DOMAIN cuts : cuts[i].ended]

-----------------------------------------------------------------------------
Chunk(strategy, units, overlap) ==
    CASE strategy = "turkish"   -> BuildChunks(MergeShort(units))
      [] strategy = "fixed"     -> FixedChunks(Total(units), overlap)
      [] strategy = "recursive" -> MergeWithOverlap(SplitParts(units), overlap)
      [] OTHER -> ChunkParagraphs(units, overlap)

ChunkerInit == task = <<>> /\ pieces = <<>>

ChunkText ==
    /\ task = <<>>
    /\ \E strategy \in Strategies, sizes \in SeqOf(Sizes, MaxUnits) :
        \E overlap \in IF strategy = "turkish" THEN {OverlapChars}
                       ELSE Overlaps :
            /\ task' = [strategy |-> strategy, units |-> Units(sizes),
                        overlap |-> overlap]
            /\ pieces' = Chunk(strategy, Units(sizes), overlap)

ChunkerSpec == ChunkerInit /\ [][ChunkText]_chunkerVars

-----------------------------------------------------------------------------
\* Each of q begins where the one before it ends.
Connected(q) ==
    \A i \in DOMAIN q :
        q[i].first <= q[i].last /\ (i > 1 => q[i].first = q[i - 1].last + 1)

\* q speaks of each unit once, in order.
Covers(q, units) ==
    /\ q = <<>> <=> units = <<>>
    /\ Connected(q)
    /\ q # <<>> => q[1].first = 1 /\ q[Len(q)].last = Len(units)

\* No sentence is lost, doubled or moved, although short ones are merged forward
\* and the rest backward; what a chunk repeats is the end of the one before it.
TurkishKeepsTheText ==
    task # <<>> /\ task.strategy = "turkish" =>
        /\ \A i \in DOMAIN pieces :
            pieces[i].own # <<>> /\ Connected(pieces[i].own)
        /\ Covers([i \in DOMAIN pieces |->
                    [first |-> pieces[i].own[1].first,
                     last |-> pieces[i].own[Len(pieces[i].own)].last]],
                  task.units)
        /\ \A i \in DOMAIN pieces :
            IF i = 1 THEN pieces[i].overlap = <<>>
                     ELSE IsSuffix(pieces[i].overlap, pieces[i - 1].own)

\* A chunk is longer than MAX_CHARS plus the overlap only for a single sentence,
\* and no sentence is shorter than MIN_SENTENCE_CHARS unless it is all there is.
TurkishChunksAreBounded ==
    task # <<>> /\ task.strategy = "turkish" =>
        \A i \in DOMAIN pieces :
            /\ Joined(pieces[i].overlap \o pieces[i].own, 1)
                    <= MaxChars + OverlapChars \/ Len(pieces[i].own) = 1
            /\ \A j \in DOMAIN pieces[i].own :
                pieces[i].own[j].size >= MinChars
                    \/ (Len(pieces) = 1 /\ Len(pieces[i].own) = 1)

\* Every character is in a chunk, none of which is too long, and consecutive
\* chunks share the overlap.
SpansCover(spans, size, overlap) ==
    /\ spans[1].first = 0 /\ spans[Len(spans)].last = size
    /\ \A i \in DOMAIN spans : spans[i].last <= spans[i].first + MaxChars
    /\ \A i \in 1..Len(spans) - 1 :
        spans[i + 1].first = spans[i].last - overlap

\* FixedSizeChunker ends unless the overlap is as large as the chunks and the
\* text is longer than one; then its chunks cover the text.
FixedCoversOrNeverEnds ==
    task # <<>> /\ task.strategy = "fixed" =>
        LET size == Total(task.units)
        IN  /\ pieces.ended <=> task.overlap < MaxChars \/ size <= MaxChars
            /\ pieces.ended /\ size > 0 =>
                SpansCover(pieces.spans, size, task.overlap)

\* RecursiveChunker puts every character of every word, also of one that it cuts
\* into letters, in the own part of exactly one chunk, in order.
RecursiveKeepsTheText ==
    task # <<>> /\ task.strategy = "recursive" =>
        /\ pieces = <<>> <=> task.units = <<>>
        /\ Connected(pieces)
        /\ pieces # <<>> =>
            pieces[1].first = 1 /\ pieces[Len(pieces)].last = Total(task.units)

\* Its chunks are longer than the maximum by the overlap and a blank at most.
RecursiveChunksAreBounded ==
    task # <<>> /\ task.strategy = "recursive" =>
        \A i \in DOMAIN pieces : pieces[i].size <= MaxChars + task.overlap + 1

\* ParagraphChunker ends unless the overlap is as large as the chunks and some
\* paragraph is longer than one.  Then it has lost no paragraph; it has cut only
\* what was too long by itself, and its spans cover what they cut.
ParagraphsAreKeptOrNeverEnd ==
    task # <<>> /\ task.strategy = "paragraph" =>
        /\ pieces.ended <=>
            \/ task.overlap < MaxChars
            \/ \A i \in DOMAIN task.units : task.units[i].size <= MaxChars
        /\ pieces.ended =>
            /\ Covers(pieces.cuts, task.units)
            /\ \A i \in DOMAIN pieces.cuts :
                LET cut == pieces.cuts[i]
                IN  /\ SpansCover(cut.spans, cut.size, task.overlap)
                    /\ Len(cut.spans) > 1 => cut.first = cut.last

\* What the four chunkers promise, whatever the sizes of sentences, words and
\* paragraphs: the whole text, in order, in chunks of a bounded size (a sentence
\* is never cut), unless the overlap makes the loop of the fixed size endless.
ChunksAreFaithful ==
    /\ TurkishKeepsTheText /\ TurkishChunksAreBounded
    /\ FixedCoversOrNeverEnds
    /\ RecursiveKeepsTheText /\ RecursiveChunksAreBounded
    /\ ParagraphsAreKeptOrNeverEnd
=============================================================================
