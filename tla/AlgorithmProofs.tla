-------------------------- MODULE AlgorithmProofs --------------------------
(***************************************************************************)
(* The algorithms that keep no state between two calls, for every input    *)
(* and every value of their constants.                                     *)
(***************************************************************************)
EXTENDS Citations, Chunker, HybridRetrieval, EvalMetrics, LoopLemmas

-----------------------------------------------------------------------------
(* Citations: any marks, any similarities, any threshold and limit.         *)

\* The pairs of chunks that Ranked puts in this order.
Nearer(score, chunks) ==
    {p \in chunks \X chunks :
        \/ score[p[1]] > score[p[2]]
        \/ score[p[1]] = score[p[2]] /\ p[1] < p[2]}

\* Ranked lists the chunks, each once, those with the largest scores first.
LEMMA RankedLists ==
    ASSUME NEW n \in Nat, NEW score \in [1..n -> Int],
           NEW chunks \in SUBSET (1..n)
    PROVE  LET q == Ranked(score, chunks)
           IN  /\ q \in Seq(chunks) /\ Len(q) = Cardinality(chunks)
               /\ \A i \in chunks : \E k \in 1..Len(q) : q[k] = i
               /\ \A k, l \in 1..Len(q) :
                     score[q[k]] > score[q[l]] => k < l
               /\ chunks # {} => Len(q) >= 1
<1> DEFINE R == Nearer(score, chunks)
           q == Ranked(score, chunks)
<1>1. IsFiniteSet(chunks)
  <2>1. IsFiniteSet(1..n)
    BY FS_Interval
  <2>2. QED
    BY <2>1, FS_Subset
<1>2. \A i \in chunks : i \in Nat /\ score[i] \in Int
  OBVIOUS
<1>3. \A i, j \in chunks : <<i, j>> \in R <=>
         \/ score[i] > score[j]
         \/ score[i] = score[j] /\ i < j
  BY DEF Nearer
<1>4. OrdersAll(chunks, R)
  <2> HIDE DEF R
  <2>1. ASSUME NEW i \in chunks, NEW j \in chunks, i # j
        PROVE  <<i, j>> \in R \/ <<j, i>> \in R
    BY <1>2, <1>3, <2>1
  <2>2. ASSUME NEW i \in chunks, NEW j \in chunks, NEW k \in chunks,
               <<i, j>> \in R, <<j, k>> \in R
        PROVE  <<i, k>> \in R
    BY <1>2, <1>3, <2>2
  <2>3. \A i \in chunks : <<i, i>> \notin R
    BY <1>2, <1>3
  <2>4. QED
    BY <2>1, <2>2, <2>3 DEF OrdersAll
<1>5. q = Sorted(chunks, R)
  BY DEF Ranked, Nearer
<1> HIDE DEF R, q
<1>6. /\ Cardinality(chunks) \in Nat
      /\ q \in Seq(chunks) /\ Len(q) = Cardinality(chunks)
      /\ \A i \in chunks : \E k \in 1..Cardinality(chunks) : q[k] = i
      /\ \A k, l \in 1..Cardinality(chunks) : k < l <=> <<q[k], q[l]>> \in R
  <2>1. /\ Cardinality(chunks) \in Nat
        /\ Sorted(chunks, R) \in Seq(chunks)
        /\ Len(Sorted(chunks, R)) = Cardinality(chunks)
        /\ \A i \in chunks :
              \E k \in 1..Cardinality(chunks) : Sorted(chunks, R)[k] = i
        /\ \A k, l \in 1..Cardinality(chunks) :
              k < l <=> <<Sorted(chunks, R)[k], Sorted(chunks, R)[l]>> \in R
    BY <1>1, <1>4, SortedLists
  <2>2. QED
    BY <1>5, <2>1
<1>7. ASSUME NEW k \in 1..Len(q), NEW l \in 1..Len(q), score[q[k]] > score[q[l]]
      PROVE  k < l
  <2>1. q[k] \in chunks /\ q[l] \in chunks
    BY <1>6
  <2>2. <<q[k], q[l]>> \in R
    BY <1>3, <1>7, <2>1
  <2>3. QED
    BY <1>6, <2>2
<1>8. ASSUME chunks # {}
      PROVE  Len(q) >= 1
  <2>1. PICK i \in chunks : TRUE
    BY <1>8
  <2>2. PICK k \in 1..Cardinality(chunks) : q[k] = i
    BY <1>6
  <2>3. QED
    BY <1>6, <2>2
<1>9. QED
  BY <1>6, <1>7, <1>8 DEF q

\* The smaller of two numbers.
LEMMA MinOfTwo ==
    ASSUME NEW a \in Nat, NEW b \in Nat
    PROVE  Min({a, b}) = IF a <= b THEN a ELSE b
<1>1. CASE a <= b
  BY <1>1 DEF Min
<1>2. CASE ~(a <= b)
  BY <1>2 DEF Min
<1>3. QED
  BY <1>1, <1>2

\* A product grows with its factors.
LEMMA ProductGrows ==
    ASSUME NEW g \in Nat, NEW x \in Int, NEW y \in Int, x <= y
    PROVE  g * x <= g * y
<1>1. y - x \in Nat
  OBVIOUS
<1>2. g * (y - x) >= 0
  BY <1>1
<1>3. g * (y - x) = g * y - g * x
  OBVIOUS
<1>4. QED
  BY <1>2, <1>3

\* Rounding moves a similarity by half a grain at most.
LEMMA RoundingIsClose ==
    ASSUME NEW s \in Int
    PROVE  /\ Rounded(s) \in Int
           /\ 2 * s - Grain <= 2 * (Grain * Rounded(s))
           /\ 2 * (Grain * Rounded(s)) <= 2 * s + Grain
<1> DEFINE q == s \div Grain
           r == s % Grain
<1>1. Grain \in Nat \ {0}
  BY CitationAssumption
<1>2. q \in Int /\ r \in Int /\ 0 <= r /\ r < Grain /\ s = Grain * q + r
  BY <1>1
<1>3. Rounded(s) = IF 2 * r < Grain \/ (2 * r = Grain /\ q % 2 = 0)
                   THEN q ELSE q + 1
  BY DEF Rounded
<1> HIDE DEF q, r
<1>4. Grain * (q + 1) = Grain * q + Grain
  BY <1>1, <1>2
<1> DEFINE p == Grain * q
<1>5. p \in Int /\ s = p + r /\ Grain * (q + 1) = p + Grain
  BY <1>1, <1>2, <1>4
<1> HIDE DEF p
<1>6. CASE Rounded(s) = q /\ 2 * r <= Grain
  BY <1>1, <1>2, <1>5, <1>6 DEF p
<1>7. CASE Rounded(s) = q + 1 /\ 2 * r >= Grain
  BY <1>1, <1>2, <1>5, <1>7 DEF p
<1>8. \/ Rounded(s) = q /\ 2 * r <= Grain
      \/ Rounded(s) = q + 1 /\ 2 * r >= Grain
  BY <1>1, <1>2, <1>3
<1>9. QED
  BY <1>6, <1>7, <1>8

\* What is more similar by more than a grain has the larger score.
LEMMA RoundingKeepsOrder ==
    ASSUME NEW s \in Int, NEW t \in Int, s > t + Grain
    PROVE  Rounded(s) > Rounded(t)
<1>1. Grain \in Nat \ {0}
  BY CitationAssumption
<1>2. /\ Rounded(s) \in Int /\ 2 * s - Grain <= 2 * (Grain * Rounded(s))
      /\ Rounded(t) \in Int /\ 2 * (Grain * Rounded(t)) <= 2 * t + Grain
  BY RoundingIsClose
<1>3. CASE Rounded(s) <= Rounded(t)
  <2>1. Grain * Rounded(s) <= Grain * Rounded(t)
    BY <1>1, <1>2, <1>3, ProductGrows
  <2> DEFINE x == Grain * Rounded(s)
             y == Grain * Rounded(t)
  <2>2. x \in Int /\ y \in Int
    BY <1>1, <1>2
  <2>3. 2 * s - Grain <= 2 * x /\ 2 * y <= 2 * t + Grain /\ x <= y
    BY <1>2, <2>1
  <2> HIDE DEF x, y
  <2>4. FALSE
    BY <1>1, <2>2, <2>3
  <2>5. QED
    BY <2>4
<1>4. QED
  BY <1>2, <1>3

\* What one sentence rests on: no chunk is passed over for one that is less
\* similar by more than a grain, one below the threshold stands alone and is the
\* most similar, and only the limit leaves out a chunk above it.
LEMMA SourcesChosen ==
    ASSUME NEW n \in Nat \ {0}, NEW sims \in [1..n -> Similarities]
    PROVE  LET q == Sources(sims)
           IN  /\ q \in Seq(1..n)
               /\ \A i \in 1..n : \A j \in Range(q) :
                     /\ sims[i] > sims[j] + Grain => i \in Range(q)
                     /\ sims[j] < Enough =>
                           Range(q) = {j} /\ sims[i] <= sims[j]
               /\ \A i \in Supporting(sims) :
                     i \in Range(q) \/ Len(q) = MaxSources
<1> DEFINE S == Supporting(sims)
           q == Sources(sims)
<1>1. /\ S \in SUBSET (1..n) /\ DOMAIN sims = 1..n
      /\ \A i \in 1..n : sims[i] \in Int /\ (i \in S <=> sims[i] >= Enough)
  BY CitationAssumption DEF Supporting
<1>2. Enough \in Int /\ MaxSources \in Nat \ {0} /\ Grain \in Nat
  BY CitationAssumption
<1> HIDE DEF S
<1>3. CASE S = {}
  <2> DEFINE all == Ranked(sims, 1..n)
             best == all[1]
  <2>1. /\ all \in Seq(1..n)
        /\ \A i \in 1..n : \E k \in 1..Len(all) : all[k] = i
        /\ \A k, l \in 1..Len(all) : sims[all[k]] > sims[all[l]] => k < l
        /\ Len(all) >= 1
    <3>1. n \in Nat /\ 1..n \in SUBSET (1..n) /\ 1 \in 1..n
      OBVIOUS
    <3>2. 1..n # {} /\ sims \in [1..n -> Int]
      BY <1>1, <3>1
    <3> HIDE DEF all
    <3>3. QED
      BY <3>1, <3>2, RankedLists DEF all
  <2>2. q = IF sims[best] > 0 THEN <<best>> ELSE <<>>
    BY <1>1, <1>3 DEF Sources, Fallback, S
  <2> HIDE DEF all, q
  <2>3. best \in 1..n
    <3>1. 1 \in 1..Len(all)
      BY <2>1
    <3>2. all[1] \in 1..n
      BY <2>1, <3>1, ElementOfSeq
    <3>3. QED
      BY <3>2
  <2>4. \A i \in 1..n : sims[i] <= sims[best]
    <3>1. ASSUME NEW i \in 1..n, sims[i] > sims[best]
          PROVE  FALSE
      <4>1. PICK k \in 1..Len(all) : all[k] = i
        BY <2>1
      <4>2. 1 \in 1..Len(all)
        BY <2>1
      <4>3. k < 1
        BY <2>1, <3>1, <4>1, <4>2
      <4>4. QED
        BY <2>1, <4>3
    <3>2. QED
      BY <1>1, <2>3, <3>1
  <2> HIDE DEF best
  <2>5. q \in Seq(1..n) /\ (Range(q) = {} \/ Range(q) = {best})
    <3>1. <<best>> \in Seq(1..n) /\ Range(<<best>>) = {best}
      BY <2>3 DEF Range
    <3>2. <<>> \in Seq(1..n) /\ Range(<<>>) = {}
      BY DEF Range
    <3>3. q = <<best>> \/ q = <<>>
      BY <2>2
    <3>4. QED
      BY <3>1, <3>2, <3>3
  <2>6. \A i \in 1..n : \A j \in Range(q) :
           /\ ~(sims[i] > sims[j] + Grain)
           /\ Range(q) = {j} /\ sims[i] <= sims[j]
    BY <1>1, <1>2, <2>3, <2>4, <2>5
  <2>7. QED
    BY <1>3, <2>5, <2>6 DEF S, q
<1>4. CASE S # {}
  <2> DEFINE score == Rounding(sims)
             all == Ranked(score, S)
             m == IF MaxSources <= Len(all) THEN MaxSources ELSE Len(all)
  <2>0. score \in [1..n -> Int] /\ \A i \in 1..n : score[i] = Rounded(sims[i])
    BY <1>1, RoundingIsClose DEF Rounding
  <2> HIDE DEF score
  <2>1. /\ all \in Seq(S)
        /\ \A i \in S : \E k \in 1..Len(all) : all[k] = i
        /\ \A k, l \in 1..Len(all) : score[all[k]] > score[all[l]] => k < l
        /\ Len(all) >= 1
    BY <1>1, <1>4, <2>0, RankedLists
  <2>2. Len(all) \in Nat
    BY <2>1
  <2>3. q = SubSeq(all, 1, m)
    <3>1. Min({MaxSources, Len(all)}) = m
      BY <1>2, <2>2, MinOfTwo
    <3>2. QED
      BY <1>1, <1>4, <3>1 DEF Sources, S, score
  <2> HIDE DEF all, q
  <2>4. m \in 1..Len(all) /\ (m = Len(all) \/ m = MaxSources)
    BY <1>2, <2>1, <2>2
  <2> HIDE DEF m
  <2>5. q \in Seq(S) /\ Len(q) = m /\ \A k \in 1..m : q[k] = all[k]
    <3> HIDE DEF S
    <3>1. /\ 1 \in 1..Len(all) + 1 /\ m \in 0..Len(all) /\ 1 <= m + 1
          /\ (m - 1) + 1 = m /\ \A k \in 1..m : 1 + (k - 1) = k
      BY <2>2, <2>4
    <3>2. /\ q \in Seq(S) /\ Len(q) = (m - 1) + 1
          /\ \A k \in 1..(m - 1) + 1 : q[k] = all[1 + (k - 1)]
      BY <2>1, <2>3, <3>1, PartOfList
    <3>3. QED
      BY <3>1, <3>2
  <2>6. \A j : j \in Range(q) <=> \E k \in 1..m : all[k] = j
    <3>1. DOMAIN q = 1..m
      BY <2>5
    <3>2. QED
      BY <2>5, <3>1 DEF Range
  <2>7. ASSUME NEW i \in 1..n, NEW j \in Range(q), sims[i] > sims[j] + Grain
        PROVE  i \in Range(q)
    <3>1. PICK l \in 1..m : all[l] = j
      BY <2>6
    <3>2. l \in 1..Len(all) /\ j \in S
      BY <2>1, <2>4, <3>1
    <3>3. i \in S /\ score[i] > score[j]
      BY <1>1, <1>2, <2>0, <2>7, <3>2, RoundingKeepsOrder,
         SMTT(30)
    <3>4. PICK k \in 1..Len(all) : all[k] = i
      BY <2>1, <3>3
    <3>5. k < l
      BY <2>1, <3>1, <3>2, <3>3, <3>4
    <3>6. k \in 1..m
      BY <2>2, <2>4, <3>5
    <3>7. QED
      BY <2>6, <3>4, <3>6
  <2>8. ASSUME NEW j \in Range(q)
        PROVE  ~(sims[j] < Enough)
    <3>1. j \in S
      BY <2>1, <2>4, <2>6, SMTT(30)
    <3>2. QED
      BY <1>1, <1>2, <3>1
  <2>9. ASSUME NEW i \in S, i \notin Range(q)
        PROVE  Len(q) = MaxSources
    <3>1. PICK k \in 1..Len(all) : all[k] = i
      BY <2>1
    <3>2. m # Len(all)
      BY <2>6, <2>9, <3>1
    <3>3. QED
      BY <2>4, <2>5, <3>2
  <2>10. q \in Seq(1..n)
    BY <1>1, <2>5, SeqMonotonic
  <2>11. QED
    BY <2>7, <2>8, <2>9, <2>10 DEF S, q
<1>5. QED
  BY <1>3, <1>4

\* Lists of bounded length, but for the empty one.
LEMMA ListsOfSet ==
    ASSUME NEW S, NEW N, NEW q \in SeqOf(S, N) \ {<<>>}
    PROVE  /\ q \in Seq(S) /\ Len(q) \in Nat \ {0}
           /\ q \in [1..Len(q) -> S] /\ DOMAIN q = 1..Len(q)
<1>1. PICK m \in 0..N : q \in [1..m -> S]
  BY DEF SeqOf
<1>2. m \in Nat
  OBVIOUS
<1>3. q \in Seq(S) /\ Len(q) = m
  BY <1>1, <1>2, FunctionIsList
<1>4. q # <<>>
  OBVIOUS
<1>5. Len(q) # 0
  BY <1>3, <1>4, EmptySeq
<1>6. QED
  BY <1>1, <1>2, <1>3, <1>5

\* extract_citations cites what the marks name, or everything.
LEMMA CiteIsFaithful ==
    ASSUME Cite
    PROVE  CitationsAreNeverMissing'
<1>1. PICK n \in 0..MaxContext, marks \in SUBSET (0..(MaxContext + 1)) :
         cited' = [n |-> n, marks |-> marks,
                   chunks |-> ExtractCitations(marks, n)]
  BY DEF Cite
<1> DEFINE E == ExtractCitations(marks, n)
<1>2. /\ n > 0 => E # {}
      /\ E \subseteq 1..n
      /\ E \cap marks # {} => E \subseteq marks
  <2>1. CASE InRange(marks, n) = {}
    <3>1. E = 1..n
      BY <2>1 DEF ExtractCitations
    <3>2. E \cap marks = {}
      BY <2>1, <3>1 DEF InRange
    <3>3. n > 0 => 1 \in 1..n
      OBVIOUS
    <3>4. QED
      BY <3>1, <3>2, <3>3
  <2>2. CASE InRange(marks, n) # {}
    <3>1. E = InRange(marks, n)
      BY <2>2 DEF ExtractCitations
    <3>2. InRange(marks, n) \subseteq marks /\ InRange(marks, n) \subseteq 1..n
      <4>1. \A i \in marks : i \in Int
        BY CitationAssumption
      <4>2. ASSUME NEW i \in InRange(marks, n)
            PROVE  i \in marks /\ i \in 1..n
        <5>1. i \in marks /\ 1 <= i /\ i <= n
          BY DEF InRange
        <5>2. i \in Int
          BY <4>1, <5>1
        <5>3. QED
          BY <5>1, <5>2
      <4>3. QED
        BY <4>2
    <3>3. QED
      BY <2>2, <3>1, <3>2
  <2>3. QED
    BY <2>1, <2>2
<1> HIDE DEF E
<1>3. cited'.n = n /\ cited'.marks = marks /\ cited'.chunks = E
  BY <1>1 DEF E
<1>4. QED
  BY <1>2, <1>3 DEF CitationsAreNeverMissing

\* attribute_answer keeps SourcesAreTheClosest for every sentence.
LEMMA AttributeIsFaithful ==
    ASSUME Attribute
    PROVE  SourcesAreTheClosest'
<1>1. PICK file \in SeqOf(Names, MaxContext) \ {<<>>} :
         \E sims \in SeqOf([DOMAIN file -> Similarities],
                          MaxPairs \div Len(file)) \ {<<>>} :
            attributed' =
                [file |-> file, sims |-> sims,
                 sources |-> [s \in DOMAIN sims |-> Sources(sims[s])],
                 docs |-> UNION {CitedDocs(sims[s], file) : s \in DOMAIN sims}]
  BY DEF Attribute
<1>2. PICK sims \in SeqOf([DOMAIN file -> Similarities],
                          MaxPairs \div Len(file)) \ {<<>>} :
         attributed' =
             [file |-> file, sims |-> sims,
              sources |-> [s \in DOMAIN sims |-> Sources(sims[s])],
              docs |-> UNION {CitedDocs(sims[s], file) : s \in DOMAIN sims}]
  BY <1>1
<1> DEFINE n == Len(file)
           a == attributed'
<1>3. n \in Nat \ {0} /\ DOMAIN file = 1..n
  BY ListsOfSet
<1>4. \A s \in DOMAIN sims : sims[s] \in [1..n -> Similarities]
  BY <1>3, ListsOfSet
<1>5. /\ a.file = file /\ a.sims = sims
      /\ \A s \in DOMAIN sims : a.sources[s] = Sources(sims[s])
      /\ a.docs = UNION {CitedDocs(sims[s], file) : s \in DOMAIN sims}
  BY <1>2
<1> HIDE DEF n, a
<1>6. ASSUME NEW s \in DOMAIN sims
      PROVE  /\ Sources(sims[s]) \in Seq(1..n)
             /\ \A i \in 1..n : \A j \in Range(Sources(sims[s])) :
                   /\ sims[s][i] > sims[s][j] + Grain
                        => i \in Range(Sources(sims[s]))
                   /\ sims[s][j] < Enough =>
                        /\ Range(Sources(sims[s])) = {j}
                        /\ sims[s][i] <= sims[s][j]
             /\ \A i \in Supporting(sims[s]) :
                   \/ i \in Range(Sources(sims[s]))
                   \/ Len(Sources(sims[s])) = MaxSources
  BY <1>3, <1>4, SourcesChosen
<1>7. ASSUME NEW s \in DOMAIN sims, NEW j \in Range(Sources(sims[s]))
      PROVE  file[j] \in a.docs \cup {""}
  <2>1. file[j] \in CitedDocs(sims[s], file) \cup {""}
    BY DEF CitedDocs
  <2>2. QED
    BY <1>5, <2>1
<1>8. ASSUME NEW d \in a.docs
      PROVE  \E s \in DOMAIN sims, j \in 1..n :
                /\ file[j] = d
                /\ \/ j \in Range(Sources(sims[s]))
                   \/ /\ sims[s][j] >= Enough
                      /\ Len(Sources(sims[s])) = MaxSources
  <2>1. PICK s \in DOMAIN sims : d \in CitedDocs(sims[s], file)
    BY <1>5
  <2>2. Supporting(sims[s]) \subseteq 1..n
    BY <1>4 DEF Supporting
  <2>3. Range(Sources(sims[s])) \subseteq 1..n
    BY <1>6, RangeOfList
  <2>4. PICK j \in Supporting(sims[s]) \cup Range(Sources(sims[s])) :
           d = file[j]
    BY <2>1 DEF CitedDocs
  <2>5. j \in 1..n
    BY <2>2, <2>3
  <2>6. \/ j \in Range(Sources(sims[s]))
        \/ /\ sims[s][j] >= Enough
           /\ Len(Sources(sims[s])) = MaxSources
    BY <1>6, <2>4 DEF Supporting
  <2>7. QED
    BY <2>4, <2>5, <2>6
<1>9. \A s \in DOMAIN a.sims, i, j \in DOMAIN a.file :
         j \in Range(a.sources[s]) =>
            /\ a.sims[s][i] > a.sims[s][j] + Grain => i \in Range(a.sources[s])
            /\ a.sims[s][j] < Enough =>
                 Range(a.sources[s]) = {j} /\ a.sims[s][i] <= a.sims[s][j]
  BY <1>3, <1>5, <1>6 DEF n
<1>10. \A s \in DOMAIN a.sims, j \in DOMAIN a.file :
          j \in Range(a.sources[s]) => a.file[j] \in a.docs \cup {""}
  BY <1>5, <1>7
<1>11. \A d \in a.docs : \E s \in DOMAIN a.sims, j \in DOMAIN a.file :
          /\ a.file[j] = d
          /\ \/ j \in Range(a.sources[s])
             \/ a.sims[s][j] >= Enough /\ Len(a.sources[s]) = MaxSources
  <2>1. ASSUME NEW d \in a.docs
        PROVE  \E s \in DOMAIN a.sims, j \in DOMAIN a.file :
                  /\ a.file[j] = d
                  /\ \/ j \in Range(a.sources[s])
                     \/ /\ a.sims[s][j] >= Enough
                        /\ Len(a.sources[s]) = MaxSources
    BY <1>3, <1>5, <1>8
  <2>2. QED
    BY <2>1
<1>12. QED
  BY <1>9, <1>10, <1>11 DEF SourcesAreTheClosest, AreTheClosest, a

\* For every number of chunks and sentences, every set of marks, all file names
\* and similarities: citations are never missing, and sources are the closest up
\* to the rounding of their scores.
THEOREM CitationsFaithful == CitationSpec => []CitationsAreFaithful
<1>1. CitationInit => CitationsAreFaithful
  BY DEF CitationInit, CitationsAreFaithful, CitationsAreNeverMissing,
     SourcesAreTheClosest
<1>2. CitationsAreFaithful /\ [CitationNext]_citationVars
        => CitationsAreFaithful'
  <2> SUFFICES ASSUME CitationsAreFaithful, [CitationNext]_citationVars
               PROVE  CitationsAreFaithful'
    OBVIOUS
  <2>1. CASE Cite
    <3>1. UNCHANGED attributed
      BY <2>1 DEF Cite
    <3>2. SourcesAreTheClosest'
      BY <3>1 DEF CitationsAreFaithful, SourcesAreTheClosest
    <3>3. QED
      BY <2>1, <3>2, CiteIsFaithful DEF CitationsAreFaithful
  <2>2. CASE Attribute
    <3>1. UNCHANGED cited
      BY <2>2 DEF Attribute
    <3>2. CitationsAreNeverMissing'
      BY <3>1 DEF CitationsAreFaithful, CitationsAreNeverMissing
    <3>3. QED
      BY <2>2, <3>2, AttributeIsFaithful DEF CitationsAreFaithful
  <2>3. CASE UNCHANGED citationVars
    <3>1. UNCHANGED cited /\ UNCHANGED attributed
      BY <2>3 DEF citationVars
    <3>2. CitationsAreNeverMissing'
      BY <3>1 DEF CitationsAreFaithful, CitationsAreNeverMissing
    <3>3. SourcesAreTheClosest'
      BY <3>1 DEF CitationsAreFaithful, SourcesAreTheClosest
    <3>4. QED
      BY <3>2, <3>3 DEF CitationsAreFaithful
  <2>4. QED
    BY <2>1, <2>2, <2>3 DEF CitationNext
<1>3. QED
  BY <1>1, <1>2, PTL DEF CitationSpec

-----------------------------------------------------------------------------
(* Chunkers: any sizes of sentences, words and paragraphs, any limits.     *)

\* Units, merged or not, and spans of them.
Stretch == [first : Nat, last : Nat, size : Nat]

\* An element of a list of stretches, and its size.
LEMMA UnitOfList ==
    ASSUME NEW q \in Seq(Stretch), NEW n \in 1..Len(q)
    PROVE  /\ q[n] \in Stretch
           /\ q[n].first \in Nat /\ q[n].last \in Nat /\ q[n].size \in Nat
<1>1. q[n] \in Stretch
  OBVIOUS
<1>2. QED
  BY <1>1 DEF Stretch

\* Sums adds the sizes one by one.
LEMMA SumsRun ==
    ASSUME NEW q \in Seq(Stretch)
    PROVE  /\ Sums(q) \in [0..Len(q) -> Nat]
           /\ Sums(q)[0] = 0
           /\ \A n \in 1..Len(q) :
                 Sums(q)[n] =
                    Sums(q)[n - 1] + q[n].size
<1> DEFINE N == Len(q)
           start == 0
           step == [x \in Nat \X (1..N) |->
                      x[1] + q[x[2]].size]
           f == Sums(q)
<1>1. N \in Nat
  OBVIOUS
<1>2. \A s \in Nat, n \in 1..N :
         s + q[n].size \in Nat
  <2>1. ASSUME NEW s \in Nat, NEW n \in 1..N
        PROVE  s + q[n].size \in Nat
    <3>1. q[n].size \in Nat
      BY UnitOfList
    <3> HIDE DEF N
    <3>2. QED
      BY <3>1
  <2>2. QED
    BY <2>1
<1>3. start \in Nat
  OBVIOUS
<1>4. step \in [Nat \X (1..N) -> Nat]
  BY <1>2
<1>5. \A s \in Nat, n \in 1..N :
         step[<<s, n>>] = s + q[n].size
  OBVIOUS
<1> HIDE DEF step
<1>6. PICK g \in [0..N -> Nat] : Runs(g, N, start, step)
  <2> HIDE DEF N
  <2>1. QED
    BY <1>1, <1>3, <1>4, LoopComputes, Zenon
<1> HIDE DEF N
<1>7. ASSUME NEW n \in 0..N
      PROVE  g[n] = IF n = 0 THEN start
                     ELSE g[n - 1] + q[n].size
  <2>1. CASE n = 0
    BY <1>6, <2>1 DEF Runs
  <2>2. CASE n # 0
    <3>1. n \in 1..N /\ g[n - 1] \in Nat
      BY <1>1, <1>6, <2>2
    <3>2. QED
      BY <1>5, <1>6, <2>2, <3>1 DEF Runs
  <2>3. QED
    BY <2>1, <2>2
<1>8. g = [n \in 0..N |-> IF n = 0 THEN start
                          ELSE g[n - 1] + q[n].size]
  BY <1>7
<1>9. f = [n \in 0..N |-> IF n = 0 THEN start
                          ELSE f[n - 1] + q[n].size]
  BY <1>8 DEF Sums, N
<1> HIDE DEF f
<1>10. DOMAIN f = 0..N /\ f[0] = start
  BY <1>1, <1>9
<1>11. \A n \in 1..N :
          f[n] = f[n - 1] + q[n].size
  <2>1. \A n \in 1..N : n \in 0..N /\ n # 0
    BY <1>1
  <2>2. QED
    BY <1>9, <2>1
<1>12. \A n \in 1..N : f[n - 1] \in Nat => f[n] \in Nat
  BY <1>2, <1>11
<1>13. f[0] \in Nat
  BY <1>3, <1>10
<1>14. \A n \in 0..N : f[n] \in Nat
  BY <1>1, <1>12, <1>13, LoopStays, Zenon
<1>15. f \in [0..N -> Nat]
  BY <1>9, <1>14
<1>16. QED
  BY <1>10, <1>11, <1>15 DEF f, N

\* What the loops that merge pieces hold between two turns.
MergeStates == [merged : Seq(Stretch), buffer : Stretch]

\* No buffer is an empty stretch; two joined stretches are one.
LEMMA JoinedStretch ==
    ASSUME NEW a \in Stretch, NEW b \in Stretch, NEW width \in Nat
    PROVE  Join(a, b, width) \in Stretch /\ NoBuffer \in Stretch
  BY DEF Stretch, Join, NoBuffer

\* A list with a buffer behind it.
LEMMA FlushedList ==
    ASSUME NEW q \in Seq(Stretch), NEW b \in Stretch
    PROVE  Flushed(q, b) \in Seq(Stretch)
  BY DEF Flushed

\* The three loops that merge keep their type.
LEMMA MergeTypes ==
    ASSUME NEW acc \in MergeStates, NEW s \in Stretch, NEW overlap \in Nat
    PROVE  /\ MergeNext(acc, s) \in MergeStates
           /\ JoinPart(acc, s, overlap) \in MergeStates
           /\ TakeParagraph(acc, s) \in MergeStates
<1>1. acc.merged \in Seq(Stretch) /\ acc.buffer \in Stretch
  BY DEF MergeStates
<1>2. /\ Join(acc.buffer, s, 1) \in Stretch
      /\ Join(acc.buffer, s, 2) \in Stretch
      /\ NoBuffer \in Stretch
  <2>1. 1 \in Nat /\ 2 \in Nat
    OBVIOUS
  <2>2. QED
    BY <1>1, <2>1, JoinedStretch
<1>3. Flushed(acc.merged, acc.buffer) \in Seq(Stretch)
  BY <1>1, FlushedList
<1>4. MergeNext(acc, s) \in MergeStates
  BY <1>1, <1>2 DEF MergeNext, MergeStates
<1>5. TakeParagraph(acc, s) \in MergeStates
  BY <1>1, <1>2, <1>3 DEF TakeParagraph, MergeStates
<1>6. JoinPart(acc, s, overlap) \in MergeStates
  <2> DEFINE tail == [s EXCEPT !.size = @ + 1 + Min({overlap, acc.buffer.size})]
  <2>1. Min({overlap, acc.buffer.size}) \in Nat
    <3>1. acc.buffer.size \in Nat
      BY <1>1 DEF Stretch
    <3>2. QED
      BY <3>1, MinOfTwo
  <2>2. tail \in Stretch
    BY <2>1 DEF Stretch
  <2> HIDE DEF tail
  <2>3. QED
    BY <1>1, <1>2, <1>3, <2>2 DEF JoinPart, MergeStates, tail
<1>7. QED
  BY <1>4, <1>5, <1>6

\* The turns of _merge_short.
LEMMA MergingRuns ==
    ASSUME NEW q \in Seq(Stretch)
    PROVE  /\ Merging(q) \in [0..Len(q) -> MergeStates]
           /\ Merging(q)[0] = [merged |-> <<>>, buffer |-> NoBuffer]
           /\ \A n \in 1..Len(q) :
                 Merging(q)[n] =
                    MergeNext(Merging(q)[n - 1], q[n])
<1> DEFINE N == Len(q)
           start == [merged |-> <<>>, buffer |-> NoBuffer]
           step == [x \in MergeStates \X (1..N) |->
                      MergeNext(x[1], q[x[2]])]
           f == Merging(q)
<1>1. N \in Nat
  OBVIOUS
<1>2. \A s \in MergeStates, n \in 1..N :
         MergeNext(s, q[n]) \in MergeStates
  <2>1. ASSUME NEW s \in MergeStates, NEW n \in 1..N
        PROVE  MergeNext(s, q[n]) \in MergeStates
    <3>1. q[n] \in Stretch /\ 0 \in Nat
      BY UnitOfList
    <3> HIDE DEF N
    <3>2. QED
      BY <3>1, MergeTypes
  <2>2. QED
    BY <2>1
<1>3. start \in MergeStates
  <2>1. NoBuffer \in Stretch
    BY DEF NoBuffer, Stretch
  <2>2. QED
    BY <2>1 DEF MergeStates
<1>4. step \in [MergeStates \X (1..N) -> MergeStates]
  BY <1>2
<1>5. \A s \in MergeStates, n \in 1..N :
         step[<<s, n>>] = MergeNext(s, q[n])
  OBVIOUS
<1> HIDE DEF step
<1>6. PICK g \in [0..N -> MergeStates] : Runs(g, N, start, step)
  <2> HIDE DEF N
  <2>1. QED
    BY <1>1, <1>3, <1>4, LoopComputes, Zenon
<1> HIDE DEF N
<1>7. ASSUME NEW n \in 0..N
      PROVE  g[n] = IF n = 0 THEN start
                     ELSE MergeNext(g[n - 1], q[n])
  <2>1. CASE n = 0
    BY <1>6, <2>1 DEF Runs
  <2>2. CASE n # 0
    <3>1. n \in 1..N /\ g[n - 1] \in MergeStates
      BY <1>1, <1>6, <2>2
    <3>2. QED
      BY <1>5, <1>6, <2>2, <3>1 DEF Runs
  <2>3. QED
    BY <2>1, <2>2
<1>8. g = [n \in 0..N |-> IF n = 0 THEN start
                          ELSE MergeNext(g[n - 1], q[n])]
  BY <1>7
<1>9. f = [n \in 0..N |-> IF n = 0 THEN start
                          ELSE MergeNext(f[n - 1], q[n])]
  BY <1>8 DEF Merging, N
<1> HIDE DEF f
<1>10. DOMAIN f = 0..N /\ f[0] = start
  BY <1>1, <1>9
<1>11. \A n \in 1..N :
          f[n] = MergeNext(f[n - 1], q[n])
  <2>1. \A n \in 1..N : n \in 0..N /\ n # 0
    BY <1>1
  <2>2. QED
    BY <1>9, <2>1
<1>12. \A n \in 1..N : f[n - 1] \in MergeStates => f[n] \in MergeStates
  BY <1>2, <1>11
<1>13. f[0] \in MergeStates
  BY <1>3, <1>10
<1>14. \A n \in 0..N : f[n] \in MergeStates
  BY <1>1, <1>12, <1>13, LoopStays, Zenon
<1>15. f \in [0..N -> MergeStates]
  BY <1>9, <1>14
<1>16. QED
  BY <1>10, <1>11, <1>15 DEF f, N

\* The turns of _merge_with_overlap.
LEMMA JoiningRuns ==
    ASSUME NEW q \in Seq(Stretch), NEW overlap \in Nat
    PROVE  /\ Joining(q, overlap) \in [0..Len(q) -> MergeStates]
           /\ Joining(q, overlap)[0] = [merged |-> <<>>, buffer |-> NoBuffer]
           /\ \A n \in 1..Len(q) :
                 Joining(q, overlap)[n] =
                    JoinPart(Joining(q, overlap)[n - 1], q[n], overlap)
<1> DEFINE N == Len(q)
           start == [merged |-> <<>>, buffer |-> NoBuffer]
           step == [x \in MergeStates \X (1..N) |->
                      JoinPart(x[1], q[x[2]], overlap)]
           f == Joining(q, overlap)
<1>1. N \in Nat
  OBVIOUS
<1>2. \A s \in MergeStates, n \in 1..N :
         JoinPart(s, q[n], overlap) \in MergeStates
  <2>1. ASSUME NEW s \in MergeStates, NEW n \in 1..N
        PROVE  JoinPart(s, q[n], overlap) \in MergeStates
    <3>1. q[n] \in Stretch /\ 0 \in Nat
      BY UnitOfList
    <3> HIDE DEF N
    <3>2. QED
      BY <3>1, MergeTypes
  <2>2. QED
    BY <2>1
<1>3. start \in MergeStates
  <2>1. NoBuffer \in Stretch
    BY DEF NoBuffer, Stretch
  <2>2. QED
    BY <2>1 DEF MergeStates
<1>4. step \in [MergeStates \X (1..N) -> MergeStates]
  BY <1>2
<1>5. \A s \in MergeStates, n \in 1..N :
         step[<<s, n>>] = JoinPart(s, q[n], overlap)
  OBVIOUS
<1> HIDE DEF step
<1>6. PICK g \in [0..N -> MergeStates] : Runs(g, N, start, step)
  <2> HIDE DEF N
  <2>1. QED
    BY <1>1, <1>3, <1>4, LoopComputes, Zenon
<1> HIDE DEF N
<1>7. ASSUME NEW n \in 0..N
      PROVE  g[n] = IF n = 0 THEN start
                     ELSE JoinPart(g[n - 1], q[n], overlap)
  <2>1. CASE n = 0
    BY <1>6, <2>1 DEF Runs
  <2>2. CASE n # 0
    <3>1. n \in 1..N /\ g[n - 1] \in MergeStates
      BY <1>1, <1>6, <2>2
    <3>2. QED
      BY <1>5, <1>6, <2>2, <3>1 DEF Runs
  <2>3. QED
    BY <2>1, <2>2
<1>8. g = [n \in 0..N |-> IF n = 0 THEN start
                          ELSE JoinPart(g[n - 1], q[n], overlap)]
  BY <1>7
<1>9. f = [n \in 0..N |-> IF n = 0 THEN start
                          ELSE JoinPart(f[n - 1], q[n], overlap)]
  BY <1>8 DEF Joining, N
<1> HIDE DEF f
<1>10. DOMAIN f = 0..N /\ f[0] = start
  BY <1>1, <1>9
<1>11. \A n \in 1..N :
          f[n] = JoinPart(f[n - 1], q[n], overlap)
  <2>1. \A n \in 1..N : n \in 0..N /\ n # 0
    BY <1>1
  <2>2. QED
    BY <1>9, <2>1
<1>12. \A n \in 1..N : f[n - 1] \in MergeStates => f[n] \in MergeStates
  BY <1>2, <1>11
<1>13. f[0] \in MergeStates
  BY <1>3, <1>10
<1>14. \A n \in 0..N : f[n] \in MergeStates
  BY <1>1, <1>12, <1>13, LoopStays, Zenon
<1>15. f \in [0..N -> MergeStates]
  BY <1>9, <1>14
<1>16. QED
  BY <1>10, <1>11, <1>15 DEF f, N

\* The turns of the loop over paragraphs.
LEMMA GatheringRuns ==
    ASSUME NEW q \in Seq(Stretch)
    PROVE  /\ Gathering(q) \in [0..Len(q) -> MergeStates]
           /\ Gathering(q)[0] = [merged |-> <<>>, buffer |-> NoBuffer]
           /\ \A n \in 1..Len(q) :
                 Gathering(q)[n] =
                    TakeParagraph(Gathering(q)[n - 1], q[n])
<1> DEFINE N == Len(q)
           start == [merged |-> <<>>, buffer |-> NoBuffer]
           step == [x \in MergeStates \X (1..N) |->
                      TakeParagraph(x[1], q[x[2]])]
           f == Gathering(q)
<1>1. N \in Nat
  OBVIOUS
<1>2. \A s \in MergeStates, n \in 1..N :
         TakeParagraph(s, q[n]) \in MergeStates
  <2>1. ASSUME NEW s \in MergeStates, NEW n \in 1..N
        PROVE  TakeParagraph(s, q[n]) \in MergeStates
    <3>1. q[n] \in Stretch /\ 0 \in Nat
      BY UnitOfList
    <3> HIDE DEF N
    <3>2. QED
      BY <3>1, MergeTypes
  <2>2. QED
    BY <2>1
<1>3. start \in MergeStates
  <2>1. NoBuffer \in Stretch
    BY DEF NoBuffer, Stretch
  <2>2. QED
    BY <2>1 DEF MergeStates
<1>4. step \in [MergeStates \X (1..N) -> MergeStates]
  BY <1>2
<1>5. \A s \in MergeStates, n \in 1..N :
         step[<<s, n>>] = TakeParagraph(s, q[n])
  OBVIOUS
<1> HIDE DEF step
<1>6. PICK g \in [0..N -> MergeStates] : Runs(g, N, start, step)
  <2> HIDE DEF N
  <2>1. QED
    BY <1>1, <1>3, <1>4, LoopComputes, Zenon
<1> HIDE DEF N
<1>7. ASSUME NEW n \in 0..N
      PROVE  g[n] = IF n = 0 THEN start
                     ELSE TakeParagraph(g[n - 1], q[n])
  <2>1. CASE n = 0
    BY <1>6, <2>1 DEF Runs
  <2>2. CASE n # 0
    <3>1. n \in 1..N /\ g[n - 1] \in MergeStates
      BY <1>1, <1>6, <2>2
    <3>2. QED
      BY <1>5, <1>6, <2>2, <3>1 DEF Runs
  <2>3. QED
    BY <2>1, <2>2
<1>8. g = [n \in 0..N |-> IF n = 0 THEN start
                          ELSE TakeParagraph(g[n - 1], q[n])]
  BY <1>7
<1>9. f = [n \in 0..N |-> IF n = 0 THEN start
                          ELSE TakeParagraph(f[n - 1], q[n])]
  BY <1>8 DEF Gathering, N
<1> HIDE DEF f
<1>10. DOMAIN f = 0..N /\ f[0] = start
  BY <1>1, <1>9
<1>11. \A n \in 1..N :
          f[n] = TakeParagraph(f[n - 1], q[n])
  <2>1. \A n \in 1..N : n \in 0..N /\ n # 0
    BY <1>1
  <2>2. QED
    BY <1>9, <2>1
<1>12. \A n \in 1..N : f[n - 1] \in MergeStates => f[n] \in MergeStates
  BY <1>2, <1>11
<1>13. f[0] \in MergeStates
  BY <1>3, <1>10
<1>14. \A n \in 0..N : f[n] \in MergeStates
  BY <1>1, <1>12, <1>13, LoopStays, Zenon
<1>15. f \in [0..N -> MergeStates]
  BY <1>9, <1>14
<1>16. QED
  BY <1>10, <1>11, <1>15 DEF f, N

\* Stretches that fit into a chunk.
Small == {s \in Stretch : s.size <= MaxChars}

\* The letters of a word fit.
LEMMA LettersFit ==
    ASSUME NEW u \in Stretch
    PROVE  Letters(u) \in Seq(Small) /\ Len(Letters(u)) = u.size
<1>1. u.size \in Nat /\ u.first \in Nat /\ 1 <= MaxChars
  BY ChunkerAssumption DEF Stretch
<1>2. ASSUME NEW i \in 1..u.size
      PROVE  [first |-> u.first + i - 1, last |-> u.first + i - 1, size |-> 1]
                \in Small
  <2>1. u.first + i - 1 \in Nat
    BY <1>1
  <2>2. QED
    BY <1>1, <2>1 DEF Stretch, Small
<1> DEFINE q == Letters(u)
<1>3. q \in [1..u.size -> Small]
  BY <1>2 DEF Letters
<1> HIDE DEF q
<1>4. q \in Seq(Small) /\ Len(q) = u.size
  BY <1>1, <1>3, FunctionIsList
<1>5. QED
  BY <1>4 DEF q

\* The turns of _split: what it collects fits into a chunk.
LEMMA SplittingRuns ==
    ASSUME NEW q \in Seq(Stretch)
    PROVE  /\ Splitting(q) \in [0..Len(q) -> Seq(Small)]
           /\ Splitting(q)[0] = <<>>
           /\ \A n \in 1..Len(q) :
                 Splitting(q)[n] =
                    Splitting(q)[n - 1] \o PartsOf(q[n])
<1> DEFINE N == Len(q)
           start == <<>>
           step == [x \in Seq(Small) \X (1..N) |->
                      x[1] \o PartsOf(q[x[2]])]
           f == Splitting(q)
<1>1. N \in Nat
  OBVIOUS
<1>2. \A s \in Seq(Small), n \in 1..N :
         s \o PartsOf(q[n]) \in Seq(Small)
  <2>1. ASSUME NEW s \in Seq(Small), NEW n \in 1..N
        PROVE  s \o PartsOf(q[n]) \in Seq(Small)
    <3>1. q[n] \in Stretch
      BY UnitOfList
    <3>2. Letters(q[n]) \in Seq(Small)
      BY <3>1, LettersFit
    <3>3. q[n].size <= MaxChars => q[n] \in Small
      BY <3>1 DEF Small
    <3> HIDE DEF N
    <3>4. PartsOf(q[n]) \in Seq(Small)
      BY <3>2, <3>3 DEF PartsOf
    <3>5. QED
      BY <3>4
  <2>2. QED
    BY <2>1
<1>3. start \in Seq(Small)
  OBVIOUS
<1>4. step \in [Seq(Small) \X (1..N) -> Seq(Small)]
  BY <1>2
<1>5. \A s \in Seq(Small), n \in 1..N :
         step[<<s, n>>] = s \o PartsOf(q[n])
  OBVIOUS
<1> HIDE DEF step
<1>6. PICK g \in [0..N -> Seq(Small)] : Runs(g, N, start, step)
  <2> HIDE DEF N
  <2>1. QED
    BY <1>1, <1>3, <1>4, LoopComputes, Zenon
<1> HIDE DEF N
<1>7. ASSUME NEW n \in 0..N
      PROVE  g[n] = IF n = 0 THEN start
                     ELSE g[n - 1] \o PartsOf(q[n])
  <2>1. CASE n = 0
    BY <1>6, <2>1 DEF Runs
  <2>2. CASE n # 0
    <3>1. n \in 1..N /\ g[n - 1] \in Seq(Small)
      BY <1>1, <1>6, <2>2
    <3>2. QED
      BY <1>5, <1>6, <2>2, <3>1 DEF Runs
  <2>3. QED
    BY <2>1, <2>2
<1>8. g = [n \in 0..N |-> IF n = 0 THEN start
                          ELSE g[n - 1] \o PartsOf(q[n])]
  BY <1>7
<1>9. f = [n \in 0..N |-> IF n = 0 THEN start
                          ELSE f[n - 1] \o PartsOf(q[n])]
  BY <1>8 DEF Splitting, N
<1> HIDE DEF f
<1>10. DOMAIN f = 0..N /\ f[0] = start
  BY <1>1, <1>9
<1>11. \A n \in 1..N :
          f[n] = f[n - 1] \o PartsOf(q[n])
  <2>1. \A n \in 1..N : n \in 0..N /\ n # 0
    BY <1>1
  <2>2. QED
    BY <1>9, <2>1
<1>12. \A n \in 1..N : f[n - 1] \in Seq(Small) => f[n] \in Seq(Small)
  BY <1>2, <1>11
<1>13. f[0] \in Seq(Small)
  BY <1>3, <1>10
<1>14. \A n \in 0..N : f[n] \in Seq(Small)
  BY <1>1, <1>12, <1>13, LoopStays, Zenon
<1>15. f \in [0..N -> Seq(Small)]
  BY <1>9, <1>14
<1>16. QED
  BY <1>10, <1>11, <1>15 DEF f, N

\* The words of a text at their places.
LEMMA WordsAreLocated ==
    ASSUME NEW q \in Seq(Stretch)
    PROVE  /\ Located(q) \in Seq(Stretch) /\ Len(Located(q)) = Len(q)
           /\ \A n \in 1..Len(q) :
                 Located(q)[n] = [first |-> Sums(q)[n - 1] + 1,
                                  last |-> Sums(q)[n], size |-> q[n].size]
<1> DEFINE N == Len(q)
           r == Located(q)
<1>1. N \in Nat /\ DOMAIN q = 1..N
  OBVIOUS
<1>2. Sums(q) \in [0..N -> Nat]
  BY SumsRun
<1>3. ASSUME NEW n \in 1..N
      PROVE  [first |-> Sums(q)[n - 1] + 1, last |-> Sums(q)[n],
              size |-> q[n].size] \in Stretch
  <2>1. n - 1 \in 0..N /\ n \in 0..N
    BY <1>1
  <2>2. Sums(q)[n - 1] + 1 \in Nat /\ Sums(q)[n] \in Nat
    BY <1>2, <2>1
  <2>3. q[n].size \in Nat
    BY UnitOfList
  <2>4. QED
    BY <2>2, <2>3 DEF Stretch
<1>4. r = [n \in 1..N |-> [first |-> Sums(q)[n - 1] + 1,
                           last |-> Sums(q)[n], size |-> q[n].size]]
  BY <1>1 DEF Located
<1> HIDE DEF r, N
<1>5. r \in [1..N -> Stretch]
  BY <1>3, <1>4
<1>6. r \in Seq(Stretch) /\ Len(r) = N
  BY <1>1, <1>5, FunctionIsList
<1>7. QED
  BY <1>4, <1>6 DEF r, N

\* Every part that _split hands to the merge fits into a chunk.
LEMMA PartsFit ==
    ASSUME NEW q \in Seq(Stretch)
    PROVE  SplitParts(q) \in Seq(Small)
<1> DEFINE w == Located(q)
<1>1. w \in Seq(Stretch) /\ Len(w) = Len(q)
  BY WordsAreLocated
<1> HIDE DEF w
<1>2. Splitting(w)[Len(q)] \in Seq(Small)
  <2>1. Len(q) \in 0..Len(w)
    BY <1>1
  <2>2. QED
    BY <1>1, <2>1, SplittingRuns
<1>3. CASE q # <<>> /\ Joined(q, 1) <= MaxChars
  <2>1. Len(q) \in Nat /\ Len(q) >= 1
    BY <1>3
  <2>2. Total(q) \in Nat
    BY SumsRun DEF Total
  <2>3. Joined(q, 1) \in Nat
    BY <1>3, <2>1, <2>2 DEF Joined
  <2>4. [first |-> 1, last |-> Total(q), size |-> Joined(q, 1)] \in Small
    BY <1>3, <2>2, <2>3 DEF Small, Stretch
  <2>5. QED
    BY <1>3, <2>4 DEF SplitParts
<1>4. QED
  BY <1>2, <1>3 DEF SplitParts, w

\* A merged chunk is longer than the maximum by an overlap and a blank at most.
LEMMA MergedFit ==
    ASSUME NEW q \in Seq(Small), NEW overlap \in Nat
    PROVE  /\ MergeWithOverlap(q, overlap) \in Seq(Stretch)
           /\ \A i \in 1..Len(MergeWithOverlap(q, overlap)) :
                 MergeWithOverlap(q, overlap)[i].size
                    <= MaxChars + overlap + 1
<1> DEFINE N == Len(q)
           f == Joining(q, overlap)
           L == {s \in Stretch : s.size <= MaxChars + overlap + 1}
           T == [merged : Seq(L), buffer : L]
<1>1. N \in Nat /\ MaxChars \in Nat /\ N \in 0..N
  BY ChunkerAssumption
<1>2. q \in Seq(Stretch)
  BY SeqMonotonic DEF Small
<1>3. /\ f[0] = [merged |-> <<>>, buffer |-> NoBuffer]
      /\ \A n \in 1..N : f[n] = JoinPart(f[n - 1], q[n], overlap)
  BY <1>2, JoiningRuns
<1>4. NoBuffer \in L
  BY <1>1 DEF NoBuffer, Stretch
<1>5. f[0] \in T
  BY <1>3, <1>4
<1>6. ASSUME NEW acc \in T, NEW s \in Small
      PROVE  JoinPart(acc, s, overlap) \in T
  <2>1. /\ acc.merged \in Seq(L) /\ acc.buffer \in L /\ s \in Stretch
        /\ s.size \in Nat /\ s.size <= MaxChars
        /\ acc.buffer.size \in Nat
    BY DEF Small, Stretch
  <2>2. /\ Join(acc.buffer, s, 1) \in Stretch
        /\ Join(acc.buffer, s, 1).size =
              IF acc.buffer = NoBuffer THEN s.size
                                       ELSE acc.buffer.size + 1 + s.size
    <3>1. 1 \in Nat /\ acc.buffer \in Stretch
      BY <2>1
    <3>2. Join(acc.buffer, s, 1) \in Stretch
      BY <2>1, <3>1, JoinedStretch
    <3>3. QED
      BY <3>2 DEF Join
  <2>3. ASSUME acc.buffer = NoBuffer \/ Fits(acc.buffer.size, s.size)
        PROVE  Join(acc.buffer, s, 1) \in L
    <3>1. Join(acc.buffer, s, 1).size <= MaxChars + overlap + 1
      BY <1>1, <2>1, <2>2, <2>3 DEF Fits
    <3>2. QED
      BY <2>2, <3>1
  <2>4. Flushed(acc.merged, acc.buffer) \in Seq(L)
    BY <2>1 DEF Flushed
  <2> DEFINE m == Min({overlap, acc.buffer.size})
             tail == [s EXCEPT !.size = @ + 1 + m]
  <2>5. m \in Nat /\ m <= overlap
    BY <2>1, MinOfTwo
  <2>6. s \in L
    BY <1>1, <2>1
  <2>7. tail \in L
    <3> HIDE DEF m
    <3>1. tail \in Stretch /\ tail.size = s.size + 1 + m
      <4>1. s \in Stretch /\ s.size + 1 + m \in Nat
        BY <2>1, <2>5
      <4> HIDE DEF L
      <4>2. QED
        BY <4>1 DEF Stretch
    <3>2. tail.size <= MaxChars + overlap + 1
      BY <1>1, <2>1, <2>5, <3>1
    <3>3. QED
      BY <3>1, <3>2
  <2> DEFINE r == JoinPart(acc, s, overlap)
  <2>8. ASSUME acc.buffer = NoBuffer \/ Fits(acc.buffer.size, s.size)
        PROVE  r \in T
    <3>1. r = [merged |-> acc.merged, buffer |-> Join(acc.buffer, s, 1)]
      BY <2>8 DEF JoinPart
    <3>2. acc.merged \in Seq(L) /\ Join(acc.buffer, s, 1) \in L
      BY <2>1, <2>3, <2>8
    <3> HIDE DEF L, r
    <3>3. QED
      BY <3>1, <3>2
  <2>9. ASSUME ~(acc.buffer = NoBuffer \/ Fits(acc.buffer.size, s.size))
        PROVE  r \in T
    <3>1. r = [merged |-> Flushed(acc.merged, acc.buffer),
               buffer |-> IF overlap = 0 THEN s ELSE tail]
      BY <2>9 DEF JoinPart
    <3> HIDE DEF L, r, tail
    <3>2. QED
      BY <2>4, <2>6, <2>7, <3>1
  <2> HIDE DEF T, r
  <2>10. r \in T
    BY <2>8, <2>9
  <2>11. QED
    BY <2>10 DEF r
<1>7. \A n \in 1..N : f[n - 1] \in T => f[n] \in T
  <2>1. \A n \in 1..N : q[n] \in Small
    OBVIOUS
  <2> HIDE DEF T, f, N
  <2>2. QED
    BY <1>3, <1>6, <2>1
<1>8. f[N] \in T
  <2> HIDE DEF T, f, N
  <2>1. \A n \in 0..N : f[n] \in T
    BY <1>1, <1>5, <1>7, LoopStays, Zenon
  <2>2. QED
    BY <1>1, <2>1
<1>9. Flushed(f[N].merged, f[N].buffer) \in Seq(L)
  BY <1>8 DEF Flushed
<1> DEFINE r == MergeWithOverlap(q, overlap)
<1>10. r \in Seq(L)
  BY <1>9 DEF MergeWithOverlap
<1> HIDE DEF r
<1>11. r \in Seq(Stretch)
  BY <1>10, SeqMonotonic
<1>12. \A i \in 1..Len(r) : r[i] \in L
  BY <1>10
<1>13. \A i \in 1..Len(r) : r[i].size <= MaxChars + overlap + 1
  BY <1>12
<1>14. QED
  BY <1>11, <1>13 DEF r

\* Spans of characters, and what FixedSizeChunker holds between two turns.
Spans == [first : Int, last : Int]
Slides == [spans : Seq(Spans), start : Int]

\* The end of the span that a turn cuts.
EndFrom(start, size) ==
    IF start + MaxChars < size THEN start + MaxChars ELSE size

\* One turn of FixedSizeChunker.
LEMMA SlideStep ==
    ASSUME NEW acc \in Slides, NEW size \in Nat, NEW overlap \in Nat
    PROVE  LET next == NextSpan(acc, size, overlap)
               end == EndFrom(acc.start, size)
           IN  /\ next \in Slides
               /\ acc.start >= size => next = acc
               /\ ~(acc.start >= size) =>
                    /\ end \in Int
                    /\ next.spans = Append(acc.spans, [first |-> acc.start,
                                                       last |-> end])
                    /\ next.start = IF end < size THEN end - overlap ELSE size
<1> DEFINE next == NextSpan(acc, size, overlap)
           end == EndFrom(acc.start, size)
           cut == [first |-> acc.start, last |-> end]
<1>1. /\ acc.spans \in Seq(Spans) /\ acc.start \in Int
      /\ MaxChars \in Nat /\ size \in Int /\ overlap \in Int
  BY ChunkerAssumption DEF Slides
<1>2. end \in Int
  BY <1>1 DEF EndFrom
<1>3. CASE acc.start >= size
  BY <1>1, <1>3 DEF NextSpan
<1>4. CASE ~(acc.start >= size)
  <2>1. next = [spans |-> Append(acc.spans, cut),
                start |-> IF end < size THEN end - overlap ELSE size]
    BY <1>4 DEF NextSpan, NextStart, EndFrom
  <2>2. cut \in Spans
    BY <1>1, <1>2 DEF Spans
  <2>3. (IF end < size THEN end - overlap ELSE size) \in Int
    BY <1>1, <1>2
  <2> HIDE DEF next, end, cut
  <2>4. Append(acc.spans, cut) \in Seq(Spans)
    BY <1>1, <2>2
  <2>5. next \in Slides
    BY <2>1, <2>3, <2>4 DEF Slides
  <2>6. QED
    BY <1>2, <1>4, <2>1, <2>5 DEF next, end, cut
<1>5. QED
  BY <1>3, <1>4

\* The turns of FixedSizeChunker.
LEMMA SlidingRuns ==
    ASSUME NEW size \in Nat, NEW overlap \in Nat
    PROVE  /\ Sliding(size, overlap) \in [0..size + 1 -> Slides]
           /\ Sliding(size, overlap)[0] = [spans |-> <<>>, start |-> 0]
           /\ \A n \in 1..size + 1 :
                 Sliding(size, overlap)[n] =
                    NextSpan(Sliding(size, overlap)[n - 1], size, overlap)
<1> DEFINE N == size + 1
           start == [spans |-> <<>>, start |-> 0]
           step == [x \in Slides \X (1..N) |->
                      NextSpan(x[1], size, overlap)]
           f == Sliding(size, overlap)
<1>1. N \in Nat
  OBVIOUS
<1>2. \A s \in Slides, n \in 1..N :
         NextSpan(s, size, overlap) \in Slides
  BY SlideStep
<1>3. start \in Slides
  BY DEF Slides
<1>4. step \in [Slides \X (1..N) -> Slides]
  BY <1>2
<1>5. \A s \in Slides, n \in 1..N :
         step[<<s, n>>] = NextSpan(s, size, overlap)
  OBVIOUS
<1> HIDE DEF step
<1>6. PICK g \in [0..N -> Slides] : Runs(g, N, start, step)
  <2> HIDE DEF N
  <2>1. QED
    BY <1>1, <1>3, <1>4, LoopComputes, Zenon
<1> HIDE DEF N
<1>7. ASSUME NEW n \in 0..N
      PROVE  g[n] = IF n = 0 THEN start
                     ELSE NextSpan(g[n - 1], size, overlap)
  <2>1. CASE n = 0
    BY <1>6, <2>1 DEF Runs
  <2>2. CASE n # 0
    <3>1. n \in 1..N /\ g[n - 1] \in Slides
      BY <1>1, <1>6, <2>2
    <3>2. QED
      BY <1>5, <1>6, <2>2, <3>1 DEF Runs
  <2>3. QED
    BY <2>1, <2>2
<1>8. g = [n \in 0..N |-> IF n = 0 THEN start
                          ELSE NextSpan(g[n - 1], size, overlap)]
  BY <1>7
<1>9. f = [n \in 0..N |-> IF n = 0 THEN start
                          ELSE NextSpan(f[n - 1], size, overlap)]
  BY <1>8 DEF Sliding, N
<1> HIDE DEF f
<1>10. DOMAIN f = 0..N /\ f[0] = start
  BY <1>1, <1>9
<1>11. \A n \in 1..N :
          f[n] = NextSpan(f[n - 1], size, overlap)
  <2>1. \A n \in 1..N : n \in 0..N /\ n # 0
    BY <1>1
  <2>2. QED
    BY <1>9, <2>1
<1>12. \A n \in 1..N : f[n - 1] \in Slides => f[n] \in Slides
  BY <1>2, <1>11
<1>13. f[0] \in Slides
  BY <1>3, <1>10
<1>14. \A n \in 0..N : f[n] \in Slides
  BY <1>1, <1>12, <1>13, LoopStays, Zenon
<1>15. f \in [0..N -> Slides]
  BY <1>9, <1>14
<1>16. QED
  BY <1>10, <1>11, <1>15 DEF f, N

\* FixedSizeChunker ends unless the overlap is as large as the chunks and the
\* text is longer than one.
LEMMA FixedEnds ==
    ASSUME NEW size \in Nat, NEW overlap \in Nat
    PROVE  Sliding(size, overlap)[size + 1].start >= size
              <=> overlap < MaxChars \/ size <= MaxChars
<1> DEFINE N == size + 1
           f == Sliding(size, overlap)
<1>1. N \in Nat /\ N \in 0..N /\ MaxChars \in Nat /\ MaxChars > 0
  BY ChunkerAssumption
<1>2. /\ f \in [0..N -> Slides] /\ f[0] = [spans |-> <<>>, start |-> 0]
      /\ \A n \in 1..N : f[n] = NextSpan(f[n - 1], size, overlap)
  BY SlidingRuns
<1> HIDE DEF f
<1>3. \A n \in 0..N : f[n] \in Slides /\ f[n].start \in Int
  BY <1>2 DEF Slides
<1>4. ASSUME NEW n \in 0..N, n < N
      PROVE  /\ n + 1 \in 0..N
             /\ f[n].start >= size => f[n + 1].start = f[n].start
             /\ ~(f[n].start >= size) =>
                   f[n + 1].start =
                      IF f[n].start + MaxChars < size
                        THEN f[n].start + MaxChars - overlap ELSE size
  <2>1. n + 1 \in 1..N /\ (n + 1) - 1 = n /\ f[n] \in Slides
    BY <1>1, <1>3, <1>4
  <2>2. f[n + 1] = NextSpan(f[n], size, overlap)
    BY <1>2, <2>1
  <2>3. /\ f[n].start >= size => f[n + 1] = f[n]
        /\ ~(f[n].start >= size) =>
              f[n + 1].start = IF EndFrom(f[n].start, size) < size
                                 THEN EndFrom(f[n].start, size) - overlap
                                 ELSE size
    <3> DEFINE acc == f[n]
    <3>1. acc \in Slides
      BY <2>1
    <3> HIDE DEF acc
    <3>2. /\ acc.start >= size => NextSpan(acc, size, overlap) = acc
          /\ ~(acc.start >= size) =>
                NextSpan(acc, size, overlap).start =
                   IF EndFrom(acc.start, size) < size
                     THEN EndFrom(acc.start, size) - overlap ELSE size
      BY <3>1, SlideStep
    <3>3. QED
      BY <2>2, <3>2 DEF acc
  <2>4. f[n].start \in Int
    BY <1>3
  <2> HIDE DEF N
  <2>5. QED
    BY <1>1, <2>1, <2>3, <2>4 DEF EndFrom
<1>5. ASSUME overlap < MaxChars
      PROVE  f[N].start >= size
  <2> DEFINE D == {n \in 0..N : f[n].start >= n \/ f[n].start >= size}
  <2>1. 0 \in D
    BY <1>1, <1>2
  <2>2. ASSUME NEW n \in 0..N, n \in D, n < N
        PROVE  n + 1 \in D
    <3>1. f[n].start \in Int /\ n \in Nat
      BY <1>3
    <3>2. f[n + 1].start >= n + 1 \/ f[n + 1].start >= size
      BY <1>1, <1>4, <1>5, <2>2, <3>1
    <3>3. QED
      BY <1>4, <2>2, <3>2
  <2> HIDE DEF D, N
  <2>3. N \in D
    <3>1. \A n \in 0..N : n \in D
      BY <1>1, <2>1, <2>2, TurnByTurn
    <3>2. QED
      BY <1>1, <3>1
  <2>4. f[N].start \in Int
    BY <1>1, <1>3
  <2>5. QED
    BY <2>3, <2>4 DEF D, N
<1>6. ASSUME size <= MaxChars
      PROVE  f[N].start >= size
  <2> DEFINE D == {n \in 0..N : IF n = 0 THEN f[n].start = 0
                                         ELSE f[n].start >= size}
  <2>1. 0 \in D
    BY <1>1, <1>2
  <2>2. ASSUME NEW n \in 0..N, n \in D, n < N
        PROVE  n + 1 \in D
    <3>1. f[n].start \in Int /\ n \in Nat
      BY <1>3
    <3>2. f[n + 1].start >= size
      BY <1>1, <1>4, <1>6, <2>2, <3>1
    <3>3. QED
      BY <1>4, <2>2, <3>1, <3>2
  <2> HIDE DEF D, N
  <2>3. N \in D
    <3>1. \A n \in 0..N : n \in D
      BY <1>1, <2>1, <2>2, TurnByTurn
    <3>2. QED
      BY <1>1, <3>1
  <2>4. QED
    BY <2>3 DEF D, N
<1>7. ASSUME ~(overlap < MaxChars), ~(size <= MaxChars)
      PROVE  ~(f[N].start >= size)
  <2> DEFINE D == {n \in 0..N : f[n].start <= 0}
  <2>1. 0 \in D
    BY <1>1, <1>2
  <2>2. ASSUME NEW n \in 0..N, n \in D, n < N
        PROVE  n + 1 \in D
    <3>1. f[n].start \in Int /\ f[n].start <= 0
      BY <1>3, <2>2
    <3>2. f[n + 1].start = f[n].start + MaxChars - overlap
      BY <1>1, <1>4, <1>7, <2>2, <3>1
    <3>3. f[n + 1].start <= 0
      BY <1>1, <1>7, <3>1, <3>2
    <3>4. QED
      BY <1>4, <2>2, <3>3
  <2> HIDE DEF D, N
  <2>3. N \in D
    <3>1. \A n \in 0..N : n \in D
      BY <1>1, <2>1, <2>2, TurnByTurn
    <3>2. QED
      BY <1>1, <3>1
  <2>4. f[N].start \in Int /\ f[N].start <= 0
    BY <1>1, <1>3, <2>3 DEF D
  <2>5. QED
    BY <1>1, <1>7, <2>4
<1>8. QED
  BY <1>5, <1>6, <1>7 DEF f, N

\* The spans so far follow each other, sharing the overlap; the next one begins
\* there too, unless the last reached the end of the text.
Linked(acc, size, overlap) ==
    LET k == Len(acc.spans)
    IN  IF acc.spans = <<>> THEN acc.start = 0
        ELSE /\ acc.spans[1].first = 0
             /\ \A i \in 1..k - 1 :
                   acc.spans[i + 1].first = acc.spans[i].last - overlap
             /\ \A i \in 1..k :
                   acc.spans[i].last <= acc.spans[i].first + MaxChars
             /\ \/ acc.spans[k].last = size /\ acc.start = size
                \/ /\ acc.spans[k].last < size
                   /\ acc.start = acc.spans[k].last - overlap

\* A turn of FixedSizeChunker keeps the spans linked.
LEMMA LinkedStep ==
    ASSUME NEW acc \in Slides, NEW size \in Nat, NEW overlap \in Nat,
           Linked(acc, size, overlap)
    PROVE  Linked(NextSpan(acc, size, overlap), size, overlap)
<1> DEFINE next == NextSpan(acc, size, overlap)
           end == EndFrom(acc.start, size)
           cut == [first |-> acc.start, last |-> end]
           q == acc.spans
           k == Len(q)
<1>1. CASE acc.start >= size
  <2>1. next = acc
    BY <1>1 DEF NextSpan
  <2> HIDE DEF next
  <2>2. Linked(next, size, overlap)
    BY <2>1
  <2>3. QED
    BY <2>2 DEF next
<1>2. CASE ~(acc.start >= size)
  <2>1. /\ next.spans = Append(q, cut)
        /\ next.start = IF end < size THEN end - overlap ELSE size
        /\ end \in Int /\ cut.first = acc.start /\ cut.last = end
    BY <1>2, SlideStep
  <2>2. q \in Seq(Spans) /\ k \in Nat /\ acc.start \in Int /\ cut \in Spans
    BY <2>1 DEF Slides, Spans
  <2>3. end <= size /\ size \in Int /\ end <= acc.start + MaxChars
    BY <2>2, ChunkerAssumption DEF EndFrom
  <2>4. \A i \in 1..k : q[i].first \in Int /\ q[i].last \in Int
    <3>1. \A i \in 1..k : q[i] \in Spans
      BY <2>2
    <3>2. QED
      BY <3>1 DEF Spans
  <2>5. q = <<>> => k = 0 /\ acc.start = 0
    BY DEF Linked
  <2>6. q # <<>> =>
           /\ k >= 1 /\ q[1].first = 0
           /\ acc.start = q[k].last - overlap
           /\ \A i \in 1..k - 1 : q[i + 1].first = q[i].last - overlap
           /\ \A i \in 1..k : q[i].last <= q[i].first + MaxChars
    <3>1. q # <<>> => k >= 1
      BY <2>2
    <3>2. acc.start # size
      BY <1>2, <2>2
    <3>3. QED
      BY <3>1, <3>2 DEF Linked
  <2> DEFINE r == Append(q, cut)
  <2>7. /\ Len(r) = k + 1 /\ r[k + 1] = cut /\ r # <<>>
        /\ \A i \in 1..k : r[i] = q[i]
    BY <2>2
  <2> HIDE DEF r, cut, q, k, next, end
  <2>8. r[1].first = 0
    <3>1. CASE q = <<>>
      BY <2>1, <2>5, <2>7, <3>1
    <3>2. CASE q # <<>>
      BY <2>2, <2>6, <2>7, <3>2
    <3>3. QED
      BY <3>1, <3>2
  <2>9. ASSUME NEW i \in 1..Len(r) - 1
        PROVE  r[i + 1].first = r[i].last - overlap
    <3>1. i \in 1..k /\ q # <<>> /\ r[i] = q[i]
      BY <2>2, <2>5, <2>7
    <3>2. CASE i = k
      BY <2>1, <2>6, <2>7, <3>1, <3>2
    <3>3. CASE i # k
      <4>1. i \in 1..k - 1 /\ i + 1 \in 1..k
        BY <2>2, <3>1, <3>3
      <4>2. r[i + 1] = q[i + 1]
        BY <2>7, <4>1
      <4>3. QED
        BY <2>6, <3>1, <4>1, <4>2
    <3>4. QED
      BY <3>2, <3>3
  <2>10. r[Len(r)].last = end
    BY <2>1, <2>7
  <2>11. \/ end = size /\ next.start = size
         \/ end < size /\ next.start = end - overlap
    BY <2>1, <2>3
  <2>12. next.spans = r
    BY <2>1 DEF r
  <2>13. ASSUME NEW i \in 1..Len(r)
         PROVE  r[i].last <= r[i].first + MaxChars
    <3>1. CASE i = k + 1
      BY <2>1, <2>3, <2>7, <3>1
    <3>2. CASE i # k + 1
      <4>1. i \in 1..k /\ q # <<>> /\ r[i] = q[i]
        BY <2>2, <2>5, <2>7, <3>2
      <4>2. QED
        BY <2>6, <4>1
    <3>3. QED
      BY <3>1, <3>2
  <2>14. Linked(next, size, overlap)
    BY <2>7, <2>8, <2>9, <2>10, <2>11, <2>12, <2>13 DEF Linked
  <2>15. QED
    BY <2>14 DEF next
<1>3. QED
  BY <1>1, <1>2

\* When FixedSizeChunker ends, its spans begin with the text, share the overlap,
\* are not too long and end with the text.
LEMMA FixedCovers ==
    ASSUME NEW size \in Nat \ {0}, NEW overlap \in Nat,
           Sliding(size, overlap)[size + 1].start >= size
    PROVE  SpansCover(Sliding(size, overlap)[size + 1].spans, size, overlap)
<1> DEFINE N == size + 1
           f == Sliding(size, overlap)
           T == {acc \in Slides : Linked(acc, size, overlap)}
<1>1. N \in Nat /\ N \in 0..N /\ size \in Nat /\ size > 0
  OBVIOUS
<1>2. /\ f \in [0..N -> Slides] /\ f[0] = [spans |-> <<>>, start |-> 0]
      /\ \A n \in 1..N : f[n] = NextSpan(f[n - 1], size, overlap)
  BY SlidingRuns
<1> HIDE DEF f
<1>3. f[0] \in T
  BY <1>1, <1>2 DEF Linked
<1>4. \A n \in 1..N : f[n - 1] \in T => f[n] \in T
  <2>1. ASSUME NEW n \in 1..N, f[n - 1] \in T
        PROVE  f[n] \in T
    <3> DEFINE acc == f[n - 1]
    <3>1. acc \in Slides /\ Linked(acc, size, overlap)
      BY <2>1
    <3>2. f[n] = NextSpan(acc, size, overlap)
      BY <1>2
    <3> HIDE DEF acc
    <3>3. Linked(f[n], size, overlap)
      BY <1>1, <3>1, <3>2, LinkedStep
    <3>4. f[n] \in Slides
      BY <1>1, <1>2
    <3>5. QED
      BY <3>3, <3>4
  <2>2. QED
    BY <2>1
<1>5. f[N] \in T
  <2> HIDE DEF T, N
  <2>1. \A n \in 0..N : f[n] \in T
    BY <1>1, <1>3, <1>4, LoopStays, Zenon
  <2>2. QED
    BY <1>1, <2>1
<1> DEFINE acc == f[N]
           q == acc.spans
<1>6. Linked(acc, size, overlap) /\ acc.start >= size /\ acc.start \in Int
  BY <1>5 DEF f, Slides
<1>7. q \in Seq(Spans) /\ Len(q) \in Nat
  BY <1>5 DEF Slides
<1> HIDE DEF acc
<1>8. q # <<>> /\ Len(q) >= 1
  BY <1>1, <1>6, <1>7 DEF Linked
<1>9. q[Len(q)].last \in Int
  <2>1. Len(q) \in 1..Len(q)
    BY <1>7, <1>8
  <2>2. q[Len(q)] \in Spans
    BY <1>7, <2>1
  <2>3. QED
    BY <2>2 DEF Spans
<1>10. q[Len(q)].last = size
  BY <1>1, <1>6, <1>8, <1>9 DEF Linked
<1>11. /\ q[1].first = 0
       /\ \A i \in 1..Len(q) - 1 : q[i + 1].first = q[i].last - overlap
       /\ \A i \in 1..Len(q) : q[i].last <= q[i].first + MaxChars
  BY <1>6, <1>8 DEF Linked
<1>12. DOMAIN q = 1..Len(q)
  BY <1>7
<1>13. SpansCover(q, size, overlap)
  BY <1>10, <1>11, <1>12 DEF SpansCover
<1>14. QED
  BY <1>13 DEF acc, f

\* The chunks of FixedSizeChunker: when there is an end of them, and what they
\* cover then.
LEMMA FixedIsFaithful ==
    ASSUME NEW size \in Nat, NEW overlap \in Nat
    PROVE  LET r == FixedChunks(size, overlap)
           IN  /\ r.ended <=> overlap < MaxChars \/ size <= MaxChars
               /\ r.ended /\ size > 0 => SpansCover(r.spans, size, overlap)
<1> DEFINE end == Sliding(size, overlap)[size + 1]
           r == FixedChunks(size, overlap)
<1>1. end.start >= size <=> overlap < MaxChars \/ size <= MaxChars
  BY FixedEnds
<1>2. ASSUME end.start >= size, size > 0
      PROVE  SpansCover(end.spans, size, overlap)
  <2>1. size \in Nat \ {0}
    BY <1>2
  <2>2. QED
    BY <1>2, <2>1, FixedCovers
<1>3. r = [spans |-> end.spans, ended |-> end.start >= size]
  BY DEF FixedChunks
<1> HIDE DEF end, r
<1>4. r.spans = end.spans /\ r.ended = (end.start >= size)
  <2>1. ASSUME NEW b
        PROVE  /\ [spans |-> end.spans, ended |-> b].spans = end.spans
               /\ [spans |-> end.spans, ended |-> b].ended = b
    OBVIOUS
  <2>2. QED
    BY <1>3, <2>1, Zenon
<1>5. r.ended <=> end.start >= size
  BY <1>4, Zenon
<1>6. r.ended <=> overlap < MaxChars \/ size <= MaxChars
  BY <1>1, <1>5, Zenon
<1>7. r.ended /\ size > 0 => SpansCover(r.spans, size, overlap)
  BY <1>2, <1>4, <1>5, Zenon
<1>8. QED
  BY <1>6, <1>7, Zenon DEF r

\* The stretches of q are the first n units, each once, in order.
Covering(q, n) ==
    /\ q = <<>> <=> n = 0
    /\ Connected(q)
    /\ q # <<>> => q[1].first = 1 /\ q[Len(q)].last = n

\* A connected list with one more stretch.
LEMMA ConnectedAppend ==
    ASSUME NEW S, NEW q \in Seq(S), NEW c \in S
    PROVE  Connected(Append(q, c)) <=>
              /\ Connected(q) /\ c.first <= c.last
              /\ q # <<>> => c.first = q[Len(q)].last + 1
<1> DEFINE r == Append(q, c)
           k == Len(q)
<1>1. /\ r \in Seq(S) /\ Len(r) = k + 1 /\ r[k + 1] = c
      /\ \A i \in 1..k : r[i] = q[i]
  OBVIOUS
<1>2. DOMAIN r = 1..k + 1 /\ DOMAIN q = 1..k /\ k \in Nat
  BY <1>1
<1>3. q # <<>> <=> k > 0
  OBVIOUS
<1> HIDE DEF r, k
<1>4. Connected(r) <=>
         \A i \in 1..k + 1 :
            r[i].first <= r[i].last
               /\ (i > 1 => r[i].first = r[i - 1].last + 1)
  BY <1>2 DEF Connected
<1>5. Connected(q) <=>
         \A i \in 1..k :
            q[i].first <= q[i].last
               /\ (i > 1 => q[i].first = q[i - 1].last + 1)
  BY <1>2 DEF Connected
<1>6. ASSUME Connected(r)
      PROVE  /\ Connected(q) /\ c.first <= c.last
             /\ k > 0 => c.first = q[k].last + 1
  <2>1. ASSUME NEW i \in 1..k
        PROVE  q[i].first <= q[i].last
                  /\ (i > 1 => q[i].first = q[i - 1].last + 1)
    <3>1. i \in 1..k + 1 /\ r[i] = q[i] /\ (i > 1 => i - 1 \in 1..k)
      BY <1>1, <1>2
    <3>2. i > 1 => r[i - 1] = q[i - 1]
      BY <1>1, <3>1
    <3>3. QED
      BY <1>4, <1>6, <3>1, <3>2
  <2>2. k + 1 \in 1..k + 1 /\ (k + 1) - 1 = k
    BY <1>2
  <2>3. c.first <= c.last
    BY <1>1, <1>4, <1>6, <2>2
  <2>4. k > 0 => c.first = q[k].last + 1
    <3>1. k > 0 => k + 1 > 1 /\ r[k] = q[k]
      BY <1>1, <1>2
    <3>2. QED
      BY <1>1, <1>4, <1>6, <2>2, <3>1
  <2>5. QED
    BY <1>5, <2>1, <2>3, <2>4
<1>7. ASSUME Connected(q), c.first <= c.last,
             k > 0 => c.first = q[k].last + 1
      PROVE  Connected(r)
  <2>1. ASSUME NEW i \in 1..k + 1
        PROVE  r[i].first <= r[i].last
                  /\ (i > 1 => r[i].first = r[i - 1].last + 1)
    <3>1. CASE i = k + 1
      <4>1. (k + 1) - 1 = k /\ (k + 1 > 1 => k > 0 /\ r[k] = q[k])
        BY <1>1, <1>2
      <4>2. QED
        BY <1>1, <1>7, <3>1, <4>1
    <3>2. CASE i # k + 1
      <4>1. i \in 1..k /\ r[i] = q[i] /\ (i > 1 => i - 1 \in 1..k)
        BY <1>1, <1>2, <3>2
      <4>2. i > 1 => r[i - 1] = q[i - 1]
        BY <1>1, <4>1
      <4>3. QED
        BY <1>5, <1>7, <4>1, <4>2
    <3>3. QED
      BY <3>1, <3>2
  <2>2. QED
    BY <1>4, <2>1
<1>8. QED
  BY <1>3, <1>6, <1>7 DEF r, k

\* What the last stretch of a covering is.
LEMMA AppendCovers ==
    ASSUME NEW S, NEW q \in Seq(S), NEW c \in S, NEW n \in Nat
    PROVE  Covering(Append(q, c), n) <=>
              /\ n # 0 /\ Connected(q) /\ c.first <= c.last /\ c.last = n
              /\ IF q = <<>> THEN c.first = 1
                 ELSE q[1].first = 1 /\ c.first = q[Len(q)].last + 1
<1> DEFINE r == Append(q, c)
           k == Len(q)
<1>1. /\ r \in Seq(S) /\ Len(r) = k + 1 /\ r[k + 1] = c /\ r # <<>>
      /\ \A i \in 1..k : r[i] = q[i]
      /\ k \in Nat
  OBVIOUS
<1>2. q # <<>> <=> k > 0
  OBVIOUS
<1>3. Connected(r) <=>
         /\ Connected(q) /\ c.first <= c.last
         /\ q # <<>> => c.first = q[k].last + 1
  BY ConnectedAppend
<1> HIDE DEF r, k
<1>4. r[1].first = 1 <=> IF q = <<>> THEN c.first = 1 ELSE q[1].first = 1
  BY <1>1, <1>2
<1>5. r[Len(r)].last = c.last
  BY <1>1
<1>6. Covering(r, n) <=>
         n # 0 /\ Connected(r) /\ r[1].first = 1 /\ r[Len(r)].last = n
  BY <1>1 DEF Covering
<1>7. QED
  BY <1>3, <1>4, <1>5, <1>6 DEF r, k

\* One more stretch: joined to the buffer behind the list, it is covered too.
LEMMA CoverNext ==
    ASSUME NEW q \in Seq(Stretch), NEW b \in Stretch, NEW s \in Stretch,
           NEW width \in Nat, NEW n \in Nat, Covering(Flushed(q, b), n),
           b = NoBuffer \/ b.first >= 1, s.first = n + 1, s.first <= s.last
    PROVE  /\ Covering(Append(q, Join(b, s, width)), s.last)
           /\ Join(b, s, width) # NoBuffer /\ Join(b, s, width).first >= 1
<1> DEFINE c == Join(b, s, width)
<1>1. c \in Stretch
  BY JoinedStretch
<1>2. /\ NoBuffer.first = 0 /\ n + 1 \in Nat /\ n + 1 >= 1
      /\ s.last \in Nat /\ s.last # 0
  BY DEF NoBuffer, Stretch
<1>3. CASE b = NoBuffer
  <2>1. c = s /\ Flushed(q, b) = q
    BY <1>3 DEF Join, Flushed
  <2>2. /\ Connected(q) /\ (q = <<>> <=> n = 0)
        /\ q # <<>> => q[1].first = 1 /\ q[Len(q)].last = n
    BY <2>1 DEF Covering
  <2> HIDE DEF c
  <2>3. Covering(Append(q, c), s.last)
    BY <1>1, <1>2, <2>1, <2>2, AppendCovers
  <2>4. QED
    BY <1>2, <2>1, <2>3 DEF c
<1>4. CASE b # NoBuffer
  <2>1. /\ c.first = b.first /\ c.last = s.last /\ Flushed(q, b) = Append(q, b)
        /\ b.first \in Nat
    BY <1>4 DEF Join, Flushed, Stretch
  <2>2. /\ n # 0 /\ Connected(q) /\ b.first <= b.last /\ b.last = n
        /\ IF q = <<>> THEN b.first = 1
           ELSE q[1].first = 1 /\ b.first = q[Len(q)].last + 1
    BY <2>1, AppendCovers
  <2> HIDE DEF c
  <2>3. c.first <= c.last /\ c.last = s.last
    BY <1>2, <2>1, <2>2
  <2>4. Covering(Append(q, c), s.last)
    BY <1>1, <1>2, <2>1, <2>2, <2>3, AppendCovers
  <2>5. QED
    BY <1>2, <1>4, <2>1, <2>4 DEF c
<1>5. QED
  BY <1>3, <1>4

\* The units of a text are numbered.
Numbered(q) == \A i \in 1..Len(q) : q[i].first = i /\ q[i].last = i

\* A list and the buffer behind it cover the first n units.
Holds(acc, n) ==
    /\ Covering(Flushed(acc.merged, acc.buffer), n)
    /\ acc.buffer = NoBuffer \/ acc.buffer.first >= 1

\* Before the first turn nothing is covered.
LEMMA HoldsNothing ==
    Holds([merged |-> <<>>, buffer |-> NoBuffer], 0)
  BY DEF Holds, Flushed, Covering, Connected

\* Stretches that are single paragraphs or fit into a chunk.
Uncut == {s \in Stretch : s.size <= MaxChars \/ s.first = s.last}

\* Something of a list is longer than a chunk.
TooLong(q) == \E i \in 1..Len(q) : q[i].size > MaxChars

\* A list with one more stretch.
LEMMA LongerAppend ==
    ASSUME NEW q \in Seq(Stretch), NEW s \in Stretch
    PROVE  TooLong(Append(q, s)) <=> TooLong(q) \/ s.size > MaxChars
<1> DEFINE r == Append(q, s)
           k == Len(q)
<1>1. /\ Len(r) = k + 1 /\ r[k + 1] = s /\ k \in Nat
      /\ \A i \in 1..k : r[i] = q[i]
  OBVIOUS
<1> HIDE DEF r, k
<1>2. ASSUME TooLong(r)
      PROVE  TooLong(q) \/ s.size > MaxChars
  <2>1. PICK i \in 1..k + 1 : r[i].size > MaxChars
    BY <1>1, <1>2 DEF TooLong
  <2>2. CASE i = k + 1
    BY <1>1, <2>1, <2>2
  <2>3. CASE i # k + 1
    <3>1. i \in 1..k
      BY <1>1, <2>3
    <3>2. QED
      BY <1>1, <2>1, <3>1 DEF TooLong, k
  <2>4. QED
    BY <2>2, <2>3
<1>3. ASSUME TooLong(q)
      PROVE  TooLong(r)
  <2>1. PICK i \in 1..k : q[i].size > MaxChars
    BY <1>3 DEF TooLong, k
  <2>2. i \in 1..k + 1 /\ r[i] = q[i]
    BY <1>1
  <2>3. QED
    BY <1>1, <2>1, <2>2 DEF TooLong
<1>4. ASSUME s.size > MaxChars
      PROVE  TooLong(r)
  <2>1. k + 1 \in 1..k + 1
    BY <1>1
  <2>2. QED
    BY <1>1, <1>4, <2>1 DEF TooLong
<1>5. QED
  BY <1>2, <1>3, <1>4 DEF r

\* After n paragraphs the merged ones and the buffer hold an over-long one just
\* if one of these n is.
LongSoFar(q, acc, n) ==
    TooLong(Flushed(acc.merged, acc.buffer))
        <=> \E i \in 1..n : q[i].size > MaxChars

\* A turn of the loop over paragraphs: only what fits is joined.
LEMMA LongerNext ==
    ASSUME NEW q \in Seq(Stretch), NEW n \in Nat, n + 1 \in 1..Len(q),
           NEW acc \in MergeStates, LongSoFar(q, acc, n)
    PROVE  LongSoFar(q, TakeParagraph(acc, q[n + 1]), n + 1)
<1> DEFINE p == q[n + 1]
           b == acc.buffer
           c == Join(b, p, 2)
           flushed == Flushed(acc.merged, b)
           next == TakeParagraph(acc, p)
<1>1. /\ p \in Stretch /\ p.size \in Nat /\ acc.merged \in Seq(Stretch)
      /\ b \in Stretch /\ b.size \in Nat /\ MaxChars \in Nat
  BY UnitOfList, ChunkerAssumption DEF MergeStates, Stretch
<1>2. flushed \in Seq(Stretch) /\ c \in Stretch
  BY <1>1, FlushedList, JoinedStretch
<1>3. (\E i \in 1..n + 1 : q[i].size > MaxChars)
         <=> (\E i \in 1..n : q[i].size > MaxChars) \/ p.size > MaxChars
  <2>1. \A i \in 1..n + 1 : i \in 1..n \/ i = n + 1
    OBVIOUS
  <2>2. \A i \in 1..n : i \in 1..n + 1
    OBVIOUS
  <2>3. n + 1 \in 1..n + 1
    OBVIOUS
  <2>4. QED
    BY <2>1, <2>2, <2>3
<1>4. TooLong(flushed) <=> \E i \in 1..n : q[i].size > MaxChars
  BY DEF LongSoFar
<1> HIDE DEF p
<1>5. c = IF b = NoBuffer THEN p
          ELSE [first |-> b.first, last |-> p.last,
                size |-> b.size + 2 + p.size]
  BY DEF Join
<1>6. CASE c.size <= MaxChars
  <2>1. next.merged = acc.merged /\ next.buffer = c
    BY <1>6 DEF TakeParagraph
  <2>2. p.size <= MaxChars /\ (b # NoBuffer => b.size <= MaxChars)
    BY <1>1, <1>5, <1>6
  <2>3. TooLong(flushed) <=> TooLong(acc.merged)
    <3>1. CASE b = NoBuffer
      BY <3>1 DEF Flushed
    <3>2. CASE b # NoBuffer
      <4>1. flushed = Append(acc.merged, b) /\ ~(b.size > MaxChars)
        BY <1>1, <2>2, <3>2 DEF Flushed
      <4> HIDE DEF flushed, b
      <4>2. QED
        BY <1>1, <4>1, LongerAppend
    <3>3. QED
      BY <3>1, <3>2
  <2> HIDE DEF next, c, flushed
  <2>4. Flushed(next.merged, next.buffer) = acc.merged
           \/ Flushed(next.merged, next.buffer) = Append(acc.merged, c)
    BY <2>1 DEF Flushed
  <2>5. TooLong(Append(acc.merged, c)) <=> TooLong(acc.merged)
    <3>1. ~(c.size > MaxChars)
      BY <1>1, <1>2, <1>6 DEF Stretch
    <3>2. QED
      BY <1>1, <1>2, <3>1, LongerAppend
  <2>6. TooLong(Flushed(next.merged, next.buffer)) <=> TooLong(acc.merged)
    BY <2>4, <2>5
  <2>7. ~(p.size > MaxChars)
    BY <1>1, <2>2
  <2>8. LongSoFar(q, next, n + 1)
    BY <1>3, <1>4, <2>3, <2>6, <2>7 DEF LongSoFar
  <2>9. QED
    BY <2>8 DEF next, p
<1>7. CASE ~(c.size <= MaxChars)
  <2>1. next.merged = flushed /\ next.buffer = p
    BY <1>7 DEF TakeParagraph
  <2> HIDE DEF next, c, flushed
  <2>2. p # NoBuffer \/ ~(p.size > MaxChars)
    BY <1>1 DEF NoBuffer
  <2>3. TooLong(Append(flushed, p)) <=> TooLong(flushed) \/ p.size > MaxChars
    BY <1>1, <1>2, LongerAppend
  <2>4. TooLong(Flushed(next.merged, next.buffer))
           <=> TooLong(flushed) \/ p.size > MaxChars
    BY <2>1, <2>2, <2>3 DEF Flushed
  <2>5. LongSoFar(q, next, n + 1)
    BY <1>3, <1>4, <2>4 DEF LongSoFar
  <2>6. QED
    BY <2>5 DEF next, p
<1>8. QED
  BY <1>6, <1>7

\* A merged paragraph is too long just if some paragraph is.
LEMMA LongStayLong ==
    ASSUME NEW q \in Seq(Stretch)
    PROVE  TooLong(MergeParagraphs(q)) <=> TooLong(q)
<1> DEFINE N == Len(q)
           f == Gathering(q)
           D == {n \in 0..N : LongSoFar(q, f[n], n)}
<1>1. N \in Nat /\ N \in 0..N
  OBVIOUS
<1>2. /\ f \in [0..N -> MergeStates]
      /\ f[0] = [merged |-> <<>>, buffer |-> NoBuffer]
      /\ \A n \in 1..N : f[n] = TakeParagraph(f[n - 1], q[n])
  BY GatheringRuns
<1> HIDE DEF f
<1>3. 0 \in D
  <2>1. Flushed(f[0].merged, f[0].buffer) = <<>>
    BY <1>2 DEF Flushed
  <2>2. LongSoFar(q, f[0], 0)
    BY <2>1 DEF LongSoFar, TooLong
  <2>3. QED
    BY <1>1, <2>2
<1>4. ASSUME NEW n \in 0..N, n \in D, n < N
      PROVE  n + 1 \in D
  <2>1. n \in Nat /\ n + 1 \in 1..N /\ (n + 1) - 1 = n /\ n + 1 \in 0..N
    BY <1>1, <1>4
  <2>2. f[n] \in MergeStates /\ LongSoFar(q, f[n], n)
    BY <1>2, <1>4
  <2>3. f[n + 1] = TakeParagraph(f[n], q[n + 1])
    BY <1>2, <2>1
  <2>4. LongSoFar(q, f[n + 1], n + 1)
    BY <2>1, <2>2, <2>3, LongerNext
  <2>5. QED
    BY <2>1, <2>4
<1> HIDE DEF D, N
<1>5. N \in D
  <2>1. \A n \in 0..N : n \in D
    BY <1>1, <1>3, <1>4, TurnByTurn
  <2>2. QED
    BY <1>1, <2>1
<1>6. QED
  BY <1>5 DEF D, LongSoFar, TooLong, MergeParagraphs, f, N

\* The merged paragraphs are the text, and what is too long is one paragraph.
LEMMA ParagraphsCover ==
    ASSUME NEW q \in Seq(Stretch), Numbered(q)
    PROVE  /\ MergeParagraphs(q) \in Seq(Uncut)
           /\ Covering(MergeParagraphs(q), Len(q))
<1> DEFINE N == Len(q)
           f == Gathering(q)
           W == [merged : Seq(Uncut), buffer : Uncut]
           D == {n \in 0..N : f[n] \in W /\ Holds(f[n], n)}
<1>1. N \in Nat /\ N \in 0..N /\ MaxChars \in Nat
  BY ChunkerAssumption
<1>2. /\ f \in [0..N -> MergeStates]
      /\ f[0] = [merged |-> <<>>, buffer |-> NoBuffer]
      /\ \A n \in 1..N : f[n] = TakeParagraph(f[n - 1], q[n])
  BY GatheringRuns
<1>3. \A n \in 1..N :
         q[n] \in Stretch /\ q[n].first = n /\ q[n].last = n
  BY UnitOfList DEF Numbered
<1> HIDE DEF f, N
<1>4. 0 \in D
  <2>1. NoBuffer \in Uncut
    BY <1>1 DEF NoBuffer, Uncut, Stretch
  <2>2. f[0] \in W
    BY <1>2, <2>1
  <2>3. Holds(f[0], 0)
    BY <1>2, HoldsNothing
  <2>4. QED
    BY <1>1, <2>2, <2>3
<1>5. ASSUME NEW n \in 0..N, n \in D, n < N
      PROVE  n + 1 \in D
  <2> DEFINE acc == f[n]
             p == q[n + 1]
             next == TakeParagraph(acc, p)
             c == Join(acc.buffer, p, 2)
             flushed == Flushed(acc.merged, acc.buffer)
  <2>1. n \in Nat /\ n + 1 \in 1..N /\ (n + 1) - 1 = n /\ n + 1 \in 0..N
    BY <1>1, <1>5
  <2>2. p \in Stretch /\ p.first = n + 1 /\ p.last = n + 1 /\ p \in Uncut
    BY <1>3, <2>1 DEF Uncut
  <2>3. acc \in W /\ Holds(acc, n)
    BY <1>5
  <2>4. acc.merged \in Seq(Uncut) /\ acc.buffer \in Uncut
    BY <2>3
  <2>5. acc.merged \in Seq(Stretch) /\ acc.buffer \in Stretch
    BY <2>4, SeqMonotonic DEF Uncut
  <2>6. Covering(flushed, n) /\ (acc.buffer = NoBuffer \/ acc.buffer.first >= 1)
    BY <2>3 DEF Holds
  <2>7. flushed \in Seq(Uncut) /\ flushed \in Seq(Stretch)
    <3>1. flushed \in Seq(Uncut)
      BY <2>4 DEF Flushed
    <3>2. flushed \in Seq(Stretch)
      BY <2>5, FlushedList
    <3>3. QED
      BY <3>1, <3>2
  <2>8. c \in Stretch
    BY <2>2, <2>5, JoinedStretch
  <2>9. f[n + 1] = next
    BY <1>2, <2>1
  <2> HIDE DEF acc, p
  <2>10. ASSUME c.size <= MaxChars
         PROVE  next \in W /\ Holds(next, n + 1)
    <3>1. /\ Covering(Append(acc.merged, c), n + 1)
          /\ c # NoBuffer /\ c.first >= 1
      BY <2>1, <2>2, <2>5, <2>6, CoverNext
    <3>2. next.merged = acc.merged /\ next.buffer = c
      BY <2>10 DEF TakeParagraph
    <3>3. next = [merged |-> acc.merged, buffer |-> c]
      BY <2>10 DEF TakeParagraph
    <3>4. c \in Uncut
      BY <2>8, <2>10 DEF Uncut
    <3> HIDE DEF next, c
    <3>5. next \in W
      BY <2>4, <3>3, <3>4
    <3>6. Flushed(next.merged, next.buffer) = Append(acc.merged, c)
      BY <3>1, <3>2 DEF Flushed
    <3>7. QED
      BY <3>1, <3>2, <3>5, <3>6 DEF Holds
  <2>11. ASSUME ~(c.size <= MaxChars)
         PROVE  next \in W /\ Holds(next, n + 1)
    <3>1. next = [merged |-> flushed, buffer |-> p]
      BY <2>11 DEF TakeParagraph
    <3> HIDE DEF flushed, next, c
    <3>2. /\ NoBuffer \in Stretch /\ 2 \in Nat
          /\ Flushed(flushed, NoBuffer) = flushed
      BY DEF NoBuffer, Stretch, Flushed
    <3>3. Join(NoBuffer, p, 2) = p
      BY DEF Join
    <3>4. /\ Covering(Append(flushed, p), n + 1)
          /\ p # NoBuffer /\ p.first >= 1
      BY <2>1, <2>2, <2>6, <2>7, <3>2, <3>3, CoverNext
    <3>5. next \in W
      BY <2>2, <2>7, <3>1
    <3>6. Flushed(next.merged, next.buffer) = Append(flushed, p)
      BY <3>1, <3>4 DEF Flushed
    <3>7. QED
      BY <3>1, <3>4, <3>5, <3>6 DEF Holds
  <2> HIDE DEF next, c, W
  <2>12. QED
    BY <2>1, <2>9, <2>10, <2>11
<1> HIDE DEF D
<1>6. N \in D
  <2>1. \A n \in 0..N : n \in D
    BY <1>1, <1>4, <1>5, TurnByTurn
  <2>2. QED
    BY <1>1, <2>1
<1> DEFINE r == Flushed(f[N].merged, f[N].buffer)
<1>7. f[N] \in W /\ Covering(r, N)
  BY <1>6 DEF D, Holds
<1>8. r \in Seq(Uncut)
  BY <1>7 DEF Flushed
<1>9. MergeParagraphs(q) = r
  BY DEF MergeParagraphs, f, N
<1>10. QED
  BY <1>7, <1>8, <1>9 DEF N

\* Sentences that are long enough to stand alone.
Long == {s \in Stretch : s.size >= MinChars}

\* A list is its front and its last element.
LEMMA FrontAndLast ==
    ASSUME NEW S, NEW q \in Seq(S), q # <<>>
    PROVE  /\ Front(q) \in Seq(S) /\ Last(q) \in S
           /\ q = Append(Front(q), Last(q))
<1> DEFINE p == Front(q)
           x == Last(q)
<1>1. Len(q) \in Nat /\ Len(q) >= 1 /\ Len(q) \in 1..Len(q)
  OBVIOUS
<1>2. /\ 1 \in 1..Len(q) + 1 /\ Len(q) - 1 \in 0..Len(q)
      /\ 1 <= (Len(q) - 1) + 1
  BY <1>1
<1>3. /\ p \in Seq(S) /\ Len(p) = ((Len(q) - 1) - 1) + 1
      /\ \A j \in 1..((Len(q) - 1) - 1) + 1 : p[j] = q[1 + (j - 1)]
  BY <1>2, PartOfList DEF Front
<1>4. x \in S /\ x = q[Len(q)]
  BY <1>1 DEF Last
<1> HIDE DEF p, x
<1>5. Len(p) = Len(q) - 1 /\ \A j \in 1..Len(q) - 1 : p[j] = q[j]
  <2>1. Len(p) = Len(q) - 1
    BY <1>1, <1>3
  <2>2. ASSUME NEW j \in 1..Len(q) - 1
        PROVE  p[j] = q[j]
    <3>1. j \in 1..((Len(q) - 1) - 1) + 1 /\ 1 + (j - 1) = j
      BY <1>1
    <3>2. QED
      BY <1>3, <3>1
  <2>3. QED
    BY <2>1, <2>2
<1> DEFINE r == Append(p, x)
<1>6. /\ r \in Seq(S) /\ Len(r) = Len(q)
      /\ \A j \in 1..Len(q) - 1 : r[j] = q[j]
      /\ r[Len(q)] = x
  BY <1>1, <1>3, <1>4, <1>5
<1> HIDE DEF r
<1>7. \A j \in 1..Len(q) : q[j] = r[j]
  BY <1>1, <1>4, <1>6
<1>8. q = r
  BY <1>6, <1>7, SeqEqual
<1>9. QED
  BY <1>3, <1>4, <1>8 DEF p, x, r

\* The rest joined to the last sentence covers what the two did.
LEMMA RestCovers ==
    ASSUME NEW q \in Seq(Long), NEW rest \in Stretch, NEW n \in Nat,
           Covering(Flushed(q, rest), n)
    PROVE  LET r == WithRest(q, rest)
           IN  /\ r \in Seq(Stretch) /\ Covering(r, n)
               /\ r \in Seq(Long) \/ Len(r) = 1
<1> DEFINE r == WithRest(q, rest)
<1>1. q \in Seq(Stretch)
  BY SeqMonotonic DEF Long
<1>2. CASE rest = NoBuffer
  <2>1. r = q /\ Flushed(q, rest) = q
    BY <1>2 DEF WithRest, Flushed
  <2>2. QED
    BY <1>1, <2>1
<1>3. CASE rest # NoBuffer /\ q = <<>>
  <2>1. r = <<rest>> /\ Flushed(q, rest) = Append(q, rest)
    BY <1>3 DEF WithRest, Flushed
  <2>2. Append(q, rest) = <<rest>>
    BY <1>3
  <2>3. <<rest>> \in Seq(Stretch) /\ Len(<<rest>>) = 1
    OBVIOUS
  <2>4. QED
    BY <2>1, <2>2, <2>3
<1>4. CASE rest # NoBuffer /\ q # <<>>
  <2> DEFINE p == Front(q)
             x == Last(q)
             y == Join(x, rest, 1)
  <2>1. p \in Seq(Long) /\ x \in Long /\ q = Append(p, x)
    BY <1>4, FrontAndLast
  <2>2. /\ p \in Seq(Stretch) /\ x \in Stretch
        /\ x.first \in Nat /\ x.last \in Nat /\ x.size \in Nat
        /\ x.size >= MinChars
    <3>1. p \in Seq(Stretch)
      BY <2>1, SeqMonotonic DEF Long
    <3>2. x \in Stretch /\ x.size >= MinChars
      BY <2>1 DEF Long
    <3>3. x.first \in Nat /\ x.last \in Nat /\ x.size \in Nat
      BY <3>2 DEF Stretch
    <3>4. QED
      BY <3>1, <3>2, <3>3
  <2>3. rest.first \in Nat /\ rest.last \in Nat /\ rest.size \in Nat
    BY DEF Stretch
  <2>4. q[Len(q)] = x
    BY DEF Last
  <2> HIDE DEF p, x
  <2>5. Flushed(q, rest) = Append(q, rest) /\ r = Append(p, y)
    BY <1>4 DEF WithRest, Flushed, p, x
  <2>6. /\ n # 0 /\ Connected(q) /\ rest.first <= rest.last /\ rest.last = n
        /\ q[1].first = 1 /\ rest.first = x.last + 1
    BY <1>1, <1>4, <2>4, <2>5, AppendCovers
  <2>7. Len(q) \in Nat /\ Len(q) >= 1 /\ Len(q) \in DOMAIN q
    BY <1>4
  <2>8. x.first <= x.last
    BY <2>4, <2>6, <2>7 DEF Connected
  <2>9. CASE p = <<>>
    <3>1. Len(q) = 1
      BY <2>1, <2>9
    <3>2. x.first = 1 /\ x # NoBuffer
      BY <2>4, <2>6, <3>1 DEF NoBuffer
    <3>3. y \in Stretch /\ y.first = 1 /\ y.last = n /\ y.size >= MinChars
      <4>1. y = [first |-> x.first, last |-> rest.last,
                 size |-> x.size + 1 + rest.size]
        BY <3>2 DEF Join
      <4> HIDE DEF y
      <4>2. x.size + 1 + rest.size \in Nat
               /\ x.size + 1 + rest.size >= MinChars
        BY <2>2, <2>3, ChunkerAssumption, SMTT(30)
      <4>3. QED
        BY <2>2, <2>3, <2>6, <3>2, <4>1, <4>2 DEF Stretch
    <3>4. Connected(p)
      BY <2>9 DEF Connected
    <3> HIDE DEF y
    <3>5. y.first <= y.last
      BY <2>6, <3>3
    <3>6. Covering(Append(p, y), n)
      BY <2>2, <2>6, <2>9, <3>3, <3>4, <3>5, AppendCovers
    <3>7. Append(p, y) \in Seq(Long) /\ Append(p, y) \in Seq(Stretch)
      BY <2>1, <2>2, <3>3 DEF Long
    <3>8. QED
      BY <2>5, <3>6, <3>7 DEF y
  <2>10. CASE p # <<>>
    <3>1. Covering(q, x.last)
      <4>1. x.last # 0
        <5>1. \A i \in DOMAIN q : i > 1 => q[i].first = q[i - 1].last + 1
          BY <2>6 DEF Connected
        <5>2. Len(p) \in Nat /\ Len(p) >= 1 /\ Len(q) = Len(p) + 1
          BY <2>1, <2>2, <2>10
        <5>3. Len(q) - 1 \in 1..Len(q) /\ Len(q) > 1
          BY <2>7, <5>2
        <5>4. q[Len(q) - 1].last \in Nat
          BY <1>1, <5>3, UnitOfList
        <5>5. x.first = q[Len(q) - 1].last + 1
          BY <2>4, <2>7, <5>1, <5>3
        <5>6. QED
          BY <2>2, <2>8, <5>4, <5>5
      <4>2. QED
        BY <1>4, <2>4, <2>6, <4>1 DEF Covering
    <3>2. /\ x.last # 0 /\ Connected(p)
          /\ p[1].first = 1 /\ x.first = p[Len(p)].last + 1
      BY <2>1, <2>2, <2>10, <3>1, AppendCovers
    <3>3. p[Len(p)].last \in Nat
      <4>1. Len(p) \in 1..Len(p)
        BY <2>2, <2>10
      <4>2. QED
        BY <2>2, <4>1, UnitOfList
    <3>4. x # NoBuffer
      BY <3>2, <3>3 DEF NoBuffer
    <3>5. /\ y \in Stretch /\ y.first = x.first /\ y.last = n
          /\ y.size >= MinChars
      <4>1. y = [first |-> x.first, last |-> rest.last,
                 size |-> x.size + 1 + rest.size]
        BY <3>4 DEF Join
      <4> HIDE DEF y
      <4>2. x.size + 1 + rest.size \in Nat
               /\ x.size + 1 + rest.size >= MinChars
        BY <2>2, <2>3, ChunkerAssumption, SMTT(30)
      <4>3. QED
        BY <2>2, <2>3, <2>6, <4>1, <4>2 DEF Stretch
    <3> HIDE DEF y
    <3>6. y.first <= y.last
      BY <2>2, <2>3, <2>6, <2>8, <3>5
    <3>7. Covering(Append(p, y), n)
      BY <2>2, <2>6, <2>10, <3>2, <3>5, <3>6, AppendCovers
    <3>8. Append(p, y) \in Seq(Long) /\ Append(p, y) \in Seq(Stretch)
      BY <2>1, <2>2, <3>5 DEF Long
    <3>9. QED
      BY <2>5, <3>7, <3>8 DEF y
  <2>11. QED
    BY <2>9, <2>10
<1>5. QED
  BY <1>2, <1>3, <1>4

\* Merged short sentences are the text, and none is short unless it is alone.
LEMMA ShortMerged ==
    ASSUME NEW q \in Seq(Stretch), Numbered(q)
    PROVE  LET r == MergeShort(q)
           IN  /\ r \in Seq(Stretch) /\ Covering(r, Len(q))
               /\ r \in Seq(Long) \/ Len(r) = 1
<1> DEFINE N == Len(q)
           f == Merging(q)
           W == [merged : Seq(Long), buffer : Stretch]
           D == {n \in 0..N : f[n] \in W /\ Holds(f[n], n)}
<1>1. N \in Nat /\ N \in 0..N /\ MinChars \in Nat
  BY ChunkerAssumption
<1>2. /\ f \in [0..N -> MergeStates]
      /\ f[0] = [merged |-> <<>>, buffer |-> NoBuffer]
      /\ \A n \in 1..N : f[n] = MergeNext(f[n - 1], q[n])
  BY MergingRuns
<1>3. \A n \in 1..N :
         q[n] \in Stretch /\ q[n].first = n /\ q[n].last = n
  BY UnitOfList DEF Numbered
<1> HIDE DEF f, N
<1>4. 0 \in D
  <2>1. NoBuffer \in Stretch
    BY DEF NoBuffer, Stretch
  <2>2. f[0] \in W
    BY <1>2, <2>1
  <2>3. Holds(f[0], 0)
    BY <1>2, HoldsNothing
  <2>4. QED
    BY <1>1, <2>2, <2>3
<1>5. ASSUME NEW n \in 0..N, n \in D, n < N
      PROVE  n + 1 \in D
  <2> DEFINE acc == f[n]
             p == q[n + 1]
             next == MergeNext(acc, p)
             c == Join(acc.buffer, p, 1)
  <2>1. n \in Nat /\ n + 1 \in 1..N /\ (n + 1) - 1 = n /\ n + 1 \in 0..N
    BY <1>1, <1>5
  <2>2. p \in Stretch /\ p.first = n + 1 /\ p.last = n + 1
    BY <1>3, <2>1
  <2>3. acc \in W /\ Holds(acc, n)
    BY <1>5
  <2>4. acc.merged \in Seq(Long) /\ acc.buffer \in Stretch
    BY <2>3
  <2>5. acc.merged \in Seq(Stretch)
    BY <2>4, SeqMonotonic DEF Long
  <2>6. /\ Covering(Flushed(acc.merged, acc.buffer), n)
        /\ acc.buffer = NoBuffer \/ acc.buffer.first >= 1
    BY <2>3 DEF Holds
  <2>7. c \in Stretch /\ NoBuffer \in Stretch
    BY <2>2, <2>4, JoinedStretch
  <2>8. f[n + 1] = next
    BY <1>2, <2>1
  <2> HIDE DEF acc, p
  <2>9. /\ Covering(Append(acc.merged, c), n + 1)
        /\ c # NoBuffer /\ c.first >= 1
    BY <2>1, <2>2, <2>4, <2>5, <2>6, CoverNext
  <2>10. ASSUME c.size >= MinChars
         PROVE  next \in W /\ Holds(next, n + 1)
    <3>1. next = [merged |-> Append(acc.merged, c), buffer |-> NoBuffer]
      BY <2>10 DEF MergeNext
    <3>2. c \in Long
      BY <2>7, <2>10 DEF Long
    <3> HIDE DEF next, c
    <3>3. next \in W
      BY <2>4, <2>7, <3>1, <3>2
    <3>4. Flushed(next.merged, next.buffer) = Append(acc.merged, c)
      BY <3>1 DEF Flushed
    <3>5. QED
      BY <2>9, <3>1, <3>3, <3>4 DEF Holds
  <2>11. ASSUME ~(c.size >= MinChars)
         PROVE  next \in W /\ Holds(next, n + 1)
    <3>1. next = [merged |-> acc.merged, buffer |-> c]
      BY <2>11 DEF MergeNext
    <3> HIDE DEF next, c
    <3>2. next \in W
      BY <2>4, <2>7, <3>1
    <3>3. Flushed(next.merged, next.buffer) = Append(acc.merged, c)
      BY <2>9, <3>1 DEF Flushed
    <3>4. QED
      BY <2>9, <3>1, <3>2, <3>3 DEF Holds
  <2> HIDE DEF next, c, W
  <2>12. QED
    BY <2>1, <2>8, <2>10, <2>11
<1> HIDE DEF D
<1>6. N \in D
  <2>1. \A n \in 0..N : n \in D
    BY <1>1, <1>4, <1>5, TurnByTurn
  <2>2. QED
    BY <1>1, <2>1
<1> DEFINE m == f[N].merged
           b == f[N].buffer
<1>7. m \in Seq(Long) /\ b \in Stretch /\ Covering(Flushed(m, b), N)
  BY <1>6 DEF D, Holds
<1>8. MergeShort(q) = WithRest(m, b)
  BY DEF MergeShort, f, N
<1> HIDE DEF m, b
<1>9. LET r == WithRest(m, b)
      IN  /\ r \in Seq(Stretch) /\ Covering(r, N)
          /\ r \in Seq(Long) \/ Len(r) = 1
  BY <1>1, <1>7, RestCovers
<1>10. QED
  BY <1>8, <1>9 DEF N

\* The total of two lists put together is the sum of their totals.
LEMMA TotalOfConcat ==
    ASSUME NEW a \in Seq(Stretch), NEW b \in Seq(Stretch)
    PROVE  /\ Total(a) \in Nat /\ Total(b) \in Nat
           /\ Total(a \o b) = Total(a) + Total(b)
<1> DEFINE c == a \o b
           la == Len(a)
           lb == Len(b)
           N == la + lb
           A == Sums(a)
           B == Sums(b)
           C == Sums(c)
           D == {n \in 0..N : C[n] = IF n <= la THEN A[n]
                                     ELSE A[la] + B[n - la]}
<1>1. /\ c \in Seq(Stretch) /\ Len(c) = N
      /\ \A i \in 1..N : c[i] = IF i <= la THEN a[i] ELSE b[i - la]
      /\ la \in Nat /\ lb \in Nat
  BY ConcatProperties
<1>2. /\ A \in [0..la -> Nat] /\ A[0] = 0
      /\ \A n \in 1..la : A[n] = A[n - 1] + a[n].size
  BY SumsRun
<1>3. /\ B \in [0..lb -> Nat] /\ B[0] = 0
      /\ \A n \in 1..lb : B[n] = B[n - 1] + b[n].size
  BY SumsRun
<1>4. /\ C \in [0..N -> Nat] /\ C[0] = 0
      /\ \A n \in 1..N : C[n] = C[n - 1] + c[n].size
  <2> HIDE DEF C, c
  <2>1. QED
    BY <1>1, SumsRun DEF C
<1>5. /\ \A i \in 1..la : a[i].size \in Nat
      /\ \A i \in 1..lb : b[i].size \in Nat
  BY UnitOfList
<1> HIDE DEF A, B, C, c, la, lb
<1>6. 0 \in D
  BY <1>1, <1>2, <1>4
<1>7. ASSUME NEW n \in 0..N, n \in D, n < N
      PROVE  n + 1 \in D
  <2>1. n \in Nat /\ n + 1 \in 1..N /\ (n + 1) - 1 = n /\ n + 1 \in 0..N
    BY <1>1, <1>7
  <2>2. C[n + 1] = C[n] + c[n + 1].size
    BY <1>4, <2>1
  <2>3. CASE n + 1 <= la
    <3>1. n + 1 \in 1..la /\ n <= la /\ c[n + 1] = a[n + 1]
      BY <1>1, <2>1, <2>3
    <3>2. A[n + 1] = A[n] + a[n + 1].size
      BY <1>2, <2>1, <3>1
    <3>3. QED
      BY <1>7, <2>1, <2>2, <2>3, <3>1, <3>2
  <2>4. CASE ~(n + 1 <= la)
    <3> DEFINE k == n - la
    <3>1. /\ k \in 0..lb /\ k + 1 \in 1..lb /\ (k + 1) - 1 = k
          /\ (n + 1) - la = k + 1
      BY <1>1, <2>1, <2>4
    <3>2. c[n + 1] = b[k + 1]
      BY <1>1, <2>1, <2>4, <3>1
    <3>3. B[k + 1] = B[k] + b[k + 1].size
      BY <1>3, <3>1
    <3>4. C[n] = A[la] + B[k]
      <4>1. CASE n = la
        <5>1. n <= la /\ k = 0 /\ A[la] \in Nat
          BY <1>1, <1>2, <4>1
        <5>2. QED
          BY <1>3, <1>7, <4>1, <5>1
      <4>2. CASE n # la
        <5>1. ~(n <= la)
          BY <1>1, <2>1, <2>4, <4>2
        <5>2. QED
          BY <1>7, <5>1
      <4>3. QED
        BY <4>1, <4>2
    <3>5. A[la] \in Nat /\ B[k] \in Nat /\ b[k + 1].size \in Nat
      <4>1. la \in 0..la
        BY <1>1
      <4>2. QED
        BY <1>2, <1>3, <1>5, <3>1, <4>1
    <3> HIDE DEF k
    <3>6. C[n + 1] = A[la] + B[k + 1]
      BY <2>2, <3>2, <3>3, <3>4, <3>5
    <3>7. QED
      BY <2>1, <2>4, <3>1, <3>6
  <2>5. QED
    BY <2>3, <2>4
<1> HIDE DEF D
<1>8. N \in D
  <2>1. N \in Nat /\ N \in 0..N
    BY <1>1
  <2> HIDE DEF N
  <2>2. \A n \in 0..N : n \in D
    BY <1>6, <1>7, <2>1, TurnByTurn
  <2>3. QED
    BY <2>1, <2>2
<1>9. A[la] \in Nat /\ B[lb] \in Nat
  BY <1>1, <1>2, <1>3
<1>10. C[N] = A[la] + B[lb]
  <2>1. CASE lb = 0
    BY <1>1, <1>3, <1>8, <1>9, <2>1 DEF D
  <2>2. CASE lb # 0
    <3>1. ~(N <= la) /\ N - la = lb
      BY <1>1, <2>2
    <3>2. QED
      BY <1>8, <3>1 DEF D
  <2>3. QED
    BY <2>1, <2>2
<1>11. Total(a) = A[la] /\ Total(b) = B[lb] /\ Total(c) = C[N]
  BY <1>1 DEF Total, A, B, C, la, lb
<1>12. QED
  BY <1>9, <1>10, <1>11 DEF c

\* The total of one stretch, and of a list with one more.
LEMMA TotalOfAppend ==
    ASSUME NEW q \in Seq(Stretch), NEW s \in Stretch
    PROVE  /\ Total(<<s>>) = s.size /\ s.size \in Nat
           /\ Total(Append(q, s)) = Total(q) + s.size
<1>1. s.size \in Nat
  BY DEF Stretch
<1> DEFINE p == <<s>>
<1>2. p \in Seq(Stretch) /\ Len(p) = 1 /\ p[1] = s
  OBVIOUS
<1>3. q \o p = Append(q, s)
  BY AppendIsConcat
<1> HIDE DEF p
<1>4. Sums(p)[0] = 0 /\ \A n \in 1..1 : Sums(p)[n] = Sums(p)[n - 1] + p[n].size
  BY <1>2, SumsRun
<1>5. Sums(p)[1] = s.size
  <2>1. 1 \in 1..1 /\ 1 - 1 = 0
    OBVIOUS
  <2>2. QED
    BY <1>1, <1>2, <1>4, <2>1
<1>6. Total(p) = s.size
  BY <1>2, <1>5 DEF Total
<1>7. Total(q \o p) = Total(q) + Total(p)
  BY <1>2, TotalOfConcat
<1>8. QED
  BY <1>1, <1>3, <1>6, <1>7 DEF p

\* The end of a list is a suffix of it.
LEMMA EndIsSuffix ==
    ASSUME NEW q \in Seq(Stretch), NEW k \in 0..Len(q)
    PROVE  /\ EndOf(q, k) \in Seq(Stretch) /\ Len(EndOf(q, k)) = k
           /\ IsSuffix(EndOf(q, k), q)
<1> DEFINE p == EndOf(q, k)
           N == Len(q)
           rp == Reverse(p)
           rq == Reverse(q)
<1>1. N \in Nat /\ k \in Nat /\ k <= N
  OBVIOUS
<1>2. /\ p \in Seq(Stretch) /\ Len(p) = k
      /\ \A j \in 1..k : p[j] = q[(N - k) + j]
  <2>1. /\ (N - k) + 1 \in 1..N + 1 /\ N \in 0..N
        /\ (N - k) + 1 <= N + 1
    BY <1>1
  <2> DEFINE m == (N - k) + 1
  <2>2. p = SubSeq(q, m, N)
    BY DEF EndOf
  <2>3. (N - m) + 1 = k /\ m \in Int /\ \A j \in Int : m + (j - 1) = (N - k) + j
    BY <1>1
  <2>4. /\ SubSeq(q, m, N) \in Seq(Stretch)
        /\ Len(SubSeq(q, m, N)) = (N - m) + 1
        /\ \A j \in 1..(N - m) + 1 : SubSeq(q, m, N)[j] = q[m + (j - 1)]
    BY <2>1, PartOfList
  <2> HIDE DEF p, m
  <2>5. QED
    BY <2>2, <2>3, <2>4
<1> HIDE DEF p
<1>3. /\ rp \in Seq(Stretch) /\ Len(rp) = k
      /\ \A i \in 1..k : rp[i] = p[(k - i) + 1]
  <2>1. \A i \in 1..k : (k - i) + 1 \in 1..k
    BY <1>1
  <2>2. \A i \in 1..k : p[(k - i) + 1] \in Stretch
    BY <1>2, <2>1
  <2>3. rp = [i \in 1..k |-> p[(k - i) + 1]]
    BY <1>2 DEF Reverse
  <2>4. rp \in [1..k -> Stretch]
    BY <2>2, <2>3
  <2> HIDE DEF rp
  <2>5. rp \in Seq(Stretch) /\ Len(rp) = k
    BY <1>1, <2>4, FunctionIsList
  <2>6. QED
    BY <2>3, <2>5
<1>4. /\ rq \in Seq(Stretch) /\ Len(rq) = N
      /\ \A i \in 1..N : rq[i] = q[(N - i) + 1]
  <2>1. \A i \in 1..N : (N - i) + 1 \in 1..N
    BY <1>1
  <2>2. \A i \in 1..N : q[(N - i) + 1] \in Stretch
    BY <2>1
  <2>3. rq = [i \in 1..N |-> q[(N - i) + 1]]
    BY DEF Reverse
  <2>4. rq \in [1..N -> Stretch]
    BY <2>2, <2>3
  <2> HIDE DEF rq
  <2>5. rq \in Seq(Stretch) /\ Len(rq) = N
    BY <1>1, <2>4, FunctionIsList
  <2>6. QED
    BY <2>3, <2>5
<1> HIDE DEF rp, rq
<1>5. \A i \in 1..k : rp[i] = rq[i]
  <2>1. ASSUME NEW i \in 1..k
        PROVE  rp[i] = rq[i]
    <3>1. /\ i \in 1..N /\ (k - i) + 1 \in 1..k
          /\ (N - k) + ((k - i) + 1) = (N - i) + 1
      BY <1>1
    <3>2. p[(k - i) + 1] = q[(N - i) + 1]
      BY <1>2, <3>1
    <3>3. QED
      BY <1>3, <1>4, <3>1, <3>2
  <2>2. QED
    BY <2>1
<1>6. SubSeq(rp, 1, k) = SubSeq(rq, 1, k)
  <2> DEFINE sp == SubSeq(rp, 1, k)
             sq == SubSeq(rq, 1, k)
  <2>1. /\ 1 \in 1..k + 1 /\ k \in 0..k /\ 1 <= k + 1 /\ (k - 1) + 1 = k
        /\ 1 \in 1..N + 1 /\ k \in 0..N
    BY <1>1
  <2>2. /\ sp \in Seq(Stretch) /\ Len(sp) = (k - 1) + 1
        /\ \A j \in 1..(k - 1) + 1 : sp[j] = rp[1 + (j - 1)]
    BY <1>3, <2>1, PartOfList
  <2>3. /\ sq \in Seq(Stretch) /\ Len(sq) = (k - 1) + 1
        /\ \A j \in 1..(k - 1) + 1 : sq[j] = rq[1 + (j - 1)]
    BY <1>4, <2>1, PartOfList
  <2> HIDE DEF sp, sq
  <2>4. \A j \in 1..Len(sp) : sp[j] = sq[j]
    BY <1>5, <2>1, <2>2, <2>3
  <2>5. sp = sq
    BY <2>1, <2>2, <2>3, <2>4, SeqEqual
  <2>6. QED
    BY <2>5 DEF sp, sq
<1>7. IsPrefix(rp, rq)
  BY <1>1, <1>3, <1>4, <1>6 DEF IsPrefix
<1>8. IsSuffix(p, q)
  BY <1>7 DEF IsSuffix, rp, rq
<1>9. QED
  BY <1>2, <1>8 DEF p

\* _build_overlap gives an end of the chunk before that fits into the overlap.
LEMMA OverlapFits ==
    ASSUME NEW q \in Seq(Stretch)
    PROVE  /\ Overlap(q) \in Seq(Stretch) /\ IsSuffix(Overlap(q), q)
           /\ Joined(Overlap(q), 1) <= OverlapChars
<1> DEFINE K == {k \in 0..Len(q) : Joined(EndOf(q, k), 1) <= OverlapChars}
<1>1. Len(q) \in Nat /\ K \in SUBSET (0..Len(q))
  OBVIOUS
<1>2. 0 \in K
  <2>1. 0 \in 0..Len(q)
    BY <1>1
  <2>2. EndOf(q, 0) = <<>>
    BY <2>1, EndIsSuffix
  <2>3. QED
    BY <2>1, <2>2, ChunkerAssumption DEF Joined
<1>3. \E m \in K : \A i \in K : m >= i
  <2> HIDE DEF K
  <2>1. QED
    BY <1>1, <1>2, LargestExists
<1>4. Max(K) \in K
  <2> HIDE DEF K
  <2>1. QED
    BY <1>3 DEF Max
<1>5. Overlap(q) = EndOf(q, Max(K))
  BY DEF Overlap
<1> DEFINE k == Max(K)
<1>6. k \in 0..Len(q) /\ Joined(EndOf(q, k), 1) <= OverlapChars
  BY <1>4
<1> HIDE DEF k
<1>7. EndOf(q, k) \in Seq(Stretch) /\ IsSuffix(EndOf(q, k), q)
  BY <1>6, EndIsSuffix
<1>8. QED
  BY <1>5, <1>6, <1>7 DEF k

\* Chunks of sentences, and what _build_chunks holds between two turns.
Cuts == [own : Seq(Stretch), overlap : Seq(Stretch)]
BuildStates ==
    [chunks : Seq(Cuts), own : Seq(Stretch), overlap : Seq(Stretch)]

\* _build_chunks keeps its type.
LEMMA BuildTypes ==
    ASSUME NEW acc \in BuildStates, NEW s \in Stretch
    PROVE  TakeSentence(acc, s) \in BuildStates
<1> DEFINE cut == [own |-> acc.own, overlap |-> acc.overlap]
<1>1. /\ acc.chunks \in Seq(Cuts) /\ acc.own \in Seq(Stretch)
      /\ acc.overlap \in Seq(Stretch)
  BY DEF BuildStates
<1>2. cut \in Cuts
  BY <1>1 DEF Cuts
<1>3. CutOff(acc) \in Seq(Cuts)
  BY <1>1, <1>2 DEF CutOff
<1>4. Append(acc.own, s) \in Seq(Stretch) /\ <<s>> \in Seq(Stretch)
  BY <1>1
<1>5. Overlap(acc.own) \in Seq(Stretch)
  BY <1>1, OverlapFits
<1>6. QED
  BY <1>1, <1>3, <1>4, <1>5 DEF TakeSentence, BuildStates

\* The turns of _build_chunks.
LEMMA BuildingRuns ==
    ASSUME NEW q \in Seq(Stretch)
    PROVE  /\ Building(q) \in [0..Len(q) -> BuildStates]
           /\ Building(q)[0] = [chunks |-> <<>>, own |-> <<>>, overlap |-> <<>>]
           /\ \A n \in 1..Len(q) :
                 Building(q)[n] =
                    TakeSentence(Building(q)[n - 1], q[n])
<1> DEFINE N == Len(q)
           start == [chunks |-> <<>>, own |-> <<>>, overlap |-> <<>>]
           step == [x \in BuildStates \X (1..N) |->
                      TakeSentence(x[1], q[x[2]])]
           f == Building(q)
<1>1. N \in Nat
  OBVIOUS
<1>2. \A s \in BuildStates, n \in 1..N :
         TakeSentence(s, q[n]) \in BuildStates
  <2>1. ASSUME NEW s \in BuildStates, NEW n \in 1..N
        PROVE  TakeSentence(s, q[n]) \in BuildStates
    <3>1. q[n] \in Stretch
      BY UnitOfList
    <3> HIDE DEF N
    <3>2. QED
      BY <3>1, BuildTypes
  <2>2. QED
    BY <2>1
<1>3. start \in BuildStates
  BY DEF BuildStates
<1>4. step \in [BuildStates \X (1..N) -> BuildStates]
  BY <1>2
<1>5. \A s \in BuildStates, n \in 1..N :
         step[<<s, n>>] = TakeSentence(s, q[n])
  OBVIOUS
<1> HIDE DEF step
<1>6. PICK g \in [0..N -> BuildStates] : Runs(g, N, start, step)
  <2> HIDE DEF N
  <2>1. QED
    BY <1>1, <1>3, <1>4, LoopComputes, Zenon
<1> HIDE DEF N
<1>7. ASSUME NEW n \in 0..N
      PROVE  g[n] = IF n = 0 THEN start
                     ELSE TakeSentence(g[n - 1], q[n])
  <2>1. CASE n = 0
    BY <1>6, <2>1 DEF Runs
  <2>2. CASE n # 0
    <3>1. n \in 1..N /\ g[n - 1] \in BuildStates
      BY <1>1, <1>6, <2>2
    <3>2. QED
      BY <1>5, <1>6, <2>2, <3>1 DEF Runs
  <2>3. QED
    BY <2>1, <2>2
<1>8. g = [n \in 0..N |-> IF n = 0 THEN start
                          ELSE TakeSentence(g[n - 1], q[n])]
  BY <1>7
<1>9. f = [n \in 0..N |-> IF n = 0 THEN start
                          ELSE TakeSentence(f[n - 1], q[n])]
  BY <1>8 DEF Building, N
<1> HIDE DEF f
<1>10. DOMAIN f = 0..N /\ f[0] = start
  BY <1>1, <1>9
<1>11. \A n \in 1..N :
          f[n] = TakeSentence(f[n - 1], q[n])
  <2>1. \A n \in 1..N : n \in 0..N /\ n # 0
    BY <1>1
  <2>2. QED
    BY <1>9, <2>1
<1>12. \A n \in 1..N : f[n - 1] \in BuildStates => f[n] \in BuildStates
  BY <1>2, <1>11
<1>13. f[0] \in BuildStates
  BY <1>3, <1>10
<1>14. \A n \in 0..N : f[n] \in BuildStates
  BY <1>1, <1>12, <1>13, LoopStays, Zenon
<1>15. f \in [0..N -> BuildStates]
  BY <1>9, <1>14
<1>16. QED
  BY <1>10, <1>11, <1>15 DEF f, N

\* The size of two lists of sentences that stand in one chunk.
LEMMA JoinedOfConcat ==
    ASSUME NEW a \in Seq(Stretch), NEW b \in Seq(Stretch), b # <<>>
    PROVE  /\ Joined(a, 1) \in Nat /\ Joined(b, 1) \in Nat
           /\ Joined(a \o b, 1) =
                 IF a = <<>> THEN Joined(b, 1)
                             ELSE Joined(a, 1) + 1 + Joined(b, 1)
<1>1. /\ Total(a) \in Nat /\ Total(b) \in Nat
      /\ Total(a \o b) = Total(a) + Total(b)
  BY TotalOfConcat
<1>2. /\ Len(a) \in Nat /\ Len(b) \in Nat /\ Len(b) >= 1
      /\ a # <<>> => Len(a) >= 1
  OBVIOUS
<1>3. Joined(b, 1) = Total(b) + (Len(b) - 1)
  BY <1>2 DEF Joined
<1>4. CASE a = <<>>
  <2>1. a \o b = b
    BY <1>4
  <2>2. Joined(a, 1) = 0
    BY <1>4 DEF Joined
  <2>3. Joined(b, 1) \in Nat
    BY <1>1, <1>2, <1>3
  <2>4. QED
    BY <1>4, <2>1, <2>2, <2>3
<1>5. CASE a # <<>>
  <2>1. Joined(a, 1) = Total(a) + (Len(a) - 1)
    BY <1>2, <1>5 DEF Joined
  <2>2. a \o b # <<>> /\ Len(a \o b) = Len(a) + Len(b)
    BY <1>5
  <2> DEFINE c == a \o b
  <2>3. Joined(c, 1) = Total(c) + 1 * (Len(c) - 1)
    BY <2>2 DEF Joined
  <2> HIDE DEF c
  <2>4. Total(c) = Total(a) + Total(b) /\ Len(c) = Len(a) + Len(b)
    BY <1>1, <2>2 DEF c
  <2>5. Joined(c, 1) = Joined(a, 1) + 1 + Joined(b, 1)
    BY <1>1, <1>2, <1>3, <2>1, <2>3, <2>4
  <2>6. QED
    BY <1>1, <1>2, <1>3, <1>5, <2>1, <2>5 DEF c
<1>6. QED
  BY <1>4, <1>5

\* Chunks of sentences of L: connected, and short unless it is one sentence,
\* behind an overlap that is short.
GoodCuts(L) ==
    {x \in [own : Seq(L), overlap : Seq(Stretch)] :
        /\ x.own # <<>> /\ Connected(x.own)
        /\ x.own[1].first <= x.own[Len(x.own)].last
        /\ Joined(x.overlap, 1) <= OverlapChars
        /\ Len(x.own) = 1 \/ Joined(x.own, 1) < MaxChars}

\* What a chunk covers, and what all of them cover.
Extent(x) ==
    [first |-> x.own[1].first, last |-> x.own[Len(x.own)].last]
Extents(c) == [i \in DOMAIN c |-> Extent(c[i])]

\* A chunk repeats the end of the one before it.
Repeats(c) ==
    \A i \in DOMAIN c :
        IF i = 1 THEN c[i].overlap = <<>>
                 ELSE IsSuffix(c[i].overlap, c[i - 1].own)

\* Extents and repetitions of one more chunk.
LEMMA CutAppended ==
    ASSUME NEW S, NEW c \in Seq(S), NEW x \in S
    PROVE  /\ Extents(c) \in Seq({Extent(y) : y \in S})
           /\ Len(Extents(c)) = Len(c)
           /\ \A i \in 1..Len(c) : Extents(c)[i] = Extent(c[i])
           /\ Extents(Append(c, x)) = Append(Extents(c), Extent(x))
           /\ Repeats(Append(c, x)) <=>
                 /\ Repeats(c)
                 /\ IF c = <<>> THEN x.overlap = <<>>
                    ELSE IsSuffix(x.overlap, c[Len(c)].own)
<1> DEFINE r == Append(c, x)
           k == Len(c)
           e == Extents(c)
           f == Extents(r)
           T == {Extent(y) : y \in S}
<1>1. /\ r \in Seq(S) /\ Len(r) = k + 1 /\ r[k + 1] = x /\ k \in Nat
      /\ \A i \in 1..k : r[i] = c[i]
      /\ c # <<>> <=> k > 0
  OBVIOUS
<1>2. DOMAIN r = 1..k + 1 /\ DOMAIN c = 1..k
  BY <1>1
<1>3. \A i \in 1..k : c[i] \in S
  OBVIOUS
<1> HIDE DEF r, k
<1>4. e \in [1..k -> T] /\ \A i \in 1..k : e[i] = Extent(c[i])
  BY <1>2, <1>3 DEF Extents
<1>5. f \in [1..k + 1 -> T] /\ \A i \in 1..k + 1 : f[i] = Extent(r[i])
  <2>1. \A i \in 1..k + 1 : r[i] \in S
    BY <1>1
  <2>2. QED
    BY <1>2, <2>1 DEF Extents
<1> HIDE DEF e, f, T
<1>6. e \in Seq(T) /\ Len(e) = k
  BY <1>1, <1>4, FunctionIsList
<1>7. f \in Seq(T) /\ Len(f) = k + 1
  <2>1. k + 1 \in Nat
    BY <1>1
  <2>2. QED
    BY <1>5, <2>1, FunctionIsList
<1> DEFINE g == Append(e, Extent(x))
<1>8. Extent(x) \in T
  BY DEF T
<1>9. /\ g \in Seq(T) /\ Len(g) = k + 1 /\ g[k + 1] = Extent(x)
      /\ \A i \in 1..k : g[i] = e[i]
  BY <1>1, <1>6, <1>8
<1> HIDE DEF g
<1>10. \A i \in 1..k + 1 : f[i] = g[i]
  <2>1. ASSUME NEW i \in 1..k + 1
        PROVE  f[i] = g[i]
    <3>1. CASE i = k + 1
      BY <1>1, <1>5, <1>9, <3>1
    <3>2. CASE i # k + 1
      <4>1. i \in 1..k
        BY <1>1, <3>2
      <4>2. QED
        BY <1>1, <1>4, <1>5, <1>9, <4>1
    <3>3. QED
      BY <3>1, <3>2
  <2>2. QED
    BY <2>1
<1>11. f = g
  BY <1>7, <1>9, <1>10, SeqEqual
<1>12. Repeats(r) <=>
          /\ Repeats(c)
          /\ IF c = <<>> THEN x.overlap = <<>>
             ELSE IsSuffix(x.overlap, c[k].own)
  <2>1. ASSUME Repeats(r)
        PROVE  /\ Repeats(c)
               /\ IF c = <<>> THEN x.overlap = <<>>
                  ELSE IsSuffix(x.overlap, c[k].own)
    <3>1. ASSUME NEW i \in DOMAIN c
          PROVE  IF i = 1 THEN c[i].overlap = <<>>
                          ELSE IsSuffix(c[i].overlap, c[i - 1].own)
      <4>1. i \in 1..k /\ i \in DOMAIN r /\ r[i] = c[i]
        BY <1>1, <1>2
      <4>2. i # 1 => r[i - 1] = c[i - 1]
        BY <1>1, <4>1
      <4>3. QED
        BY <2>1, <4>1, <4>2 DEF Repeats
    <3>2. k + 1 \in DOMAIN r /\ (k + 1) - 1 = k /\ (k > 0 => r[k] = c[k])
      BY <1>1, <1>2
    <3>3. IF k = 0 THEN x.overlap = <<>> ELSE IsSuffix(x.overlap, c[k].own)
      BY <1>1, <2>1, <3>2 DEF Repeats
    <3>4. QED
      BY <1>1, <3>1, <3>3 DEF Repeats
  <2>2. ASSUME Repeats(c),
               IF c = <<>> THEN x.overlap = <<>>
               ELSE IsSuffix(x.overlap, c[k].own)
        PROVE  Repeats(r)
    <3>1. ASSUME NEW i \in DOMAIN r
          PROVE  IF i = 1 THEN r[i].overlap = <<>>
                          ELSE IsSuffix(r[i].overlap, r[i - 1].own)
      <4>1. CASE i = k + 1
        <5>1. (k + 1) - 1 = k /\ (k > 0 => r[k] = c[k]) /\ (k = 0 <=> i = 1)
          BY <1>1, <4>1
        <5>2. QED
          BY <1>1, <2>2, <4>1, <5>1
      <4>2. CASE i # k + 1
        <5>1. i \in 1..k /\ i \in DOMAIN c /\ r[i] = c[i]
          BY <1>1, <1>2, <4>2
        <5>2. i # 1 => r[i - 1] = c[i - 1]
          BY <1>1, <5>1
        <5>3. QED
          BY <2>2, <5>1, <5>2 DEF Repeats
      <4>3. QED
        BY <4>1, <4>2
    <3>2. QED
      BY <3>1 DEF Repeats
  <2>3. QED
    BY <2>1, <2>2
<1>13. QED
  BY <1>4, <1>6, <1>11, <1>12 DEF e, f, g, r, k, T

\* The chunks up to sentence x, the open one included.
Built(acc, L, x) ==
    /\ acc.chunks \in Seq(GoodCuts(L))
    /\ [own |-> acc.own, overlap |-> acc.overlap] \in GoodCuts(L)
    /\ acc.own[Len(acc.own)] = x
    /\ Covering(Extents(CutOff(acc)), x.last)
    /\ Repeats(CutOff(acc))

\* The first sentence opens the first chunk.
LEMMA FirstSentence ==
    ASSUME NEW L \in SUBSET Stretch, NEW s \in L,
           s.first = 1, s.first <= s.last
    PROVE  Built(TakeSentence([chunks |-> <<>>, own |-> <<>>,
                               overlap |-> <<>>], s), L, s)
<1> DEFINE acc == [chunks |-> <<>>, own |-> <<>>, overlap |-> <<>>]
           next == TakeSentence(acc, s)
           x == [own |-> <<s>>, overlap |-> <<>>]
<1>1. next = [chunks |-> <<>>, own |-> <<s>>, overlap |-> <<>>]
  BY DEF TakeSentence
<1>2. s \in Stretch /\ s.last \in Nat /\ s.last # 0
  <2>1. s \in Stretch
    OBVIOUS
  <2>2. s.last \in Nat
    BY <2>1 DEF Stretch
  <2>3. QED
    BY <2>1, <2>2
<1>3. /\ <<s>> \in Seq(L) /\ Len(<<s>>) = 1 /\ <<s>>[1] = s /\ <<s>> # <<>>
      /\ <<>> \in Seq(Stretch) /\ DOMAIN <<s>> = 1..1
  OBVIOUS
<1>4. Connected(<<s>>)
  BY <1>3 DEF Connected
<1>5. x \in GoodCuts(L)
  <2>1. Joined(<<>>, 1) = 0 /\ 0 <= OverlapChars
    BY ChunkerAssumption DEF Joined
  <2>2. QED
    BY <1>3, <1>4, <2>1 DEF GoodCuts
<1> HIDE DEF next
<1>6. CutOff(next) = Append(<<>>, x)
  BY <1>1 DEF CutOff
<1> DEFINE none == <<>>
<1>7. none \in Seq(GoodCuts(L)) /\ Extents(none) = <<>> /\ Repeats(none)
  BY DEF Extents, Repeats
<1>8. Extent(x) = [first |-> s.first, last |-> s.last]
  BY <1>3 DEF Extent
<1>9. /\ Extents(Append(none, x)) = Append(Extents(none), Extent(x))
      /\ Repeats(Append(none, x)) <=>
            Repeats(none) /\ IF none = <<>> THEN x.overlap = <<>>
                             ELSE IsSuffix(x.overlap, none[Len(none)].own)
  <2> HIDE DEF none, x
  <2>1. QED
    BY <1>5, <1>7, CutAppended
<1>10. Covering(Append(<<>>, Extent(x)), s.last)
  <2> DEFINE e == Extent(x)
             T == {e}
  <2>1. e.first = 1 /\ e.last = s.last /\ e.first <= e.last
    BY <1>8
  <2>2. <<>> \in Seq(T) /\ e \in T /\ Connected(<<>>)
    BY DEF Connected
  <2> HIDE DEF e, T
  <2>3. Covering(Append(<<>>, e), s.last)
    BY <1>2, <2>1, <2>2, AppendCovers
  <2>4. QED
    BY <2>3 DEF e
<1>11. /\ Covering(Extents(CutOff(next)), s.last)
       /\ Repeats(CutOff(next))
  BY <1>6, <1>7, <1>9, <1>10
<1>12. next.own[Len(next.own)] = s
  BY <1>1, <1>3
<1>13. [own |-> next.own, overlap |-> next.overlap] = x
  BY <1>1
<1>14. next.chunks \in Seq(GoodCuts(L))
  BY <1>1, <1>7
<1> HIDE DEF x
<1>15. Built(next, L, s)
  BY <1>5, <1>11, <1>12, <1>13, <1>14 DEF Built
<1>16. QED
  BY <1>15 DEF next

\* Every other sentence is added to the open chunk or opens another one.
LEMMA NextSentence ==
    ASSUME NEW L \in SUBSET Stretch, NEW acc \in BuildStates, NEW x \in L,
           NEW s \in L, Built(acc, L, x),
           s.first = x.last + 1, s.first <= s.last
    PROVE  Built(TakeSentence(acc, s), L, s)
<1> DEFINE next == TakeSentence(acc, s)
           c == acc.chunks
           own == acc.own
           cut == [own |-> own, overlap |-> acc.overlap]
           G == GoodCuts(L)
<1>1. /\ x \in Stretch /\ x.last \in Nat
      /\ s \in Stretch /\ s.first \in Nat /\ s.last \in Nat /\ s.size \in Nat
      /\ s.last # 0
  <2>1. x \in Stretch /\ s \in Stretch
    OBVIOUS
  <2>2. /\ x.last \in Nat
        /\ s.first \in Nat /\ s.last \in Nat /\ s.size \in Nat
    BY <2>1 DEF Stretch
  <2>3. QED
    BY <2>1, <2>2
<1>2. /\ c \in Seq(G) /\ cut \in G /\ own[Len(own)] = x
      /\ CutOff(acc) = Append(c, cut)
      /\ Covering(Append(Extents(c), Extent(cut)), x.last)
      /\ Repeats(c)
      /\ IF c = <<>> THEN cut.overlap = <<>>
         ELSE IsSuffix(cut.overlap, c[Len(c)].own)
  <2>1. c \in Seq(G) /\ cut \in G /\ own[Len(own)] = x
    BY DEF Built
  <2>2. CutOff(acc) = Append(c, cut)
    BY DEF CutOff
  <2>3. Covering(Extents(CutOff(acc)), x.last) /\ Repeats(CutOff(acc))
    BY DEF Built
  <2> HIDE DEF c, cut, G
  <2>4. /\ Extents(Append(c, cut)) = Append(Extents(c), Extent(cut))
        /\ Repeats(Append(c, cut)) <=>
              /\ Repeats(c)
              /\ IF c = <<>> THEN cut.overlap = <<>>
                 ELSE IsSuffix(cut.overlap, c[Len(c)].own)
    BY <2>1, CutAppended
  <2>5. QED
    BY <2>1, <2>2, <2>3, <2>4
<1>3. /\ own \in Seq(L) /\ own \in Seq(Stretch) /\ own # <<>>
      /\ Connected(own) /\ own[1].first <= x.last
      /\ acc.overlap \in Seq(Stretch) /\ Joined(acc.overlap, 1) <= OverlapChars
      /\ own[1].first \in Nat
      /\ Len(own) \in Nat /\ Len(own) >= 1
  <2>1. /\ own \in Seq(L) /\ own # <<>> /\ Connected(own)
        /\ own[1].first <= x.last
        /\ acc.overlap \in Seq(Stretch)
        /\ Joined(acc.overlap, 1) <= OverlapChars
    BY <1>2 DEF GoodCuts
  <2>2. own \in Seq(Stretch)
    BY <2>1, SeqMonotonic
  <2>3. Len(own) \in Nat /\ Len(own) >= 1 /\ 1 \in 1..Len(own)
    BY <2>1
  <2>4. own[1].first \in Nat
    BY <2>2, <2>3, UnitOfList
  <2>5. QED
    BY <2>1, <2>2, <2>3, <2>4
<1>4. Extent(cut) = [first |-> own[1].first, last |-> x.last]
  BY <1>2 DEF Extent
<1>5. /\ Extents(c) \in Seq({Extent(y) : y \in G})
      /\ Len(Extents(c)) = Len(c)
  BY <1>2, CutAppended
<1> DEFINE e == Extents(c)
           E == {Extent(y) : y \in G}
<1>6. /\ e \in Seq(E) /\ Extent(cut) \in E
      /\ Connected(e)
      /\ IF e = <<>> THEN own[1].first = 1
         ELSE e[1].first = 1 /\ own[1].first = e[Len(e)].last + 1
  <2>1. e \in Seq(E) /\ Extent(cut) \in E
    BY <1>2, <1>5
  <2>2. Extent(cut).first = own[1].first
    BY <1>4
  <2>3. Covering(Append(e, Extent(cut)), x.last)
    BY <1>2
  <2> HIDE DEF e, E, cut
  <2>4. QED
    BY <1>1, <2>1, <2>2, <2>3, AppendCovers
<1>7. CASE own = <<>> \/ Fits(Total(own) + Len(own), s.size)
  <2> DEFINE longer == Append(own, s)
             grown == [own |-> longer, overlap |-> acc.overlap]
  <2>1. next = [chunks |-> c, own |-> longer, overlap |-> acc.overlap]
    BY <1>7 DEF TakeSentence
  <2>2. Fits(Total(own) + Len(own), s.size)
    BY <1>3, <1>7
  <2>3. /\ longer \in Seq(L) /\ longer # <<>> /\ longer[1] = own[1]
        /\ Len(longer) = Len(own) + 1 /\ longer[Len(longer)] = s
    BY <1>3
  <2>4. Connected(longer)
    BY <1>1, <1>2, <1>3, ConnectedAppend
  <2>5. Joined(longer, 1) < MaxChars
    <3>1. Total(longer) = Total(own) + s.size /\ Total(own) \in Nat
      BY <1>1, <1>3, TotalOfAppend, TotalOfConcat
    <3>2. Joined(longer, 1) = Total(longer) + 1 * (Len(longer) - 1)
      BY <2>3 DEF Joined
    <3> HIDE DEF longer
    <3>3. QED
      BY <1>1, <1>3, <2>2, <2>3, <3>1, <3>2, ChunkerAssumption DEF Fits
  <2>6. own[1].first <= s.last
    BY <1>1, <1>3
  <2> HIDE DEF longer
  <2>7. grown \in G
    BY <1>3, <2>3, <2>4, <2>5, <2>6 DEF GoodCuts
  <2>8. Extent(grown) = [first |-> own[1].first, last |-> s.last]
    BY <2>3 DEF Extent
  <2>9. grown.overlap = cut.overlap
    OBVIOUS
  <2>10. Extent(grown) \in E
    BY <2>7
  <2> HIDE DEF grown
  <2>11. Covering(Append(e, Extent(grown)), s.last)
    <3>1. Extent(grown).first = own[1].first /\ Extent(grown).last = s.last
      BY <2>8
    <3> HIDE DEF e, E
    <3>2. QED
      BY <1>1, <1>6, <2>6, <2>10, <3>1, AppendCovers
  <2>12. /\ Extents(Append(c, grown)) = Append(e, Extent(grown))
         /\ Repeats(Append(c, grown))
    <3> HIDE DEF c, G, cut
    <3>1. c \in Seq(G) /\ grown \in G
      BY <1>2, <2>7
    <3>2. /\ Extents(Append(c, grown)) = Append(Extents(c), Extent(grown))
          /\ Repeats(Append(c, grown)) <=>
                /\ Repeats(c)
                /\ IF c = <<>> THEN grown.overlap = <<>>
                   ELSE IsSuffix(grown.overlap, c[Len(c)].own)
      BY <3>1, CutAppended, ZenonT(60)
    <3>3. QED
      BY <1>2, <2>9, <3>2
  <2>13. CutOff(next) = Append(c, grown)
    BY <2>1 DEF CutOff, grown
  <2> HIDE DEF next
  <2>14. next.own[Len(next.own)] = s
    BY <2>1, <2>3
  <2>15. Built(next, L, s)
    BY <1>2, <2>1, <2>7, <2>11, <2>12, <2>13, <2>14 DEF Built, grown
  <2>16. QED
    BY <2>15 DEF next
<1>8. CASE ~(own = <<>> \/ Fits(Total(own) + Len(own), s.size))
  <2> DEFINE ov == Overlap(own)
             new == [own |-> <<s>>, overlap |-> ov]
             d == Append(c, cut)
  <2>1. next = [chunks |-> d, own |-> <<s>>, overlap |-> ov]
    BY <1>2, <1>8 DEF TakeSentence
  <2>2. /\ ov \in Seq(Stretch) /\ IsSuffix(ov, own)
        /\ Joined(ov, 1) <= OverlapChars
    BY <1>3, OverlapFits
  <2>3. /\ <<s>> \in Seq(L) /\ Len(<<s>>) = 1 /\ <<s>>[1] = s
        /\ <<s>> # <<>> /\ DOMAIN <<s>> = 1..1
    OBVIOUS
  <2>4. Connected(<<s>>)
    BY <2>3 DEF Connected
  <2> HIDE DEF ov
  <2>5. new \in G
    BY <2>2, <2>3, <2>4 DEF GoodCuts
  <2>6. Extent(new) = [first |-> s.first, last |-> s.last]
    BY <2>3 DEF Extent
  <2>7. d \in Seq(G) /\ d # <<>> /\ d[Len(d)] = cut
    BY <1>2
  <2>8. Repeats(d) /\ Extents(d) = Append(e, Extent(cut))
    <3> HIDE DEF c, G, cut
    <3>1. QED
      BY <1>2, CutAppended
  <2>9. /\ Connected(Extents(d)) /\ Extents(d) # <<>>
        /\ Extents(d)[1].first = 1
        /\ Extents(d)[Len(Extents(d))].last = x.last
    <3>1. Extents(d) # <<>> /\ Covering(Extents(d), x.last)
      <4> HIDE DEF e, d
      <4>1. Append(e, Extent(cut)) # <<>>
        BY <1>6
      <4>2. QED
        BY <1>2, <2>8, <4>1 DEF e
    <3>2. QED
      BY <3>1 DEF Covering
  <2>10. Extents(d) \in Seq(E)
    <3> HIDE DEF d, G
    <3>1. QED
      BY <2>5, <2>7, CutAppended
  <2>11. Extent(new) \in E
    BY <2>5
  <2>12. new.overlap = ov /\ cut.own = own
    OBVIOUS
  <2> HIDE DEF new, d, E
  <2>13. Covering(Append(Extents(d), Extent(new)), s.last)
    <3>1. Extent(new).first = s.first /\ Extent(new).last = s.last
      BY <2>6
    <3>2. QED
      BY <1>1, <2>9, <2>10, <2>11, <3>1, AppendCovers
  <2>14. /\ Extents(Append(d, new)) = Append(Extents(d), Extent(new))
         /\ Repeats(Append(d, new))
    <3> HIDE DEF G, cut
    <3>1. QED
      BY <2>2, <2>5, <2>7, <2>8, <2>12, CutAppended
  <2>15. CutOff(next) = Append(d, new)
    BY <2>1 DEF CutOff, new
  <2> HIDE DEF next
  <2>16. next.own[Len(next.own)] = s
    BY <2>1, <2>3
  <2>17. Built(next, L, s)
    BY <2>1, <2>5, <2>7, <2>13, <2>14, <2>15, <2>16 DEF Built, new
  <2>18. QED
    BY <2>17 DEF next
<1>9. QED
  BY <1>7, <1>8

\* The chunks of sentences that are the text are the text.
LEMMA ChunksBuilt ==
    ASSUME NEW L \in SUBSET Stretch, NEW q \in Seq(L), NEW m \in Nat,
           Covering(q, m)
    PROVE  LET r == BuildChunks(q)
           IN  /\ r \in Seq(GoodCuts(L)) /\ Covering(Extents(r), m)
               /\ Repeats(r)
               /\ Len(q) = 1 => Len(r) = 1 /\ Len(r[1].own) = 1
<1> DEFINE N == Len(q)
           f == Building(q)
           r == BuildChunks(q)
           start == [chunks |-> <<>>, own |-> <<>>, overlap |-> <<>>]
           D == {n \in 0..N : n = 0 \/ Built(f[n], L, q[n])}
<1>1. N \in Nat /\ N \in 0..N
  OBVIOUS
<1>2. /\ f \in [0..N -> BuildStates] /\ f[0] = start
      /\ \A n \in 1..N : f[n] = TakeSentence(f[n - 1], q[n])
  <2>1. q \in Seq(Stretch)
    BY SeqMonotonic
  <2>2. QED
    BY <2>1, BuildingRuns
<1>3. \A n \in 1..N : q[n] \in L
  OBVIOUS
<1>4. DOMAIN q = 1..N /\ (q = <<>> <=> N = 0)
  OBVIOUS
<1>5. r = IF f[N].own = <<>> THEN f[N].chunks ELSE CutOff(f[N])
  BY DEF BuildChunks
<1> HIDE DEF f, N, start, r
<1>6. N = 0 <=> m = 0
  BY <1>4 DEF Covering
<1>7. \A n \in 1..N : /\ q[n].first <= q[n].last
                      /\ n > 1 => q[n].first = q[n - 1].last + 1
  BY <1>4 DEF Covering, Connected
<1>8. N # 0 => q[1].first = 1 /\ q[N].last = m
  BY <1>4 DEF Covering, N
<1>9. 0 \in D
  BY <1>1
<1>10. ASSUME NEW n \in 0..N, n \in D, n < N
       PROVE  n + 1 \in D
  <2>1. n \in Nat /\ n + 1 \in 1..N /\ (n + 1) - 1 = n /\ n + 1 \in 0..N
    BY <1>1, <1>10
  <2> DEFINE s == q[n + 1]
  <2>2. s \in L /\ s.first <= s.last /\ f[n + 1] = TakeSentence(f[n], s)
    BY <1>2, <1>3, <1>7, <2>1
  <2>3. CASE n = 0
    <3>1. s.first = 1
      BY <1>1, <1>8, <2>1, <2>3
    <3>2. f[n] = [chunks |-> <<>>, own |-> <<>>, overlap |-> <<>>]
      BY <1>2, <2>3 DEF start
    <3> HIDE DEF s
    <3>3. Built(f[n + 1], L, s)
      BY <2>2, <3>1, <3>2, FirstSentence
    <3>4. QED
      BY <2>1, <3>3 DEF s
  <2>4. CASE n # 0
    <3>1. n \in 1..N /\ n + 1 > 1
      BY <2>1, <2>4
    <3>2. s.first = q[n].last + 1
      BY <1>7, <2>1, <3>1
    <3>3. Built(f[n], L, q[n])
      BY <1>10, <2>4
    <3> DEFINE acc == f[n]
               x == q[n]
    <3>4. acc \in BuildStates /\ x \in L /\ Built(acc, L, x)
      BY <1>2, <1>3, <3>1, <3>3
    <3>5. s.first = x.last + 1 /\ f[n + 1] = TakeSentence(acc, s)
      BY <2>2, <3>2
    <3> HIDE DEF s, acc, x
    <3>6. Built(f[n + 1], L, s)
      BY <2>2, <3>4, <3>5, NextSentence
    <3>7. QED
      BY <2>1, <3>6 DEF s
  <2>5. QED
    BY <2>3, <2>4
<1> HIDE DEF D
<1>11. N \in D
  <2>1. \A n \in 0..N : n \in D
    BY <1>1, <1>9, <1>10, TurnByTurn
  <2>2. QED
    BY <1>1, <2>1
<1>12. CASE N = 0
  <2>1. r = <<>> /\ m = 0
    BY <1>2, <1>5, <1>6, <1>12 DEF start
  <2>2. /\ <<>> \in Seq(GoodCuts(L)) /\ Extents(<<>>) = <<>>
        /\ Repeats(<<>>) /\ Covering(<<>>, 0)
    BY DEF Extents, Repeats, Covering, Connected
  <2>3. /\ r \in Seq(GoodCuts(L)) /\ Covering(Extents(r), m) /\ Repeats(r)
    BY <2>1, <2>2
  <2>4. QED
    BY <1>12, <2>3 DEF r, N
<1>13. CASE N # 0
  <2> DEFINE acc == f[N]
             cut == [own |-> acc.own, overlap |-> acc.overlap]
  <2>1. Built(acc, L, q[N]) /\ q[N].last = m
    BY <1>8, <1>11, <1>13 DEF D
  <2>2. /\ acc.chunks \in Seq(GoodCuts(L)) /\ cut \in GoodCuts(L)
        /\ Covering(Extents(CutOff(acc)), m) /\ Repeats(CutOff(acc))
    BY <2>1 DEF Built
  <2>3. acc.own # <<>>
    BY <2>2 DEF GoodCuts
  <2>4. r = CutOff(acc) /\ r = Append(acc.chunks, cut)
    BY <1>5, <2>3 DEF CutOff
  <2>5. ASSUME N = 1
        PROVE  Len(r) = 1 /\ Len(r[1].own) = 1
    <3>1. 1 \in 1..N /\ 1 - 1 = 0
      BY <2>5
    <3>2. acc = TakeSentence(start, q[1])
      BY <1>2, <2>5, <3>1
    <3>3. acc = [chunks |-> <<>>, own |-> <<q[1]>>, overlap |-> <<>>]
      BY <3>2 DEF TakeSentence, start
    <3> HIDE DEF acc
    <3>4. r = <<[own |-> <<q[1]>>, overlap |-> <<>>]>>
      BY <2>4, <3>3
    <3>5. QED
      BY <3>4
  <2> HIDE DEF cut, acc
  <2>6. r \in Seq(GoodCuts(L))
    BY <2>2, <2>4
  <2>7. /\ r \in Seq(GoodCuts(L)) /\ Covering(Extents(r), m) /\ Repeats(r)
        /\ N = 1 => Len(r) = 1 /\ Len(r[1].own) = 1
    BY <2>2, <2>4, <2>5, <2>6
  <2>8. QED
    BY <2>7 DEF r, N
<1>14. QED
  BY <1>12, <1>13

\* The units of a text are not empty.
Worded(q) == \A i \in 1..Len(q) : q[i].size >= 1

\* The units of a text.
LEMMA UnitsOfText ==
    ASSUME NEW sizes \in SeqOf(Sizes, MaxUnits)
    PROVE  /\ Units(sizes) \in Seq(Stretch) /\ Numbered(Units(sizes))
           /\ Total(Units(sizes)) \in Nat /\ Worded(Units(sizes))
<1>1. PICK k \in 0..MaxUnits : sizes \in [1..k -> Sizes]
  BY DEF SeqOf
<1>2. /\ k \in Nat
      /\ \A i \in 1..k : i \in Nat /\ sizes[i] \in Nat /\ sizes[i] >= 1
  <2>1. MaxUnits \in Nat /\ \A x \in Sizes : x \in Nat /\ x >= 1
    BY ChunkerAssumption
  <2>2. \A i \in 1..k : sizes[i] \in Sizes
    BY <1>1
  <2>3. k \in Nat
    BY <2>1
  <2>4. QED
    BY <2>1, <2>2, <2>3
<1> DEFINE q == Units(sizes)
<1>3. q = [i \in 1..k |-> [first |-> i, last |-> i, size |-> sizes[i]]]
  BY <1>1 DEF Units
<1>4. q \in [1..k -> Stretch]
  BY <1>2, <1>3 DEF Stretch
<1> HIDE DEF q
<1>5. q \in Seq(Stretch) /\ Len(q) = k
  BY <1>2, <1>4, FunctionIsList
<1>6. Numbered(q)
  BY <1>3, <1>5 DEF Numbered
<1>7. Total(q) \in Nat
  BY <1>5, TotalOfConcat
<1>8. Worded(q)
  BY <1>2, <1>3, <1>5 DEF Worded
<1>9. QED
  BY <1>5, <1>6, <1>7, <1>8 DEF q

\* A covering of the units of a text covers the text.
LEMMA CoveringCovers ==
    ASSUME NEW q, NEW units \in Seq(Stretch), Covering(q, Len(units))
    PROVE  Covers(q, units)
<1>1. units = <<>> <=> Len(units) = 0
  OBVIOUS
<1>2. QED
  BY <1>1 DEF Covers, Covering

\* TurkishChunker: what its chunks are made of.
LEMMA TurkishIsFaithful ==
    ASSUME NEW q \in Seq(Stretch), Numbered(q)
    PROVE  LET r == BuildChunks(MergeShort(q))
           IN  /\ \A i \in DOMAIN r : r[i].own # <<>> /\ Connected(r[i].own)
               /\ Covers(Extents(r), q) /\ Repeats(r)
               /\ \A i \in DOMAIN r :
                    /\ Joined(r[i].overlap \o r[i].own, 1)
                            <= MaxChars + OverlapChars \/ Len(r[i].own) = 1
                    /\ \A j \in DOMAIN r[i].own :
                        r[i].own[j].size >= MinChars
                            \/ (Len(r) = 1 /\ Len(r[i].own) = 1)
<1> DEFINE s == MergeShort(q)
           r == BuildChunks(s)
<1>1. /\ s \in Seq(Stretch) /\ Covering(s, Len(q))
      /\ s \in Seq(Long) \/ Len(s) = 1
  BY ShortMerged
<1>2. Len(q) \in Nat
  OBVIOUS
<1> HIDE DEF s
<1>3. ASSUME NEW L \in SUBSET Stretch, s \in Seq(L)
      PROVE  /\ r \in Seq(GoodCuts(L)) /\ Covering(Extents(r), Len(q))
             /\ Repeats(r)
             /\ Len(s) = 1 => Len(r) = 1 /\ Len(r[1].own) = 1
  BY <1>1, <1>2, <1>3, ChunksBuilt
<1>4. /\ r \in Seq(GoodCuts(Stretch)) /\ Covering(Extents(r), Len(q))
      /\ Repeats(r)
      /\ Len(s) = 1 => Len(r) = 1 /\ Len(r[1].own) = 1
  BY <1>1, <1>3
<1>5. s \in Seq(Long) => r \in Seq(GoodCuts(Long))
  <2>1. Long \in SUBSET Stretch
    BY DEF Long
  <2>2. QED
    BY <1>3, <2>1
<1> HIDE DEF r
<1>6. DOMAIN r = 1..Len(r) /\ Len(r) \in Nat
  BY <1>4
<1>7. ASSUME NEW i \in DOMAIN r
      PROVE  /\ r[i].own # <<>> /\ Connected(r[i].own)
             /\ Joined(r[i].overlap \o r[i].own, 1)
                    <= MaxChars + OverlapChars \/ Len(r[i].own) = 1
             /\ \A j \in DOMAIN r[i].own :
                    r[i].own[j].size >= MinChars
                        \/ (Len(r) = 1 /\ Len(r[i].own) = 1)
  <2> DEFINE x == r[i]
  <2>1. x \in GoodCuts(Stretch) /\ (s \in Seq(Long) => x \in GoodCuts(Long))
    BY <1>4, <1>5, <1>6
  <2>2. x.own # <<>> /\ Connected(x.own)
    BY <2>1 DEF GoodCuts
  <2>3. Joined(x.overlap \o x.own, 1) <= MaxChars + OverlapChars
           \/ Len(x.own) = 1
    <3> DEFINE a == x.overlap
               b == x.own
    <3>1. /\ a \in Seq(Stretch) /\ b \in Seq(Stretch) /\ b # <<>>
          /\ Joined(a, 1) <= OverlapChars
          /\ Len(b) = 1 \/ Joined(b, 1) < MaxChars
      BY <2>1 DEF GoodCuts
    <3> HIDE DEF a, b
    <3>2. /\ Joined(a, 1) \in Nat /\ Joined(b, 1) \in Nat
          /\ Joined(a \o b, 1) =
                IF a = <<>> THEN Joined(b, 1)
                            ELSE Joined(a, 1) + 1 + Joined(b, 1)
      BY <3>1, JoinedOfConcat
    <3>3. MaxChars \in Nat /\ OverlapChars \in Nat
      BY ChunkerAssumption
    <3>4. Joined(a \o b, 1) <= MaxChars + OverlapChars \/ Len(b) = 1
      BY <3>1, <3>2, <3>3
    <3>5. QED
      BY <3>4 DEF a, b
  <2>4. ASSUME NEW j \in DOMAIN x.own
        PROVE  x.own[j].size >= MinChars \/ (Len(r) = 1 /\ Len(x.own) = 1)
    <3>1. CASE s \in Seq(Long)
      <4>1. x.own \in Seq(Long)
        BY <2>1, <3>1 DEF GoodCuts
      <4>2. x.own[j] \in Long
        BY <2>4, <4>1
      <4>3. QED
        BY <4>2 DEF Long
    <3>2. CASE Len(s) = 1
      <4>1. Len(r) = 1 /\ Len(r[1].own) = 1
        BY <1>4, <3>2
      <4>2. i = 1
        BY <1>6, <1>7, <4>1
      <4>3. QED
        BY <4>1, <4>2
    <3>3. QED
      BY <1>1, <3>1, <3>2
  <2> HIDE DEF x
  <2>5. /\ x.own # <<>> /\ Connected(x.own)
        /\ Joined(x.overlap \o x.own, 1)
                <= MaxChars + OverlapChars \/ Len(x.own) = 1
        /\ \A j \in DOMAIN x.own :
                x.own[j].size >= MinChars \/ (Len(r) = 1 /\ Len(x.own) = 1)
    BY <2>2, <2>3, <2>4
  <2>6. QED
    BY <2>5 DEF x
<1>8. Covers(Extents(r), q)
  BY <1>4, CoveringCovers
<1>9. QED
  BY <1>4, <1>7, <1>8 DEF r, s

\* A covering with a connected list behind it.
LEMMA ConcatCovers ==
    ASSUME NEW a \in Seq(Stretch), NEW b \in Seq(Stretch), NEW m \in Nat,
           NEW n \in Nat \ {0}, Covering(a, m), Connected(b), b # <<>>,
           b[1].first = m + 1, b[Len(b)].last = n
    PROVE  Covering(a \o b, n)
<1> DEFINE c == a \o b
           la == Len(a)
           lb == Len(b)
<1>1. /\ c \in Seq(Stretch) /\ Len(c) = la + lb
      /\ \A i \in 1 .. la + lb :
            c[i] = IF i <= la THEN a[i] ELSE b[i - la]
      /\ la \in Nat /\ lb \in Nat /\ lb >= 1
      /\ a = <<>> <=> la = 0
  BY ConcatProperties
<1>2. DOMAIN c = 1 .. la + lb /\ DOMAIN a = 1..la /\ DOMAIN b = 1..lb
  BY <1>1
<1>3. /\ \A i \in 1..la : a[i].first <= a[i].last
            /\ (i > 1 => a[i].first = a[i - 1].last + 1)
      /\ la > 0 => a[1].first = 1 /\ a[la].last = m
      /\ la = 0 <=> m = 0
  <2>1. /\ Connected(a) /\ (a = <<>> <=> m = 0)
        /\ a # <<>> => a[1].first = 1 /\ a[la].last = m
    BY DEF Covering
  <2>2. a # <<>> <=> la > 0
    BY <1>1
  <2>3. \A i \in 1..la : a[i].first <= a[i].last
            /\ (i > 1 => a[i].first = a[i - 1].last + 1)
    BY <1>2, <2>1 DEF Connected
  <2> HIDE DEF la
  <2>4. QED
    BY <1>1, <2>1, <2>2, <2>3
<1>4. \A i \in 1..lb : b[i].first <= b[i].last
         /\ (i > 1 => b[i].first = b[i - 1].last + 1)
  BY <1>2 DEF Connected
<1>5. b[1].first = m + 1 /\ b[lb].last = n
  OBVIOUS
<1> HIDE DEF c, la, lb
<1>6. ASSUME NEW i \in 1 .. la + lb
      PROVE  c[i].first <= c[i].last
                /\ (i > 1 => c[i].first = c[i - 1].last + 1)
  <2>1. i \in Nat /\ (i > 1 => i - 1 \in 1 .. la + lb)
    BY <1>1
  <2>2. CASE i <= la
    <3>1. /\ i \in 1..la /\ c[i] = a[i]
          /\ i > 1 => i - 1 \in 1..la /\ c[i - 1] = a[i - 1]
      BY <1>1, <2>1, <2>2
    <3>2. QED
      BY <1>3, <3>1
  <2>3. CASE i = la + 1
    <3>1. /\ c[i] = b[1] /\ 1 \in 1..lb
          /\ i > 1 => la > 0 /\ i - 1 = la /\ c[i - 1] = a[la]
      BY <1>1, <2>1, <2>3
    <3>2. QED
      BY <1>3, <1>4, <1>5, <3>1
  <2>4. CASE i > la + 1
    <3> DEFINE k == i - la
    <3>1. /\ k \in 1..lb /\ k > 1 /\ k - 1 \in 1..lb /\ c[i] = b[k]
          /\ (i - 1) - la = k - 1 /\ ~(i - 1 <= la)
      BY <1>1, <2>1, <2>4
    <3>2. c[i - 1] = b[k - 1]
      BY <1>1, <2>1, <2>4, <3>1
    <3> HIDE DEF k
    <3>3. QED
      BY <1>4, <3>1, <3>2
  <2>5. QED
    BY <1>1, <2>1, <2>2, <2>3, <2>4
<1>7. Connected(c)
  BY <1>2, <1>6 DEF Connected
<1>8. c[1].first = 1
  <2>1. 1 \in 1 .. la + lb
    BY <1>1
  <2>2. CASE la = 0
    <3>1. c[1] = b[1] /\ m = 0
      BY <1>1, <1>3, <2>1, <2>2
    <3>2. QED
      BY <1>5, <3>1
  <2>3. CASE la # 0
    <3>1. c[1] = a[1] /\ la > 0
      BY <1>1, <2>1, <2>3
    <3>2. QED
      BY <1>3, <3>1
  <2>4. QED
    BY <2>2, <2>3
<1>9. c[Len(c)].last = n
  <2>1. /\ la + lb \in 1 .. la + lb /\ ~(la + lb <= la)
        /\ (la + lb) - la = lb
    BY <1>1
  <2>2. QED
    BY <1>1, <1>5, <2>1
<1>10. c # <<>>
  BY <1>1
<1>11. QED
  BY <1>7, <1>8, <1>9, <1>10 DEF Covering, c

\* A word, or its letters, from its first character to its last.
LEMMA PartsOfWord ==
    ASSUME NEW u \in Stretch, u.size >= 1, u.last = u.first + u.size - 1
    PROVE  LET p == PartsOf(u)
           IN  /\ p \in Seq(Small) /\ p # <<>> /\ Connected(p)
               /\ p[1].first = u.first /\ p[Len(p)].last = u.last
<1>1. u.size \in Nat /\ u.first \in Nat /\ u.last \in Nat
  BY DEF Stretch
<1>2. CASE u.size <= MaxChars
  <2> DEFINE p == <<u>>
  <2>1. u \in Small /\ u.first <= u.last
    BY <1>1, <1>2 DEF Small
  <2>2. p \in Seq(Small) /\ Len(p) = 1 /\ p[1] = u /\ DOMAIN p = 1..1
    BY <2>1
  <2> HIDE DEF p
  <2>3. Connected(p)
    BY <2>1, <2>2 DEF Connected
  <2>4. QED
    BY <1>2, <2>2, <2>3 DEF PartsOf, p
<1>3. CASE ~(u.size <= MaxChars)
  <2> DEFINE p == Letters(u)
  <2>1. p \in Seq(Small) /\ Len(p) = u.size
    BY LettersFit
  <2>2. DOMAIN p = 1..u.size
    BY <2>1
  <2>3. \A i \in 1..u.size :
           p[i].first = u.first + i - 1 /\ p[i].last = u.first + i - 1
    BY DEF Letters
  <2> HIDE DEF p
  <2>4. ASSUME NEW i \in 1..u.size
        PROVE  p[i].first <= p[i].last
                  /\ (i > 1 => p[i].first = p[i - 1].last + 1)
    <3>1. i > 1 => i - 1 \in 1..u.size
      BY <1>1
    <3>2. QED
      BY <1>1, <2>3, <3>1
  <2>5. Connected(p)
    BY <2>2, <2>4 DEF Connected
  <2>6. 1 \in 1..u.size /\ u.size \in 1..u.size
    BY <1>1
  <2>7. p[1].first = u.first /\ p[Len(p)].last = u.last
    BY <1>1, <2>1, <2>3, <2>6
  <2>8. p # <<>>
    BY <1>1, <2>1
  <2>9. QED
    BY <1>3, <2>1, <2>5, <2>7, <2>8 DEF PartsOf, p
<1>4. QED
  BY <1>2, <1>3

\* What _split collects covers the characters of the words so far.
LEMMA SplittingCovers ==
    ASSUME NEW q \in Seq(Stretch), Worded(q)
    PROVE  /\ Covering(Splitting(Located(q))[Len(q)], Total(q))
           /\ Total(q) \in Nat /\ (Total(q) = 0 <=> q = <<>>)
<1> DEFINE N == Len(q)
           w == Located(q)
           f == Splitting(w)
           S == Sums(q)
           D == {n \in 0..N : Covering(f[n], S[n]) /\ S[n] >= n}
<1>1. N \in Nat /\ N \in 0..N /\ (N = 0 <=> q = <<>>)
  OBVIOUS
<1>2. /\ w \in Seq(Stretch) /\ Len(w) = N
      /\ \A n \in 1..N :
            w[n] = [first |-> S[n - 1] + 1, last |-> S[n], size |-> q[n].size]
  BY WordsAreLocated
<1>3. /\ S \in [0..N -> Nat] /\ S[0] = 0
      /\ \A n \in 1..N : S[n] = S[n - 1] + q[n].size
  BY SumsRun
<1> HIDE DEF w
<1>4. /\ f \in [0..N -> Seq(Small)] /\ f[0] = <<>>
      /\ \A n \in 1..N : f[n] = f[n - 1] \o PartsOf(w[n])
  <2>1. /\ f \in [0..Len(w) -> Seq(Small)] /\ f[0] = <<>>
        /\ \A n \in 1..Len(w) : f[n] = f[n - 1] \o PartsOf(w[n])
    BY <1>2, SplittingRuns
  <2>2. QED
    BY <1>2, <2>1
<1>5. \A n \in 1..N : q[n].size \in Nat /\ q[n].size >= 1
  BY UnitOfList DEF Worded
<1> HIDE DEF f, S, N
<1>6. 0 \in D
  <2>1. Covering(<<>>, 0)
    BY DEF Covering, Connected
  <2>2. QED
    BY <1>1, <1>3, <1>4, <2>1
<1>7. ASSUME NEW n \in 0..N, n \in D, n < N
      PROVE  n + 1 \in D
  <2> DEFINE u == w[n + 1]
             p == PartsOf(u)
  <2>1. n \in Nat /\ n + 1 \in 1..N /\ (n + 1) - 1 = n /\ n + 1 \in 0..N
    BY <1>1, <1>7
  <2>2. /\ u = [first |-> S[n] + 1, last |-> S[n + 1],
                size |-> q[n + 1].size]
        /\ u \in Stretch
    BY <1>2, <2>1 DEF N
  <2>3. /\ S[n + 1] = S[n] + q[n + 1].size
        /\ S[n] \in Nat /\ S[n + 1] \in Nat
        /\ q[n + 1].size \in Nat /\ q[n + 1].size >= 1
    BY <1>3, <1>5, <2>1
  <2>4. S[n + 1] >= n + 1 /\ S[n + 1] \in Nat \ {0}
    BY <1>7, <2>1, <2>3
  <2>5. f[n + 1] = f[n] \o p
    BY <1>4, <2>1
  <2> HIDE DEF u
  <2>6. u.size >= 1 /\ u.last = u.first + u.size - 1
           /\ u.first = S[n] + 1 /\ u.last = S[n + 1]
    <3>1. /\ u.size = q[n + 1].size
          /\ u.first = S[n] + 1 /\ u.last = S[n + 1]
      BY <2>2
    <3>2. ASSUME NEW a \in Nat, NEW b \in Nat, NEW c \in Nat, b = a + c
          PROVE  b = (a + 1) + c - 1
      BY <3>2
    <3>3. S[n + 1] = (S[n] + 1) + q[n + 1].size - 1
      BY <2>3, <3>2, Zenon
    <3>4. u.last = u.first + u.size - 1
      BY <3>1, <3>3, Zenon
    <3>5. u.size >= 1
      BY <2>3, <3>1, Zenon
    <3>6. QED
      BY <3>1, <3>4, <3>5, Zenon
  <2>7. /\ p \in Seq(Small) /\ p # <<>> /\ Connected(p)
        /\ p[1].first = S[n] + 1 /\ p[Len(p)].last = S[n + 1]
    BY <2>2, <2>6, PartsOfWord
  <2>8. f[n] \in Seq(Small) /\ Covering(f[n], S[n])
    BY <1>4, <1>7
  <2>9. f[n] \in Seq(Stretch) /\ p \in Seq(Stretch)
    BY <2>7, <2>8, SeqMonotonic DEF Small
  <2> HIDE DEF p
  <2>10. Covering(f[n + 1], S[n + 1])
    BY <2>3, <2>4, <2>5, <2>7, <2>8, <2>9, ConcatCovers
  <2>11. QED
    BY <2>1, <2>4, <2>10
<1> HIDE DEF D
<1>8. N \in D
  <2>1. \A n \in 0..N : n \in D
    BY <1>1, <1>6, <1>7, TurnByTurn
  <2>2. QED
    BY <1>1, <2>1
<1>9. Total(q) = S[N]
  BY DEF Total, S, N
<1>10. S[N] \in Nat /\ S[N] >= N
  BY <1>1, <1>3, <1>8 DEF D
<1>11. S[N] = 0 <=> q = <<>>
  BY <1>1, <1>3, <1>10
<1>12. QED
  BY <1>8, <1>9, <1>10, <1>11 DEF D, f, N, w

\* What _split hands to the merge is the text.
LEMMA SplitCovers ==
    ASSUME NEW q \in Seq(Stretch), Worded(q)
    PROVE  Covering(SplitParts(q), Total(q))
<1>1. /\ Covering(Splitting(Located(q))[Len(q)], Total(q))
      /\ Total(q) \in Nat /\ (Total(q) = 0 <=> q = <<>>)
  BY SplittingCovers
<1>2. CASE q # <<>> /\ Joined(q, 1) <= MaxChars
  <2> DEFINE s == [first |-> 1, last |-> Total(q), size |-> Joined(q, 1)]
             p == <<s>>
  <2>1. Len(p) = 1 /\ p[1] = s /\ DOMAIN p = 1..1 /\ p # <<>>
    OBVIOUS
  <2>2. s.first = 1 /\ s.last = Total(q) /\ Total(q) # 0 /\ 1 <= Total(q)
    BY <1>1, <1>2
  <2>3. SplitParts(q) = p
    BY <1>2 DEF SplitParts
  <2> HIDE DEF p, s
  <2>4. Connected(p)
    BY <2>1, <2>2 DEF Connected
  <2>5. Covering(p, Total(q))
    BY <2>1, <2>2, <2>4 DEF Covering
  <2>6. QED
    BY <2>3, <2>5
<1>3. CASE ~(q # <<>> /\ Joined(q, 1) <= MaxChars)
  BY <1>1, <1>3, Zenon DEF SplitParts
<1>4. QED
  BY <1>2, <1>3

\* A turn of _merge_with_overlap covers the next part.
LEMMA JoiningHolds ==
    ASSUME NEW acc \in MergeStates, NEW part \in Stretch, NEW overlap \in Nat,
           NEW n \in Nat, Holds(acc, n), part.first = n + 1,
           part.first <= part.last
    PROVE  Holds(JoinPart(acc, part, overlap), part.last)
<1> DEFINE b == acc.buffer
           c == Join(b, part, 1)
           flushed == Flushed(acc.merged, b)
           tail == IF overlap = 0 THEN part
                   ELSE [part EXCEPT !.size = @ + 1 + Min({overlap, b.size})]
           next == JoinPart(acc, part, overlap)
<1>1. acc.merged \in Seq(Stretch) /\ b \in Stretch /\ NoBuffer \in Stretch
  BY DEF MergeStates, NoBuffer, Stretch
<1>2. Covering(flushed, n) /\ (b = NoBuffer \/ b.first >= 1)
  BY DEF Holds
<1>3. CASE b = NoBuffer \/ Fits(b.size, part.size)
  <2>1. next = [merged |-> acc.merged, buffer |-> c]
    BY <1>3 DEF JoinPart
  <2>2. 1 \in Nat
    OBVIOUS
  <2> HIDE DEF next
  <2>3. /\ Covering(Append(acc.merged, c), part.last)
        /\ c # NoBuffer /\ c.first >= 1
    <3> HIDE DEF b
    <3>1. QED
      BY <1>1, <1>2, <2>2, CoverNext
  <2> HIDE DEF c
  <2>4. Flushed(next.merged, next.buffer) = Append(acc.merged, c)
    BY <2>1, <2>3 DEF Flushed
  <2>5. Holds(next, part.last)
    BY <2>1, <2>3, <2>4 DEF Holds
  <2>6. QED
    BY <2>5 DEF next
<1>4. CASE ~(b = NoBuffer \/ Fits(b.size, part.size))
  <2>1. next = [merged |-> flushed, buffer |-> tail]
    BY <1>4 DEF JoinPart
  <2>2. /\ tail \in Stretch /\ tail.first = part.first
        /\ tail.last = part.last
    <3>1. Min({overlap, b.size}) \in Nat
      <4>1. b.size \in Nat
        BY <1>1 DEF Stretch
      <4>2. QED
        BY <4>1, MinOfTwo
    <3> DEFINE m == Min({overlap, b.size})
    <3> HIDE DEF m
    <3>2. m \in Nat
      BY <3>1 DEF m
    <3>3. tail = IF overlap = 0 THEN part
                 ELSE [part EXCEPT !.size = @ + 1 + m]
      BY DEF m
    <3> HIDE DEF tail
    <3>4. QED
      BY <3>2, <3>3 DEF Stretch
  <2>3. flushed \in Seq(Stretch) /\ 1 \in Nat
    BY <1>1, FlushedList
  <2> HIDE DEF next, tail, flushed
  <2>4. Flushed(flushed, NoBuffer) = flushed /\ Join(NoBuffer, tail, 1) = tail
    BY DEF Flushed, Join
  <2>5. /\ Covering(Append(flushed, tail), part.last)
        /\ tail # NoBuffer /\ tail.first >= 1
    BY <1>1, <1>2, <2>2, <2>3, <2>4, CoverNext
  <2>6. Flushed(next.merged, next.buffer) = Append(flushed, tail)
    BY <2>1, <2>5 DEF Flushed
  <2>7. Holds(next, part.last)
    BY <2>1, <2>5, <2>6 DEF Holds
  <2>8. QED
    BY <2>7 DEF next
<1>5. QED
  BY <1>3, <1>4

\* The merged chunks cover what the parts cover.
LEMMA MergedCovers ==
    ASSUME NEW q \in Seq(Stretch), NEW overlap \in Nat, NEW total \in Nat,
           Covering(q, total)
    PROVE  Covering(MergeWithOverlap(q, overlap), total)
<1> DEFINE N == Len(q)
           f == Joining(q, overlap)
           End(n) == IF n = 0 THEN 0 ELSE q[n].last
           D == {n \in 0..N : Holds(f[n], End(n))}
<1>1. N \in Nat /\ N \in 0..N /\ DOMAIN q = 1..N /\ (q = <<>> <=> N = 0)
  OBVIOUS
<1>2. /\ f \in [0..N -> MergeStates]
      /\ f[0] = [merged |-> <<>>, buffer |-> NoBuffer]
      /\ \A n \in 1..N : f[n] = JoinPart(f[n - 1], q[n], overlap)
  BY JoiningRuns
<1>3. /\ \A n \in 1..N : q[n] \in Stretch /\ q[n].last \in Nat
      /\ \A n \in 1..N : q[n].first <= q[n].last
            /\ (n > 1 => q[n].first = q[n - 1].last + 1)
      /\ N # 0 => q[1].first = 1 /\ q[N].last = total
      /\ N = 0 <=> total = 0
  BY <1>1, UnitOfList DEF Covering, Connected
<1> HIDE DEF f, N
<1>4. 0 \in D
  BY <1>1, <1>2, HoldsNothing
<1>5. ASSUME NEW n \in 0..N, n \in D, n < N
      PROVE  n + 1 \in D
  <2>1. n \in Nat /\ n + 1 \in 1..N /\ (n + 1) - 1 = n /\ n + 1 \in 0..N
    BY <1>1, <1>5
  <2>2. f[n] \in MergeStates /\ Holds(f[n], End(n))
    BY <1>2, <1>5
  <2>3. f[n + 1] = JoinPart(f[n], q[n + 1], overlap)
    BY <1>2, <2>1
  <2>4. End(n) \in Nat /\ q[n + 1].first = End(n) + 1
    <3>1. CASE n = 0
      BY <1>1, <1>3, <1>5, <3>1
    <3>2. CASE n # 0
      <4>1. n \in 1..N /\ n + 1 > 1
        BY <1>1, <2>1, <3>2
      <4>2. QED
        BY <1>3, <2>1, <3>2, <4>1
    <3>3. QED
      BY <3>1, <3>2
  <2>5. /\ q[n + 1] \in Stretch /\ q[n + 1].first <= q[n + 1].last
        /\ End(n + 1) = q[n + 1].last
    BY <1>3, <2>1
  <2> HIDE DEF End
  <2>6. Holds(f[n + 1], End(n + 1))
    BY <2>2, <2>3, <2>4, <2>5, JoiningHolds
  <2>7. QED
    BY <2>1, <2>6
<1>6. N \in D
  <2> HIDE DEF D
  <2>1. \A n \in 0..N : n \in D
    BY <1>1, <1>4, <1>5, TurnByTurn
  <2>2. QED
    BY <1>1, <2>1
<1>7. End(N) = total
  BY <1>1, <1>3
<1> HIDE DEF End
<1>8. Covering(Flushed(f[N].merged, f[N].buffer), total)
  BY <1>6, <1>7 DEF Holds
<1>9. QED
  BY <1>8 DEF MergeWithOverlap, f, N

\* RecursiveChunker: the sizes of its chunks, and every character in one.
LEMMA RecursiveIsFaithful ==
    ASSUME NEW q \in Seq(Stretch), Worded(q), NEW overlap \in Nat
    PROVE  LET r == MergeWithOverlap(SplitParts(q), overlap)
           IN  /\ \A i \in DOMAIN r : r[i].size <= MaxChars + overlap + 1
               /\ Covering(r, Total(q)) /\ (Total(q) = 0 <=> q = <<>>)
<1> DEFINE p == SplitParts(q)
           r == MergeWithOverlap(p, overlap)
<1>1. p \in Seq(Small) /\ Covering(p, Total(q))
  BY PartsFit, SplitCovers
<1>2. Total(q) \in Nat /\ (Total(q) = 0 <=> q = <<>>)
  BY SplittingCovers
<1> HIDE DEF p
<1>3. /\ r \in Seq(Stretch)
      /\ \A i \in 1..Len(r) : r[i].size <= MaxChars + overlap + 1
  BY <1>1, MergedFit
<1>4. Covering(r, Total(q))
  <2>1. p \in Seq(Stretch)
    BY <1>1, SeqMonotonic DEF Small
  <2>2. QED
    BY <1>1, <1>2, <2>1, MergedCovers
<1> HIDE DEF r
<1>5. DOMAIN r = 1..Len(r)
  BY <1>3
<1>6. QED
  BY <1>2, <1>3, <1>4, <1>5 DEF r, p

\* A paragraph that is kept or cut.
LEMMA ParagraphIsCut ==
    ASSUME NEW p \in Stretch, NEW overlap \in Nat
    PROVE  LET r == ChunkParagraph(p, overlap)
           IN  /\ r.first = p.first /\ r.last = p.last /\ r.size = p.size
               /\ r.ended <=> overlap < MaxChars \/ ~(p.size > MaxChars)
               /\ r.ended => SpansCover(r.spans, p.size, overlap)
               /\ ~(p.size > MaxChars) => Len(r.spans) = 1
<1> DEFINE fixed == FixedChunks(p.size, overlap)
           whole == <<[first |-> 0, last |-> p.size]>>
           r == ChunkParagraph(p, overlap)
<1>1. p.size \in Nat /\ MaxChars \in Nat
  BY ChunkerAssumption DEF Stretch
<1>2. /\ fixed.ended <=> overlap < MaxChars \/ p.size <= MaxChars
      /\ fixed.ended /\ p.size > 0 => SpansCover(fixed.spans, p.size, overlap)
  <2> DEFINE size == p.size
  <2>1. size \in Nat
    BY <1>1
  <2> HIDE DEF size
  <2>2. /\ FixedChunks(size, overlap).ended
              <=> overlap < MaxChars \/ size <= MaxChars
        /\ FixedChunks(size, overlap).ended /\ size > 0 =>
              SpansCover(FixedChunks(size, overlap).spans, size, overlap)
    BY <2>1, FixedIsFaithful, Zenon
  <2>3. QED
    BY <2>2, Zenon DEF size
<1> HIDE DEF fixed
<1>3. CASE p.size > MaxChars
  <2>1. r = [first |-> p.first, last |-> p.last, size |-> p.size,
             spans |-> fixed.spans, ended |-> fixed.ended]
    BY <1>3 DEF ChunkParagraph, fixed
  <2> HIDE DEF r
  <2>2. /\ r.first = p.first /\ r.last = p.last /\ r.size = p.size
        /\ r.spans = fixed.spans /\ r.ended = fixed.ended
    <3>1. ASSUME NEW a, NEW b, NEW c, NEW d, NEW e,
                 r = [first |-> a, last |-> b, size |-> c, spans |-> d,
                      ended |-> e]
          PROVE  r.first = a /\ r.last = b /\ r.size = c /\ r.spans = d
                    /\ r.ended = e
      BY <3>1
    <3>2. QED
      BY <2>1, <3>1, Zenon
  <2>3. p.size > 0 /\ ~(p.size <= MaxChars)
    BY <1>1, <1>3
  <2>4. r.ended <=> overlap < MaxChars
    BY <1>2, <2>2, <2>3, Zenon
  <2>5. r.ended => SpansCover(r.spans, p.size, overlap)
    BY <1>2, <2>2, <2>3, Zenon
  <2>6. QED
    BY <1>3, <2>2, <2>4, <2>5, Zenon DEF r
<1>4. CASE ~(p.size > MaxChars)
  <2>1. r = [first |-> p.first, last |-> p.last, size |-> p.size,
             spans |-> whole, ended |-> TRUE]
    BY <1>4 DEF ChunkParagraph
  <2>2. Len(whole) = 1 /\ DOMAIN whole = 1..1
           /\ whole[1] = [first |-> 0, last |-> p.size]
    OBVIOUS
  <2>3. p.size <= 0 + MaxChars
    BY <1>1, <1>4
  <2> HIDE DEF whole
  <2>4. SpansCover(whole, p.size, overlap)
    BY <2>2, <2>3 DEF SpansCover
  <2> HIDE DEF r
  <2>5. /\ r.first = p.first /\ r.last = p.last /\ r.size = p.size
        /\ r.spans = whole /\ r.ended = TRUE
    BY <2>1
  <2>6. QED
    BY <1>4, <2>2, <2>4, <2>5, Zenon DEF r
<1>5. QED
  BY <1>3, <1>4, Zenon

\* ParagraphChunker: when there is an end of it, and every paragraph then, cut
\* only when it is too long.
LEMMA ParagraphsAreFaithful ==
    ASSUME NEW q \in Seq(Stretch), Numbered(q), NEW overlap \in Nat
    PROVE  LET r == ChunkParagraphs(q, overlap)
           IN  /\ r.ended <=> \/ overlap < MaxChars
                              \/ \A i \in DOMAIN q : q[i].size <= MaxChars
               /\ Covers(r.cuts, q)
               /\ \A i \in DOMAIN r.cuts :
                    LET cut == r.cuts[i]
                    IN  /\ r.ended => SpansCover(cut.spans, cut.size, overlap)
                        /\ Len(cut.spans) > 1 => cut.first = cut.last
<1> DEFINE m == MergeParagraphs(q)
           r == [i \in DOMAIN m |-> ChunkParagraph(m[i], overlap)]
<1>1. m \in Seq(Uncut) /\ Covering(m, Len(q))
  BY ParagraphsCover
<1> HIDE DEF m
<1>2. DOMAIN m = 1..Len(m) /\ Len(m) \in Nat
  BY <1>1
<1>3. /\ DOMAIN r = 1..Len(m)
      /\ \A i \in 1..Len(m) : r[i] = ChunkParagraph(m[i], overlap)
  BY <1>2
<1> DEFINE T == {ChunkParagraph(p, overlap) : p \in Uncut}
<1>4. r \in [1..Len(m) -> T]
  <2>1. \A i \in 1..Len(m) : m[i] \in Uncut
    BY <1>1
  <2>2. \A i \in 1..Len(m) : ChunkParagraph(m[i], overlap) \in T
    BY <2>1
  <2> HIDE DEF T
  <2>3. QED
    BY <1>2, <2>2
<1> HIDE DEF r, T
<1>5. r \in Seq(T) /\ Len(r) = Len(m)
  BY <1>2, <1>4, FunctionIsList
<1>6. \A i \in 1..Len(m) :
         /\ r[i].first = m[i].first /\ r[i].last = m[i].last
         /\ r[i].ended <=> overlap < MaxChars \/ ~(m[i].size > MaxChars)
         /\ r[i].ended => SpansCover(r[i].spans, r[i].size, overlap)
         /\ ~(m[i].size > MaxChars) => Len(r[i].spans) = 1
  <2>1. ASSUME NEW i \in 1..Len(m)
        PROVE  /\ r[i].first = m[i].first /\ r[i].last = m[i].last
               /\ r[i].ended <=> overlap < MaxChars \/ ~(m[i].size > MaxChars)
               /\ r[i].ended => SpansCover(r[i].spans, r[i].size, overlap)
               /\ ~(m[i].size > MaxChars) => Len(r[i].spans) = 1
    <3> DEFINE p == m[i]
               cut == ChunkParagraph(p, overlap)
    <3>1. p \in Stretch
      BY <1>1 DEF Uncut
    <3>2. r[i] = cut
      BY <1>3
    <3> HIDE DEF p
    <3>3. /\ cut.first = p.first /\ cut.last = p.last /\ cut.size = p.size
          /\ cut.ended <=> overlap < MaxChars \/ ~(p.size > MaxChars)
          /\ cut.ended => SpansCover(cut.spans, p.size, overlap)
          /\ ~(p.size > MaxChars) => Len(cut.spans) = 1
      BY <3>1, ParagraphIsCut, Zenon
    <3> HIDE DEF cut
    <3>4. QED
      BY <3>2, <3>3, Zenon DEF p
  <2>2. QED
    BY <2>1, Zenon
<1>7. Connected(r)
  <2>1. \A i \in 1..Len(m) : i > 1 => i - 1 \in 1..Len(m)
    BY <1>2
  <2>2. \A i \in 1..Len(m) : m[i].first <= m[i].last
            /\ (i > 1 => m[i].first = m[i - 1].last + 1)
    BY <1>1, <1>2 DEF Covering, Connected
  <2>3. QED
    BY <1>3, <1>6, <2>1, <2>2 DEF Connected
<1>8. r = <<>> <=> m = <<>>
  BY <1>1, <1>5
<1>9. m # <<>> => 1 \in 1..Len(m) /\ Len(m) \in 1..Len(m)
  BY <1>1
<1>10. Covering(r, Len(q))
  BY <1>1, <1>5, <1>6, <1>7, <1>8, <1>9 DEF Covering
<1>11. Covers(r, q)
  BY <1>10, CoveringCovers
<1>12. ASSUME NEW i \in 1..Len(m), Len(r[i].spans) > 1
       PROVE  r[i].first = r[i].last
  <2>1. m[i] \in Uncut
    BY <1>1
  <2>2. m[i].size > MaxChars
    <3>1. ~(m[i].size > MaxChars) => Len(r[i].spans) = 1
      BY <1>6, Zenon
    <3>2. ASSUME Len(r[i].spans) = 1
          PROVE  FALSE
      <4>1. 1 > 1
        BY <1>12, <3>2, Zenon
      <4>2. QED
        BY <4>1
    <3>3. QED
      BY <3>1, <3>2, Zenon
  <2>3. m[i].size \in Nat /\ MaxChars \in Nat
    BY <2>1, ChunkerAssumption DEF Uncut, Stretch
  <2>4. QED
    BY <1>6, <2>1, <2>2, <2>3 DEF Uncut
<1> DEFINE ended == \A i \in DOMAIN r : r[i].ended
<1>13. ended <=> overlap < MaxChars \/ ~TooLong(m)
  <2>1. CASE overlap < MaxChars
    BY <1>3, <1>6, <2>1
  <2>2. CASE ~(overlap < MaxChars)
    <3>1. \A i \in 1..Len(m) : r[i].ended <=> ~(m[i].size > MaxChars)
      BY <1>6, <2>2
    <3>2. ended <=> \A i \in 1..Len(m) : ~(m[i].size > MaxChars)
      BY <1>3, <3>1
    <3>3. QED
      BY <2>2, <3>2 DEF TooLong
  <2>3. QED
    BY <2>1, <2>2
<1>14. TooLong(m) <=> ~(\A i \in DOMAIN q : q[i].size <= MaxChars)
  <2>1. TooLong(m) <=> TooLong(q)
    BY LongStayLong DEF m
  <2>2. \A i \in 1..Len(q) : q[i].size \in Nat
    BY UnitOfList
  <2>3. MaxChars \in Nat /\ DOMAIN q = 1..Len(q)
    BY ChunkerAssumption
  <2>4. QED
    BY <2>1, <2>2, <2>3 DEF TooLong
<1>15. ended => \A i \in DOMAIN r : SpansCover(r[i].spans, r[i].size, overlap)
  BY <1>3, <1>6
<1> DEFINE all == ChunkParagraphs(q, overlap)
<1>16. all.cuts = r /\ (all.ended <=> ended)
  <2>1. all = [cuts |-> r, ended |-> ended]
    BY DEF ChunkParagraphs, r, m
  <2> HIDE DEF all, ended
  <2>2. ASSUME NEW a, NEW b, all = [cuts |-> a, ended |-> b]
        PROVE  all.cuts = a /\ all.ended = b
    BY <2>2
  <2>3. all.cuts = r /\ all.ended = ended
    BY <2>1, <2>2, Zenon
  <2>4. QED
    BY <2>3, Zenon
<1> HIDE DEF all, ended
<1>17. all.ended <=> \/ overlap < MaxChars
                     \/ \A i \in DOMAIN q : q[i].size <= MaxChars
  BY <1>13, <1>14, <1>16, Zenon
<1>18. \A i \in DOMAIN all.cuts :
          LET cut == all.cuts[i]
          IN  /\ all.ended => SpansCover(cut.spans, cut.size, overlap)
              /\ Len(cut.spans) > 1 => cut.first = cut.last
  BY <1>3, <1>12, <1>15, <1>16, Zenon
<1>19. QED
  BY <1>11, <1>16, <1>17, <1>18, Zenon DEF all

\* What the state holds: no text yet, or a text and the chunks of it.
ChunkInv ==
    task # <<>> =>
        \E strategy \in Strategies, sizes \in SeqOf(Sizes, MaxUnits),
           overlap \in Nat :
            /\ task = [strategy |-> strategy, units |-> Units(sizes),
                       overlap |-> overlap]
            /\ pieces = Chunk(strategy, Units(sizes), overlap)

\* A text and its chunks are what the four chunkers promise.
LEMMA ChunksOfText ==
    ASSUME NEW strategy \in Strategies, NEW sizes \in SeqOf(Sizes, MaxUnits),
           NEW overlap \in Nat,
           task = [strategy |-> strategy, units |-> Units(sizes),
                   overlap |-> overlap],
           pieces = Chunk(strategy, Units(sizes), overlap)
    PROVE  ChunksAreFaithful
<1> DEFINE q == Units(sizes)
<1>1. q \in Seq(Stretch) /\ Numbered(q) /\ Total(q) \in Nat
         /\ Worded(q)
  BY UnitsOfText
<1>2. /\ task.strategy = strategy /\ task.units = q /\ task.overlap = overlap
      /\ pieces = Chunk(strategy, q, overlap)
  OBVIOUS
<1> HIDE DEF q
<1>3. ASSUME strategy = "turkish"
      PROVE  TurkishKeepsTheText /\ TurkishChunksAreBounded
  <2>1. pieces = BuildChunks(MergeShort(q))
    BY <1>2, <1>3 DEF Chunk
  <2>2. /\ \A i \in DOMAIN pieces :
              pieces[i].own # <<>> /\ Connected(pieces[i].own)
        /\ Covers(Extents(pieces), q) /\ Repeats(pieces)
    BY <1>1, <2>1, TurkishIsFaithful
  <2>3. \A i \in DOMAIN pieces :
           /\ Joined(pieces[i].overlap \o pieces[i].own, 1)
                   <= MaxChars + OverlapChars \/ Len(pieces[i].own) = 1
           /\ \A j \in DOMAIN pieces[i].own :
               pieces[i].own[j].size >= MinChars
                   \/ (Len(pieces) = 1 /\ Len(pieces[i].own) = 1)
    BY <1>1, <2>1, TurkishIsFaithful
  <2>4. TurkishKeepsTheText
    BY <1>2, <2>2 DEF TurkishKeepsTheText, Extents, Extent, Repeats
  <2>5. TurkishChunksAreBounded
    BY <2>3 DEF TurkishChunksAreBounded
  <2>6. QED
    BY <2>4, <2>5
<1>4. ASSUME strategy = "fixed"
      PROVE  FixedCoversOrNeverEnds
  <2> DEFINE size == Total(q)
             r == FixedChunks(size, overlap)
  <2>1. pieces = r
    BY <1>2, <1>4 DEF Chunk
  <2>2. size \in Nat
    BY <1>1
  <2> HIDE DEF size
  <2>3. /\ r.ended <=> overlap < MaxChars \/ size <= MaxChars
        /\ r.ended /\ size > 0 => SpansCover(r.spans, size, overlap)
    BY <2>2, FixedIsFaithful, Zenon
  <2> HIDE DEF r
  <2>4. Total(task.units) = size /\ task.overlap = overlap
    BY <1>2 DEF size
  <2>5. QED
    BY <2>1, <2>3, <2>4, Zenon DEF FixedCoversOrNeverEnds
<1>5. ASSUME strategy = "recursive"
      PROVE  RecursiveKeepsTheText /\ RecursiveChunksAreBounded
  <2>1. pieces = MergeWithOverlap(SplitParts(q), overlap)
    BY <1>2, <1>5 DEF Chunk
  <2>2. /\ \A i \in DOMAIN pieces : pieces[i].size <= MaxChars + overlap + 1
        /\ Covering(pieces, Total(q)) /\ (Total(q) = 0 <=> q = <<>>)
    BY <1>1, <2>1, RecursiveIsFaithful
  <2>3. RecursiveKeepsTheText
    BY <1>2, <2>2 DEF RecursiveKeepsTheText, Covering
  <2>4. QED
    BY <1>2, <2>2, <2>3 DEF RecursiveChunksAreBounded
<1>6. ASSUME strategy = "paragraph"
      PROVE  ParagraphsAreKeptOrNeverEnd
  <2> DEFINE r == ChunkParagraphs(q, overlap)
  <2>1. pieces = r
    BY <1>2, <1>6 DEF Chunk
  <2>2. /\ r.ended <=> \/ overlap < MaxChars
                       \/ \A i \in DOMAIN q : q[i].size <= MaxChars
        /\ Covers(r.cuts, q)
        /\ \A i \in DOMAIN r.cuts :
             LET cut == r.cuts[i]
             IN  /\ r.ended => SpansCover(cut.spans, cut.size, overlap)
                 /\ Len(cut.spans) > 1 => cut.first = cut.last
    BY <1>1, ParagraphsAreFaithful, Zenon
  <2> HIDE DEF r
  <2>3. QED
    BY <1>2, <2>1, <2>2, Zenon DEF ParagraphsAreKeptOrNeverEnd
<1>7. strategy # "turkish" => TurkishKeepsTheText /\ TurkishChunksAreBounded
  BY <1>2 DEF TurkishKeepsTheText, TurkishChunksAreBounded
<1>8. strategy # "fixed" => FixedCoversOrNeverEnds
  BY <1>2 DEF FixedCoversOrNeverEnds
<1>9. strategy # "recursive" =>
         RecursiveKeepsTheText /\ RecursiveChunksAreBounded
  BY <1>2 DEF RecursiveKeepsTheText, RecursiveChunksAreBounded
<1>10. strategy # "paragraph" => ParagraphsAreKeptOrNeverEnd
  BY <1>2 DEF ParagraphsAreKeptOrNeverEnd
<1>11. QED
  BY <1>3, <1>4, <1>5, <1>6, <1>7, <1>8, <1>9, <1>10 DEF ChunksAreFaithful

\* Whatever the sizes of its sentences, words or paragraphs, a text is cut into
\* chunks that keep it and its order: what TurkishChunker merges, repeats and
\* bounds, that RecursiveChunker puts each character into one chunk and how
\* large a chunk gets, when the loop of FixedSizeChunker, which ParagraphChunker
\* uses too, comes to an end, and what the spans cover then.
THEOREM ChunksFaithful == ChunkerSpec => []ChunksAreFaithful
<1>1. ChunkerInit => ChunkInv
  BY DEF ChunkerInit, ChunkInv
<1>2. ChunkInv /\ [ChunkText]_chunkerVars => ChunkInv'
  <2>1. ASSUME ChunkText
        PROVE  ChunkInv'
    <3>1. PICK strategy \in Strategies, sizes \in SeqOf(Sizes, MaxUnits) :
             \E overlap \in IF strategy = "turkish" THEN {OverlapChars}
                            ELSE Overlaps :
                /\ task' = [strategy |-> strategy, units |-> Units(sizes),
                            overlap |-> overlap]
                /\ pieces' = Chunk(strategy, Units(sizes), overlap)
      BY <2>1 DEF ChunkText
    <3>2. PICK overlap \in Overlaps \cup {OverlapChars} :
             /\ task' = [strategy |-> strategy, units |-> Units(sizes),
                         overlap |-> overlap]
             /\ pieces' = Chunk(strategy, Units(sizes), overlap)
      BY <3>1
    <3>3. overlap \in Nat
      BY ChunkerAssumption
    <3>4. QED
      BY <3>2, <3>3 DEF ChunkInv
  <2>2. ASSUME ChunkInv, UNCHANGED chunkerVars
        PROVE  ChunkInv'
    BY <2>2 DEF ChunkInv, chunkerVars
  <2>3. QED
    BY <2>1, <2>2
<1>3. ChunkInv => ChunksAreFaithful
  <2>1. ASSUME task = <<>>
        PROVE  ChunksAreFaithful
    BY <2>1 DEF ChunksAreFaithful, TurkishKeepsTheText,
                TurkishChunksAreBounded, FixedCoversOrNeverEnds,
                RecursiveKeepsTheText, RecursiveChunksAreBounded,
                ParagraphsAreKeptOrNeverEnd
  <2>2. ASSUME ChunkInv, task # <<>>
        PROVE  ChunksAreFaithful
    <3>1. PICK strategy \in Strategies, sizes \in SeqOf(Sizes, MaxUnits),
               overlap \in Nat :
            /\ task = [strategy |-> strategy, units |-> Units(sizes),
                       overlap |-> overlap]
            /\ pieces = Chunk(strategy, Units(sizes), overlap)
      BY <2>2 DEF ChunkInv
    <3>2. QED
      BY <3>1, ChunksOfText
  <2>3. QED
    BY <2>1, <2>2
<1>4. QED
  BY <1>1, <1>2, <1>3, PTL DEF ChunkerSpec

-----------------------------------------------------------------------------
(* Retrieval: any chunks, any hits of the two searches, any scope, any       *)
(* judgement of the cross-encoder.                                           *)

\* What is in a list, and when nothing is in it twice.
LEMMA ListContents ==
    ASSUME NEW S, NEW q \in Seq(S)
    PROVE  /\ Len(q) \in Nat /\ DOMAIN q = 1..Len(q)
           /\ Range(q) \in SUBSET S
           /\ \A x : x \in Range(q) <=> \E i \in 1..Len(q) : q[i] = x
           /\ IsFiniteSet(Range(q)) /\ Cardinality(Range(q)) \in Nat
           /\ IsInjective(q) <=>
                 \A i, j \in 1..Len(q) : q[i] = q[j] => i = j
           /\ IsInjective(q) => Len(q) = Cardinality(Range(q))
           /\ Cardinality(Range(q)) <= Len(q)
<1>1. Len(q) \in Nat /\ DOMAIN q = 1..Len(q)
  OBVIOUS
<1>2. \A x : x \in Range(q) <=> \E i \in 1..Len(q) : q[i] = x
  BY <1>1 DEF Range
<1>3. \A i \in 1..Len(q) : q[i] \in S
  OBVIOUS
<1>4. Range(q) \in SUBSET S
  BY <1>2, <1>3
<1>5. q \in Surjection(1..Len(q), Range(q))
  <2>1. q \in [1..Len(q) -> Range(q)]
    BY <1>1, <1>2
  <2>2. QED
    BY <1>2, <2>1 DEF Surjection
<1>6. IsFiniteSet(1..Len(q)) /\ Cardinality(1..Len(q)) = Len(q)
  BY <1>1, FS_Interval, SMTT(30)
<1>7. /\ IsFiniteSet(Range(q)) /\ Cardinality(Range(q)) <= Len(q)
      /\ Cardinality(Range(q)) = Len(q) <=> q \in Injection(1..Len(q), Range(q))
  BY <1>5, <1>6, FS_Surjection
<1>8. Cardinality(Range(q)) \in Nat
  BY <1>7, FS_CardinalityType
<1>9. IsInjective(q) <=> \A i, j \in 1..Len(q) : q[i] = q[j] => i = j
  BY <1>1 DEF IsInjective
<1>10. IsInjective(q) => Len(q) = Cardinality(Range(q))
  BY <1>5, <1>7 DEF Injection, Surjection
<1>11. QED
  BY <1>1, <1>2, <1>4, <1>7, <1>8, <1>9, <1>10

\* Rank is the place of the first copy.
LEMMA RankOfHit ==
    ASSUME NEW S, NEW q \in Seq(S), NEW c \in Range(q)
    PROVE  /\ Rank(c, q) \in 1..Len(q) /\ q[Rank(c, q)] = c
           /\ \A i \in 1..Len(q) : q[i] = c => Rank(c, q) <= i
<1> DEFINE places == {i \in DOMAIN q : q[i] = c}
<1>1. places \in SUBSET (1..Len(q)) /\ Len(q) \in Nat
  OBVIOUS
<1>2. places # {}
  BY DEF Range
<1>3. \E m \in places : \A i \in places : m <= i
  <2> HIDE DEF places
  <2>1. QED
    BY <1>1, <1>2, SmallestExists
<1>4. /\ Min(places) \in places
      /\ \A i \in places : Min(places) <= i
  BY <1>3 DEF Min
<1>5. Rank(c, q) = Min(places)
  BY DEF Rank
<1>6. Rank(c, q) \in places /\ \A i \in places : Rank(c, q) <= i
  BY <1>4, <1>5
<1> HIDE DEF places
<1>7. \A i : i \in places <=> i \in 1..Len(q) /\ q[i] = c
  BY DEF places
<1>8. QED
  BY <1>6, <1>7

\* In a list without copies, the rank is the place.
LEMMA RankIsPlace ==
    ASSUME NEW S, NEW q \in Seq(S), IsInjective(q), NEW i \in 1..Len(q)
    PROVE  q[i] \in Range(q) /\ Rank(q[i], q) = i
<1>1. q[i] \in Range(q)
  BY ListContents
<1>2. Rank(q[i], q) \in 1..Len(q) /\ q[Rank(q[i], q)] = q[i]
  BY <1>1, RankOfHit
<1>3. \A k, j \in 1..Len(q) : q[k] = q[j] => k = j
  BY ListContents
<1>4. QED
  BY <1>1, <1>2, <1>3

\* s lists T by score, equal ones as they come in q.
InOrder(s, T, q, score) ==
    /\ s \in Seq(T) /\ Range(s) = T /\ IsInjective(s)
    /\ Len(s) = Cardinality(T) /\ Cardinality(T) \in Nat
    /\ \A i, j \in 1..Len(s) :
          i < j <=> \/ score[s[i]] > score[s[j]]
                    \/ /\ score[s[i]] = score[s[j]]
                       /\ Rank(s[i], q) < Rank(s[j], q)

\* What sorted(..., reverse=True) makes of some elements of a list.
LEMMA SortedByScore ==
    ASSUME NEW S, NEW q \in Seq(S), NEW T \in SUBSET Range(q),
           NEW score, \A c \in T : score[c] \in Int
    PROVE  InOrder(Sorted(T, Better(T, q, score)), T, q, score)
<1> DEFINE R == Better(T, q, score)
           s == Sorted(T, R)
<1>1. \A c \in T : Rank(c, q) \in Nat /\ q[Rank(c, q)] = c
  <2>1. ASSUME NEW c \in T
        PROVE  Rank(c, q) \in Nat /\ q[Rank(c, q)] = c
    <3>1. c \in Range(q)
      OBVIOUS
    <3>2. Rank(c, q) \in 1..Len(q) /\ q[Rank(c, q)] = c
      BY <3>1, RankOfHit
    <3>3. QED
      BY <3>2
  <2>2. QED
    BY <2>1
<1>2. \A c, d \in T : <<c, d>> \in R <=>
         \/ score[c] > score[d]
         \/ score[c] = score[d] /\ Rank(c, q) < Rank(d, q)
  BY DEF Better
<1> HIDE DEF R
<1>3. OrdersAll(T, R)
  <2>1. ASSUME NEW c \in T, NEW d \in T, c # d
        PROVE  <<c, d>> \in R \/ <<d, c>> \in R
    <3>1. Rank(c, q) # Rank(d, q)
      BY <1>1, <2>1
    <3>2. QED
      BY <1>1, <1>2, <3>1
  <2>2. ASSUME NEW c \in T, NEW d \in T, NEW e \in T,
               <<c, d>> \in R, <<d, e>> \in R
        PROVE  <<c, e>> \in R
    BY <1>1, <1>2, <2>2
  <2>3. \A c \in T : <<c, c>> \notin R
    BY <1>1, <1>2
  <2>4. QED
    BY <2>1, <2>2, <2>3 DEF OrdersAll
<1>4. IsFiniteSet(T)
  <2>1. IsFiniteSet(Range(q))
    BY ListContents
  <2>2. QED
    BY <2>1, FS_Subset
<1>5. /\ Cardinality(T) \in Nat /\ s \in Seq(T) /\ Len(s) = Cardinality(T)
      /\ \A x \in T : \E k \in 1..Cardinality(T) : s[k] = x
      /\ \A i, j \in 1..Cardinality(T) : i < j <=> <<s[i], s[j]>> \in R
  <2>1. /\ Cardinality(T) \in Nat
        /\ Sorted(T, R) \in Seq(T) /\ Len(Sorted(T, R)) = Cardinality(T)
        /\ \A x \in T : \E k \in 1..Cardinality(T) : Sorted(T, R)[k] = x
        /\ \A i, j \in 1..Cardinality(T) :
              i < j <=> <<Sorted(T, R)[i], Sorted(T, R)[j]>> \in R
    BY <1>3, <1>4, SortedLists
  <2>2. QED
    BY <2>1
<1> HIDE DEF s
<1>6. Range(s) = T
  <2>1. Range(s) \in SUBSET T
    BY <1>5, ListContents
  <2>2. \A x : x \in Range(s) <=> \E i \in 1..Len(s) : s[i] = x
    BY <1>5, ListContents
  <2>3. QED
    BY <1>5, <2>1, <2>2
<1>7. \A i, j \in 1..Len(s) : s[i] = s[j] => i = j
  <2>1. ASSUME NEW i \in 1..Len(s), NEW j \in 1..Len(s), s[i] = s[j]
        PROVE  i = j
    <3>1. s[i] \in T /\ <<s[i], s[i]>> \notin R
      BY <1>3, <1>5 DEF OrdersAll
    <3>2. ~(i < j) /\ ~(j < i)
      BY <1>5, <2>1, <3>1
    <3>3. QED
      BY <3>2
  <2>2. QED
    BY <2>1
<1>8. IsInjective(s)
  BY <1>5, <1>7, ListContents
<1>9. ASSUME NEW i \in 1..Len(s), NEW j \in 1..Len(s)
      PROVE  i < j <=>
                \/ score[s[i]] > score[s[j]]
                \/ score[s[i]] = score[s[j]] /\ Rank(s[i], q) < Rank(s[j], q)
  <2>1. s[i] \in T /\ s[j] \in T
    BY <1>5
  <2>2. i < j <=> <<s[i], s[j]>> \in R
    BY <1>5
  <2>3. QED
    BY <1>2, <2>1, <2>2
<1>10. QED
  BY <1>5, <1>6, <1>8, <1>9 DEF InOrder, s, R

\* What is in a list with one more at its end.
LEMMA AppendContents ==
    ASSUME NEW S, NEW q \in Seq(S), NEW c \in S
    PROVE  /\ Append(q, c) \in Seq(S)
           /\ Len(Append(q, c)) = Len(q) + 1 /\ Append(q, c)[Len(q) + 1] = c
           /\ \A i \in 1..Len(q) : Append(q, c)[i] = q[i]
           /\ Range(Append(q, c)) = Range(q) \cup {c}
           /\ c \notin Range(q) /\ IsInjective(q) => IsInjective(Append(q, c))
<1> DEFINE r == Append(q, c)
<1>1. /\ r \in Seq(S) /\ Len(r) = Len(q) + 1 /\ Len(q) \in Nat
      /\ r[Len(q) + 1] = c /\ \A i \in 1..Len(q) : r[i] = q[i]
  OBVIOUS
<1> HIDE DEF r
<1>2. \A i \in 1..Len(r) : i \in 1..Len(q) \/ i = Len(q) + 1
  BY <1>1
<1>3. \A i \in 1..Len(q) : i \in 1..Len(r)
  BY <1>1
<1>4. Len(q) + 1 \in 1..Len(r)
  BY <1>1
<1>5. /\ \A x : x \in Range(q) <=> \E i \in 1..Len(q) : q[i] = x
      /\ IsInjective(q) => \A i, j \in 1..Len(q) : q[i] = q[j] => i = j
  BY ListContents
<1>6. /\ \A x : x \in Range(r) <=> \E i \in 1..Len(r) : r[i] = x
      /\ IsInjective(r) <=> \A i, j \in 1..Len(r) : r[i] = r[j] => i = j
  BY <1>1, ListContents
<1>7. ASSUME NEW x \in Range(r)
      PROVE  x \in Range(q) \/ x = c
  <2>1. PICK i \in 1..Len(r) : r[i] = x
    BY <1>6
  <2>2. QED
    BY <1>1, <1>2, <1>5, <2>1
<1>8. ASSUME NEW x \in Range(q)
      PROVE  x \in Range(r)
  <2>1. PICK i \in 1..Len(q) : q[i] = x
    BY <1>5
  <2>2. i \in 1..Len(r) /\ r[i] = x
    BY <1>1, <1>3, <2>1
  <2>3. QED
    BY <1>6, <2>2
<1>9. c \in Range(r)
  BY <1>1, <1>4, <1>6
<1>10. Range(r) = Range(q) \cup {c}
  BY <1>7, <1>8, <1>9
<1>11. ASSUME c \notin Range(q), IsInjective(q)
       PROVE  IsInjective(r)
  <2>1. ASSUME NEW i \in 1..Len(r), NEW j \in 1..Len(r), r[i] = r[j]
        PROVE  i = j
    <3>1. \A k \in 1..Len(q) : q[k] # c
      BY <1>5, <1>11
    <3>2. CASE i \in 1..Len(q) /\ j \in 1..Len(q)
      BY <1>1, <1>5, <1>11, <2>1, <3>2
    <3>3. CASE i \in 1..Len(q) /\ j = Len(q) + 1
      BY <1>1, <2>1, <3>1, <3>3
    <3>4. CASE i = Len(q) + 1 /\ j \in 1..Len(q)
      BY <1>1, <2>1, <3>1, <3>4
    <3>5. CASE i = Len(q) + 1 /\ j = Len(q) + 1
      BY <3>5
    <3>6. QED
      BY <1>2, <3>2, <3>3, <3>4, <3>5
  <2>2. QED
    BY <1>6, <2>1
<1>12. QED
  BY <1>1, <1>10, <1>11 DEF r

\* What is in two lists put together.
LEMMA ConcatContents ==
    ASSUME NEW S, NEW a \in Seq(S), NEW b \in Seq(S)
    PROVE  a \o b \in Seq(S) /\ Range(a \o b) = Range(a) \cup Range(b)
<1> DEFINE r == a \o b
<1>1. /\ r \in Seq(S) /\ Len(r) = Len(a) + Len(b)
      /\ \A i \in 1 .. Len(a) + Len(b) :
            r[i] = IF i <= Len(a) THEN a[i] ELSE b[i - Len(a)]
  BY ConcatProperties, Zenon
<1>2. Len(a) \in Nat /\ Len(b) \in Nat
  OBVIOUS
<1>3. \A x \in Range(r) : x \in Range(a) \/ x \in Range(b)
  BY RangeOfConcat
<1> HIDE DEF r
<1>4. \A x : x \in Range(r) <=> \E i \in 1..Len(r) : r[i] = x
  BY <1>1, ListContents
<1>5. ASSUME NEW x \in Range(a)
      PROVE  x \in Range(r)
  <2>1. PICK i \in 1..Len(a) : a[i] = x
    BY ListContents
  <2>2. i \in 1..Len(r) /\ i <= Len(a) /\ i \in 1 .. Len(a) + Len(b)
    BY <1>1, <1>2
  <2>3. r[i] = x
    BY <1>1, <2>1, <2>2
  <2>4. QED
    BY <1>4, <2>2, <2>3
<1>6. ASSUME NEW x \in Range(b)
      PROVE  x \in Range(r)
  <2>1. PICK i \in 1..Len(b) : b[i] = x
    BY ListContents
  <2> DEFINE j == Len(a) + i
  <2>2. /\ j \in 1..Len(r) /\ ~(j <= Len(a)) /\ j \in 1 .. Len(a) + Len(b)
        /\ j - Len(a) = i
    BY <1>1, <1>2
  <2> HIDE DEF j
  <2>3. r[j] = x
    BY <1>1, <2>1, <2>2
  <2>4. QED
    BY <1>4, <2>2, <2>3
<1>7. QED
  BY <1>1, <1>3, <1>5, <1>6 DEF r

\* A cut list: it keeps what comes before something it keeps.
LEMMA FirstOfList ==
    ASSUME NEW S, NEW q \in Seq(S), NEW n \in Nat
    PROVE  /\ FirstN(q, n) \in Seq(S)
           /\ Len(FirstN(q, n)) = IF Len(q) < n THEN Len(q) ELSE n
           /\ \A i \in 1..Len(FirstN(q, n)) :
                 i \in 1..Len(q) /\ FirstN(q, n)[i] = q[i]
           /\ Range(FirstN(q, n)) \in SUBSET Range(q)
           /\ IsInjective(q) => IsInjective(FirstN(q, n))
           /\ Len(q) <= n => Range(FirstN(q, n)) = Range(q)
<1> DEFINE m == IF Len(q) < n THEN Len(q) ELSE n
           r == FirstN(q, n)
<1>1. Len(q) \in Nat /\ m \in 0..Len(q) /\ (m - 1) + 1 = m
  OBVIOUS
<1>2. r = SubSeq(q, 1, m)
  BY DEF FirstN
<1> HIDE DEF r, m
<1>3. 1 \in 1..Len(q) + 1 /\ 1 <= m + 1
  BY <1>1
<1>4. /\ r \in Seq(S) /\ Len(r) = (m - 1) + 1
      /\ \A j \in 1..(m - 1) + 1 : r[j] = q[1 + (j - 1)]
  BY <1>1, <1>2, <1>3, PartOfList
<1>5. \A j \in 1..m : j \in 1..(m - 1) + 1 /\ 1 + (j - 1) = j /\ j \in 1..Len(q)
  BY <1>1
<1>6. Len(r) = m /\ \A i \in 1..m : i \in 1..Len(q) /\ r[i] = q[i]
  <2>1. ASSUME NEW i \in 1..m
        PROVE  i \in 1..Len(q) /\ r[i] = q[i]
    <3>1. i \in 1..(m - 1) + 1 /\ 1 + (i - 1) = i
      BY <1>5
    <3>2. r[i] = q[1 + (i - 1)]
      BY <1>4, <3>1
    <3>3. QED
      BY <1>5, <3>1, <3>2
  <2>2. QED
    BY <1>1, <1>4, <2>1
<1>7. /\ \A x : x \in Range(q) <=> \E i \in 1..Len(q) : q[i] = x
      /\ IsInjective(q) => \A i, j \in 1..Len(q) : q[i] = q[j] => i = j
  BY ListContents
<1>8. /\ \A x : x \in Range(r) <=> \E i \in 1..Len(r) : r[i] = x
      /\ IsInjective(r) <=> \A i, j \in 1..Len(r) : r[i] = r[j] => i = j
  BY <1>4, ListContents
<1>9. Range(r) \in SUBSET Range(q)
  BY <1>6, <1>7, <1>8
<1>10. IsInjective(q) => IsInjective(r)
  BY <1>6, <1>7, <1>8
<1>11. ASSUME Len(q) <= n
       PROVE  Range(r) = Range(q)
  <2>1. m = Len(q)
    BY <1>1, <1>11 DEF m
  <2>2. \A i \in 1..Len(q) : i \in 1..Len(r) /\ r[i] = q[i]
    BY <1>6, <2>1
  <2>3. Range(q) \in SUBSET Range(r)
    BY <1>7, <1>8, <2>2
  <2>4. QED
    BY <1>9, <2>3
<1>12. QED
  BY <1>4, <1>6, <1>9, <1>10, <1>11 DEF r, m

\* The loop of _filter_accessible.
LEMMA FilteringRuns ==
    ASSUME NEW hits \in Seq(Chunks), NEW scope
    PROVE  /\ Filtering(hits, scope) \in [0..Len(hits) -> Seq(Chunks)]
           /\ Filtering(hits, scope)[0] = <<>>
           /\ \A n \in 1..Len(hits) :
                 Filtering(hits, scope)[n] =
                    Keep(Filtering(hits, scope)[n - 1], hits[n], scope)
<1> DEFINE N == Len(hits)
           start == <<>>
           step == [x \in Seq(Chunks) \X (1..N) |->
                      Keep(x[1], hits[x[2]], scope)]
           f == Filtering(hits, scope)
<1>1. N \in Nat
  OBVIOUS
<1>2. \A s \in Seq(Chunks), n \in 1..N :
         Keep(s, hits[n], scope) \in Seq(Chunks)
  BY DEF Keep
<1>3. start \in Seq(Chunks)
  OBVIOUS
<1>4. step \in [Seq(Chunks) \X (1..N) -> Seq(Chunks)]
  BY <1>2
<1>5. \A s \in Seq(Chunks), n \in 1..N :
         step[<<s, n>>] = Keep(s, hits[n], scope)
  OBVIOUS
<1> HIDE DEF step
<1>6. PICK g \in [0..N -> Seq(Chunks)] : Runs(g, N, start, step)
  <2> HIDE DEF N
  <2>1. QED
    BY <1>1, <1>3, <1>4, LoopComputes, Zenon
<1> HIDE DEF N
<1>7. ASSUME NEW n \in 0..N
      PROVE  g[n] = IF n = 0 THEN start
                     ELSE Keep(g[n - 1], hits[n], scope)
  <2>1. CASE n = 0
    BY <1>6, <2>1 DEF Runs
  <2>2. CASE n # 0
    <3>1. n \in 1..N /\ g[n - 1] \in Seq(Chunks)
      BY <1>1, <1>6, <2>2
    <3>2. QED
      BY <1>5, <1>6, <2>2, <3>1 DEF Runs
  <2>3. QED
    BY <2>1, <2>2
<1>8. g = [n \in 0..N |-> IF n = 0 THEN start
                          ELSE Keep(g[n - 1], hits[n], scope)]
  BY <1>7
<1>9. f = [n \in 0..N |-> IF n = 0 THEN start
                          ELSE Keep(f[n - 1], hits[n], scope)]
  BY <1>8 DEF Filtering, N
<1> HIDE DEF f
<1>10. DOMAIN f = 0..N /\ f[0] = start
  BY <1>1, <1>9
<1>11. \A n \in 1..N :
          f[n] = Keep(f[n - 1], hits[n], scope)
  <2>1. \A n \in 1..N : n \in 0..N /\ n # 0
    BY <1>1
  <2>2. QED
    BY <1>9, <2>1
<1>12. \A n \in 1..N : f[n - 1] \in Seq(Chunks) => f[n] \in Seq(Chunks)
  BY <1>2, <1>11
<1>13. f[0] \in Seq(Chunks)
  BY <1>3, <1>10
<1>14. \A n \in 0..N : f[n] \in Seq(Chunks)
  BY <1>1, <1>12, <1>13, LoopStays, Zenon
<1>15. f \in [0..N -> Seq(Chunks)]
  BY <1>9, <1>14
<1>16. QED
  BY <1>10, <1>11, <1>15 DEF f, N

\* _filter_accessible loses the hits outside the scope and no others.
LEMMA FilteredHits ==
    ASSUME NEW hits \in Seq(Chunks), NEW scope
    PROVE  /\ Filtered(hits, scope) \in Seq(Chunks)
           /\ Range(Filtered(hits, scope)) =
                 {c \in Range(hits) : DocOf[c] \in scope}
           /\ IsInjective(hits) => IsInjective(Filtered(hits, scope))
<1> DEFINE N == Len(hits)
           kept == Filtering(hits, scope)
           Of(n) == {c \in Chunks : /\ \E i \in 1..n : hits[i] = c
                                    /\ DocOf[c] \in scope}
           Good == {n \in 0..N :
                      /\ Range(kept[n]) = Of(n)
                      /\ IsInjective(hits) => IsInjective(kept[n])}
<1>1. /\ kept \in [0..N -> Seq(Chunks)] /\ kept[0] = <<>>
      /\ \A n \in 1..N : kept[n] = Keep(kept[n - 1], hits[n], scope)
  BY FilteringRuns, Zenon
<1>2. N \in Nat /\ \A i \in 1..N : hits[i] \in Chunks
  OBVIOUS
<1>3. /\ \A c : c \in Range(hits) <=> \E i \in 1..N : hits[i] = c
      /\ IsInjective(hits) => \A i, j \in 1..N : hits[i] = hits[j] => i = j
  BY ListContents
<1> HIDE DEF kept, N
<1>4. 0 \in Good
  <2>1. Range(kept[0]) = {} /\ IsInjective(kept[0])
    BY <1>1 DEF Range, IsInjective
  <2>2. Of(0) = {}
    OBVIOUS
  <2>3. QED
    BY <1>2, <2>1, <2>2
<1>5. ASSUME NEW n \in 0..N, n \in Good, n < N
      PROVE  n + 1 \in Good
  <2> DEFINE m == n + 1
             c == hits[m]
             q == kept[n]
  <2>1. m \in 1..N /\ m - 1 = n /\ n \in Nat
    BY <1>2, <1>5
  <2>2. q \in Seq(Chunks) /\ c \in Chunks /\ kept[m] = Keep(q, c, scope)
    BY <1>1, <1>2, <2>1
  <2>3. Range(q) = Of(n) /\ (IsInjective(hits) => IsInjective(q))
    BY <1>5
  <2>4. \A i \in 1..m : i \in 1..n \/ i = m
    BY <2>1
  <2>5. \A i \in 1..n : i \in 1..m /\ i # m /\ i \in 1..N
    BY <1>2, <2>1
  <2>6. m \in 1..m /\ m \in 0..N
    BY <1>2, <2>1
  <2> HIDE DEF m
  <2>7. CASE DocOf[c] \notin scope
    <3>1. kept[m] = q
      BY <2>2, <2>7 DEF Keep
    <3>2. Of(m) = Of(n)
      BY <2>4, <2>5, <2>7
    <3> HIDE DEF Of, q
    <3>3. QED
      BY <2>3, <2>6, <3>1, <3>2 DEF m
  <2>8. CASE DocOf[c] \in scope
    <3> DEFINE r == Append(q, c)
    <3>1. kept[m] = r
      BY <2>2, <2>8 DEF Keep
    <3>2. Of(m) = Of(n) \cup {c}
      BY <1>2, <2>1, <2>4, <2>5, <2>6, <2>8
    <3> HIDE DEF q, c
    <3>3. c \notin Range(q) \/ ~IsInjective(hits)
      <4>1. ASSUME c \in Of(n), IsInjective(hits)
            PROVE  FALSE
        <5>1. PICK i \in 1..n : hits[i] = c
          BY <4>1
        <5>2. i \in 1..N /\ i # m /\ hits[i] = hits[m]
          BY <2>5, <5>1 DEF c
        <5>3. QED
          BY <1>3, <2>1, <4>1, <5>2
      <4>2. QED
        BY <2>3, <4>1
    <3>4. /\ Range(r) = Range(q) \cup {c}
          /\ c \notin Range(q) /\ IsInjective(q) => IsInjective(r)
      BY <2>2, AppendContents
    <3> HIDE DEF r
    <3>5. IsInjective(hits) => IsInjective(r)
      BY <2>3, <3>3, <3>4
    <3> HIDE DEF Of
    <3>6. QED
      BY <2>3, <2>6, <3>1, <3>2, <3>4, <3>5 DEF m
  <2>9. QED
    BY <2>7, <2>8
<1> HIDE DEF Good
<1>6. \A n \in 0..N : n \in Good
  BY <1>2, <1>4, <1>5, TurnByTurn
<1>7. N \in Good
  BY <1>2, <1>6
<1>8. Range(kept[N]) = Of(N) /\ (IsInjective(hits) => IsInjective(kept[N]))
  BY <1>7 DEF Good
<1>9. Of(N) = {c \in Range(hits) : DocOf[c] \in scope}
  BY <1>2, <1>3
<1>10. kept[N] \in Seq(Chunks)
  BY <1>1, <1>2
<1>11. Filtered(hits, scope) = kept[N]
  BY DEF Filtered, kept, N
<1> HIDE DEF Of
<1>12. QED
  BY <1>8, <1>9, <1>10, <1>11

\* Reciprocal ranks are numbers.
LEMMA RecipIsNat ==
    ASSUME NEW n \in Nat, n >= 1
    PROVE  Unit \div (RrfK + (n - 1)) \in Nat
<1>1. RrfK + (n - 1) \in Nat \ {0} /\ Unit \in Nat
  BY RetrievalAssumption
<1>2. QED
  BY <1>1

\* A hit has a greater reciprocal rank than those behind it.
LEMMA RecipDecreases ==
    ASSUME NEW m \in 1..TopK, NEW n \in 1..TopK, m < n
    PROVE  Unit \div (RrfK + (m - 1)) > Unit \div (RrfK + (n - 1))
<1> DEFINE a == RrfK + (m - 1)
           b == RrfK + (n - 1)
           p == Unit \div a
           q == Unit \div b
<1>1. /\ TopK \in Nat /\ RrfK \in Nat \ {0} /\ Unit \in Nat \ {0}
      /\ \A r \in 0..TopK - 1 : Unit % (RrfK + r) = 0
  BY RetrievalAssumption
<1>2. m - 1 \in 0..TopK - 1 /\ n - 1 \in 0..TopK - 1
  BY <1>1
<1>3. a \in Nat \ {0} /\ b \in Nat \ {0} /\ a < b
  BY <1>1
<1>4. Unit % a = 0 /\ Unit % b = 0
  BY <1>1, <1>2
<1> HIDE DEF a, b
<1>5. p \in Nat /\ q \in Nat /\ Unit = a * p /\ Unit = b * q
  BY <1>1, <1>3, <1>4
<1> HIDE DEF p, q
<1>6. q # 0
  BY <1>1, <1>3, <1>5
<1>7. ASSUME p <= q
      PROVE  FALSE
  <2>1. a * p <= a * q
    BY <1>3, <1>5, <1>7
  <2>2. a * q < b * q
    BY <1>3, <1>5, <1>6
  <2>3. QED
    BY <1>3, <1>5, <2>1, <2>2
<1>8. QED
  BY <1>5, <1>7 DEF a, b, p, q

\* The reciprocal ranks that one search gives a chunk.
LEMMA ScoringRuns ==
    ASSUME NEW c, NEW hits \in Seq(Chunks)
    PROVE  /\ Scoring(c, hits) \in [0..Len(hits) -> Nat]
           /\ Scoring(c, hits)[0] = 0
           /\ \A n \in 1..Len(hits) :
                 Scoring(c, hits)[n] =
                    Scoring(c, hits)[n - 1] + Reciprocal(c, hits[n], n)
<1> DEFINE N == Len(hits)
           start == 0
           step == [x \in Nat \X (1..N) |->
                      x[1] + Reciprocal(c, hits[x[2]], x[2])]
           f == Scoring(c, hits)
<1>1. N \in Nat
  OBVIOUS
<1>2. \A s \in Nat, n \in 1..N :
         s + Reciprocal(c, hits[n], n) \in Nat
  <2>1. \A n \in 1..N : Reciprocal(c, hits[n], n) \in Nat
    BY <1>1, RecipIsNat DEF Reciprocal
  <2>2. QED
    BY <2>1
<1>3. start \in Nat
  OBVIOUS
<1>4. step \in [Nat \X (1..N) -> Nat]
  BY <1>2
<1>5. \A s \in Nat, n \in 1..N :
         step[<<s, n>>] = s + Reciprocal(c, hits[n], n)
  OBVIOUS
<1> HIDE DEF step
<1>6. PICK g \in [0..N -> Nat] : Runs(g, N, start, step)
  <2> HIDE DEF N
  <2>1. QED
    BY <1>1, <1>3, <1>4, LoopComputes, Zenon
<1> HIDE DEF N
<1>7. ASSUME NEW n \in 0..N
      PROVE  g[n] = IF n = 0 THEN start
                     ELSE g[n - 1] + Reciprocal(c, hits[n], n)
  <2>1. CASE n = 0
    BY <1>6, <2>1 DEF Runs
  <2>2. CASE n # 0
    <3>1. n \in 1..N /\ g[n - 1] \in Nat
      BY <1>1, <1>6, <2>2
    <3>2. QED
      BY <1>5, <1>6, <2>2, <3>1 DEF Runs
  <2>3. QED
    BY <2>1, <2>2
<1>8. g = [n \in 0..N |-> IF n = 0 THEN start
                          ELSE g[n - 1] + Reciprocal(c, hits[n], n)]
  BY <1>7
<1>9. f = [n \in 0..N |-> IF n = 0 THEN start
                          ELSE f[n - 1] + Reciprocal(c, hits[n], n)]
  BY <1>8 DEF Scoring, N
<1> HIDE DEF f
<1>10. DOMAIN f = 0..N /\ f[0] = start
  BY <1>1, <1>9
<1>11. \A n \in 1..N :
          f[n] = f[n - 1] + Reciprocal(c, hits[n], n)
  <2>1. \A n \in 1..N : n \in 0..N /\ n # 0
    BY <1>1
  <2>2. QED
    BY <1>9, <2>1
<1>12. \A n \in 1..N : f[n - 1] \in Nat => f[n] \in Nat
  BY <1>2, <1>11
<1>13. f[0] \in Nat
  BY <1>3, <1>10
<1>14. \A n \in 0..N : f[n] \in Nat
  BY <1>1, <1>12, <1>13, LoopStays, Zenon
<1>15. f \in [0..N -> Nat]
  BY <1>9, <1>14
<1>16. QED
  BY <1>10, <1>11, <1>15 DEF f, N

\* A search gives the chunks it does not find nothing, and those it finds once
\* the reciprocal of their rank.
LEMMA ScoreOfHit ==
    ASSUME NEW c, NEW hits \in Seq(Chunks)
    PROVE  /\ Scoring(c, hits)[Len(hits)] \in Nat
           /\ c \notin Range(hits) => Scoring(c, hits)[Len(hits)] = 0
           /\ c \in Range(hits) /\ IsInjective(hits)
              => Scoring(c, hits)[Len(hits)] =
                    Unit \div (RrfK + (Rank(c, hits) - 1))
<1> DEFINE N == Len(hits)
           sum == Scoring(c, hits)
<1>1. /\ sum \in [0..N -> Nat] /\ sum[0] = 0
      /\ \A n \in 1..N :
            sum[n] = sum[n - 1] + Reciprocal(c, hits[n], n)
  BY ScoringRuns, Zenon
<1>2. N \in Nat
  OBVIOUS
<1>3. /\ \A x : x \in Range(hits) <=> \E i \in 1..N : hits[i] = x
      /\ IsInjective(hits) => \A i, j \in 1..N : hits[i] = hits[j] => i = j
  BY ListContents
<1> HIDE DEF sum, N
<1>4. sum[N] \in Nat
  BY <1>1, <1>2
<1>5. ASSUME c \notin Range(hits)
      PROVE  sum[N] = 0
  <2> DEFINE Zero == {0}
  <2>1. \A n \in 1..N : sum[n - 1] \in Zero => sum[n] \in Zero
    BY <1>1, <1>3, <1>5 DEF Reciprocal
  <2>2. sum[0] \in Zero
    BY <1>1
  <2>3. \A n \in 0..N : sum[n] \in Zero
    <3> HIDE DEF Zero
    <3>1. QED
      BY <1>2, <2>1, <2>2, LoopStays
  <2>4. QED
    BY <1>2, <2>3
<1>6. ASSUME c \in Range(hits), IsInjective(hits)
      PROVE  sum[N] = Unit \div (RrfK + (Rank(c, hits) - 1))
  <2> DEFINE r == Rank(c, hits)
             v == Unit \div (RrfK + (r - 1))
             Good == {n \in 0..N : sum[n] = IF n < r THEN 0 ELSE v}
  <2>1. r \in 1..N /\ hits[r] = c
    BY <1>6, RankOfHit DEF N
  <2>2. v \in Nat
    BY <1>2, <2>1, RecipIsNat
  <2>3. \A n \in 1..N : hits[n] = c => n = r
    BY <1>3, <1>6, <2>1
  <2> HIDE DEF r
  <2>4. 0 \in Good
    BY <1>1, <1>2, <2>1
  <2>5. ASSUME NEW n \in 0..N, n \in Good, n < N
        PROVE  n + 1 \in Good
    <3>1. n + 1 \in 1..N /\ n + 1 \in 0..N /\ (n + 1) - 1 = n /\ n \in Nat
      BY <1>2, <2>5
    <3>2. sum[n + 1] = sum[n] + IF hits[n + 1] = c
                                THEN Unit \div (RrfK + n) ELSE 0
      <4>1. RrfK + ((n + 1) - 1) = RrfK + n
        BY <3>1
      <4>2. sum[n + 1] = sum[n] + Reciprocal(c, hits[n + 1], n + 1)
        BY <1>1, <3>1
      <4>3. QED
        BY <4>1, <4>2 DEF Reciprocal
    <3>3. sum[n] = IF n < r THEN 0 ELSE v
      BY <2>5
    <3>4. CASE n + 1 = r
      <4>1. v = Unit \div (RrfK + n) /\ hits[n + 1] = c /\ n < r
        BY <2>1, <3>1, <3>4
      <4> HIDE DEF v
      <4>2. sum[n + 1] = v /\ ~(n + 1 < r)
        BY <2>1, <2>2, <3>1, <3>2, <3>3, <3>4, <4>1
      <4>3. QED
        BY <3>1, <4>2
    <3>5. CASE n + 1 # r
      <4>1. hits[n + 1] # c /\ (n < r <=> n + 1 < r)
        BY <2>1, <2>3, <3>1, <3>5
      <4> HIDE DEF v
      <4>2. sum[n + 1] = IF n + 1 < r THEN 0 ELSE v
        BY <2>2, <3>1, <3>2, <3>3, <4>1
      <4>3. QED
        BY <3>1, <4>2
    <3>6. QED
      BY <3>4, <3>5
  <2> HIDE DEF Good, v
  <2>6. \A n \in 0..N : n \in Good
    BY <1>2, <2>4, <2>5, TurnByTurn
  <2>7. N \in Good
    BY <1>2, <2>6
  <2>8. sum[N] = v
    BY <1>2, <2>1, <2>7 DEF Good
  <2>9. QED
    BY <2>8 DEF v, r
<1>7. QED
  BY <1>4, <1>5, <1>6 DEF sum, N

\* _rrf_fusion lists what either search found, by the sum of the reciprocals.
LEMMA FusedHits ==
    ASSUME NEW sparse \in Seq(Chunks), NEW dense \in Seq(Chunks)
    PROVE  LET all == Range(sparse) \cup Range(dense)
           IN  /\ \A c : RrfScore(c, sparse, dense) \in Nat
               /\ all \in SUBSET Chunks
               /\ InOrder(Fused(sparse, dense), all, sparse \o dense,
                          [c \in all |-> RrfScore(c, sparse, dense)])
<1> DEFINE hits == sparse \o dense
           all == Range(sparse) \cup Range(dense)
           score == [c \in all |-> RrfScore(c, sparse, dense)]
<1>1. hits \in Seq(Chunks) /\ Range(hits) = all
  BY ConcatContents
<1>2. \A c : RrfScore(c, sparse, dense) \in Nat
  BY ScoreOfHit DEF RrfScore
<1>3. all \in SUBSET Chunks
  <2>1. Range(hits) \in SUBSET Chunks
    BY <1>1, ListContents
  <2>2. QED
    BY <1>1, <2>1
<1>4. \A c \in Range(hits) : score[c] \in Int
  BY <1>1, <1>2
<1>5. Fused(sparse, dense) =
         Sorted(Range(hits), Better(Range(hits), hits, score))
  BY <1>1 DEF Fused, SortedDown
<1>6. Range(hits) \in SUBSET Range(hits)
  OBVIOUS
<1> HIDE DEF hits, score
<1>7. InOrder(Fused(sparse, dense), Range(hits), hits, score)
  BY <1>1, <1>4, <1>5, <1>6, SortedByScore
<1>8. QED
  BY <1>1, <1>2, <1>3, <1>7 DEF hits, score

\* What a list in order has first scores best.
LEMMA FirstIsBest ==
    ASSUME NEW s, NEW T, NEW q, NEW score, InOrder(s, T, q, score), T # {},
           \A c \in T : score[c] \in Int
    PROVE  /\ Len(s) >= 1 /\ s[1] \in T
           /\ \A c \in T : score[c] <= score[s[1]]
<1>1. /\ s \in Seq(T) /\ Range(s) = T
      /\ \A i, j \in 1..Len(s) :
            score[s[i]] > score[s[j]] => i < j
  BY DEF InOrder
<1>2. \A x : x \in T <=> \E i \in 1..Len(s) : s[i] = x
  BY <1>1, ListContents
<1>3. Len(s) \in Nat /\ Len(s) >= 1
  <2>1. PICK x \in T : TRUE
    OBVIOUS
  <2>2. PICK i \in 1..Len(s) : s[i] = x
    BY <1>2
  <2>3. QED
    BY <1>1, <2>2
<1>4. 1 \in 1..Len(s)
  BY <1>3
<1>5. s[1] \in T
  BY <1>2, <1>4
<1>6. ASSUME NEW c \in T
      PROVE  score[c] <= score[s[1]]
  <2>1. PICK i \in 1..Len(s) : s[i] = c
    BY <1>2
  <2>2. ~(i < 1)
    BY <1>3
  <2>3. ~(score[c] > score[s[1]])
    BY <1>1, <1>4, <2>1, <2>2
  <2>4. score[c] \in Int /\ score[s[1]] \in Int
    BY <1>5
  <2>5. QED
    BY <2>3, <2>4
<1>7. QED
  BY <1>3, <1>5, <1>6

\* max() finds the best.
LEMMA BestIsBest ==
    ASSUME NEW S, NEW q \in Seq(S), NEW T \in SUBSET Range(q), T # {},
           NEW score, \A c \in T : score[c] \in Int
    PROVE  /\ BestOf(T, q, score) \in T
           /\ \A c \in T : score[c] <= score[BestOf(T, q, score)]
<1> DEFINE s == Sorted(T, Better(T, q, score))
<1>1. InOrder(s, T, q, score)
  BY SortedByScore
<1>2. BestOf(T, q, score) = s[1]
  BY DEF BestOf
<1> HIDE DEF s
<1>3. s[1] \in T /\ \A c \in T : score[c] <= score[s[1]]
  BY <1>1, FirstIsBest
<1>4. QED
  BY <1>2, <1>3

\* A part of a whole, rounded down, is no more than the whole.
LEMMA PartOfUnit ==
    ASSUME NEW u \in Nat, NEW n \in Nat, NEW d \in Nat \ {0}, n <= d
    PROVE  (u * n) \div d \in 0..u
<1> DEFINE x == u * n
           q == x \div d
<1>1. x \in Nat /\ x <= u * d
  <2>1. d - n \in Nat
    OBVIOUS
  <2>2. u * (d - n) >= 0
    BY <2>1
  <2>3. u * (d - n) = u * d - u * n
    OBVIOUS
  <2>4. QED
    BY <2>2, <2>3
<1> HIDE DEF x
<1>2. q \in Nat /\ d * q <= x
  BY <1>1
<1> HIDE DEF q
<1>3. ASSUME q >= u + 1
      PROVE  FALSE
  <2>1. d * (u + 1) <= d * q
    BY <1>2, <1>3, ProductGrows
  <2>2. d * (u + 1) = u * d + d
    OBVIOUS
  <2>3. d * q \in Nat /\ u * d \in Nat
    BY <1>2
  <2>4. QED
    BY <1>1, <1>2, <2>1, <2>2, <2>3
<1>4. q \in 0..u
  BY <1>2, <1>3
<1>5. QED
  BY <1>4 DEF q, x

\* The overlap of two chunks is a fraction.
LEMMA OverlapIsFraction ==
    ASSUME NEW c \in Chunks, NEW d \in Chunks
    PROVE  Similarity(c, d) \in 0..Unit
<1> DEFINE n == Shared(c, d)
           m == Together(c, d)
           most == Max({1, m})
<1>1. IsFiniteSet(TokensOf[c]) /\ IsFiniteSet(TokensOf[d]) /\ Unit \in Nat
  BY RetrievalAssumption
<1>2. IsFiniteSet(TokensOf[c] \cup TokensOf[d])
  BY <1>1, FS_Union
<1>3. m \in Nat
  BY <1>2, FS_CardinalityType DEF Together
<1>4. n \in Nat /\ n <= m
  <2>1. TokensOf[c] \cap TokensOf[d] \in SUBSET (TokensOf[c] \cup TokensOf[d])
    OBVIOUS
  <2>2. IsFiniteSet(TokensOf[c] \cap TokensOf[d]) /\ n <= m
    BY <1>2, <2>1, FS_Subset DEF Shared, Together
  <2>3. n \in Nat
    BY <2>2, FS_CardinalityType DEF Shared
  <2>4. QED
    BY <2>2, <2>3
<1> HIDE DEF n, m
<1>5. most \in Nat \ {0} /\ most >= m
  <2>1. CASE m >= 1
    BY <1>3, <2>1 DEF Max
  <2>2. CASE ~(m >= 1)
    BY <1>3, <2>2 DEF Max
  <2>3. QED
    BY <2>1, <2>2
<1>6. Similarity(c, d) = (Unit * n) \div most
  BY DEF Similarity, n, m
<1> HIDE DEF most
<1>7. n <= most
  BY <1>3, <1>4, <1>5
<1>8. QED
  BY <1>1, <1>4, <1>5, <1>6, <1>7, PartOfUnit

\* One of finitely many numbers is the largest.
LEMMA LargestOfSome ==
    ASSUME NEW n \in Nat, NEW f \in [1..n + 1 -> Nat]
    PROVE  \E k \in 1..n + 1 : \A i \in 1..n + 1 : f[k] >= f[i]
<1> DEFINE Best(m, k) == k \in 1..m + 1 /\ \A i \in 1..m + 1 : f[k] >= f[i]
           D == {m \in 0..n : \E k \in 1..n + 1 : Best(m, k)}
<1>1. 0 \in D
  <2>1. 1 \in 1..n + 1 /\ 0 \in 0..n /\ 1..0 + 1 = {1}
    OBVIOUS
  <2>2. f[1] \in Nat
    BY <2>1
  <2>3. Best(0, 1)
    BY <2>1, <2>2
  <2>4. QED
    BY <2>1, <2>3
<1>2. ASSUME NEW m \in 0..n, m \in D, m < n
      PROVE  m + 1 \in D
  <2>1. PICK k \in 1..n + 1 : Best(m, k)
    BY <1>2
  <2>2. /\ k \in 1..(m + 1) + 1 /\ m + 2 \in 1..n + 1 /\ m + 1 \in 0..n
        /\ m + 2 \in 1..(m + 1) + 1
        /\ \A i \in 1..(m + 1) + 1 : i \in 1..m + 1 \/ i = m + 2
        /\ \A i \in 1..(m + 1) + 1 : f[i] \in Nat
    BY <1>2, <2>1
  <2>3. CASE f[k] >= f[m + 2]
    <3>1. Best(m + 1, k)
      BY <2>1, <2>2, <2>3
    <3>2. QED
      BY <2>2, <3>1
  <2>4. CASE ~(f[k] >= f[m + 2])
    <3>1. f[k] \in Nat /\ f[m + 2] \in Nat /\ f[m + 2] >= f[k]
      BY <2>2, <2>4
    <3>2. ASSUME NEW i \in 1..(m + 1) + 1
          PROVE  f[m + 2] >= f[i]
      <4>1. f[i] \in Nat /\ (i = m + 2 \/ f[k] >= f[i])
        BY <2>1, <2>2
      <4>2. QED
        BY <3>1, <4>1
    <3>3. Best(m + 1, m + 2)
      BY <2>2, <3>2
    <3>4. QED
      BY <2>2, <3>3
  <2>5. QED
    BY <2>3, <2>4
<1> HIDE DEF D
<1>3. \A m \in 0..n : m \in D
  BY <1>1, <1>2, TurnByTurn
<1>4. n \in D
  BY <1>3
<1>5. QED
  BY <1>4 DEF D

\* The greatest similarity to what is chosen is the similarity to some of it.
LEMMA HowSimilar ==
    ASSUME NEW c \in Chunks, NEW chosen \in Seq(Chunks), chosen # <<>>
    PROVE  /\ MaxSimilarity(c, chosen) \in 0..Unit
           /\ \E k \in 1..Len(chosen) :
                 MaxSimilarity(c, chosen) = Similarity(c, chosen[k])
<1> DEFINE V == {Similarity(c, d) : d \in Range(chosen)}
           f == [i \in 1..Len(chosen) |-> Similarity(c, chosen[i])]
<1>1. Len(chosen) \in Nat \ {0}
  BY EmptySeq
<1>2. \A i \in 1..Len(chosen) : chosen[i] \in Chunks
  BY ElementOfSeq
<1>3. \A i \in 1..Len(chosen) : f[i] \in 0..Unit
  BY <1>2, OverlapIsFraction
<1>4. \A v : v \in V <=> \E i \in 1..Len(chosen) : v = f[i]
  <2>1. \A d : d \in Range(chosen) <=> \E i \in 1..Len(chosen) : chosen[i] = d
    BY ListContents
  <2>2. QED
    BY <2>1
<1>5. MaxSimilarity(c, chosen) = Max(V)
  BY DEF MaxSimilarity
<1>6. \A i \in 1..Len(chosen) : f[i] = Similarity(c, chosen[i])
  OBVIOUS
<1>7. Unit \in Nat
  BY RetrievalAssumption
<1>8. \E k \in 1..Len(chosen) : \A i \in 1..Len(chosen) : f[k] >= f[i]
  <2> DEFINE n == Len(chosen) - 1
  <2>1. n \in Nat /\ n + 1 = Len(chosen)
    BY <1>1
  <2>2. f \in [1..Len(chosen) -> Nat]
    <3>1. \A i \in 1..Len(chosen) : f[i] \in Nat
      BY <1>3, <1>7
    <3>2. QED
      BY <3>1
  <2> HIDE DEF n, f
  <2>3. QED
    BY <2>1, <2>2, LargestOfSome
<1> HIDE DEF V, f
<1>9. \E v \in V : \A w \in V : v >= w
  BY <1>4, <1>8
<1>10. Max(V) \in V
  BY <1>9 DEF Max
<1>11. QED
  BY <1>3, <1>4, <1>5, <1>6, <1>10

\* c is passed over for x because it is no more relevant, or by no more than it
\* shares with something chosen.
Excused(c, x, relevance, chosen) ==
    \/ relevance[c] <= relevance[x]
    \/ \E k \in 1..Len(chosen) :
          relevance[c] - relevance[x] <= Similarity(c, chosen[k])

\* What is left is passed over only with an excuse.
LEMMA NextPicked ==
    ASSUME NEW candidates \in Seq(Chunks), NEW relevance,
           \A c \in Range(candidates) : relevance[c] \in Int,
           NEW chosen \in Seq(Chunks),
           Range(candidates) \ Range(chosen) # {}
    PROVE  LET left == Range(candidates) \ Range(chosen)
               pick == NextPick(candidates, relevance, chosen)
           IN  /\ pick \in left
               /\ \A c \in left : Excused(c, pick, relevance, chosen)
<1> DEFINE left == Range(candidates) \ Range(chosen)
           pick == NextPick(candidates, relevance, chosen)
           net(c) == IF chosen = <<>> THEN relevance[c]
                     ELSE relevance[c] - MaxSimilarity(c, chosen)
           score == [c \in left |-> net(c)]
<1>1. pick = BestOf(left, candidates, score)
  BY DEF NextPick
<1>2. left \in SUBSET Range(candidates) /\ left # {}
  OBVIOUS
<1>3. Unit \in Nat \ {0}
  BY RetrievalAssumption
<1>4. \A c \in left : relevance[c] \in Int /\ c \in Chunks
  <2>1. Range(candidates) \in SUBSET Chunks
    BY ListContents
  <2>2. QED
    BY <2>1
<1>5. ASSUME chosen # <<>>, NEW c \in left
      PROVE  /\ MaxSimilarity(c, chosen) \in 0..Unit
             /\ \E k \in 1..Len(chosen) :
                   MaxSimilarity(c, chosen) = Similarity(c, chosen[k])
  BY <1>4, <1>5, HowSimilar
<1>6. \A c \in left : score[c] = net(c)
  OBVIOUS
<1>7. ASSUME NEW c \in left
      PROVE  net(c) \in Int
  <2>1. CASE chosen = <<>>
    BY <1>4, <2>1
  <2>2. CASE chosen # <<>>
    <3>1. MaxSimilarity(c, chosen) \in Int
      BY <1>3, <1>5, <2>2
    <3>2. QED
      BY <1>4, <2>2, <3>1
  <2>3. QED
    BY <2>1, <2>2
<1> HIDE DEF left, pick, score
<1>8. \A c \in left : score[c] \in Int
  <2> HIDE DEF net
  <2>1. QED
    BY <1>6, <1>7
<1>9. pick \in left /\ \A c \in left : score[c] <= score[pick]
  BY <1>1, <1>2, <1>8, BestIsBest
<1>10. ASSUME NEW c \in left
       PROVE  Excused(c, pick, relevance, chosen)
  <2>1. net(c) <= net(pick)
    <3> HIDE DEF net
    <3>1. QED
      BY <1>6, <1>9
  <2>2. CASE chosen = <<>>
    BY <2>1, <2>2 DEF Excused
  <2>3. CASE chosen # <<>>
    <3> DEFINE mine == MaxSimilarity(c, chosen)
               its == MaxSimilarity(pick, chosen)
    <3>1. PICK k \in 1..Len(chosen) : mine = Similarity(c, chosen[k])
      BY <1>5, <2>3
    <3>2. mine \in Int /\ its \in Nat
      BY <1>3, <1>5, <1>9, <2>3
    <3>3. relevance[c] \in Int /\ relevance[pick] \in Int
      BY <1>4, <1>9
    <3>4. relevance[c] - mine <= relevance[pick] - its
      BY <2>1, <2>3
    <3> HIDE DEF mine, its
    <3>5. relevance[c] - relevance[pick] <= mine
      BY <3>2, <3>3, <3>4
    <3>6. relevance[c] - relevance[pick] <= Similarity(c, chosen[k])
      BY <3>1, <3>5
    <3>7. QED
      BY <3>6 DEF Excused
  <2>4. QED
    BY <2>2, <2>3
<1>11. QED
  BY <1>9, <1>10 DEF left, pick

\* What BestOf makes of an empty set.
NoPick == Sorted({}, {})[1]

\* What _mmr may have chosen: no chunk only when none is left.
Picks(candidates) ==
    {s \in Seq(Range(candidates) \cup {NoPick}) :
        s \in Seq(Range(candidates)) \/ Range(candidates) \ Range(s) = {}}

\* When everything is chosen, the next pick is no chunk.
LEMMA NothingLeft ==
    ASSUME NEW candidates, NEW relevance, NEW s,
           Range(candidates) \ Range(s) = {}
    PROVE  NextPick(candidates, relevance, s) = NoPick
<1> DEFINE left == Range(candidates) \ Range(s)
           score == [c \in left |-> IF s = <<>> THEN relevance[c]
                                    ELSE relevance[c] - MaxSimilarity(c, s)]
<1>1. NextPick(candidates, relevance, s) = BestOf(left, candidates, score)
  BY DEF NextPick
<1> HIDE DEF score
<1>2. Better({}, candidates, score) = {}
  BY DEF Better
<1>3. BestOf({}, candidates, score) = NoPick
  BY <1>2 DEF BestOf, NoPick
<1>4. QED
  BY <1>1, <1>3

\* The loop of _mmr.  Where nothing is left, max() has no result: here it is
\* the same value whatever the rest.
LEMMA ChoosingRuns ==
    ASSUME NEW candidates \in Seq(Chunks), NEW k \in Nat, NEW relevance,
           \A c \in Range(candidates) : relevance[c] \in Int
    PROVE  /\ Choosing(candidates, k, relevance) \in [0..k -> Picks(candidates)]
           /\ Choosing(candidates, k, relevance)[0] = <<>>
           /\ \A n \in 1..k :
                 Choosing(candidates, k, relevance)[n] =
                    Append(Choosing(candidates, k, relevance)[n - 1],
              NextPick(candidates, relevance,
                       Choosing(candidates, k, relevance)[n - 1]))
<1> DEFINE N == k
           start == <<>>
           step == [x \in Picks(candidates) \X (1..N) |->
                      Append(x[1], NextPick(candidates, relevance, x[1]))]
           f == Choosing(candidates, k, relevance)
<1>1. N \in Nat
  OBVIOUS
<1>2. \A s \in Picks(candidates), n \in 1..N :
         Append(s, NextPick(candidates, relevance, s)) \in Picks(candidates)
  <2>1. SUFFICES ASSUME NEW s \in Picks(candidates)
                 PROVE  Append(s, NextPick(candidates, relevance, s))
                           \in Picks(candidates)
    OBVIOUS
  <2> DEFINE all == Range(candidates)
             pick == NextPick(candidates, relevance, s)
  <2>2. /\ s \in Seq(all \cup {NoPick})
        /\ s \in Seq(all) \/ all \ Range(s) = {}
    BY DEF Picks
  <2>3. CASE all \ Range(s) # {}
    <3>1. s \in Seq(all) /\ all \in SUBSET Chunks
      BY <2>2, <2>3, ListContents
    <3>2. s \in Seq(Chunks)
      BY <3>1, SeqMonotonic
    <3>3. pick \in all
      BY <2>3, <3>2, NextPicked
    <3> HIDE DEF pick, all
    <3>4. /\ Append(s, pick) \in Seq(all)
          /\ Append(s, pick) \in Seq(all \cup {NoPick})
      BY <2>2, <3>1, <3>3
    <3>5. QED
      BY <3>4 DEF Picks, pick, all
  <2>4. CASE all \ Range(s) = {}
    <3>1. pick = NoPick
      BY <2>4, NothingLeft
    <3> HIDE DEF pick, all
    <3>2. /\ Append(s, pick) \in Seq(all \cup {NoPick})
          /\ Range(Append(s, pick)) = Range(s) \cup {pick}
      BY <2>2, <3>1, AppendContents
    <3>3. all \ Range(Append(s, pick)) = {}
      BY <2>4, <3>2
    <3>4. QED
      BY <3>2, <3>3 DEF Picks, pick, all
  <2>5. QED
    BY <2>3, <2>4
<1>3. start \in Picks(candidates)
  BY DEF Picks
<1>4. step \in [Picks(candidates) \X (1..N) -> Picks(candidates)]
  BY <1>2
<1>5. \A s \in Picks(candidates), n \in 1..N :
         step[<<s, n>>] = Append(s, NextPick(candidates, relevance, s))
  OBVIOUS
<1> HIDE DEF step
<1>6. PICK g \in [0..N -> Picks(candidates)] : Runs(g, N, start, step)
  <2> HIDE DEF N
  <2>1. QED
    BY <1>1, <1>3, <1>4, LoopComputes, Zenon
<1> HIDE DEF N
<1>7. ASSUME NEW n \in 0..N
      PROVE  g[n] = IF n = 0 THEN start
                     ELSE Append(g[n - 1],
              NextPick(candidates, relevance, g[n - 1]))
  <2>1. CASE n = 0
    BY <1>6, <2>1 DEF Runs
  <2>2. CASE n # 0
    <3>1. n \in 1..N /\ g[n - 1] \in Picks(candidates)
      BY <1>1, <1>6, <2>2
    <3>2. QED
      BY <1>5, <1>6, <2>2, <3>1 DEF Runs
  <2>3. QED
    BY <2>1, <2>2
<1>8. g = [n \in 0..N |-> IF n = 0 THEN start
                          ELSE Append(g[n - 1],
              NextPick(candidates, relevance, g[n - 1]))]
  BY <1>7, SMTT(30)
<1>9. f = [n \in 0..N |-> IF n = 0 THEN start
                          ELSE Append(f[n - 1],
              NextPick(candidates, relevance, f[n - 1]))]
  BY <1>8 DEF Choosing, N
<1> HIDE DEF f
<1>10. DOMAIN f = 0..N /\ f[0] = start
  BY <1>1, <1>9
<1>11. \A n \in 1..N :
          f[n] = Append(f[n - 1], NextPick(candidates, relevance, f[n - 1]))
  <2>1. \A n \in 1..N : n \in 0..N /\ n # 0
    BY <1>1
  <2>2. QED
    BY <1>9, <2>1
<1>12. \A n \in 1..N : f[n - 1] \in Picks(candidates)
                    => f[n] \in Picks(candidates)
  BY <1>2, <1>11
<1>13. f[0] \in Picks(candidates)
  BY <1>3, <1>10
<1>14. \A n \in 0..N : f[n] \in Picks(candidates)
  BY <1>1, <1>12, <1>13, LoopStays, Zenon
<1>15. f \in [0..N -> Picks(candidates)]
  BY <1>9, <1>14
<1>16. QED
  BY <1>10, <1>11, <1>15 DEF f, N

\* A choice from some candidates that leaves one out, at each of its places,
\* only with an excuse by what is chosen before that place.
Diverse(q, S, relevance) ==
    /\ q # <<>> => \A c \in S : relevance[c] <= relevance[q[1]]
    /\ \A n \in 1..Len(q), c \in S :
          \/ c \in Range(q) \/ relevance[c] <= relevance[q[n]]
          \/ \E k \in 1..n - 1 :
                relevance[c] - relevance[q[n]] <= Similarity(c, q[k])

\* One more turn of _mmr.
LEMMA DiverseNext ==
    ASSUME NEW S \in SUBSET Chunks, NEW q \in Seq(S), NEW relevance,
           \A c \in S : relevance[c] \in Int, Diverse(q, S, relevance),
           NEW pick \in S \ Range(q),
           \A c \in S \ Range(q) : Excused(c, pick, relevance, q)
    PROVE  Diverse(Append(q, pick), S, relevance)
<1> DEFINE r == Append(q, pick)
<1>1. /\ r \in Seq(S) /\ Len(r) = Len(q) + 1 /\ r[Len(q) + 1] = pick
      /\ \A i \in 1..Len(q) : r[i] = q[i]
      /\ Range(r) = Range(q) \cup {pick}
  BY AppendContents
<1>2. Len(q) \in Nat /\ (q = <<>> <=> Len(q) = 0)
  BY EmptySeq
<1>3. ASSUME q = <<>>
      PROVE  Range(q) = {}
  BY <1>3 DEF Range
<1> HIDE DEF r
<1>4. \A c \in S : relevance[c] <= relevance[r[1]]
  <2>1. CASE q = <<>>
    <3>1. r[1] = pick
      BY <1>1, <1>2, <2>1
    <3>2. \A k : k \notin 1..Len(q)
      BY <1>2, <2>1
    <3>3. QED
      BY <1>3, <2>1, <3>1, <3>2 DEF Excused
  <2>2. CASE q # <<>>
    <3>1. 1 \in 1..Len(q)
      BY <1>2, <2>2
    <3>2. r[1] = q[1]
      BY <1>1, <3>1
    <3>3. QED
      BY <2>2, <3>2 DEF Diverse
  <2>3. QED
    BY <2>1, <2>2
<1>5. ASSUME NEW n \in 1..Len(r), NEW c \in S, c \notin Range(r)
      PROVE  \/ relevance[c] <= relevance[r[n]]
             \/ \E k \in 1..n - 1 :
                   relevance[c] - relevance[r[n]] <= Similarity(c, r[k])
  <2>1. c \notin Range(q) /\ c \in S \ Range(q)
    BY <1>1, <1>5
  <2>2. CASE n \in 1..Len(q)
    <3>1. r[n] = q[n]
      BY <1>1, <2>2
    <3>2. \/ relevance[c] <= relevance[q[n]]
          \/ \E k \in 1..n - 1 :
                relevance[c] - relevance[q[n]] <= Similarity(c, q[k])
      BY <2>1, <2>2 DEF Diverse
    <3>3. \A k \in 1..n - 1 : k \in 1..Len(q) /\ r[k] = q[k]
      BY <1>1, <1>2, <2>2
    <3>4. QED
      BY <3>1, <3>2, <3>3
  <2>3. CASE n \notin 1..Len(q)
    <3>1. n = Len(q) + 1 /\ n - 1 = Len(q)
      BY <1>1, <1>2, <2>3
    <3>2. r[n] = pick
      BY <1>1, <3>1
    <3>3. \/ relevance[c] <= relevance[pick]
          \/ \E k \in 1..Len(q) :
                relevance[c] - relevance[pick] <= Similarity(c, q[k])
      BY <2>1 DEF Excused
    <3>4. QED
      BY <1>1, <3>1, <3>2, <3>3
  <2>4. QED
    BY <2>2, <2>3
<1>6. QED
  BY <1>4, <1>5 DEF Diverse, r

\* _mmr chooses k of more than k candidates, each once, and diversity costs
\* only what overlaps.
LEMMA MmrIsDiverse ==
    ASSUME NEW candidates \in Seq(Chunks), IsInjective(candidates),
           NEW k \in Nat, NEW relevance,
           \A c \in Range(candidates) : relevance[c] \in Int,
           candidates # <<>> => \A c \in Range(candidates) :
                                   relevance[c] <= relevance[candidates[1]]
    PROVE  LET q == Mmr(candidates, k, relevance)
           IN  /\ q \in Seq(Chunks) /\ Range(q) \in SUBSET Range(candidates)
               /\ IsInjective(q)
               /\ Len(q) = IF Len(candidates) <= k THEN Len(candidates) ELSE k
               /\ Diverse(q, Range(candidates), relevance)
<1> DEFINE S == Range(candidates)
           N == Len(candidates)
           q == Mmr(candidates, k, relevance)
<1>1. /\ S \in SUBSET Chunks /\ N \in Nat /\ IsFiniteSet(S)
      /\ Cardinality(S) = N
  BY ListContents
<1>2. CASE N <= k
  <2>1. q = candidates
    BY <1>2 DEF Mmr
  <2>2. Diverse(candidates, S, relevance)
    <3>1. \A c \in S : c \in Range(candidates)
      OBVIOUS
    <3>2. QED
      BY <3>1 DEF Diverse
  <2>3. QED
    BY <1>1, <1>2, <2>1, <2>2
<1>3. CASE ~(N <= k)
  <2> DEFINE f == Choosing(candidates, k, relevance)
             Good == {n \in 0..k :
                        /\ f[n] \in Seq(S) /\ Len(f[n]) = n
                        /\ IsInjective(f[n]) /\ Diverse(f[n], S, relevance)}
  <2>1. /\ f[0] = <<>>
        /\ \A n \in 1..k : f[n] = Append(f[n - 1],
                             NextPick(candidates, relevance, f[n - 1]))
    BY ChoosingRuns
  <2>2. q = f[k]
    BY <1>3 DEF Mmr
  <2>3. \A c \in S : relevance[c] \in Int
    OBVIOUS
  <2> HIDE DEF f, q
  <2>4. 0 \in Good
    <3>1. <<>> \in Seq(S) /\ Len(<<>>) = 0 /\ Range(<<>>) = {}
      BY DEF Range
    <3>2. IsInjective(<<>>) /\ Diverse(<<>>, S, relevance)
      <4>1. \A n : n \notin 1..Len(<<>>)
        OBVIOUS
      <4>2. QED
        BY <4>1 DEF IsInjective, Diverse
    <3>3. 0 \in 0..k
      OBVIOUS
    <3> HIDE DEF S
    <3>4. QED
      BY <2>1, <3>1, <3>2, <3>3
  <2>5. ASSUME NEW n \in 0..k, n \in Good, n < k
        PROVE  n + 1 \in Good
    <3> DEFINE c == f[n]
               pick == NextPick(candidates, relevance, c)
               r == Append(c, pick)
               left == S \ Range(c)
    <3>1. n + 1 \in 1..k /\ n + 1 \in 0..k /\ (n + 1) - 1 = n /\ n < N
      BY <1>1, <1>3, <2>5
    <3>2. f[n + 1] = r
      BY <2>1, <3>1
    <3>3. /\ c \in Seq(S) /\ Len(c) = n /\ IsInjective(c)
          /\ Diverse(c, S, relevance)
      BY <2>5
    <3>4. left # {}
      <4>1. Cardinality(Range(c)) = n
        BY <3>3, ListContents
      <4>2. ASSUME S \in SUBSET Range(c)
            PROVE  FALSE
        <5>1. IsFiniteSet(Range(c))
          BY <3>3, ListContents
        <5>2. Cardinality(S) <= Cardinality(Range(c))
          BY <4>2, <5>1, FS_Subset
        <5>3. QED
          BY <1>1, <3>1, <4>1, <5>2
      <4>3. QED
        BY <4>2
    <3>5. /\ pick \in left
          /\ \A x \in left : Excused(x, pick, relevance, c)
      <4>1. c \in Seq(Chunks)
        BY <1>1, <3>3, SeqMonotonic
      <4>2. QED
        BY <2>3, <3>4, <4>1, NextPicked
    <3> HIDE DEF c, pick, S, Good
    <3>6. /\ r \in Seq(S) /\ Len(r) = n + 1 /\ IsInjective(r)
      BY <3>3, <3>5, AppendContents
    <3>7. Diverse(r, S, relevance)
      BY <1>1, <2>3, <3>3, <3>5, DiverseNext
    <3> HIDE DEF r, left
    <3>8. QED
      BY <3>1, <3>2, <3>6, <3>7 DEF Good
  <2> HIDE DEF Good
  <2>6. \A n \in 0..k : n \in Good
    BY <2>4, <2>5, TurnByTurn
  <2>7. k \in Good
    BY <2>6
  <2>8. q \in Seq(S) /\ Len(q) = k /\ IsInjective(q) /\ Diverse(q, S, relevance)
    BY <2>2, <2>7 DEF Good
  <2> HIDE DEF S
  <2>9. q \in Seq(Chunks)
    BY <1>1, <2>8, SeqMonotonic
  <2>10. Range(q) \in SUBSET S
    BY <2>8, ListContents
  <2>11. QED
    BY <1>3, <2>8, <2>9, <2>10 DEF q, S
<1>4. QED
  BY <1>2, <1>3

\* The smallest of three numbers.
LEMMA MinOfThree ==
    ASSUME NEW a \in Nat, NEW b \in Nat, NEW c \in Nat
    PROVE  Min({a, b} \cup {c}) =
              IF a <= b THEN IF a <= c THEN a ELSE c
                        ELSE IF b <= c THEN b ELSE c
<1> DEFINE V == {a, b} \cup {c}
           m == IF a <= b THEN IF a <= c THEN a ELSE c
                          ELSE IF b <= c THEN b ELSE c
<1>1. m \in V /\ \A v \in V : m <= v /\ v \in Nat
  OBVIOUS
<1> HIDE DEF m, V
<1>2. \A x \in V : (\A v \in V : x <= v) => x = m
  BY <1>1
<1>3. Min(V) \in V /\ \A v \in V : Min(V) <= v
  BY <1>1 DEF Min
<1>4. QED
  BY <1>2, <1>3 DEF m, V

\* The hits that a search cut to top_k.
LEMMA HitsOfSearch ==
    ASSUME NEW q \in SparseRankings
    PROVE  q \in Seq(Chunks) /\ Len(q) <= TopK
<1>1. PICK m \in 0..TopK : q \in [1..m -> Chunks]
  BY DEF SparseRankings, SeqOf
<1>2. TopK \in Nat /\ m \in Nat
  BY RetrievalAssumption
<1>3. q \in Seq(Chunks) /\ Len(q) = m
  BY <1>1, <1>2, FunctionIsList
<1>4. QED
  BY <1>2, <1>3

\* What a retrieval is asked for, and meets.
LEMMA PartsOfAsking ==
    ASSUME NEW a \in Askings
    PROVE  /\ a.mode \in Modes /\ a.k \in Nat \ {0}
           /\ a.sparse \in Seq(Chunks) /\ Len(a.sparse) <= TopK
           /\ a.dense \in Seq(Chunks) /\ Len(a.dense) <= TopK
           /\ IsInjective(a.dense)
           /\ a.logit = <<>> \/ a.logit \in [Chunks -> Int]
<1>1. /\ a.mode \in Modes /\ a.k \in FinalKs
      /\ a.sparse \in SparseRankings /\ a.dense \in Rankings
      /\ a.logit = <<>> \/ a.logit \in [Chunks -> Logits]
  BY DEF Askings, Modes
<1>2. a.dense \in SparseRankings /\ IsInjective(a.dense)
  BY <1>1 DEF Rankings, SparseRankings
<1>3. FinalKs \subseteq Nat \ {0} /\ Logits \subseteq Int
  BY RetrievalAssumption
<1>4. a.logit = <<>> \/ a.logit \in [Chunks -> Int]
  BY <1>1, <1>3
<1>5. QED
  BY <1>1, <1>2, <1>3, <1>4, HitsOfSearch

\* What _filter_accessible leaves of the two searches.
LEMMA ReadableHits ==
    ASSUME NEW a \in Askings
    PROVE  LET sparse == Filtered(a.sparse, a.scope)
               dense  == Filtered(a.dense, a.scope)
           IN  /\ sparse \in Seq(Chunks) /\ dense \in Seq(Chunks)
               /\ IsInjective(dense) /\ Len(dense) <= TopK
               /\ IsInjective(a.sparse)
                  => IsInjective(sparse) /\ Len(sparse) <= TopK
               /\ a.mode = "sparse" => Readable(a) = Range(sparse)
               /\ a.mode = "dense" => Readable(a) = Range(dense)
               /\ a.mode \notin {"sparse", "dense"}
                  => Readable(a) = Range(sparse) \cup Range(dense)
<1> DEFINE sparse == Filtered(a.sparse, a.scope)
           dense == Filtered(a.dense, a.scope)
<1>1. /\ a.sparse \in Seq(Chunks) /\ Len(a.sparse) <= TopK
      /\ a.dense \in Seq(Chunks) /\ Len(a.dense) <= TopK
      /\ IsInjective(a.dense)
  BY PartsOfAsking
<1>2. TopK \in Nat
  BY RetrievalAssumption
<1>3. ASSUME NEW hits \in Seq(Chunks), IsInjective(hits), Len(hits) <= TopK
      PROVE  Len(Filtered(hits, a.scope)) <= TopK
  <2> DEFINE f == Filtered(hits, a.scope)
  <2>1. /\ f \in Seq(Chunks) /\ IsInjective(f)
        /\ Range(f) = {c \in Range(hits) : DocOf[c] \in a.scope}
    BY <1>3, FilteredHits
  <2> HIDE DEF f
  <2>2. Len(f) = Cardinality(Range(f)) /\ Len(f) \in Nat
    BY <2>1, ListContents
  <2>3. /\ IsFiniteSet(Range(hits)) /\ Len(hits) = Cardinality(Range(hits))
        /\ Len(hits) \in Nat
    BY <1>3, ListContents
  <2>4. Range(f) \in SUBSET Range(hits)
    BY <2>1
  <2>5. Cardinality(Range(f)) <= Cardinality(Range(hits))
    BY <2>3, <2>4, FS_Subset
  <2>6. Len(f) <= TopK
    BY <1>2, <1>3, <2>2, <2>3, <2>5
  <2>7. QED
    BY <2>6 DEF f
<1>4. /\ sparse \in Seq(Chunks)
      /\ Range(sparse) = {c \in Range(a.sparse) : DocOf[c] \in a.scope}
      /\ IsInjective(a.sparse) => IsInjective(sparse)
  BY <1>1, FilteredHits
<1>5. /\ dense \in Seq(Chunks) /\ IsInjective(dense)
      /\ Range(dense) = {c \in Range(a.dense) : DocOf[c] \in a.scope}
  BY <1>1, FilteredHits
<1>6. Len(dense) <= TopK /\ (IsInjective(a.sparse) => Len(sparse) <= TopK)
  BY <1>1, <1>3
<1>7. a.mode = "sparse" => Readable(a) = Range(sparse)
  BY <1>4 DEF Readable, Hits
<1>8. a.mode = "dense" => Readable(a) = Range(dense)
  BY <1>5 DEF Readable, Hits
<1>9. a.mode \notin {"sparse", "dense"}
         => Readable(a) = Range(sparse) \cup Range(dense)
  BY <1>4, <1>5 DEF Readable, Hits
<1>10. QED
  BY <1>4, <1>5, <1>6, <1>7, <1>8, <1>9

\* One search, cut to final_k.
LEMMA CutIsSound ==
    ASSUME NEW hits \in Seq(Chunks), NEW k \in Nat \ {0}
    PROVE  LET q == FirstN(hits, k)
           IN  /\ q \in Seq(Chunks) /\ Range(q) \in SUBSET Range(hits)
               /\ IsInjective(hits) =>
                     /\ IsInjective(q)
                     /\ Len(q) = Min({k, Cardinality(Range(hits))})
               /\ q = <<>> => Range(hits) = {}
<1> DEFINE q == FirstN(hits, k)
<1>1. /\ q \in Seq(Chunks) /\ Range(q) \in SUBSET Range(hits)
      /\ Len(q) = IF Len(hits) < k THEN Len(hits) ELSE k
      /\ IsInjective(hits) => IsInjective(q)
  BY FirstOfList
<1>2. /\ Len(hits) \in Nat
      /\ \A x : x \in Range(hits) <=> \E i \in 1..Len(hits) : hits[i] = x
      /\ IsInjective(hits) => Len(hits) = Cardinality(Range(hits))
  BY ListContents
<1> HIDE DEF q
<1>3. ASSUME IsInjective(hits)
      PROVE  Len(q) = Min({k, Cardinality(Range(hits))})
  <2>1. Len(hits) = Cardinality(Range(hits))
    BY <1>2, <1>3
  <2>2. Min({k, Len(hits)}) = IF k <= Len(hits) THEN k ELSE Len(hits)
    BY <1>2, MinOfTwo
  <2>3. Len(q) = Min({k, Len(hits)})
    BY <1>1, <1>2, <2>2
  <2>4. QED
    BY <2>1, <2>3
<1>4. ASSUME q = <<>>
      PROVE  Range(hits) = {}
  <2>1. Len(q) = 0
    BY <1>4
  <2>2. Len(hits) = 0
    BY <1>1, <1>2, <2>1
  <2>3. QED
    BY <1>2, <2>2
<1>5. QED
  BY <1>1, <1>3, <1>4 DEF q

\* A chunk no search puts behind another has at least its score from each
\* search, and more from the one that finds the other.
LEMMA ScoreOfBetter ==
    ASSUME NEW hits \in Seq(Chunks), IsInjective(hits), Len(hits) <= TopK,
           NEW c, NEW d, NoWorse(c, d, hits)
    PROVE  LET v == Scoring(c, hits)[Len(hits)]
               w == Scoring(d, hits)[Len(hits)]
           IN  /\ v \in Nat /\ w \in Nat /\ w <= v
               /\ d \in Range(hits) => w < v
<1> DEFINE v == Scoring(c, hits)[Len(hits)]
           w == Scoring(d, hits)[Len(hits)]
<1>1. v \in Nat /\ w \in Nat
  BY ScoreOfHit
<1>2. CASE d \notin Range(hits)
  <2>1. w = 0
    BY <1>2, ScoreOfHit
  <2> HIDE DEF v, w
  <2>2. QED
    BY <1>1, <1>2, <2>1 DEF v, w
<1>3. CASE d \in Range(hits)
  <2>1. c \in Range(hits) /\ Rank(c, hits) < Rank(d, hits)
    BY <1>3 DEF NoWorse
  <2>2. Rank(c, hits) \in 1..Len(hits) /\ Rank(d, hits) \in 1..Len(hits)
    BY <1>3, <2>1, RankOfHit
  <2>3. Rank(c, hits) \in 1..TopK /\ Rank(d, hits) \in 1..TopK
    <3>1. Len(hits) \in Nat /\ TopK \in Nat
      BY RetrievalAssumption
    <3>2. QED
      BY <2>2, <3>1
  <2>4. Unit \div (RrfK + (Rank(c, hits) - 1))
           > Unit \div (RrfK + (Rank(d, hits) - 1))
    BY <2>1, <2>3, RecipDecreases
  <2>5. v = Unit \div (RrfK + (Rank(c, hits) - 1))
    BY <2>1, ScoreOfHit
  <2>6. w = Unit \div (RrfK + (Rank(d, hits) - 1))
    BY <1>3, ScoreOfHit
  <2>7. w < v
    BY <1>1, <2>4, <2>5, <2>6
  <2> HIDE DEF v, w
  <2>8. QED
    BY <1>1, <2>7 DEF v, w
<1>4. QED
  BY <1>2, <1>3

\* The fusion puts a chunk before one it is nowhere worse than.
LEMMA FusionAgrees ==
    ASSUME NEW sparse \in Seq(Chunks), NEW dense \in Seq(Chunks),
           IsInjective(sparse), IsInjective(dense),
           Len(sparse) <= TopK, Len(dense) <= TopK,
           NEW c \in Range(sparse) \cup Range(dense),
           NEW d \in Range(sparse) \cup Range(dense),
           NoWorse(c, d, sparse), NoWorse(c, d, dense),
           NEW i \in 1..Len(Fused(sparse, dense)),
           NEW j \in 1..Len(Fused(sparse, dense)),
           Fused(sparse, dense)[i] = c, Fused(sparse, dense)[j] = d
    PROVE  i < j
<1> DEFINE all == Range(sparse) \cup Range(dense)
           score == [x \in all |-> RrfScore(x, sparse, dense)]
           q == Fused(sparse, dense)
           v1 == Scoring(c, sparse)[Len(sparse)]
           v2 == Scoring(c, dense)[Len(dense)]
           w1 == Scoring(d, sparse)[Len(sparse)]
           w2 == Scoring(d, dense)[Len(dense)]
<1>1. /\ v1 \in Nat /\ w1 \in Nat /\ w1 <= v1
      /\ d \in Range(sparse) => w1 < v1
  BY ScoreOfBetter
<1>2. /\ v2 \in Nat /\ w2 \in Nat /\ w2 <= v2
      /\ d \in Range(dense) => w2 < v2
  BY ScoreOfBetter
<1>3. score[c] = v1 + v2 /\ score[d] = w1 + w2
  BY DEF RrfScore
<1>4. score[c] > score[d]
  <2>1. w1 < v1 \/ w2 < v2
    BY <1>1, <1>2
  <2> HIDE DEF v1, v2, w1, w2, score
  <2>2. QED
    BY <1>1, <1>2, <1>3, <2>1
<1>5. InOrder(q, all, sparse \o dense, score)
  BY FusedHits
<1>6. score[q[i]] > score[q[j]]
  BY <1>4
<1> HIDE DEF q, score
<1>7. QED
  BY <1>5, <1>6 DEF InOrder, q

\* What the fusion makes of the hits.
LEMMA FusionOfHits ==
    ASSUME NEW sparse \in Seq(Chunks), NEW dense \in Seq(Chunks)
    PROVE  LET q == Fused(sparse, dense)
               all == Range(sparse) \cup Range(dense)
           IN  /\ q \in Seq(Chunks) /\ Range(q) = all /\ IsInjective(q)
               /\ Cardinality(all) \in Nat /\ Len(q) = Cardinality(all)
<1> DEFINE q == Fused(sparse, dense)
           all == Range(sparse) \cup Range(dense)
           score == [x \in all |-> RrfScore(x, sparse, dense)]
<1>1. all \in SUBSET Chunks /\ InOrder(q, all, sparse \o dense, score)
  BY FusedHits
<1>2. /\ q \in Seq(all) /\ Range(q) = all /\ IsInjective(q)
      /\ Cardinality(all) \in Nat /\ Len(q) = Cardinality(all)
  BY <1>1 DEF InOrder
<1>3. q \in Seq(Chunks)
  BY <1>1, <1>2, SeqMonotonic
<1>4. QED
  BY <1>2, <1>3

\* The hybrid mode.
LEMMA HybridIsSound ==
    ASSUME NEW a \in Askings, a.mode = "hybrid"
    PROVE  /\ OnlyReadableHits(a, Retrieve(a))
           /\ FusionKeepsConsensus(a, Retrieve(a))
           /\ SilenceIsJudged(a, Retrieve(a))
<1> DEFINE sparse == Filtered(a.sparse, a.scope)
           dense == Filtered(a.dense, a.scope)
           q == Fused(sparse, dense)
           cut == FirstN(q, RerankCandidates)
           answer == FirstN(cut, a.k)
           n == Cardinality(Readable(a))
<1>1. /\ sparse \in Seq(Chunks) /\ dense \in Seq(Chunks)
      /\ IsInjective(dense) /\ Len(dense) <= TopK
      /\ IsInjective(a.sparse) => IsInjective(sparse) /\ Len(sparse) <= TopK
      /\ Readable(a) = Range(sparse) \cup Range(dense)
  BY ReadableHits
<1>2. a.k \in Nat \ {0} /\ RerankCandidates \in Nat \ {0}
  BY PartsOfAsking, RetrievalAssumption
<1>3. Retrieve(a) = answer
  BY DEF Retrieve
<1> HIDE DEF sparse, dense
<1>4. /\ q \in Seq(Chunks) /\ Range(q) = Readable(a) /\ IsInjective(q)
      /\ n \in Nat /\ Len(q) = n
  BY <1>1, FusionOfHits
<1> HIDE DEF q
<1>5. /\ cut \in Seq(Chunks) /\ IsInjective(cut)
      /\ Len(cut) = IF n < RerankCandidates THEN n ELSE RerankCandidates
      /\ \A i \in 1..Len(cut) : i \in 1..Len(q) /\ cut[i] = q[i]
      /\ Range(cut) \in SUBSET Range(q)
  BY <1>2, <1>4, FirstOfList
<1> HIDE DEF cut
<1>6. /\ answer \in Seq(Chunks) /\ IsInjective(answer)
      /\ Len(answer) = IF Len(cut) < a.k THEN Len(cut) ELSE a.k
      /\ \A i \in 1..Len(answer) : i \in 1..Len(cut) /\ answer[i] = cut[i]
      /\ Range(answer) \in SUBSET Range(cut)
  BY <1>2, <1>5, FirstOfList
<1> HIDE DEF answer, n
<1>7. OnlyReadableHits(a, answer)
  <2>1. Range(answer) \in SUBSET Readable(a)
    BY <1>4, <1>5, <1>6
  <2>2. Len(answer) = Min({a.k, n} \cup {RerankCandidates})
    BY <1>2, <1>4, <1>5, <1>6, MinOfThree, SMTT(30)
  <2>3. QED
    BY <1>6, <2>1, <2>2 DEF OnlyReadableHits, n
<1>8. FusionKeepsConsensus(a, answer)
  <2>1. SUFFICES ASSUME IsInjective(a.sparse),
                        NEW d \in Range(answer), NEW c \in Readable(a),
                        NoWorse(c, d, sparse), NoWorse(c, d, dense)
                 PROVE  /\ c \in Range(answer)
                        /\ Rank(c, answer) < Rank(d, answer)
    BY DEF FusionKeepsConsensus, sparse, dense
  <2>2. PICK j \in 1..Len(answer) : answer[j] = d
    BY <1>6, ListContents
  <2>3. PICK i \in 1..Len(q) : q[i] = c
    BY <1>4, ListContents
  <2>4. j \in 1..Len(q) /\ q[j] = d
    BY <1>5, <1>6, <2>2
  <2>5. d \in Readable(a)
    BY <1>4, <1>5, <1>6
  <2>6. i < j
    BY <1>1, <2>1, <2>3, <2>4, <2>5, FusionAgrees DEF q
  <2>7. i \in 1..Len(answer)
    BY <1>6, <2>6
  <2>8. answer[i] = c
    BY <1>5, <1>6, <2>3, <2>7
  <2>9. answer[i] \in Range(answer) /\ Rank(answer[i], answer) = i
    BY <1>6, <2>7, RankIsPlace
  <2>10. Rank(answer[j], answer) = j
    BY <1>6, <2>2, RankIsPlace
  <2>11. QED
    BY <2>2, <2>6, <2>8, <2>9, <2>10
<1>9. SilenceIsJudged(a, answer)
  <2>1. SUFFICES ASSUME answer = <<>>
                 PROVE  Readable(a) = {}
    BY DEF SilenceIsJudged
  <2>2. Len(answer) = 0
    BY <2>1
  <2>3. Len(q) = 0
    BY <1>2, <1>4, <1>5, <1>6, <2>2
  <2>4. \A x : x \in Range(q) <=> \E i \in 1..Len(q) : q[i] = x
    BY <1>4, ListContents
  <2>5. QED
    BY <1>4, <2>3, <2>4
<1>10. QED
  BY <1>3, <1>7, <1>8, <1>9

\* The modes with one search.
LEMMA OneSearchIsSound ==
    ASSUME NEW a \in Askings, a.mode \in {"sparse", "dense"}
    PROVE  /\ OnlyReadableHits(a, Retrieve(a))
           /\ SilenceIsJudged(a, Retrieve(a))
<1> DEFINE hits == IF a.mode = "sparse" THEN Filtered(a.sparse, a.scope)
                   ELSE Filtered(a.dense, a.scope)
           answer == FirstN(hits, a.k)
<1>1. Retrieve(a) = answer
  BY DEF Retrieve
<1>2. /\ hits \in Seq(Chunks) /\ Readable(a) = Range(hits)
      /\ IsInjective(hits) \/ (a.mode = "sparse" /\ ~IsInjective(a.sparse))
  BY ReadableHits
<1>3. a.k \in Nat \ {0}
  BY PartsOfAsking
<1> HIDE DEF hits
<1>4. /\ Range(answer) \in SUBSET Range(hits)
      /\ IsInjective(hits) =>
            /\ IsInjective(answer)
            /\ Len(answer) = Min({a.k, Cardinality(Range(hits))})
      /\ answer = <<>> => Range(hits) = {}
  BY <1>2, <1>3, CutIsSound
<1> HIDE DEF answer
<1>5. {a.k, Cardinality(Readable(a))} \cup {} =
         {a.k, Cardinality(Readable(a))}
  OBVIOUS
<1>6. OnlyReadableHits(a, answer)
  BY <1>2, <1>4, <1>5 DEF OnlyReadableHits
<1>7. SilenceIsJudged(a, answer)
  BY <1>2, <1>4 DEF SilenceIsJudged
<1>8. QED
  BY <1>1, <1>6, <1>7

\* What compares equally in halves compares equally whole.
LEMMA HalvesCompare ==
    ASSUME NEW x \in Int, NEW y \in Int, NEW h \in Nat \ {0}
    PROVE  /\ x * h \in Int /\ y * h \in Int
           /\ x * h <= y * h => x <= y
           /\ x * h < y * h => x < y
<1>1. x * h \in Int /\ y * h \in Int
  OBVIOUS
<1>2. ASSUME x > y
      PROVE  x * h > y * h
  <2>1. x - y >= 1 /\ x - y \in Nat
    BY <1>2
  <2>2. (x - y) * h >= 1
    BY <2>1
  <2>3. (x - y) * h = x * h - y * h
    OBVIOUS
  <2>4. QED
    BY <1>1, <2>2, <2>3
<1>3. ASSUME x >= y
      PROVE  x * h >= y * h
  BY <1>1, <1>2, <1>3
<1>4. QED
  BY <1>1, <1>2, <1>3

\* What becomes of m candidates, the chunks S with these scores.
Piped(a, S, m, score, answer) ==
    \/ answer = <<>> /\ S = {}
    \/ answer = <<>> /\ S # {} /\ \A c \in S : Gate(score[c])
    \/ /\ answer \in Seq(Chunks) /\ answer # <<>>
       /\ Range(answer) \in SUBSET S /\ IsInjective(answer)
       /\ Len(answer) = IF m <= a.k THEN m ELSE a.k
       /\ Diverse(answer, S, score)

\* The scores of candidates, judged by the cross-encoder or not.
ScoredAs(a, S, judged, score, sparse, dense) ==
    \A c \in S : score[c] = IF judged THEN a.logit[c] * (Unit \div 2)
                            ELSE RrfScore(c, sparse, dense)

\* The full pipeline: what it sends to the cross-encoder, in the order of its
\* judgement, and what _mmr takes from it.
LEMMA PipelineOfHits ==
    ASSUME NEW a \in Askings,
           NEW sparse \in Seq(Chunks), NEW dense \in Seq(Chunks)
    PROVE  LET all == Range(sparse) \cup Range(dense)
               n == Cardinality(all)
               m == IF n < RerankCandidates THEN n ELSE RerankCandidates
               S == Range(FirstN(Fused(sparse, dense), RerankCandidates))
           IN  /\ n \in Nat
               /\ S \in SUBSET all /\ Cardinality(S) = m
               /\ n <= RerankCandidates => S = all
               /\ \E score :
                    /\ ScoredAs(a, S, a.logit # <<>> /\ m > 1, score,
                                sparse, dense)
                    /\ Piped(a, S, m, score, FullPipeline(a, sparse, dense))
<1> DEFINE all == Range(sparse) \cup Range(dense)
           n == Cardinality(all)
           m == IF n < RerankCandidates THEN n ELSE RerankCandidates
           answer == FullPipeline(a, sparse, dense)
           q == Fused(sparse, dense)
           cut == FirstN(q, RerankCandidates)
           first == a.logit # <<>> /\ m > 1
           score == [c \in Range(cut) |->
                       IF Reranked(a, cut) THEN a.logit[c] * (Unit \div 2)
                       ELSE RrfScore(c, sparse, dense)]
           ordered == SortedDown(cut, score)
           S == Range(cut)
<1>1. /\ a.k \in Nat \ {0} /\ RerankCandidates \in Nat \ {0}
      /\ Unit \in Nat /\ Unit \div 2 \in Nat
      /\ a.logit # <<>> => a.logit \in [Chunks -> Int]
  BY PartsOfAsking, RetrievalAssumption
<1>2. /\ q \in Seq(Chunks) /\ Range(q) = all /\ IsInjective(q)
      /\ n \in Nat /\ Len(q) = n
  BY FusionOfHits
<1>3. \A c : RrfScore(c, sparse, dense) \in Nat
  BY FusedHits
<1>4. answer = IF cut = <<>> \/ Gate(score[ordered[1]]) THEN <<>>
               ELSE Mmr(ordered, a.k, score)
  BY DEF FullPipeline
<1> HIDE DEF q, answer
<1>5. /\ cut \in Seq(Chunks) /\ IsInjective(cut) /\ Len(cut) = m
      /\ S \in SUBSET all /\ (n <= RerankCandidates => S = all)
  <2>1. RerankCandidates \in Nat
    BY <1>1
  <2>2. /\ cut \in Seq(Chunks) /\ (IsInjective(q) => IsInjective(cut))
        /\ Len(cut) =
              IF Len(q) < RerankCandidates THEN Len(q) ELSE RerankCandidates
        /\ S \in SUBSET Range(q)
        /\ Len(q) <= RerankCandidates => S = Range(q)
    BY <1>2, <2>1, FirstOfList
  <2> HIDE DEF S, cut
  <2>3. QED
    BY <1>2, <2>2
<1>6. /\ S \in SUBSET Chunks /\ Cardinality(S) = m
      /\ \A x : x \in S <=> \E i \in 1..Len(cut) : cut[i] = x
  BY <1>5, ListContents
<1>7. m \in Nat /\ (cut = <<>> <=> m = 0)
  BY <1>1, <1>2, <1>5, EmptySeq
<1>8. first <=> Reranked(a, cut)
  BY <1>5 DEF Reranked
<1> HIDE DEF first
<1>9. \A c \in S : score[c] = IF first THEN a.logit[c] * (Unit \div 2)
                              ELSE RrfScore(c, sparse, dense)
  BY <1>8
<1>10. \A c \in S : score[c] \in Int
  <2>1. SUFFICES ASSUME NEW c \in S
                 PROVE  score[c] \in Int
    OBVIOUS
  <2>2. CASE first
    <3>1. a.logit[c] \in Int
      BY <1>1, <1>6, <2>2 DEF first
    <3>2. score[c] = a.logit[c] * (Unit \div 2)
      BY <1>9, <2>2
    <3> HIDE DEF score
    <3>3. QED
      BY <1>1, <3>1, <3>2
  <2>3. CASE ~first
    <3>1. score[c] = RrfScore(c, sparse, dense)
      BY <1>9, <2>3
    <3> HIDE DEF score
    <3>2. QED
      BY <1>3, <3>1
  <2>4. QED
    BY <2>2, <2>3
<1>11. ordered = Sorted(S, Better(S, cut, score))
  BY DEF SortedDown
<1> HIDE DEF score, ordered, cut, S
<1>12. InOrder(ordered, S, cut, score)
  <2>1. S \in SUBSET Range(cut)
    BY DEF S
  <2>2. QED
    BY <1>5, <1>10, <1>11, <2>1, SortedByScore
<1>13. /\ ordered \in Seq(S) /\ Range(ordered) = S /\ IsInjective(ordered)
       /\ Len(ordered) = m
  BY <1>6, <1>12 DEF InOrder
<1>14. ordered \in Seq(Chunks)
  BY <1>6, <1>13, SeqMonotonic
<1>15. S # {} => /\ ordered[1] \in S
                 /\ \A c \in S : score[c] <= score[ordered[1]]
  BY <1>10, <1>12, FirstIsBest
<1> HIDE DEF all, n, m
<1>16. ASSUME m = 0
      PROVE  Piped(a, S, m, score, answer)
  <2>1. answer = <<>>
    BY <1>4, <1>7, <1>16
  <2>2. S = {}
    BY <1>5, <1>6, <1>16
  <2>3. QED
    BY <2>1, <2>2 DEF Piped
<1>17. ASSUME m # 0
      PROVE  Piped(a, S, m, score, answer)
  <2>1. S # {}
    <3>1. 1 \in 1..Len(cut)
      BY <1>5, <1>7, <1>17
    <3>2. QED
      BY <1>6, <3>1
  <2>2. CASE Gate(score[ordered[1]])
    <3>1. answer = <<>>
      BY <1>4, <2>2
    <3>2. ASSUME NEW c \in S
          PROVE  Gate(score[c])
      <4>1. /\ score[c] \in Int /\ score[ordered[1]] \in Int
            /\ score[c] <= score[ordered[1]]
        BY <1>10, <1>15, <2>1
      <4> DEFINE bound == Confident * (Unit \div 2)
      <4>2. bound \in Int /\ score[ordered[1]] < bound
        BY <1>1, <2>2, RetrievalAssumption DEF Gate
      <4> HIDE DEF bound
      <4>3. score[c] < bound
        BY <4>1, <4>2
      <4>4. QED
        BY <4>3 DEF Gate, bound
    <3>3. QED
      BY <2>1, <3>1, <3>2 DEF Piped
  <2>3. CASE ~Gate(score[ordered[1]])
    <3> DEFINE picked == Mmr(ordered, a.k, score)
    <3>1. answer = picked
      BY <1>4, <1>7, <1>17, <2>3
    <3>2. /\ picked \in Seq(Chunks) /\ Range(picked) \in SUBSET S
          /\ IsInjective(picked)
          /\ Len(picked) = IF m <= a.k THEN m ELSE a.k
          /\ Diverse(picked, S, score)
      <4>1. \A c \in Range(ordered) : score[c] \in Int
        BY <1>10, <1>13
      <4>2. ordered # <<>> => \A c \in Range(ordered) :
                                 score[c] <= score[ordered[1]]
        BY <1>13, <1>15, <2>1
      <4>3. /\ picked \in Seq(Chunks) /\ Range(picked) \in SUBSET Range(ordered)
            /\ IsInjective(picked)
            /\ Len(picked) = IF Len(ordered) <= a.k THEN Len(ordered) ELSE a.k
            /\ Diverse(picked, Range(ordered), score)
        BY <1>1, <1>13, <1>14, <4>1, <4>2, MmrIsDiverse
      <4> HIDE DEF picked
      <4>4. QED
        BY <1>13, <4>3
    <3> HIDE DEF picked
    <3>3. picked # <<>>
      BY <1>1, <1>7, <1>17, <3>2
    <3>4. QED
      BY <3>1, <3>2, <3>3 DEF Piped
  <2>4. QED
    BY <2>2, <2>3
<1>18. Piped(a, S, m, score, answer)
  BY <1>16, <1>17
<1>19. ScoredAs(a, S, first, score, sparse, dense)
  BY <1>9 DEF ScoredAs
<1> HIDE DEF score
<1>20. \E s : /\ ScoredAs(a, S, first, s, sparse, dense)
              /\ Piped(a, S, m, s, answer)
  BY <1>18, <1>19
<1>21. QED
  BY <1>2, <1>5, <1>6, <1>20 DEF all, n, m, answer, first, S, cut, q

\* The full pipeline, when a reciprocal rank passes the threshold.
LEMMA PipelineIsSound ==
    ASSUME NEW a \in Askings, a.mode = "hybrid+rerank", Confident <= 0
    PROVE  /\ OnlyReadableHits(a, Retrieve(a))
           /\ DiversityCostsOnlyOverlap(a, Retrieve(a))
           /\ SilenceIsJudged(a, Retrieve(a))
<1> DEFINE sparse == Filtered(a.sparse, a.scope)
           dense == Filtered(a.dense, a.scope)
           answer == FullPipeline(a, sparse, dense)
           all == Readable(a)
           n == Cardinality(all)
           m == IF n < RerankCandidates THEN n ELSE RerankCandidates
           h == Unit \div 2
           judged == a.logit # <<>> /\ m > 1
           S == Judged(a)
<1>1. /\ sparse \in Seq(Chunks) /\ dense \in Seq(Chunks)
      /\ all = Range(sparse) \cup Range(dense)
  BY ReadableHits
<1>2. /\ a.k \in Nat \ {0} /\ RerankCandidates \in Nat \ {0}
      /\ a.logit # <<>> => a.logit \in [Chunks -> Int]
  BY PartsOfAsking, RetrievalAssumption
<1>3. h \in Nat \ {0} /\ Confident \in Int
  <2>1. Unit \in Nat \ {0} /\ Unit % 2 = 0 /\ Confident \in Int
    BY RetrievalAssumption
  <2>2. QED
    BY <2>1
<1>4. Retrieve(a) = answer
  BY DEF Retrieve
<1>5. \A c : RrfScore(c, sparse, dense) \in Nat
  BY <1>1, FusedHits
<1>6. all \in SUBSET Chunks
  BY <1>1, FusedHits
<1> HIDE DEF sparse, dense
<1> DEFINE T == Range(FirstN(Fused(sparse, dense), RerankCandidates))
<1>7. /\ n \in Nat
      /\ S \in SUBSET all /\ Cardinality(S) = m
      /\ n <= RerankCandidates => S = all
      /\ \E score : /\ ScoredAs(a, S, judged, score, sparse, dense)
                    /\ Piped(a, S, m, score, answer)
  <2>1. S = T
    BY DEF Judged, sparse, dense
  <2>2. /\ n \in Nat
        /\ T \in SUBSET all /\ Cardinality(T) = m
        /\ n <= RerankCandidates => T = all
        /\ \E score : /\ ScoredAs(a, T, judged, score, sparse, dense)
                      /\ Piped(a, T, m, score, answer)
    BY <1>1, PipelineOfHits, ZenonT(60)
  <2> HIDE DEF S, T, answer, all, n, h, judged
  <2>3. QED
    BY <2>1, <2>2
<1> HIDE DEF answer, all, n, h, judged, S, T
<1>8. PICK score : /\ ScoredAs(a, S, judged, score, sparse, dense)
                   /\ Piped(a, S, m, score, answer)
  BY <1>7
<1>9. m \in Nat /\ (judged <=> a.logit # <<>> /\ m > 1)
  BY <1>2, <1>7 DEF judged
<1>10. ASSUME judged, NEW c \in S
       PROVE  a.logit[c] \in Int /\ score[c] = a.logit[c] * h
  <2>1. a.logit \in [Chunks -> Int] /\ c \in Chunks
    BY <1>2, <1>6, <1>7, <1>9, <1>10
  <2>2. score[c] = a.logit[c] * h
    BY <1>8, <1>10 DEF ScoredAs, h
  <2>3. QED
    BY <2>1, <2>2
<1>11. ASSUME answer # <<>>
       PROVE  /\ answer \in Seq(Chunks)
              /\ Range(answer) \in SUBSET S /\ IsInjective(answer)
              /\ Len(answer) = IF m <= a.k THEN m ELSE a.k
              /\ Diverse(answer, S, score)
  BY <1>8, <1>11 DEF Piped
<1>12. OnlyReadableHits(a, answer)
  <2>1. CASE answer = <<>>
    <3>1. Range(answer) = {} /\ IsInjective(answer)
      BY <2>1 DEF Range, IsInjective
    <3>2. QED
      BY <2>1, <3>1 DEF OnlyReadableHits
  <2>2. CASE answer # <<>>
    <3>1. Range(answer) \in SUBSET all
      BY <1>7, <1>11, <2>2
    <3> DEFINE least == Min({a.k, n} \cup {RerankCandidates})
    <3>2. least = IF a.k <= n
                  THEN IF a.k <= RerankCandidates THEN a.k
                                                  ELSE RerankCandidates
                  ELSE IF n <= RerankCandidates THEN n ELSE RerankCandidates
      <4>1. a.k \in Nat /\ n \in Nat /\ RerankCandidates \in Nat
        BY <1>2, <1>7
      <4>2. QED
        BY <4>1, MinOfThree
    <3>3. a.mode \notin {"sparse", "dense"}
      OBVIOUS
    <3> HIDE DEF least
    <3>4. least = IF m <= a.k THEN m ELSE a.k
      BY <1>2, <1>7, <3>2
    <3> HIDE DEF m
    <3>5. Len(answer) = least
      BY <1>11, <2>2, <3>4
    <3>6. least = Min({a.k, Cardinality(Readable(a))} \cup
                      IF a.mode \in {"sparse", "dense"}
                      THEN {} ELSE {RerankCandidates})
      BY <3>3 DEF least, n, all
    <3> HIDE DEF least
    <3>7. Range(answer) \subseteq Readable(a) /\ IsInjective(answer)
      BY <1>11, <2>2, <3>1 DEF all
    <3>8. QED
      BY <3>5, <3>6, <3>7 DEF OnlyReadableHits
  <2>3. QED
    BY <2>1, <2>2
<1>13. DiversityCostsOnlyOverlap(a, answer)
  <2>1. SUFFICES ASSUME answer # <<>>, IsJudged(a), NEW c \in S
                 PROVE  /\ a.logit[c] <= a.logit[answer[1]]
                        /\ \/ c \in Range(answer)
                           \/ \A i \in 1..Len(answer) :
                                \/ a.logit[c] <= a.logit[answer[i]]
                                \/ \E k \in 1..i - 1 :
                                    (a.logit[c] - a.logit[answer[i]]) * h
                                       <= Similarity(c, answer[k])
    <3>1. answer # <<>> => DOMAIN answer = 1..Len(answer)
      BY <1>11
    <3>2. QED
      BY <3>1 DEF DiversityCostsOnlyOverlap, S, h
  <2>2. judged
    BY <1>7, <1>9, <2>1 DEF IsJudged, S
  <2>3. /\ \A x \in S : score[x] <= score[answer[1]]
        /\ \A i \in 1..Len(answer), x \in S :
              \/ x \in Range(answer) \/ score[x] <= score[answer[i]]
              \/ \E k \in 1..i - 1 :
                    score[x] - score[answer[i]] <= Similarity(x, answer[k])
        /\ Range(answer) \in SUBSET S /\ answer \in Seq(Chunks)
    BY <1>11, <2>1 DEF Diverse
  <2>4. \A i \in 1..Len(answer) : answer[i] \in S
    BY <2>3, ListContents
  <2>5. 1 \in 1..Len(answer)
    <3>1. Len(answer) # 0 /\ Len(answer) \in Nat
      BY <2>1, <2>3, EmptySeq
    <3>2. QED
      BY <3>1
  <2>6. ASSUME NEW d \in S
        PROVE  /\ score[c] <= score[d] => a.logit[c] <= a.logit[d]
               /\ score[c] - score[d] = (a.logit[c] - a.logit[d]) * h
    <3>1. /\ a.logit[c] \in Int /\ score[c] = a.logit[c] * h
          /\ a.logit[d] \in Int /\ score[d] = a.logit[d] * h
      BY <1>10, <2>2
    <3>2. a.logit[c] * h <= a.logit[d] * h => a.logit[c] <= a.logit[d]
      BY <1>3, <3>1, HalvesCompare
    <3>3. (a.logit[c] - a.logit[d]) * h = a.logit[c] * h - a.logit[d] * h
      BY <1>3, <3>1
    <3>4. QED
      BY <3>1, <3>2, <3>3
  <2>7. a.logit[c] <= a.logit[answer[1]]
    BY <2>3, <2>4, <2>5, <2>6
  <2>8. ASSUME c \notin Range(answer), NEW i \in 1..Len(answer)
        PROVE  \/ a.logit[c] <= a.logit[answer[i]]
               \/ \E k \in 1..i - 1 :
                     (a.logit[c] - a.logit[answer[i]]) * h
                        <= Similarity(c, answer[k])
    <3>1. /\ score[c] <= score[answer[i]] => a.logit[c] <= a.logit[answer[i]]
          /\ score[c] - score[answer[i]]
                = (a.logit[c] - a.logit[answer[i]]) * h
      BY <2>4, <2>6
    <3>2. \/ score[c] <= score[answer[i]]
          \/ \E k \in 1..i - 1 :
                score[c] - score[answer[i]] <= Similarity(c, answer[k])
      BY <2>3, <2>8
    <3>3. QED
      BY <3>1, <3>2
  <2>9. QED
    BY <2>7, <2>8
<1>14. SilenceIsJudged(a, answer)
  <2>1. SUFFICES ASSUME answer = <<>>
                 PROVE  \/ all = {}
                        \/ IsJudged(a) /\ \A c \in S : a.logit[c] < Confident
    BY DEF SilenceIsJudged, all, S
  <2>2. CASE S = {}
    <3>1. Cardinality(S) = 0
      BY <2>2, FS_EmptySet
    <3>2. CASE n <= RerankCandidates
      BY <1>7, <2>2, <3>2
    <3>3. CASE ~(n <= RerankCandidates)
      <4>1. m = RerankCandidates
        BY <1>2, <1>7, <3>3
      <4>2. QED
        BY <1>2, <1>7, <3>1, <4>1
    <3>4. QED
      BY <3>2, <3>3
  <2>3. CASE S # {} /\ \A c \in S : Gate(score[c])
    <3>1. \A c \in S : score[c] < Confident * h
      BY <2>3 DEF Gate, h
    <3>2. CASE judged
      <4>1. ASSUME NEW c \in S
            PROVE  a.logit[c] < Confident
        <5>1. a.logit[c] \in Int /\ a.logit[c] * h < Confident * h
          BY <1>10, <3>1, <3>2
        <5>2. QED
          BY <1>3, <5>1, HalvesCompare
      <4>2. IsJudged(a)
        BY <1>7, <1>9, <3>2 DEF IsJudged, S
      <4>3. QED
        BY <4>1, <4>2
    <3>3. CASE ~judged
      <4>1. PICK c \in S : TRUE
        BY <2>3
      <4>2. score[c] = RrfScore(c, sparse, dense)
        BY <1>8, <3>3 DEF ScoredAs
      <4>3. score[c] \in Nat /\ score[c] < Confident * h
        BY <1>5, <3>1, <4>2
      <4>4. Confident * h <= 0
        BY <1>3
      <4>5. Confident * h \in Int
        BY <1>3
      <4>6. QED
        BY <4>3, <4>4, <4>5
    <3>4. QED
      BY <3>2, <3>3
  <2>4. QED
    BY <1>8, <2>1, <2>2, <2>3 DEF Piped
<1>15. QED
  BY <1>4, <1>12, <1>13, <1>14

\* The answer remembered is that of the asking remembered.
RetrievalKept == asking # <<>> => asking \in Askings /\ found = Retrieve(asking)

\* Answers keep what retrieve promises, in each of its modes.
LEMMA AnswerIsSound ==
    ASSUME RetrievalKept, Confident <= 0
    PROVE  RetrievalIsSound
<1>1. SUFFICES ASSUME asking # <<>>
               PROVE  /\ OnlyReadableHits(asking, found)
                      /\ FusionKeepsConsensus(asking, found)
                      /\ DiversityCostsOnlyOverlap(asking, found)
                      /\ SilenceIsJudged(asking, found)
  BY DEF RetrievalIsSound
<1>2. asking \in Askings /\ found = Retrieve(asking)
  BY <1>1 DEF RetrievalKept
<1>3. asking.mode \in Modes
  BY <1>2, PartsOfAsking
<1>4. asking.mode # "hybrid" => FusionKeepsConsensus(asking, found)
  BY DEF FusionKeepsConsensus
<1>5. asking.mode # "hybrid+rerank" => DiversityCostsOnlyOverlap(asking, found)
  BY DEF DiversityCostsOnlyOverlap, IsJudged
<1>6. CASE asking.mode \in {"sparse", "dense"}
  BY <1>2, <1>4, <1>5, <1>6, OneSearchIsSound
<1>7. CASE asking.mode = "hybrid"
  BY <1>2, <1>5, <1>7, HybridIsSound
<1>8. CASE asking.mode = "hybrid+rerank"
  BY <1>2, <1>4, <1>8, PipelineIsSound
<1>9. QED
  BY <1>3, <1>6, <1>7, <1>8 DEF Modes

\* What retrieve returns keeps its promises, whatever the two searches find, the
\* caller may read and the cross-encoder says, as long as the threshold is not
\* above zero: it is -2.0 unless the environment sets another.  Above zero, the
\* failure of the cross-encoder alone would empty the answers.
THEOREM RetrievalSound ==
    ASSUME Confident <= 0
    PROVE  RetrievalSpec => []RetrievalIsSound
<1>1. RetrievalInit => RetrievalKept
  BY DEF RetrievalInit, RetrievalKept
<1>2. RetrievalKept /\ [AskForChunks]_retrievalVars => RetrievalKept'
  BY DEF RetrievalKept, AskForChunks, retrievalVars
<1>3. RetrievalKept => RetrievalIsSound
  BY AnswerIsSound
<1>4. QED
  BY <1>1, <1>2, <1>3, PTL DEF RetrievalSpec


-----------------------------------------------------------------------------
(* Evaluation: any files, any ranking, any relevant files and cut-off.       *)

\* The order of neighbours is the order of all.
LEMMA StepwiseOrder ==
    ASSUME NEW M \in Nat, NEW N \in Nat, NEW R,
           \A n \in M..N - 1 : <<n, n + 1>> \in R,
           \A i, j, k \in M..N :
              <<i, j>> \in R /\ <<j, k>> \in R => <<i, k>> \in R
    PROVE  \A i, j \in M..N : i < j => <<i, j>> \in R
<1>1. SUFFICES ASSUME NEW i \in M..N
               PROVE  \A j \in M..N : i < j => <<i, j>> \in R
  OBVIOUS
<1> DEFINE D == {n \in 0..N : i < n => <<i, n>> \in R}
<1>2. 0 \in D
  OBVIOUS
<1>3. ASSUME NEW n \in 0..N, n \in D, n < N
      PROVE  n + 1 \in D
  <2>1. n + 1 \in 0..N /\ n \in Nat
    BY <1>3
  <2>2. CASE n < i
    BY <2>1, <2>2
  <2>3. CASE n = i
    <3>1. n \in M..N - 1
      BY <1>3, <2>3
    <3>2. QED
      BY <2>1, <2>3, <3>1
  <2>4. CASE n > i
    <3>1. n \in M..N - 1 /\ n \in M..N /\ n + 1 \in M..N
      BY <1>3, <2>4
    <3>2. <<i, n>> \in R
      BY <1>3, <2>4
    <3>3. <<n, n + 1>> \in R
      BY <3>1
    <3>4. <<i, n + 1>> \in R
      BY <3>1, <3>2, <3>3
    <3>5. QED
      BY <2>1, <3>4
  <2>5. QED
    BY <2>1, <2>2, <2>3, <2>4
<1> HIDE DEF D
<1>4. \A n \in 0..N : n \in D
  BY <1>2, <1>3, TurnByTurn
<1>5. QED
  BY <1>4 DEF D

\* Less than a whole is a fraction; the more, the greater.
LEMMA SharesAreFractions ==
    ASSUME NEW n \in Nat, NEW d \in Nat, n <= d
    PROVE  /\ Share(n, d) \in 0..Whole
           /\ d # 0 => (Share(n, d) = Whole <=> n = d)
           /\ \A m \in 0..n : Share(m, d) <= Share(n, d)
<1>1. Whole \in Nat \ {0}
  BY MetricsAssumption
<1>2. CASE d = 0
  BY <1>1, <1>2 DEF Share
<1>3. CASE d # 0
  <2> DEFINE x == Whole * n
             q == x \div d
             w == Whole
  <2>1. Share(n, d) = q
    BY <1>3 DEF Share
  <2>2. x \in Nat /\ x <= w * d
    BY <1>1
  <2> HIDE DEF x
  <2>3. q \in Nat /\ d * q <= x /\ x < d * (q + 1)
    BY <1>3, <2>2
  <2> HIDE DEF q, w
  <2>4. w \in Nat \ {0}
    BY <1>1 DEF w
  <2>5. q <= w
    <3>1. SUFFICES ASSUME q >= w + 1
                   PROVE  FALSE
      BY <2>3, <2>4
    <3>2. d * (w + 1) <= d * q
      BY <1>3, <2>3, <2>4, <3>1
    <3>3. d * (w + 1) > w * d
      BY <1>3, <2>4
    <3>4. d * q \in Nat /\ d * (w + 1) \in Nat /\ w * d \in Nat
      BY <2>3, <2>4
    <3>5. QED
      BY <2>2, <2>3, <3>2, <3>3, <3>4
  <2>6. ASSUME q = w
        PROVE  n = d
    <3>1. d * w <= w * n
      BY <2>3, <2>6 DEF x, w
    <3>2. ~(n < d)
      <4>1. SUFFICES ASSUME n < d
                     PROVE  FALSE
        OBVIOUS
      <4>2. w * n < d * w
        BY <2>4, <4>1
      <4>3. w * n \in Nat /\ d * w \in Nat
        BY <2>4
      <4>4. QED
        BY <3>1, <4>2, <4>3
    <3>3. QED
      BY <3>2
  <2>7. ASSUME n = d
        PROVE  q = w
    <3>1. x = w * d
      BY <2>7 DEF x, w
    <3>2. ~(q < w)
      <4>1. SUFFICES ASSUME q + 1 <= w
                     PROVE  FALSE
        BY <2>3, <2>4
      <4>2. d * (q + 1) <= w * d
        BY <2>3, <2>4, <4>1
      <4>3. d * (q + 1) \in Nat /\ w * d \in Nat
        BY <2>3, <2>4
      <4>4. QED
        BY <2>3, <3>1, <4>2, <4>3
    <3>3. QED
      BY <2>3, <2>4, <2>5, <3>2
  <2>8. ASSUME NEW m \in 0..n
        PROVE  Share(m, d) <= q
    <3> DEFINE y == Whole * m
               p == y \div d
    <3>1. Share(m, d) = p
      BY <1>3 DEF Share
    <3>2. y \in Nat /\ y <= x
      BY <1>1 DEF x
    <3> HIDE DEF y
    <3>3. p \in Nat /\ d * p <= y
      BY <1>3, <3>2
    <3> HIDE DEF p
    <3>4. p <= q
      <4>1. SUFFICES ASSUME p >= q + 1
                     PROVE  FALSE
        BY <2>3, <3>3
      <4>2. d * (q + 1) <= d * p
        BY <1>3, <2>3, <3>3, <4>1
      <4>3. d * (q + 1) \in Nat /\ d * p \in Nat
        BY <2>3, <3>3
      <4>4. QED
        BY <2>2, <2>3, <3>2, <3>3, <4>2, <4>3
    <3>5. QED
      BY <3>1, <3>4
  <2>9. QED
    BY <1>3, <2>1, <2>3, <2>4, <2>5, <2>6, <2>7, <2>8 DEF w
<1>4. QED
  BY <1>2, <1>3

\* The ranks up to n.
UpTo(ranks, n) == {i \in ranks : i <= n}

\* How many ranks there are up to n.
LEMMA RanksCounted ==
    ASSUME NEW N \in Nat, NEW ranks \in SUBSET (1..N)
    PROVE  /\ IsFiniteSet(ranks) /\ Cardinality(ranks) \in Nat
           /\ Cardinality(UpTo(ranks, 0)) = 0
           /\ UpTo(ranks, N) = ranks
           /\ \A n \in 0..N : /\ Cardinality(UpTo(ranks, n)) \in 0..n
                              /\ Cardinality(UpTo(ranks, n)) = n
                                 => UpTo(ranks, n) = 1..n
           /\ \A n \in 1..N : Cardinality(UpTo(ranks, n)) =
                 Cardinality(UpTo(ranks, n - 1)) + IF n \in ranks THEN 1 ELSE 0
<1>1. IsFiniteSet(1..N)
  BY FS_Interval
<1>2. IsFiniteSet(ranks) /\ Cardinality(ranks) \in Nat
  BY <1>1, FS_Subset, FS_CardinalityType
<1>3. ASSUME NEW n \in 0..N, NEW i
      PROVE  i \in UpTo(ranks, n) <=> i \in ranks /\ i \in 1..N /\ i <= n
  BY DEF UpTo
<1>4. \A i \in ranks : i \in 1..N /\ i \in Nat /\ i >= 1
  OBVIOUS
<1>5. Cardinality(UpTo(ranks, 0)) = 0
  <2>1. UpTo(ranks, 0) = {}
    <3>1. 0 \in 0..N /\ \A i \in 1..N : ~(i <= 0)
      OBVIOUS
    <3>2. QED
      BY <1>3, <3>1
  <2>2. QED
    BY <2>1, FS_EmptySet
<1>6. UpTo(ranks, N) = ranks
  <2>1. N \in 0..N /\ \A i \in 1..N : i <= N
    OBVIOUS
  <2>2. QED
    BY <1>3, <1>4, <2>1
<1>7. ASSUME NEW n \in 0..N
      PROVE  /\ IsFiniteSet(UpTo(ranks, n))
             /\ Cardinality(UpTo(ranks, n)) \in 0..n
             /\ Cardinality(UpTo(ranks, n)) = n => UpTo(ranks, n) = 1..n
  <2>1. UpTo(ranks, n) \in SUBSET (1..n)
    <3>1. \A i \in 1..N : i <= n => i \in 1..n
      OBVIOUS
    <3>2. QED
      BY <1>3, <3>1
  <2>2. n \in Nat /\ IsFiniteSet(1..n) /\ Cardinality(1..n) = n
    BY FS_Interval
  <2>3. /\ IsFiniteSet(UpTo(ranks, n)) /\ Cardinality(UpTo(ranks, n)) <= n
        /\ Cardinality(UpTo(ranks, n)) = n => UpTo(ranks, n) = 1..n
    BY <2>1, <2>2, FS_Subset
  <2>4. Cardinality(UpTo(ranks, n)) \in Nat
    BY <2>3, FS_CardinalityType
  <2>5. QED
    BY <2>2, <2>3, <2>4
<1>8. ASSUME NEW n \in 1..N
      PROVE  Cardinality(UpTo(ranks, n)) =
                Cardinality(UpTo(ranks, n - 1)) + IF n \in ranks THEN 1 ELSE 0
  <2>1. n - 1 \in 0..N /\ n \in Nat
    OBVIOUS
  <2>2. IsFiniteSet(UpTo(ranks, n - 1))
    BY <1>7, <2>1
  <2>3. n \notin UpTo(ranks, n - 1)
    BY <1>3, <2>1
  <2>4. Cardinality(UpTo(ranks, n - 1)) \in Nat
    BY <2>2, FS_CardinalityType
  <2>5. CASE n \in ranks
    <3>1. UpTo(ranks, n) = UpTo(ranks, n - 1) \cup {n}
      <4>1. \A i \in 1..N : i <= n <=> i <= n - 1 \/ i = n
        BY <2>1
      <4>2. n \in 0..N
        BY <2>1
      <4>3. QED
        BY <1>3, <2>1, <2>5, <4>1, <4>2
    <3>2. Cardinality(UpTo(ranks, n - 1) \cup {n}) =
             Cardinality(UpTo(ranks, n - 1)) + 1
      BY <2>2, <2>3, FS_AddElement
    <3>3. QED
      BY <2>5, <3>1, <3>2
  <2>6. CASE n \notin ranks
    <3>1. UpTo(ranks, n) = UpTo(ranks, n - 1)
      <4>1. \A i \in 1..N : i <= n <=> i <= n - 1 \/ i = n
        BY <2>1
      <4>2. n \in 0..N
        BY <2>1
      <4>3. QED
        BY <1>3, <2>1, <2>6, <4>1, <4>2
    <3>2. QED
      BY <2>4, <2>6, <3>1
  <2>7. QED
    BY <2>5, <2>6
<1>9. QED
  BY <1>2, <1>5, <1>6, <1>7, <1>8

\* The sum over the ranks that count.
LEMMA SummingRuns ==
    ASSUME NEW ranks \in SUBSET (1..MaxRanks), NEW worth,
           \A n \in ranks : worth[n] \in Nat
    PROVE  /\ Summing(ranks, worth) \in [0..MaxRanks -> Nat]
           /\ Summing(ranks, worth)[0] = 0
           /\ \A n \in 1..MaxRanks :
                 Summing(ranks, worth)[n] =
                    Summing(ranks, worth)[n - 1] + Counted(n, ranks, worth)
<1> DEFINE N == MaxRanks
           start == 0
           step == [x \in Nat \X (1..N) |->
                      x[1] + Counted(x[2], ranks, worth)]
           f == Summing(ranks, worth)
<1>1. N \in Nat
  BY MetricsAssumption
<1>2. \A s \in Nat, n \in 1..N :
         s + Counted(n, ranks, worth) \in Nat
  BY DEF Counted
<1>3. start \in Nat
  OBVIOUS
<1>4. step \in [Nat \X (1..N) -> Nat]
  BY <1>2
<1>5. \A s \in Nat, n \in 1..N :
         step[<<s, n>>] = s + Counted(n, ranks, worth)
  OBVIOUS
<1> HIDE DEF step
<1>6. PICK g \in [0..N -> Nat] : Runs(g, N, start, step)
  <2> HIDE DEF N
  <2>1. QED
    BY <1>1, <1>3, <1>4, LoopComputes, Zenon
<1> HIDE DEF N
<1>7. ASSUME NEW n \in 0..N
      PROVE  g[n] = IF n = 0 THEN start
                     ELSE g[n - 1] + Counted(n, ranks, worth)
  <2>1. CASE n = 0
    BY <1>6, <2>1 DEF Runs
  <2>2. CASE n # 0
    <3>1. n \in 1..N /\ g[n - 1] \in Nat
      BY <1>1, <1>6, <2>2
    <3>2. QED
      BY <1>5, <1>6, <2>2, <3>1 DEF Runs
  <2>3. QED
    BY <2>1, <2>2
<1>8. g = [n \in 0..N |-> IF n = 0 THEN start
                          ELSE g[n - 1] + Counted(n, ranks, worth)]
  BY <1>7
<1>9. f = [n \in 0..N |-> IF n = 0 THEN start
                          ELSE f[n - 1] + Counted(n, ranks, worth)]
  BY <1>8 DEF Summing, N
<1> HIDE DEF f
<1>10. DOMAIN f = 0..N /\ f[0] = start
  BY <1>1, <1>9
<1>11. \A n \in 1..N :
          f[n] = f[n - 1] + Counted(n, ranks, worth)
  <2>1. \A n \in 1..N : n \in 0..N /\ n # 0
    BY <1>1
  <2>2. QED
    BY <1>9, <2>1
<1>12. \A n \in 1..N : f[n - 1] \in Nat => f[n] \in Nat
  BY <1>2, <1>11
<1>13. f[0] \in Nat
  BY <1>3, <1>10
<1>14. \A n \in 0..N : f[n] \in Nat
  BY <1>1, <1>12, <1>13, LoopStays, Zenon
<1>15. f \in [0..N -> Nat]
  BY <1>9, <1>14
<1>16. QED
  BY <1>10, <1>11, <1>15 DEF f, N


\* From one rank to the next.
LEMMA RankByRank ==
    ASSUME NEW N \in Nat, NEW ranks \in SUBSET (1..N), NEW n \in 1..N
    PROVE  UpTo(ranks, n) =
              UpTo(ranks, n - 1) \cup IF n \in ranks THEN {n} ELSE {}
<1>1. \A i \in 1..N : i <= n <=> i <= n - 1 \/ i = n
  OBVIOUS
<1>2. n <= n
  OBVIOUS
<1>3. ASSUME NEW i
      PROVE  /\ i \in UpTo(ranks, n) <=> i \in ranks /\ i \in 1..N /\ i <= n
             /\ i \in UpTo(ranks, n - 1)
                   <=> i \in ranks /\ i \in 1..N /\ i <= n - 1
  BY DEF UpTo
<1>4. ASSUME NEW i
      PROVE  i \in UpTo(ranks, n) <=>
                i \in UpTo(ranks, n - 1) \/ (i = n /\ n \in ranks)
  BY <1>1, <1>2, <1>3
<1>5. QED
  BY <1>4

\* A sum of parts of a whole w is that of as many wholes only if each is whole.
LEMMA SumOfParts ==
    ASSUME NEW ranks \in SUBSET (1..MaxRanks), NEW w \in Nat,
           NEW worth, \A i \in ranks : worth[i] \in 0..w
    PROVE  LET s == SumOver(ranks, worth)
           IN  /\ s \in Nat /\ Cardinality(ranks) \in Nat
               /\ s <= w * Cardinality(ranks)
               /\ s = w * Cardinality(ranks) <=> \A i \in ranks : worth[i] = w
<1> DEFINE N == MaxRanks
           f == Summing(ranks, worth)
           c(n) == Cardinality(UpTo(ranks, n))
           Whole1(n) == \A i \in UpTo(ranks, n) : worth[i] = w
           Good == {n \in 0..N : /\ f[n] <= w * c(n)
                                 /\ f[n] = w * c(n) <=> Whole1(n)}
<1>1. N \in Nat
  BY MetricsAssumption
<1>2. \A i \in ranks : worth[i] \in Nat /\ worth[i] <= w
  OBVIOUS
<1>3. /\ f \in [0..N -> Nat] /\ f[0] = 0
      /\ \A n \in 1..N : f[n] = f[n - 1] + Counted(n, ranks, worth)
  BY <1>2, SummingRuns
<1>4. /\ Cardinality(ranks) \in Nat /\ c(0) = 0 /\ UpTo(ranks, N) = ranks
      /\ \A n \in 0..N : c(n) \in Nat
      /\ \A n \in 1..N : c(n) = c(n - 1) + IF n \in ranks THEN 1 ELSE 0
  <2>1. MaxRanks \in Nat
    BY <1>1
  <2>4. ranks \in SUBSET (1..MaxRanks)
    OBVIOUS
  <2>2. /\ Cardinality(ranks) \in Nat
        /\ Cardinality(UpTo(ranks, 0)) = 0
        /\ UpTo(ranks, MaxRanks) = ranks
        /\ \A n \in 0..MaxRanks : Cardinality(UpTo(ranks, n)) \in 0..n
        /\ \A n \in 1..MaxRanks : Cardinality(UpTo(ranks, n)) =
              Cardinality(UpTo(ranks, n - 1)) + IF n \in ranks THEN 1 ELSE 0
    BY ONLY <2>1, <2>4, RanksCounted, ZenonT(60)
  <2> HIDE DEF Good, f
  <2>3. QED
    BY <2>2
<1> HIDE DEF f, N
<1>5. 0 \in Good
  <2>1. UpTo(ranks, 0) = {}
    <3>1. \A i \in ranks : ~(i <= 0)
      OBVIOUS
    <3>2. QED
      BY <3>1 DEF UpTo
  <2>2. f[0] = w * c(0) /\ f[0] <= w * c(0)
    BY <1>3, <1>4
  <2>3. 0 \in 0..N
    BY <1>1
  <2> HIDE DEF c
  <2>4. QED
    BY <2>1, <2>2, <2>3
<1>6. ASSUME NEW n \in 0..N, n \in Good, n < N
      PROVE  n + 1 \in Good
  <2> DEFINE m == n + 1
  <2>1. m \in 1..N /\ m \in 0..N /\ m - 1 = n
    BY <1>1, <1>6
  <2>2. /\ f[n] <= w * c(n) /\ (f[n] = w * c(n) <=> Whole1(n))
        /\ f[n] \in Nat /\ c(n) \in Nat
    BY <1>3, <1>4, <1>6
  <2>3. f[m] = f[n] + Counted(m, ranks, worth)
    BY <1>3, <2>1
  <2>4. c(m) = c(n) + IF m \in ranks THEN 1 ELSE 0
    BY <1>4, <2>1
  <2>5. UpTo(ranks, m) = UpTo(ranks, n) \cup IF m \in ranks THEN {m} ELSE {}
    <3> HIDE DEF m
    <3>1. UpTo(ranks, m) =
             UpTo(ranks, m - 1) \cup IF m \in ranks THEN {m} ELSE {}
      BY <1>1, <2>1, RankByRank DEF N
    <3>2. QED
      BY <2>1, <3>1
  <2> HIDE DEF m, c
  <2>6. CASE m \in ranks
    <3> DEFINE v == worth[m]
               p == w * c(n)
    <3>1. v \in Nat /\ v <= w /\ f[m] = f[n] + v
      BY <1>2, <2>3, <2>6 DEF Counted
    <3>2. p \in Nat /\ w * c(m) = p + w
      BY <2>2, <2>4, <2>6
    <3>3. Whole1(m) <=> Whole1(n) /\ v = w
      BY <2>5, <2>6
    <3>4. f[n] <= p /\ (f[n] = p <=> Whole1(n)) /\ f[n] \in Nat
      BY <2>2
    <3> HIDE DEF v, p, Whole1
    <3>5. f[m] <= w * c(m) /\ (f[m] = w * c(m) <=> f[n] = p /\ v = w)
      BY <3>1, <3>2, <3>4
    <3>6. QED
      BY <2>1, <3>3, <3>4, <3>5
  <2>7. CASE m \notin ranks
    <3>1. f[m] = f[n] /\ c(m) = c(n) /\ UpTo(ranks, m) = UpTo(ranks, n)
      BY <2>2, <2>3, <2>4, <2>5, <2>7 DEF Counted
    <3>2. QED
      BY <2>1, <2>2, <3>1
  <2>8. QED
    BY <2>6, <2>7
<1> HIDE DEF Good
<1>7. \A n \in 0..N : n \in Good
  BY <1>1, <1>5, <1>6, TurnByTurn
<1>8. N \in Good
  BY <1>1, <1>7
<1>9. f[N] <= w * c(N) /\ (f[N] = w * c(N) <=> Whole1(N)) /\ f[N] \in Nat
  BY <1>1, <1>3, <1>8 DEF Good
<1>10. SumOver(ranks, worth) = f[N]
  BY DEF SumOver, f, N
<1>11. QED
  BY <1>4, <1>9, <1>10

\* A rank gains more than those behind it, and none gains nothing.
LEMMA GainsFall ==
    /\ \A i \in 1..MaxRanks : Gain[i] \in Nat /\ Gain[i] > 0
    /\ \A i, j \in 1..MaxRanks : i < j => Gain[i] > Gain[j]
<1> DEFINE N == MaxRanks
           R == {p \in Nat \X Nat : Gain[p[1]] > Gain[p[2]]}
<1>1. N \in Nat \ {0} /\ Gain[N] > 0
  BY MetricsAssumption
<1>2. \A i \in 1..N : Gain[i] \in Nat
  BY MetricsAssumption
<1>3. \A i \in 1..N - 1 : Gain[i] > Gain[i + 1]
  BY MetricsAssumption
<1> HIDE DEF N
<1>4. \A i, j \in Nat : <<i, j>> \in R <=> Gain[i] > Gain[j]
  OBVIOUS
<1>5. \A i \in 1..N : i \in Nat
  OBVIOUS
<1> HIDE DEF R
<1>6. \A n \in 1..N - 1 : <<n, n + 1>> \in R
  <2>1. ASSUME NEW n \in 1..N - 1
        PROVE  <<n, n + 1>> \in R
    <3>1. n \in Nat /\ n + 1 \in Nat
      OBVIOUS
    <3>2. QED
      BY <1>3, <1>4, <3>1
  <2>2. QED
    BY <2>1
<1>7. ASSUME NEW i \in 1..N, NEW j \in 1..N, NEW k \in 1..N,
             <<i, j>> \in R, <<j, k>> \in R
      PROVE  <<i, k>> \in R
  BY <1>2, <1>4, <1>5, <1>7
<1>8. \A i, j \in 1..N : i < j => <<i, j>> \in R
  <2>1. 1 \in Nat /\ N \in Nat
    BY <1>1
  <2>2. QED
    BY <1>6, <1>7, <2>1, StepwiseOrder
<1>9. \A i, j \in 1..N : i < j => Gain[i] > Gain[j]
  BY <1>4, <1>5, <1>8
<1>10. ASSUME NEW i \in 1..N
       PROVE  Gain[i] > 0
  <2>1. N \in 1..N /\ (i = N \/ i < N)
    BY <1>1
  <2>2. Gain[i] \in Nat /\ Gain[N] \in Nat
    BY <1>2, <2>1
  <2>3. CASE i = N
    BY <1>1, <2>3
  <2>4. CASE i < N
    <3>1. Gain[i] > Gain[N]
      BY <1>9, <2>1, <2>4
    <3>2. QED
      BY <1>1, <2>2, <3>1
  <2>5. QED
    BY <2>1, <2>3, <2>4
<1>11. QED
  BY <1>2, <1>9, <1>10 DEF N

\* What the first n ranks gain together.
Ladder == Summing(1..MaxRanks, Gain)

\* Every rank adds something, and the sum over the first m stops there.
LEMMA LadderRises ==
    /\ Ladder \in [0..MaxRanks -> Nat] /\ Ladder[0] = 0
    /\ \A n \in 1..MaxRanks : Ladder[n] = Ladder[n - 1] + Gain[n]
    /\ \A i, j \in 0..MaxRanks : i < j => Ladder[i] < Ladder[j]
    /\ \A m \in 0..MaxRanks : SumOver(1..m, Gain) = Ladder[m]
<1> DEFINE N == MaxRanks
           G == Ladder
<1>1. N \in Nat
  BY MetricsAssumption
<1>2. \A i \in 1..N : Gain[i] \in Nat /\ Gain[i] > 0
  BY GainsFall
<1>3. /\ G \in [0..N -> Nat] /\ G[0] = 0
      /\ \A n \in 1..N : G[n] = G[n - 1] + Counted(n, 1..N, Gain)
  <2>1. 1..N \in SUBSET (1..N)
    OBVIOUS
  <2>2. QED
    BY <1>2, <2>1, SummingRuns DEF Ladder
<1> HIDE DEF G
<1>4. \A n \in 1..N : G[n] = G[n - 1] + Gain[n]
  BY <1>3 DEF Counted
<1>5. \A i, j \in 0..N : i < j => G[i] < G[j]
  <2> DEFINE R == {p \in Nat \X Nat : G[p[1]] < G[p[2]]}
  <2>1. \A i, j \in Nat : <<i, j>> \in R <=> G[i] < G[j]
    OBVIOUS
  <2>2. \A i \in 0..N : i \in Nat /\ G[i] \in Nat
    BY <1>3
  <2> HIDE DEF R, N
  <2>3. ASSUME NEW n \in 0..N - 1
        PROVE  <<n, n + 1>> \in R
    <3>1. n \in 0..N /\ n + 1 \in 1..N /\ n + 1 \in 0..N /\ (n + 1) - 1 = n
      BY <1>1
    <3>2. G[n + 1] = G[n] + Gain[n + 1]
      BY <1>4, <3>1
    <3>3. G[n] \in Nat /\ Gain[n + 1] \in Nat /\ Gain[n + 1] > 0
      BY <1>2, <2>2, <3>1 DEF N
    <3>4. G[n] < G[n + 1]
      BY <3>2, <3>3
    <3>5. QED
      BY <2>1, <2>2, <3>1, <3>4
  <2>4. ASSUME NEW i \in 0..N, NEW j \in 0..N, NEW k \in 0..N,
               <<i, j>> \in R, <<j, k>> \in R
        PROVE  <<i, k>> \in R
    BY <2>1, <2>2, <2>4
  <2>5. \A i, j \in 0..N : i < j => <<i, j>> \in R
    <3>1. 0 \in Nat
      OBVIOUS
    <3>2. QED
      BY <1>1, <2>3, <2>4, <3>1, StepwiseOrder
  <2>6. QED
    BY <2>1, <2>2, <2>5
<1>6. ASSUME NEW m \in 0..N
      PROVE  SumOver(1..m, Gain) = G[m]
  <2> DEFINE f == Summing(1..m, Gain)
             Good == {n \in 0..N : f[n] = IF n <= m THEN G[n] ELSE G[m]}
  <2>1. /\ f[0] = 0
        /\ \A n \in 1..N : f[n] = f[n - 1] + Counted(n, 1..m, Gain)
    <3>1. 1..m \in SUBSET (1..N) /\ \A i \in 1..m : i \in 1..N
      BY <1>1
    <3>2. \A i \in 1..m : Gain[i] \in Nat
      BY <1>2, <3>1
    <3>3. QED
      BY <3>1, <3>2, SummingRuns
  <2> HIDE DEF f
  <2>2. 0 \in Good
    BY <1>1, <1>3, <2>1
  <2>3. ASSUME NEW n \in 0..N, n \in Good, n < N
        PROVE  n + 1 \in Good
    <3>1. n + 1 \in 1..N /\ n + 1 \in 0..N /\ (n + 1) - 1 = n /\ n \in Nat
      BY <1>1, <2>3
    <3>2. f[n + 1] = f[n] + Counted(n + 1, 1..m, Gain)
      BY <2>1, <3>1
    <3>3. G[n + 1] = G[n] + Gain[n + 1]
      BY <1>4, <3>1
    <3>4. G[m] \in Nat /\ f[n] = IF n <= m THEN G[n] ELSE G[m]
      BY <1>3, <2>3
    <3>5. CASE n + 1 <= m
      <4>1. n + 1 \in 1..m /\ n <= m
        BY <3>1, <3>5
      <4>2. f[n + 1] = G[n + 1]
        BY <3>2, <3>3, <3>4, <4>1 DEF Counted
      <4>3. QED
        BY <3>1, <3>5, <4>2
    <3>6. CASE ~(n + 1 <= m)
      <4>1. n + 1 \notin 1..m /\ f[n] = G[m]
        <5>1. n + 1 \notin 1..m /\ (n <= m => n = m)
          BY <3>1, <3>6
        <5>2. QED
          BY <3>4, <5>1
      <4>2. f[n + 1] = G[m] + 0
        BY <3>2, <4>1 DEF Counted
      <4>3. f[n + 1] = G[m]
        BY <3>4, <4>2
      <4>4. QED
        BY <3>1, <3>6, <4>3
    <3>7. QED
      BY <3>5, <3>6
  <2> HIDE DEF Good, N
  <2>4. \A n \in 0..N : n \in Good
    BY <1>1, <2>2, <2>3, TurnByTurn
  <2>5. N \in 0..N /\ N \in Good /\ (N <= m => N = m)
    BY <1>1, <2>4
  <2>6. f[N] = G[m]
    BY <2>5 DEF Good
  <2>7. QED
    BY <2>6 DEF SumOver, f, N
<1>7. QED
  BY <1>3, <1>4, <1>5, <1>6 DEF G

\* No m ranks gain more than the first m, and only they gain as much.
LEMMA FirstRanksAreBest ==
    ASSUME NEW ranks \in SUBSET (1..MaxRanks), NEW m \in 0..MaxRanks,
           Cardinality(ranks) <= m
    PROVE  /\ SumOver(ranks, Gain) <= SumOver(1..m, Gain)
           /\ SumOver(ranks, Gain) = SumOver(1..m, Gain) <=> ranks = 1..m
<1> DEFINE N == MaxRanks
           G == Ladder
           f == Summing(ranks, Gain)
           c(n) == Cardinality(UpTo(ranks, n))
           Good == {n \in 0..N : /\ f[n] <= G[c(n)]
                                 /\ f[n] = G[c(n)] => UpTo(ranks, n) = 1..c(n)}
<1>1. N \in Nat
  BY MetricsAssumption
<1>2. /\ \A i \in 1..N : Gain[i] \in Nat
      /\ \A i, j \in 1..N : i < j => Gain[i] > Gain[j]
  BY GainsFall
<1>3. /\ f \in [0..N -> Nat] /\ f[0] = 0
      /\ \A n \in 1..N : f[n] = f[n - 1] + Counted(n, ranks, Gain)
  <2>1. \A i \in ranks : Gain[i] \in Nat
    BY <1>2
  <2>2. QED
    BY <2>1, SummingRuns
<1>4. /\ G \in [0..N -> Nat] /\ G[0] = 0
      /\ \A n \in 1..N : G[n] = G[n - 1] + Gain[n]
      /\ \A i, j \in 0..N : i < j => G[i] < G[j]
      /\ SumOver(1..m, Gain) = G[m]
  BY LadderRises
<1>5. /\ Cardinality(ranks) \in Nat /\ c(0) = 0 /\ UpTo(ranks, N) = ranks
      /\ \A n \in 0..N : /\ c(n) \in 0..n
                         /\ c(n) = n => UpTo(ranks, n) = 1..n
      /\ \A n \in 1..N : c(n) = c(n - 1) + IF n \in ranks THEN 1 ELSE 0
  <2> HIDE DEF N
  <2>1. QED
    BY <1>1, RanksCounted, ZenonT(60) DEF N
<1> HIDE DEF f, N, G, c
<1>6. 0 \in Good
  <2>1. 0 \in 0..N /\ 0 \in Nat
    BY <1>1
  <2>2. UpTo(ranks, 0) = 1..0
    BY <1>5, <2>1
  <2>3. f[0] <= G[c(0)] /\ UpTo(ranks, 0) = 1..c(0)
    <3>1. c(0) = 0
      BY <1>5
    <3>2. f[0] = 0 /\ G[c(0)] = 0
      BY <1>3, <1>4, <3>1
    <3>3. UpTo(ranks, 0) = 1..c(0)
      BY <2>2, <3>1
    <3>4. QED
      BY <3>2, <3>3
  <2>4. QED
    BY <2>1, <2>3
<1>7. ASSUME NEW n \in 0..N, n \in Good, n < N
      PROVE  n + 1 \in Good
  <2> DEFINE k == n + 1
             b == c(n)
  <2>1. k \in 1..N /\ k \in 0..N /\ k - 1 = n /\ n \in Nat
    BY <1>1, <1>7
  <2>2. /\ f[n] <= G[b] /\ (f[n] = G[b] => UpTo(ranks, n) = 1..b)
        /\ f[n] \in Nat /\ b \in 0..n
    BY <1>3, <1>5, <1>7
  <2>3. f[k] = f[n] + Counted(k, ranks, Gain)
    BY <1>3, <2>1
  <2>4. c(k) = b + IF k \in ranks THEN 1 ELSE 0
    BY <1>5, <2>1
  <2>5. UpTo(ranks, k) = UpTo(ranks, n) \cup IF k \in ranks THEN {k} ELSE {}
    <3> HIDE DEF k
    <3>1. UpTo(ranks, k) =
             UpTo(ranks, k - 1) \cup IF k \in ranks THEN {k} ELSE {}
      BY <1>1, <2>1, RankByRank DEF N
    <3>2. QED
      BY <2>1, <3>1
  <2> HIDE DEF b
  <2>6. CASE k \in ranks
    <3>1. b + 1 \in 1..N /\ (b + 1) - 1 = b /\ b \in 0..N /\ b + 1 <= k
      BY <1>1, <1>7, <2>1, <2>2
    <3>2. c(k) = b + 1
      BY <2>4, <2>6
    <3>3. G[b + 1] = G[b] + Gain[b + 1] /\ G[b] \in Nat
      BY <1>4, <3>1
    <3>4. /\ Gain[b + 1] \in Nat /\ Gain[k] \in Nat
          /\ b + 1 < k => Gain[b + 1] > Gain[k]
      BY <1>2, <2>1, <3>1
    <3>5. f[k] = f[n] + Gain[k]
      BY <2>3, <2>6 DEF Counted
    <3>6. Gain[k] <= Gain[b + 1] /\ (Gain[k] = Gain[b + 1] => b + 1 = k)
      <4>1. CASE b + 1 = k
        BY <3>4, <4>1
      <4>2. CASE b + 1 < k
        BY <3>4, <4>2
      <4>3. QED
        BY <2>2, <3>1, <4>1, <4>2
    <3> HIDE DEF k
    <3>7. f[k] <= G[b + 1] /\ (f[k] = G[b + 1] => Gain[k] = Gain[b + 1])
      BY <2>2, <3>3, <3>4, <3>5, <3>6
    <3>8. ASSUME f[k] = G[b + 1]
          PROVE  UpTo(ranks, k) = 1..c(k)
      <4>1. c(k) = k
        BY <3>2, <3>6, <3>7, <3>8
      <4>2. UpTo(ranks, k) = 1..k
        BY <1>5, <2>1, <4>1
      <4>3. QED
        BY <4>1, <4>2
    <3>9. QED
      BY <2>1, <3>2, <3>7, <3>8 DEF k
  <2>7. CASE k \notin ranks
    <3> HIDE DEF k
    <3>1. Counted(k, ranks, Gain) = 0
      BY <2>7 DEF Counted
    <3>2. c(k) = b /\ f[k] = f[n]
      BY <2>2, <2>3, <2>4, <2>7, <3>1
    <3>3. UpTo(ranks, k) = UpTo(ranks, n)
      BY <2>5, <2>7
    <3>4. QED
      BY <2>1, <2>2, <3>2, <3>3 DEF k
  <2>8. QED
    BY <2>6, <2>7
<1> HIDE DEF Good
<1>8. \A n \in 0..N : n \in Good
  BY <1>1, <1>6, <1>7, TurnByTurn
<1>9. N \in Good /\ N \in 0..N
  BY <1>1, <1>8
<1> DEFINE t == Cardinality(ranks)
<1>10. c(N) = t
  BY <1>5 DEF c
<1>11. f[N] <= G[t] /\ (f[N] = G[t] => ranks = 1..t) /\ f[N] \in Nat
  BY <1>3, <1>5, <1>9, <1>10 DEF Good
<1>12. t \in 0..N /\ m \in 0..N /\ t <= m
  BY <1>5, <1>9, <1>10 DEF N
<1> HIDE DEF t
<1>13. G[t] \in Nat /\ G[m] \in Nat /\ (t < m => G[t] < G[m])
  BY <1>4, <1>12
<1>14. t = m \/ t < m
  BY <1>12
<1>15. SumOver(ranks, Gain) = f[N]
  BY DEF SumOver, f, N
<1>16. f[N] <= G[m] /\ (f[N] = G[m] => t = m)
  BY <1>11, <1>13, <1>14
<1>17. f[N] = G[m] => ranks = 1..m
  BY <1>11, <1>16
<1>18. QED
  BY <1>4, <1>15, <1>16, <1>17


\* The files of the chunks that were retrieved.
LEMMA RankingOfFiles ==
    ASSUME NEW ret \in Retrieved
    PROVE  /\ ret \in Seq(Files) /\ Len(ret) \in Nat /\ Len(ret) <= MaxRanks
           /\ DOMAIN ret = 1..Len(ret) /\ 1..Len(ret) \in SUBSET (1..MaxRanks)
<1>1. PICK m \in 0..MaxRanks : ret \in [1..m -> Files]
  BY DEF Retrieved, SeqOf
<1>2. MaxRanks \in Nat /\ m \in Nat
  BY MetricsAssumption
<1>3. ret \in Seq(Files) /\ Len(ret) = m
  BY <1>1, <1>2, FunctionIsList
<1>4. QED
  BY <1>2, <1>3

\* Sets of files can be counted.
LEMMA FilesCounted ==
    ASSUME NEW rel \in SUBSET Files
    PROVE  /\ IsFiniteSet(rel) /\ Cardinality(rel) \in Nat
           /\ Cardinality(rel) = 0 <=> rel = {}
<1>1. IsFiniteSet(Files)
  BY MetricsAssumption
<1>2. IsFiniteSet(rel)
  BY <1>1, FS_Subset
<1>3. QED
  BY <1>2, FS_CardinalityType, FS_EmptySet

\* Of each relevant file only the first chunk counts.
LEMMA FirstHitsCounted ==
    ASSUME NEW ret \in Retrieved, NEW rel \in SUBSET Files
    PROVE  LET hits == FirstHits(ret, rel)
           IN  /\ hits \in SUBSET (1..Len(ret)) /\ hits \in SUBSET (1..MaxRanks)
               /\ Cardinality(hits) \in Nat
               /\ Cardinality(hits) <= Cardinality(rel)
<1> DEFINE hits == FirstHits(ret, rel)
           file == [i \in hits |-> ret[i]]
<1>1. /\ ret \in Seq(Files) /\ Len(ret) \in Nat /\ DOMAIN ret = 1..Len(ret)
      /\ 1..Len(ret) \in SUBSET (1..MaxRanks)
  BY RankingOfFiles
<1>2. /\ hits \in SUBSET (1..Len(ret))
      /\ \A i \in hits : ret[i] \in rel /\ \A j \in 1..i - 1 : ret[j] # ret[i]
  BY <1>1 DEF FirstHits
<1> HIDE DEF hits
<1>3. ASSUME NEW i \in hits, NEW j \in hits, ret[i] = ret[j]
      PROVE  i = j
  <2>1. i \in Nat /\ j \in Nat /\ i >= 1 /\ j >= 1
    BY <1>1, <1>2
  <2>2. ~(i < j)
    <3>1. i < j => i \in 1..j - 1
      BY <2>1
    <3>2. QED
      BY <1>2, <1>3, <3>1
  <2>3. ~(j < i)
    <3>1. j < i => j \in 1..i - 1
      BY <2>1
    <3>2. QED
      BY <1>2, <1>3, <3>1
  <2>4. QED
    BY <2>1, <2>2, <2>3
<1>4. file \in Injection(hits, rel)
  <2>1. file \in [hits -> rel]
    BY <1>2
  <2>2. IsInjective(file)
    BY <1>3 DEF IsInjective
  <2>3. QED
    BY <2>1, <2>2 DEF Injection
<1>5. IsFiniteSet(rel)
  BY FilesCounted
<1> HIDE DEF file
<1>6. IsFiniteSet(hits) /\ Cardinality(hits) <= Cardinality(rel)
  BY <1>4, <1>5, FS_Injection
<1>7. Cardinality(hits) \in Nat
  BY <1>6, FS_CardinalityType
<1>8. QED
  BY <1>1, <1>2, <1>6, <1>7 DEF hits

\* The files of the first k chunks.
LEMMA TopFilesCounted ==
    ASSUME NEW ret \in Retrieved, NEW rel \in SUBSET Files, NEW k \in Nat
    PROVE  /\ FilesFound(ret, rel, k) \in Nat
           /\ FilesFound(ret, rel, k) <= Cardinality(rel)
           /\ FilesFound(ret, rel, k) <= k
           /\ FilesFound(ret, rel, k) <= FilesFound(ret, rel, k + 1)
           /\ Len(ret) <= k => TopFiles(ret, k) = Range(ret)
<1>1. ret \in Seq(Files) /\ Len(ret) \in Nat
  BY RankingOfFiles
<1>2. ASSUME NEW n \in Nat
      PROVE  /\ TopFiles(ret, n) = Range(FirstN(ret, n))
             /\ FirstN(ret, n) \in Seq(Files)
             /\ Len(FirstN(ret, n)) = IF Len(ret) < n THEN Len(ret) ELSE n
             /\ \A i \in 1..Len(FirstN(ret, n)) :
                   i \in 1..Len(ret) /\ FirstN(ret, n)[i] = ret[i]
             /\ Len(ret) <= n => Range(FirstN(ret, n)) = Range(ret)
  <2>1. Min({n, Len(ret)}) = IF n <= Len(ret) THEN n ELSE Len(ret)
    BY <1>1, MinOfTwo
  <2>2. Min({n, Len(ret)}) = IF Len(ret) < n THEN Len(ret) ELSE n
    BY <1>1, <2>1
  <2>3. TopFiles(ret, n) = Range(FirstN(ret, n))
    BY <2>2 DEF TopFiles, FirstN
  <2>4. QED
    BY <1>1, <2>3, FirstOfList
<1>3. ASSUME NEW n \in Nat
      PROVE  /\ IsFiniteSet(TopFiles(ret, n))
             /\ Cardinality(TopFiles(ret, n)) <= n
             /\ Cardinality(TopFiles(ret, n)) \in Nat
  <2> DEFINE q == FirstN(ret, n)
  <2>1. /\ q \in Seq(Files) /\ TopFiles(ret, n) = Range(q)
        /\ Len(q) = IF Len(ret) < n THEN Len(ret) ELSE n
    BY <1>2
  <2> HIDE DEF q
  <2>2. /\ IsFiniteSet(Range(q)) /\ Cardinality(Range(q)) \in Nat
        /\ Cardinality(Range(q)) <= Len(q)
    BY <2>1, ListContents
  <2>3. QED
    BY <1>1, <2>1, <2>2
<1>4. TopFiles(ret, k) \in SUBSET TopFiles(ret, k + 1)
  <2> DEFINE q == FirstN(ret, k)
             r == FirstN(ret, k + 1)
  <2>1. k + 1 \in Nat
    OBVIOUS
  <2>2. /\ q \in Seq(Files) /\ TopFiles(ret, k) = Range(q)
        /\ Len(q) = IF Len(ret) < k THEN Len(ret) ELSE k
        /\ \A i \in 1..Len(q) : q[i] = ret[i]
    BY <1>2
  <2>3. /\ r \in Seq(Files) /\ TopFiles(ret, k + 1) = Range(r)
        /\ Len(r) = IF Len(ret) < k + 1 THEN Len(ret) ELSE k + 1
        /\ \A i \in 1..Len(r) : r[i] = ret[i]
    BY <1>2, <2>1
  <2> HIDE DEF q, r
  <2>4. /\ \A x : x \in Range(q) <=> \E i \in 1..Len(q) : q[i] = x
        /\ \A x : x \in Range(r) <=> \E i \in 1..Len(r) : r[i] = x
    BY <2>2, <2>3, ListContents
  <2>5. \A i \in 1..Len(q) : i \in 1..Len(r)
    BY <1>1, <2>2, <2>3
  <2>6. QED
    BY <2>2, <2>3, <2>4, <2>5
<1>5. IsFiniteSet(rel)
  BY FilesCounted
<1>6. ASSUME NEW n \in Nat
      PROVE  /\ IsFiniteSet(TopFiles(ret, n) \cap rel)
             /\ FilesFound(ret, rel, n) \in Nat
             /\ FilesFound(ret, rel, n) <= Cardinality(rel)
             /\ FilesFound(ret, rel, n) <= n
  <2> DEFINE F == TopFiles(ret, n) \cap rel
  <2>1. FilesFound(ret, rel, n) = Cardinality(F)
    BY DEF FilesFound
  <2>2. F \in SUBSET rel /\ F \in SUBSET TopFiles(ret, n)
    OBVIOUS
  <2>3. /\ IsFiniteSet(TopFiles(ret, n)) /\ Cardinality(TopFiles(ret, n)) <= n
        /\ Cardinality(TopFiles(ret, n)) \in Nat
    BY <1>3
  <2> HIDE DEF F
  <2>4. IsFiniteSet(F) /\ Cardinality(F) <= Cardinality(rel)
    BY <1>5, <2>2, FS_Subset
  <2>5. Cardinality(F) <= Cardinality(TopFiles(ret, n))
    BY <2>2, <2>3, FS_Subset
  <2>6. Cardinality(F) \in Nat
    BY <2>4, FS_CardinalityType
  <2>7. QED
    BY <2>1, <2>3, <2>4, <2>5, <2>6 DEF F
<1>7. FilesFound(ret, rel, k) <= FilesFound(ret, rel, k + 1)
  <2> DEFINE F == TopFiles(ret, k) \cap rel
             E == TopFiles(ret, k + 1) \cap rel
  <2>1. F \in SUBSET E
    BY <1>4
  <2>2. k + 1 \in Nat
    OBVIOUS
  <2>3. IsFiniteSet(E)
    BY <1>6, <2>2
  <2> HIDE DEF F, E
  <2>4. Cardinality(F) <= Cardinality(E)
    BY <2>1, <2>3, FS_Subset
  <2>5. QED
    BY <2>4 DEF FilesFound, F, E
<1>8. Len(ret) <= k => TopFiles(ret, k) = Range(ret)
  BY <1>2
<1>9. QED
  BY <1>6, <1>7, <1>8

\* The chunks of relevant files: as many as those files, if no file repeats.
LEMMA RelevantChunks ==
    ASSUME NEW ret \in Retrieved, NEW rel \in SUBSET Files
    PROVE  LET chunks == {i \in DOMAIN ret : ret[i] \in rel}
           IN  /\ Cardinality(chunks) \in Nat
               /\ Cardinality(chunks) <= Len(ret)
               /\ IsInjective(ret)
                  => Cardinality(chunks) = Cardinality(Range(ret) \cap rel)
<1> DEFINE chunks == {i \in DOMAIN ret : ret[i] \in rel}
           files == Range(ret) \cap rel
           file == [i \in chunks |-> ret[i]]
<1>1. ret \in Seq(Files) /\ Len(ret) \in Nat /\ DOMAIN ret = 1..Len(ret)
  BY RankingOfFiles
<1>2. chunks \in SUBSET (1..Len(ret))
  BY <1>1
<1>3. IsFiniteSet(1..Len(ret)) /\ Cardinality(1..Len(ret)) = Len(ret)
  BY <1>1, FS_Interval, SMTT(30)
<1>4. \A i : i \in chunks <=> i \in 1..Len(ret) /\ ret[i] \in rel
  BY <1>1
<1>5. /\ \A x : x \in Range(ret) <=> \E i \in 1..Len(ret) : ret[i] = x
      /\ IsInjective(ret) =>
            \A i, j \in 1..Len(ret) : ret[i] = ret[j] => i = j
  BY <1>1, ListContents
<1> HIDE DEF chunks
<1>6. IsFiniteSet(chunks) /\ Cardinality(chunks) <= Len(ret)
  BY <1>2, <1>3, FS_Subset
<1>7. Cardinality(chunks) \in Nat
  BY <1>6, FS_CardinalityType
<1>8. ASSUME IsInjective(ret)
      PROVE  Cardinality(chunks) = Cardinality(files)
  <2>1. file \in [chunks -> files]
    BY <1>4, <1>5
  <2>2. \A x \in files : \E i \in chunks : file[i] = x
    BY <1>4, <1>5
  <2>3. \A i, j \in chunks : file[i] = file[j] => i = j
    BY <1>4, <1>5, <1>8
  <2> HIDE DEF file, files
  <2>4. file \in Surjection(chunks, files)
    BY <2>1, <2>2 DEF Surjection
  <2>5. file \in Injection(chunks, files)
    BY <2>1, <2>3 DEF Injection, IsInjective
  <2>6. QED
    BY <1>6, <2>4, <2>5, FS_Surjection
<1>9. QED
  BY <1>6, <1>7, <1>8 DEF chunks


\* A quotient that is at most whole.
LEMMA WholeQuotient ==
    ASSUME NEW s \in Nat, NEW n \in Nat \ {0}, s <= Whole * n
    PROVE  s \div n \in 0..Whole /\ (s \div n = Whole <=> s = Whole * n)
<1> DEFINE w == Whole
           q == s \div n
<1>1. w \in Nat \ {0}
  BY MetricsAssumption
<1>2. q \in Nat /\ n * q <= s /\ s < n * (q + 1)
  OBVIOUS
<1> HIDE DEF q
<1>3. s <= w * n
  OBVIOUS
<1> HIDE DEF w
<1>4. w * n \in Nat /\ n * q \in Nat /\ n * (q + 1) \in Nat
  BY <1>1, <1>2
<1>5. ~(q >= w + 1)
  <2>1. SUFFICES ASSUME q >= w + 1
                 PROVE  FALSE
    OBVIOUS
  <2>2. n * q >= n * (w + 1)
    BY <1>1, <1>2, <2>1
  <2>3. n * (w + 1) = w * n + n
    BY <1>1
  <2>4. QED
    BY <1>2, <1>3, <1>4, <2>2, <2>3
<1>6. ASSUME s = w * n
      PROVE  q = w
  <2>1. ~(q + 1 <= w)
    <3>1. SUFFICES ASSUME q + 1 <= w
                   PROVE  FALSE
      OBVIOUS
    <3>2. n * (q + 1) <= w * n
      BY <1>1, <1>2, <3>1
    <3>3. QED
      BY <1>2, <1>4, <1>6, <3>2
  <2>2. QED
    BY <1>1, <1>2, <1>5, <2>1
<1>7. ASSUME q = w
      PROVE  s = w * n
  <2>1. n * q = w * n
    BY <1>1, <1>7
  <2>2. QED
    BY <1>2, <1>3, <1>4, <2>1
<1>8. QED
  BY <1>1, <1>2, <1>5, <1>6, <1>7 DEF q, w

\* Precision at a rank is whole when every rank up to it counts.
LEMMA PrecisionOfRanks ==
    ASSUME NEW hits \in SUBSET (1..MaxRanks), NEW i \in hits
    PROVE  /\ PrecisionAt(hits, i) \in 0..Whole
           /\ PrecisionAt(hits, i) = Whole <=> 1..i \subseteq hits
<1> DEFINE c == Cardinality(UpTo(hits, i))
<1>1. MaxRanks \in Nat /\ i \in 1..MaxRanks /\ i \in 0..MaxRanks /\ i \in Nat
  BY MetricsAssumption
<1>2. c \in 0..i /\ (c = i => UpTo(hits, i) = 1..i)
  BY <1>1, RanksCounted
<1>3. PrecisionAt(hits, i) = Share(c, i)
  BY DEF PrecisionAt, UpTo
<1>4. 1..i \subseteq hits => UpTo(hits, i) = 1..i
  <2>1. \A j \in hits : j <= i <=> j \in 1..i
    OBVIOUS
  <2>2. QED
    BY <2>1 DEF UpTo
<1>5. UpTo(hits, i) = 1..i => 1..i \subseteq hits
  BY DEF UpTo
<1>6. UpTo(hits, i) = 1..i => c = i
  BY <1>1, FS_Interval
<1> HIDE DEF c
<1>7. Share(c, i) \in 0..Whole /\ (Share(c, i) = Whole <=> c = i)
  <2>1. c \in Nat /\ i \in Nat /\ c <= i /\ i # 0
    BY <1>1, <1>2
  <2>2. QED
    BY <2>1, SharesAreFractions
<1>8. QED
  BY <1>2, <1>3, <1>4, <1>5, <1>6, <1>7

\* A ranking begins with m different relevant files when its first m ranks are
\* those that count.
LEMMA BeginningsCount ==
    ASSUME NEW ret \in Retrieved, NEW rel \in SUBSET Files, NEW m \in Nat
    PROVE  Begins(ret, rel, m) <=> 1..m \subseteq FirstHits(ret, rel)
<1> DEFINE hits == FirstHits(ret, rel)
<1>1. hits \in SUBSET (1..Len(ret)) /\ Len(ret) \in Nat
  BY FirstHitsCounted, RankingOfFiles
<1> HIDE DEF hits
<1>2. ASSUME 1..m \subseteq hits
      PROVE  Len(ret) >= m
  <2>1. CASE m = 0
    BY <1>1, <2>1
  <2>2. CASE m # 0
    <3>1. m \in 1..m
      BY <2>2
    <3>2. m \in 1..Len(ret)
      BY <1>1, <1>2, <3>1
    <3>3. QED
      BY <1>1, <3>2
  <2>3. QED
    BY <2>1, <2>2
<1>3. hits \cap 1..m = 1..m <=> 1..m \subseteq hits
  OBVIOUS
<1>4. QED
  BY <1>2, <1>3 DEF Begins, hits

\* Some ranks that hold the first m, and are no more than m, are those.
LEMMA OnlyTheFirst ==
    ASSUME NEW m \in Nat, NEW N \in Nat, NEW ranks \in SUBSET (1..N),
           Cardinality(ranks) <= m, 1..m \subseteq ranks
    PROVE  ranks = 1..m
<1>1. IsFiniteSet(ranks) /\ Cardinality(ranks) \in Nat
  BY RanksCounted
<1>2. Cardinality(1..m) = m
  BY FS_Interval
<1>3. 1..m \in SUBSET ranks
  OBVIOUS
<1>4. Cardinality(1..m) <= Cardinality(ranks)
  BY <1>1, <1>3, FS_Subset
<1>5. Cardinality(1..m) = Cardinality(ranks)
  BY <1>1, <1>2, <1>4
<1>6. QED
  BY <1>1, <1>3, <1>5, FS_Subset

\* Average precision: a fraction, whole for the rankings that begin with the
\* relevant files.
LEMMA AveragesAreHonest ==
    ASSUME NEW ret \in Retrieved, NEW rel \in SUBSET Files
    PROVE  /\ AveragePrecision(ret, rel) \in 0..Whole
           /\ rel # {} => (AveragePrecision(ret, rel) = Whole
                             <=> Begins(ret, rel, Cardinality(rel)))
<1> DEFINE hits == FirstHits(ret, rel)
           n == Cardinality(rel)
           c == Cardinality(hits)
           p == [i \in hits |-> PrecisionAt(hits, i)]
           s == SumOver(hits, p)
           w == Whole
<1>1. w \in Nat \ {0} /\ MaxRanks \in Nat
  BY MetricsAssumption
<1>2. CASE rel = {}
  BY <1>1, <1>2 DEF AveragePrecision
<1>3. CASE rel # {}
  <2>1. n \in Nat \ {0}
    BY <1>3, FilesCounted
  <2>2. hits \in SUBSET (1..MaxRanks) /\ c \in Nat /\ c <= n
    BY FirstHitsCounted
  <2>3. AveragePrecision(ret, rel) = s \div n
    BY <1>3 DEF AveragePrecision
  <2>4. Begins(ret, rel, n) <=> 1..n \subseteq hits
    BY <2>1, BeginningsCount
  <2> HIDE DEF hits
  <2>5. \A i \in hits : /\ p[i] \in 0..w
                        /\ p[i] = w <=> 1..i \subseteq hits
    BY <2>2, PrecisionOfRanks
  <2> HIDE DEF p
  <2>6. /\ s \in Nat /\ s <= w * c
        /\ s = w * c <=> \A i \in hits : p[i] = w
    <3>1. w \in Nat /\ \A i \in hits : p[i] \in 0..w
      BY <1>1, <2>5
    <3> HIDE DEF w
    <3>2. QED
      BY <2>2, <3>1, SumOfParts
  <2> HIDE DEF s, n, c, w
  <2>7. w * c <= w * n /\ (w * c = w * n => c = n)
    <3>1. w * c \in Nat /\ w * n \in Nat
      BY <1>1, <2>1, <2>2
    <3>2. c < n => w * c < w * n
      BY <1>1, <2>1, <2>2
    <3>3. c = n \/ c < n
      BY <2>1, <2>2
    <3>4. QED
      BY <3>1, <3>2, <3>3
  <2>8. s <= w * n /\ w * c \in Nat /\ w * n \in Nat
    <3>1. w * c \in Nat /\ w * n \in Nat
      BY <1>1, <2>1, <2>2
    <3>2. QED
      BY <2>6, <2>7, <3>1
  <2>9. s \div n \in 0..w /\ (s \div n = w <=> s = w * n)
    BY <2>1, <2>6, <2>8, WholeQuotient DEF w
  <2>10. ASSUME s = w * n
         PROVE  1..n \subseteq hits
    <3>1. s = w * c /\ c = n
      BY <2>6, <2>7, <2>8, <2>10
    <3>2. \A i \in hits : 1..i \subseteq hits
      BY <2>5, <2>6, <3>1
    <3>3. PICK m \in 0..MaxRanks : hits = 1..m
      BY <1>1, <2>2, <3>2, PrefixIsInterval
    <3>4. Cardinality(1..m) = m
      BY <3>3, FS_Interval
    <3>5. m = n
      BY <3>1, <3>3, <3>4 DEF c
    <3>6. QED
      BY <3>3, <3>5
  <2>11. ASSUME 1..n \subseteq hits
         PROVE  s = w * n
    <3>1. n \in Nat /\ Cardinality(hits) <= n
      BY <2>1, <2>2 DEF c
    <3>2. hits = 1..n
      BY <1>1, <2>2, <2>11, <3>1, OnlyTheFirst
    <3>3. c = n
      BY <3>1, <3>2, FS_Interval DEF c
    <3>4. \A i \in hits : 1..i \subseteq hits
      BY <2>1, <3>2
    <3>5. s = w * c
      BY <2>5, <2>6, <3>4
    <3>6. QED
      BY <3>3, <3>5
  <2>12. QED
    BY <2>3, <2>4, <2>9, <2>10, <2>11 DEF w, n
<1>4. QED
  BY <1>2, <1>3

\* Discounted gain: at most ideal, and ideal for the rankings that begin with
\* as many relevant files as the cut-off leaves.
LEMMA GainsAreHonest ==
    ASSUME NEW ret \in Retrieved, NEW rel \in SUBSET Files,
           NEW k \in 0..MaxRanks
    PROVE  /\ Dcg(ret, rel, k) <= IdealDcg(rel, k)
           /\ Dcg(ret, rel, k) = IdealDcg(rel, k)
                 <=> Begins(ret, rel, Min({Cardinality(rel), k}))
<1> DEFINE hits == FirstHits(ret, rel)
           n == Cardinality(rel)
           ranks == hits \cap 1..k
           m == Min({n, k})
<1>1. MaxRanks \in Nat /\ k \in Nat /\ n \in Nat
  BY MetricsAssumption, FilesCounted
<1>2. m = IF n <= k THEN n ELSE k
  BY <1>1, MinOfTwo
<1>3. m \in 0..MaxRanks /\ m <= n /\ m <= k /\ m \in Nat
  BY <1>1, <1>2
<1>4. /\ hits \in SUBSET (1..MaxRanks) /\ Cardinality(hits) \in Nat
      /\ Cardinality(hits) <= n
  BY FirstHitsCounted
<1>5. Begins(ret, rel, m) <=> 1..m \subseteq hits
  BY <1>3, BeginningsCount
<1>6. /\ Dcg(ret, rel, k) = SumOver(ranks, Gain)
      /\ IdealDcg(rel, k) = SumOver(1..m, Gain)
  BY DEF Dcg, IdealDcg
<1> HIDE DEF hits
<1>7. Cardinality(ranks) <= m /\ ranks \in SUBSET (1..MaxRanks)
  <2>1. ranks \in SUBSET hits /\ ranks \in SUBSET (1..k)
    OBVIOUS
  <2>2. IsFiniteSet(hits)
    BY <1>1, <1>4, RanksCounted
  <2>3. IsFiniteSet(1..k) /\ Cardinality(1..k) = k
    BY <1>1, FS_Interval, SMTT(30)
  <2> HIDE DEF ranks
  <2>4. IsFiniteSet(ranks) /\ Cardinality(ranks) <= Cardinality(hits)
    BY <2>1, <2>2, FS_Subset
  <2>5. Cardinality(ranks) <= k
    BY <2>1, <2>3, FS_Subset
  <2>6. Cardinality(ranks) \in Nat
    BY <2>4, FS_CardinalityType
  <2> HIDE DEF n, m
  <2>7. Cardinality(ranks) <= m
    BY <1>1, <1>2, <1>4, <2>4, <2>5, <2>6
  <2>8. QED
    BY <1>4, <2>1, <2>7
<1> HIDE DEF m
<1>8. 1..m \subseteq hits <=> ranks = 1..m
  <2>1. ASSUME 1..m \subseteq hits
        PROVE  ranks = 1..m
    <3>1. 1..m \subseteq ranks
      BY <1>1, <1>3, <2>1
    <3> HIDE DEF ranks
    <3>2. QED
      BY <1>1, <1>3, <1>7, <3>1, OnlyTheFirst
  <2>2. QED
    BY <2>1
<1> HIDE DEF ranks
<1>9. /\ SumOver(ranks, Gain) <= SumOver(1..m, Gain)
      /\ SumOver(ranks, Gain) = SumOver(1..m, Gain) <=> ranks = 1..m
  BY <1>3, <1>7, FirstRanksAreBest
<1>10. QED
  BY <1>5, <1>6, <1>8, <1>9 DEF m, n


\* The other scores are fractions.
LEMMA ScoresOfRanking ==
    ASSUME NEW ret \in Retrieved, NEW rel \in SUBSET Files, NEW k \in Nat
    PROVE  /\ Recall(ret, rel, k) \in 0..Whole
           /\ Precision(ret, rel, k) \in 0..Whole
           /\ ReciprocalRank(ret, rel) \in 0..Whole
           /\ ContextPrecision(ret, rel) \in 0..Whole
           /\ ContextRecall(ret, rel) \in 0..Whole
           /\ Recall(ret, rel, k) <= Recall(ret, rel, k + 1)
           /\ Len(ret) <= k => Recall(ret, rel, k) = ContextRecall(ret, rel)
           /\ IsInjective(ret) /\ Len(ret) = k
              => Precision(ret, rel, k) = ContextPrecision(ret, rel)
<1> DEFINE n == Cardinality(rel)
           found1 == FilesFound(ret, rel, k)
           found2 == FilesFound(ret, rel, k + 1)
           chunks == {i \in DOMAIN ret : ret[i] \in rel}
           all == Cardinality(Range(ret) \cap rel)
<1>1. n \in Nat /\ Whole \in Nat \ {0}
  BY FilesCounted, MetricsAssumption
<1>2. /\ ret \in Seq(Files) /\ Len(ret) \in Nat /\ DOMAIN ret = 1..Len(ret)
      /\ k + 1 \in Nat
  BY RankingOfFiles
<1>3. /\ found1 \in Nat /\ found1 <= n /\ found1 <= k /\ found1 <= found2
      /\ found2 \in Nat /\ found2 <= n
      /\ Len(ret) <= k => TopFiles(ret, k) = Range(ret)
  BY <1>2, TopFilesCounted
<1>4. /\ Cardinality(chunks) \in Nat /\ Cardinality(chunks) <= Len(ret)
      /\ IsInjective(ret) => Cardinality(chunks) = all
  BY RelevantChunks
<1>5. /\ Recall(ret, rel, k) = Share(found1, n)
      /\ Recall(ret, rel, k + 1) = Share(found2, n)
      /\ Precision(ret, rel, k) = Share(found1, k)
      /\ ContextPrecision(ret, rel) = Share(Cardinality(chunks), Len(ret))
      /\ ContextRecall(ret, rel) = Share(all, n)
  BY DEF Recall, Precision, ContextPrecision, ContextRecall
<1>6. Len(ret) <= k => found1 = all
  BY <1>3 DEF FilesFound
<1>7. ReciprocalRank(ret, rel) \in 0..Whole
  <2>1. CASE chunks = {}
    BY <1>1, <2>1 DEF ReciprocalRank
  <2>2. CASE chunks # {}
    <3>1. chunks \in SUBSET (1..Len(ret))
      BY <1>2
    <3>2. ReciprocalRank(ret, rel) = Whole \div Min(chunks)
      BY <2>2 DEF ReciprocalRank
    <3> HIDE DEF chunks
    <3>3. \E m \in chunks : \A i \in chunks : m <= i
      BY <1>2, <2>2, <3>1, SmallestExists
    <3>4. Min(chunks) \in chunks
      BY <3>3 DEF Min
    <3>11. Min(chunks) \in 1..Len(ret)
      BY ONLY <3>1, <3>4
    <3> DEFINE m == Min(chunks)
               w == Whole
    <3>5. m \in Nat \ {0}
      <4> HIDE DEF m
      <4>1. m \in 1..Len(ret)
        BY ONLY <3>11 DEF m
      <4>2. QED
        BY ONLY <4>1, <1>2
    <3>6. ReciprocalRank(ret, rel) = w \div m /\ w \in Nat \ {0}
      BY <1>1, <3>2
    <3> HIDE DEF m, w
    <3>7. w \div m \in Nat /\ m * (w \div m) <= w
      BY <3>5, <3>6
    <3> DEFINE q == w \div m
    <3> HIDE DEF q
    <3>8. q \in Nat /\ m * q <= w /\ m * q \in Nat /\ q <= m * q
      BY <3>5, <3>7 DEF q
    <3>9. q \in 0..w
      BY <3>6, <3>8
    <3>10. QED
      BY <3>6, <3>9 DEF q, w
  <2>3. QED
    BY <2>1, <2>2
<1> HIDE DEF n, found1, found2, chunks, all
<1>8. all \in Nat /\ all <= n
  <2>1. IsFiniteSet(rel) /\ Range(ret) \cap rel \in SUBSET rel
    BY FilesCounted
  <2>2. /\ IsFiniteSet(Range(ret) \cap rel)
        /\ Cardinality(Range(ret) \cap rel) <= Cardinality(rel)
    BY <2>1, FS_Subset
  <2>3. Cardinality(Range(ret) \cap rel) \in Nat
    BY <2>2, FS_CardinalityType
  <2>4. QED
    BY <2>2, <2>3 DEF all, n
<1>9. Share(found1, n) \in 0..Whole
  BY <1>1, <1>3, SharesAreFractions
<1>10. Share(found1, k) \in 0..Whole
  BY <1>3, SharesAreFractions
<1>11. Share(Cardinality(chunks), Len(ret)) \in 0..Whole
  BY <1>2, <1>4, SharesAreFractions
<1>12. Share(all, n) \in 0..Whole
  BY <1>1, <1>8, SharesAreFractions
<1>13. Share(found1, n) <= Share(found2, n)
  <2>1. found1 \in 0..found2
    BY <1>3
  <2>2. QED
    BY <1>1, <1>3, <2>1, SharesAreFractions
<1>14. IsInjective(ret) /\ Len(ret) = k => found1 = Cardinality(chunks)
  BY <1>2, <1>4, <1>6
<1>15. QED
  BY <1>5, <1>6, <1>7, <1>9, <1>10, <1>11, <1>12, <1>13, <1>14

\* The scores remembered are those of a ranking, and a label that it is correct
\* was given to an answer with its evidence.
MetricsKept ==
    /\ graded # <<>> => \E ret \in Retrieved, rel \in SUBSET Files,
                           k \in 0..MaxRanks : graded = Scores(ret, rel, k)
    /\ CorrectMeansRetrieved

\* The scores of any ranking are fractions, perfect only for perfect rankings,
\* and those of the two evaluations agree.
LEMMA KeptScoresAreHonest ==
    ASSUME MetricsKept
    PROVE  ScoresAreHonest
<1>1. SUFFICES ASSUME graded # <<>>
               PROVE  /\ ScoresAreFractions
                      /\ PerfectMeansPerfect
                      /\ EvaluationsAgree
  BY DEF MetricsKept, ScoresAreHonest, ScoresAreFractions,
         PerfectMeansPerfect, EvaluationsAgree
<1>2. PICK ret \in Retrieved, rel \in SUBSET Files, k \in 0..MaxRanks :
         graded = Scores(ret, rel, k)
  BY <1>1 DEF MetricsKept
<1>3. /\ graded.ret = ret /\ graded.rel = rel /\ graded.k = k
      /\ graded.recall = Recall(ret, rel, k)
      /\ graded.precision = Precision(ret, rel, k)
      /\ graded.mrr = ReciprocalRank(ret, rel)
      /\ graded.ap = AveragePrecision(ret, rel)
      /\ graded.dcg = Dcg(ret, rel, k) /\ graded.ideal = IdealDcg(rel, k)
      /\ graded.contextPrecision = ContextPrecision(ret, rel)
      /\ graded.contextRecall = ContextRecall(ret, rel)
  BY <1>2 DEF Scores
<1>4. k \in Nat
  OBVIOUS
<1>5. /\ Recall(ret, rel, k) \in 0..Whole
      /\ Precision(ret, rel, k) \in 0..Whole
      /\ ReciprocalRank(ret, rel) \in 0..Whole
      /\ ContextPrecision(ret, rel) \in 0..Whole
      /\ ContextRecall(ret, rel) \in 0..Whole
      /\ Recall(ret, rel, k) <= Recall(ret, rel, k + 1)
      /\ Len(ret) <= k => Recall(ret, rel, k) = ContextRecall(ret, rel)
      /\ IsInjective(ret) /\ Len(ret) = k
         => Precision(ret, rel, k) = ContextPrecision(ret, rel)
  BY <1>4, ScoresOfRanking
<1>6. /\ AveragePrecision(ret, rel) \in 0..Whole
      /\ rel # {} => (AveragePrecision(ret, rel) = Whole
                        <=> Begins(ret, rel, Cardinality(rel)))
  BY AveragesAreHonest
<1>7. /\ Dcg(ret, rel, k) <= IdealDcg(rel, k)
      /\ Dcg(ret, rel, k) = IdealDcg(rel, k)
            <=> Begins(ret, rel, Min({Cardinality(rel), k}))
  BY GainsAreHonest
<1>8. ScoresAreFractions
  BY <1>3, <1>5, <1>6, <1>7 DEF ScoresAreFractions
<1>9. PerfectMeansPerfect
  BY <1>3, <1>6, <1>7 DEF PerfectMeansPerfect
<1>10. EvaluationsAgree
  BY <1>3, <1>5 DEF EvaluationsAgree
<1>11. QED
  BY <1>8, <1>9, <1>10

\* A label is the one Classify gives.
LEMMA LabelsAreEarned ==
    ASSUME ClassifyAnswer
    PROVE  CorrectMeansRetrieved'
<1>1. PICK ret \in Retrieved, relevant \in Files \cup {""}, close \in BOOLEAN,
           says \in {"an answer", "a refusal", "nothing"}, covered \in BOOLEAN,
           available \in BOOLEAN :
         /\ covered => ret # <<>>
         /\ label' = [ret |-> ret, relevant |-> relevant,
                      available |-> available, says |-> says,
                      category |-> Classify(Answer(ret, available, says),
                                            relevant, ret, covered, close)]
  BY DEF ClassifyAnswer
<1> DEFINE answer == Answer(ret, available, says)
           category == Classify(answer, relevant, ret, covered, close)
<1>2. /\ label'.ret = ret /\ label'.relevant = relevant
      /\ label'.available = available /\ label'.says = says
      /\ label'.category = category
  BY <1>1
<1>3. category = "correct" =>
         /\ ~IsNoAnswer(answer) /\ covered
         /\ relevant \in Range(ret) \cup {""}
  BY DEF Classify
<1>4. ret # <<>> /\ ~IsNoAnswer(answer) => available /\ says = "an answer"
  BY DEF Answer, IsNoAnswer
<1> HIDE DEF category, answer
<1>5. category = "correct" => /\ available /\ says = "an answer" /\ ret # <<>>
                              /\ relevant \in Range(ret) \cup {""}
  BY <1>1, <1>3, <1>4
<1>6. QED
  BY <1>2, <1>5 DEF CorrectMeansRetrieved

\* The scores and the label for success mean what their names say, for every
\* ranking, every set of relevant files, every cut-off and every answer.
THEOREM ScoresHonest == MetricsSpec => []ScoresAreHonest
<1>1. MetricsInit => MetricsKept
  BY DEF MetricsInit, MetricsKept, CorrectMeansRetrieved
<1>2. MetricsKept /\ [MetricsNext]_metricsVars => MetricsKept'
  <2>1. SUFFICES ASSUME MetricsKept, [MetricsNext]_metricsVars
                 PROVE  MetricsKept'
    OBVIOUS
  <2>2. CASE ScoreRanking
    BY <2>1, <2>2 DEF ScoreRanking, MetricsKept, CorrectMeansRetrieved
  <2>3. CASE ClassifyAnswer
    <3>1. CorrectMeansRetrieved'
      BY <2>3, LabelsAreEarned
    <3>2. graded' = graded
      BY <2>3 DEF ClassifyAnswer
    <3>3. QED
      BY <2>1, <3>1, <3>2 DEF MetricsKept
  <2>4. CASE UNCHANGED metricsVars
    BY <2>1, <2>4 DEF metricsVars, MetricsKept, CorrectMeansRetrieved
  <2>5. QED
    BY <2>1, <2>2, <2>3, <2>4 DEF MetricsNext
<1>3. MetricsKept => ScoresAreHonest
  BY KeptScoresAreHonest
<1>4. QED
  BY <1>1, <1>2, <1>3, PTL DEF MetricsSpec
=============================================================================
