--------------------------- MODULE ServiceProofs ---------------------------
(***************************************************************************)
(* The parts of the service that keep state of their own: the WebSocket    *)
(* limit, the pool of database connections and the chat sessions, for      *)
(* every value of their constants.                                         *)
(***************************************************************************)
EXTENDS RateLimit, DbPool, ChatSessions, LoopLemmas

(* RateLimit: any limit, any window, any number of callers and questions.   *)

LimitType ==
    /\ hits \in [Buckets -> Seq(Nat)]
    /\ time \in Nat
    /\ admitted \in [Buckets -> Seq(Nat)]

\* The times q are the last ones of the times a.
IsTail(q, a) ==
    /\ Len(q) <= Len(a)
    /\ \A i \in 1..Len(q) : q[i] = a[Len(a) - Len(q) + i]

\* All but the last n accepted questions of a bucket have left the window.
OthersExpired(b, n) ==
    \A i \in 1..(Len(admitted[b]) - n) : time - admitted[b][i] > Window

InOrder(b) ==
    /\ \A i \in DOMAIN admitted[b] : admitted[b][i] <= time
    /\ \A i, k \in DOMAIN admitted[b] :
          i <= k => admitted[b][i] <= admitted[b][k]

\* A question is accepted more than a window after the one that came Limit
\* questions before it.
Spaced(b) ==
    \A i \in DOMAIN admitted[b] :
        i + Limit \in DOMAIN admitted[b] =>
            admitted[b][i + Limit] - admitted[b][i] > Window

\* What holds of one bucket.
BucketInv(b) ==
    /\ IsTail(hits[b], admitted[b])
    /\ OthersExpired(b, Len(hits[b]))
    /\ InOrder(b)
    /\ Spaced(b)

\* The inductive invariant: NoWindowExceedsLimit is about the accepted
\* questions, of which the code keeps only the last ones.
LimitInv ==
    /\ LimitType
    /\ \A b \in Buckets : BucketInv(b)
    /\ RefusalsAreDeserved

-----------------------------------------------------------------------------
\* The loop of websocket_rate_limited ends: it has dropped expired hits only,
\* and the first one it leaves counts.
LEMMA ExpiredIsPrefix ==
    ASSUME LimitType, NEW b \in Buckets
    PROVE  /\ Expired(b) \in 0..Len(hits[b])
           /\ \A i \in 1..Expired(b) : ~Counts(hits[b][i])
           /\ Expired(b) < Len(hits[b]) => Counts(hits[b][Expired(b) + 1])
<1> DEFINE q == hits[b]
           Old == {i \in 1..Len(q) : \A k \in 1..i : ~Counts(q[k])}
<1>1. q \in Seq(Nat) /\ Len(q) \in Nat
  BY DEF LimitType
<1>2. \A i \in Old : 1..i \subseteq Old
  BY <1>1
<1>3. PICK n \in 0..Len(q) : Old = 1..n
  <2> HIDE DEF Old
  <2>1. Old \in SUBSET (1..Len(q))
    BY DEF Old
  <2>2. QED
    BY <1>1, <1>2, <2>1, PrefixIsInterval
<1>4. /\ \A i \in 1..n : ~Counts(q[i])
      /\ n < Len(q) => Counts(q[n + 1])
  <2>1. \A i \in 1..n : ~Counts(q[i])
    BY <1>3
  <2>2. ASSUME n < Len(q), ~Counts(q[n + 1])
        PROVE  FALSE
    <3>1. n + 1 \in 1..Len(q) /\ n + 1 \notin 1..n
      BY <1>1, <2>2
    <3>2. \A k \in 1..(n + 1) : k \in 1..n \/ k = n + 1
      BY <1>1
    <3>3. n + 1 \in Old
      BY <2>1, <2>2, <3>1, <3>2
    <3>4. QED
      BY <1>3, <3>1, <3>3
  <2>3. QED
    BY <2>1, <2>2
<1>5. \E m \in 0..Len(hits[b]) :
         /\ \A i \in 1..m : ~Counts(hits[b][i])
         /\ m < Len(hits[b]) => Counts(hits[b][m + 1])
  BY <1>4
<1>6. QED
  BY <1>5 DEF Expired

\* What is left counts, is the end of the accepted questions, and everything
\* before it has left the window.
LEMMA PrunedIsTail ==
    ASSUME LimitInv, NEW b \in Buckets
    PROVE  /\ Pruned(b) \in Seq(Nat) /\ Len(Pruned(b)) \in Nat
           /\ IsTail(Pruned(b), admitted[b])
           /\ OthersExpired(b, Len(Pruned(b)))
           /\ \A i \in 1..Len(Pruned(b)) : Counts(Pruned(b)[i])
<1> DEFINE q == hits[b]
           a == admitted[b]
           n == Expired(b)
           L == Len(a)
           M == Len(q)
<1>1. /\ q \in Seq(Nat) /\ a \in Seq(Nat) /\ L \in Nat /\ M \in Nat
      /\ time \in Nat /\ Window \in Nat
  BY LimitAssumption DEF LimitInv, LimitType
<1>2. /\ n \in 0..M /\ n \in Nat
      /\ \A i \in 1..n : ~Counts(q[i])
      /\ n < M => Counts(q[n + 1])
  BY <1>1, ExpiredIsPrefix DEF LimitInv
<1>3. /\ M <= L /\ InOrder(b)
      /\ \A i \in 1..M : q[i] = a[(L - M) + i]
      /\ \A i \in 1..(L - M) : time - a[i] > Window
  BY DEF LimitInv, BucketInv, OthersExpired, IsTail
<1>4. Pruned(b) = SubSeq(q, n + 1, M)
  BY DEF Pruned
<1>5. /\ Pruned(b) \in Seq(Nat) /\ Len(Pruned(b)) = M - n
      /\ \A i \in 1..(M - n) : Pruned(b)[i] = q[n + i]
  <2> HIDE DEF q, n
  <2>1. /\ SubSeq(q, n + 1, M) \in Seq(Nat)
        /\ Len(SubSeq(q, n + 1, M)) = M - n
        /\ \A i \in 1..(M - n) : SubSeq(q, n + 1, M)[i] = q[n + i]
    BY <1>1, <1>2
  <2>2. QED
    BY <1>4, <2>1
<1>6. /\ \A i \in 1..M : q[i] \in Nat
      /\ DOMAIN a = 1..L
  BY <1>1
<1> HIDE DEF n, L, M, q
<1>7. IsTail(Pruned(b), a)
  <2>1. M - n <= L /\ L = Len(a)
    BY <1>1, <1>2, <1>3 DEF L
  <2>2. ASSUME NEW i \in 1..(M - n)
        PROVE  Pruned(b)[i] = a[L - (M - n) + i]
    <3>1. n + i \in 1..M /\ (L - M) + (n + i) = L - (M - n) + i
      BY <1>1, <1>2
    <3>2. q[n + i] = a[(L - M) + (n + i)]
      BY <1>3, <3>1
    <3>3. QED
      BY <1>5, <3>1, <3>2
  <2>3. QED
    BY <1>5, <2>1, <2>2 DEF IsTail
<1>8. ASSUME NEW i \in 1..(L - (M - n))
      PROVE  time - a[i] > Window
  <2>1. CASE i \in 1..(L - M)
    BY <1>3, <2>1
  <2>2. CASE i \notin 1..(L - M)
    <3>1. PICK k \in 1..n : i = (L - M) + k
      <4>1. i - (L - M) \in 1..n /\ i = (L - M) + (i - (L - M))
        BY <1>1, <1>2, <1>3, <2>2
      <4>2. QED
        BY <4>1
    <3>2. k \in 1..M
      BY <1>1, <1>2
    <3>3. a[i] = q[k] /\ q[k] \in Nat
      BY <1>3, <1>6, <3>1, <3>2
    <3>4. ~(time - q[k] <= Window)
      BY <1>2 DEF Counts
    <3>5. QED
      BY <1>1, <3>3, <3>4
  <2>3. QED
    BY <2>1, <2>2
<1>9. ASSUME NEW i \in 1..(M - n)
      PROVE  Counts(Pruned(b)[i])
  <2>1. /\ n + 1 \in 1..M /\ n + i \in 1..M
        /\ q[n + 1] \in Nat /\ q[n + i] \in Nat
    BY <1>1, <1>2, <1>6, SMTT(30)
  <2>2. q[n + 1] <= q[n + i]
    <3>1. /\ (L - M) + (n + 1) \in 1..L /\ (L - M) + (n + i) \in 1..L
          /\ (L - M) + (n + 1) <= (L - M) + (n + i)
      <4>1. M \in Nat /\ L \in Nat /\ n \in Nat /\ M <= L
        BY <1>1, <1>2, <1>3
      <4>2. i \in Nat /\ i >= 1 /\ n + i <= M
        BY <4>1
      <4>3. QED
        BY <4>1, <4>2
    <3>2. a[(L - M) + (n + 1)] <= a[(L - M) + (n + i)]
      BY <1>3, <1>6, <3>1 DEF InOrder
    <3>3. QED
      BY <1>3, <2>1, <3>2
  <2>3. Counts(q[n + 1])
    BY <1>1, <1>2, <2>1
  <2>4. time - q[n + i] <= Window
    BY <1>1, <2>1, <2>2, <2>3, SMTT(30) DEF Counts
  <2>5. QED
    BY <1>5, <2>4 DEF Counts
<1>10. QED
  <2>1. Len(Pruned(b)) \in Nat
    BY <1>1, <1>2, <1>5
  <2>2. QED
    BY <1>5, <1>7, <1>8, <1>9, <2>1 DEF OthersExpired, L

\* How many questions of a bucket came at the times from..to.
LEMMA AdmissionsCounted ==
    ASSUME LimitType, NEW b \in Buckets, NEW from, NEW to
    PROVE  /\ {i \in DOMAIN admitted[b] : admitted[b][i] \in from..to}
                 \in SUBSET (1..Len(admitted[b]))
           /\ IsFiniteSet({i \in DOMAIN admitted[b] :
                              admitted[b][i] \in from..to})
           /\ Admissions(b, from, to) \in Nat
<1> DEFINE S == {i \in DOMAIN admitted[b] : admitted[b][i] \in from..to}
<1>1. Len(admitted[b]) \in Nat /\ DOMAIN admitted[b] = 1..Len(admitted[b])
  BY DEF LimitType
<1>2. S \in SUBSET (1..Len(admitted[b]))
  BY <1>1
<1>3. IsFiniteSet(1..Len(admitted[b]))
  BY <1>1, FS_Interval
<1>4. IsFiniteSet(S)
  <2> HIDE DEF S
  <2>1. QED
    BY <1>2, <1>3, FS_Subset
<1>5. Cardinality(S) \in Nat
  <2> HIDE DEF S
  <2>1. QED
    BY <1>4, FS_CardinalityType
<1>6. QED
  BY <1>2, <1>4, <1>5 DEF Admissions

\* Accepted questions that are spaced never crowd a window.
LEMMA SpacedIsEnough ==
    ASSUME LimitInv
    PROVE  NoWindowExceedsLimit
<1>1. SUFFICES ASSUME NEW b \in Buckets, NEW from \in 0..time
               PROVE  Admissions(b, from, from + Window) <= Limit
  BY DEF NoWindowExceedsLimit
<1> DEFINE a == admitted[b]
           S == {i \in DOMAIN a : a[i] \in from..(from + Window)}
           N == Len(a)
<1>2. /\ N \in Nat /\ DOMAIN a = 1..N /\ \A i \in 1..N : a[i] \in Nat
      /\ from \in Nat /\ Window \in Nat /\ Limit \in Nat
      /\ LimitType /\ InOrder(b) /\ Spaced(b)
  BY LimitAssumption DEF LimitInv, BucketInv, LimitType
<1>3. S \in SUBSET (1..N) /\ IsFiniteSet(S)
  <2>1. LimitType /\ b \in Buckets
    BY <1>2
  <2>2. QED
    BY <2>1, AdmissionsCounted, Zenon
<1>4. CASE S = {}
  BY <1>2, <1>4, FS_EmptySet DEF Admissions
<1>5. CASE S # {}
  <2>1. PICK m \in S : \A i \in S : m <= i
    <3> HIDE DEF S, N
    <3>1. QED
      BY <1>2, <1>3, <1>5, SmallestExists
  <2>2. m \in 1..N /\ a[m] >= from
    BY <1>2, <2>1
  <2>3. \A i \in S : i \in m..(m + Limit - 1)
    <3>1. SUFFICES ASSUME NEW i \in S, i >= m + Limit
                   PROVE  FALSE
      BY <1>2, <1>3, <2>1, <2>2
    <3>2. i \in 1..N /\ m + Limit \in 1..N /\ m + Limit <= i
      BY <1>2, <2>2, <3>1
    <3>3. a[m + Limit] - a[m] > Window
      BY <1>2, <2>2, <3>2 DEF Spaced
    <3>4. a[m + Limit] <= a[i]
      BY <1>2, <3>2 DEF InOrder
    <3>5. a[i] <= from + Window
      BY <1>2, <3>1
    <3>6. a[i] \in Nat /\ a[m] \in Nat /\ a[m + Limit] \in Nat
      BY <1>2, <2>2, <3>2
    <3> HIDE DEF a
    <3>7. QED
      BY <1>2, <2>2, <3>3, <3>4, <3>5, <3>6
  <2>4. S \in SUBSET (m..(m + Limit - 1))
    BY <2>3
  <2>5. /\ IsFiniteSet(m..(m + Limit - 1))
        /\ Cardinality(m..(m + Limit - 1)) =
              IF m > m + Limit - 1 THEN 0 ELSE (m + Limit - 1) - m + 1
    <3>1. m \in Int /\ m + Limit - 1 \in Int
      BY <1>2, <2>2
    <3>2. QED
      BY <3>1, FS_Interval
  <2>6. Cardinality(m..(m + Limit - 1)) = Limit
    BY <1>2, <2>2, <2>5
  <2>7. Cardinality(S) <= Cardinality(m..(m + Limit - 1))
    <3> HIDE DEF S
    <3>1. QED
      BY <2>4, <2>5, FS_Subset
  <2>8. QED
    BY <2>6, <2>7 DEF Admissions
<1>6. QED
  BY <1>4, <1>5

\* An accepted question comes more than a window after the one that came Limit
\* questions before it, which is not among the fewer than Limit that count.
LEMMA AcceptKeepsBucket ==
    ASSUME LimitInv, NEW b \in Buckets, Accept(b)
    PROVE  BucketInv(b)'
<1> DEFINE a == admitted[b]
           p == Pruned(b)
           L == Len(a)
           P == Len(p)
<1>1. /\ a \in Seq(Nat) /\ L \in Nat /\ time \in Nat /\ Window \in Nat
      /\ Limit \in Nat /\ DOMAIN a = 1..L /\ \A i \in 1..L : a[i] \in Nat
      /\ InOrder(b) /\ Spaced(b)
  BY LimitAssumption DEF LimitInv, BucketInv, LimitType
<1>2. /\ p \in Seq(Nat) /\ P \in Nat /\ P <= L /\ P < Limit
      /\ \A i \in 1..P : p[i] = a[L - P + i]
      /\ \A i \in 1..(L - P) : time - a[i] > Window
  BY PrunedIsTail DEF Accept, IsTail, OthersExpired
<1>3. /\ hits'[b] = Append(p, time) /\ admitted'[b] = Append(a, time)
      /\ time' = time
  BY DEF Accept, LimitInv, LimitType
<1> HIDE DEF a, p
<1>4. /\ Len(hits'[b]) = P + 1 /\ Len(admitted'[b]) = L + 1
      /\ \A i \in 1..P : hits'[b][i] = p[i]
      /\ \A i \in 1..L : admitted'[b][i] = a[i]
      /\ hits'[b][P + 1] = time /\ admitted'[b][L + 1] = time
      /\ DOMAIN admitted'[b] = 1..(L + 1)
  BY <1>1, <1>2, <1>3
<1> HIDE DEF L, P
<1>5. IsTail(hits[b], admitted[b])'
  <2>1. ASSUME NEW i \in 1..(P + 1)
        PROVE  hits'[b][i] = admitted'[b][(L + 1) - (P + 1) + i]
    <3>1. CASE i \in 1..P
      <4>1. (L + 1) - (P + 1) + i = L - P + i /\ L - P + i \in 1..L
        BY <1>1, <1>2, <3>1
      <4>2. QED
        BY <1>2, <1>4, <3>1, <4>1
    <3>2. CASE i = P + 1
      <4>1. (L + 1) - (P + 1) + i = L + 1
        BY <1>1, <1>2, <3>2
      <4>2. QED
        BY <1>4, <3>2, <4>1
    <3>3. QED
      BY <1>2, <3>1, <3>2
  <2>2. P + 1 <= L + 1
    BY <1>1, <1>2
  <2>3. QED
    BY <1>4, <2>1, <2>2 DEF IsTail
<1>6. OthersExpired(b, Len(hits[b]))'
  <2>1. ASSUME NEW i \in 1..((L + 1) - (P + 1))
        PROVE  time' - admitted'[b][i] > Window
    <3>1. i \in 1..(L - P) /\ i \in 1..L
      BY <1>1, <1>2
    <3>2. QED
      BY <1>2, <1>3, <1>4, <3>1
  <2>2. QED
    BY <1>4, <2>1 DEF OthersExpired
<1>7. InOrder(b)'
  <2>1. \A i \in 1..L : a[i] <= time
    BY <1>1 DEF InOrder, a
  <2>2. \A i, k \in 1..L : i <= k => a[i] <= a[k]
    BY <1>1 DEF InOrder, a
  <2>3. \A i \in 1..(L + 1) : i \in 1..L \/ i = L + 1
    BY <1>1
  <2>4. \A i \in 1..(L + 1) : admitted'[b][i] <= time
    BY <1>1, <1>4, <2>1, <2>3
  <2>5. ASSUME NEW i \in 1..(L + 1), NEW k \in 1..(L + 1), i <= k
        PROVE  admitted'[b][i] <= admitted'[b][k]
    <3>1. CASE k = L + 1
      BY <1>4, <2>4, <3>1
    <3>2. CASE k \in 1..L
      <4>1. i \in 1..L
        BY <1>1, <2>5, <3>2
      <4>2. QED
        BY <1>4, <2>2, <2>5, <3>2, <4>1
    <3>3. QED
      BY <2>3, <3>1, <3>2
  <2>6. QED
    BY <1>3, <1>4, <2>4, <2>5 DEF InOrder
<1>8. Spaced(b)'
  <2>1. ASSUME NEW i \in 1..(L + 1), i + Limit \in 1..(L + 1)
        PROVE  admitted'[b][i + Limit] - admitted'[b][i] > Window
    <3>1. CASE i + Limit \in 1..L
      <4>1. i \in 1..L
        BY <1>1, <3>1
      <4>2. a[i + Limit] - a[i] > Window
        BY <1>1, <3>1, <4>1 DEF Spaced, a
      <4>3. QED
        BY <1>4, <3>1, <4>1, <4>2
    <3>2. CASE i + Limit = L + 1
      <4>1. i \in 1..(L - P) /\ i \in 1..L
        BY <1>1, <1>2, <3>2
      <4>2. QED
        BY <1>2, <1>4, <3>2, <4>1
    <3>3. QED
      BY <1>1, <2>1, <3>1, <3>2
  <2>2. QED
    BY <1>4, <2>1 DEF Spaced
<1>9. QED
  BY <1>5, <1>6, <1>7, <1>8 DEF BucketInv

\* A refusal drops expired hits only.
LEMMA RefuseKeepsBucket ==
    ASSUME LimitInv, NEW b \in Buckets, Refuse(b)
    PROVE  BucketInv(b)'
<1>1. /\ hits'[b] = Pruned(b) /\ UNCHANGED <<time, admitted>>
  BY DEF Refuse, LimitInv, LimitType
<1>2. /\ IsTail(Pruned(b), admitted[b]) /\ OthersExpired(b, Len(Pruned(b)))
      /\ InOrder(b) /\ Spaced(b)
  BY PrunedIsTail DEF LimitInv, BucketInv
<1>3. QED
  BY <1>1, <1>2 DEF BucketInv, IsTail, OthersExpired, InOrder, Spaced

\* The questions that count when one is refused reach the limit.
LEMMA RefusalIsDeserved ==
    ASSUME LimitInv, NEW b \in Buckets, Refuse(b)
    PROVE  RefusalsAreDeserved'
<1> DEFINE a == admitted[b]
           p == Pruned(b)
           L == Len(a)
           P == Len(p)
<1>1. /\ L \in Nat /\ time \in Nat /\ Window \in Nat /\ Limit \in Nat
      /\ DOMAIN a = 1..L /\ \A i \in 1..L : a[i] \in Nat /\ a[i] <= time
      /\ LimitType
  BY LimitAssumption DEF LimitInv, BucketInv, LimitType, InOrder
<1>2. /\ P \in Nat /\ P <= L /\ P >= Limit
      /\ \A i \in 1..P : p[i] = a[L - P + i] /\ time - p[i] <= Window
  BY PrunedIsTail DEF Refuse, IsTail, Counts
<1>3. refused' = b /\ UNCHANGED <<time, admitted>>
  BY DEF Refuse
<1> HIDE DEF p, P
<1>4. ASSUME NEW i \in (L - P + 1)..L
      PROVE  i \in 1..L /\ time - a[i] <= Window
  <2> HIDE DEF L, a
  <2>1. i \in 1..L /\ i - (L - P) \in 1..P /\ L - P + (i - (L - P)) = i
    BY <1>1, <1>2
  <2>2. p[i - (L - P)] = a[i] /\ time - p[i - (L - P)] <= Window
    BY <1>2, <2>1
  <2>3. QED
    BY <2>1, <2>2
<1>5. PICK from \in 0..time :
         /\ from + Window >= time
         /\ \A i \in (L - P + 1)..L : a[i] >= from
  <2> HIDE DEF L, a
  <2>1. CASE time <= Window
    <3>1. 0 \in 0..time /\ 0 + Window >= time
      BY <1>1, <2>1
    <3>2. \A i \in (L - P + 1)..L : a[i] >= 0
      BY <1>1, <1>4
    <3>3. QED
      BY <3>1, <3>2
  <2>2. CASE time > Window
    <3>1. time - Window \in 0..time /\ (time - Window) + Window >= time
      BY <1>1, <2>2
    <3>2. \A i \in (L - P + 1)..L : a[i] >= time - Window
      BY <1>1, <1>4
    <3>3. QED
      BY <3>1, <3>2
  <2>3. QED
    BY <1>1, <2>1, <2>2
<1> DEFINE S == {i \in DOMAIN a : a[i] \in from..time}
<1>6. (L - P + 1)..L \in SUBSET S
  <2>1. SUFFICES ASSUME NEW i \in (L - P + 1)..L
                 PROVE  i \in 1..L /\ a[i] \in from..time
    BY <1>1
  <2>2. i \in 1..L
    BY <1>1, <1>2
  <2>3. a[i] \in Nat /\ a[i] <= time /\ a[i] >= from
    BY <1>1, <1>5, <2>2
  <2> HIDE DEF a
  <2>4. QED
    BY <1>1, <2>2, <2>3
<1>7. IsFiniteSet(S) /\ Cardinality(S) \in Nat
  <2>1. LimitType /\ b \in Buckets
    BY <1>1
  <2>2. QED
    BY <2>1, AdmissionsCounted, Zenon DEF Admissions
<1>8. Cardinality((L - P + 1)..L) = P
  <2>1. L - P + 1 \in Int /\ L \in Int
    BY <1>1, <1>2
  <2> HIDE DEF L
  <2>2. Cardinality((L - P + 1)..L) =
           IF L - P + 1 > L THEN 0 ELSE L - (L - P + 1) + 1
    BY <2>1, FS_Interval
  <2>3. QED
    BY <1>1, <1>2, <2>1, <2>2
<1>9. Cardinality((L - P + 1)..L) <= Cardinality(S)
  <2> HIDE DEF S, L
  <2>1. QED
    BY <1>6, <1>7, FS_Subset
<1>10. Admissions(b, from, time) >= Limit
  <2> HIDE DEF L
  <2>1. Cardinality(S) >= Limit
    <3> HIDE DEF S
    <3>1. QED
      BY <1>1, <1>2, <1>7, <1>8, <1>9
  <2>2. QED
    BY <2>1 DEF Admissions
<1>11. QED
  BY <1>3, <1>5, <1>10 DEF RefusalsAreDeserved, Admissions

\* Time only moves the accepted questions further out of the window.
LEMMA TimeKeepsBucket ==
    ASSUME LimitInv, NEW b \in Buckets, TimePasses
    PROVE  BucketInv(b)'
<1> DEFINE a == admitted[b]
<1>1. /\ UNCHANGED <<hits, admitted>> /\ time' = time + 1
      /\ time \in Nat /\ Window \in Nat
      /\ Len(a) \in Nat /\ DOMAIN a = 1..Len(a)
      /\ Len(hits[b]) \in Nat /\ Len(hits[b]) <= Len(a)
      /\ \A i \in 1..Len(a) : a[i] \in Nat
  BY LimitAssumption
     DEF TimePasses, LimitInv, BucketInv, LimitType, IsTail
<1>2. BucketInv(b)
  BY DEF LimitInv
<1>3. IsTail(hits[b], admitted[b])' /\ Spaced(b)'
  BY <1>1, <1>2 DEF BucketInv, IsTail, Spaced
<1>4. OthersExpired(b, Len(hits[b]))'
  <2>1. ASSUME NEW i \in 1..(Len(a) - Len(hits[b]))
        PROVE  (time + 1) - a[i] > Window
    <3>1. i \in 1..Len(a) /\ time - a[i] > Window
      BY <1>1, <1>2 DEF BucketInv, OthersExpired
    <3> HIDE DEF a
    <3>2. QED
      BY <1>1, <3>1
  <2>2. QED
    BY <1>1, <2>1 DEF OthersExpired
<1>5. InOrder(b)'
  <2>1. \A i \in 1..Len(a) : a[i] <= time + 1
    <3>1. \A i \in 1..Len(a) : a[i] <= time
      BY <1>1, <1>2 DEF BucketInv, InOrder
    <3> HIDE DEF a
    <3>2. QED
      BY <1>1, <3>1
  <2>2. QED
    BY <1>1, <1>2, <2>1 DEF BucketInv, InOrder
<1>6. QED
  BY <1>3, <1>4, <1>5 DEF BucketInv

\* A process that starts has accepted nothing.
LEMMA EmptyBucket ==
    ASSUME NEW b \in Buckets, hits[b] = <<>>, admitted[b] = <<>>
    PROVE  BucketInv(b)
  BY DEF BucketInv, IsTail, OthersExpired, InOrder, Spaced

\* What a call does to its bucket leaves the others alone.
LEMMA OthersUntouched ==
    ASSUME LimitInv, NEW b \in Buckets,
           hits'[b] = hits[b], admitted'[b] = admitted[b], time' = time
    PROVE  BucketInv(b)'
  BY DEF LimitInv, BucketInv, IsTail, OthersExpired, InOrder, Spaced

\* A refusal is explained until the next step.
LEMMA NothingRefused ==
    ASSUME refused' = NoBucket
    PROVE  RefusalsAreDeserved'
  BY DEF RefusalsAreDeserved

\* The accepted questions and the hits stay sequences of times.
LEMMA LimitTypeKept ==
    ASSUME LimitInv, [LimitNext]_limitVars
    PROVE  LimitType'
<1>1. LimitType /\ time \in Nat
  BY DEF LimitInv, LimitType
<1>2. ASSUME NEW b \in Buckets, Accept(b)
      PROVE  LimitType'
  <2>1. Append(Pruned(b), time) \in Seq(Nat)
    BY <1>1, PrunedIsTail
  <2>2. Append(admitted[b], time) \in Seq(Nat)
    BY <1>1 DEF LimitType
  <2>3. QED
    BY <1>1, <1>2, <2>1, <2>2 DEF Accept, LimitType
<1>3. ASSUME NEW b \in Buckets, Refuse(b)
      PROVE  LimitType'
  BY <1>1, <1>3, PrunedIsTail DEF Refuse, LimitType
<1>4. CASE TimePasses
  BY <1>1, <1>4 DEF TimePasses, LimitType
<1>5. CASE ForgetHits
  BY <1>5 DEF ForgetHits, LimitType
<1>6. CASE UNCHANGED limitVars
  BY <1>1, <1>6 DEF limitVars, LimitType
<1>7. QED
  BY <1>2, <1>3, <1>4, <1>5, <1>6 DEF LimitNext

\* No step ends the invariant.
LEMMA LimitStep ==
    ASSUME LimitInv, [LimitNext]_limitVars
    PROVE  LimitInv'
<1>1. LimitType'
  BY LimitTypeKept
<1>2. ASSUME NEW b \in Buckets, Accept(b)
      PROVE  (\A c \in Buckets : BucketInv(c)') /\ RefusalsAreDeserved'
  <2>1. BucketInv(b)'
    BY <1>2, AcceptKeepsBucket
  <2>2. ASSUME NEW c \in Buckets, c # b
        PROVE  BucketInv(c)'
    <3>1. /\ hits'[c] = hits[c] /\ admitted'[c] = admitted[c]
          /\ time' = time
      BY <1>2, <2>2 DEF Accept, LimitInv, LimitType
    <3>2. QED
      BY <3>1, OthersUntouched
  <2>3. RefusalsAreDeserved'
    BY <1>2, NothingRefused DEF Accept
  <2>4. QED
    BY <2>1, <2>2, <2>3
<1>3. ASSUME NEW b \in Buckets, Refuse(b)
      PROVE  (\A c \in Buckets : BucketInv(c)') /\ RefusalsAreDeserved'
  <2>1. BucketInv(b)'
    BY <1>3, RefuseKeepsBucket
  <2>2. ASSUME NEW c \in Buckets, c # b
        PROVE  BucketInv(c)'
    <3>1. /\ hits'[c] = hits[c] /\ admitted'[c] = admitted[c]
          /\ time' = time
      BY <1>3, <2>2 DEF Refuse, LimitInv, LimitType
    <3>2. QED
      BY <3>1, OthersUntouched
  <2>3. RefusalsAreDeserved'
    BY <1>3, RefusalIsDeserved
  <2>4. QED
    BY <2>1, <2>2, <2>3
<1>4. CASE TimePasses
  BY <1>1, <1>4, TimeKeepsBucket, NothingRefused DEF LimitInv, TimePasses
<1>5. CASE ForgetHits
  <2>1. \A b \in Buckets : hits'[b] = <<>> /\ admitted'[b] = <<>>
    BY <1>5 DEF ForgetHits
  <2>2. ASSUME NEW b \in Buckets
        PROVE  BucketInv(b)'
    <3>1. hits'[b] = <<>> /\ admitted'[b] = <<>>
      BY <2>1
    <3>2. IsTail(hits[b], admitted[b])' /\ OthersExpired(b, Len(hits[b]))'
      BY <3>1 DEF IsTail, OthersExpired
    <3>3. InOrder(b)' /\ Spaced(b)'
      BY <3>1 DEF InOrder, Spaced
    <3>4. QED
      BY <3>2, <3>3 DEF BucketInv
  <2>3. QED
    BY <1>1, <1>5, <2>2, NothingRefused DEF LimitInv, ForgetHits
<1>6. CASE UNCHANGED limitVars
  <2>1. \A b \in Buckets : BucketInv(b)'
    BY <1>6, OthersUntouched DEF limitVars
  <2>2. RefusalsAreDeserved'
    BY <1>6
       DEF limitVars, LimitInv, RefusalsAreDeserved, Admissions
  <2>3. QED
    BY <1>1, <2>1, <2>2 DEF LimitInv
<1>7. QED
  BY <1>1, <1>2, <1>3, <1>4, <1>5, <1>6 DEF LimitNext, LimitInv

\* The invariant of the limit is inductive.
THEOREM LimitInvariance == LimitSpec => []LimitInv
<1>1. LimitInit => LimitInv
  <2>1. SUFFICES ASSUME LimitInit
                 PROVE  LimitInv
    OBVIOUS
  <2>2. LimitType
    BY <2>1 DEF LimitInit, LimitType
  <2>3. \A b \in Buckets : BucketInv(b)
    BY <2>1, EmptyBucket DEF LimitInit
  <2>4. RefusalsAreDeserved
    BY <2>1 DEF LimitInit, RefusalsAreDeserved
  <2>5. QED
    BY <2>2, <2>3, <2>4 DEF LimitInv
<1>2. LimitInv /\ [LimitNext]_limitVars => LimitInv'
  BY LimitStep
<1>3. QED
  BY <1>1, <1>2, PTL DEF LimitSpec

\* websocket_rate_limited never lets more than the limit through in a window,
\* and never refuses a question unless that many were answered in it.
THEOREM LimitIsFair == LimitSpec => []RateLimitIsFair
<1>1. LimitInv => RateLimitIsFair
  BY SpacedIsEnough DEF RateLimitIsFair, LimitInv
<1>2. QED
  BY <1>1, LimitInvariance, PTL

-----------------------------------------------------------------------------
(* DbPool: any number of proxies and all bounds that _pool_bounds accepts.  *)

PoolType ==
    /\ pool \in {"none", "open", "closed"}
    /\ idle \subseteq Conns /\ used \subseteq Conns
    /\ handle \in [Handles -> Conns \cup {Cleared}]
    /\ open \subseteq Handles
    /\ lost \subseteq Conns
    /\ exhausted \in BOOLEAN

\* A proxy is open exactly while it has a connection, and the pool has given
\* this one out, to nobody else.  A lost one still counts as given out.
OwnersHaveTheirConnection ==
    /\ \A h \in Handles : h \in open <=> handle[h] # Cleared
    /\ \A h \in open : handle[h] \in used \ lost
    /\ \A g, h \in open : g # h => handle[g] # handle[h]
    /\ lost \subseteq used

\* Until the pool is closed, as many connections are out as proxies are open
\* and returns have failed.  (putconn on a closed pool raises, and leaves the
\* connection where it is.)
UsedCountsOwners ==
    /\ IsFiniteSet(open)
    /\ pool # "closed" =>
        Cardinality(used) = Cardinality(open) + Cardinality(lost)
    /\ pool = "none" => idle = {} /\ used = {}

\* The inductive invariant.
PoolInv ==
    /\ PoolType
    /\ idle \cap used = {}
    /\ OwnersHaveTheirConnection
    /\ UsedCountsOwners
    /\ OnlyFailedReturnsLeak

-----------------------------------------------------------------------------
\* Connections are finitely many, and so are those in any part of the pool.
LEMMA PoolSetsAreFinite ==
    ASSUME NEW S \in SUBSET Conns
    PROVE  IsFiniteSet(S) /\ Cardinality(S) \in Nat
BY PoolAssumption, FS_Subset, FS_CardinalityType

\* get_conn finds nothing only when the pool has given out all it may.
LEMMA NothingAvailable ==
    ASSUME PoolInv, ~\E c \in Conns : Available(c)
    PROVE  Cardinality(used) = MaxConn
<1>1. used \subseteq Conns /\ idle \subseteq Conns
  BY DEF PoolInv, PoolType
<1>2. idle = {} /\ (Cardinality(used) < MaxConn => used = Conns)
  BY <1>1 DEF Available
<1>3. Cardinality(used) \in Nat /\ Cardinality(Conns) \in Nat
  BY <1>1, PoolSetsAreFinite
<1>4. Cardinality(used) <= MaxConn
  <2>1. idle \cup used = used
    BY <1>2
  <2>2. QED
    BY <2>1 DEF PoolInv, OnlyFailedReturnsLeak
<1>5. ~(Cardinality(used) < MaxConn)
  BY <1>2, <1>3, PoolAssumption
<1>6. QED
  BY <1>3, <1>4, <1>5, PoolAssumption

\* A connection that is given out was waiting, or is a new one within the
\* bound.
LEMMA GetConnPreserves ==
    ASSUME PoolInv, NEW h \in Handles, GetConn(h)
    PROVE  PoolInv'
<1> USE PoolAssumption, ClearedAssumption
<1>1. PICK c \in Conns : /\ Available(c) /\ idle' = idle \ {c}
                         /\ used' = used \cup {c}
                         /\ handle' = [handle EXCEPT ![h] = c]
  BY DEF GetConn
<1>2. /\ pool = "open" /\ pool' = "open" /\ h \notin open
      /\ open' = open \cup {h} /\ exhausted' = FALSE /\ lost' = lost
  BY DEF GetConn
<1>3. c \notin used
  BY <1>1 DEF Available, PoolInv
<1>4. PoolType'
  BY <1>1, <1>2 DEF PoolInv, PoolType
<1>5. (idle \cap used = {})'
  BY <1>1, <1>3 DEF PoolInv
<1>6. OwnersHaveTheirConnection'
  BY <1>1, <1>2, <1>3 DEF PoolInv, PoolType, OwnersHaveTheirConnection
<1>7. UsedCountsOwners'
  <2>1. /\ IsFiniteSet(open) /\ IsFiniteSet(used)
        /\ Cardinality(open) \in Nat /\ Cardinality(lost) \in Nat
    BY PoolSetsAreFinite, FS_CardinalityType
       DEF PoolInv, PoolType, UsedCountsOwners
  <2>2. /\ IsFiniteSet(open') /\ Cardinality(open') = Cardinality(open) + 1
        /\ Cardinality(used') = Cardinality(used) + 1
    BY <1>1, <1>2, <1>3, <2>1, FS_AddElement
  <2>3. QED
    BY <1>2, <2>1, <2>2 DEF PoolInv, UsedCountsOwners
<1>8. OnlyFailedReturnsLeak'
  <2>1. CASE c \in idle
    <3>1. idle' \cup used' = idle \cup used
      BY <1>1, <2>1
    <3>2. QED
      BY <1>2, <3>1 DEF PoolInv, OnlyFailedReturnsLeak
  <2>2. CASE idle = {} /\ Cardinality(used) < MaxConn
    <3>1. idle' \cup used' = used \cup {c}
      BY <1>1, <2>2
    <3>2. Cardinality(used) \in Nat /\ IsFiniteSet(used)
      BY PoolSetsAreFinite DEF PoolInv, PoolType
    <3>3. Cardinality(idle' \cup used') <= MaxConn
      <4>1. Cardinality(used \cup {c}) = Cardinality(used) + 1
        BY <3>2, <1>3, FS_AddElement
      <4>2. QED
        BY <4>1, <2>2, <3>1, <3>2
    <3>4. QED
      BY <1>2, <3>3 DEF OnlyFailedReturnsLeak
  <2>3. QED
    BY <1>1, <2>1, <2>2 DEF Available
<1>9. QED
  BY <1>4, <1>5, <1>6, <1>7, <1>8 DEF PoolInv

\* A connection leaves its owner: put back, discarded or lost.  Closing a proxy
\* after the pool is closed only forgets the proxy.
LEMMA ClosePreserves ==
    ASSUME PoolInv, NEW h \in Handles, Close(h)
    PROVE  PoolInv'
<1> USE PoolAssumption, ClearedAssumption
<1> DEFINE c == handle[h]
<1>1. /\ h \in open /\ c \in used \ lost /\ c \in Conns /\ c \notin idle
      /\ \A g \in open : g # h => handle[g] # c
  BY DEF Close, PoolInv, PoolType, OwnersHaveTheirConnection
<1>2. /\ handle' = [handle EXCEPT ![h] = Cleared] /\ open' = open \ {h}
      /\ exhausted' = FALSE /\ pool' = pool
  BY DEF Close
<1>3. \/ /\ pool = "open" /\ used' = used \ {c} /\ lost' = lost
         /\ idle' \in {idle, idle \cup {c}}
      \/ /\ pool = "open" /\ used' = used /\ lost' = lost \cup {c}
         /\ idle' = idle
      \/ pool # "open" /\ used' = used /\ lost' = lost /\ idle' = idle
  BY <1>1 DEF Close, PutConn, PutBack, Discard, PutRaises
<1>4. PoolType'
  BY <1>1, <1>2, <1>3 DEF PoolInv, PoolType
<1>5. (idle \cap used = {})'
  BY <1>1, <1>3 DEF PoolInv
<1>6. OwnersHaveTheirConnection'
  BY <1>1, <1>2, <1>3 DEF PoolInv, PoolType, OwnersHaveTheirConnection
<1>7. UsedCountsOwners'
  <2>1. /\ IsFiniteSet(open) /\ IsFiniteSet(used) /\ IsFiniteSet(lost)
        /\ Cardinality(open) \in Nat /\ Cardinality(used) \in Nat
        /\ Cardinality(lost) \in Nat
    BY PoolSetsAreFinite, FS_CardinalityType
       DEF PoolInv, PoolType, UsedCountsOwners
  <2>2. /\ IsFiniteSet(open') /\ Cardinality(open') = Cardinality(open) - 1
        /\ Cardinality(used \ {c}) = Cardinality(used) - 1
    BY <1>1, <1>2, <2>1, FS_RemoveElement
  <2>3. Cardinality(lost \cup {c}) = Cardinality(lost) + 1
    BY <1>1, <2>1, FS_AddElement
  <2>4. pool # "none"
    BY <1>1 DEF PoolInv, UsedCountsOwners
  <2>5. pool = "open" =>
            Cardinality(used') = Cardinality(open') + Cardinality(lost')
    BY <1>3, <2>1, <2>2, <2>3 DEF PoolInv, UsedCountsOwners
  <2>6. QED
    BY <1>2, <2>2, <2>4, <2>5 DEF PoolInv, PoolType, UsedCountsOwners
<1>8. OnlyFailedReturnsLeak'
  <2>1. idle' \cup used' \subseteq idle \cup used
    BY <1>1, <1>3
  <2>2. idle \cup used \subseteq Conns
    BY DEF PoolInv, PoolType
  <2>3. /\ Cardinality(idle' \cup used') <= Cardinality(idle \cup used)
        /\ Cardinality(idle' \cup used') \in Nat
        /\ Cardinality(idle \cup used) \in Nat
    BY <2>1, <2>2, PoolSetsAreFinite, FS_Subset
  <2>4. QED
    BY <1>2, <2>3 DEF PoolInv, OnlyFailedReturnsLeak
<1>9. QED
  BY <1>4, <1>5, <1>6, <1>7, <1>8 DEF PoolInv

\* The pool opens with its minimum of connections, all of them waiting.
LEMMA WarmUpPreserves ==
    ASSUME PoolInv, WarmUpPool
    PROVE  PoolInv'
<1> USE PoolAssumption
<1>1. /\ used' = {} /\ idle' \in SUBSET Conns /\ Cardinality(idle') = MinConn
      /\ pool' = "open" /\ UNCHANGED <<used, handle, open, lost, exhausted>>
  BY DEF WarmUpPool, PoolInv, UsedCountsOwners
<1>2. idle' \cup used' = idle'
  BY <1>1
<1>3. PoolType' /\ OwnersHaveTheirConnection' /\ (idle \cap used = {})'
  BY <1>1 DEF PoolInv, PoolType, OwnersHaveTheirConnection
<1>4. UsedCountsOwners'
  BY <1>1 DEF WarmUpPool, PoolInv, UsedCountsOwners
<1>5. OnlyFailedReturnsLeak'
  BY <1>1, <1>2 DEF PoolInv, OnlyFailedReturnsLeak
<1>6. QED
  BY <1>3, <1>4, <1>5 DEF PoolInv

\* A fresh process has no pool.
LEMMA FreshPool ==
    ASSUME pool = "none", idle = {}, used = {}, open = {}, lost = {},
           exhausted = FALSE, handle = [h \in Handles |-> Cleared]
    PROVE  PoolInv
<1>1. /\ IsFiniteSet(open) /\ Cardinality(open) = 0
      /\ Cardinality(used) = 0 /\ Cardinality(lost) = 0
  BY FS_EmptySet
<1>2. idle \cup used = {} /\ Cardinality(idle \cup used) = 0
  BY FS_EmptySet
<1>3. OnlyFailedReturnsLeak
  BY <1>2, PoolAssumption DEF OnlyFailedReturnsLeak
<1>4. Cardinality(used) = Cardinality(open) + Cardinality(lost)
  BY <1>1
<1>5. QED
  BY <1>1, <1>3, <1>4
     DEF PoolInv, PoolType, OwnersHaveTheirConnection, UsedCountsOwners

-----------------------------------------------------------------------------
\* The pool, its owners, the failed returns and the counts agree after any
\* sequence of get_conn, close (twice, late, or with a putconn that raises or
\* discards), exhaustion, shutdown and restart.
THEOREM PoolInvariance == PoolSpec => []PoolInv
<1>1. PoolInit => PoolInv
  BY FreshPool DEF PoolInit
<1>2. PoolInv /\ [PoolNext]_poolVars => PoolInv'
  <2> SUFFICES ASSUME PoolInv, [PoolNext]_poolVars
               PROVE  PoolInv'
    OBVIOUS
  <2>1. CASE WarmUpPool
    BY <2>1, WarmUpPreserves
  <2>2. CASE GetConnRaises
    <3>1. Cardinality(open) + Cardinality(lost) = MaxConn
      BY <2>2, NothingAvailable DEF GetConnRaises, PoolInv, UsedCountsOwners
    <3>2. QED
      BY <2>2, <3>1
         DEF GetConnRaises, PoolInv, PoolType, OwnersHaveTheirConnection,
             UsedCountsOwners, OnlyFailedReturnsLeak
  <2>3. CASE CloseAll \/ UNCHANGED poolVars
    BY <2>3
       DEF CloseAll, poolVars, PoolInv, PoolType, OwnersHaveTheirConnection,
           UsedCountsOwners, OnlyFailedReturnsLeak
  <2>4. CASE PoolRestart
    <3>1. /\ (pool = "none")' /\ (idle = {})' /\ (used = {})' /\ (open = {})'
          /\ (lost = {})' /\ (exhausted = FALSE)'
          /\ (handle = [h \in Handles |-> Cleared])'
      BY <2>4 DEF PoolRestart
    <3>2. /\ IsFiniteSet(open') /\ Cardinality(open') = 0
          /\ Cardinality(used') = 0 /\ Cardinality(lost') = 0
          /\ Cardinality(idle' \cup used') = 0
      <4>1. idle' \cup used' = {}
        BY <3>1
      <4>2. QED
        BY <3>1, <4>1, FS_EmptySet
    <3>3. OnlyFailedReturnsLeak'
      BY <3>1, <3>2, PoolAssumption DEF OnlyFailedReturnsLeak
    <3>4. Cardinality(used') = Cardinality(open') + Cardinality(lost')
      BY <3>2
    <3>5. QED
      BY <3>1, <3>2, <3>3, <3>4
         DEF PoolInv, PoolType, OwnersHaveTheirConnection, UsedCountsOwners
  <2>5. QED
    BY <2>1, <2>2, <2>3, <2>4, GetConnPreserves, ClosePreserves DEF PoolNext
<1>3. QED
  BY <1>1, <1>2, PTL DEF PoolSpec

\* No connection has two owners, none that is out or lost is also waiting, each
\* slot that get_conn misses is with an owner or went with a failed return, and
\* the server never sees more connections than DB_POOL_MAX.
THEOREM EveryConnectionAccounted == PoolSpec => []ConnectionsAreAccounted
<1>1. PoolInv => ConnectionsAreAccounted
  BY DEF PoolInv, OwnersHaveTheirConnection, OnlyFailedReturnsLeak,
     ConnectionsAreAccounted, HandlesAreExclusive
<1>2. QED
  BY <1>1, PoolInvariance, PTL

-----------------------------------------------------------------------------
(* ChatSessions: any callers, sessions, streams and even limits.             *)
\* The types of the rows, and what a stream remembers of its question.
Rows == [number : Nat, role : {"user", "assistant"}, by : Callers]
Streamed == [number : Nat, session : Sessions, by : Callers]

ChatType ==
    /\ owner \in [Sessions -> {NoOwner} \cup {Key(c) : c \in Callers}]
    /\ talk \in [Sessions -> Seq(Rows)]
    /\ streaming \in [Streams -> {Silent} \cup Streamed]
    /\ asked \in Nat
    /\ \A m \in marks : m.by \in Callers

\* Every exchange is there as a question and its answer, one after the other.
Paired(q) ==
    \E m \in 0..Len(q) :
        /\ Len(q) = 2 * m
        /\ \A k \in 1..m : q[2 * k] = Turned(q[2 * k - 1])

\* A session holds its owner's rows only, and an open stream is its owner's.
SessionsAreOwned ==
    /\ \A s \in Sessions : \A row \in RowsOf(s) : owner[s] = Key(row.by)
    /\ \A r \in Streams :
        streaming[r] # Silent =>
            owner[streaming[r].session] = Key(streaming[r].by)

TalkIsPaired == \A s \in Sessions : Paired(talk[s])

\* The inductive invariant.  The session that a stream writes to when it ends
\* must still be its caller's, and the windows are cut in a list of pairs.
ChatInv ==
    /\ ChatType
    /\ SessionsAreOwned
    /\ TalkIsPaired
    /\ TextStaysWithItsOwner
    /\ WindowsHoldWholeExchanges

\* A row of the other role is a row, and turning it again gives the first.
LEMMA TurnedTwice ==
    ASSUME NEW row \in Rows
    PROVE  /\ Turned(row) \in Rows
           /\ Turned(Turned(row)) = row
           /\ Turned(row).number = row.number /\ Turned(row).by = row.by
           /\ {row, Turned(row)} = Range(Exchange(row.number, row.by))
<1>1. \A r \in Rows :
         /\ Turned(r) = [number |-> r.number, by |-> r.by,
                role |-> IF r.role = "user" THEN "assistant" ELSE "user"]
         /\ r = [number |-> r.number, role |-> r.role, by |-> r.by]
  BY DEF Rows, Turned
<1>2. Turned(row) \in Rows
  BY <1>1 DEF Rows
<1>3. Range(Exchange(row.number, row.by)) =
        {Row(row.number, "user", row.by), Row(row.number, "assistant", row.by)}
  BY DEF Range, Exchange
<1>4. Turned(Turned(row)) = row
  <2>1. /\ Turned(row).number = row.number /\ Turned(row).by = row.by
        /\ Turned(row).role = IF row.role = "user" THEN "assistant" ELSE "user"
    BY <1>1
  <2>2. Turned(Turned(row)) = [number |-> row.number, by |-> row.by,
            role |-> IF Turned(row).role = "user" THEN "assistant" ELSE "user"]
    BY <1>1, <1>2, <2>1
  <2>3. QED
    BY <1>1, <2>1, <2>2 DEF Rows
<1>5. CASE row.role = "user"
  BY <1>1, <1>2, <1>3, <1>4, <1>5 DEF Row
<1>6. CASE row.role = "assistant"
  BY <1>1, <1>2, <1>3, <1>4, <1>6 DEF Row
<1>7. QED
  BY <1>5, <1>6 DEF Rows

\* A position in a list of pairs is the first or the second of a pair.
LEMMA EvenOrOdd ==
    ASSUME NEW m \in Nat, NEW i \in 1..(2 * m)
    PROVE  \E k \in 1..m : i = 2 * k \/ i = 2 * k - 1
<1>1. /\ (i + 1) \div 2 \in 1..m
      /\ i = 2 * ((i + 1) \div 2) \/ i = 2 * ((i + 1) \div 2) - 1
  OBVIOUS
<1>2. QED
  BY <1>1

\* In a list of pairs, whoever sees a row sees its whole exchange.
LEMMA PairsAreWhole ==
    ASSUME NEW q \in Seq(Rows), Paired(q), NEW row \in Range(q)
    PROVE  Range(Exchange(row.number, row.by)) \subseteq Range(q)
<1>1. PICK m \in 0..Len(q) :
         Len(q) = 2 * m /\ \A k \in 1..m : q[2 * k] = Turned(q[2 * k - 1])
  BY DEF Paired
<1>2. PICK i \in 1..Len(q) : row = q[i]
  BY DEF Range
<1>3. PICK k \in 1..m : i = 2 * k \/ i = 2 * k - 1
  <2>1. m \in Nat /\ i \in 1..(2 * m)
    BY <1>1, <1>2
  <2>2. QED
    BY <2>1, EvenOrOdd
<1>4. /\ 2 * k \in 1..Len(q) /\ 2 * k - 1 \in 1..Len(q)
      /\ q[2 * k] = Turned(q[2 * k - 1])
  BY <1>1
<1>5. q[2 * k] \in Range(q) /\ q[2 * k - 1] \in Range(q)
  BY <1>4 DEF Range
<1>6. q[2 * k - 1] \in Rows
  BY <1>4
<1>7. {row, Turned(row)} = {q[2 * k - 1], q[2 * k]} /\ row \in Rows
  BY <1>2, <1>3, <1>4, <1>6, TurnedTwice
<1>8. QED
  BY <1>5, <1>7, TurnedTwice

\* The end of a list of pairs, cut at an even length, is a list of pairs.
LEMMA LatestArePaired ==
    ASSUME NEW q \in Seq(Rows), Paired(q), NEW j \in Nat
    PROVE  /\ Latest(q, 2 * j) \in Seq(Rows)
           /\ Paired(Latest(q, 2 * j))
           /\ Range(Latest(q, 2 * j)) \subseteq Range(q)
           /\ Len(Latest(q, 2 * j)) <= 2 * j
<1>1. PICK m \in 0..Len(q) :
         Len(q) = 2 * m /\ \A k \in 1..m : q[2 * k] = Turned(q[2 * k - 1])
  BY DEF Paired
<1> DEFINE d == IF Len(q) > 2 * j THEN m - j ELSE 0
           p == Latest(q, 2 * j)
<1>2. m \in Nat /\ d \in 0..m /\ Len(q) \in Nat
  BY <1>1
<1>3. /\ p = SubSeq(q, 2 * d + 1, Len(q))
      /\ 2 * (m - d) <= 2 * j
  BY <1>1, <1>2 DEF Latest
<1> HIDE DEF d, p
<1>4. /\ p \in Seq(Rows)
      /\ Len(p) = 2 * (m - d)
      /\ \A i \in 1..(2 * (m - d)) : p[i] = q[2 * d + i]
  BY <1>1, <1>2, <1>3
<1>5. Paired(p)
  <2>1. ASSUME NEW k \in 1..(m - d)
        PROVE  p[2 * k] = Turned(p[2 * k - 1])
    <3>1. d + k \in 1..m
      BY <1>2
    <3>2. 2 * k \in 1..(2 * (m - d)) /\ 2 * k - 1 \in 1..(2 * (m - d))
      BY <1>2
    <3>3. p[2 * k] = q[2 * (d + k)] /\ p[2 * k - 1] = q[2 * (d + k) - 1]
      BY <1>2, <1>4, <3>2
    <3>4. QED
      BY <1>1, <3>1, <3>3
  <2>2. m - d \in 0..Len(p)
    BY <1>2, <1>4
  <2>3. QED
    BY <1>4, <2>1, <2>2 DEF Paired
<1>6. Range(p) \subseteq Range(q)
  <2>1. \A i \in 1..(2 * (m - d)) : 2 * d + i \in 1..Len(q)
    BY <1>1, <1>2
  <2>2. QED
    BY <1>4, <2>1 DEF Range
<1>7. QED
  BY <1>3, <1>4, <1>5, <1>6 DEF p

\* So is what comes before it.
LEMMA OlderArePaired ==
    ASSUME NEW q \in Seq(Rows), Paired(q), NEW j \in Nat, 2 * j <= Len(q)
    PROVE  /\ SubSeq(q, 1, Len(q) - 2 * j) \in Seq(Rows)
           /\ Paired(SubSeq(q, 1, Len(q) - 2 * j))
           /\ Range(SubSeq(q, 1, Len(q) - 2 * j)) \subseteq Range(q)
<1>1. PICK m \in 0..Len(q) :
         Len(q) = 2 * m /\ \A k \in 1..m : q[2 * k] = Turned(q[2 * k - 1])
  BY DEF Paired
<1> DEFINE p == SubSeq(q, 1, Len(q) - 2 * j)
<1>2. /\ p \in Seq(Rows)
      /\ Len(p) = 2 * (m - j) /\ m - j \in 0..m
      /\ \A i \in 1..(2 * (m - j)) : p[i] = q[i] /\ i \in 1..Len(q)
  BY <1>1
<1> HIDE DEF p
<1>3. Paired(p)
  <2>1. \A k \in 1..(m - j) : /\ 2 * k \in 1..(2 * (m - j)) /\ k \in 1..m
                             /\ 2 * k - 1 \in 1..(2 * (m - j))
    BY <1>1, <1>2
  <2>2. m - j \in 0..Len(p)
    BY <1>2
  <2>3. QED
    BY <1>1, <1>2, <2>1, <2>2 DEF Paired
<1>4. Range(p) \subseteq Range(q)
  BY <1>2 DEF Range
<1>5. QED
  BY <1>2, <1>3, <1>4 DEF p

\* The database may turn exchanges, but neither tears nor invents one.
LEMMA OrdersArePaired ==
    ASSUME ChatInv, NEW s \in Sessions, NEW h \in Orders(s)
    PROVE  h \in Seq(Rows) /\ Paired(h) /\ Range(h) \subseteq RowsOf(s)
<1> DEFINE q == talk[s]
<1>1. q \in Seq(Rows) /\ Paired(q)
  BY DEF ChatInv, ChatType, TalkIsPaired
<1>2. PICK turned \in SUBSET Answered(s) :
         h = [i \in DOMAIN q |-> IF q[i].number \in turned THEN Turned(q[i])
                                 ELSE q[i]]
  BY DEF Orders
<1> HIDE DEF q
<1>3. PICK m \in 0..Len(q) :
         Len(q) = 2 * m /\ \A k \in 1..m : q[2 * k] = Turned(q[2 * k - 1])
  BY <1>1 DEF Paired
<1>4. \A i \in 1..Len(q) : q[i] \in Rows /\ Turned(q[i]) \in Rows
  BY <1>1, TurnedTwice
<1>5. h \in Seq(Rows) /\ Len(h) = Len(q)
  <2>1. h \in [1..Len(q) -> Rows]
    BY <1>1, <1>2, <1>4
  <2>2. QED
    BY <1>1, <2>1
<1>6. ASSUME NEW k \in 1..m
      PROVE  /\ h[2 * k] = Turned(h[2 * k - 1])
             /\ {h[2 * k - 1], h[2 * k]} = {q[2 * k - 1], q[2 * k]}
  <2>1. 2 * k \in 1..Len(q) /\ 2 * k - 1 \in 1..Len(q)
    BY <1>3
  <2>2. /\ q[2 * k] = Turned(q[2 * k - 1]) /\ q[2 * k - 1] \in Rows
        /\ q[2 * k].number = q[2 * k - 1].number
        /\ Turned(q[2 * k]) = q[2 * k - 1]
    BY <1>3, <1>4, <2>1, TurnedTwice
  <2>3. DOMAIN q = 1..Len(q)
    BY <1>1
  <2>4. /\ h[2 * k] = IF q[2 * k].number \in turned THEN Turned(q[2 * k])
                      ELSE q[2 * k]
        /\ h[2 * k - 1] = IF q[2 * k - 1].number \in turned
                          THEN Turned(q[2 * k - 1]) ELSE q[2 * k - 1]
    BY <1>2, <2>1, <2>3
  <2>5. QED
    BY <2>2, <2>4
<1>7. Paired(h)
  BY <1>3, <1>5, <1>6 DEF Paired
<1>8. ASSUME NEW i \in 1..Len(q)
      PROVE  h[i] \in Range(q)
  <2>1. PICK k \in 1..m : i = 2 * k \/ i = 2 * k - 1
    <3>1. m \in Nat /\ i \in 1..(2 * m)
      BY <1>3
    <3>2. QED
      BY <3>1, EvenOrOdd
  <2>2. 2 * k \in 1..Len(q) /\ 2 * k - 1 \in 1..Len(q)
    BY <1>3
  <2>3. h[i] = h[2 * k - 1] \/ h[i] = h[2 * k]
    BY <2>1
  <2>4. h[i] \in {q[2 * k - 1], q[2 * k]}
    BY <1>6, <2>3
  <2>5. q[2 * k - 1] \in Range(q) /\ q[2 * k] \in Range(q)
    BY <1>1, <2>2 DEF Range
  <2>6. QED
    BY <2>4, <2>5
<1>9. Range(h) \subseteq Range(q)
  BY <1>5, <1>8 DEF Range
<1>10. QED
  BY <1>5, <1>7, <1>9 DEF RowsOf, q

\* An owner is a pair, and a session without one has no rows.
LEMMA NobodysSessionIsEmpty ==
    ASSUME ChatInv, NEW s \in Sessions, owner[s] = NoOwner
    PROVE  RowsOf(s) = {}
<1>1. \A c \in Callers : Key(c) # NoOwner
  BY DEF Key, NoOwner
<1>2. \A row \in RowsOf(s) : row \in Rows
  BY DEF ChatInv, ChatType, RowsOf, Range
<1>3. QED
  BY <1>1, <1>2 DEF ChatInv, SessionsAreOwned, Rows

\* A caller is his tenant and his id: the rows of his sessions are his.
LEMMA RowsOfMine ==
    ASSUME ChatInv, NEW s \in Sessions, NEW c \in Callers, owner[s] = Key(c)
    PROVE  \A row \in RowsOf(s) : row.by = c
<1>1. \A row \in RowsOf(s) : row \in Rows
  BY DEF ChatInv, ChatType, RowsOf, Range
<1>2. \A d \in Callers : Key(d) = Key(c) => d = c
  BY ChatAssumption DEF Key
<1>3. QED
  BY <1>1, <1>2 DEF ChatInv, SessionsAreOwned, Rows

\* Only session s can be given to c, and never takes another's.
Given(s, c) ==
    /\ owner' \in [Sessions -> {NoOwner} \cup {Key(d) : d \in Callers}]
    /\ owner'[s] = Key(c) /\ owner[s] \in {NoOwner, Key(c)}
    /\ \A t \in Sessions : t # s => owner'[t] = owner[t]

\* Rows are only added, by c to s, in pairs.
Grown(s, c) ==
    /\ talk' \in [Sessions -> Seq(Rows)] /\ TalkIsPaired'
    /\ \A t \in Sessions : RowsOf(t) \subseteq RowsOf(t)'
    /\ \A t \in Sessions : \A row \in RowsOf(t)' :
        row \in RowsOf(t) \/ (t = s /\ row.by = c)

\* Text that comes from the rows of a session, in whole exchanges.
WholeText(text, s) ==
    \A part \in {text.older, text.recent} :
        part \in Seq(Rows) /\ Paired(part) /\ Range(part) \subseteq RowsOf(s)

\* The session a question goes to is its caller's, and so are all its rows.
LEMMA GetSessionGives ==
    ASSUME ChatInv, NEW c \in Callers, NEW s \in Sessions,
           NEW id \in Sessions \cup {NoSession}, GetSession(c, id, s)
    PROVE  Given(s, c) /\ (\A row \in RowsOf(s) : row.by = c)
<1> DEFINE Owners == {NoOwner} \cup {Key(d) : d \in Callers}
<1>1. Given(s, c)
  <2>1. owner \in [Sessions -> Owners] /\ Key(c) \in Owners
    BY DEF ChatInv, ChatType
  <2>2. \/ owner[s] = Key(c) /\ owner' = owner
        \/ owner[s] = NoOwner /\ owner' = [owner EXCEPT ![s] = Key(c)]
    BY DEF GetSession
  <2> HIDE DEF Owners
  <2>3. QED
    BY <2>1, <2>2 DEF Given, Owners
<1>2. CASE owner[s] = NoOwner
  <2>1. RowsOf(s) = {}
    BY <1>2, NobodysSessionIsEmpty
  <2>2. QED
    BY <1>1, <2>1
<1>3. CASE owner[s] = Key(c)
  BY <1>1, <1>3, RowsOfMine
<1>4. QED
  BY <1>1, <1>2, <1>3 DEF Given

\* _save_messages adds both rows of an exchange, or none.
LEMMA SaveGrows ==
    ASSUME ChatInv, NEW s \in Sessions, NEW n \in Nat, NEW c \in Callers,
           Save(s, n, c) \/ UNCHANGED talk
    PROVE  Grown(s, c)
<1> DEFINE q == talk[s]
           e == Exchange(n, c)
<1>1. talk \in [Sessions -> Seq(Rows)] /\ TalkIsPaired
  BY DEF ChatInv, ChatType
<1>2. CASE UNCHANGED talk
  BY <1>1, <1>2 DEF Grown, TalkIsPaired, RowsOf
<1>3. CASE talk' = [talk EXCEPT ![s] = q \o e]
  <2>1. q \in Seq(Rows) /\ Paired(q)
    BY <1>1 DEF TalkIsPaired
  <2>2. /\ e \in Seq(Rows) /\ Len(e) = 2
        /\ e[1] = Row(n, "user", c) /\ e[2] = Row(n, "assistant", c)
        /\ Turned(e[1]) = e[2] /\ e[1].by = c /\ e[2].by = c
    BY DEF Exchange, Row, Rows, Turned
  <2> HIDE DEF q, e
  <2>3. /\ q \o e \in Seq(Rows) /\ Len(q \o e) = Len(q) + 2
        /\ \A i \in 1..Len(q) : (q \o e)[i] = q[i]
        /\ (q \o e)[Len(q) + 1] = e[1] /\ (q \o e)[Len(q) + 2] = e[2]
    <3>1. q \in Seq(Rows) /\ e \in Seq(Rows) /\ Len(e) = 2
      BY <2>1, <2>2
    <3>2. /\ q \o e \in Seq(Rows) /\ Len(q \o e) = Len(q) + Len(e)
          /\ \A i \in 1 .. Len(q) + Len(e) :
                (q \o e)[i] = IF i <= Len(q) THEN q[i] ELSE e[i - Len(q)]
      BY <3>1, ConcatProperties, Zenon
    <3>3. QED
      BY <2>2, <3>1, <3>2
  <2>4. Paired(q \o e)
    <3>1. PICK m \in 0..Len(q) :
             Len(q) = 2 * m /\ \A k \in 1..m : q[2 * k] = Turned(q[2 * k - 1])
      BY <2>1 DEF Paired
    <3>2. ASSUME NEW k \in 1..(m + 1)
          PROVE  (q \o e)[2 * k] = Turned((q \o e)[2 * k - 1])
      <4>1. CASE k \in 1..m
        <5>1. 2 * k \in 1..Len(q) /\ 2 * k - 1 \in 1..Len(q)
          BY <3>1, <4>1
        <5>2. QED
          BY <2>3, <3>1, <4>1, <5>1
      <4>2. CASE k = m + 1
        <5>1. 2 * k = Len(q) + 2 /\ 2 * k - 1 = Len(q) + 1
          BY <3>1, <4>2
        <5>2. QED
          BY <2>2, <2>3, <5>1
      <4>3. k \in 1..m \/ k = m + 1
        BY <3>1
      <4>4. QED
        BY <4>1, <4>2, <4>3
    <3>3. m + 1 \in 0..Len(q \o e) /\ Len(q \o e) = 2 * (m + 1)
      BY <2>1, <2>3, <3>1
    <3>4. QED
      BY <3>2, <3>3 DEF Paired
  <2>5. /\ Range(q) \subseteq Range(q \o e)
        /\ \A row \in Range(q \o e) : row \in Range(q) \/ row.by = c
    <3>1. DOMAIN (q \o e) = 1..(Len(q) + 2) /\ DOMAIN q = 1..Len(q)
      BY <2>1, <2>3
    <3>2. \A i \in 1..(Len(q) + 2) :
             i \in 1..Len(q) \/ i = Len(q) + 1 \/ i = Len(q) + 2
      BY <2>1
    <3>3. \A i \in 1..Len(q) : i \in 1..(Len(q) + 2)
      BY <2>1
    <3>4. QED
      BY <2>2, <2>3, <3>1, <3>2, <3>3 DEF Range
  <2>6. \A t \in Sessions : talk'[t] = IF t = s THEN q \o e ELSE talk[t]
    BY <1>1, <1>3
  <2>7. talk' \in [Sessions -> Seq(Rows)]
    BY <1>1, <1>3, <2>3
  <2>8. talk[s] = q
    BY DEF q
  <2>9. QED
    BY <1>1, <2>4, <2>5, <2>6, <2>7, <2>8 DEF Grown, TalkIsPaired, RowsOf
<1>4. QED
  BY <1>2, <1>3 DEF Save

\* The history of a prompt is cut at even lengths only.
LEMMA HistoriesAreWhole ==
    ASSUME ChatInv, NEW s \in Sessions, NEW h \in Histories(s)
    PROVE  /\ \A text \in Compressed(h) : WholeText(text, s)
           /\ WholeText(Prompted(h), s)
<1>1. PICK i \in Nat, j \in Nat : HistoryLimit = 2 * i /\ KeepRecent = 2 * j
  <2>1. /\ HistoryLimit \div 2 \in Nat
        /\ HistoryLimit = 2 * (HistoryLimit \div 2)
        /\ KeepRecent \div 2 \in Nat /\ KeepRecent = 2 * (KeepRecent \div 2)
    BY ChatAssumption
  <2>2. QED
    BY <2>1
<1>2. PICK q \in Orders(s) : h = Latest(q, 2 * i)
  BY <1>1 DEF Histories
<1>3. q \in Seq(Rows) /\ Paired(q) /\ Range(q) \subseteq RowsOf(s)
  BY OrdersArePaired
<1>4. h \in Seq(Rows) /\ Paired(h) /\ Range(h) \subseteq RowsOf(s)
  BY <1>2, <1>3, LatestArePaired
<1>5. <<>> \in Seq(Rows) /\ Paired(<<>>) /\ Range(<<>>) = {}
  BY DEF Paired, Range
<1>6. WholeText(Prompted(h), s)
  <2>1. MaxTurns \in Nat
    BY ChatAssumption
  <2>2. /\ Latest(h, 2 * MaxTurns) \in Seq(Rows)
        /\ Paired(Latest(h, 2 * MaxTurns))
        /\ Range(Latest(h, 2 * MaxTurns)) \subseteq Range(h)
    BY <1>4, <2>1, LatestArePaired
  <2>3. QED
    BY <1>4, <1>5, <2>2 DEF WholeText, Prompted
<1>7. ASSUME NEW text \in Compressed(h)
      PROVE  WholeText(text, s)
  <2>1. CASE text = [older |-> <<>>, recent |-> h]
    BY <1>4, <1>5, <2>1 DEF WholeText
  <2>2. CASE /\ Len(h) > Threshold
             /\ text = [older |-> SubSeq(h, 1, Len(h) - KeepRecent),
                        recent |-> Latest(h, KeepRecent)]
    <3>1. 2 * j <= Len(h)
      BY <1>1, <1>4, <2>2, ChatAssumption
    <3>2. /\ SubSeq(h, 1, Len(h) - 2 * j) \in Seq(Rows)
          /\ Paired(SubSeq(h, 1, Len(h) - 2 * j))
          /\ Range(SubSeq(h, 1, Len(h) - 2 * j)) \subseteq Range(h)
      BY <1>4, <3>1, OlderArePaired
    <3>3. /\ Latest(h, 2 * j) \in Seq(Rows)
          /\ Paired(Latest(h, 2 * j))
          /\ Range(Latest(h, 2 * j)) \subseteq Range(h)
      BY <1>4, LatestArePaired
    <3>4. QED
      BY <1>1, <1>4, <2>2, <3>2, <3>3 DEF WholeText
  <2>3. QED
    BY <1>4, <2>1, <2>2, ChatAssumption DEF Compressed
<1>8. QED
  BY <1>6, <1>7

\* Sessions stay owned when one is given to a caller and gets rows of his.
LEMMA OwnersKept ==
    ASSUME ChatInv, NEW s \in Sessions, NEW c \in Callers,
           Given(s, c), Grown(s, c)
    PROVE  /\ \A t \in Sessions : \A row \in RowsOf(t)' :
                 owner'[t] = Key(row.by)
           /\ \A r \in Streams :
                 streaming[r] # Silent =>
                    owner'[streaming[r].session] = Key(streaming[r].by)
<1>1. ASSUME NEW t \in Sessions, NEW row \in RowsOf(t)'
      PROVE  owner'[t] = Key(row.by)
  <2>1. CASE row \in RowsOf(t)
    <3>1. owner[t] = Key(row.by)
      BY <2>1 DEF ChatInv, SessionsAreOwned
    <3>2. owner[t] # NoOwner
      BY <2>1, NobodysSessionIsEmpty
    <3>3. QED
      BY <3>1, <3>2 DEF Given
  <2>2. CASE t = s /\ row.by = c
    BY <2>2 DEF Given
  <2>3. QED
    BY <2>1, <2>2 DEF Grown
<1>2. ASSUME NEW r \in Streams, streaming[r] # Silent
      PROVE  owner'[streaming[r].session] = Key(streaming[r].by)
  <2>1. streaming[r] \in Streamed
    BY <1>2 DEF ChatInv, ChatType
  <2>2. owner[streaming[r].session] = Key(streaming[r].by)
    BY <1>2 DEF ChatInv, SessionsAreOwned
  <2>3. Key(streaming[r].by) # NoOwner
    BY DEF Key, NoOwner
  <2>4. QED
    BY <2>1, <2>2, <2>3 DEF Given, Streamed
<1>3. QED
  BY <1>1, <1>2

\* Feedback stays where it was given: rows are only added.
LEMMA MarksKept ==
    ASSUME ChatInv, NEW s \in Sessions, NEW c \in Callers, Grown(s, c),
           UNCHANGED marks
    PROVE  MarksAreOwn'
<1>1. \A m \in marks : \E t \in Sessions : \E row \in RowsOf(t) :
         row.number = m.number /\ row.role = "assistant" /\ Asked(row, m.by)
  BY DEF ChatInv, TextStaysWithItsOwner, MarksAreOwn
<1>2. \A t \in Sessions : RowsOf(t) \subseteq RowsOf(t)'
  BY DEF Grown
<1>3. ASSUME NEW m \in marks
      PROVE  \E t \in Sessions : \E row \in RowsOf(t)' :
                row.number = m.number /\ row.role = "assistant"
                    /\ Asked(row, m.by)
  BY <1>1, <1>2
<1>4. QED
  BY <1>3 DEF MarksAreOwn, Asked

\* What is given to the model is the caller's own, in whole exchanges.
LEMMA PromptIsGood ==
    ASSUME ChatInv, NEW s \in Sessions, NEW c \in Callers, Grown(s, c),
           \A row \in RowsOf(s) : row.by = c,
           NEW text, WholeText(text, s), GivePrompt(c, s, text)
    PROVE  PromptIsOwn' /\ WindowsHoldWholeExchanges'
<1>1. /\ prompt'.by = c /\ prompt'.session = s
      /\ prompt'.older = text.older /\ prompt'.recent = text.recent
  BY DEF GivePrompt
<1>2. /\ text.older \in Seq(Rows) /\ Paired(text.older)
      /\ text.recent \in Seq(Rows) /\ Paired(text.recent)
      /\ Range(text.older) \subseteq RowsOf(s)
      /\ Range(text.recent) \subseteq RowsOf(s)
  BY DEF WholeText
<1>3. ASSUME NEW row \in Range(text.older \o text.recent)
      PROVE  row \in RowsOf(s)
  BY <1>2, <1>3, RangeOfConcat
<1>4. PromptIsOwn'
  <2>1. RowsOf(s) \subseteq RowsOf(s)'
    BY DEF Grown
  <2>2. ASSUME NEW row \in Range(prompt'.older \o prompt'.recent)
        PROVE  row.by = prompt'.by /\ row \in RowsOf(prompt.session)'
    <3>1. row \in RowsOf(s)
      BY <1>1, <1>3, <2>2
    <3>2. row \in RowsOf(s)' /\ row.by = c
      BY <2>1, <3>1
    <3>3. QED
      BY <1>1, <3>2 DEF RowsOf
  <2>3. QED
    BY <2>2 DEF PromptIsOwn
<1>5. WindowsHoldWholeExchanges'
  <2>1. ASSUME NEW part \in {text.older, text.recent}, NEW row \in Range(part)
        PROVE  Range(Exchange(row.number, row.by)) \subseteq Range(part)
    BY <1>2, <2>1, PairsAreWhole
  <2>2. QED
    BY <1>1, <2>1 DEF WindowsHoldWholeExchanges
<1>6. QED
  BY <1>4, <1>5

\* A handler that answers c in s keeps the invariant, whatever it gives to the
\* model, and whether its stream begins, ends or is somebody else's.
LEMMA AnswerKeepsInv ==
    ASSUME ChatInv, NEW s \in Sessions, NEW c \in Callers,
           Given(s, c), Grown(s, c),
           asked' \in Nat, UNCHANGED marks, shown' = NoText,
           PromptIsOwn' /\ WindowsHoldWholeExchanges',
           \A r \in Streams :
              \/ streaming'[r] = streaming[r] \/ streaming'[r] = Silent
              \/ streaming'[r] \in Streamed /\ streaming'[r].session = s
                    /\ streaming'[r].by = c,
           DOMAIN streaming' = Streams,
           streaming' = [r \in Streams |-> streaming'[r]]
    PROVE  ChatInv'
<1>1. /\ \A t \in Sessions : \A row \in RowsOf(t)' : owner'[t] = Key(row.by)
      /\ \A r \in Streams :
            streaming[r] # Silent =>
                owner'[streaming[r].session] = Key(streaming[r].by)
  BY OwnersKept
<1>2. ChatType'
  BY DEF ChatInv, ChatType, Given, Grown, Key
<1>3. SessionsAreOwned'
  <2>1. ASSUME NEW r \in Streams, streaming'[r] # Silent
        PROVE  owner'[streaming'[r].session] = Key(streaming'[r].by)
    BY <1>1, <2>1 DEF Given
  <2>2. QED
    BY <1>1, <2>1 DEF SessionsAreOwned, Key
<1>4. MarksAreOwn' /\ ShownIsOwn' /\ TalkIsPaired'
  BY MarksKept DEF ShownIsOwn, Grown
<1>5. QED
  BY <1>2, <1>3, <1>4 DEF ChatInv, TextStaysWithItsOwner

\* Every step keeps the invariant.
LEMMA ChatStep ==
    ASSUME ChatInv, ChatNext
    PROVE  ChatInv'
<1>1. /\ asked \in Nat
      /\ streaming \in [Streams -> {Silent} \cup Streamed]
      /\ streaming = [r \in Streams |-> streaming[r]]
  BY DEF ChatInv, ChatType
<1>2. ASSUME NEW c \in Callers, NEW s \in Sessions,
             NEW id \in Sessions \cup {NoSession}, Ask(c, id, s)
      PROVE  /\ Given(s, c) /\ (\A row \in RowsOf(s) : row.by = c)
             /\ asked' \in Nat /\ shown' = NoText
  BY <1>1, <1>2, GetSessionGives DEF Ask
<1>3. ASSUME NEW c \in Callers, NEW s \in Sessions, prompt' = NoText
      PROVE  PromptIsOwn' /\ WindowsHoldWholeExchanges'
  BY <1>3 DEF PromptIsOwn, WindowsHoldWholeExchanges, NoText
<1>4. ASSUME NEW c \in Callers, NEW s \in Sessions,
             NEW id \in Sessions \cup {NoSession}, PostAnswered(c, id, s)
      PROVE  ChatInv'
  <2>1. /\ Given(s, c) /\ (\A row \in RowsOf(s) : row.by = c)
        /\ asked' \in Nat /\ shown' = NoText
    BY <1>2, <1>4 DEF PostAnswered
  <2>2. Grown(s, c)
    BY <1>4, <2>1, SaveGrows DEF PostAnswered
  <2>3. PICK h \in Histories(s) : \E text \in Compressed(h) :
           GivePrompt(c, s, text)
    BY <1>4 DEF PostAnswered
  <2>4. PICK text \in Compressed(h) : GivePrompt(c, s, text)
    BY <2>3
  <2>5. WholeText(text, s)
    BY HistoriesAreWhole
  <2>6. PromptIsOwn' /\ WindowsHoldWholeExchanges'
    BY <2>1, <2>2, <2>4, <2>5, PromptIsGood
  <2>7. UNCHANGED <<streaming, marks>>
    BY <1>4 DEF PostAnswered
  <2>8. QED
    BY <1>1, <2>1, <2>2, <2>6, <2>7, AnswerKeepsInv
<1>5. ASSUME NEW c \in Callers, NEW s \in Sessions,
             NEW id \in Sessions \cup {NoSession},
             PostCached(c, id, s) \/ PostUnanswered(c, id, s)
      PROVE  ChatInv'
  <2>1. /\ Given(s, c) /\ asked' \in Nat /\ shown' = NoText
        /\ prompt' = NoText /\ UNCHANGED <<streaming, marks>>
    BY <1>2, <1>5 DEF PostCached, PostUnanswered
  <2>2. Grown(s, c)
    BY <1>5, <2>1, SaveGrows DEF PostCached, PostUnanswered
  <2>3. PromptIsOwn' /\ WindowsHoldWholeExchanges'
    BY <1>3, <2>1
  <2>4. QED
    BY <1>1, <2>1, <2>2, <2>3, AnswerKeepsInv
<1>6. ASSUME NEW c \in Callers, NEW s \in Sessions, NEW r \in Streams,
             NEW id \in Sessions \cup {NoSession}, OpenStream(r, c, id, s)
      PROVE  ChatInv'
  <2>1. /\ Given(s, c) /\ (\A row \in RowsOf(s) : row.by = c)
        /\ asked' \in Nat /\ shown' = NoText
    BY <1>2, <1>6 DEF OpenStream
  <2>2. Grown(s, c)
    BY <1>1, <1>6, SaveGrows DEF OpenStream
  <2>3. PICK h \in Histories(s) : GivePrompt(c, s, Prompted(h))
    BY <1>6 DEF OpenStream
  <2>4. WholeText(Prompted(h), s)
    BY HistoriesAreWhole
  <2>5. PromptIsOwn' /\ WindowsHoldWholeExchanges'
    BY <2>1, <2>2, <2>3, <2>4, PromptIsGood
  <2>6. UNCHANGED marks
    BY <1>6 DEF OpenStream
  <2>7. /\ DOMAIN streaming' = Streams
        /\ streaming' = [q \in Streams |-> streaming'[q]]
        /\ \A q \in Streams :
              \/ streaming'[q] = streaming[q]
              \/ streaming'[q] \in Streamed /\ streaming'[q].session = s
                    /\ streaming'[q].by = c
    BY <1>1, <1>6, <2>1 DEF OpenStream, Streamed
  <2>8. QED
    BY <2>1, <2>2, <2>5, <2>6, <2>7, AnswerKeepsInv
<1>7. ASSUME NEW r \in Streams, CloseStream(r)
      PROVE  ChatInv'
  <2> DEFINE s == streaming[r].session
             c == streaming[r].by
  <2>1. streaming[r] \in Streamed
    BY <1>1, <1>7 DEF CloseStream
  <2>2. s \in Sessions /\ c \in Callers /\ streaming[r].number \in Nat
    BY <2>1 DEF Streamed
  <2>3. owner[s] = Key(c)
    BY <1>7 DEF ChatInv, SessionsAreOwned, CloseStream
  <2>4. /\ UNCHANGED <<owner, asked, marks>>
        /\ prompt' = NoText /\ shown' = NoText
        /\ Save(s, streaming[r].number, c) \/ UNCHANGED talk
        /\ streaming' = [streaming EXCEPT ![r] = Silent]
    BY <1>7 DEF CloseStream
  <2> HIDE DEF s, c
  <2>5. Given(s, c)
    BY <2>2, <2>3, <2>4 DEF ChatInv, ChatType, Given
  <2>6. Grown(s, c)
    BY <2>2, <2>4, SaveGrows
  <2>7. PromptIsOwn' /\ WindowsHoldWholeExchanges'
    BY <1>3, <2>2, <2>4
  <2>8. /\ DOMAIN streaming' = Streams
        /\ streaming' = [q \in Streams |-> streaming'[q]]
        /\ \A q \in Streams :
              streaming'[q] = streaming[q] \/ streaming'[q] = Silent
    BY <1>1, <2>4
  <2>9. QED
    BY <1>1, <2>2, <2>4, <2>5, <2>6, <2>7, <2>8, AnswerKeepsInv
<1>8. ASSUME NEW c \in Callers, NEW s \in Sessions, MayRead(c, s)
      PROVE  \A row \in RowsOf(s) : Asked(row, c)
  <2>1. ASSUME NEW row \in RowsOf(s)
        PROVE  Asked(row, c)
    <3>1. row \in Rows /\ owner[s] = Key(row.by)
      BY DEF ChatInv, ChatType, SessionsAreOwned, RowsOf, Range
    <3>2. CASE c \in CallerAdmins
      BY <1>8, <3>1, <3>2 DEF MayRead, Key, Asked
    <3>3. CASE c \notin CallerAdmins
      <4>1. owner[s] = Key(c)
        BY <1>8, <3>3 DEF MayRead
      <4>2. QED
        BY <4>1, RowsOfMine DEF Asked
    <3>4. QED
      BY <3>2, <3>3
  <2>2. QED
    BY <2>1
<1>9. ASSUME NEW c \in Callers, NEW s \in Sessions, ReadSession(c, s)
      PROVE  ChatInv'
  <2>1. /\ UNCHANGED <<owner, talk, streaming, asked, marks>>
        /\ prompt' = NoText /\ shown' = [by |-> c, session |-> s]
        /\ \A row \in RowsOf(s) : Asked(row, c)
    BY <1>8, <1>9 DEF ReadSession
  <2>2. ShownIsOwn'
    BY <2>1 DEF ShownIsOwn, RowsOf, Asked
  <2>3. PromptIsOwn' /\ WindowsHoldWholeExchanges'
    BY <1>3, <2>1
  <2>4. MarksAreOwn'
    BY <2>1 DEF ChatInv, TextStaysWithItsOwner, MarksAreOwn, RowsOf, Asked
  <2>5. ChatType' /\ SessionsAreOwned' /\ TalkIsPaired'
    BY <2>1 DEF ChatInv, ChatType, SessionsAreOwned, TalkIsPaired, RowsOf, Key
  <2>6. QED
    BY <2>2, <2>3, <2>4, <2>5 DEF ChatInv, TextStaysWithItsOwner
<1>10. ASSUME NEW c \in Callers, NEW s \in Sessions,
              NEW n \in 1..MaxQuestions, Feedback(c, s, n)
       PROVE  ChatInv'
  <2>1. /\ UNCHANGED <<owner, talk, streaming, asked>>
        /\ prompt' = NoText /\ shown' = NoText
        /\ marks' = {m \in marks : m.number # n} \cup {[number |-> n, by |-> c]}
    BY <1>10 DEF Feedback
  <2>2. PICK row \in RowsOf(s) :
           row.number = n /\ row.role = "assistant" /\ Asked(row, c)
    BY <1>8, <1>10 DEF Feedback
  <2>3. ASSUME NEW m \in marks'
        PROVE  \E t \in Sessions : \E x \in RowsOf(t) :
                  x.number = m.number /\ x.role = "assistant" /\ Asked(x, m.by)
    <3>1. CASE m = [number |-> n, by |-> c]
      BY <2>2, <3>1
    <3>2. CASE m \in marks
      BY <3>2 DEF ChatInv, TextStaysWithItsOwner, MarksAreOwn
    <3>3. QED
      BY <2>1, <3>1, <3>2
  <2>4. MarksAreOwn'
    BY <2>1, <2>3 DEF MarksAreOwn, RowsOf, Asked
  <2>5. PromptIsOwn' /\ WindowsHoldWholeExchanges' /\ ShownIsOwn'
    BY <1>3, <2>1 DEF ShownIsOwn
  <2>6. \A m \in marks' : m.by \in Callers
    BY <2>1 DEF ChatInv, ChatType
  <2>7. ChatType'
    BY <2>1, <2>6 DEF ChatInv, ChatType, Key
  <2>8. SessionsAreOwned' /\ TalkIsPaired'
    BY <2>1 DEF ChatInv, SessionsAreOwned, TalkIsPaired, RowsOf, Key
  <2>9. QED
    BY <2>4, <2>5, <2>7, <2>8 DEF ChatInv, TextStaysWithItsOwner
<1>11. QED
  BY <1>4, <1>5, <1>6, <1>7, <1>9, <1>10 DEF ChatNext

\* The inductive invariant holds in every reachable state.
THEOREM ChatInvariance == ChatSpec => []ChatInv
<1>1. ChatInit => ChatInv
  <2> SUFFICES ASSUME ChatInit
               PROVE  ChatInv
    OBVIOUS
  <2>1. \A s \in Sessions : talk[s] = <<>> /\ RowsOf(s) = {}
    BY DEF ChatInit, RowsOf, Range
  <2>2. Paired(<<>>)
    BY DEF Paired
  <2>3. ChatType
    BY DEF ChatInit, ChatType
  <2>4. SessionsAreOwned /\ TalkIsPaired
    BY <2>1, <2>2 DEF ChatInit, SessionsAreOwned, TalkIsPaired
  <2>5. TextStaysWithItsOwner /\ WindowsHoldWholeExchanges
    BY DEF ChatInit, TextStaysWithItsOwner, PromptIsOwn, ShownIsOwn,
       MarksAreOwn, WindowsHoldWholeExchanges
  <2>6. QED
    BY <2>3, <2>4, <2>5 DEF ChatInv
<1>2. ChatInv /\ [ChatNext]_chatVars => ChatInv'
  <2> SUFFICES ASSUME ChatInv, [ChatNext]_chatVars
               PROVE  ChatInv'
    OBVIOUS
  <2>1. CASE ChatNext
    BY <2>1, ChatStep
  <2>2. CASE UNCHANGED chatVars
    BY <2>2 DEF chatVars, ChatInv, ChatType, SessionsAreOwned, TalkIsPaired,
       TextStaysWithItsOwner, PromptIsOwn, ShownIsOwn, MarksAreOwn, Asked,
       WindowsHoldWholeExchanges, RowsOf, Key
  <2>3. QED
    BY <2>1, <2>2
<1>3. QED
  BY <1>1, <1>2, PTL DEF ChatSpec

\* No prompt, no screen and no feedback ever joins the words of one user with
\* another, whatever session ids are sent and however long a stream takes.
THEOREM TextIsPrivate == ChatSpec => []TextStaysWithItsOwner
BY ChatInvariance, PTL DEF ChatInv

\* Every history that reaches a prompt holds whole exchanges, if the limits are
\* even: rows of one transaction come in any order, the cuts fall between them.
THEOREM WindowsAreWhole == ChatSpec => []WindowsHoldWholeExchanges
BY ChatInvariance, PTL DEF ChatInv
=============================================================================
