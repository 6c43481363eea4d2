----------------------------- MODULE LoopLemmas -----------------------------
(***************************************************************************)
(* What the proofs about loops and sorted lists need.  Every lemma is      *)
(* proved by counting the elements of finite sets; no induction principle  *)
(* is assumed.                                                             *)
(***************************************************************************)
EXTENDS Integers, Functions, Sorting, SequenceTheorems, FiniteSetTheorems,
        TLAPS

\* A set of naturals that holds every number below one of its own is an
\* interval: finite sets are counted, no induction is needed.
LEMMA PrefixIsInterval ==
    ASSUME NEW N \in Nat, NEW D \in SUBSET (1..N), \A i \in D : 1..i \subseteq D
    PROVE  \E n \in 0..N : D = 1..n
<1>1. IsFiniteSet(1..N) /\ Cardinality(1..N) = N
  BY FS_Interval
<1>2. IsFiniteSet(D) /\ Cardinality(D) <= N
  BY <1>1, FS_Subset, ZenonT(60)
<1>3. Cardinality(D) \in Nat
  BY <1>2, FS_CardinalityType
<1>4. \A i \in D : i \in 1..Cardinality(D)
  <2>1. SUFFICES ASSUME NEW i \in D
                 PROVE  i <= Cardinality(D)
    BY <1>3
  <2>2. i \in Nat /\ i >= 1 /\ 1..i \in SUBSET D
    OBVIOUS
  <2>3. Cardinality(1..i) = i
    BY <2>2, FS_Interval
  <2>4. Cardinality(1..i) <= Cardinality(D)
    BY <1>2, <2>2, FS_Subset
  <2>5. QED
    BY <2>3, <2>4
<1>5. /\ IsFiniteSet(1..Cardinality(D))
      /\ Cardinality(1..Cardinality(D)) = Cardinality(D)
  BY <1>3, FS_Interval
<1>6. D \in SUBSET (1..Cardinality(D))
  BY <1>4
<1>7. D = 1..Cardinality(D)
  BY <1>5, <1>6, FS_Subset
<1>8. Cardinality(D) \in 0..N
  BY <1>2, <1>3
<1>9. QED
  BY <1>7, <1>8

\* A non-empty set of numbers up to N has a smallest one.
LEMMA SmallestExists ==
    ASSUME NEW N \in Nat, NEW S \in SUBSET (1..N), S # {}
    PROVE  \E m \in S : \A i \in S : m <= i
<1> DEFINE D == {i \in 1..N : \A k \in S : i < k}
<1>1. \A i \in D : 1..i \subseteq D
  OBVIOUS
<1>2. PICK n \in 0..N : D = 1..n
  <2>1. D \in SUBSET (1..N)
    OBVIOUS
  <2> HIDE DEF D
  <2>2. QED
    BY <1>1, <2>1, PrefixIsInterval
<1>3. \A k \in S : k \in 1..N /\ n < k
  BY <1>2
<1>4. PICK k \in S : k <= n + 1
  <2>1. PICK j \in S : TRUE
    OBVIOUS
  <2>2. n + 1 \in 1..N /\ n + 1 \notin 1..n
    BY <1>3, <2>1
  <2>3. n + 1 \notin D
    BY <1>2, <2>2
  <2>4. QED
    BY <1>3, <2>2, <2>3
<1>5. \A i \in S : k <= i
  BY <1>3, <1>4
<1>6. QED
  BY <1>5

\* A non-empty set of numbers from 0 to N has a largest one.
LEMMA LargestExists ==
    ASSUME NEW N \in Nat, NEW S \in SUBSET (0..N), S # {}
    PROVE  \E m \in S : \A i \in S : m >= i
<1> DEFINE M == N + 1
           R == {j \in 1..M : M - j \in S}
<1>1. M \in Nat /\ R \in SUBSET (1..M)
  OBVIOUS
<1>2. \A i \in S : i \in Nat /\ M - i \in 1..M /\ M - (M - i) = i
  OBVIOUS
<1>3. R # {}
  BY <1>2
<1> HIDE DEF R
<1>4. PICK j \in R : \A i \in R : j <= i
  <2> HIDE DEF M
  <2>1. QED
    BY <1>1, <1>3, SmallestExists
<1>5. M - j \in S /\ j \in 1..M
  BY <1>4 DEF R
<1>6. ASSUME NEW i \in S
      PROVE  M - j >= i
  <2>1. M - i \in R
    BY <1>2 DEF R
  <2>2. j <= M - i
    BY <1>4, <2>1
  <2>3. QED
    BY <1>2, <1>5, <2>2
<1>7. QED
  BY <1>5, <1>6

\* What is in a list is in its set.
LEMMA RangeOfList ==
    ASSUME NEW S, NEW q \in Seq(S)
    PROVE  Range(q) \subseteq S
<1>1. \A i \in DOMAIN q : q[i] \in S
  OBVIOUS
<1>2. QED
  BY <1>1 DEF Range

\* What is in two lists put together is in one of them.
LEMMA RangeOfConcat ==
    ASSUME NEW S, NEW a \in Seq(S), NEW b \in Seq(S), NEW x \in Range(a \o b)
    PROVE  x \in Range(a) \/ x \in Range(b)
<1>1. /\ a \o b \in Seq(S) /\ Len(a \o b) = Len(a) + Len(b)
      /\ \A i \in 1 .. Len(a) + Len(b) :
            (a \o b)[i] = IF i <= Len(a) THEN a[i] ELSE b[i - Len(a)]
  BY ConcatProperties, Zenon
<1>2. DOMAIN (a \o b) = 1 .. Len(a) + Len(b)
  BY <1>1
<1>3. PICK i \in 1 .. Len(a) + Len(b) : x = (a \o b)[i]
  BY <1>2 DEF Range
<1>4. x = IF i <= Len(a) THEN a[i] ELSE b[i - Len(a)]
  BY <1>1, <1>3
<1>5. Len(a) \in Nat /\ Len(b) \in Nat
  OBVIOUS
<1>6. CASE i <= Len(a)
  <2>1. i \in DOMAIN a /\ x = a[i]
    BY <1>4, <1>5, <1>6
  <2>2. QED
    BY <2>1 DEF Range
<1>7. CASE ~(i <= Len(a))
  <2>1. i - Len(a) \in DOMAIN b /\ x = b[i - Len(a)]
    BY <1>4, <1>5, <1>7
  <2>2. QED
    BY <2>1 DEF Range
<1>8. QED
  BY <1>6, <1>7

\* A part of a list, element by element.
LEMMA PartOfList ==
    ASSUME NEW S, NEW q \in Seq(S), NEW m \in 1..Len(q) + 1,
           NEW n \in 0..Len(q), m <= n + 1
    PROVE  /\ SubSeq(q, m, n) \in Seq(S) /\ Len(SubSeq(q, m, n)) = (n - m) + 1
           /\ \A j \in 1..(n - m) + 1 : SubSeq(q, m, n)[j] = q[m + (j - 1)]
  OBVIOUS

\* Induction over the turns of a loop.
LEMMA TurnByTurn ==
    ASSUME NEW N \in Nat, NEW D, 0 \in D,
           \A n \in 0..N : n \in D /\ n < N => n + 1 \in D
    PROVE  \A n \in 0..N : n \in D
<1> DEFINE Bad == {n \in 1..N : n \notin D}
<1>1. SUFFICES ASSUME Bad # {}
               PROVE  FALSE
  <2>1. ASSUME NEW n \in 0..N
        PROVE  n = 0 \/ n \in 1..N
    OBVIOUS
  <2>2. QED
    BY <2>1
<1>2. PICK m \in Bad : \A i \in Bad : m <= i
  <2>1. Bad \in SUBSET (1..N)
    OBVIOUS
  <2> HIDE DEF Bad
  <2>2. QED
    BY <1>1, <2>1, SmallestExists
<1>3. m - 1 \in 0..N /\ m - 1 < N /\ m = (m - 1) + 1
  OBVIOUS
<1>4. m - 1 \in D
  <2>1. CASE m = 1
    BY <2>1
  <2>2. CASE m # 1
    <3>1. m - 1 \in 1..N /\ ~(m <= m - 1)
      BY <2>2
    <3>2. QED
      BY <1>2, <3>1
  <2>3. QED
    BY <2>1, <2>2
<1>5. QED
  BY <1>3, <1>4

\* What a loop has at its start and every turn keeps is there after each turn.
LEMMA LoopStays ==
    ASSUME NEW N \in Nat, NEW T, NEW f, f[0] \in T,
           \A n \in 1..N : f[n - 1] \in T => f[n] \in T
    PROVE  \A n \in 0..N : f[n] \in T
<1> DEFINE D == {n \in 0..N : f[n] \in T}
<1>1. 0 \in D
  OBVIOUS
<1>2. ASSUME NEW n \in 0..N, n \in D, n < N
      PROVE  n + 1 \in D
  <2>1. n + 1 \in 1..N /\ (n + 1) - 1 = n
    BY <1>2
  <2>2. f[n + 1] \in T
    BY <1>2, <2>1
  <2>3. QED
    BY <2>1, <2>2
<1> HIDE DEF D
<1>3. \A n \in 0..N : n \in D
  BY <1>1, <1>2, TurnByTurn
<1>4. QED
  BY <1>3 DEF D

\* The values of f are those of a loop from b with that step.
Runs(f, n, b, step) ==
    f[0] = b /\ \A i \in 1..n : f[i] = step[<<f[i - 1], i>>]

\* A loop over its turns computes something: from a value of T and a step that
\* stays in T there is the list of the values after every turn.
LEMMA LoopComputes ==
    ASSUME NEW N \in Nat, NEW T, NEW b \in T, NEW step \in [T \X (1..N) -> T]
    PROVE  \E f \in [0..N -> T] : Runs(f, N, b, step)
<1> DEFINE Upto(n) ==
        \E f \in [0..n -> T] :
            f[0] = b /\ \A i \in 1..n : f[i] = step[<<f[i - 1], i>>]
           D == {n \in 0..N : Upto(n)}
<1>1. 0 \in D
  <2>1. [i \in 0..0 |-> b] \in [0..0 -> T] /\ [i \in 0..0 |-> b][0] = b
    OBVIOUS
  <2>2. \A i \in 1..0 : FALSE
    OBVIOUS
  <2>3. Upto(0)
    BY <2>1, <2>2
  <2>4. QED
    BY <2>3
<1>2. ASSUME NEW n \in 0..N, n \in D, n < N
      PROVE  n + 1 \in D
  <2>1. PICK f \in [0..n -> T] :
           f[0] = b /\ \A i \in 1..n : f[i] = step[<<f[i - 1], i>>]
    BY <1>2
  <2> DEFINE g == [i \in 0..(n + 1) |->
                      IF i <= n THEN f[i] ELSE step[<<f[n], n + 1>>]]
  <2>2. step[<<f[n], n + 1>>] \in T
    <3>1. f[n] \in T /\ n + 1 \in 1..N
      BY <1>2
    <3>2. QED
      BY <3>1
  <2>3. g \in [0..(n + 1) -> T]
    BY <2>2
  <2>4. g[0] = b
    BY <2>1
  <2>5. ASSUME NEW i \in 1..(n + 1)
        PROVE  g[i] = step[<<g[i - 1], i>>]
    <3>1. i - 1 \in 0..n /\ g[i - 1] = f[i - 1]
      OBVIOUS
    <3>2. CASE i <= n
      BY <2>1, <3>1, <3>2
    <3>3. CASE i = n + 1
      <4>1. ~(n + 1 <= n) /\ i - 1 = n /\ n + 1 \in 0..(n + 1)
        BY <3>3
      <4>2. g[n + 1] = step[<<f[n], n + 1>>]
        BY <4>1
      <4>3. QED
        BY <3>1, <3>3, <4>1, <4>2
    <3>4. QED
      BY <3>2, <3>3
  <2> HIDE DEF g
  <2>6. Upto(n + 1)
    BY <2>3, <2>4, <2>5
  <2>7. QED
    BY <1>2, <2>6
<1> HIDE DEF D
<1>3. \A n \in 0..N : n \in D
  BY <1>1, <1>2, TurnByTurn
<1>4. N \in D
  BY <1>3
<1>5. QED
  BY <1>4 DEF D, Runs

\* A function on 1..n is a list of length n.
LEMMA FunctionIsList ==
    ASSUME NEW n \in Nat, NEW S, NEW q \in [1..n -> S]
    PROVE  q \in Seq(S) /\ Len(q) = n
<1>1. q \in Seq(S)
  OBVIOUS
<1>2. Len(q) \in Nat /\ DOMAIN q = 1..Len(q) /\ DOMAIN q = 1..n
  BY <1>1
<1>3. Len(q) <= n
  <2>1. CASE Len(q) = 0
    BY <2>1
  <2>2. CASE Len(q) # 0
    <3>1. Len(q) \in DOMAIN q
      BY <1>2, <2>2
    <3>2. QED
      BY <1>2, <3>1
  <2>3. QED
    BY <2>1, <2>2
<1>4. n <= Len(q)
  <2>1. CASE n = 0
    BY <1>2, <2>1
  <2>2. CASE n # 0
    <3>1. n \in DOMAIN q
      BY <1>2, <2>2
    <3>2. QED
      BY <1>2, <3>1
  <2>3. QED
    BY <2>1, <2>2
<1>5. QED
  BY <1>1, <1>2, <1>3, <1>4

\* Of two different elements exactly one belongs before the other.
OrdersAll(S, R) ==
    /\ \A x \in S : <<x, x>> \notin R
    /\ \A x, y \in S : x # y => <<x, y>> \in R \/ <<y, x>> \in R
    /\ \A x, y, z \in S : <<x, y>> \in R /\ <<y, z>> \in R => <<x, z>> \in R

\* Elements have different places, all of them in the list, in their order.
LEMMA PlacesAreTaken ==
    ASSUME NEW S, IsFiniteSet(S), NEW R, OrdersAll(S, R)
    PROVE  /\ Cardinality(S) \in Nat
           /\ \A x \in S : Place(x, S, R) \in 1..Cardinality(S)
           /\ \A x, y \in S : <<x, y>> \in R => Place(x, S, R) < Place(y, S, R)
           /\ \A k \in 1..Cardinality(S) : \E x \in S : Place(x, S, R) = k
<1> DEFINE Ahead(x) == {y \in S : <<y, x>> \in R}
           N == Cardinality(S)
           place == [x \in S |-> Place(x, S, R)]
<1>1. N \in Nat
  BY FS_CardinalityType
<1>2. ASSUME NEW x \in S
      PROVE  /\ IsFiniteSet(Ahead(x)) /\ Cardinality(Ahead(x)) \in Nat
             /\ Cardinality(Ahead(x)) + 1 <= N
             /\ Place(x, S, R) = Cardinality(Ahead(x)) + 1
  <2>1. Ahead(x) \in SUBSET S
    OBVIOUS
  <2>2. IsFiniteSet(Ahead(x))
    BY <2>1, FS_Subset
  <2>3. Cardinality(Ahead(x)) \in Nat
    BY <2>2, FS_CardinalityType
  <2>4. x \notin Ahead(x)
    BY DEF OrdersAll
  <2>5. Cardinality(Ahead(x) \cup {x}) = Cardinality(Ahead(x)) + 1
    BY <2>2, <2>4, FS_AddElement
  <2>6. Ahead(x) \cup {x} \in SUBSET S
    OBVIOUS
  <2>7. Cardinality(Ahead(x) \cup {x}) <= N
    BY <2>6, FS_Subset
  <2>8. Place(x, S, R) = Cardinality(Ahead(x)) + 1
    BY DEF Place
  <2>9. Cardinality(Ahead(x)) + 1 <= N
    BY <2>5, <2>7
  <2>10. QED
    BY <2>2, <2>3, <2>8, <2>9
<1>3. \A x \in S : Place(x, S, R) \in 1..N
  <2>1. ASSUME NEW x \in S
        PROVE  Place(x, S, R) \in 1..N
    <3>1. /\ Cardinality(Ahead(x)) \in Nat /\ Cardinality(Ahead(x)) + 1 <= N
          /\ Place(x, S, R) = Cardinality(Ahead(x)) + 1
      BY <1>2
    <3> HIDE DEF Ahead, N
    <3>2. QED
      BY <1>1, <3>1
  <2>2. QED
    BY <2>1
<1>4. ASSUME NEW x \in S, NEW y \in S, <<x, y>> \in R
      PROVE  Place(x, S, R) < Place(y, S, R)
  <2>1. Ahead(x) \cup {x} \in SUBSET Ahead(y)
    BY <1>4 DEF OrdersAll
  <2>2. x \notin Ahead(x)
    BY DEF OrdersAll
  <2>3. /\ IsFiniteSet(Ahead(x)) /\ Cardinality(Ahead(x)) \in Nat
        /\ IsFiniteSet(Ahead(y)) /\ Cardinality(Ahead(y)) \in Nat
        /\ Place(x, S, R) = Cardinality(Ahead(x)) + 1
        /\ Place(y, S, R) = Cardinality(Ahead(y)) + 1
    BY <1>2
  <2> HIDE DEF Ahead
  <2>4. Cardinality(Ahead(x) \cup {x}) = Cardinality(Ahead(x)) + 1
    BY <2>2, <2>3, FS_AddElement
  <2>5. Cardinality(Ahead(x) \cup {x}) <= Cardinality(Ahead(y))
    BY <2>1, <2>3, FS_Subset
  <2>6. QED
    BY <2>3, <2>4, <2>5
<1>5. place \in Injection(S, 1..N)
  <2>1. place \in [S -> 1..N]
    BY <1>3
  <2>2. ASSUME NEW x \in S, NEW y \in S, place[x] = place[y]
        PROVE  x = y
    <3>1. ~(<<x, y>> \in R) /\ ~(<<y, x>> \in R)
      <4>1. Place(x, S, R) = Place(y, S, R) /\ Place(x, S, R) \in Nat
        BY <1>3, <2>2
      <4>2. QED
        BY <1>4, <4>1
    <3>2. QED
      BY <3>1 DEF OrdersAll
  <2> HIDE DEF place
  <2>3. QED
    BY <2>1, <2>2 DEF Injection, IsInjective
<1>6. IsFiniteSet(1..N) /\ Cardinality(1..N) = N
  BY <1>1, FS_Interval
<1>7. place \in Surjection(S, 1..N)
  <2> HIDE DEF place
  <2>1. QED
    BY <1>5, <1>6, FS_Injection
<1>8. \A k \in 1..N : \E x \in S : place[x] = k
  <2> HIDE DEF place
  <2>1. QED
    BY <1>7 DEF Surjection
<1>9. QED
  BY <1>1, <1>3, <1>4, <1>8

\* Sorted(S, R) lists every element of S once, in the order of R.
LEMMA SortedLists ==
    ASSUME NEW S, IsFiniteSet(S), NEW R, OrdersAll(S, R)
    PROVE  /\ Cardinality(S) \in Nat
           /\ Sorted(S, R) \in [1..Cardinality(S) -> S]
           /\ Sorted(S, R) \in Seq(S) /\ Len(Sorted(S, R)) = Cardinality(S)
           /\ \A x \in S : \E k \in 1..Cardinality(S) : Sorted(S, R)[k] = x
           /\ \A i, j \in 1..Cardinality(S) :
                 i < j <=> <<Sorted(S, R)[i], Sorted(S, R)[j]>> \in R
<1> DEFINE N == Cardinality(S)
           q == Sorted(S, R)
           P(x) == Place(x, S, R)
<1>1. /\ N \in Nat
      /\ \A x \in S : P(x) \in 1..N
      /\ \A x, y \in S : <<x, y>> \in R => P(x) < P(y)
      /\ \A k \in 1..N : \E x \in S : P(x) = k
  BY PlacesAreTaken
<1>2. \A k \in 1..N : q[k] \in S /\ P(q[k]) = k
  BY <1>1 DEF Sorted
<1>3. q \in [1..N -> S]
  BY <1>1 DEF Sorted
<1> HIDE DEF N, q
<1>4. q \in Seq(S) /\ Len(q) = N
  <2>1. N \in Nat
    BY <1>1
  <2>2. QED
    BY <1>3, <2>1, FunctionIsList
<1>5. ASSUME NEW x \in S, NEW y \in S, x # y
      PROVE  P(x) # P(y)
  <2>1. P(x) \in Nat /\ P(y) \in Nat
    BY <1>1
  <2>2. <<x, y>> \in R \/ <<y, x>> \in R
    BY <1>5 DEF OrdersAll
  <2>3. P(x) < P(y) \/ P(y) < P(x)
    BY <1>1, <2>2
  <2> HIDE DEF P
  <2>4. QED
    BY <2>1, <2>3
<1>6. \A x \in S : \E k \in 1..N : q[k] = x
  <2>1. ASSUME NEW x \in S
        PROVE  q[P(x)] = x
    BY <1>1, <1>2, <1>5
  <2>2. QED
    BY <1>1, <2>1
<1>7. ASSUME NEW i \in 1..N, NEW j \in 1..N
      PROVE  i < j <=> <<q[i], q[j]>> \in R
  <2>1. q[i] \in S /\ q[j] \in S /\ P(q[i]) = i /\ P(q[j]) = j
    BY <1>2
  <2>2. <<q[i], q[j]>> \in R => i < j
    BY <1>1, <2>1
  <2>3. <<q[j], q[i]>> \in R => j < i
    BY <1>1, <2>1
  <2>4. i < j => q[i] # q[j]
    BY <2>1
  <2>5. QED
    BY <2>1, <2>2, <2>3, <2>4 DEF OrdersAll
<1>8. QED
  BY <1>1, <1>3, <1>4, <1>6, <1>7 DEF N, q
=============================================================================
