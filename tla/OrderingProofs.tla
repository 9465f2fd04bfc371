--------------------------- MODULE OrderingProofs ---------------------------
(* What ORDER BY returns: every row once, in the order. *)
EXTENDS Ordering, Sequences, SequencesExt, FiniteSetTheorems, TLAPS

\* R is a strict total order of S.
StrictlyOrders(R, S) ==
  /\ \A x \in S : <<x, x>> \notin R
  /\ \A x, y, z \in S : <<x, y>> \in R /\ <<y, z>> \in R => <<x, z>> \in R
  /\ \A x, y \in S : x # y => <<x, y>> \in R \/ <<y, x>> \in R

\* In a finite set with a strict total order every element has its place.
LEMMA Ranking ==
  ASSUME NEW S, IsFiniteSet(S), NEW R, StrictlyOrders(R, S),
         NEW rank, rank = [x \in S |-> Cardinality({y \in S : <<y, x>> \in R})]
  PROVE  /\ rank \in [S -> 0..(Cardinality(S) - 1)]
         /\ \A i \in 1..Cardinality(S) : \E x \in S : rank[x] = i - 1
         /\ \A x, y \in S : rank[x] < rank[y] <=> <<x, y>> \in R
<1> DEFINE P(x) == {y \in S : <<y, x>> \in R}
           n == Cardinality(S)
<1>0. /\ \A x \in S : <<x, x>> \notin R
      /\ \A x, y, z \in S : <<x, y>> \in R /\ <<y, z>> \in R => <<x, z>> \in R
      /\ \A x, y \in S : x # y => <<x, y>> \in R \/ <<y, x>> \in R
  BY DEF StrictlyOrders
<1>1. n \in Nat
  BY FS_CardinalityType
<1>2. ASSUME NEW x \in S
      PROVE  /\ IsFiniteSet(P(x)) /\ rank[x] = Cardinality(P(x)) /\ rank[x] \in 0..(n - 1)
  <2>1. P(x) \in SUBSET S /\ P(x) # S
    BY <1>0
  <2>2. IsFiniteSet(P(x)) /\ Cardinality(P(x)) <= n /\ Cardinality(P(x)) # n
    BY <2>1, FS_Subset
  <2>3. Cardinality(P(x)) \in Nat
    BY <2>2, FS_CardinalityType
  <2>4. rank[x] = Cardinality(P(x))
    OBVIOUS
  <2> HIDE DEF P
  <2> QED BY <1>1, <2>2, <2>3, <2>4
<1>3. ASSUME NEW x \in S, NEW y \in S, <<x, y>> \in R
      PROVE  rank[x] < rank[y]
  <2>1. P(x) \in SUBSET P(y) /\ P(x) # P(y)
    BY <1>0, <1>3
  <2>2. Cardinality(P(x)) <= Cardinality(P(y)) /\ Cardinality(P(x)) # Cardinality(P(y))
    <3>1. IsFiniteSet(P(y))
      BY <1>2
    <3> HIDE DEF P
    <3> QED BY <2>1, <3>1, FS_Subset
  <2>3. /\ rank[x] = Cardinality(P(x)) /\ rank[y] = Cardinality(P(y))
        /\ rank[x] \in 0..(n - 1) /\ rank[y] \in 0..(n - 1)
    BY <1>2
  <2> HIDE DEF P, n
  <2> QED BY <1>1, <2>2, <2>3
<1>4. rank \in [S -> 0..(n - 1)]
  BY <1>2
<1>5. \A x, y \in S : rank[x] = rank[y] => x = y
  <2> SUFFICES ASSUME NEW x \in S, NEW y \in S, x # y PROVE rank[x] # rank[y]
    OBVIOUS
  <2>1. rank[x] \in 0..(n - 1) /\ rank[y] \in 0..(n - 1) /\ (rank[x] < rank[y] \/ rank[y] < rank[x])
    BY <1>0, <1>3, <1>4
  <2> QED BY <1>1, <2>1
<1>6. \A i \in 0..(n - 1) : \E x \in S : rank[x] = i
  <2>1. IsFiniteSet(0..(n - 1)) /\ Cardinality(0..(n - 1)) = n
    BY <1>1, FS_Interval
  <2>2. rank \in Injection(S, 0..(n - 1))
    BY <1>4, <1>5 DEF Injection, IsInjective
  <2>3. rank \in Surjection(S, 0..(n - 1))
    BY <2>1, <2>2, FS_Injection
  <2> QED BY <2>3 DEF Surjection
<1>7. \A x, y \in S : rank[x] < rank[y] => <<x, y>> \in R
  <2> SUFFICES ASSUME NEW x \in S, NEW y \in S, rank[x] < rank[y] PROVE <<x, y>> \in R
    OBVIOUS
  <2>1. rank[x] \in 0..(n - 1) /\ rank[y] \in 0..(n - 1)
    BY <1>4
  <2>2. x # y /\ ~(rank[y] < rank[x])
    BY <1>1, <2>1
  <2> QED BY <1>0, <1>3, <2>2
<1> HIDE DEF P
<1> QED
  <2>1. \A i \in 1..n : i - 1 \in 0..(n - 1)
    BY <1>1
  <2> QED BY <1>3, <1>4, <1>6, <1>7, <2>1

\* list has at place i the element of S with rank i - 1; R is the order of the ranks.
Sorts(list, S, R, n, rank) ==
  /\ n \in Nat /\ rank \in [S -> 0..(n - 1)] /\ list \in [1..n -> S]
  /\ \A x, y \in S : x # y => <<x, y>> \in R \/ <<y, x>> \in R
  /\ \A x, y \in S : rank[x] < rank[y] <=> <<x, y>> \in R
  /\ \A i \in 1..n : rank[list[i]] = i - 1

\* Such a list holds every element, in the order.
LEMMA OrderedList ==
  ASSUME NEW list, NEW S, NEW R, NEW n, NEW rank, Sorts(list, S, R, n, rank)
  PROVE  /\ list \in Seq(S) /\ Len(list) = n /\ ToSet(list) = S
         /\ \A i, j \in DOMAIN list : i < j => <<list[i], list[j]>> \in R
<1>0. n \in Nat /\ rank \in [S -> 0..(n - 1)] /\ list \in [1..n -> S]
  BY DEF Sorts
<1>1. /\ \A x, y \in S : rank[x] < rank[y] <=> <<x, y>> \in R
      /\ \A x, y \in S : x # y => <<x, y>> \in R \/ <<y, x>> \in R
  BY DEF Sorts
<1>4. \A i \in 1..n : list[i] \in S /\ rank[list[i]] = i - 1
  BY DEF Sorts
<1>5. list \in [1..n -> S] /\ DOMAIN list = 1..n
  BY DEF Sorts
<1>6. list \in Seq(S) /\ Len(list) = n
  BY <1>0, <1>5
<1>7. ASSUME NEW x \in S PROVE x \in ToSet(list)
  <2> DEFINE i == rank[x] + 1
  <2>1. rank[x] \in 0..(n - 1)
    BY <1>0
  <2>2. i \in 1..n /\ rank[x] = i - 1 /\ rank[x] \in Int
    BY <1>0, <2>1
  <2> HIDE DEF i
  <2>3. list[i] \in S /\ rank[list[i]] = rank[x]
    BY <1>4, <2>2
  <2>4. ~(rank[x] < rank[list[i]]) /\ ~(rank[list[i]] < rank[x])
    BY <2>2, <2>3
  <2>5. list[i] = x
    BY <1>1, <2>3, <2>4
  <2> QED BY <1>5, <2>2, <2>5 DEF ToSet
<1>8. ASSUME NEW i \in DOMAIN list, NEW j \in DOMAIN list, i < j
      PROVE  <<list[i], list[j]>> \in R
  <2>3. i \in 1..n /\ j \in 1..n
    BY <1>5
  <2>1. /\ list[i] \in S /\ rank[list[i]] = i - 1 /\ i \in Int
        /\ list[j] \in S /\ rank[list[j]] = j - 1 /\ j \in Int
    BY <1>0, <1>4, <2>3
  <2>2. rank[list[i]] < rank[list[j]]
    BY <1>8, <2>1
  <2> QED BY <1>1, <2>1, <2>2
<1> QED BY <1>4, <1>5, <1>6, <1>7, <1>8 DEF ToSet

\* The list holds every row once, and of two rows in it the one before is the first.
LEMMA OrderedProperties ==
  ASSUME NEW S, IsFiniteSet(S), NEW R, StrictlyOrders(R, S)
  PROVE  LET list == Ordered(S, R)
         IN  /\ list \in Seq(S) /\ Len(list) = Cardinality(S) /\ ToSet(list) = S
             /\ \A i, j \in DOMAIN list : i < j => <<list[i], list[j]>> \in R
<1> DEFINE n == Cardinality(S)
           rank == [x \in S |-> Cardinality({y \in S : <<y, x>> \in R})]
           list == Ordered(S, R)
<1>1. n \in Nat
  BY FS_CardinalityType
<1>2. /\ rank \in [S -> 0..(n - 1)]
      /\ \A i \in 1..n : \E x \in S : rank[x] = i - 1
      /\ \A x, y \in S : rank[x] < rank[y] <=> <<x, y>> \in R
  BY Ranking
<1>3. list = [i \in 1..n |-> CHOOSE x \in S : Cardinality({y \in S : <<y, x>> \in R}) = i - 1]
  BY DEF Ordered
<1>4. \A x \in S : rank[x] = Cardinality({y \in S : <<y, x>> \in R})
  OBVIOUS
<1> HIDE DEF n, list, rank
<1>5. ASSUME NEW i \in 1..n
      PROVE  list[i] \in S /\ rank[list[i]] = i - 1
  <2>1. \E x \in S : Cardinality({y \in S : <<y, x>> \in R}) = i - 1
    BY <1>2, <1>4
  <2>2. list[i] = CHOOSE x \in S : Cardinality({y \in S : <<y, x>> \in R}) = i - 1
    BY <1>3
  <2>3. list[i] \in S /\ Cardinality({y \in S : <<y, list[i]>> \in R}) = i - 1
    BY <2>1, <2>2
  <2> QED BY <1>4, <2>3
<1>6. list \in [1..n -> S] /\ \A i \in 1..n : rank[list[i]] = i - 1
  BY <1>3, <1>5
<1>7. Sorts(list, S, R, n, rank)
  BY <1>1, <1>2, <1>6 DEF Sorts, StrictlyOrders
<1> QED BY <1>7, OrderedList DEF list, n
=============================================================================
