--------------------------- MODULE ListingProofs ---------------------------
(***************************************************************************)
(* Sorting and filtering keep their promises, for sets and lists of any    *)
(* size.                                                                   *)
(***************************************************************************)
EXTENDS Listing, FiniteSetTheorems, FunctionTheorems, SequenceTheorems, TLAPS

\* An injection between finite sets of the same size reaches every element.
LEMMA SameSizeOnto ==
    ASSUME NEW S, NEW T, IsFiniteSet(T), Cardinality(S) = Cardinality(T),
           NEW f \in [S -> T], \A x, y \in S : f[x] = f[y] => x = y
    PROVE  \A y \in T : \E x \in S : f[x] = y
<1>1. f \in Injection(S, T)
  BY Fun_IsInj
<1>2. f \in Surjection(S, T)
  BY <1>1, FS_Injection
<1>3. QED
  BY <1>2, Fun_SurjectionProperties

\* An element is not among its predecessors, and an earlier one has fewer.
LEMMA OrdersRank ==
    ASSUME NEW T, NEW R, Orders(R, T)
    PROVE  Ranked(T, R)
<1> DEFINE before(x) == {u \in T : <<u, x>> \in R}
<1>1. IsFiniteSet(T) /\ Cardinality(T) \in Nat
  BY FS_CardinalityType, Zenon DEF Orders
<1>2. ASSUME NEW X, NEW Y, NEW y, IsFiniteSet(Y), X \subseteq Y, y \in Y, y \notin X
      PROVE  /\ Cardinality(X) \in Nat /\ Cardinality(Y) \in Nat
             /\ Cardinality(X) + 1 <= Cardinality(Y) /\ Cardinality(X) < Cardinality(Y)
  <2>1. IsFiniteSet(X) /\ Cardinality(X) <= Cardinality(Y) /\ Cardinality(Y) # Cardinality(X)
    BY <1>2, FS_Subset
  <2>2. Cardinality(X) \in Nat /\ Cardinality(Y) \in Nat
    BY <1>2, <2>1, FS_CardinalityType, Zenon
  <2>3. QED
    BY <2>1, <2>2
<1>3. \A x \in T : Rank(x, T, R) = Cardinality(before(x))
  BY Zenon DEF Rank
<1>4. ASSUME NEW x \in T
      PROVE  /\ before(x) \subseteq T /\ x \notin before(x)
             /\ IsFiniteSet(before(x))
  <2>1. before(x) \subseteq T /\ x \notin before(x)
    BY Zenon DEF Orders
  <2>2. QED
    BY <1>1, <2>1, FS_Subset, Zenon
<1>5. ASSUME NEW x \in T, NEW y \in T, <<x, y>> \in R
      PROVE  before(x) \subseteq before(y) /\ x \in before(y)
  BY <1>5 DEF Orders
<1> HIDE DEF before
<1>6. \A x \in T : Rank(x, T, R) \in Nat /\ Rank(x, T, R) + 1 <= Cardinality(T)
  <2> SUFFICES ASSUME NEW x \in T
               PROVE  Rank(x, T, R) \in Nat /\ Rank(x, T, R) + 1 <= Cardinality(T)
    BY Zenon
  <2>1. /\ Cardinality(before(x)) \in Nat
        /\ Cardinality(before(x)) + 1 <= Cardinality(T)
    BY <1>1, <1>2, <1>4, Zenon
  <2>2. QED
    BY <1>3, <2>1, Zenon
<1>7. \A x, y \in T : <<x, y>> \in R => Rank(x, T, R) < Rank(y, T, R)
  <2> SUFFICES ASSUME NEW x \in T, NEW y \in T, <<x, y>> \in R
               PROVE  Rank(x, T, R) < Rank(y, T, R)
    BY Zenon
  <2>1. /\ IsFiniteSet(before(y)) /\ before(x) \subseteq before(y)
        /\ x \in before(y) /\ x \notin before(x)
    BY <1>4, <1>5, Zenon
  <2>2. Cardinality(before(x)) < Cardinality(before(y))
    BY <1>2, <2>1, Zenon
  <2>3. QED
    BY <1>3, <2>2, Zenon
<1>8. QED
  BY <1>1, <1>6, <1>7, Zenon DEF Ranked

\* Sorting a finite set by a strict total order gives a sequence of all its
\* elements in that order.
LEMMA OrderedLists ==
    ASSUME NEW T, NEW R, Orders(R, T)
    PROVE  ListedBy(Ordered(T, R), T, R)
<1> DEFINE n == Cardinality(T)
           rank == [x \in T |-> Rank(x, T, R) + 1]
           sorted(q) == \A i, j \in DOMAIN q : i < j => <<q[i], q[j]>> \in R
<1>1. IsFiniteSet(T) /\ n \in Nat
  BY FS_CardinalityType, Zenon DEF Orders
<1> HIDE DEF n
<1>2. ASSUME NEW x \in T  PROVE  rank[x] \in 1 .. n
  <2>1. Rank(x, T, R) \in Nat /\ Rank(x, T, R) + 1 <= n
    BY OrdersRank, Zenon DEF Ranked, n
  <2>2. QED
    BY <1>1, <2>1
<1>3. ASSUME NEW x \in T, NEW y \in T, <<x, y>> \in R
      PROVE  rank[x] < rank[y]
  <2>1. Rank(x, T, R) \in Nat /\ Rank(y, T, R) \in Nat /\ Rank(x, T, R) < Rank(y, T, R)
    BY <1>3, OrdersRank, Zenon DEF Ranked
  <2>2. QED
    BY <2>1
<1>4. rank \in [T -> 1 .. n] /\ \A x, y \in T : rank[x] = rank[y] => x = y
  <2>1. rank \in [T -> 1 .. n]
    BY <1>2
  <2>2. ASSUME NEW x \in T, NEW y \in T, rank[x] = rank[y]  PROVE  x = y
    <3> HIDE DEF rank
    <3>1. rank[x] \in Int /\ rank[y] \in Int
      BY <1>2
    <3>2. ~(rank[x] < rank[y]) /\ ~(rank[y] < rank[x])
      BY <2>2, <3>1
    <3>3. QED
      BY <1>3, <3>2, Zenon DEF Orders
  <2>3. QED
    BY <2>1, <2>2
<1> HIDE DEF rank
<1>5. IsFiniteSet(1 .. n) /\ Cardinality(1 .. n) = Cardinality(T)
  <2>1. IsFiniteSet(1 .. n) /\ Cardinality(1 .. n) = n
    BY <1>1, FS_Interval
  <2>2. QED
    BY <2>1 DEF n
<1>6. \A i \in 1 .. n : \E x \in T : rank[x] = i
  <2> DEFINE N == 1 .. n
  <2>1. /\ IsFiniteSet(N) /\ Cardinality(T) = Cardinality(N)
        /\ rank \in [T -> N] /\ \A x, y \in T : rank[x] = rank[y] => x = y
    BY <1>4, <1>5
  <2> HIDE DEF N
  <2>2. \A i \in N : \E x \in T : rank[x] = i
    BY <2>1, SameSizeOnto
  <2>3. QED
    BY <2>2 DEF N
<1>7. \E q \in [1 .. n -> T] : sorted(q)
  <2> DEFINE q == [i \in 1 .. n |-> CHOOSE x \in T : rank[x] = i]
  <2>1. q \in [1 .. n -> T] /\ \A i \in 1 .. n : rank[q[i]] = i
    BY <1>6
  <2> HIDE DEF q
  <2>2. ASSUME NEW i \in 1 .. n, NEW j \in 1 .. n, i < j
        PROVE  <<q[i], q[j]>> \in R
    <3>1. q[i] \in T /\ q[j] \in T /\ rank[q[i]] = i /\ rank[q[j]] = j
      BY <2>1
    <3>2. q[i] # q[j]
      BY <2>2, <3>1
    <3>3. CASE <<q[j], q[i]>> \in R
      BY <1>1, <1>3, <2>2, <3>1, <3>3
    <3>4. QED
      BY <3>1, <3>2, <3>3, Zenon DEF Orders
  <2>3. QED
    BY <2>1, <2>2, Zenon
<1>8. Ordered(T, R) \in [1 .. n -> T] /\ sorted(Ordered(T, R))
  BY <1>7, Zenon DEF Ordered, n
<1> DEFINE q == Ordered(T, R)
<1> HIDE DEF q
<1>9. q \in [1 .. n -> T] /\ sorted(q)
  BY <1>8 DEF q
<1>10. \A i, j \in 1 .. n : q[i] = q[j] => i = j
  <2>1. SUFFICES ASSUME NEW i \in 1 .. n, NEW j \in 1 .. n, i < j
                 PROVE  q[i] # q[j]
    BY <1>1
  <2>2. <<q[i], q[j]>> \in R /\ q[i] \in T /\ q[j] \in T
    BY <1>9, <2>1
  <2>3. QED
    BY <2>2, Zenon DEF Orders
<1>11. \A x \in T : \E i \in 1 .. n : q[i] = x
  BY <1>1, <1>5, <1>9, <1>10, SameSizeOnto
<1>12. q \in Seq(T) /\ DOMAIN q = 1 .. n
  BY <1>1, <1>9, SeqDef
<1>13. QED
  BY <1>9, <1>11, <1>12, Zenon DEF q, ListedBy

\* VecDeque::retain keeps the entries that are not in T, and their order.
LEMMA WithoutEntriesKeeps ==
    ASSUME NEW S, NEW q \in Seq(S), NEW T
    PROVE  LeftOf(WithoutEntries(q, T), q, S, T)
<1> DEFINE kept == {i \in DOMAIN q : q[i] \notin T}
           less == {p \in kept \X kept : p[1] < p[2]}
           at == Ordered(kept, less)
<1>1. Len(q) \in Nat /\ DOMAIN q = 1 .. Len(q) /\ \A i \in DOMAIN q : q[i] \in S
  OBVIOUS
<1>2. \A i \in kept : i \in Int /\ i \in DOMAIN q /\ q[i] \in S \ T
  BY <1>1
<1>3. IsFiniteSet(kept)
  <2>1. kept \subseteq 1 .. Len(q) /\ IsFiniteSet(1 .. Len(q))
    BY <1>1, FS_Interval
  <2>2. QED
    BY <2>1, FS_Subset
<1>4. \A i, j \in kept : <<i, j>> \in less <=> i < j
  OBVIOUS
<1> HIDE DEF kept, less
<1>5. Orders(less, kept)
  BY <1>2, <1>3, <1>4 DEF Orders
<1>6. /\ at \in Seq(kept)
      /\ \A i \in kept : \E k \in DOMAIN at : at[k] = i
      /\ \A k, l \in DOMAIN at : k < l => <<at[k], at[l]>> \in less
  BY <1>5, OrderedLists, Zenon DEF ListedBy
<1> HIDE DEF at
<1>7. WithoutEntries(q, T) = [k \in DOMAIN at |-> q[at[k]]]
  BY DEF WithoutEntries, at, kept, less
<1>8. /\ Len(at) \in Nat /\ DOMAIN at = 1 .. Len(at)
      /\ \A k \in DOMAIN at : at[k] \in kept
  BY <1>6
<1> DEFINE p == WithoutEntries(q, T)
<1>9. DOMAIN p = DOMAIN at /\ \A k \in DOMAIN at : p[k] = q[at[k]]
  BY <1>7, Zenon
<1>10. p \in Seq(S \ T)
  <2>1. p \in [1 .. Len(at) -> S \ T]
    BY <1>2, <1>7, <1>8
  <2>2. QED
    BY <1>8, <2>1, SeqDef
<1> HIDE DEF p
<1>11. ASSUME NEW i \in DOMAIN q, q[i] \notin T
       PROVE  \E k \in DOMAIN p : p[k] = q[i]
  <2>1. i \in kept
    BY <1>11, Zenon DEF kept
  <2>2. PICK k \in DOMAIN at : at[k] = i
    BY <1>6, <2>1, Zenon
  <2>3. k \in DOMAIN p /\ p[k] = q[i]
    BY <1>9, <2>2, Zenon
  <2>4. QED
    BY <2>3, Zenon
<1>12. ASSUME NEW k \in DOMAIN p, NEW l \in DOMAIN p, k < l
       PROVE  \E i, j \in DOMAIN q : i < j /\ q[i] = p[k] /\ q[j] = p[l]
  <2>1. at[k] \in kept /\ at[l] \in kept /\ <<at[k], at[l]>> \in less
    BY <1>6, <1>8, <1>9, <1>12, Zenon
  <2>2. at[k] < at[l] /\ at[k] \in DOMAIN q /\ at[l] \in DOMAIN q
    BY <1>2, <1>4, <2>1, Zenon
  <2>3. QED
    BY <1>9, <2>2, Zenon
<1>13. LeftOf(p, q, S, T)
  BY <1>10, <1>11, <1>12, Zenon DEF LeftOf
<1>14. QED
  BY <1>13, Zenon DEF p

\* The facts on sets and lists that the lemmas on steps rely on.
LEMMA ListLawsHold == ListLaws
<1>1. CountsSubsets
  <2> SUFFICES ASSUME NEW T, NEW S, IsFiniteSet(T), S \subseteq T
               PROVE  IsFiniteSet(S) /\ Cardinality(S) \in Nat
    BY Zenon DEF CountsSubsets
  <2>1. IsFiniteSet(S)
    BY FS_Subset, Zenon
  <2>2. QED
    BY <2>1, FS_CardinalityType, Zenon
<1>2. RanksSets
  BY OrdersRank, Zenon DEF RanksSets
<1>3. SortsSets
  BY OrderedLists, Zenon DEF SortsSets
<1>4. FiltersLists
  BY WithoutEntriesKeeps, Zenon DEF FiltersLists
<1>5. WidensLists
  BY SeqMonotonic DEF WidensLists
<1>6. CountsSmall
  BY FS_EmptySet, FS_Singleton, Zenon DEF CountsSmall
<1>7. QED
  BY <1>1, <1>2, <1>3, <1>4, <1>5, <1>6, Zenon DEF ListLaws
=============================================================================
