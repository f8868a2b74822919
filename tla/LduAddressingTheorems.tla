------------------------- MODULE LduAddressingTheorems -------------------------
(***************************************************************************)
(* Lemmas about addressings and orderings used by the proofs of the        *)
(* builders and of the smoothers.                                          *)
(***************************************************************************)
EXTENDS LduAddressing, SequenceTheorems, FiniteSetTheorems,
        NaturalsInduction, WellFoundedInduction, TLAPS

\* Every nonempty set of naturals has a least element.
LEMMA LeastNatural ==
  ASSUME NEW S \in SUBSET Nat, S # {}
  PROVE  \E n \in S : \A k \in S : n <= k
<1> DEFINE below == {ss \in Nat \X Nat : ss[1] < ss[2]}
<1>1. IsWellFoundedOn(below, Nat)
  BY NatLessThanWellFounded, Zenon DEF OpToRel
<1>2. PICK x \in S : \A y \in S : ~ (<<y, x>> \in below)
  BY <1>1, WFMin, Zenon
<1>3. ASSUME NEW y \in S PROVE x <= y
  <2>1. x \in Nat /\ y \in Nat
    OBVIOUS
  <2>2. y < x => <<y, x>> \in below
    BY <2>1
  <2>3. ~ (<<y, x>> \in below)
    BY <1>2, Zenon
  <2> HIDE DEF below
  <2> QED BY <2>1, <2>2, <2>3
<1> QED BY <1>3

\* The addressing a mesh reader builds, with every owner below its neighbour,
\* has no cycle: the least cell of a set waits for no cell of the set.
LEMMA UpperTriangularIsAcyclic ==
  ASSUME NEW m, IsAddressing(m), UpperTriangular(m)
  PROVE  ~ HasCycle(m)
<1> SUFFICES ASSUME NEW S \in SUBSET Cells, S # {},
                    \A c \in S : \E f \in IncomingFaces(m, c) : m.lower[f] \in S
             PROVE  FALSE
  BY DEF HasCycle
<1>1. S \in SUBSET Nat
  BY NCellsAssumption DEF Cells
<1>2. PICK c \in S : \A d \in S : c <= d
  BY <1>1, LeastNatural
<1>3. PICK f \in IncomingFaces(m, c) : m.lower[f] \in S
  OBVIOUS
<1>4. f \in Faces(m) /\ m.upper[f] = c
  BY <1>3 DEF IncomingFaces
<1>5. m.lower[f] < c
  BY <1>4 DEF UpperTriangular
<1>6. c \in Nat /\ m.lower[f] \in Nat
  BY <1>1, <1>2, <1>3
<1> QED BY <1>2, <1>3, <1>5, <1>6

\* The cells, and every set of them, are finitely many.
LEMMA CellsFinite ==
  /\ IsFiniteSet(Cells)
  /\ Cardinality(Cells) = NCells
  /\ \A S \in SUBSET Cells : IsFiniteSet(S) /\ Cardinality(S) \in 0 .. NCells
<1>1. IsFiniteSet(Cells) /\ Cardinality(Cells) = NCells
  BY NCellsAssumption, FS_Interval DEF Cells
<1>2. ASSUME NEW S \in SUBSET Cells
      PROVE  IsFiniteSet(S) /\ Cardinality(S) \in 0 .. NCells
  <2>1. IsFiniteSet(S) /\ Cardinality(S) <= NCells
    BY <1>1, FS_Subset
  <2>2. Cardinality(S) \in Nat
    BY <2>1, FS_CardinalityType
  <2> QED BY <2>1, <2>2, NCellsAssumption
<1> QED BY <1>1, <1>2

\* A list of cells without repetition is no longer than there are cells.
LEMMA InjectiveIsShort ==
  ASSUME NEW s \in Seq(Cells), IsInjective(s)
  PROVE  Len(s) <= NCells
<1>1. s \in [1 .. Len(s) -> Cells] /\ DOMAIN s = 1 .. Len(s) /\ Len(s) \in Nat
  BY LenProperties
<1>2. s \in Injection(1 .. Len(s), Cells)
  BY <1>1 DEF IsInjective, Injection
<1>3. Cardinality(1 .. Len(s)) <= Cardinality(Cells)
  BY <1>2, CellsFinite, FS_Injection
<1>4. Cardinality(1 .. Len(s)) = Len(s)
  <2>1. 1 \in Int /\ Len(s) \in Int
    BY <1>1
  <2>2. Cardinality(1 .. Len(s)) = IF 1 > Len(s) THEN 0 ELSE Len(s) - 1 + 1
    BY <2>1, FS_Interval, Zenon
  <2> QED BY <2>2, <1>1
<1> QED BY <1>3, <1>4, CellsFinite

\* A function on 1..n is a sequence of length n.
LEMMA FunctionIsSeq ==
  ASSUME NEW T, NEW n \in Nat, NEW s \in [1 .. n -> T]
  PROVE  s \in Seq(T) /\ Len(s) = n
OBVIOUS

\* What a concatenation lists is what its parts list.
LEMMA RangeOfConcat ==
  ASSUME NEW S, NEW s \in Seq(S), NEW t \in Seq(S)
  PROVE  Range(s \o t) = Range(s) \cup Range(t)
<1>1. /\ s \o t \in Seq(S)
      /\ Len(s \o t) = Len(s) + Len(t)
      /\ \A i \in 1 .. Len(s) + Len(t) :
           (s \o t)[i] = IF i <= Len(s) THEN s[i] ELSE t[i - Len(s)]
  BY ConcatProperties
<1>2. /\ DOMAIN s = 1 .. Len(s) /\ DOMAIN t = 1 .. Len(t)
      /\ DOMAIN (s \o t) = 1 .. Len(s) + Len(t)
      /\ Len(s) \in Nat /\ Len(t) \in Nat
  BY <1>1, LenProperties
<1>3. ASSUME NEW x \in Range(s \o t) PROVE x \in Range(s) \cup Range(t)
  <2>1. PICK i \in 1 .. Len(s) + Len(t) : (s \o t)[i] = x
    BY <1>2, <1>3 DEF Range
  <2>2. CASE i <= Len(s)
    BY <1>1, <1>2, <2>1, <2>2 DEF Range
  <2>3. CASE i > Len(s)
    <3>1. i - Len(s) \in 1 .. Len(t) /\ t[i - Len(s)] = x
      BY <1>1, <1>2, <2>1, <2>3
    <3> QED BY <1>2, <3>1 DEF Range
  <2> QED BY <2>2, <2>3, <1>2
<1>4. ASSUME NEW x \in Range(s) PROVE x \in Range(s \o t)
  <2>1. PICK i \in 1 .. Len(s) : s[i] = x
    BY <1>2, <1>4 DEF Range
  <2>2. i \in 1 .. Len(s) + Len(t) /\ (s \o t)[i] = x
    BY <1>1, <1>2, <2>1
  <2> QED BY <1>2, <2>2 DEF Range
<1>5. ASSUME NEW x \in Range(t) PROVE x \in Range(s \o t)
  <2>1. PICK i \in 1 .. Len(t) : t[i] = x
    BY <1>2, <1>5 DEF Range
  <2>2. i + Len(s) \in 1 .. Len(s) + Len(t) /\ (s \o t)[i + Len(s)] = x
    BY <1>1, <1>2, <2>1
  <2> QED BY <1>2, <2>2 DEF Range
<1> QED BY <1>3, <1>4, <1>5

\* A list is a prefix of itself with more appended.
LEMMA PrefixOfConcat ==
  ASSUME NEW S, NEW s \in Seq(S), NEW t \in Seq(S)
  PROVE  SubSeq(s \o t, 1, Len(s)) = s
<1>1. /\ \A i \in 1 .. Len(s) + Len(t) :
           (s \o t)[i] = IF i <= Len(s) THEN s[i] ELSE t[i - Len(s)]
      /\ Len(s) \in Nat /\ Len(t) \in Nat
  BY ConcatProperties, LenProperties
<1> DEFINE u == s \o t
           n == Len(s)
<1>2. \A i \in 1 .. n : u[i] = s[i]
  BY <1>1
<1>3. \A i \in 1 .. n : s[i] \in S
  BY ElementOfSeq
<1> HIDE DEF u
<1>4. /\ SubSeq(u, 1, n) \in Seq(S)
      /\ Len(SubSeq(u, 1, n)) = IF 1 <= n THEN n - 1 + 1 ELSE 0
      /\ \A i \in 1 .. n - 1 + 1 : SubSeq(u, 1, n)[i] = u[1 + i - 1]
  <2>1. n \in Int /\ 1 \in Int /\ \A i \in 1 .. n : u[i] \in S
    BY <1>1, <1>2, <1>3
  <2> HIDE DEF n
  <2> QED BY <2>1, SubSeqProperties
<1>5. Len(SubSeq(u, 1, n)) = n /\ \A i \in 1 .. n : SubSeq(u, 1, n)[i] = s[i]
  BY <1>1, <1>2, <1>4
<1>6. SubSeq(u, 1, n) = s
  BY <1>4, <1>5, SeqEqual
<1> QED BY <1>6 DEF u

\* Appending fresh cells keeps a list free of repetitions.
LEMMA InjectiveConcat ==
  ASSUME NEW S, NEW s \in Seq(S), NEW t \in Seq(S),
         IsInjective(s), IsInjective(t), Range(s) \cap Range(t) = {}
  PROVE  IsInjective(s \o t)
<1>1. /\ Len(s \o t) = Len(s) + Len(t)
      /\ \A i \in 1 .. Len(s) + Len(t) :
           (s \o t)[i] = IF i <= Len(s) THEN s[i] ELSE t[i - Len(s)]
      /\ s \o t \in Seq(S)
  BY ConcatProperties
<1>2. /\ DOMAIN s = 1 .. Len(s) /\ DOMAIN t = 1 .. Len(t)
      /\ DOMAIN (s \o t) = 1 .. Len(s) + Len(t)
      /\ Len(s) \in Nat /\ Len(t) \in Nat
  BY <1>1, LenProperties
<1> SUFFICES ASSUME NEW i \in 1 .. Len(s) + Len(t), NEW j \in 1 .. Len(s) + Len(t),
                    (s \o t)[i] = (s \o t)[j]
             PROVE  i = j
  BY <1>2 DEF IsInjective
<1>3. CASE i <= Len(s) /\ j <= Len(s)
  BY <1>1, <1>2, <1>3 DEF IsInjective
<1>4. CASE i > Len(s) /\ j > Len(s)
  <2>1. i - Len(s) \in DOMAIN t /\ j - Len(s) \in DOMAIN t
    BY <1>2, <1>4
  <2>2. t[i - Len(s)] = t[j - Len(s)]
    BY <1>1, <1>2, <1>4
  <2>3. i - Len(s) = j - Len(s)
    BY <2>1, <2>2 DEF IsInjective
  <2> QED BY <2>3, <1>2
<1>5. CASE i <= Len(s) /\ j > Len(s)
  <2>1. s[i] \in Range(s) /\ t[j - Len(s)] \in Range(t)
    BY <1>2, <1>5 DEF Range
  <2>2. s[i] = t[j - Len(s)]
    BY <1>1, <1>2, <1>5
  <2> QED BY <2>1, <2>2
<1>6. CASE i > Len(s) /\ j <= Len(s)
  <2>1. s[j] \in Range(s) /\ t[i - Len(s)] \in Range(t)
    BY <1>2, <1>6 DEF Range
  <2>2. s[j] = t[i - Len(s)]
    BY <1>1, <1>2, <1>6
  <2> QED BY <2>1, <2>2
<1> QED BY <1>3, <1>4, <1>5, <1>6, <1>2

\* An ordering of all cells whose levels separate the faces shows that the
\* addressing has no cycle.
LEMMA OrderedIsAcyclic ==
  ASSUME NEW m, IsAddressing(m), NEW order \in Seq(Cells), NEW starts,
         Range(order) = Cells, SeparatesLevels(m, order, starts)
  PROVE  ~ HasCycle(m)
<1> SUFFICES ASSUME NEW S \in SUBSET Cells, S # {},
                    \A c \in S : \E f \in IncomingFaces(m, c) : m.lower[f] \in S
             PROVE  FALSE
  BY DEF HasCycle
<1> DEFINE rows == {j \in DOMAIN order : order[j] \in S}
<1>1. DOMAIN order = 1 .. Len(order) /\ Len(order) \in Nat
  BY LenProperties
<1>2. rows # {}
  BY DEF Range
<1>3. rows \in SUBSET Nat
  BY <1>1
<1> HIDE DEF rows
<1>4. PICK j \in rows : \A k \in rows : j <= k
  BY <1>2, <1>3, LeastNatural
<1>5. j \in DOMAIN order /\ order[j] \in S
  BY <1>4 DEF rows
<1>6. PICK f \in IncomingFaces(m, order[j]) : m.lower[f] \in S
  BY <1>5
<1>7. f \in Faces(m) /\ m.upper[f] = order[j]
  BY <1>6 DEF IncomingFaces
<1>8. PICK i \in 1 .. j - 1 : order[i] = m.lower[f]
  BY <1>5, <1>7 DEF SeparatesLevels
<1>9. i \in rows /\ i < j
  BY <1>1, <1>5, <1>6, <1>8 DEF rows
<1> QED BY <1>3, <1>4, <1>9

-----------------------------------------------------------------------------
(* Ascending(S) lists S without repetitions. *)

\* ranks grow with the cells
LEMMA RankMonotone ==
  ASSUME NEW S \in SUBSET Cells, NEW c \in S, NEW d \in S, c < d
  PROVE  RankIn(S, c) < RankIn(S, d)
<1> DEFINE C == {x \in S : x < c}
           D == {x \in S : x < d}
<1>1. c \in Int /\ d \in Int /\ \A x \in S : x \in Int
  BY NCellsAssumption DEF Cells
<1>2. C \subseteq D /\ c \in D /\ c \notin C
  <2>1. \A x \in S : x < c => x < d
    BY <1>1
  <2>2. ~ (c < c)
    BY <1>1
  <2> QED BY <2>1, <2>2, Zenon
<1>3. D \in SUBSET Cells /\ C \in SUBSET Cells
  OBVIOUS
<1> HIDE DEF C, D
<1>4. IsFiniteSet(D) /\ Cardinality(D) \in Nat /\ Cardinality(C) \in Nat
  BY <1>3, CellsFinite, FS_CardinalityType
<1>5. Cardinality(C) <= Cardinality(D) /\ Cardinality(C) # Cardinality(D)
  BY <1>2, <1>4, FS_Subset
<1>6. Cardinality(C) < Cardinality(D)
  BY <1>4, <1>5
<1> QED BY <1>6 DEF RankIn, C, D

\* the ranks of the cells of S are 0 .. |S| - 1
LEMMA RanksFill ==
  ASSUME NEW S \in SUBSET Cells
  PROVE  /\ \A c \in S : RankIn(S, c) \in 0 .. Cardinality(S) - 1
         /\ \A k \in 0 .. Cardinality(S) - 1 : \E c \in S : RankIn(S, c) = k
<1> DEFINE n == Cardinality(S)
           rank == [c \in S |-> RankIn(S, c)]
<1>1. IsFiniteSet(S) /\ n \in Nat
  BY CellsFinite, FS_CardinalityType
<1>2. ASSUME NEW c \in S PROVE RankIn(S, c) \in 0 .. n - 1
  <2> DEFINE C == {x \in S : x < c}
  <2>1. C \subseteq S /\ c \notin C /\ C \in SUBSET Cells
    <3>1. ~ (c < c)
      BY NCellsAssumption DEF Cells
    <3> QED BY <3>1, Zenon
  <2> HIDE DEF C
  <2>2. Cardinality(C) \in Nat
    BY <2>1, CellsFinite
  <2>3. Cardinality(C) <= n /\ Cardinality(C) # n
    BY <1>1, <2>1, FS_Subset
  <2>4. Cardinality(C) \in 0 .. n - 1
    BY <1>1, <2>2, <2>3
  <2> QED BY <2>4 DEF C, RankIn
<1>3. rank \in [S -> 0 .. n - 1]
  BY <1>2
<1>4. ASSUME NEW c \in S, NEW d \in S, rank[c] = rank[d] PROVE c = d
  <2>1. RankIn(S, c) = RankIn(S, d)
    BY <1>4
  <2>2. RankIn(S, c) \in 0 .. n - 1 /\ RankIn(S, d) \in 0 .. n - 1
    BY <1>2
  <2> HIDE DEF n
  <2>3. ~ (RankIn(S, c) < RankIn(S, d)) /\ ~ (RankIn(S, d) < RankIn(S, c))
    BY <2>1, <2>2
  <2>4. ~ (c < d) /\ ~ (d < c)
    BY <2>3, RankMonotone
  <2> QED BY <2>4, NCellsAssumption DEF Cells
<1> HIDE DEF rank
<1>5. rank \in Injection(S, 0 .. n - 1)
  BY <1>3, <1>4, Zenon DEF Injection, IsInjective
<1>6. IsFiniteSet(0 .. n - 1) /\ Cardinality(0 .. n - 1) = n
  <2> HIDE DEF n
  <2>1. 0 \in Int /\ n - 1 \in Int
    BY <1>1
  <2>2. /\ IsFiniteSet(0 .. n - 1)
        /\ Cardinality(0 .. n - 1) = IF 0 > n - 1 THEN 0 ELSE n - 1 - 0 + 1
    BY <2>1, FS_Interval, Zenon
  <2> QED BY <2>2, <1>1
<1>7. rank \in Surjection(S, 0 .. n - 1)
  BY <1>5, <1>6, FS_Injection
<1>8. \A k \in 0 .. n - 1 : \E c \in S : rank[c] = k
  BY <1>7 DEF Surjection
<1>9. \A k \in 0 .. n - 1 : \E c \in S : RankIn(S, c) = k
  BY <1>8 DEF rank
<1> QED BY <1>2, <1>9

LEMMA CellsAreIntegers == \A c \in Cells : c \in Int
BY NCellsAssumption DEF Cells

LEMMA AscendingProperties ==
  ASSUME NEW S \in SUBSET Cells
  PROVE  /\ Ascending(S) \in Seq(S)
         /\ Len(Ascending(S)) = Cardinality(S)
         /\ IsInjective(Ascending(S))
         /\ Range(Ascending(S)) = S
         /\ \A i, j \in 1 .. Cardinality(S) :
              i < j => Ascending(S)[i] < Ascending(S)[j]
<1> DEFINE n == Cardinality(S)
           A == Ascending(S)
<1>1. n \in Nat
  BY CellsFinite, FS_CardinalityType
<1>2. ASSUME NEW i \in 1 .. n
      PROVE  A[i] \in S /\ RankIn(S, A[i]) = i - 1
  <2>1. i - 1 \in 0 .. n - 1
    BY <1>1
  <2>2. \E c \in S : RankIn(S, c) = i - 1
    BY <2>1, RanksFill
  <2>3. A[i] = CHOOSE c \in S : RankIn(S, c) = i - 1
    BY DEF Ascending
  <2> QED BY <2>2, <2>3, Zenon
<1>3. A \in [1 .. n -> S]
  BY <1>2 DEF Ascending
<1> HIDE DEF n, A
<1>4. A \in Seq(S) /\ Len(A) = n /\ DOMAIN A = 1 .. n
  BY <1>1, <1>3, FunctionIsSeq
<1>5. ASSUME NEW i \in 1 .. n, NEW j \in 1 .. n, A[i] = A[j] PROVE i = j
  <2>1. i - 1 = j - 1
    BY <1>2, <1>5
  <2> QED BY <2>1, <1>1
<1>6. ASSUME NEW c \in S PROVE c \in Range(A)
  <2>1. RankIn(S, c) \in 0 .. n - 1
    BY RanksFill DEF n
  <2> DEFINE i == RankIn(S, c) + 1
  <2>2. i \in 1 .. n /\ RankIn(S, A[i]) = RankIn(S, c)
    <3>1. i \in 1 .. n /\ i - 1 = RankIn(S, c)
      BY <1>1, <2>1
    <3> QED BY <1>2, <3>1
  <2> HIDE DEF i
  <2>3. A[i] \in S
    BY <1>2, <2>2
  <2>4. ~ (A[i] < c) /\ ~ (c < A[i])
    BY <2>1, <2>2, <2>3, RankMonotone
  <2>5. A[i] = c
    <3>1. A[i] \in Int /\ c \in Int
      BY <2>3, CellsAreIntegers
    <3> QED BY <3>1, <2>4
  <2> QED BY <1>4, <2>2, <2>5 DEF Range
<1>7. ASSUME NEW i \in 1 .. n, NEW j \in 1 .. n, i < j PROVE A[i] < A[j]
  <2>1. A[i] \in S /\ A[j] \in S /\ RankIn(S, A[i]) = i - 1 /\ RankIn(S, A[j]) = j - 1
    BY <1>2
  <2>2. ~ (A[j] < A[i]) /\ A[i] # A[j]
    BY <1>1, <1>7, <2>1, RankMonotone
  <2>3. A[i] \in Int /\ A[j] \in Int
    BY <2>1, CellsAreIntegers
  <2> QED BY <2>2, <2>3
<1>8. Range(A) = S
  BY <1>3, <1>4, <1>6 DEF Range
<1>9. IsInjective(A)
  BY <1>4, <1>5 DEF IsInjective
<1> QED BY <1>4, <1>7, <1>8, <1>9 DEF A, n

\* Take keeps what it takes from: members, and freedom from repetitions.
LEMMA TakeProperties ==
  ASSUME NEW S, NEW s \in Seq(S), NEW k \in Nat
  PROVE  /\ Take(s, k) \in Seq(S)
         /\ Len(Take(s, k)) = AtMost(k, Len(s))
         /\ \A i \in 1 .. AtMost(k, Len(s)) : Take(s, k)[i] = s[i]
         /\ Range(Take(s, k)) \subseteq Range(s)
         /\ IsInjective(s) => IsInjective(Take(s, k))
<1> DEFINE n == AtMost(k, Len(s))
           t == SubSeq(s, 1, n)
<1>1. DOMAIN s = 1 .. Len(s) /\ Len(s) \in Nat
  BY LenProperties
<1>2. n \in Nat /\ n <= Len(s)
  BY <1>1 DEF AtMost
<1> HIDE DEF n
<1>3. /\ t \in Seq(S)
      /\ Len(t) = IF 1 <= n THEN n - 1 + 1 ELSE 0
      /\ \A i \in 1 .. n - 1 + 1 : t[i] = s[1 + i - 1]
  <2>1. 1 \in Int /\ n \in Int /\ \A i \in 1 .. n : s[i] \in S
    BY <1>1, <1>2, ElementOfSeq
  <2> QED BY <2>1, SubSeqProperties
<1> HIDE DEF t
<1>4. Len(t) = n /\ \A i \in 1 .. n : t[i] = s[i]
  BY <1>2, <1>3
<1>5. DOMAIN t = 1 .. n
  BY <1>3, <1>4, LenProperties
<1>6. Range(t) \subseteq Range(s)
  BY <1>1, <1>2, <1>4, <1>5 DEF Range
<1>7. IsInjective(s) => IsInjective(t)
  BY <1>1, <1>2, <1>4, <1>5 DEF IsInjective
<1> QED BY <1>3, <1>4, <1>6, <1>7 DEF t, n, Take

\* A sequence that is not longer than k is taken whole.
LEMMA TakeWhole ==
  ASSUME NEW S, NEW s \in Seq(S), NEW k \in Nat, Len(s) <= k
  PROVE  Take(s, k) = s
<1>1. Len(s) \in Nat /\ AtMost(k, Len(s)) = Len(s)
  BY LenProperties DEF AtMost
<1>2. /\ Take(s, k) \in Seq(S) /\ Len(Take(s, k)) = Len(s)
      /\ \A i \in 1 .. Len(s) : Take(s, k)[i] = s[i]
  BY <1>1, TakeProperties
<1> QED BY <1>2, SeqEqual

-----------------------------------------------------------------------------
(* Elements of a finite set in an order. *)

\* A set of subsets of S is all of them if a subset belongs to it whenever
\* all belong to it that lack one element.
LEMMA RemovalInduction ==
  ASSUME NEW S, IsFiniteSet(S), NEW good,
         \A T \in SUBSET S : (\A x \in T : T \ {x} \in good) => T \in good
  PROVE  \A T \in SUBSET S : T \in good
<1> DEFINE bad == {T \in SUBSET S : T \notin good}
           sizes == {Cardinality(T) : T \in bad}
<1> SUFFICES ASSUME bad # {} PROVE FALSE
  OBVIOUS
<1>1. \A T \in SUBSET S : IsFiniteSet(T) /\ Cardinality(T) \in Nat
  BY FS_Subset, FS_CardinalityType
<1>2. sizes \in SUBSET Nat /\ sizes # {}
  BY <1>1
<1>3. PICK n \in sizes : \A k \in sizes : n <= k
  BY <1>2, LeastNatural
<1>4. PICK T \in bad : Cardinality(T) = n
  BY <1>3
<1>5. ASSUME NEW x \in T PROVE T \ {x} \in good
  <2>1. Cardinality(T \ {x}) = n - 1
    BY <1>1, <1>4, FS_RemoveElement
  <2>2. T \ {x} \notin bad
    BY <1>2, <1>3, <2>1
  <2> QED BY <2>2
<1> QED BY <1>4, <1>5

\* A set with 0 and, with a number, the next one has all numbers.
LEMMA NumberInduction ==
  ASSUME NEW good, 0 \in good, \A n \in Nat : n \in good => n + 1 \in good
  PROVE  \A n \in Nat : n \in good
<1> DEFINE bad == {n \in Nat : n \notin good}
<1> SUFFICES ASSUME bad # {} PROVE FALSE
  OBVIOUS
<1>1. bad \in SUBSET Nat
  OBVIOUS
<1>2. PICK n \in bad : \A k \in bad : n <= k
  BY <1>1, LeastNatural
<1>3. n # 0 /\ n - 1 \in Nat
  OBVIOUS
<1>4. n - 1 \in good
  BY <1>2, <1>3
<1> QED BY <1>3, <1>4

\* A strict total order on S, as a set of pairs.
Orders(R, S) ==
  /\ \A x, y \in S : x # y => <<x, y>> \in R \/ <<y, x>> \in R
  /\ \A x, y, z \in S : <<x, y>> \in R /\ <<y, z>> \in R => <<x, z>> \in R
  /\ \A x \in S : <<x, x>> \notin R

\* How many elements come before one: the elements are numbered without a gap.
PlaceIn(S, R, x) == Cardinality({y \in S : <<y, x>> \in R})

\* every number below the size of S is the place of exactly one element
Numbered(S, R) ==
  /\ \A x \in S : PlaceIn(S, R, x) \in 0 .. Cardinality(S) - 1
  /\ \A x, y \in S : <<x, y>> \in R => PlaceIn(S, R, x) < PlaceIn(S, R, y)
  /\ \A x, y \in S : PlaceIn(S, R, x) = PlaceIn(S, R, y) => x = y
  /\ \A k \in 0 .. Cardinality(S) - 1 : \E x \in S : PlaceIn(S, R, x) = k

\* The places in a strict order are 0, 1, ... without a gap.
LEMMA PlacesFill ==
  ASSUME NEW S, IsFiniteSet(S), NEW R,
         Orders(R, S)
  PROVE  Numbered(S, R)
<1> DEFINE n == Cardinality(S)
           Before(x) == {y \in S : <<y, x>> \in R}
           place == [x \in S |-> PlaceIn(S, R, x)]
<1> USE DEF Orders
<1>1. n \in Nat
  BY FS_CardinalityType
<1>2. \A x \in S : IsFiniteSet(Before(x)) /\ Cardinality(Before(x)) \in Nat
  <2>1. \A x \in S : Before(x) \in SUBSET S
    OBVIOUS
  <2> HIDE DEF Before
  <2> QED BY <2>1, FS_Subset, FS_CardinalityType
<1>3. ASSUME NEW x \in S PROVE PlaceIn(S, R, x) \in 0 .. n - 1
  <2>1. Before(x) \in SUBSET S /\ Before(x) # S
    OBVIOUS
  <2>2. Cardinality(Before(x)) <= n /\ Cardinality(Before(x)) # n
    <3> HIDE DEF Before
    <3> QED BY <2>1, FS_Subset
  <2>3. Cardinality(Before(x)) \in 0 .. n - 1
    <3> HIDE DEF Before, n
    <3> QED BY <1>1, <1>2, <2>2
  <2> QED BY <2>3 DEF PlaceIn
<1>4. ASSUME NEW x \in S, NEW y \in S, <<x, y>> \in R
      PROVE  PlaceIn(S, R, x) < PlaceIn(S, R, y)
  <2>1. Before(x) \in SUBSET Before(y)
    BY <1>4
  <2>2. x \in Before(y) /\ x \notin Before(x)
    BY <1>4
  <2>3. Cardinality(Before(x)) < Cardinality(Before(y))
    <3> HIDE DEF Before
    <3>1. Cardinality(Before(x)) <= Cardinality(Before(y))
          /\ Cardinality(Before(x)) # Cardinality(Before(y))
      BY <1>2, <2>1, <2>2, FS_Subset
    <3> QED BY <1>2, <3>1
  <2> QED BY <2>3 DEF PlaceIn
<1>5. ASSUME NEW x \in S, NEW y \in S, PlaceIn(S, R, x) = PlaceIn(S, R, y), x # y
      PROVE  FALSE
  <2>1. PlaceIn(S, R, x) < PlaceIn(S, R, y) \/ PlaceIn(S, R, y) < PlaceIn(S, R, x)
    BY <1>4, <1>5
  <2>2. PlaceIn(S, R, x) \in Int
    BY <1>3
  <2> QED BY <1>5, <2>1, <2>2
<1>6. place \in Injection(S, 0 .. n - 1)
  <2>1. place \in [S -> 0 .. n - 1]
    BY <1>3
  <2>2. \A x, y \in S : place[x] = place[y] => x = y
    BY <1>5
  <2> HIDE DEF place
  <2> QED BY <2>1, <2>2 DEF Injection, IsInjective
<1>7. IsFiniteSet(0 .. n - 1) /\ Cardinality(0 .. n - 1) = n
  <2> HIDE DEF n
  <2>1. 0 \in Int /\ n - 1 \in Int
    BY <1>1
  <2>2. /\ IsFiniteSet(0 .. n - 1)
        /\ Cardinality(0 .. n - 1) = IF 0 > n - 1 THEN 0 ELSE n - 1 - 0 + 1
    BY <2>1, FS_Interval, Zenon
  <2> QED BY <2>2, <1>1
<1>8. place \in Surjection(S, 0 .. n - 1)
  <2> HIDE DEF place
  <2> QED BY <1>6, <1>7, FS_Injection
<1>9. \A k \in 0 .. n - 1 : \E x \in S : place[x] = k
  <2> HIDE DEF place
  <2> QED BY <1>8 DEF Surjection
<1>10. \A k \in 0 .. n - 1 : \E x \in S : PlaceIn(S, R, x) = k
  BY <1>9 DEF place
<1> QED BY <1>3, <1>4, <1>5, <1>10 DEF Numbered

\* the elements of S in the order R
Arranged(S, R) == [i \in 1 .. Cardinality(S) |-> CHOOSE x \in S : PlaceIn(S, R, x) = i - 1]

\* It lists every element once, at its place, and in order.
LEMMA ArrangedList ==
  ASSUME NEW S, IsFiniteSet(S), NEW R, Orders(R, S), NEW s, s = Arranged(S, R)
  PROVE  /\ Cardinality(S) \in Nat
         /\ s \in Seq(S) /\ Len(s) = Cardinality(S) /\ DOMAIN s = 1 .. Cardinality(S)
         /\ Range(s) = S
         /\ \A i \in 1 .. Cardinality(S) : s[i] \in S /\ PlaceIn(S, R, s[i]) = i - 1
         /\ \A x \in S : \E i \in 1 .. Cardinality(S) : i = PlaceIn(S, R, x) + 1 /\ s[i] = x
         /\ \A i, j \in 1 .. Cardinality(S) : s[i] = s[j] => i = j
         /\ \A i, j \in 1 .. Cardinality(S) : i < j => <<s[i], s[j]>> \in R
<1> DEFINE n == Cardinality(S)
<1>1. n \in Nat
  BY FS_CardinalityType
<1>2. Numbered(S, R)
  BY PlacesFill
<1>3. ASSUME NEW i \in 1 .. n PROVE s[i] \in S /\ PlaceIn(S, R, s[i]) = i - 1
  <2>1. i - 1 \in 0 .. n - 1
    BY <1>1
  <2>2. \E x \in S : PlaceIn(S, R, x) = i - 1
    BY <1>2, <2>1 DEF Numbered
  <2>3. s[i] = CHOOSE x \in S : PlaceIn(S, R, x) = i - 1
    BY DEF Arranged
  <2> QED BY <2>2, <2>3
<1>4. DOMAIN s = 1 .. n /\ s = [i \in 1 .. n |-> s[i]]
  BY DEF Arranged
<1>5. s \in [1 .. n -> S]
  BY <1>3, <1>4
<1>6. s \in Seq(S) /\ Len(s) = n
  <2> HIDE DEF n
  <2> QED BY <1>1, <1>5, FunctionIsSeq
<1>7. ASSUME NEW x \in S PROVE \E i \in 1 .. n : i = PlaceIn(S, R, x) + 1 /\ s[i] = x
  <2>1. PlaceIn(S, R, x) \in 0 .. n - 1
    BY <1>2 DEF Numbered
  <2>2. PICK i \in 1 .. n : i = PlaceIn(S, R, x) + 1 /\ i - 1 = PlaceIn(S, R, x)
    BY <1>1, <2>1
  <2>3. PlaceIn(S, R, s[i]) = PlaceIn(S, R, x) /\ s[i] \in S
    BY <1>3, <2>2
  <2>4. s[i] = x
    BY <1>2, <2>3 DEF Numbered
  <2> QED BY <2>2, <2>4
<1>8. Range(s) = S
  BY <1>3, <1>4, <1>7 DEF Range
<1>9. ASSUME NEW i \in 1 .. n, NEW j \in 1 .. n, s[i] = s[j] PROVE i = j
  <2>1. i - 1 = j - 1
    BY <1>3, <1>9
  <2> QED BY <1>1, <2>1
<1>10. ASSUME NEW i \in 1 .. n, NEW j \in 1 .. n, i < j PROVE <<s[i], s[j]>> \in R
  <2>1. s[i] \in S /\ s[j] \in S /\ s[i] # s[j]
    BY <1>3, <1>9, <1>10
  <2>2. CASE <<s[j], s[i]>> \in R
    <3>1. PlaceIn(S, R, s[j]) < PlaceIn(S, R, s[i])
      BY <1>2, <2>1, <2>2 DEF Numbered
    <3>2. j - 1 < i - 1
      BY <1>3, <3>1
    <3> QED BY <1>10, <3>2
  <2> QED BY <2>1, <2>2 DEF Orders
<1> QED BY <1>1, <1>3, <1>4, <1>6, <1>7, <1>8, <1>9, <1>10

\* A list of all elements in order is the arrangement.
LEMMA ArrangedOnly ==
  ASSUME NEW S, IsFiniteSet(S), NEW R, Orders(R, S), NEW n \in Nat, NEW t \in [1 .. n -> S],
         \A x \in S : \E i \in 1 .. n : t[i] = x,
         \A i, j \in 1 .. n : i < j => <<t[i], t[j]>> \in R
  PROVE  t = Arranged(S, R)
<1> DEFINE s == Arranged(S, R)
<1>1. \A i, j \in 1 .. n : t[i] = t[j] => i = j
  <2> SUFFICES ASSUME NEW i \in 1 .. n, NEW j \in 1 .. n, t[i] = t[j], i # j PROVE FALSE
    OBVIOUS
  <2>1. i < j \/ j < i
    OBVIOUS
  <2>2. <<t[i], t[i]>> \in R
    BY <2>1
  <2> QED BY <2>2 DEF Orders
<1>2. ASSUME NEW i \in 1 .. n PROVE PlaceIn(S, R, t[i]) = i - 1
  <2> DEFINE before == {y \in S : <<y, t[i]>> \in R}
             f == [k \in 1 .. i - 1 |-> t[k]]
  <2>1. before = {t[k] : k \in 1 .. i - 1}
    <3>1. ASSUME NEW y \in before PROVE \E k \in 1 .. i - 1 : y = t[k]
      <4>1. PICK k \in 1 .. n : t[k] = y
        OBVIOUS
      <4>2. CASE i < k
        <5>1. <<t[i], t[k]>> \in R /\ <<t[k], t[i]>> \in R /\ t[i] \in S /\ t[k] \in S
          BY <4>1, <4>2
        <5>2. <<t[i], t[i]>> \in R
          BY <5>1 DEF Orders
        <5> QED BY <5>1, <5>2 DEF Orders
      <4>3. k # i
        BY <4>1 DEF Orders
      <4> QED BY <4>1, <4>2, <4>3
    <3>2. ASSUME NEW k \in 1 .. i - 1 PROVE t[k] \in before
      <4>1. k \in 1 .. n /\ k < i
        OBVIOUS
      <4> QED BY <4>1
    <3> QED BY <3>1, <3>2
  <2>2. f \in Bijection(1 .. i - 1, before)
    <3>1. f \in [1 .. i - 1 -> before]
      BY <2>1
    <3>2. \A a, b \in 1 .. i - 1 : f[a] = f[b] => a = b
      BY <1>1
    <3>3. \A y \in before : \E k \in 1 .. i - 1 : f[k] = y
      BY <2>1
    <3> HIDE DEF f, before
    <3> QED BY <3>1, <3>2, <3>3 DEF Bijection, Injection, Surjection, IsInjective
  <2>3. IsFiniteSet(1 .. i - 1) /\ Cardinality(1 .. i - 1) = i - 1
    BY FS_Interval
  <2>4. Cardinality(before) = i - 1
    <3> HIDE DEF f, before
    <3> QED BY <2>2, <2>3, FS_Bijection DEF ExistsBijection
  <2> QED BY <2>4 DEF PlaceIn
<1>3. /\ Cardinality(S) \in Nat /\ DOMAIN s = 1 .. Cardinality(S)
      /\ \A i \in 1 .. Cardinality(S) : s[i] \in S /\ PlaceIn(S, R, s[i]) = i - 1
  BY ArrangedList
<1>4. /\ \A x \in S : PlaceIn(S, R, x) \in 0 .. Cardinality(S) - 1
      /\ \A x, y \in S : PlaceIn(S, R, x) = PlaceIn(S, R, y) => x = y
  BY PlacesFill DEF Numbered
<1>5. n = Cardinality(S)
  <2> HIDE DEF s
  <2>1. n <= Cardinality(S)
    <3> SUFFICES ASSUME n > Cardinality(S) PROVE FALSE
      BY <1>3
    <3>1. n \in 1 .. n
      BY <1>3
    <3>2. t[n] \in S /\ PlaceIn(S, R, t[n]) = n - 1
      BY <1>2, <3>1
    <3>3. n - 1 \in 0 .. Cardinality(S) - 1
      BY <1>4, <3>2
    <3> QED BY <1>3, <3>3
  <2>2. Cardinality(S) <= n
    <3> SUFFICES ASSUME Cardinality(S) > n PROVE FALSE
      BY <1>3
    <3>1. Cardinality(S) \in 1 .. Cardinality(S)
      BY <1>3
    <3>2. s[Cardinality(S)] \in S /\ PlaceIn(S, R, s[Cardinality(S)]) = Cardinality(S) - 1
      BY <1>3, <3>1
    <3>3. PICK i \in 1 .. n : t[i] = s[Cardinality(S)]
      BY <3>2
    <3> QED BY <1>2, <1>3, <3>2, <3>3
  <2> QED BY <1>3, <2>1, <2>2
<1>6. ASSUME NEW i \in 1 .. n PROVE t[i] = s[i]
  <2>1. t[i] \in S /\ s[i] \in S /\ PlaceIn(S, R, t[i]) = PlaceIn(S, R, s[i])
    BY <1>2, <1>3, <1>5
  <2> HIDE DEF s
  <2> QED BY <1>4, <2>1
<1>7. t = [i \in 1 .. n |-> t[i]] /\ s = [i \in 1 .. n |-> s[i]]
  BY <1>5 DEF Arranged
<1> HIDE DEF s
<1> QED BY <1>6, <1>7 DEF s

\* Only how the elements of S are ordered matters.
LEMMA ArrangedSame ==
  ASSUME NEW S, NEW R, NEW Q, \A x, y \in S : <<x, y>> \in R <=> <<x, y>> \in Q
  PROVE  Arranged(S, R) = Arranged(S, Q)
<1>1. \A x \in S : PlaceIn(S, R, x) = PlaceIn(S, Q, x)
  BY DEF PlaceIn
<1> QED BY <1>1 DEF Arranged

\* Ascending, as an arrangement.
LessOn(S) == {p \in S \X S : p[1] < p[2]}

\* An ascending list is the arrangement by the order of the numbers.
LEMMA AscendingIs ==
  ASSUME NEW S, IsFiniteSet(S), \A x \in S : x \in Int
  PROVE  Ascending(S) = Arranged(S, LessOn(S)) /\ Orders(LessOn(S), S)
<1>1. \A x \in S : RankIn(S, x) = PlaceIn(S, LessOn(S), x)
  <2> SUFFICES ASSUME NEW x \in S
               PROVE  {d \in S : d < x} = {y \in S : <<y, x>> \in LessOn(S)}
    BY DEF RankIn, PlaceIn
  <2> QED BY DEF LessOn
<1>2. Ascending(S) = Arranged(S, LessOn(S))
  BY <1>1 DEF Ascending, Arranged
<1>3. Orders(LessOn(S), S)
  BY DEF Orders, LessOn
<1> QED BY <1>2, <1>3

\* It lists every element once, in ascending order.
LEMMA AscendingList ==
  ASSUME NEW S, IsFiniteSet(S), \A x \in S : x \in Int, NEW a, a = Ascending(S)
  PROVE  /\ Cardinality(S) \in Nat /\ a \in Seq(S) /\ Len(a) = Cardinality(S)
         /\ DOMAIN a = 1 .. Cardinality(S)
         /\ \A i \in 1 .. Cardinality(S) : a[i] \in S
         /\ \A x \in S : \E i \in 1 .. Cardinality(S) : a[i] = x
         /\ \A i, j \in 1 .. Cardinality(S) : i < j => a[i] < a[j]
<1> DEFINE R == LessOn(S)
<1>1. Orders(R, S) /\ a = Arranged(S, R)
  BY AscendingIs
<1> HIDE DEF R
<1>2. Cardinality(S) \in Nat /\ a \in Seq(S) /\ Len(a) = Cardinality(S)
  BY <1>1, ArrangedList
<1>3. DOMAIN a = 1 .. Cardinality(S) /\ \A i \in 1 .. Cardinality(S) : a[i] \in S
  BY <1>2
<1>5. \A x \in S : \E i \in 1 .. Cardinality(S) : a[i] = x
  <2>1. Range(a) = S
    BY <1>1, ArrangedList
  <2> QED BY <1>3, <2>1 DEF Range
<1>4. \A i, j \in 1 .. Cardinality(S) : i < j => <<a[i], a[j]>> \in R
  BY <1>1, ArrangedList
<1> QED BY <1>2, <1>3, <1>4, <1>5 DEF R, LessOn

\* The ascending list of two sets, one below the other, is that of the lower
\* one followed by that of the upper one.
LEMMA AscendingUnion ==
  ASSUME NEW F, IsFiniteSet(F), NEW G, IsFiniteSet(G), \A x \in F \cup G : x \in Int,
         \A x \in F, y \in G : x < y
  PROVE  Ascending(F \cup G) = Ascending(F) \o Ascending(G)
<1> DEFINE S == F \cup G
           a == Ascending(F)
           b == Ascending(G)
           t == a \o b
<1>1. IsFiniteSet(S) /\ \A x \in S : x \in Int
  BY FS_Union
<1>2. /\ Cardinality(F) \in Nat /\ a \in Seq(F) /\ Len(a) = Cardinality(F)
      /\ \A x \in F : \E i \in 1 .. Cardinality(F) : a[i] = x
      /\ \A i \in 1 .. Cardinality(F) : a[i] \in F
      /\ \A i, j \in 1 .. Cardinality(F) : i < j => a[i] < a[j]
  BY AscendingList
<1>3. /\ Cardinality(G) \in Nat /\ b \in Seq(G) /\ Len(b) = Cardinality(G)
      /\ \A x \in G : \E i \in 1 .. Cardinality(G) : b[i] = x
      /\ \A i \in 1 .. Cardinality(G) : b[i] \in G
      /\ \A i, j \in 1 .. Cardinality(G) : i < j => b[i] < b[j]
  BY AscendingList
<1> DEFINE p == Cardinality(F)
           q == Cardinality(G)
<1> HIDE DEF p, q
<1>4. p \in Nat /\ q \in Nat /\ p + q \in Nat
  BY <1>2, <1>3 DEF p, q
<1> HIDE DEF a, b
<1>5. a \in Seq(S) /\ b \in Seq(S) /\ Len(a) = p /\ Len(b) = q
  <2>1. F \subseteq S /\ G \subseteq S
    OBVIOUS
  <2> HIDE DEF S
  <2> QED BY <1>2, <1>3, <2>1, SeqMonotonic DEF p, q
<1>6. /\ t \in Seq(S) /\ Len(t) = p + q
      /\ \A i \in 1 .. p + q : t[i] = IF i <= p THEN a[i] ELSE b[i - p]
  <2> HIDE DEF S
  <2> QED BY <1>5, ConcatProperties
<1> HIDE DEF t
<1>7. t \in [1 .. p + q -> S]
  BY <1>6, LenProperties
<1>8. ASSUME NEW x \in S PROVE \E i \in 1 .. p + q : t[i] = x
  <2>1. CASE x \in F
    <3>1. PICK i \in 1 .. p : a[i] = x
      BY <1>2, <2>1 DEF p
    <3>2. i \in 1 .. p + q /\ t[i] = x
      BY <1>4, <1>6, <3>1
    <3> QED BY <3>2
  <2>2. CASE x \in G
    <3>1. PICK i \in 1 .. q : b[i] = x
      BY <1>3, <2>2 DEF q
    <3>2. PICK j \in Int : j = i + p
      BY <1>4
    <3>3. j \in 1 .. p + q /\ ~(j <= p) /\ j - p = i
      BY <1>4, <3>2
    <3>4. t[j] = x
      BY <1>6, <3>1, <3>3
    <3> QED BY <3>3, <3>4
  <2> QED BY <2>1, <2>2
<1>9. ASSUME NEW i \in 1 .. p + q, NEW j \in 1 .. p + q, i < j PROVE <<t[i], t[j]>> \in LessOn(S)
  <2>1. t[i] \in S /\ t[j] \in S
    BY <1>7
  <2>2. t[i] < t[j]
    <3>1. CASE j <= p
      <4>1. i \in 1 .. p /\ j \in 1 .. p
        BY <1>4, <1>9, <3>1
      <4> QED BY <1>2, <1>6, <1>9, <3>1, <4>1 DEF p
    <3>2. CASE i <= p /\ p < j
      <4>1. i \in 1 .. p /\ j - p \in 1 .. q /\ ~(j <= p)
        BY <1>4, <3>2
      <4>2. t[i] \in F /\ t[j] \in G
        BY <1>2, <1>3, <1>6, <3>2, <4>1 DEF p, q
      <4> QED BY <4>2
    <3>3. CASE p < i
      <4>1. i - p \in 1 .. q /\ j - p \in 1 .. q /\ ~(i <= p) /\ ~(j <= p) /\ i - p < j - p
        BY <1>4, <1>9, <3>3
      <4> QED BY <1>3, <1>6, <4>1 DEF q
    <3> QED BY <1>4, <3>1, <3>2, <3>3
  <2> QED BY <2>1, <2>2 DEF LessOn
<1>10. Ascending(S) = Arranged(S, LessOn(S)) /\ Orders(LessOn(S), S)
  BY <1>1, AscendingIs
<1>11. t = Arranged(S, LessOn(S))
  <2> HIDE DEF S
  <2> QED BY <1>1, <1>4, <1>7, <1>8, <1>9, <1>10, ArrangedOnly
<1> QED BY <1>10, <1>11 DEF t, a, b

-----------------------------------------------------------------------------
(* Sums of natural numbers. *)

\* How many numbers 1 .. n holds.
LEMMA OneTo == \A n \in Nat : IsFiniteSet(1 .. n) /\ Cardinality(1 .. n) = n
<1> SUFFICES ASSUME NEW n \in Nat PROVE IsFiniteSet(1 .. n) /\ Cardinality(1 .. n) = n
  OBVIOUS
<1> QED BY FS_Interval

\* The sum of the natural numbers g[x] is the number of pairs <<x, k>> with
\* k in 1 .. g[x]: sums become cardinalities, whatever their order.
Slots(S, g) == UNION {{x} \X (1 .. g[x]) : x \in S}
SlotCount(S, g) == Cardinality(Slots(S, g))

\* One more element adds its number of pairs.
LEMMA SlotsAdd ==
  ASSUME NEW S, IsFiniteSet(S), NEW y, y \notin S, NEW g, \A x \in S \cup {y} : g[x] \in Nat,
         IsFiniteSet(Slots(S, g))
  PROVE  /\ IsFiniteSet(Slots(S \cup {y}, g))
         /\ SlotCount(S \cup {y}, g) = SlotCount(S, g) + g[y]
<1> DEFINE A == Slots(S, g)
           B == {y} \X (1 .. g[y])
           f == [k \in 1 .. g[y] |-> <<y, k>>]
<1>1. Slots(S \cup {y}, g) = A \cup B
  BY DEF Slots
<1>2. A \cap B = {}
  BY DEF Slots
<1>3. g[y] \in Nat
  OBVIOUS
<1>4. IsFiniteSet(1 .. g[y]) /\ Cardinality(1 .. g[y]) = g[y]
  BY <1>3, OneTo
<1>5. f \in Bijection(1 .. g[y], B)
  <2>1. f \in [1 .. g[y] -> B]
    OBVIOUS
  <2>2. \A i, j \in 1 .. g[y] : f[i] = f[j] => i = j
    OBVIOUS
  <2>3. \A b \in B : \E k \in 1 .. g[y] : f[k] = b
    OBVIOUS
  <2> HIDE DEF f, B
  <2> QED BY <2>1, <2>2, <2>3 DEF Bijection, Injection, Surjection, IsInjective
<1>6. IsFiniteSet(B) /\ Cardinality(B) = g[y]
  <2> HIDE DEF f, B
  <2> QED BY <1>4, <1>5, FS_Bijection DEF ExistsBijection
<1>7. IsFiniteSet(A \cup B) /\ Cardinality(A \cup B) = Cardinality(A) + Cardinality(B) - Cardinality(A \cap B)
  <2> HIDE DEF A, B
  <2>1. IsFiniteSet(A)
    BY DEF A
  <2> QED BY <1>6, <2>1, FS_Union
<1>8. Cardinality(A \cap B) = 0 /\ Cardinality(A) \in Nat
  <2>1. IsFiniteSet(A)
    OBVIOUS
  <2> QED BY <1>2, <2>1, FS_EmptySet, FS_CardinalityType
<1>9. IsFiniteSet(A \cup B) /\ Cardinality(A \cup B) = Cardinality(A) + g[y]
  <2> HIDE DEF A, B
  <2> QED BY <1>3, <1>6, <1>7, <1>8
<1>10. SlotCount(S \cup {y}, g) = Cardinality(A \cup B) /\ SlotCount(S, g) = Cardinality(A)
  BY <1>1 DEF SlotCount
<1> HIDE DEF A, B
<1> QED BY <1>1, <1>9, <1>10

\* Nothing has no pairs.
LEMMA SlotsEmpty == \A g : IsFiniteSet(Slots({}, g)) /\ SlotCount({}, g) = 0
<1>1. \A g : Slots({}, g) = {}
  BY DEF Slots
<1> QED BY <1>1, FS_EmptySet DEF SlotCount

\* A finite set has finitely many pairs.
LEMMA SlotsFinite ==
  ASSUME NEW S, IsFiniteSet(S), NEW g, \A x \in S : g[x] \in Nat
  PROVE  IsFiniteSet(Slots(S, g)) /\ SlotCount(S, g) \in Nat
<1> DEFINE good == {T \in SUBSET S : IsFiniteSet(Slots(T, g))}
<1>1. ASSUME NEW T \in SUBSET S, \A x \in T : T \ {x} \in good
      PROVE  T \in good
  <2>1. CASE T = {}
    BY <2>1, SlotsEmpty
  <2>2. CASE T # {}
    <3>1. PICK y \in T : TRUE
      BY <2>2
    <3>2. T \ {y} \in good /\ IsFiniteSet(T \ {y})
      BY <1>1, FS_Subset
    <3>3. (T \ {y}) \cup {y} = T /\ y \notin T \ {y}
      OBVIOUS
    <3> DEFINE U == T \ {y}
    <3>4. \A x \in U \cup {y} : g[x] \in Nat
      OBVIOUS
    <3> HIDE DEF U
    <3>5. IsFiniteSet(Slots(U \cup {y}, g))
      BY <3>2, <3>3, <3>4, SlotsAdd DEF U
    <3> QED BY <3>3, <3>5 DEF U
  <2> QED BY <2>1, <2>2
<1>2. S \in good
  <2> HIDE DEF good
  <2>1. \A T \in SUBSET S : T \in good
    BY <1>1, RemovalInduction
  <2> QED BY <2>1
<1> QED BY <1>2, FS_CardinalityType DEF SlotCount

\* SlotCount depends on the values of g on S only.
LEMMA SlotsSame ==
  ASSUME NEW S, NEW g, NEW h, \A x \in S : g[x] = h[x]
  PROVE  SlotCount(S, g) = SlotCount(S, h)
<1>1. Slots(S, g) = Slots(S, h)
  BY DEF Slots
<1> QED BY <1>1 DEF SlotCount

\* The sum of the community module.
AChosen(T) == CHOOSE x \in T : TRUE
AddUp(it, g, T) == IF T = {} THEN 0 ELSE g[AChosen(T)] + it[T \ {AChosen(T)}]

\* The sum over a set counts its pairs.
LEMMA SumIsSlots ==
  ASSUME NEW S, IsFiniteSet(S), NEW g, \A x \in S : g[x] \in Nat
  PROVE  SumFunctionOnSet(g, S) = SlotCount(S, g)
<1> DEFINE Solves(it) == it = [T \in SUBSET S |-> AddUp(it, g, T)]
           count == [T \in SUBSET S |-> SlotCount(T, g)]
<1>1. SumFunctionOnSet(g, S) = (CHOOSE it : Solves(it))[S]
  BY DEF SumFunctionOnSet, FoldFunctionOnSet, MapThenFoldSet, AddUp, AChosen
<1>2. ASSUME NEW T \in SUBSET S
      PROVE  /\ T = {} => SlotCount(T, g) = 0
             /\ T # {} => /\ AChosen(T) \in T
                          /\ SlotCount(T, g) = g[AChosen(T)] + SlotCount(T \ {AChosen(T)}, g)
  <2>1. ASSUME T # {}, NEW y, y = AChosen(T)
        PROVE  y \in T /\ SlotCount(T, g) = g[y] + SlotCount(T \ {y}, g)
    <3>1. y \in T
      BY <2>1 DEF AChosen
    <3> DEFINE U == T \ {y}
    <3>2. IsFiniteSet(U) /\ U \cup {y} = T /\ y \notin U /\ \A x \in U \cup {y} : g[x] \in Nat
      BY <3>1, FS_Subset
    <3>3. \A x \in U : g[x] \in Nat
      BY <3>2
    <3> HIDE DEF U
    <3>4. IsFiniteSet(Slots(U, g)) /\ SlotCount(U, g) \in Nat
      BY <3>2, <3>3, SlotsFinite
    <3>5. SlotCount(U \cup {y}, g) = SlotCount(U, g) + g[y]
      BY <3>2, <3>4, SlotsAdd
    <3>6. g[y] \in Nat
      BY <3>1
    <3>7. SlotCount(T, g) = SlotCount(U \cup {y}, g)
      BY <3>2, Zenon
    <3>8. SlotCount(T, g) = g[y] + SlotCount(U, g)
      BY <3>4, <3>5, <3>6, <3>7
    <3> QED BY <3>1, <3>8 DEF U
  <2> QED BY <2>1, SlotsEmpty
<1>3. Solves(count)
  <2>1. ASSUME NEW T \in SUBSET S PROVE SlotCount(T, g) = AddUp(count, g, T)
    <3>1. T \ {AChosen(T)} \in SUBSET S
      OBVIOUS
    <3> QED BY <1>2, <3>1 DEF AddUp
  <2> QED BY <2>1
<1> DEFINE it == CHOOSE i : Solves(i)
<1>4. Solves(it)
  <2> HIDE DEF count
  <2> QED BY <1>3
<1> HIDE DEF it
<1> DEFINE good == {T \in SUBSET S : it[T] = SlotCount(T, g)}
<1>5. ASSUME NEW T \in SUBSET S, \A x \in T : T \ {x} \in good
      PROVE  T \in good
  <2>1. it[T] = AddUp(it, g, T)
    BY <1>4
  <2> QED BY <1>2, <1>5, <2>1 DEF AddUp
<1>6. S \in good
  <2> HIDE DEF good
  <2>1. \A T \in SUBSET S : T \in good
    BY <1>5, RemovalInduction
  <2> QED BY <2>1
<1> QED BY <1>1, <1>6 DEF it

\* s grows by g
Telescopes(a, n, g, s) ==
  \A r \in a .. a + n - 1 : g[r] \in Nat /\ s[r + 1] = s[r] + g[r]

\* The sum of the steps is the distance of the ends.
LEMMA SumTelescopes ==
  ASSUME NEW a \in Int, NEW n \in Nat, NEW g, NEW s, s[a] \in Nat, Telescopes(a, n, g, s)
  PROVE  SumFunctionOnSet(g, a .. a + n - 1) = s[a + n] - s[a] /\ s[a + n] \in Nat
<1> USE DEF Telescopes
<1> DEFINE Upto(k) == a .. a + k - 1
           good == {k \in Nat : k <= n =>
                      /\ IsFiniteSet(Slots(Upto(k), g))
                      /\ s[a + k] \in Nat
                      /\ SlotCount(Upto(k), g) = s[a + k] - s[a]}
<1>1. 0 \in good
  <2>1. Upto(0) = {} /\ a + 0 = a
    OBVIOUS
  <2> QED BY <2>1, SlotsEmpty
<1>2. ASSUME NEW k \in Nat, k \in good PROVE k + 1 \in good
  <2> SUFFICES ASSUME k + 1 <= n
               PROVE  /\ IsFiniteSet(Slots(Upto(k + 1), g))
                      /\ s[a + (k + 1)] \in Nat
                      /\ SlotCount(Upto(k + 1), g) = s[a + (k + 1)] - s[a]
    OBVIOUS
  <2> DEFINE y == a + k
             U == Upto(k)
  <2>1. Upto(k + 1) = U \cup {y} /\ y \notin U /\ y \in a .. a + n - 1 /\ U \subseteq a .. a + n - 1
    OBVIOUS
  <2>2. /\ IsFiniteSet(Slots(U, g)) /\ s[y] \in Nat
        /\ SlotCount(U, g) = s[y] - s[a]
    BY <1>2
  <2>3. s[y + 1] = s[y] + g[y] /\ g[y] \in Nat /\ y + 1 = a + (k + 1)
    BY <2>1
  <2>4. IsFiniteSet(U) /\ \A x \in U \cup {y} : g[x] \in Nat
    <3>1. a \in Int /\ a + k - 1 \in Int
      OBVIOUS
    <3> QED BY <2>1, <3>1, FS_Interval
  <2> HIDE DEF U, y, Upto, good
  <2>5. /\ IsFiniteSet(Slots(U \cup {y}, g))
        /\ SlotCount(U \cup {y}, g) = SlotCount(U, g) + g[y]
    <3>1. y \notin U
      BY <2>1
    <3> QED BY <2>2, <2>4, <3>1, SlotsAdd, Zenon
  <2>6. /\ IsFiniteSet(Slots(Upto(k + 1), g))
        /\ SlotCount(Upto(k + 1), g) = SlotCount(U, g) + g[y]
    BY <2>1, <2>5, Zenon
  <2>7. SlotCount(Upto(k + 1), g) = s[y + 1] - s[a] /\ s[y + 1] \in Nat
    BY <2>2, <2>3, <2>6
  <2> QED BY <2>3, <2>6, <2>7
<1>3. n \in good
  <2> HIDE DEF good
  <2> QED BY <1>1, <1>2, NumberInduction
<1>4. IsFiniteSet(a .. a + n - 1)
  BY FS_Interval
<1>5. SumFunctionOnSet(g, a .. a + n - 1) = SlotCount(a .. a + n - 1, g)
  BY <1>4, SumIsSlots
<1> QED BY <1>3, <1>5
================================================================================
