-------------------------------- MODULE GAMGProofs --------------------------------
(***************************************************************************)
(* The GAMG benchmark, for every finest matrix and any controls.           *)
(* Agglomeration: LevelsSound, by an inductive invariant of pairCells and  *)
(* of the coarse matrix made from its clusters, and Galerkin, by composing *)
(* the products of the levels into one product of the finest matrix.       *)
(* Kernels: both ways through the faces compute the matrix product, and    *)
(* elimination with substitution solves every nonsingular dense equation.  *)
(* Solver: SolverSound and KernelsExact, by an inductive invariant of the  *)
(* cycle that knows which fields of which levels are up to date.           *)
(***************************************************************************)
EXTENDS GAMGSolver, SequenceTheorems, FiniteSetTheorems,
        NaturalsInduction, WellFoundedInduction, TLAPS

\* Every nonempty set of naturals has a least element.
LEMMA LeastNatural ==
  ASSUME NEW S \in SUBSET Nat, S # {}
  PROVE  \E n \in S : \A k \in S : n <= k
<1> DEFINE below == {ss \in Nat \X Nat : ss[1] < ss[2]}
<1>1. IsWellFoundedOn(below, Nat)
  BY NatLessThanWellFounded, Zenon DEF OpToRel
<1>2. PICK x \in S : \A y \in S : ~ (<<y, x>> \in below)
  BY <1>1, WFMin, Zenon
<1>3. ASSUME NEW y \in S PROVE x <= y
  <2>1. x \in Nat /\ y \in Nat
    OBVIOUS
  <2>2. y < x => <<y, x>> \in below
    BY <2>1
  <2>3. ~ (<<y, x>> \in below)
    BY <1>2, Zenon
  <2> HIDE DEF below
  <2> QED BY <2>1, <2>2, <2>3
<1> QED BY <1>3

-----------------------------------------------------------------------------
(* Induction, with a set of sets in the place of a predicate.             *)

\* A set of subsets of S is all of them if a subset belongs to it whenever
\* all belong to it that lack one element.
LEMMA RemovalInduction ==
  ASSUME NEW S, IsFiniteSet(S), NEW good,
         \A T \in SUBSET S : (\A x \in T : T \ {x} \in good) => T \in good
  PROVE  \A T \in SUBSET S : T \in good
<1> DEFINE bad == {T \in SUBSET S : T \notin good}
           sizes == {Cardinality(T) : T \in bad}
<1> SUFFICES ASSUME bad # {} PROVE FALSE
  OBVIOUS
<1>1. \A T \in SUBSET S : IsFiniteSet(T) /\ Cardinality(T) \in Nat
  BY FS_Subset, FS_CardinalityType
<1>2. sizes \in SUBSET Nat /\ sizes # {}
  BY <1>1
<1>3. PICK n \in sizes : \A k \in sizes : n <= k
  BY <1>2, LeastNatural
<1>4. PICK T \in bad : Cardinality(T) = n
  BY <1>3
<1>5. ASSUME NEW x \in T PROVE T \ {x} \in good
  <2>1. Cardinality(T \ {x}) = n - 1
    BY <1>1, <1>4, FS_RemoveElement
  <2>2. T \ {x} \notin bad
    <3>1. \A R \in bad : n <= Cardinality(R)
      BY <1>3
    <3>2. n \in Nat
      BY <1>2
    <3> HIDE DEF bad
    <3> QED BY <2>1, <3>1, <3>2
  <2> QED BY <2>2
<1> QED BY <1>4, <1>5

\* A set with 0 and, with a number, the next one has all numbers.
LEMMA NumberInduction ==
  ASSUME NEW good, 0 \in good, \A n \in Nat : n \in good => n + 1 \in good
  PROVE  \A n \in Nat : n \in good
<1> DEFINE bad == {n \in Nat : n \notin good}
<1> SUFFICES ASSUME bad # {} PROVE FALSE
  OBVIOUS
<1>1. bad \in SUBSET Nat
  OBVIOUS
<1>2. PICK n \in bad : \A k \in bad : n <= k
  BY <1>1, LeastNatural
<1>3. n # 0 /\ n - 1 \in Nat
  OBVIOUS
<1>4. n - 1 \in good
  BY <1>2, <1>3
<1> QED BY <1>3, <1>4

-----------------------------------------------------------------------------
(* Sums.  The folds of the community modules choose an element, add its    *)
(* value and go on with the rest; the sum does not depend on the choices.  *)

\* what MapThenSumSet adds up, of a function g on S
SumOf(g, S) == MapThenSumSet(LAMBDA x : g[x], S)

\* the element the fold starts with, and the recursion it follows
First(T) == CHOOSE x \in T : TRUE
SumFrom(g, it, T) == IF T = {} THEN 0 ELSE g[First(T)] + it[T \ {First(T)}]
AreSums(it, g, S) == it = [T \in SUBSET S |-> SumFrom(g, it, T)]

\* A sum is the value at S of the function the fold is defined by.
LEMMA SumUnfolds ==
  ASSUME NEW g, NEW S
  PROVE  SumOf(g, S) = (CHOOSE it : AreSums(it, g, S))[S]
BY DEF SumOf, MapThenSumSet, MapThenFoldSet, SumFrom, AreSums, First

\* The element the fold starts with is one of the set.
LEMMA FirstOf == \A T : T # {} => First(T) \in T
BY DEF First

\* The function the fold is defined by exists: it is known for small sets
\* first and then for sets of one more element.
LEMMA SumsExist ==
  ASSUME NEW S, IsFiniteSet(S), NEW g
  PROVE  \E it : AreSums(it, g, S)
<1> DEFINE Small(n) == {T \in SUBSET S : Cardinality(T) <= n}
           good == {n \in Nat : \E it : it = [T \in Small(n) |-> SumFrom(g, it, T)]}
<1>1. \A T \in SUBSET S : IsFiniteSet(T) /\ Cardinality(T) \in Nat /\ Cardinality(T) <= Cardinality(S)
  BY FS_Subset, FS_CardinalityType
<1>2. Cardinality(S) \in Nat
  BY FS_CardinalityType
<1>3. 0 \in good
  <2>1. \A T \in Small(0) : T = {}
    BY <1>1, FS_EmptySet
  <2> DEFINE it == [T \in Small(0) |-> 0]
  <2>2. \A h : \A T \in Small(0) : SumFrom(g, h, T) = 0
    BY <2>1 DEF SumFrom
  <2>3. it = [T \in Small(0) |-> SumFrom(g, it, T)]
    BY <2>2
  <2> QED BY <2>3
<1>4. ASSUME NEW n \in Nat, n \in good PROVE n + 1 \in good
  <2>1. PICK it : it = [T \in Small(n) |-> SumFrom(g, it, T)]
    BY <1>4
  <2> DEFINE h == [T \in Small(n + 1) |-> SumFrom(g, it, T)]
  <2>2. ASSUME NEW T \in Small(n + 1) PROVE SumFrom(g, it, T) = SumFrom(g, h, T)
    <3>1. CASE T = {}
      BY <3>1 DEF SumFrom
    <3>2. CASE T # {}
      <4> DEFINE R == T \ {First(T)}
      <4>1. Cardinality(R) = Cardinality(T) - 1 /\ R \in SUBSET S
        BY <1>1, <3>2, FirstOf, FS_RemoveElement
      <4>2. R \in Small(n) /\ R \in Small(n + 1)
        BY <1>1, <4>1
      <4> HIDE DEF R
      <4>3. it[R] = SumFrom(g, it, R) /\ h[R] = SumFrom(g, it, R)
        BY <2>1, <4>2
      <4> HIDE DEF h
      <4> QED BY <4>3 DEF SumFrom, R
    <3> QED BY <3>1, <3>2
  <2>3. h = [T \in Small(n + 1) |-> SumFrom(g, h, T)]
    <3> HIDE DEF Small
    <3> QED BY <2>2
  <2> HIDE DEF h, Small
  <2> QED BY <2>3
<1>5. Cardinality(S) \in good
  <2> HIDE DEF good
  <2> QED BY <1>2, <1>3, <1>4, NumberInduction
<1>6. Small(Cardinality(S)) = SUBSET S
  BY <1>1
<1> QED BY <1>5, <1>6 DEF AreSums

\* and it is the only one.
LEMMA SumsAgree ==
  ASSUME NEW S, IsFiniteSet(S), NEW T \in SUBSET S, NEW g,
         NEW it, AreSums(it, g, S), NEW jt, AreSums(jt, g, T)
  PROVE  it[T] = jt[T]
<1> DEFINE good == {R \in SUBSET T : it[R] = jt[R]}
<1>1. IsFiniteSet(T)
  BY FS_Subset
<1>2. ASSUME NEW R \in SUBSET T, \A x \in R : R \ {x} \in good
      PROVE  R \in good
  <2>1. it[R] = SumFrom(g, it, R) /\ jt[R] = SumFrom(g, jt, R)
    BY DEF AreSums
  <2>2. R # {} => it[R \ {First(R)}] = jt[R \ {First(R)}]
    BY <1>2, FirstOf
  <2> QED BY <2>1, <2>2 DEF SumFrom
<1>3. T \in good
  <2> HIDE DEF good
  <2> QED BY <1>1, <1>2, RemovalInduction
<1> QED BY <1>3

\* A sum is the value of the first element and the sum of the rest.
LEMMA SumFirst ==
  ASSUME NEW S, IsFiniteSet(S), NEW g
  PROVE  /\ S = {} => SumOf(g, S) = 0
         /\ S # {} => SumOf(g, S) = g[First(S)] + SumOf(g, S \ {First(S)})
<1> DEFINE it == CHOOSE i : AreSums(i, g, S)
           R == S \ {First(S)}
           jt == CHOOSE i : AreSums(i, g, R)
<1>1. IsFiniteSet(R) /\ R \in SUBSET S
  BY FS_RemoveElement
<1>2. AreSums(it, g, S) /\ AreSums(jt, g, R)
  BY <1>1, SumsExist
<1>3. SumOf(g, S) = it[S] /\ SumOf(g, R) = jt[R]
  BY SumUnfolds
<1> HIDE DEF it, jt
<1>4. it[R] = jt[R]
  <2> HIDE DEF R
  <2> QED BY <1>1, <1>2, SumsAgree
<1>5. it[S] = SumFrom(g, it, S)
  BY <1>2 DEF AreSums
<1> QED BY <1>3, <1>4, <1>5 DEF SumFrom

\* A sum of integers is one.
LEMMA SumInt ==
  ASSUME NEW S, IsFiniteSet(S), NEW g, \A x \in S : g[x] \in Int
  PROVE  SumOf(g, S) \in Int
<1> DEFINE good == {T \in SUBSET S : SumOf(g, T) \in Int}
<1>1. ASSUME NEW T \in SUBSET S, \A x \in T : T \ {x} \in good
      PROVE  T \in good
  <2>1. IsFiniteSet(T)
    BY FS_Subset
  <2>2. T # {} => First(T) \in T /\ SumOf(g, T \ {First(T)}) \in Int
    BY <1>1, FirstOf
  <2>3. SumOf(g, T) \in Int
    <3>1. CASE T = {}
      <4>1. SumOf(g, T) = 0
        BY <2>1, <3>1, SumFirst
      <4> QED BY <4>1
    <3>2. CASE T # {}
      <4>1. SumOf(g, T) = g[First(T)] + SumOf(g, T \ {First(T)})
        BY <2>1, <3>2, SumFirst
      <4>2. g[First(T)] \in Int
        BY <2>2, <3>2
      <4> QED BY <2>2, <3>2, <4>1, <4>2
    <3> QED BY <3>1, <3>2
  <2> QED BY <2>3
<1>2. S \in good
  <2> HIDE DEF good
  <2>1. \A T \in SUBSET S : T \in good
    BY <1>1, RemovalInduction
  <2> QED BY <2>1
<1> QED BY <1>2

\* Any element may be split off.
LEMMA SumRemove ==
  ASSUME NEW S, IsFiniteSet(S), NEW g, \A x \in S : g[x] \in Int, NEW y \in S
  PROVE  SumOf(g, S) = g[y] + SumOf(g, S \ {y})
<1> DEFINE good == {T \in SUBSET S : \A x \in T : SumOf(g, T) = g[x] + SumOf(g, T \ {x})}
<1>1. ASSUME NEW T \in SUBSET S, \A x \in T : T \ {x} \in good
      PROVE  T \in good
  <2> SUFFICES ASSUME NEW x \in T PROVE SumOf(g, T) = g[x] + SumOf(g, T \ {x})
    OBVIOUS
  <2> DEFINE p == First(T)
             R == T \ {x, p}
  <2>1. p \in T
    BY FirstOf
  <2>2. IsFiniteSet(T) /\ IsFiniteSet(R) /\ R \in SUBSET S
    BY FS_Subset
  <2>3. SumOf(g, T) = g[p] + SumOf(g, T \ {p})
    BY <2>1, <2>2, SumFirst
  <2>4. SumOf(g, R) \in Int /\ g[x] \in Int /\ g[p] \in Int
    BY <2>1, <2>2, SumInt
  <2> HIDE DEF p
  <2>5. CASE x = p
    BY <2>3, <2>5
  <2>6. CASE x # p
    <3>1. (T \ {p}) \ {x} = R /\ (T \ {x}) \ {p} = R
      OBVIOUS
    <3>2. x \in T \ {p} /\ p \in T \ {x} /\ T \ {p} \in good /\ T \ {x} \in good
      BY <1>1, <2>1, <2>6
    <3>3. SumOf(g, T \ {p}) = g[x] + SumOf(g, R) /\ SumOf(g, T \ {x}) = g[p] + SumOf(g, R)
      BY <3>1, <3>2
    <3> HIDE DEF R, good
    <3> QED BY <2>3, <2>4, <3>3
  <2> QED BY <2>5, <2>6
<1>2. S \in good
  <2> HIDE DEF good
  <2>1. \A T \in SUBSET S : T \in good
    BY <1>1, RemovalInduction
  <2> QED BY <2>1
<1> QED BY <1>2

\* A new element adds its value.
LEMMA SumAdd ==
  ASSUME NEW S, IsFiniteSet(S), NEW y, y \notin S, NEW g, \A x \in S \cup {y} : g[x] \in Int
  PROVE  SumOf(g, S \cup {y}) = g[y] + SumOf(g, S)
<1>1. IsFiniteSet(S \cup {y}) /\ (S \cup {y}) \ {y} = S
  BY FS_AddElement
<1>2. SumOf(g, S \cup {y}) = g[y] + SumOf(g, (S \cup {y}) \ {y})
  <2> DEFINE U == S \cup {y}
  <2>1. y \in U /\ \A x \in U : g[x] \in Int
    OBVIOUS
  <2> HIDE DEF U
  <2>2. SumOf(g, U) = g[y] + SumOf(g, U \ {y})
    BY <1>1, <2>1, SumRemove DEF U
  <2> QED BY <2>2 DEF U
<1> QED BY <1>1, <1>2

\* Nothing adds up to 0.
LEMMA SumEmpty == \A g : SumOf(g, {}) = 0
BY SumFirst, FS_EmptySet

\* The sum of one value is that value.
LEMMA SumSingle ==
  ASSUME NEW g, NEW y, g[y] \in Int
  PROVE  SumOf(g, {y}) = g[y]
<1>1. SumOf(g, {} \cup {y}) = g[y] + SumOf(g, {})
  BY SumAdd, FS_EmptySet
<1>2. {} \cup {y} = {y}
  OBVIOUS
<1> QED BY <1>1, <1>2, SumEmpty

\* A sum depends only on the values added up.
LEMMA SumSame ==
  ASSUME NEW S, IsFiniteSet(S), NEW g, NEW h, \A x \in S : g[x] \in Int /\ h[x] = g[x]
  PROVE  SumOf(h, S) = SumOf(g, S)
<1> DEFINE good == {T \in SUBSET S : SumOf(h, T) = SumOf(g, T)}
<1>1. ASSUME NEW T \in SUBSET S, \A x \in T : T \ {x} \in good
      PROVE  T \in good
  <2>1. IsFiniteSet(T)
    BY FS_Subset
  <2>2. CASE T = {}
    BY <2>2, SumEmpty
  <2>3. CASE T # {}
    <3>1. /\ SumOf(h, T) = h[First(T)] + SumOf(h, T \ {First(T)})
          /\ SumOf(g, T) = g[First(T)] + SumOf(g, T \ {First(T)})
      BY <2>1, <2>3, SumFirst
    <3>2. First(T) \in T /\ SumOf(h, T \ {First(T)}) = SumOf(g, T \ {First(T)})
      BY <1>1, <2>3, FirstOf
    <3> QED BY <3>1, <3>2
  <2> QED BY <2>2, <2>3
<1>2. S \in good
  <2> HIDE DEF good
  <2>1. \A T \in SUBSET S : T \in good
    BY <1>1, RemovalInduction
  <2> QED BY <2>1
<1> QED BY <1>2

\* Values that are sums themselves may be added up separately.
LEMMA SumPlus ==
  ASSUME NEW S, IsFiniteSet(S), NEW a, NEW b, NEW h,
         \A x \in S : a[x] \in Int /\ b[x] \in Int /\ h[x] = a[x] + b[x]
  PROVE  SumOf(h, S) = SumOf(a, S) + SumOf(b, S)
<1> DEFINE good == {T \in SUBSET S : SumOf(h, T) = SumOf(a, T) + SumOf(b, T)}
<1>1. ASSUME NEW T \in SUBSET S, \A x \in T : T \ {x} \in good
      PROVE  T \in good
  <2>1. IsFiniteSet(T)
    BY FS_Subset
  <2>2. CASE T = {}
    BY <2>2, SumEmpty
  <2>3. CASE T # {}
    <3> DEFINE p == First(T)
               R == T \ {p}
    <3>1. /\ SumOf(h, T) = h[p] + SumOf(h, R)
          /\ SumOf(a, T) = a[p] + SumOf(a, R)
          /\ SumOf(b, T) = b[p] + SumOf(b, R)
      BY <2>1, <2>3, SumFirst
    <3>2. p \in T /\ SumOf(h, R) = SumOf(a, R) + SumOf(b, R)
      BY <1>1, <2>3, FirstOf
    <3>3. IsFiniteSet(R)
      BY <2>1, FS_RemoveElement
    <3>4. SumOf(a, R) \in Int /\ SumOf(b, R) \in Int
      BY <3>3, SumInt
    <3>5. a[p] \in Int /\ b[p] \in Int /\ h[p] = a[p] + b[p]
      BY <3>2
    <3> HIDE DEF p, R
    <3> QED BY <3>1, <3>2, <3>4, <3>5
  <2> QED BY <2>2, <2>3
<1>2. S \in good
  <2> HIDE DEF good
  <2>1. \A T \in SUBSET S : T \in good
    BY <1>1, RemovalInduction
  <2> QED BY <2>1
<1> QED BY <1>2

\* Two disjoint sets may be added up one after the other.
LEMMA SumUnion ==
  ASSUME NEW A, IsFiniteSet(A), NEW B, IsFiniteSet(B), A \cap B = {},
         NEW g, \A x \in A \cup B : g[x] \in Int
  PROVE  SumOf(g, A \cup B) = SumOf(g, A) + SumOf(g, B)
<1> DEFINE good == {T \in SUBSET B : SumOf(g, A \cup T) = SumOf(g, A) + SumOf(g, T)}
<1>1. ASSUME NEW T \in SUBSET B, \A x \in T : T \ {x} \in good
      PROVE  T \in good
  <2>1. IsFiniteSet(T) /\ SumOf(g, A) \in Int
    BY FS_Subset, SumInt
  <2>2. CASE T = {}
    BY <2>1, <2>2, SumEmpty
  <2>3. CASE T # {}
    <3> DEFINE p == First(T)
               R == T \ {p}
    <3>1. p \in T /\ SumOf(g, A \cup R) = SumOf(g, A) + SumOf(g, R)
      BY <1>1, <2>3, FirstOf
    <3>2. SumOf(g, T) = g[p] + SumOf(g, R)
      BY <2>1, <2>3, SumFirst
    <3>3. IsFiniteSet(R) /\ IsFiniteSet(A \cup R) /\ R \in SUBSET B /\ p \notin A \cup R
          /\ A \cup T = (A \cup R) \cup {p}
      <4>1. IsFiniteSet(R)
        BY <2>1, FS_RemoveElement
      <4>2. R \in SUBSET B /\ p \notin A \cup R /\ A \cup T = (A \cup R) \cup {p}
        BY <3>1
      <4> HIDE DEF R, p
      <4>3. IsFiniteSet(A \cup R)
        BY <4>1, FS_Union
      <4> QED BY <4>1, <4>2, <4>3
    <3>4. \A x \in (A \cup R) \cup {p} : g[x] \in Int
      BY <3>1
    <3>5. SumOf(g, R) \in Int /\ g[p] \in Int
      <4>1. IsFiniteSet(R) /\ \A x \in R : g[x] \in Int
        BY <2>1, <3>3, FS_RemoveElement
      <4>2. g[p] \in Int
        BY <3>1
      <4> HIDE DEF R
      <4> QED BY <4>1, <4>2, SumInt
    <3> HIDE DEF p, R
    <3>6. SumOf(g, (A \cup R) \cup {p}) = g[p] + SumOf(g, A \cup R)
      <4> DEFINE U == A \cup R
      <4>1. IsFiniteSet(U) /\ p \notin U /\ \A x \in U \cup {p} : g[x] \in Int
        BY <3>3, <3>4
      <4> HIDE DEF U
      <4>2. SumOf(g, U \cup {p}) = g[p] + SumOf(g, U)
        BY <4>1, SumAdd
      <4> QED BY <4>2 DEF U
    <3>7. SumOf(g, A \cup T) = g[p] + SumOf(g, A \cup R)
      BY <3>3, <3>6
    <3> QED BY <2>1, <3>1, <3>2, <3>5, <3>7
  <2> QED BY <2>2, <2>3
<1>2. B \in good
  <2> HIDE DEF good
  <2>1. \A T \in SUBSET B : T \in good
    BY <1>1, RemovalInduction
  <2> QED BY <2>1
<1> QED BY <1>2

\* the elements of S that h puts into one group, or into one of several
Group(S, h, k) == {x \in S : h[x] = k}
Groups(S, h, K) == {x \in S : h[x] \in K}

\* Adding up group by group, h naming the group of each element.
LEMMA SumGroups ==
  ASSUME NEW S, IsFiniteSet(S), NEW g, \A x \in S : g[x] \in Int, NEW h,
         NEW K, IsFiniteSet(K), NEW w,
         \A k \in K : w[k] = SumOf(g, Group(S, h, k))
  PROVE  SumOf(g, Groups(S, h, K)) = SumOf(w, K)
<1> DEFINE In(T) == {x \in S : h[x] \in T}
           Of(k) == {x \in S : h[x] = k}
           good == {T \in SUBSET K : SumOf(g, In(T)) = SumOf(w, T)}
<1>1. ASSUME NEW T \in SUBSET K, \A x \in T : T \ {x} \in good
      PROVE  T \in good
  <2>1. IsFiniteSet(T)
    BY FS_Subset
  <2>2. CASE T = {}
    <3>1. In(T) = {}
      BY <2>2
    <3> QED BY <2>2, <3>1, SumEmpty
  <2>3. CASE T # {}
    <3> DEFINE p == First(T)
               R == T \ {p}
    <3>1. p \in T /\ SumOf(g, In(R)) = SumOf(w, R)
      BY <1>1, <2>3, FirstOf
    <3>2. SumOf(w, T) = w[p] + SumOf(w, R)
      BY <2>1, <2>3, SumFirst
    <3>3. w[p] = SumOf(g, Of(p))
      BY <3>1 DEF Group
    <3>4. In(T) = Of(p) \cup In(R) /\ Of(p) \cap In(R) = {}
      BY <3>1
    <3>5. In(R) \in SUBSET S /\ Of(p) \in SUBSET S
      OBVIOUS
    <3>6. IsFiniteSet(Of(p)) /\ IsFiniteSet(In(R))
      BY <3>5, FS_Subset
    <3>7. \A x \in Of(p) \cup In(R) : g[x] \in Int
      OBVIOUS
    <3> DEFINE A == Of(p)
               B == In(R)
    <3>8. SumOf(g, A \cup B) = SumOf(g, A) + SumOf(g, B)
      <4> IsFiniteSet(A) /\ IsFiniteSet(B) /\ A \cap B = {} /\ \A x \in A \cup B : g[x] \in Int
        BY <3>4, <3>6, <3>7
      <4> HIDE DEF A, B
      <4> QED BY SumUnion
    <3> HIDE DEF In, Of, p, R
    <3> QED BY <3>1, <3>2, <3>3, <3>4, <3>8
  <2> QED BY <2>2, <2>3
<1>2. K \in good
  <2> HIDE DEF good
  <2>1. \A T \in SUBSET K : T \in good
    BY <1>1, RemovalInduction
  <2> QED BY <2>1
<1> QED BY <1>2 DEF Groups

-----------------------------------------------------------------------------
(* Numbering the elements of a finite set in an order.                     *)

\* A strict total order on S, as a set of pairs.
Orders(R, S) ==
  /\ \A x, y \in S : x # y => <<x, y>> \in R \/ <<y, x>> \in R
  /\ \A x, y, z \in S : <<x, y>> \in R /\ <<y, z>> \in R => <<x, z>> \in R
  /\ \A x \in S : <<x, x>> \notin R

\* A finite nonempty set has a first element.
LEMMA FirstInOrder ==
  ASSUME NEW S, IsFiniteSet(S), S # {}, NEW R,
         \A x, y \in S : x # y => <<x, y>> \in R \/ <<y, x>> \in R,
         \A x, y, z \in S : <<x, y>> \in R /\ <<y, z>> \in R => <<x, z>> \in R
  PROVE  \E x \in S : \A y \in S \ {x} : <<x, y>> \in R
<1> DEFINE good == {T \in SUBSET S :
                      T # {} => \E x \in T : \A y \in T \ {x} : <<x, y>> \in R}
<1>1. ASSUME NEW T \in SUBSET S, \A x \in T : T \ {x} \in good
      PROVE  T \in good
  <2> SUFFICES ASSUME T # {} PROVE \E x \in T : \A y \in T \ {x} : <<x, y>> \in R
    OBVIOUS
  <2>1. PICK p \in T : TRUE
    OBVIOUS
  <2>2. CASE T \ {p} = {}
    BY <2>1, <2>2
  <2>3. CASE T \ {p} # {}
    <3>1. PICK x \in T \ {p} : \A y \in (T \ {p}) \ {x} : <<x, y>> \in R
      BY <1>1, <2>3
    <3>2. CASE <<x, p>> \in R
      BY <3>1, <3>2
    <3>3. CASE <<p, x>> \in R
      BY <3>1, <3>3
    <3> QED BY <3>1, <3>2, <3>3
  <2> QED BY <2>2, <2>3
<1>2. S \in good
  <2> HIDE DEF good
  <2>1. \A T \in SUBSET S : T \in good
    BY <1>1, RemovalInduction
  <2> QED BY <2>1
<1> QED BY <1>2

\* How many elements come before one: the elements are numbered without a gap.
PlaceIn(S, R, x) == Cardinality({y \in S : <<y, x>> \in R})

\* every number below the size of S is the place of exactly one element
Numbered(S, R) ==
  /\ \A x \in S : PlaceIn(S, R, x) \in 0 .. Cardinality(S) - 1
  /\ \A x, y \in S : <<x, y>> \in R => PlaceIn(S, R, x) < PlaceIn(S, R, y)
  /\ \A x, y \in S : PlaceIn(S, R, x) = PlaceIn(S, R, y) => x = y
  /\ \A k \in 0 .. Cardinality(S) - 1 : \E x \in S : PlaceIn(S, R, x) = k

\* The places in a strict order are 0, 1, ... without a gap.
LEMMA PlacesFill ==
  ASSUME NEW S, IsFiniteSet(S), NEW R,
         Orders(R, S)
  PROVE  Numbered(S, R)
<1> DEFINE n == Cardinality(S)
           Before(x) == {y \in S : <<y, x>> \in R}
           place == [x \in S |-> PlaceIn(S, R, x)]
<1> USE DEF Orders
<1>1. n \in Nat
  BY FS_CardinalityType
<1>2. \A x \in S : IsFiniteSet(Before(x)) /\ Cardinality(Before(x)) \in Nat
  <2>1. \A x \in S : Before(x) \in SUBSET S
    OBVIOUS
  <2> HIDE DEF Before
  <2> QED BY <2>1, FS_Subset, FS_CardinalityType
<1>3. ASSUME NEW x \in S PROVE PlaceIn(S, R, x) \in 0 .. n - 1
  <2>1. Before(x) \in SUBSET S /\ Before(x) # S
    OBVIOUS
  <2>2. Cardinality(Before(x)) <= n /\ Cardinality(Before(x)) # n
    <3> HIDE DEF Before
    <3> QED BY <2>1, FS_Subset
  <2>3. Cardinality(Before(x)) \in 0 .. n - 1
    <3> HIDE DEF Before, n
    <3> QED BY <1>1, <1>2, <2>2
  <2> QED BY <2>3 DEF PlaceIn
<1>4. ASSUME NEW x \in S, NEW y \in S, <<x, y>> \in R
      PROVE  PlaceIn(S, R, x) < PlaceIn(S, R, y)
  <2>1. Before(x) \in SUBSET Before(y)
    BY <1>4
  <2>2. x \in Before(y) /\ x \notin Before(x)
    BY <1>4
  <2>3. Cardinality(Before(x)) < Cardinality(Before(y))
    <3> HIDE DEF Before
    <3>1. Cardinality(Before(x)) <= Cardinality(Before(y))
          /\ Cardinality(Before(x)) # Cardinality(Before(y))
      BY <1>2, <2>1, <2>2, FS_Subset
    <3> QED BY <1>2, <3>1
  <2> QED BY <2>3 DEF PlaceIn
<1>5. ASSUME NEW x \in S, NEW y \in S, PlaceIn(S, R, x) = PlaceIn(S, R, y), x # y
      PROVE  FALSE
  <2>1. PlaceIn(S, R, x) < PlaceIn(S, R, y) \/ PlaceIn(S, R, y) < PlaceIn(S, R, x)
    BY <1>4, <1>5
  <2>2. PlaceIn(S, R, x) \in Int
    BY <1>3
  <2> QED BY <1>5, <2>1, <2>2
<1>6. place \in Injection(S, 0 .. n - 1)
  <2>1. place \in [S -> 0 .. n - 1]
    BY <1>3
  <2>2. \A x, y \in S : place[x] = place[y] => x = y
    BY <1>5
  <2> HIDE DEF place
  <2> QED BY <2>1, <2>2 DEF Injection, IsInjective
<1>7. IsFiniteSet(0 .. n - 1) /\ Cardinality(0 .. n - 1) = n
  <2> HIDE DEF n
  <2>1. 0 \in Int /\ n - 1 \in Int
    BY <1>1
  <2>2. /\ IsFiniteSet(0 .. n - 1)
        /\ Cardinality(0 .. n - 1) = IF 0 > n - 1 THEN 0 ELSE n - 1 - 0 + 1
    BY <2>1, FS_Interval, Zenon
  <2> QED BY <2>2, <1>1
<1>8. place \in Surjection(S, 0 .. n - 1)
  <2> HIDE DEF place
  <2> QED BY <1>6, <1>7, FS_Injection
<1>9. \A k \in 0 .. n - 1 : \E x \in S : place[x] = k
  <2> HIDE DEF place
  <2> QED BY <1>8 DEF Surjection
<1>10. \A k \in 0 .. n - 1 : \E x \in S : PlaceIn(S, R, x) = k
  BY <1>9 DEF place
<1> QED BY <1>3, <1>4, <1>5, <1>10 DEF Numbered

-----------------------------------------------------------------------------
(* The invariant: clusters while cells are paired, and once they are.      *)

\* what a matrix of the hierarchy is: well-typed and fit for the constructor
GoodMatrix(m) == MatrixType(m) /\ IsMatrix(m)

\* as many matrices as levels, and one more; all of them good
Hierarchy ==
  /\ \E S : matrices \in Seq(S)
  /\ \E S : levels \in Seq(S)
  /\ Len(matrices) = Len(levels) + 1
  /\ \A k \in 1 .. Len(matrices) : GoodMatrix(matrices[k])
  /\ faceWeights \in Seq(Int) /\ Len(faceWeights) = Len(Current.lower)

\* the cells a map puts into cluster k, and those it puts into any
ClusterIn(m, map, k) == {c \in CellsOf(m) : map[c] = k}
PlacedIn(m, map) == {c \in CellsOf(m) : map[c] >= 0}

\* no cluster is empty, or in two parts
AllConnected(m, map, n) ==
  \A k \in 0 .. n - 1 :
    ClusterIn(m, map, k) # {} /\ Connected(m, ClusterIn(m, map, k))

\* While cells are paired: every cluster has two cells or more, none of them
\* without a face.
Partial(m, map, n) ==
  /\ n \in Nat
  /\ map \in [CellsOf(m) -> -1 .. n - 1]
  /\ AllConnected(m, map, n)
  /\ 2 * n <= Cardinality(PlacedIn(m, map))
  /\ PlacedIn(m, map) \cap Isolated(m) = {}

\* When all have a cluster, only cells without a face are alone in theirs.
Complete(m, map, n) ==
  /\ n \in Nat
  /\ map \in [CellsOf(m) -> 0 .. n - 1]
  /\ AllConnected(m, map, n)
  /\ 2 * n <= m.n + Cardinality(Isolated(m))

\* the loop of pairCells: a cell it has visited has a cluster or no face
Pairing ==
  /\ visit \in 0 .. Current.n
  /\ Partial(Current, coarseCellMap, nCoarseCells)
  /\ \A i \in 0 .. visit - 1 :
       Visited(i) \in PlacedIn(Current, coarseCellMap) \cup Isolated(Current)

\* the outcome of pairCells
Paired ==
  /\ visit \in 0 .. Current.n
  /\ Complete(Current, coarseCellMap, nCoarseCells)

\* The inductive invariant.
IInv ==
  /\ controls \in Controls
  /\ phase \in {"called", "level", "pair", "coarsen", "stop", "built", "thrown"}
  /\ forward \in BOOLEAN
  /\ Hierarchy
  /\ phase = "pair" => Pairing
  /\ phase = "coarsen" => Paired
  /\ ClustersSound
  /\ CoarseMatricesSound

\* What the constructor of GAMGMatrix has checked, in one place.
LEMMA MatrixFacts ==
  ASSUME NEW m, GoodMatrix(m)
  PROVE  /\ m.n \in Nat /\ m.n >= 1 /\ Len(m.lower) \in Nat
         /\ IsFiniteSet(CellsOf(m)) /\ Cardinality(CellsOf(m)) = m.n
         /\ IsFiniteSet(FacesOf(m))
         /\ CellsOf(m) \subseteq Nat /\ FacesOf(m) \subseteq Nat
         /\ \A f \in FacesOf(m) :
              /\ m.lower[f] \in CellsOf(m) /\ m.upper[f] \in CellsOf(m)
              /\ m.lower[f] \in Nat /\ m.upper[f] \in Nat
              /\ m.lower[f] < m.upper[f] /\ m.coeff[f] \in Int
         /\ \A c \in CellsOf(m) : m.diag[c] \in Int
<1>1. m.n \in Nat /\ m.n >= 1 /\ Len(m.lower) \in Nat
  BY LenProperties DEF GoodMatrix, MatrixType, IsMatrix
<1>2. IsFiniteSet(CellsOf(m)) /\ Cardinality(CellsOf(m)) = m.n
  <2>1. 0 \in Int /\ m.n - 1 \in Int
    BY <1>1
  <2>2. /\ IsFiniteSet(0 .. m.n - 1)
        /\ Cardinality(0 .. m.n - 1) = IF 0 > m.n - 1 THEN 0 ELSE m.n - 1 - 0 + 1
    BY <2>1, FS_Interval, Zenon
  <2> QED BY <1>1, <2>2 DEF CellsOf
<1>3. IsFiniteSet(FacesOf(m))
  BY <1>1, FS_Interval DEF FacesOf
<1>4. CellsOf(m) \subseteq Nat /\ FacesOf(m) \subseteq Nat
  BY <1>1 DEF CellsOf, FacesOf
<1>5. ASSUME NEW f \in FacesOf(m)
      PROVE  /\ m.lower[f] \in Nat /\ m.upper[f] \in Nat /\ m.coeff[f] \in Int
             /\ m.lower[f] < m.upper[f] /\ m.upper[f] < m.n
  BY <1>1, ElementOfSeq DEF GoodMatrix, MatrixType, IsMatrix, FacesOf
<1>6. \A c \in CellsOf(m) : m.diag[c] \in Int
  BY DEF GoodMatrix, MatrixType
<1> QED BY <1>1, <1>2, <1>3, <1>4, <1>5, <1>6 DEF CellsOf

-----------------------------------------------------------------------------
(* Connected sets of cells.                                                *)

\* The two ends of a face are connected.
LEMMA EndsConnected ==
  ASSUME NEW m, NEW f \in FacesOf(m)
  PROVE  Connected(m, {m.lower[f], m.upper[f]})
<1> SUFFICES ASSUME NEW part \in SUBSET {m.lower[f], m.upper[f]},
                    part # {}, part # {m.lower[f], m.upper[f]}
             PROVE  (m.lower[f] \in part) # (m.upper[f] \in part)
  BY DEF Connected
<1> QED OBVIOUS

\* A single cell is connected.
LEMMA OneConnected == \A m, c : Connected(m, {c})
BY DEF Connected

\* A connected set stays connected when a neighbour joins it.
LEMMA JoinConnected ==
  ASSUME NEW m, NEW S, Connected(m, S), S # {}, NEW c, c \notin S, NEW f \in FacesOf(m),
         \/ m.lower[f] = c /\ m.upper[f] \in S
         \/ m.upper[f] = c /\ m.lower[f] \in S
  PROVE  Connected(m, S \cup {c})
<1> SUFFICES ASSUME NEW part \in SUBSET (S \cup {c}), part # {}, part # S \cup {c}
             PROVE  \E g \in FacesOf(m) :
                      /\ m.lower[g] \in S \cup {c} /\ m.upper[g] \in S \cup {c}
                      /\ (m.lower[g] \in part) # (m.upper[g] \in part)
  BY DEF Connected
<1>1. CASE part \cap S = {}
  <2>1. part = {c}
    BY <1>1
  <2> QED BY <2>1
<1>2. CASE part \cap S = S
  <2>1. c \notin part
    BY <1>2
  <2> QED BY <1>2, <2>1
<1>3. CASE part \cap S \notin {{}, S}
  <2>1. PICK g \in FacesOf(m) :
          /\ m.lower[g] \in S /\ m.upper[g] \in S
          /\ (m.lower[g] \in part \cap S) # (m.upper[g] \in part \cap S)
    <3>1. part \cap S \in (SUBSET S) \ {{}, S}
      BY <1>3
    <3> QED BY <3>1, Zenon DEF Connected
  <2>2. (m.lower[g] \in part) # (m.upper[g] \in part)
    BY <2>1
  <2> QED BY <2>1, <2>2
<1> QED BY <1>1, <1>2, <1>3

-----------------------------------------------------------------------------
(* What a pairing step does to the clusters, said of given maps.           *)

\* The heaviest face exists.
LEMMA HeaviestFound ==
  ASSUME Hierarchy, NEW c, NEW S \in SUBSET FacesOf(Current), S # {}
  PROVE  Heaviest(c, S) \in S
<1> DEFINE R == {p \in S \X S :
                   \/ faceWeights[p[1]] > faceWeights[p[2]]
                   \/ faceWeights[p[1]] = faceWeights[p[2]] /\ ListedBefore(c, p[1], p[2])}
<1>1. GoodMatrix(Current)
  BY LenProperties DEF Hierarchy, Current
<1>2. IsFiniteSet(S) /\ S \subseteq Nat
  BY <1>1, MatrixFacts, FS_Subset
<1>3. \A f \in S : faceWeights[f] \in Int
  BY ElementOfSeq DEF Hierarchy, FacesOf
<1>4. \A x, y \in S : x # y => <<x, y>> \in R \/ <<y, x>> \in R
  <2>1. \A x, y \in S : x # y => ListedBefore(c, x, y) \/ ListedBefore(c, y, x)
    BY <1>2 DEF ListedBefore
  <2> QED BY <1>3, <2>1
<1>5. \A x, y, z \in S : <<x, y>> \in R /\ <<y, z>> \in R => <<x, z>> \in R
  <2>1. \A x, y, z \in S :
          ListedBefore(c, x, y) /\ ListedBefore(c, y, z) => ListedBefore(c, x, z)
    BY <1>2 DEF ListedBefore
  <2> QED BY <1>3, <2>1
<1>6. \E x \in S : \A y \in S \ {x} : <<x, y>> \in R
  <2> HIDE DEF R
  <2> QED BY <1>2, <1>4, <1>5, FirstInOrder
<1>7. \E x \in S : \A y \in S \ {x} :
        \/ faceWeights[x] > faceWeights[y]
        \/ faceWeights[x] = faceWeights[y] /\ ListedBefore(c, x, y)
  BY <1>6
<1> QED BY <1>7 DEF Heaviest

\* The current matrix is one of the hierarchy.
LEMMA CurrentIsGood ==
  ASSUME Hierarchy
  PROVE  GoodMatrix(Current)
BY LenProperties DEF Hierarchy, Current

\* pairCells starts with no cluster.
LEMMA NothingPlaced ==
  ASSUME NEW m, GoodMatrix(m), NEW map, map = [c \in CellsOf(m) |-> -1]
  PROVE  Partial(m, map, 0)
<1>1. PlacedIn(m, map) = {}
  BY DEF PlacedIn
<1> QED BY <1>1, FS_EmptySet DEF Partial, AllConnected

\* Pair makes a new connected cluster of two cells that had none.
LEMMA PairPlaced ==
  ASSUME NEW m, GoodMatrix(m), NEW n, NEW map, Partial(m, map, n),
         NEW f \in FacesOf(m), map[m.lower[f]] < 0, map[m.upper[f]] < 0,
         NEW new, new = [c \in CellsOf(m) |->
                           IF c \in {m.lower[f], m.upper[f]} THEN n ELSE map[c]]
  PROVE  /\ Partial(m, new, n + 1)
         /\ PlacedIn(m, new) = PlacedIn(m, map) \cup {m.lower[f], m.upper[f]}
<1> DEFINE l == m.lower[f]
           u == m.upper[f]
           old == PlacedIn(m, map)
<1>1. l \in CellsOf(m) /\ u \in CellsOf(m) /\ l # u
  BY MatrixFacts
<1>2. n \in Nat /\ map \in [CellsOf(m) -> -1 .. n - 1]
  BY DEF Partial
<1>3. l \notin old /\ u \notin old
  BY <1>1, <1>2 DEF PlacedIn
<1>4. PlacedIn(m, new) = old \cup {l, u}
  BY <1>1, <1>2 DEF PlacedIn
<1>5. Cardinality(PlacedIn(m, new)) = Cardinality(old) + 2 /\ Cardinality(old) \in Nat
  <2>1. IsFiniteSet(old)
    BY MatrixFacts, FS_Subset DEF PlacedIn
  <2> HIDE DEF l, u, old
  <2>2. IsFiniteSet(old \cup {l}) /\ Cardinality(old \cup {l}) = Cardinality(old) + 1
    BY <1>3, <2>1, FS_AddElement
  <2>3. u \notin old \cup {l}
    BY <1>1, <1>3
  <2>4. Cardinality((old \cup {l}) \cup {u}) = Cardinality(old \cup {l}) + 1
    BY <2>2, <2>3, FS_AddElement
  <2>5. (old \cup {l}) \cup {u} = old \cup {l, u}
    OBVIOUS
  <2>6. Cardinality(old) \in Nat
    BY <2>1, FS_CardinalityType
  <2>7. Cardinality(PlacedIn(m, new)) = Cardinality(old) + 1 + 1
    BY <1>4, <2>2, <2>4, <2>5
  <2> QED BY <2>6, <2>7
<1>6. AllConnected(m, new, n + 1)
  <2> SUFFICES ASSUME NEW k \in 0 .. n
               PROVE  ClusterIn(m, new, k) # {} /\ Connected(m, ClusterIn(m, new, k))
    BY <1>2 DEF AllConnected
  <2>1. CASE k = n
    <3>1. ClusterIn(m, new, k) = {l, u}
      BY <1>1, <1>2, <2>1 DEF ClusterIn
    <3> QED BY <3>1, EndsConnected
  <2>2. CASE k # n
    <3>1. ClusterIn(m, new, k) = ClusterIn(m, map, k)
      BY <1>1, <1>2, <2>2 DEF ClusterIn
    <3>2. k \in 0 .. n - 1
      BY <1>2, <2>2
    <3> QED BY <3>1, <3>2 DEF Partial, AllConnected
  <2> QED BY <2>1, <2>2
<1>7. PlacedIn(m, new) \cap Isolated(m) = {}
  <2>1. l \notin Isolated(m) /\ u \notin Isolated(m)
    BY DEF Isolated
  <2> QED BY <1>4, <2>1 DEF Partial
<1>8. new \in [CellsOf(m) -> -1 .. (n + 1) - 1]
  BY <1>2
<1>9. 2 * (n + 1) <= Cardinality(PlacedIn(m, new))
  <2>1. 2 * n <= Cardinality(old)
    BY DEF Partial
  <2> HIDE DEF old
  <2> QED BY <1>2, <1>5, <2>1
<1> QED BY <1>2, <1>4, <1>6, <1>7, <1>8, <1>9 DEF Partial

\* c and d are the ends of f
Joins(m, f, c, d) == \/ c = m.lower[f] /\ d = m.upper[f]
                     \/ c = m.upper[f] /\ d = m.lower[f]

\* c joins the cluster of d
Joined(map, c, d) == [map EXCEPT ![c] = map[d]]

\* JoinCluster extends the cluster of a neighbour, which stays connected.
LEMMA JoinPlaced ==
  ASSUME NEW m, GoodMatrix(m), NEW n, NEW map, Partial(m, map, n),
         NEW f \in FacesOf(m), NEW c, NEW d, map[c] < 0, map[d] >= 0,
         Joins(m, f, c, d),
         NEW new, new = Joined(map, c, d)
  PROVE  /\ Partial(m, new, n)
         /\ PlacedIn(m, new) = PlacedIn(m, map) \cup {c}
<1> DEFINE old == PlacedIn(m, map)
<1> USE DEF Joins, Joined
<1>1. c \in CellsOf(m) /\ d \in CellsOf(m)
  BY MatrixFacts
<1>2. n \in Nat /\ map \in [CellsOf(m) -> -1 .. n - 1]
  BY DEF Partial
<1>3. PlacedIn(m, new) = old \cup {c}
  BY <1>1, <1>2 DEF PlacedIn
<1>4. Cardinality(PlacedIn(m, new)) >= Cardinality(old) /\ Cardinality(old) \in Nat
  <2>1. IsFiniteSet(old)
    BY MatrixFacts, FS_Subset DEF PlacedIn
  <2> HIDE DEF old
  <2>2. Cardinality(old \cup {c}) = IF c \in old THEN Cardinality(old) ELSE Cardinality(old) + 1
    BY <2>1, FS_AddElement
  <2>3. Cardinality(old) \in Nat
    BY <2>1, FS_CardinalityType
  <2>4. Cardinality(old \cup {c}) >= Cardinality(old)
    BY <2>2, <2>3
  <2>5. Cardinality(PlacedIn(m, new)) = Cardinality(old \cup {c})
    BY <1>3
  <2> QED BY <2>3, <2>4, <2>5
<1>5. AllConnected(m, new, n)
  <2> SUFFICES ASSUME NEW k \in 0 .. n - 1
               PROVE  ClusterIn(m, new, k) # {} /\ Connected(m, ClusterIn(m, new, k))
    BY DEF AllConnected
  <2>0. ClusterIn(m, map, k) # {} /\ Connected(m, ClusterIn(m, map, k))
    BY DEF Partial, AllConnected
  <2>1. CASE k = map[d]
    <3>1. ClusterIn(m, new, k) = ClusterIn(m, map, k) \cup {c}
      BY <1>1, <1>2, <2>1 DEF ClusterIn
    <3>2. c \notin ClusterIn(m, map, k) /\ d \in ClusterIn(m, map, k)
      BY <1>1, <2>1 DEF ClusterIn
    <3>3. PICK S : S = ClusterIn(m, map, k)
      OBVIOUS
    <3>4. Connected(m, S \cup {c})
      <4>1. Connected(m, S) /\ S # {} /\ c \notin S /\ d \in S
        BY <2>0, <3>2, <3>3
      <4> QED BY <4>1, JoinConnected
    <3> QED BY <3>1, <3>3, <3>4
  <2>2. CASE k # map[d]
    <3>1. ClusterIn(m, new, k) = ClusterIn(m, map, k)
      BY <1>1, <1>2, <2>2 DEF ClusterIn
    <3> QED BY <2>0, <3>1
  <2> QED BY <2>1, <2>2
<1>6. PlacedIn(m, new) \cap Isolated(m) = {}
  <2>1. c \notin Isolated(m)
    BY DEF Isolated
  <2> QED BY <1>3, <2>1 DEF Partial
<1>7. new \in [CellsOf(m) -> -1 .. n - 1]
  BY <1>1, <1>2
<1>8. 2 * n <= Cardinality(PlacedIn(m, new))
  <2>1. 2 * n <= Cardinality(old)
    BY DEF Partial
  <2>2. Cardinality(PlacedIn(m, new)) \in Int
    BY <1>7, MatrixFacts, FS_Subset, FS_CardinalityType DEF PlacedIn
  <2> HIDE DEF old
  <2> QED BY <1>2, <1>4, <2>1, <2>2
<1> QED BY <1>2, <1>3, <1>5, <1>6, <1>7, <1>8 DEF Partial

\* The numbers FinishPairing gives, and how it turns them.
LeftOver(m, map) == {c \in CellsOf(m) : map[c] < 0}

AllNumbered(m, map, n, left, R) ==
  [c \in CellsOf(m) |-> IF c \in left THEN n + PlaceIn(left, R, c) ELSE map[c]]

Turns(turned, total) ==
  \A k \in 0 .. total - 1 : turned[k] \in 0 .. total - 1 /\ turned[turned[k]] = k

Turned(m, number, turned) == [c \in CellsOf(m) |-> turned[number[c]]]

\* FinishPairing gives each cell left over, which has no face, a cluster of its
\* own, whichever way all of them are then turned.
LEMMA FinishPlaced ==
  ASSUME NEW m, GoodMatrix(m), NEW n, NEW map, Partial(m, map, n),
         CellsOf(m) \subseteq PlacedIn(m, map) \cup Isolated(m),
         NEW left, left = LeftOver(m, map),
         NEW R, Orders(R, left),
         NEW total, total = n + Cardinality(left),
         NEW number, number = AllNumbered(m, map, n, left, R),
         NEW turned, Turns(turned, total),
         NEW new, new = Turned(m, number, turned)
  PROVE  Complete(m, new, total)
<1> USE DEF LeftOver, AllNumbered, Turns, Turned
<1>1. n \in Nat /\ map \in [CellsOf(m) -> -1 .. n - 1]
  BY DEF Partial
<1>2. left = Isolated(m)
  <2>1. Isolated(m) \subseteq CellsOf(m)
    BY DEF Isolated
  <2>2. \A c \in CellsOf(m) : c \in left <=> c \notin PlacedIn(m, map)
    BY <1>1 DEF PlacedIn
  <2>3. left \subseteq CellsOf(m) /\ PlacedIn(m, map) \cap Isolated(m) = {}
    BY DEF Partial
  <2> QED BY <2>1, <2>2, <2>3
<1>3. left \subseteq CellsOf(m) /\ left \subseteq Nat /\ IsFiniteSet(left) /\ Cardinality(left) \in Nat
  <2>1. left \in SUBSET CellsOf(m)
    OBVIOUS
  <2> QED BY <2>1, MatrixFacts, FS_Subset, FS_CardinalityType
<1>4. total \in Nat
  BY <1>1, <1>3
<1>5. Cardinality(PlacedIn(m, map)) + Cardinality(left) = m.n
  <2> DEFINE placed == PlacedIn(m, map)
             cells == CellsOf(m)
  <2>1. placed \cap left = {} /\ placed \cup left = cells
    BY <1>1 DEF PlacedIn
  <2>2. placed \in SUBSET cells /\ left \in SUBSET cells
    BY <1>3 DEF PlacedIn
  <2>3. IsFiniteSet(cells) /\ Cardinality(cells) = m.n
    BY MatrixFacts
  <2> HIDE DEF placed, cells
  <2>4. IsFiniteSet(placed) /\ IsFiniteSet(left)
    BY <2>2, <2>3, FS_Subset
  <2>5. Cardinality(placed \cup left)
          = Cardinality(placed) + Cardinality(left) - Cardinality(placed \cap left)
    BY <2>4, FS_Union
  <2>6. Cardinality(placed) \in Nat /\ Cardinality({}) = 0
    BY <2>4, FS_CardinalityType, FS_EmptySet
  <2>7. m.n = Cardinality(placed) + Cardinality(left) - 0
    BY <2>1, <2>3, <2>5, <2>6
  <2> QED BY <1>3, <2>6, <2>7 DEF placed
<1>6. /\ \A x \in left : PlaceIn(left, R, x) \in 0 .. Cardinality(left) - 1
      /\ \A x, y \in left : PlaceIn(left, R, x) = PlaceIn(left, R, y) => x = y
      /\ \A k \in 0 .. Cardinality(left) - 1 : \E x \in left : PlaceIn(left, R, x) = k
  <2>1. Numbered(left, R)
    BY <1>3, PlacesFill
  <2> QED BY <2>1 DEF Numbered
<1>7. \A c \in CellsOf(m) :
        number[c] = IF c \in left THEN n + PlaceIn(left, R, c) ELSE map[c]
  OBVIOUS
<1>8. \A c \in CellsOf(m) : number[c] \in 0 .. total - 1
  <2> SUFFICES ASSUME NEW c \in CellsOf(m) PROVE number[c] \in 0 .. total - 1
    OBVIOUS
  <2>1. CASE c \in left
    <3>1. number[c] = n + PlaceIn(left, R, c) /\ PlaceIn(left, R, c) \in 0 .. Cardinality(left) - 1
      BY <1>6, <1>7, <2>1
    <3> QED BY <1>1, <1>3, <3>1
  <2>2. CASE c \notin left
    <3>1. number[c] = map[c] /\ map[c] \in -1 .. n - 1 /\ ~ (map[c] < 0)
      BY <1>1, <1>7, <2>2
    <3> QED BY <1>1, <1>3, <3>1
  <2> QED BY <2>1, <2>2
<1>9. ASSUME NEW k \in 0 .. total - 1
      PROVE  /\ {c \in CellsOf(m) : number[c] = k} # {}
             /\ Connected(m, {c \in CellsOf(m) : number[c] = k})
  <2> DEFINE K == {c \in CellsOf(m) : number[c] = k}
  <2>1. CASE k < n
    <3>1. \A c \in left : number[c] # k
      <4>1. \A c \in left : number[c] = n + PlaceIn(left, R, c) /\ PlaceIn(left, R, c) \in 0 .. Cardinality(left) - 1
        BY <1>3, <1>6, <1>7
      <4>2. \A p \in 0 .. Cardinality(left) - 1 : n + p # k
        BY <1>1, <1>3, <1>4, <2>1
      <4> QED BY <4>1, <4>2
    <3>2. \A c \in CellsOf(m) : c \in left => map[c] # k
      BY <1>1
    <3>3. K = ClusterIn(m, map, k)
      BY <1>7, <3>1, <3>2 DEF ClusterIn
    <3>4. k \in 0 .. n - 1
      BY <1>1, <1>4, <2>1
    <3> HIDE DEF K
    <3>5. K # {} /\ Connected(m, K)
      BY <3>3, <3>4 DEF Partial, AllConnected
    <3> QED BY <3>5 DEF K
  <2>2. CASE ~ (k < n)
    <3>1. k - n \in 0 .. Cardinality(left) - 1
      BY <1>1, <1>3, <2>2
    <3>2. PICK x \in left : PlaceIn(left, R, x) = k - n
      BY <1>6, <3>1
    <3>3. number[x] = k
      BY <1>1, <1>3, <1>7, <3>1, <3>2
    <3>4. ASSUME NEW c \in CellsOf(m), number[c] = k PROVE c = x
      <4>1. c \in left
        <5>1. c \notin left => map[c] = k /\ map[c] \in -1 .. n - 1
          BY <1>1, <1>7, <3>4
        <5>2. k \in Int /\ ~(k < n)
          BY <1>4, <2>2
        <5> QED BY <1>1, <5>1, <5>2
      <4>2. PlaceIn(left, R, c) = k - n
        <5>1. PICK p : p = PlaceIn(left, R, c)
          OBVIOUS
        <5>2. k = n + p /\ p \in 0 .. Cardinality(left) - 1
          BY <1>6, <1>7, <3>4, <4>1, <5>1
        <5>3. p \in Int
          BY <1>3, <5>2
        <5> QED BY <1>1, <5>1, <5>2, <5>3
      <4> QED BY <1>6, <3>2, <4>1, <4>2
    <3>5. K = {x}
      <4>1. x \in CellsOf(m)
        BY <1>3
      <4> HIDE DEF K
      <4>2. \A c : c \in K <=> c \in CellsOf(m) /\ number[c] = k
        BY DEF K
      <4> QED BY <3>3, <3>4, <4>1, <4>2
    <3> HIDE DEF K
    <3>6. K # {} /\ Connected(m, K)
      BY <3>5, OneConnected
    <3> QED BY <3>6 DEF K
  <2> QED BY <2>1, <2>2
<1>10. new \in [CellsOf(m) -> 0 .. total - 1]
  BY <1>8
<1>11. AllConnected(m, new, total)
  <2> SUFFICES ASSUME NEW k \in 0 .. total - 1
               PROVE  ClusterIn(m, new, k) # {} /\ Connected(m, ClusterIn(m, new, k))
    BY DEF AllConnected
  <2>1. PICK j \in 0 .. total - 1 : j = turned[k] /\ turned[j] = k
    OBVIOUS
  <2>2. \A c \in CellsOf(m) : new[c] = k <=> number[c] = j
    BY <1>8, <2>1
  <2>3. ClusterIn(m, new, k) = {c \in CellsOf(m) : number[c] = j}
    BY <2>2 DEF ClusterIn
  <2> QED BY <1>9, <2>3
<1>12. 2 * total <= m.n + Cardinality(Isolated(m))
  <2>1. 2 * n <= Cardinality(PlacedIn(m, map))
    BY DEF Partial
  <2>2. Cardinality(PlacedIn(m, map)) \in Int /\ m.n \in Nat
    <3>1. PlacedIn(m, map) \in SUBSET CellsOf(m)
      BY DEF PlacedIn
    <3> QED BY <3>1, MatrixFacts, FS_Subset, FS_CardinalityType
  <2>3. 2 * total <= m.n + Cardinality(left)
    <3>1. PICK a, b : a = Cardinality(PlacedIn(m, map)) /\ b = Cardinality(left)
      OBVIOUS
    <3>2. 2 * n <= a /\ a + b = m.n /\ total = n + b /\ a \in Int /\ b \in Nat
      BY <1>3, <1>5, <2>1, <2>2, <3>1
    <3>3. 2 * total <= m.n + b
      BY <1>1, <2>2, <3>2
    <3> QED BY <3>1, <3>3
  <2> QED BY <1>2, <2>3
<1> QED BY <1>4, <1>10, <1>11, <1>12 DEF Complete

-----------------------------------------------------------------------------
(* The faces of the coarse matrix.                                         *)

\* the first fine face of the k-th coarse face, and how many there are
FaceAt(k) == CHOOSE f \in FirstOfCoarseFace : CoarseFaceNumber(f) = k - 1
NFaces == Cardinality(FirstOfCoarseFace)

\* The ends of coarse faces are coarse cells, the owner before the neighbour.
LEMMA CoarseEnds ==
  ASSUME Hierarchy, Complete(Current, coarseCellMap, nCoarseCells)
  PROVE  /\ nCoarseCells \in Nat /\ nCoarseCells >= 1
         /\ \A f \in FacesOf(Current) :
              /\ MappedLower(f) \in 0 .. nCoarseCells - 1
              /\ MappedUpper(f) \in 0 .. nCoarseCells - 1
              /\ CoarseOwner(f) \in 0 .. nCoarseCells - 1
              /\ CoarseNeighbour(f) \in 0 .. nCoarseCells - 1
              /\ CoarseOwner(f) <= CoarseNeighbour(f)
         /\ \A f \in Crossing : f \in FacesOf(Current) /\ CoarseOwner(f) < CoarseNeighbour(f)
<1>1. PICK m : m = Current
  OBVIOUS
<1>2. GoodMatrix(m)
  BY <1>1, CurrentIsGood
<1>3. nCoarseCells \in Nat /\ coarseCellMap \in [CellsOf(m) -> 0 .. nCoarseCells - 1]
  BY <1>1 DEF Complete
<1>4. nCoarseCells >= 1
  <2>1. 0 \in CellsOf(m)
    BY <1>2, MatrixFacts DEF CellsOf
  <2>2. coarseCellMap[0] \in 0 .. nCoarseCells - 1
    BY <1>3, <2>1
  <2> QED BY <1>3, <2>2
<1>5. ASSUME NEW f \in FacesOf(Current)
      PROVE  MappedLower(f) \in 0 .. nCoarseCells - 1 /\ MappedUpper(f) \in 0 .. nCoarseCells - 1
  <2>1. m.lower[f] \in CellsOf(m) /\ m.upper[f] \in CellsOf(m)
    BY <1>1, <1>2, <1>5, MatrixFacts
  <2> QED BY <1>1, <1>3, <2>1 DEF MappedLower, MappedUpper
<1>6. ASSUME NEW f \in FacesOf(Current)
      PROVE  /\ CoarseOwner(f) \in 0 .. nCoarseCells - 1
             /\ CoarseNeighbour(f) \in 0 .. nCoarseCells - 1
             /\ CoarseOwner(f) <= CoarseNeighbour(f)
             /\ MappedLower(f) # MappedUpper(f) => CoarseOwner(f) < CoarseNeighbour(f)
  BY <1>3, <1>5 DEF CoarseOwner, CoarseNeighbour, AtMost, AtLeast
<1> QED BY <1>3, <1>4, <1>5, <1>6 DEF Crossing

\* Numbering the first faces by owner and place numbers the coarse faces: each
\* has one number, each pair of clusters one face, and owners do not decrease.
LEMMA CoarseFaces ==
  ASSUME Hierarchy, Complete(Current, coarseCellMap, nCoarseCells)
  PROVE  /\ NFaces \in Nat
         /\ \A k \in 1 .. NFaces : FaceAt(k) \in Crossing
         /\ \A f \in Crossing : \E k \in 1 .. NFaces :
              FaceToCoarse[f] = k - 1 /\ SameCoarseEnds(f, FaceAt(k))
         /\ \A j, k \in 1 .. NFaces : SameCoarseEnds(FaceAt(j), FaceAt(k)) => j = k
         /\ \A j, k \in 1 .. NFaces : j < k => CoarseOwner(FaceAt(j)) <= CoarseOwner(FaceAt(k))
<1> DEFINE R == {p \in FirstOfCoarseFace \X FirstOfCoarseFace :
                   \/ CoarseOwner(p[1]) < CoarseOwner(p[2])
                   \/ CoarseOwner(p[1]) = CoarseOwner(p[2]) /\ p[1] < p[2]}
<1>1. FirstOfCoarseFace \subseteq Crossing /\ Crossing \subseteq FacesOf(Current)
  BY DEF FirstOfCoarseFace, Crossing
<1>2. FacesOf(Current) \subseteq Nat /\ IsFiniteSet(FacesOf(Current))
  BY CurrentIsGood, MatrixFacts
<1>3. IsFiniteSet(FirstOfCoarseFace) /\ NFaces \in Nat
  BY <1>1, <1>2, FS_Subset, FS_CardinalityType DEF NFaces
<1>4. \A f \in Crossing : CoarseOwner(f) \in Int /\ CoarseNeighbour(f) \in Int /\ f \in Int
  BY <1>1, <1>2, CoarseEnds
<1>5. ASSUME NEW f \in Crossing
      PROVE  \E g \in FirstOfCoarseFace : SameCoarseEnds(f, g)
  <2> DEFINE S == {g \in Crossing : SameCoarseEnds(f, g)}
  <2>1. S \in SUBSET Nat /\ S # {}
    BY <1>1, <1>2 DEF SameCoarseEnds
  <2>2. PICK g \in S : \A h \in S : g <= h
    <3> HIDE DEF S
    <3> QED BY <2>1, LeastNatural
  <2>3. \A h \in Crossing : h < g => ~SameCoarseEnds(g, h)
    <3> SUFFICES ASSUME NEW h \in Crossing, h < g, SameCoarseEnds(g, h) PROVE FALSE
      OBVIOUS
    <3>1. h \in S
      BY <2>2 DEF SameCoarseEnds
    <3> QED BY <1>4, <2>2, <3>1
  <2> QED BY <2>2, <2>3 DEF FirstOfCoarseFace
<1>6. \A f, g \in FirstOfCoarseFace : SameCoarseEnds(f, g) => f = g
  BY <1>4 DEF FirstOfCoarseFace, SameCoarseEnds
<1>7. Orders(R, FirstOfCoarseFace)
  <2>1. \A x, y : <<x, y>> \in R <=>
          /\ x \in FirstOfCoarseFace /\ y \in FirstOfCoarseFace
          /\ \/ CoarseOwner(x) < CoarseOwner(y)
             \/ CoarseOwner(x) = CoarseOwner(y) /\ x < y
    OBVIOUS
  <2>2. \A x \in FirstOfCoarseFace : CoarseOwner(x) \in Int /\ x \in Int
    BY <1>1, <1>4
  <2> HIDE DEF R
  <2>3. \A x, y \in FirstOfCoarseFace : x # y => <<x, y>> \in R \/ <<y, x>> \in R
    BY <2>1, <2>2
  <2>4. \A x, y, z \in FirstOfCoarseFace : <<x, y>> \in R /\ <<y, z>> \in R => <<x, z>> \in R
    BY <2>1, <2>2
  <2>5. \A x \in FirstOfCoarseFace : <<x, x>> \notin R
    BY <2>1, <2>2
  <2> QED BY <2>3, <2>4, <2>5 DEF Orders
<1>8. Numbered(FirstOfCoarseFace, R)
  <2> HIDE DEF R
  <2> QED BY <1>3, <1>7, PlacesFill
<1>9. \A f \in FirstOfCoarseFace : CoarseFaceNumber(f) = PlaceIn(FirstOfCoarseFace, R, f)
  <2> SUFFICES ASSUME NEW f \in FirstOfCoarseFace
               PROVE  CoarseFaceNumber(f) = PlaceIn(FirstOfCoarseFace, R, f)
    OBVIOUS
  <2>1. {g \in FirstOfCoarseFace : \/ CoarseOwner(g) < CoarseOwner(f)
                                   \/ CoarseOwner(g) = CoarseOwner(f) /\ g < f}
          = {g \in FirstOfCoarseFace : <<g, f>> \in R}
    OBVIOUS
  <2> HIDE DEF R
  <2> QED BY <2>1 DEF CoarseFaceNumber, PlaceIn
<1>10. /\ \A f \in FirstOfCoarseFace : CoarseFaceNumber(f) \in 0 .. NFaces - 1
       /\ \A f, g \in FirstOfCoarseFace : CoarseFaceNumber(f) = CoarseFaceNumber(g) => f = g
       /\ \A k \in 0 .. NFaces - 1 : \E f \in FirstOfCoarseFace : CoarseFaceNumber(f) = k
  <2> HIDE DEF R
  <2> QED BY <1>8, <1>9 DEF Numbered, NFaces
<1>11. \A f, g \in FirstOfCoarseFace :
         CoarseFaceNumber(f) < CoarseFaceNumber(g) => CoarseOwner(f) <= CoarseOwner(g)
  <2> SUFFICES ASSUME NEW f \in FirstOfCoarseFace, NEW g \in FirstOfCoarseFace,
                      CoarseFaceNumber(f) < CoarseFaceNumber(g),
                      ~(CoarseOwner(f) <= CoarseOwner(g))
               PROVE  FALSE
    OBVIOUS
  <2>1. <<g, f>> \in R
    BY <1>1, <1>4
  <2> HIDE DEF R
  <2>2. CoarseFaceNumber(g) < CoarseFaceNumber(f)
    BY <1>8, <1>9, <2>1 DEF Numbered
  <2> QED BY <1>3, <1>10, <2>2
<1> HIDE DEF R
<1>12. \A k \in 1 .. NFaces : FaceAt(k) \in FirstOfCoarseFace /\ CoarseFaceNumber(FaceAt(k)) = k - 1
  <2> SUFFICES ASSUME NEW k \in 1 .. NFaces
               PROVE  FaceAt(k) \in FirstOfCoarseFace /\ CoarseFaceNumber(FaceAt(k)) = k - 1
    OBVIOUS
  <2>1. k - 1 \in 0 .. NFaces - 1
    BY <1>3
  <2>2. \E f \in FirstOfCoarseFace : CoarseFaceNumber(f) = k - 1
    BY <1>10, <2>1
  <2> QED BY <2>2 DEF FaceAt
<1>13. ASSUME NEW f \in Crossing
       PROVE  \E k \in 1 .. NFaces : FaceToCoarse[f] = k - 1 /\ SameCoarseEnds(f, FaceAt(k))
  <2>1. PICK g : g = CHOOSE h \in FirstOfCoarseFace : SameCoarseEnds(f, h)
    OBVIOUS
  <2>2. g \in FirstOfCoarseFace /\ SameCoarseEnds(f, g)
    BY <1>5, <2>1
  <2>3. PICK k : k = CoarseFaceNumber(g) + 1
    OBVIOUS
  <2>4. k \in 1 .. NFaces /\ CoarseFaceNumber(g) = k - 1
    <3>1. CoarseFaceNumber(g) \in 0 .. NFaces - 1
      BY <1>10, <2>2
    <3> QED BY <1>3, <2>3, <3>1
  <2>5. FaceAt(k) = g
    BY <1>10, <1>12, <2>2, <2>4
  <2>6. FaceToCoarse[f] = k - 1
    BY <1>1, <2>1, <2>4 DEF FaceToCoarse
  <2> QED BY <2>2, <2>4, <2>5, <2>6
<1>14. \A j, k \in 1 .. NFaces : SameCoarseEnds(FaceAt(j), FaceAt(k)) => j = k
  <2> SUFFICES ASSUME NEW j \in 1 .. NFaces, NEW k \in 1 .. NFaces, FaceAt(j) = FaceAt(k)
               PROVE  j = k
    BY <1>6, <1>12
  <2>1. j - 1 = k - 1
    BY <1>12
  <2> QED BY <1>3, <2>1
<1>15. ASSUME NEW j \in 1 .. NFaces, NEW k \in 1 .. NFaces, j < k
       PROVE  CoarseOwner(FaceAt(j)) <= CoarseOwner(FaceAt(k))
  <2>1. j - 1 < k - 1
    BY <1>3, <1>15
  <2> QED BY <1>11, <1>12, <2>1
<1> QED BY <1>1, <1>3, <1>12, <1>13, <1>14, <1>15

-----------------------------------------------------------------------------
(* The coarse matrix.                                                      *)

\* Collected is a sum over the faces of one coarse face.
LEMMA CollectedSum ==
  ASSUME NEW value, NEW map, NEW k
  PROVE  Collected(value, map, k) = SumOf(value, {f \in DOMAIN map : map[f] = k})
BY DEF Collected, SumOf

\* Integers collected are integers.
LEMMA CollectedInt ==
  ASSUME NEW value, NEW map, NEW k, IsFiniteSet(DOMAIN map), \A f \in DOMAIN map : value[f] \in Int
  PROVE  Collected(value, map, k) \in Int
<1> DEFINE S == {f \in DOMAIN map : map[f] = k}
<1>1. IsFiniteSet(S) /\ \A f \in S : value[f] \in Int
  BY FS_Subset
<1>2. Collected(value, map, k) = SumOf(value, S)
  BY CollectedSum
<1> HIDE DEF S
<1> QED BY <1>1, <1>2, SumInt

\* The coarse addressing, face by face.
LEMMA AddressingIs ==
  /\ CoarseAddressing.lower = [k \in 1 .. NFaces |-> CoarseOwner(FaceAt(k))]
  /\ CoarseAddressing.upper = [k \in 1 .. NFaces |-> CoarseNeighbour(FaceAt(k))]
<1> DEFINE face == [k \in 1 .. Cardinality(FirstOfCoarseFace) |->
                      CHOOSE f \in FirstOfCoarseFace : CoarseFaceNumber(f) = k - 1]
<1>1. DOMAIN face = 1 .. NFaces /\ \A k \in 1 .. NFaces : face[k] = FaceAt(k)
  BY DEF NFaces, FaceAt
<1>2. /\ CoarseAddressing.lower = [k \in DOMAIN face |-> CoarseOwner(face[k])]
      /\ CoarseAddressing.upper = [k \in DOMAIN face |-> CoarseNeighbour(face[k])]
  BY DEF CoarseAddressing
<1> HIDE DEF face
<1> QED BY <1>1, <1>2

\* the matrix and the weights Coarsen is about to append
CoarseOne == CoarseMatrix(FaceToCoarse, CoarseAddressing)
CoarseWeights == [k \in DOMAIN CoarseAddressing.lower |-> Collected(faceWeights, FaceToCoarse, k - 1)]

\* The members of the coarse matrix.
LEMMA CoarseOneIs ==
  /\ CoarseOne.n = nCoarseCells
  /\ CoarseOne.lower = [k \in 1 .. NFaces |-> CoarseOwner(FaceAt(k))]
  /\ CoarseOne.upper = [k \in 1 .. NFaces |-> CoarseNeighbour(FaceAt(k))]
  /\ CoarseOne.diag = [c \in 0 .. nCoarseCells - 1 |->
       Collected(Current.diag, coarseCellMap, c)
         + 2 * Collected(Current.coeff, FaceToCoarse, -(c + 1))]
  /\ CoarseOne.coeff = [k \in 1 .. NFaces |-> Collected(Current.coeff, FaceToCoarse, k - 1)]
  /\ CoarseWeights = [k \in 1 .. NFaces |-> Collected(faceWeights, FaceToCoarse, k - 1)]
<1>1. DOMAIN CoarseAddressing.lower = 1 .. NFaces
  BY AddressingIs
<1> QED BY <1>1, AddressingIs DEF CoarseOne, CoarseMatrix, CoarseWeights

\* The coarse matrix is well-typed and passes the checks of its constructor.
LEMMA CoarseOneGood ==
  ASSUME Hierarchy, Complete(Current, coarseCellMap, nCoarseCells)
  PROVE  /\ GoodMatrix(CoarseOne) /\ FacesOf(CoarseOne) = 1 .. NFaces
         /\ Len(CoarseOne.lower) = NFaces
         /\ CoarseWeights \in Seq(Int) /\ Len(CoarseWeights) = NFaces
<1>1. NFaces \in Nat
  BY CoarseFaces
<1>2. \A k \in 1 .. NFaces :
        /\ CoarseOwner(FaceAt(k)) \in Nat /\ CoarseNeighbour(FaceAt(k)) \in Nat
        /\ CoarseOwner(FaceAt(k)) < CoarseNeighbour(FaceAt(k))
        /\ CoarseNeighbour(FaceAt(k)) < nCoarseCells
  <2> SUFFICES ASSUME NEW k \in 1 .. NFaces
               PROVE  /\ CoarseOwner(FaceAt(k)) \in Nat /\ CoarseNeighbour(FaceAt(k)) \in Nat
                      /\ CoarseOwner(FaceAt(k)) < CoarseNeighbour(FaceAt(k))
                      /\ CoarseNeighbour(FaceAt(k)) < nCoarseCells
    OBVIOUS
  <2>1. FaceAt(k) \in Crossing
    BY CoarseFaces
  <2> QED BY <2>1, CoarseEnds
<1>3. nCoarseCells \in Nat /\ nCoarseCells >= 1
  BY CoarseEnds
<1>4. IsFiniteSet(DOMAIN coarseCellMap) /\ \A c \in DOMAIN coarseCellMap : Current.diag[c] \in Int
  <2>1. DOMAIN coarseCellMap = CellsOf(Current)
    BY DEF Complete
  <2> QED BY <2>1, CurrentIsGood, MatrixFacts
<1>5. /\ IsFiniteSet(DOMAIN FaceToCoarse)
      /\ \A f \in DOMAIN FaceToCoarse : Current.coeff[f] \in Int /\ faceWeights[f] \in Int
  <2>1. DOMAIN FaceToCoarse = FacesOf(Current)
    BY DEF FaceToCoarse
  <2>2. \A f \in FacesOf(Current) : faceWeights[f] \in Int
    BY ElementOfSeq DEF Hierarchy, FacesOf
  <2> QED BY <2>1, <2>2, CurrentIsGood, MatrixFacts
<1>6. \A c : Collected(Current.diag, coarseCellMap, c)
               + 2 * Collected(Current.coeff, FaceToCoarse, -(c + 1)) \in Int
  <2>1. \A c : Collected(Current.diag, coarseCellMap, c) \in Int
    BY <1>4, CollectedInt
  <2>2. \A c : Collected(Current.coeff, FaceToCoarse, c) \in Int
    BY <1>5, CollectedInt
  <2> QED BY <2>1, <2>2
<1>7. \A k : Collected(Current.coeff, FaceToCoarse, k) \in Int /\ Collected(faceWeights, FaceToCoarse, k) \in Int
  BY <1>5, CollectedInt
<1>8. PICK M : M = CoarseOne
  OBVIOUS
<1>9. M.n = nCoarseCells /\ Len(M.lower) = NFaces /\ Len(M.upper) = NFaces /\ Len(M.coeff) = NFaces
  BY <1>1, <1>8, CoarseOneIs
<1>10. M.lower \in Seq(Nat) /\ M.upper \in Seq(Nat)
  BY <1>1, <1>2, <1>8, CoarseOneIs
<1>11. M.coeff \in Seq(Int)
  BY <1>1, <1>7, <1>8, CoarseOneIs
<1>12. M.diag \in [CellsOf(M) -> Int]
  BY <1>6, <1>8, <1>9, CoarseOneIs DEF CellsOf
<1>13. FacesOf(M) = 1 .. NFaces
  BY <1>9 DEF FacesOf
<1>14. IsMatrix(M)
  <2>1. M.n >= 1 /\ Len(M.upper) = Len(M.lower) /\ Len(M.coeff) = Len(M.lower)
    BY <1>3, <1>9
  <2>2. \A f \in 1 .. NFaces : M.lower[f] = CoarseOwner(FaceAt(f)) /\ M.upper[f] = CoarseNeighbour(FaceAt(f))
    BY <1>8, CoarseOneIs
  <2>3. \A f \in FacesOf(M) : 0 <= M.lower[f] /\ M.lower[f] < M.upper[f] /\ M.upper[f] < M.n
    BY <1>2, <1>9, <1>13, <2>2
  <2>4. \A f, g \in FacesOf(M) : f < g => M.lower[f] <= M.lower[g]
    BY <1>13, <2>2, CoarseFaces
  <2> QED BY <2>1, <2>3, <2>4 DEF IsMatrix
<1>15. CoarseWeights \in Seq(Int) /\ Len(CoarseWeights) = NFaces
  BY <1>1, <1>7, CoarseOneIs
<1> QED BY <1>3, <1>8, <1>9, <1>10, <1>11, <1>12, <1>13, <1>14, <1>15 DEF GoodMatrix, MatrixType

\* The face maps and the ends of the coarse faces.
LEMMA CoarseMapsRight ==
  ASSUME Hierarchy, Complete(Current, coarseCellMap, nCoarseCells)
  PROVE  /\ \A F, G \in 1 .. NFaces : F # G =>
              <<CoarseOne.lower[F], CoarseOne.upper[F]>> # <<CoarseOne.lower[G], CoarseOne.upper[G]>>
         /\ \A f \in FacesOf(Current) :
              LET owner == coarseCellMap[Current.lower[f]]
                  neighbour == coarseCellMap[Current.upper[f]]
                  F == FaceToCoarse[f] + 1
              IN  IF owner = neighbour
                    THEN F = -owner
                    ELSE /\ F \in 1 .. NFaces
                         /\ <<CoarseOne.lower[F], CoarseOne.upper[F]>> =
                              IF FaceFlip[f] THEN <<neighbour, owner>>
                                             ELSE <<owner, neighbour>>
<1>1. \A k \in 1 .. NFaces : CoarseOne.lower[k] = CoarseOwner(FaceAt(k))
                             /\ CoarseOne.upper[k] = CoarseNeighbour(FaceAt(k))
  BY CoarseOneIs
<1>2. ASSUME NEW F \in 1 .. NFaces, NEW G \in 1 .. NFaces, F # G
      PROVE  <<CoarseOne.lower[F], CoarseOne.upper[F]>> # <<CoarseOne.lower[G], CoarseOne.upper[G]>>
  BY <1>1, <1>2, CoarseFaces DEF SameCoarseEnds
<1>3. ASSUME NEW f \in FacesOf(Current)
      PROVE  LET owner == coarseCellMap[Current.lower[f]]
                 neighbour == coarseCellMap[Current.upper[f]]
                 F == FaceToCoarse[f] + 1
             IN  IF owner = neighbour
                   THEN F = -owner
                   ELSE /\ F \in 1 .. NFaces
                        /\ <<CoarseOne.lower[F], CoarseOne.upper[F]>> =
                             IF FaceFlip[f] THEN <<neighbour, owner>>
                                            ELSE <<owner, neighbour>>
  <2>1. PICK owner, neighbour, F :
          /\ owner = coarseCellMap[Current.lower[f]]
          /\ neighbour = coarseCellMap[Current.upper[f]]
          /\ F = FaceToCoarse[f] + 1
    OBVIOUS
  <2>2. owner = MappedLower(f) /\ neighbour = MappedUpper(f)
    BY <2>1 DEF MappedLower, MappedUpper
  <2>3. owner \in Int /\ neighbour \in Int
    BY <1>3, <2>2, CoarseEnds
  <2>4. CASE owner = neighbour
    <3>1. f \notin Crossing
      BY <2>2, <2>4 DEF Crossing
    <3>2. FaceToCoarse[f] = -(neighbour + 1)
      BY <1>3, <2>2, <3>1 DEF FaceToCoarse
    <3>3. F = -owner
      BY <2>1, <2>3, <2>4, <3>2
    <3> QED BY <2>1, <2>4, <3>3
  <2>5. CASE owner # neighbour
    <3>1. f \in Crossing
      BY <1>3, <2>2, <2>5 DEF Crossing
    <3>2. PICK k \in 1 .. NFaces : FaceToCoarse[f] = k - 1 /\ SameCoarseEnds(f, FaceAt(k))
      BY <3>1, CoarseFaces
    <3>3. F = k
      <4>1. NFaces \in Nat
        BY CoarseFaces
      <4> QED BY <2>1, <3>2, <4>1
    <3>4. CoarseOne.lower[F] = AtMost(owner, neighbour) /\ CoarseOne.upper[F] = AtLeast(owner, neighbour)
      BY <1>1, <2>2, <3>2, <3>3 DEF SameCoarseEnds, CoarseOwner, CoarseNeighbour
    <3>5. FaceFlip[f] = (AtMost(owner, neighbour) = neighbour)
      BY <1>3, <2>2, <3>1 DEF FaceFlip, CoarseOwner
    <3>6. <<CoarseOne.lower[F], CoarseOne.upper[F]>> =
             IF FaceFlip[f] THEN <<neighbour, owner>> ELSE <<owner, neighbour>>
      <4>1. CASE owner < neighbour
        <5>1. AtMost(owner, neighbour) = owner /\ AtLeast(owner, neighbour) = neighbour
          BY <2>3, <4>1 DEF AtMost, AtLeast
        <5> QED BY <2>5, <3>4, <3>5, <5>1
      <4>2. CASE neighbour < owner
        <5>1. AtMost(owner, neighbour) = neighbour /\ AtLeast(owner, neighbour) = owner
          BY <2>3, <4>2 DEF AtMost, AtLeast
        <5> QED BY <2>5, <3>4, <3>5, <5>1
      <4> QED BY <2>3, <2>5, <4>1, <4>2
    <3> QED BY <2>1, <2>5, <3>2, <3>3, <3>6
  <2> QED BY <2>4, <2>5
<1> QED BY <1>2, <1>3

-----------------------------------------------------------------------------
(* The steps of pairCells.                                                 *)

\* Both directions visit every cell.
LEMMA VisitedCells ==
  ASSUME Hierarchy, forward \in BOOLEAN
  PROVE  /\ \A i \in 0 .. Current.n - 1 : Visited(i) \in CellsOf(Current)
         /\ \A c \in CellsOf(Current) : \E i \in 0 .. Current.n - 1 : Visited(i) = c
<1>1. Current.n \in Nat
  BY CurrentIsGood, MatrixFacts
<1>2. CASE forward
  BY <1>1, <1>2 DEF Visited, CellsOf
<1>3. CASE ~forward
  <2>1. \A i : Visited(i) = Current.n - i - 1
    BY <1>3 DEF Visited
  <2>2. PICK n : n = Current.n
    OBVIOUS
  <2>3. \A i \in 0 .. n - 1 : n - i - 1 \in 0 .. n - 1
    BY <1>1, <2>2
  <2>4. \A c \in 0 .. n - 1 : n - c - 1 \in 0 .. n - 1 /\ n - (n - c - 1) - 1 = c
    BY <1>1, <2>2
  <2> QED BY <2>1, <2>2, <2>3, <2>4 DEF CellsOf
<1> QED BY <1>2, <1>3

\* Partial in the next state, from what the variables are there.
LEMMA PartialNext ==
  ASSUME NEW m, NEW map, NEW n, Partial(m, map, n),
         Current' = m, coarseCellMap' = map, nCoarseCells' = n
  PROVE  Partial(Current, coarseCellMap, nCoarseCells)'
<1>1. /\ CellsOf(Current)' = CellsOf(m) /\ FacesOf(Current)' = FacesOf(m)
      /\ Isolated(Current)' = Isolated(m) /\ PlacedIn(Current, coarseCellMap)' = PlacedIn(m, map)
  BY DEF CellsOf, FacesOf, Isolated, PlacedIn
<1>2. AllConnected(Current, coarseCellMap, nCoarseCells)'
  <2>1. \A S : Connected(Current, S)' <=> Connected(m, S)
    BY DEF Connected, FacesOf
  <2>2. \A k : ClusterIn(Current, coarseCellMap, k)' = ClusterIn(m, map, k)
    BY <1>1 DEF ClusterIn
  <2>3. AllConnected(m, map, n)
    BY DEF Partial
  <2> QED BY <2>1, <2>2, <2>3 DEF AllConnected
<1> QED BY <1>1, <1>2 DEF Partial

\* Complete in the next state, from what the variables are there.
LEMMA CompleteNext ==
  ASSUME NEW m, NEW map, NEW n, Complete(m, map, n),
         Current' = m, coarseCellMap' = map, nCoarseCells' = n
  PROVE  Complete(Current, coarseCellMap, nCoarseCells)'
<1>1. /\ CellsOf(Current)' = CellsOf(m) /\ FacesOf(Current)' = FacesOf(m)
      /\ Isolated(Current)' = Isolated(m)
  BY DEF CellsOf, FacesOf, Isolated
<1>2. AllConnected(Current, coarseCellMap, nCoarseCells)'
  <2>1. \A S : Connected(Current, S)' <=> Connected(m, S)
    BY DEF Connected, FacesOf
  <2>2. \A k : ClusterIn(Current, coarseCellMap, k)' = ClusterIn(m, map, k)
    BY <1>1 DEF ClusterIn
  <2>3. AllConnected(m, map, n)
    BY DEF Complete
  <2> QED BY <2>1, <2>2, <2>3 DEF AllConnected
<1> QED BY <1>1, <1>2 DEF Complete

\* A level begins with no cell visited and none placed.
LEMMA BeginKeeps ==
  ASSUME IInv, BeginLevel
  PROVE  Pairing'
<1>1. GoodMatrix(Current) /\ Current' = Current
  BY CurrentIsGood DEF IInv, BeginLevel, hierarchy, Current
<1>2. Current.n \in Nat
  BY <1>1, MatrixFacts
<1>3. Partial(Current, coarseCellMap', 0)
  BY <1>1, NothingPlaced DEF BeginLevel
<1>4. visit' = 0 /\ nCoarseCells' = 0
  BY DEF BeginLevel
<1>5. Partial(Current, coarseCellMap, nCoarseCells)'
  BY <1>1, <1>3, <1>4 DEF Partial, PlacedIn, AllConnected, ClusterIn, Connected, CellsOf, FacesOf, Isolated
<1>6. 0 .. visit' - 1 = {} /\ visit' \in 0 .. Current'.n
  BY <1>1, <1>2, <1>4
<1> QED BY <1>5, <1>6 DEF Pairing

\* What a visit adds to the clusters, said of constants.
LEMMA VisitKeeps ==
  ASSUME IInv, Visiting, Partial(Current, coarseCellMap', nCoarseCells'),
         PlacedIn(Current, coarseCellMap) \subseteq PlacedIn(Current, coarseCellMap'),
         Visited(visit) \in PlacedIn(Current, coarseCellMap') \cup Isolated(Current)
  PROVE  Pairing'
<1>1. Pairing /\ visit' = visit + 1 /\ visit < Current.n /\ Current' = Current /\ forward' = forward
  BY DEF IInv, Visiting, hierarchy, Current
<1>2. Current.n \in Nat /\ visit \in Nat
  <2>1. Current.n \in Nat
    BY CurrentIsGood, MatrixFacts DEF IInv
  <2> QED BY <1>1, <2>1 DEF Pairing
<1>3. visit' \in 0 .. Current'.n
  BY <1>1, <1>2
<1>4. Partial(Current, coarseCellMap, nCoarseCells)'
  <2>1. PICK m, new, n : m = Current /\ new = coarseCellMap' /\ n = nCoarseCells'
    OBVIOUS
  <2>2. Partial(m, new, n)
    BY <2>1
  <2>3. Current' = m
    BY <1>1, <2>1
  <2> QED BY <2>1, <2>2, <2>3, PartialNext
<1>5. \A i : Visited(i)' = Visited(i)
  BY <1>1 DEF Visited
<1>6. /\ PlacedIn(Current, coarseCellMap)' = PlacedIn(Current, coarseCellMap')
      /\ Isolated(Current)' = Isolated(Current)
  BY <1>1 DEF PlacedIn, Isolated, CellsOf, FacesOf
<1>7. ASSUME NEW i \in 0 .. visit' - 1
      PROVE  Visited(i) \in PlacedIn(Current, coarseCellMap') \cup Isolated(Current)
  <2>1. i \in 0 .. visit - 1 \/ i = visit
    BY <1>1, <1>2
  <2>2. i \in 0 .. visit - 1 =>
          Visited(i) \in PlacedIn(Current, coarseCellMap) \cup Isolated(Current)
    BY <1>1 DEF Pairing
  <2> QED BY <2>1, <2>2
<1> QED BY <1>3, <1>4, <1>5, <1>6, <1>7 DEF Pairing

\* What is known when a cell is visited.
LEMMA VisitFacts ==
  ASSUME IInv, Visiting
  PROVE  /\ Hierarchy /\ GoodMatrix(Current)
         /\ Partial(Current, coarseCellMap, nCoarseCells)
         /\ Visited(visit) \in CellsOf(Current)
         /\ DOMAIN coarseCellMap = CellsOf(Current)
         /\ \A f \in FacesOf(Current) : Ends(f) \subseteq CellsOf(Current)
         /\ \A c \in CellsOf(Current) : coarseCellMap[c] \in Int /\ coarseCellMap[c] >= -1
<1>1. Hierarchy /\ Pairing /\ forward \in BOOLEAN /\ visit < Current.n
  BY DEF IInv, Visiting
<1>2. GoodMatrix(Current) /\ Current.n \in Nat
  BY <1>1, CurrentIsGood, MatrixFacts
<1>3. visit \in 0 .. Current.n - 1
  BY <1>1, <1>2 DEF Pairing
<1>4. Partial(Current, coarseCellMap, nCoarseCells)
  BY <1>1 DEF Pairing
<1>5. \A f \in FacesOf(Current) : Ends(f) \subseteq CellsOf(Current)
  BY <1>2, MatrixFacts DEF Ends
<1>6. coarseCellMap \in [CellsOf(Current) -> -1 .. nCoarseCells - 1] /\ nCoarseCells \in Nat
  BY <1>4 DEF Partial
<1>7. \A c \in CellsOf(Current) : coarseCellMap[c] \in Int /\ coarseCellMap[c] >= -1
  BY <1>6
<1> QED BY <1>1, <1>2, <1>3, <1>4, <1>5, <1>6, <1>7, VisitedCells

\* A cell that is passed over has a cluster or no face.
LEMMA PassOverKeeps ==
  ASSUME IInv, PassOver
  PROVE  Pairing'
<1> DEFINE cell == Visited(visit)
<1>1. Visiting /\ coarseCellMap' = coarseCellMap /\ nCoarseCells' = nCoarseCells
      /\ (coarseCellMap[cell] >= 0 \/ CellFaces(cell) = {})
  BY DEF PassOver
<1>2. cell \in CellsOf(Current) /\ Partial(Current, coarseCellMap, nCoarseCells)
  BY <1>1, VisitFacts
<1>3. cell \in PlacedIn(Current, coarseCellMap) \cup Isolated(Current)
  BY <1>1, <1>2 DEF PlacedIn, Isolated, CellFaces, Ends
<1> HIDE DEF cell
<1>4. Visited(visit) \in PlacedIn(Current, coarseCellMap') \cup Isolated(Current)
  BY <1>1, <1>3 DEF cell
<1> QED BY <1>1, <1>2, <1>4, VisitKeeps

\* Pairing a cell with its heaviest free neighbour keeps the invariant.
LEMMA PairKeeps ==
  ASSUME IInv, Pair
  PROVE  Pairing'
<1> DEFINE cell == Visited(visit)
           matchFace == Heaviest(cell, PairingFaces(cell))
<1>1. /\ Visiting /\ coarseCellMap[cell] < 0 /\ PairingFaces(cell) # {}
      /\ coarseCellMap' = [c \in DOMAIN coarseCellMap |->
           IF c \in Ends(matchFace) THEN nCoarseCells ELSE coarseCellMap[c]]
      /\ nCoarseCells' = nCoarseCells + 1
  BY DEF Pair
<1>2. PICK f : f = matchFace
  OBVIOUS
<1>3. f \in PairingFaces(cell)
  <2>1. PairingFaces(cell) \in SUBSET FacesOf(Current) /\ Hierarchy
    BY DEF PairingFaces, CellFaces, IInv
  <2> QED BY <1>1, <1>2, <2>1, HeaviestFound
<1>4. /\ f \in FacesOf(Current) /\ cell \in Ends(f)
      /\ \A e \in Ends(f) : coarseCellMap[e] < 0
  BY <1>3 DEF PairingFaces, CellFaces
<1>5. PICK m, map, new, n : m = Current /\ map = coarseCellMap /\ new = coarseCellMap' /\ n = nCoarseCells
  OBVIOUS
<1>6. GoodMatrix(m) /\ Partial(m, map, n) /\ DOMAIN map = CellsOf(m)
  BY <1>1, <1>5, VisitFacts
<1>7. new = [c \in CellsOf(m) |-> IF c \in {m.lower[f], m.upper[f]} THEN n ELSE map[c]]
  BY <1>1, <1>2, <1>5, <1>6 DEF Ends
<1>8. f \in FacesOf(m) /\ map[m.lower[f]] < 0 /\ map[m.upper[f]] < 0
  BY <1>4, <1>5 DEF Ends
<1>9. /\ Partial(m, new, n + 1)
      /\ PlacedIn(m, new) = PlacedIn(m, map) \cup {m.lower[f], m.upper[f]}
  BY <1>6, <1>7, <1>8, PairPlaced
<1>10. cell \in PlacedIn(m, new)
  BY <1>4, <1>5, <1>9 DEF Ends
<1> HIDE DEF cell, matchFace
<1>11. /\ Partial(Current, coarseCellMap', nCoarseCells')
       /\ PlacedIn(Current, coarseCellMap) \subseteq PlacedIn(Current, coarseCellMap')
       /\ Visited(visit) \in PlacedIn(Current, coarseCellMap') \cup Isolated(Current)
  BY <1>1, <1>5, <1>9, <1>10 DEF cell
<1> QED BY <1>1, <1>11, VisitKeeps

\* A cell without a free neighbour joins a cluster: the face it joins over has
\* its other end placed, so the larger of the two numbers is that cluster.
LEMMA JoinClusterKeeps ==
  ASSUME IInv, JoinCluster
  PROVE  Pairing'
<1> DEFINE cell == Visited(visit)
           clusterFace == Heaviest(cell, CellFaces(cell))
<1>1. /\ Visiting /\ coarseCellMap[cell] < 0
      /\ PairingFaces(cell) = {} /\ CellFaces(cell) # {}
      /\ coarseCellMap' = [coarseCellMap EXCEPT ![cell] =
           AtLeast(coarseCellMap[Current.lower[clusterFace]],
                   coarseCellMap[Current.upper[clusterFace]])]
      /\ nCoarseCells' = nCoarseCells
  BY DEF JoinCluster
<1>2. PICK f, c : f = clusterFace /\ c = cell
  OBVIOUS
<1>3. f \in CellFaces(cell)
  <2>1. CellFaces(cell) \in SUBSET FacesOf(Current) /\ Hierarchy
    BY DEF CellFaces, IInv
  <2> QED BY <1>1, <1>2, <2>1, HeaviestFound
<1>4. f \in FacesOf(Current) /\ c \in Ends(f)
  BY <1>2, <1>3 DEF CellFaces
<1>5. PICK m, map, new, n : m = Current /\ map = coarseCellMap /\ new = coarseCellMap' /\ n = nCoarseCells
  OBVIOUS
<1>6. /\ GoodMatrix(m) /\ Partial(m, map, n) /\ f \in FacesOf(m) /\ map[c] < 0
      /\ \A e \in {m.lower[f], m.upper[f]} : map[e] \in Int
  <2>1. /\ GoodMatrix(Current) /\ Partial(Current, coarseCellMap, nCoarseCells)
        /\ Ends(f) \subseteq CellsOf(Current)
        /\ \A e \in CellsOf(Current) : coarseCellMap[e] \in Int
    BY <1>1, <1>4, VisitFacts
  <2> QED BY <1>1, <1>2, <1>4, <1>5, <2>1 DEF Ends
<1>7. f \notin PairingFaces(cell)
  BY <1>1
<1>8. PICK d : /\ map[d] >= 0
               /\ \/ c = m.lower[f] /\ d = m.upper[f]
                  \/ c = m.upper[f] /\ d = m.lower[f]
  <2>1. \E e \in {m.lower[f], m.upper[f]} : ~(map[e] < 0)
    BY <1>3, <1>5, <1>7 DEF PairingFaces, Ends
  <2>2. PICK e \in {m.lower[f], m.upper[f]} : map[e] >= 0
    BY <1>6, <2>1
  <2>3. e # c
    BY <1>6, <2>2
  <2>4. c = m.lower[f] \/ c = m.upper[f]
    BY <1>4, <1>5 DEF Ends
  <2> QED BY <2>2, <2>3, <2>4
<1>9. AtLeast(map[m.lower[f]], map[m.upper[f]]) = map[d]
  BY <1>6, <1>8 DEF AtLeast
<1>10. new = [map EXCEPT ![c] = map[d]]
  BY <1>1, <1>2, <1>5, <1>9
<1>11. /\ Partial(m, new, n)
       /\ PlacedIn(m, new) = PlacedIn(m, map) \cup {c}
  <2>1. Joins(m, f, c, d) /\ new = Joined(map, c, d)
    BY <1>8, <1>10 DEF Joins, Joined
  <2>2. map[c] < 0 /\ map[d] >= 0
    BY <1>6, <1>8
  <2> QED BY <1>6, <2>1, <2>2, JoinPlaced
<1> HIDE DEF cell, clusterFace
<1>12. /\ Partial(Current, coarseCellMap', nCoarseCells')
       /\ PlacedIn(Current, coarseCellMap) \subseteq PlacedIn(Current, coarseCellMap')
       /\ Visited(visit) \in PlacedIn(Current, coarseCellMap') \cup Isolated(Current)
  BY <1>1, <1>2, <1>5, <1>11 DEF cell
<1> QED BY <1>1, <1>12, VisitKeeps

\* When all cells have been visited only those without a face are left over.
LEMMA FinishKeeps ==
  ASSUME IInv, FinishPairing
  PROVE  Paired'
<1> DEFINE left == {c \in CellsOf(Current) : coarseCellMap[c] < 0}
           before(c) == {d \in left : IF forward THEN d < c ELSE d > c}
           total == nCoarseCells + Cardinality(left)
           number(c) == IF c \in left
                          THEN nCoarseCells + Cardinality(before(c))
                          ELSE coarseCellMap[c]
<1>1. /\ visit = Current.n /\ visit' = visit /\ Current' = Current /\ nCoarseCells' = total
      /\ coarseCellMap' = [c \in CellsOf(Current) |->
           IF forward THEN number(c) ELSE total - 1 - number(c)]
  BY DEF FinishPairing, hierarchy, Current
<1>2. Hierarchy /\ Pairing /\ forward \in BOOLEAN
  BY DEF IInv, FinishPairing
<1>3. PICK m, map, new, n : m = Current /\ map = coarseCellMap /\ new = coarseCellMap' /\ n = nCoarseCells
  OBVIOUS
<1>4. GoodMatrix(m) /\ Partial(m, map, n) /\ m.n \in Nat
  BY <1>2, <1>3, CurrentIsGood, MatrixFacts DEF Pairing
<1>5. CellsOf(m) \subseteq PlacedIn(m, map) \cup Isolated(m)
  <2>1. \A i \in 0 .. m.n - 1 : Visited(i) \in PlacedIn(m, map) \cup Isolated(m)
    BY <1>1, <1>2, <1>3 DEF Pairing
  <2>2. \A c \in CellsOf(m) : \E i \in 0 .. m.n - 1 : Visited(i) = c
    BY <1>2, <1>3, VisitedCells
  <2> QED BY <2>1, <2>2
<1>6. PICK L, T : L = left /\ T = total
  OBVIOUS
<1>7. L = {c \in CellsOf(m) : map[c] < 0} /\ T = n + Cardinality(L)
  BY <1>3, <1>6
<1>8. L \subseteq Nat /\ T \in Nat
  <2>1. L \in SUBSET CellsOf(m) /\ n \in Nat
    BY <1>4, <1>7 DEF Partial
  <2>2. IsFiniteSet(L)
    BY <1>4, <2>1, MatrixFacts, FS_Subset
  <2> QED BY <1>4, <1>7, <2>1, <2>2, MatrixFacts, FS_CardinalityType
<1>9. \E R, turned :
        /\ Orders(R, L)
        /\ \A k \in 0 .. T - 1 : turned[k] \in 0 .. T - 1 /\ turned[turned[k]] = k
        /\ new = [c \in CellsOf(m) |->
             turned[IF c \in L THEN n + PlaceIn(L, R, c) ELSE map[c]]]
  <2>0. \A c \in CellsOf(m) :
          /\ c \in L => PlaceIn(L, {p \in L \X L : p[1] < p[2]}, c) \in Nat
          /\ c \in L => PlaceIn(L, {p \in L \X L : p[1] > p[2]}, c) \in Nat
    <3>1. IsFiniteSet(L)
      BY <1>4, <1>7, MatrixFacts, FS_Subset
    <3>2. \A R, c : {d \in L : <<d, c>> \in R} \in SUBSET L
      OBVIOUS
    <3>3. \A R, c : PlaceIn(L, R, c) \in Nat
      BY <3>1, <3>2, FS_Subset, FS_CardinalityType DEF PlaceIn
    <3> QED BY <3>3
  <2>1. CASE forward
    <3> DEFINE R == {p \in L \X L : p[1] < p[2]}
               turned == [k \in Int |-> k]
    <3>1. \A x, y : <<x, y>> \in R <=> x \in L /\ y \in L /\ x < y
      OBVIOUS
    <3>2. \A c \in L : before(c) = {d \in L : <<d, c>> \in R}
      BY <1>6, <2>1
    <3>3. \A c \in L : PlaceIn(L, R, c) \in Nat
      BY <1>7, <2>0
    <3> HIDE DEF R
    <3>4. Orders(R, L)
      BY <1>8, <3>1 DEF Orders
    <3>5. \A k \in 0 .. T - 1 : turned[k] \in 0 .. T - 1 /\ turned[turned[k]] = k
      BY <1>8
    <3>6. \A c \in CellsOf(m) : new[c] = IF c \in L THEN n + PlaceIn(L, R, c) ELSE map[c]
      <4>1. \A c \in CellsOf(m) : new[c] = number(c)
        BY <1>1, <1>3, <2>1
      <4>2. \A c \in L : before(c) = {d \in L : <<d, c>> \in R}
        BY <3>2
      <4> QED BY <1>3, <1>6, <4>1, <4>2 DEF PlaceIn
    <3>7. \A c \in CellsOf(m) : (IF c \in L THEN n + PlaceIn(L, R, c) ELSE map[c]) \in Int
      <4>1. n \in Nat /\ map \in [CellsOf(m) -> -1 .. n - 1]
        BY <1>4 DEF Partial
      <4> QED BY <3>3, <4>1
    <3>8. new = [c \in CellsOf(m) |->
             turned[IF c \in L THEN n + PlaceIn(L, R, c) ELSE map[c]]]
      <4>1. DOMAIN new = CellsOf(m) /\ new = [c \in CellsOf(m) |-> new[c]]
        BY <1>1, <1>3
      <4>2. \A k \in Int : turned[k] = k
        OBVIOUS
      <4> HIDE DEF turned
      <4> QED BY <3>6, <3>7, <4>1, <4>2
    <3> HIDE DEF turned
    <3> QED BY <3>4, <3>5, <3>8
  <2>2. CASE ~forward
    <3> DEFINE R == {p \in L \X L : p[1] > p[2]}
               turned == [k \in Int |-> T - 1 - k]
    <3>1. \A x, y : <<x, y>> \in R <=> x \in L /\ y \in L /\ x > y
      OBVIOUS
    <3>2. \A c \in L : before(c) = {d \in L : <<d, c>> \in R}
      BY <1>6, <2>2
    <3>3. \A c \in L : PlaceIn(L, R, c) \in Nat
      BY <1>7, <2>0
    <3> HIDE DEF R
    <3>4. Orders(R, L)
      BY <1>8, <3>1 DEF Orders
    <3>5. \A k \in 0 .. T - 1 : turned[k] \in 0 .. T - 1 /\ turned[turned[k]] = k
      BY <1>8
    <3>6. \A c \in CellsOf(m) : new[c] = T - 1 - (IF c \in L THEN n + PlaceIn(L, R, c) ELSE map[c])
      <4>1. \A c \in CellsOf(m) : new[c] = T - 1 - number(c)
        BY <1>1, <1>3, <1>6, <2>2
      <4>2. \A c \in L : before(c) = {d \in L : <<d, c>> \in R}
        BY <3>2
      <4> QED BY <1>3, <1>6, <4>1, <4>2 DEF PlaceIn
    <3>7. \A c \in CellsOf(m) : (IF c \in L THEN n + PlaceIn(L, R, c) ELSE map[c]) \in Int
      <4>1. n \in Nat /\ map \in [CellsOf(m) -> -1 .. n - 1]
        BY <1>4 DEF Partial
      <4> QED BY <3>3, <4>1
    <3>8. new = [c \in CellsOf(m) |->
             turned[IF c \in L THEN n + PlaceIn(L, R, c) ELSE map[c]]]
      <4>1. DOMAIN new = CellsOf(m) /\ new = [c \in CellsOf(m) |-> new[c]]
        BY <1>1, <1>3
      <4>2. \A k \in Int : turned[k] = T - 1 - k
        OBVIOUS
      <4> HIDE DEF turned
      <4> QED BY <3>6, <3>7, <4>1, <4>2
    <3> HIDE DEF turned
    <3> QED BY <3>4, <3>5, <3>8
  <2> QED BY <1>2, <2>1, <2>2
<1>10. Complete(m, new, T)
  <2>1. PICK R, turned :
          /\ Orders(R, L)
          /\ \A k \in 0 .. T - 1 : turned[k] \in 0 .. T - 1 /\ turned[turned[k]] = k
          /\ new = [c \in CellsOf(m) |->
               turned[IF c \in L THEN n + PlaceIn(L, R, c) ELSE map[c]]]
    BY <1>9
  <2>2. PICK number1 : number1 = AllNumbered(m, map, n, L, R)
    OBVIOUS
  <2>3. new = Turned(m, number1, turned)
    <3>1. \A c \in CellsOf(m) :
            number1[c] = IF c \in L THEN n + PlaceIn(L, R, c) ELSE map[c]
      BY <2>2 DEF AllNumbered
    <3>2. new = [c \in CellsOf(m) |->
                   turned[IF c \in L THEN n + PlaceIn(L, R, c) ELSE map[c]]]
      BY <2>1
    <3> QED BY <3>1, <3>2 DEF Turned
  <2>4. /\ GoodMatrix(m) /\ Partial(m, map, n)
        /\ CellsOf(m) \subseteq PlacedIn(m, map) \cup Isolated(m)
        /\ Orders(R, L)
    BY <1>4, <1>5, <2>1
  <2>5. L = LeftOver(m, map) /\ T = n + Cardinality(L)
    BY <1>7 DEF LeftOver
  <2>6. Turns(turned, T)
    BY <2>1 DEF Turns
  <2> QED BY <2>2, <2>3, <2>4, <2>5, <2>6, FinishPlaced
<1>11. Current' = m /\ coarseCellMap' = new /\ nCoarseCells' = T /\ visit' \in 0 .. m.n
  BY <1>1, <1>3, <1>4, <1>6
<1>12. Complete(Current, coarseCellMap, nCoarseCells)'
  <2> HIDE DEF left, before, total, number
  <2> QED BY <1>10, <1>11, CompleteNext
<1> QED BY <1>11, <1>12 DEF Paired

-----------------------------------------------------------------------------
(* A new level, and the invariant.                                         *)

\* A sequence, whatever its elements, and a sequence with one more.
Listed(s) == \E S : s \in Seq(S)

Extends(t, s, e) ==
  /\ Listed(t) /\ Len(s) \in Nat /\ Len(t) = Len(s) + 1
  /\ \A k \in 1 .. Len(s) : t[k] = s[k]
  /\ t[Len(s) + 1] = e

\* Append leaves what is there and adds one element at the end.
LEMMA AppendIs ==
  ASSUME NEW s, Listed(s), NEW e, NEW t, t = Append(s, e)
  PROVE  Extends(t, s, e)
<1>1. PICK S : s \in Seq(S)
  BY DEF Listed
<1>2. PICK U : U = S \cup {e}
  OBVIOUS
<1>3. s \in Seq(U) /\ e \in U
  <2>1. \A k \in 1 .. Len(s) : s[k] \in U
    BY <1>1, <1>2
  <2>2. s = [k \in 1 .. Len(s) |-> s[k]] /\ Len(s) \in Nat
    BY <1>1
  <2> QED BY <1>2, <2>1, <2>2
<1> QED BY <1>3, AppendProperties DEF Listed, Extends

\* What Coarsen appends.
LEMMA NewLevel ==
  ASSUME IInv, Coarsen
  PROVE  /\ Hierarchy /\ Complete(Current, coarseCellMap, nCoarseCells)
         /\ \E S : matrices' \in Seq(S)
         /\ \E S : levels' \in Seq(S)
         /\ Len(matrices') = Len(levels') + 1 /\ Len(matrices') = Len(matrices) + 1
         /\ \A k \in 1 .. Len(matrices) : matrices'[k] = matrices[k]
         /\ \A k \in 1 .. Len(levels) : levels'[k] = levels[k]
         /\ Len(levels') = Len(levels) + 1 /\ Len(levels) \in Nat
         /\ Len(matrices) = Len(levels) + 1
         /\ Current' = CoarseOne /\ Fine' = Current /\ faceWeights' = CoarseWeights
         /\ Made' = [fineToCoarse |-> coarseCellMap, faceToCoarse |-> FaceToCoarse,
                     faceFlip |-> FaceFlip]
<1> DEFINE made == [fineToCoarse |-> coarseCellMap, faceToCoarse |-> FaceToCoarse,
                     faceFlip |-> FaceFlip]
<1>1. /\ matrices' = Append(matrices, CoarseOne) /\ levels' = Append(levels, made)
      /\ faceWeights' = CoarseWeights
  BY DEF Coarsen, CoarseOne, CoarseWeights
<1>2. Hierarchy /\ Complete(Current, coarseCellMap, nCoarseCells)
  BY DEF IInv, Coarsen, Paired
<1>3. (\E S : matrices \in Seq(S)) /\ (\E S : levels \in Seq(S)) /\ Len(matrices) = Len(levels) + 1
  BY <1>2 DEF Hierarchy
<1> HIDE DEF made
<1>4. PICK M, L : M = CoarseOne /\ L = made
  OBVIOUS
<1>5. matrices' = Append(matrices, M) /\ levels' = Append(levels, L)
  BY <1>1, <1>4
<1>6. /\ \E S : matrices' \in Seq(S)
      /\ Len(matrices) \in Nat /\ Len(matrices') = Len(matrices) + 1
      /\ \A k \in 1 .. Len(matrices) : matrices'[k] = matrices[k]
      /\ matrices'[Len(matrices) + 1] = M
  <2>1. PICK s, t : s = matrices /\ t = matrices'
    OBVIOUS
  <2>2. Listed(s) /\ t = Append(s, M)
    BY <1>3, <1>5, <2>1 DEF Listed
  <2>3. Extends(t, s, M)
    BY <2>2, AppendIs
  <2> QED BY <2>1, <2>3 DEF Listed, Extends
<1>7. /\ \E S : levels' \in Seq(S)
      /\ Len(levels) \in Nat /\ Len(levels') = Len(levels) + 1
      /\ \A k \in 1 .. Len(levels) : levels'[k] = levels[k]
      /\ levels'[Len(levels) + 1] = L
  <2>1. PICK s, t : s = levels /\ t = levels'
    OBVIOUS
  <2>2. Listed(s) /\ t = Append(s, L)
    BY <1>3, <1>5, <2>1 DEF Listed
  <2>3. Extends(t, s, L)
    BY <2>2, AppendIs
  <2> QED BY <2>1, <2>3 DEF Listed, Extends
<1>8. Current' = M /\ Made' = L
  BY <1>6, <1>7 DEF Current, Made
<1>9. Fine' = Current
  <2>1. Len(levels') = Len(matrices) /\ Len(matrices) \in 1 .. Len(matrices)
    BY <1>3, <1>6, <1>7
  <2> QED BY <1>6, <2>1 DEF Fine, Current
<1> QED BY <1>1, <1>2, <1>3, <1>4, <1>6, <1>7, <1>8, <1>9 DEF made

\* A new level extends the hierarchy, and its clusters and matrix are sound.
LEMMA CoarsenKeeps ==
  ASSUME IInv, Coarsen
  PROVE  Hierarchy' /\ ClustersSound' /\ CoarseMatricesSound'
<1>1. /\ Hierarchy /\ Complete(Current, coarseCellMap, nCoarseCells)
      /\ Current' = CoarseOne /\ Fine' = Current /\ faceWeights' = CoarseWeights
      /\ Made' = [fineToCoarse |-> coarseCellMap, faceToCoarse |-> FaceToCoarse,
                  faceFlip |-> FaceFlip]
  BY NewLevel
<1>2. PICK M, m, map, n, fmap, flip :
        /\ M = CoarseOne /\ m = Current /\ map = coarseCellMap /\ n = nCoarseCells
        /\ fmap = FaceToCoarse /\ flip = FaceFlip
  OBVIOUS
<1>3. Current' = M /\ Fine' = m /\ M.n = n
      /\ Made'.fineToCoarse = map /\ Made'.faceToCoarse = fmap /\ Made'.faceFlip = flip
  BY <1>1, <1>2, CoarseOneIs
<1>4. /\ GoodMatrix(M) /\ FacesOf(M) = 1 .. NFaces /\ Len(M.lower) = NFaces
      /\ faceWeights' \in Seq(Int) /\ Len(faceWeights') = NFaces
  BY <1>1, <1>2, CoarseOneGood
<1>5. Hierarchy'
  <2>1. \A k \in 1 .. Len(matrices) : GoodMatrix(matrices[k])
    BY <1>1 DEF Hierarchy
  <2>2. \A k \in 1 .. Len(matrices') : GoodMatrix(matrices'[k])
    <3>1. /\ \A k \in 1 .. Len(matrices) : matrices'[k] = matrices[k]
          /\ Len(matrices') = Len(matrices) + 1 /\ Len(matrices) \in Nat
      BY NewLevel
    <3>2. matrices'[Len(matrices')] = M
      BY <1>3 DEF Current
    <3>3. \A k \in 1 .. Len(matrices') : k \in 1 .. Len(matrices) \/ k = Len(matrices')
      BY <3>1
    <3> QED BY <1>4, <2>1, <3>1, <3>2, <3>3
  <2>3. \A k \in 1 .. Len(matrices') : GoodMatrix(matrices[k])'
    BY <2>2 DEF GoodMatrix, MatrixType, IsMatrix, CellsOf, FacesOf
  <2> QED BY <1>3, <1>4, <2>3, NewLevel DEF Hierarchy
<1>6. ClustersSound'
  <2>1. AllConnected(m, map, n) /\ 2 * n <= m.n + Cardinality(Isolated(m))
    BY <1>1, <1>2 DEF Complete
  <2>2. ASSUME NEW coarseCell \in CellsOf(M)
        PROVE  /\ {c \in CellsOf(m) : map[c] = coarseCell} # {}
               /\ Connected(m, {c \in CellsOf(m) : map[c] = coarseCell})
    BY <1>3, <2>1 DEF AllConnected, ClusterIn, CellsOf
  <2>3. /\ \A coarseCell \in CellsOf(M) :
             LET cluster == {c \in CellsOf(m) : map[c] = coarseCell}
             IN  cluster # {} /\ Connected(m, cluster)
        /\ 2 * M.n <= m.n + Cardinality(Isolated(m))
    BY <1>3, <2>1, <2>2
  <2> QED BY <1>3, <2>3 DEF ClustersSound, Connected, CellsOf, FacesOf, Isolated
<1>7. CoarseMatricesSound'
  <2>1. /\ \A F, G \in FacesOf(M) : F # G =>
             <<M.lower[F], M.upper[F]>> # <<M.lower[G], M.upper[G]>>
        /\ \A f \in FacesOf(m) :
             LET owner == map[m.lower[f]]
                 neighbour == map[m.upper[f]]
                 F == fmap[f] + 1
             IN  IF owner = neighbour
                   THEN F = -owner
                   ELSE /\ F \in FacesOf(M)
                        /\ <<M.lower[F], M.upper[F]>> =
                             IF flip[f] THEN <<neighbour, owner>> ELSE <<owner, neighbour>>
    BY <1>1, <1>2, <1>4, CoarseMapsRight
  <2>2. IsMatrix(Current)' /\ FacesOf(Current)' = FacesOf(M) /\ FacesOf(Fine)' = FacesOf(m)
    BY <1>3, <1>4 DEF GoodMatrix, IsMatrix, FacesOf
  <2> QED BY <1>3, <2>1, <2>2 DEF CoarseMatricesSound
<1> QED BY <1>5, <1>6, <1>7

\* Nothing else touches the hierarchy.
LEMMA HierarchyStays ==
  ASSUME IInv, UNCHANGED hierarchy
  PROVE  Hierarchy'
BY DEF IInv, Hierarchy, hierarchy, Current, GoodMatrix, MatrixType, IsMatrix, CellsOf, FacesOf

\* The invariant holds when the constructor is called.
LEMMA IInvInit ==
  ASSUME Init
  PROVE  IInv
<1>1. PICK m \in Matrices : matrices = <<m>> /\ faceWeights = [f \in FacesOf(m) |-> Abs(m.coeff[f])]
  BY DEF Init
<1>2. GoodMatrix(m)
  BY MatricesAssumption DEF GoodMatrix
<1>3. Len(matrices) = 1 /\ Current = m /\ levels = <<>> /\ Len(levels) = 0
  BY <1>1 DEF Init, Current
<1>4. faceWeights \in Seq(Int) /\ Len(faceWeights) = Len(m.lower)
  <2>1. \A f \in FacesOf(m) : Abs(m.coeff[f]) \in Int
    BY <1>2, MatrixFacts DEF Abs
  <2>2. Len(m.lower) \in Nat
    BY <1>2, MatrixFacts
  <2> HIDE DEF Abs
  <2> QED BY <1>1, <2>1, <2>2 DEF FacesOf
<1>5. (\E S : matrices \in Seq(S)) /\ (\E S : levels \in Seq(S))
  <2>1. matrices \in Seq({m}) /\ levels \in Seq({m})
    BY <1>1, <1>3
  <2> QED BY <2>1
<1>6. \A k \in 1 .. Len(matrices) : GoodMatrix(matrices[k])
  BY <1>1, <1>2, <1>3
<1>7. Hierarchy
  BY <1>3, <1>4, <1>5, <1>6 DEF Hierarchy
<1> QED BY <1>7 DEF IInv, Init, ClustersSound, CoarseMatricesSound

\* Every step of the constructor keeps the invariant.
LEMMA IInvNext ==
  ASSUME IInv, Next
  PROVE  IInv'
<1> DEFINE Frame == /\ controls' \in Controls /\ forward' \in BOOLEAN
                    /\ phase' \in {"called", "level", "pair", "coarsen", "stop", "built", "thrown"}
<1>1. CASE BeginLevel
  <2>1. Frame /\ phase' = "pair" /\ UNCHANGED hierarchy
    BY <1>1 DEF BeginLevel, IInv
  <2>2. ClustersSound' /\ CoarseMatricesSound'
    BY <2>1 DEF ClustersSound, CoarseMatricesSound
  <2> QED BY <1>1, <2>1, <2>2, BeginKeeps, HierarchyStays DEF IInv
<1>2. CASE PassOver \/ Pair \/ JoinCluster
  <2>1. Frame /\ phase' = "pair" /\ UNCHANGED hierarchy
    BY <1>2 DEF PassOver, Pair, JoinCluster, Visiting, IInv
  <2>2. ClustersSound' /\ CoarseMatricesSound'
    BY <2>1 DEF ClustersSound, CoarseMatricesSound
  <2>3. Pairing'
    BY <1>2, PassOverKeeps, PairKeeps, JoinClusterKeeps
  <2> QED BY <2>1, <2>2, <2>3, HierarchyStays DEF IInv
<1>3. CASE FinishPairing
  <2>1. Frame /\ phase' = "coarsen" /\ UNCHANGED hierarchy
    BY <1>3 DEF FinishPairing, IInv
  <2>2. ClustersSound' /\ CoarseMatricesSound'
    BY <2>1 DEF ClustersSound, CoarseMatricesSound
  <2> QED BY <1>3, <2>1, <2>2, FinishKeeps, HierarchyStays DEF IInv
<1>4. CASE Coarsen
  <2>1. Frame /\ phase' = "level"
    BY <1>4 DEF Coarsen, IInv
  <2> QED BY <1>4, <2>1, CoarsenKeeps DEF IInv
<1>5. CASE RejectControls \/ StopCoarsening \/ Finish \/ NoCoarseLevel
  <2>1. Frame /\ phase' \in {"thrown", "stop", "built"} /\ UNCHANGED hierarchy
    BY <1>5 DEF RejectControls, StopCoarsening, Finish, NoCoarseLevel, IInv
  <2>2. ClustersSound' /\ CoarseMatricesSound'
    BY <2>1 DEF ClustersSound, CoarseMatricesSound
  <2> QED BY <2>1, <2>2, HierarchyStays DEF IInv
<1> QED BY <1>1, <1>2, <1>3, <1>4, <1>5 DEF Next

\* A step that changes nothing keeps the invariant.
LEMMA IInvStays ==
  ASSUME IInv, UNCHANGED vars
  PROVE  IInv'
<1>1. /\ Hierarchy' /\ Current' = Current /\ UNCHANGED <<phase, controls, forward, visit>>
      /\ Made' = Made /\ Fine' = Fine
  BY HierarchyStays DEF vars, hierarchy, pairing, Current, Made, Fine
<1>2. coarseCellMap' = coarseCellMap /\ nCoarseCells' = nCoarseCells
  BY DEF vars, pairing
<1>3. ASSUME phase = "pair" PROVE Pairing'
  <2>1. Pairing
    BY <1>3 DEF IInv
  <2>2. Partial(Current, coarseCellMap, nCoarseCells)'
    <3>1. PICK m, map, n : m = Current /\ map = coarseCellMap /\ n = nCoarseCells
      OBVIOUS
    <3>2. Partial(m, map, n) /\ Current' = m /\ coarseCellMap' = map /\ nCoarseCells' = n
      BY <1>1, <1>2, <2>1, <3>1 DEF Pairing
    <3> QED BY <3>2, PartialNext
  <2>3. \A i : Visited(i)' = Visited(i)
    BY <1>1 DEF Visited
  <2>4. /\ PlacedIn(Current, coarseCellMap)' = PlacedIn(Current, coarseCellMap)
        /\ Isolated(Current)' = Isolated(Current)
    BY <1>1, <1>2 DEF PlacedIn, Isolated, CellsOf, FacesOf
  <2> QED BY <1>1, <2>1, <2>2, <2>3, <2>4 DEF Pairing
<1>4. ASSUME phase = "coarsen" PROVE Paired'
  <2>1. Paired
    BY <1>4 DEF IInv
  <2>2. Complete(Current, coarseCellMap, nCoarseCells)'
    <3>1. PICK m, map, n : m = Current /\ map = coarseCellMap /\ n = nCoarseCells
      OBVIOUS
    <3>2. Complete(m, map, n) /\ Current' = m /\ coarseCellMap' = map /\ nCoarseCells' = n
      BY <1>1, <1>2, <2>1, <3>1 DEF Paired
    <3> QED BY <3>2, CompleteNext
  <2> QED BY <1>1, <2>1, <2>2 DEF Paired
<1>5. ClustersSound' /\ CoarseMatricesSound'
  <2>1. ClustersSound /\ CoarseMatricesSound
    BY DEF IInv
  <2>2. /\ CellsOf(Current)' = CellsOf(Current) /\ CellsOf(Fine)' = CellsOf(Fine)
        /\ FacesOf(Current)' = FacesOf(Current) /\ FacesOf(Fine)' = FacesOf(Fine)
        /\ Isolated(Fine)' = Isolated(Fine) /\ IsMatrix(Current)' = IsMatrix(Current)
        /\ \A S : Connected(Fine, S)' = Connected(Fine, S)
    BY <1>1 DEF CellsOf, FacesOf, Isolated, Connected, IsMatrix
  <2>3. ClustersSound'
    BY <1>1, <2>1, <2>2 DEF ClustersSound
  <2>4. CoarseMatricesSound'
    BY <1>1, <2>1, <2>2 DEF CoarseMatricesSound
  <2> QED BY <2>3, <2>4
<1> QED BY <1>1, <1>3, <1>4, <1>5 DEF IInv

\* The invariant implies the property.
LEMMA IInvSound ==
  ASSUME IInv
  PROVE  LevelsSound
<1>1. TypeOK
  <2>1. Hierarchy
    BY DEF IInv
  <2>2. ASSUME phase = "pair" PROVE nCoarseCells \in 0 .. Current.n
    <3>1. PICK m, map, n : m = Current /\ map = coarseCellMap /\ n = nCoarseCells
      OBVIOUS
    <3>2. GoodMatrix(m) /\ Partial(m, map, n)
      BY <2>1, <2>2, <3>1, CurrentIsGood DEF IInv, Pairing
    <3>3. n \in Nat /\ 2 * n <= Cardinality(PlacedIn(m, map))
      BY <3>2 DEF Partial
    <3>4. Cardinality(PlacedIn(m, map)) \in Nat /\ Cardinality(PlacedIn(m, map)) <= m.n /\ m.n \in Nat
      <4>1. PlacedIn(m, map) \in SUBSET CellsOf(m)
        BY DEF PlacedIn
      <4> QED BY <3>2, <4>1, MatrixFacts, FS_Subset, FS_CardinalityType
    <3>5. n \in 0 .. m.n
      BY <3>3, <3>4
    <3> QED BY <3>1, <3>5
  <2>3. ASSUME phase = "coarsen" PROVE nCoarseCells \in 0 .. Current.n
    <3>1. PICK m, map, n : m = Current /\ map = coarseCellMap /\ n = nCoarseCells
      OBVIOUS
    <3>2. GoodMatrix(m) /\ Complete(m, map, n)
      BY <2>1, <2>3, <3>1, CurrentIsGood DEF IInv, Paired
    <3>3. n \in Nat /\ 2 * n <= m.n + Cardinality(Isolated(m))
      BY <3>2 DEF Complete
    <3>4. Cardinality(Isolated(m)) \in Nat /\ Cardinality(Isolated(m)) <= m.n /\ m.n \in Nat
      <4>1. Isolated(m) \in SUBSET CellsOf(m)
        BY DEF Isolated
      <4> QED BY <3>2, <4>1, MatrixFacts, FS_Subset, FS_CardinalityType
    <3>5. n \in 0 .. m.n
      BY <3>3, <3>4
    <3> QED BY <3>1, <3>5
  <2>4. ASSUME phase = "pair"
        PROVE  visit \in 0 .. Current.n /\ coarseCellMap \in [CellsOf(Current) -> -1 .. nCoarseCells - 1]
    BY <2>4 DEF IInv, Pairing, Partial
  <2>5. ASSUME phase = "coarsen"
        PROVE  visit \in 0 .. Current.n /\ coarseCellMap \in [CellsOf(Current) -> -1 .. nCoarseCells - 1]
    <3>1. visit \in 0 .. Current.n /\ coarseCellMap \in [CellsOf(Current) -> 0 .. nCoarseCells - 1]
      BY <2>5 DEF IInv, Paired, Complete
    <3>2. 0 .. nCoarseCells - 1 \subseteq -1 .. nCoarseCells - 1
      <4>1. nCoarseCells \in Int
        BY <2>5 DEF IInv, Paired, Complete
      <4> QED BY <4>1
    <3> QED BY <3>1, <3>2
  <2> QED BY <2>1, <2>2, <2>3, <2>4, <2>5 DEF IInv, TypeOK, Hierarchy
<1> QED BY <1>1 DEF IInv, LevelsSound

\* Every level of GAMGAgglomeration is sound: clusters are connected and at least
\* halve the cells that have a face, the coarse matrix passes the checks of the
\* GAMGMatrix constructor with one face for each pair of clusters, and the face
\* maps lead to the ends of the coarse faces.
THEOREM PairingLevels == Spec => []LevelsSound
<1>1. Init => IInv
  BY IInvInit
<1>2. IInv /\ [Next]_vars => IInv'
  BY IInvNext, IInvStays
<1>3. IInv => LevelsSound
  BY IInvSound
<1> QED BY <1>1, <1>2, <1>3, PTL DEF Spec

-----------------------------------------------------------------------------
(* Galerkin products, and that they compose.                               *)

\* the faces p maps to the face F, the cells h maps to c, the faces inside c
OnFace(A, p, F) == {f \in FacesOf(A) : p[f] + 1 = F}
HeldBy(A, h, c) == {d \in CellsOf(A) : h[d] = c}
Inside(A, h, c) == {f \in FacesOf(A) : h[A.lower[f]] = c /\ h[A.upper[f]] = c}

\* a face inside a cell of B, or between two of them with a face in B
Carried(A, B, h, p, f) ==
  IF h[A.lower[f]] = h[A.upper[f]]
    THEN p[f] = -(h[A.lower[f]] + 1)
    ELSE /\ p[f] + 1 \in FacesOf(B)
         /\ {B.lower[p[f] + 1], B.upper[p[f] + 1]} = {h[A.lower[f]], h[A.upper[f]]}

\* B, with the weights wb, is the product of A, with wa, by the map h of cells
\* and the map p of faces
ProductOf(A, wa, B, wb, h, p) ==
  /\ h \in [CellsOf(A) -> CellsOf(B)]
  /\ p \in [FacesOf(A) -> Int]
  /\ \A f \in FacesOf(A) : Carried(A, B, h, p, f)
  /\ \A F \in FacesOf(B) :
       /\ B.coeff[F] = SumOf(A.coeff, OnFace(A, p, F))
       /\ wb[F] = SumOf(wa, OnFace(A, p, F))
  /\ \A c \in CellsOf(B) :
       B.diag[c] = SumOf(A.diag, HeldBy(A, h, c)) + 2 * SumOf(A.coeff, Inside(A, h, c))

\* The sum of what two faces maps in a row collect.
LEMMA FacesCompose ==
  ASSUME NEW S, IsFiniteSet(S), NEW g, \A f \in S : g[f] \in Int,
         NEW K, IsFiniteSet(K), NEW v, NEW p, \A F \in K : v[F] = SumOf(g, {f \in S : p[f] + 1 = F})
  PROVE  SumOf(v, K) = SumOf(g, {f \in S : p[f] + 1 \in K})
<1> DEFINE q == [f \in S |-> p[f] + 1]
<1>1. \A F : {f \in S : p[f] + 1 = F} = Group(S, q, F)
  BY DEF Group
<1>2. {f \in S : p[f] + 1 \in K} = Groups(S, q, K)
  BY DEF Groups
<1> HIDE DEF q
<1>3. \A F \in K : v[F] = SumOf(g, Group(S, q, F))
  BY <1>1
<1>4. SumOf(g, Groups(S, q, K)) = SumOf(v, K)
  BY <1>3, SumGroups
<1> QED BY <1>2, <1>4

\* the map h followed by j
Composed(A, h, j) == [d \in CellsOf(A) |-> j[h[d]]]

\* A product of a product is a product: the faces inside a cell of C are those
\* inside the cells of B it holds and those on the faces of B inside it.
LEMMA ProductsCompose ==
  ASSUME NEW A, GoodMatrix(A), NEW B, GoodMatrix(B), NEW C, GoodMatrix(C),
         NEW wa, \A f \in FacesOf(A) : wa[f] \in Int,
         NEW wb, NEW wc, NEW h, NEW p, NEW j, NEW q,
         ProductOf(A, wa, B, wb, h, p), ProductOf(B, wb, C, wc, j, q)
  PROVE  \E r : ProductOf(A, wa, C, wc, Composed(A, h, j), r)
<1> DEFINE i == [d \in CellsOf(A) |-> j[h[d]]]
           r == [f \in FacesOf(A) |->
                   IF h[A.lower[f]] = h[A.upper[f]]
                     THEN -(j[h[A.lower[f]]] + 1) ELSE q[p[f] + 1]]
<1>1. /\ h \in [CellsOf(A) -> CellsOf(B)] /\ j \in [CellsOf(B) -> CellsOf(C)]
      /\ p \in [FacesOf(A) -> Int] /\ q \in [FacesOf(B) -> Int]
  BY DEF ProductOf
<1>2. /\ \A f \in FacesOf(A) : A.lower[f] \in CellsOf(A) /\ A.upper[f] \in CellsOf(A)
      /\ \A F \in FacesOf(B) : B.lower[F] \in CellsOf(B) /\ B.upper[F] \in CellsOf(B)
      /\ CellsOf(A) \subseteq Nat /\ CellsOf(B) \subseteq Nat /\ CellsOf(C) \subseteq Nat
      /\ FacesOf(A) \subseteq Nat /\ FacesOf(B) \subseteq Nat /\ FacesOf(C) \subseteq Nat
      /\ IsFiniteSet(CellsOf(A)) /\ IsFiniteSet(FacesOf(A))
      /\ IsFiniteSet(CellsOf(B)) /\ IsFiniteSet(FacesOf(B))
      /\ \A f \in FacesOf(A) : A.coeff[f] \in Int
      /\ \A c \in CellsOf(A) : A.diag[c] \in Int
      /\ 0 \notin FacesOf(B) /\ 0 \notin FacesOf(C)
  <2>1. 0 \notin FacesOf(B) /\ 0 \notin FacesOf(C)
    <3>1. Len(B.lower) \in Nat /\ Len(C.lower) \in Nat
      BY MatrixFacts
    <3> QED BY <3>1 DEF FacesOf
  <2> QED BY <2>1, MatrixFacts
<1>3. i \in [CellsOf(A) -> CellsOf(C)] /\ \A d \in CellsOf(A) : i[d] = j[h[d]]
  BY <1>1
<1>4. ASSUME NEW f \in FacesOf(A), h[A.lower[f]] = h[A.upper[f]]
      PROVE  /\ i[A.lower[f]] = i[A.upper[f]] /\ r[f] = -(i[A.lower[f]] + 1)
             /\ p[f] + 1 \notin FacesOf(B) /\ r[f] \in Int /\ r[f] + 1 \notin FacesOf(C)
  <2>1. A.lower[f] \in CellsOf(A) /\ h[A.lower[f]] \in CellsOf(B) /\ j[h[A.lower[f]]] \in CellsOf(C)
    BY <1>1, <1>2
  <2>2. i[A.lower[f]] = i[A.upper[f]] /\ r[f] = -(j[h[A.lower[f]]] + 1) /\ i[A.lower[f]] = j[h[A.lower[f]]]
    BY <1>2, <1>3, <1>4
  <2>3. p[f] = -(h[A.lower[f]] + 1)
    BY <1>4 DEF ProductOf, Carried
  <2>4. \A x \in Nat : -(x + 1) + 1 \in Nat => -(x + 1) + 1 = 0
    OBVIOUS
  <2>5. p[f] + 1 \notin FacesOf(B)
    BY <1>2, <2>1, <2>3, <2>4
  <2>6. r[f] \in Int /\ r[f] + 1 \notin FacesOf(C)
    <3>1. PICK x \in Nat : x = j[h[A.lower[f]]]
      BY <1>2, <2>1
    <3>2. r[f] = -(x + 1)
      BY <2>2, <3>1
    <3> HIDE DEF r
    <3> QED BY <1>2, <2>4, <3>2
  <2> QED BY <2>2, <2>5, <2>6
<1>5. ASSUME NEW f \in FacesOf(A), h[A.lower[f]] # h[A.upper[f]]
      PROVE  /\ p[f] + 1 \in FacesOf(B) /\ r[f] = q[p[f] + 1] /\ r[f] \in Int
             /\ {B.lower[p[f] + 1], B.upper[p[f] + 1]} = {h[A.lower[f]], h[A.upper[f]]}
             /\ {j[B.lower[p[f] + 1]], j[B.upper[p[f] + 1]]} = {i[A.lower[f]], i[A.upper[f]]}
             /\ Carried(B, C, j, q, p[f] + 1)
  <2>1. Carried(A, B, h, p, f)
    BY DEF ProductOf
  <2>2. /\ p[f] + 1 \in FacesOf(B)
        /\ {B.lower[p[f] + 1], B.upper[p[f] + 1]} = {h[A.lower[f]], h[A.upper[f]]}
    BY <1>5, <2>1 DEF Carried
  <2>3. r[f] = q[p[f] + 1] /\ r[f] \in Int
    BY <1>1, <1>5, <2>2
  <2>4. Carried(B, C, j, q, p[f] + 1)
    BY <2>2 DEF ProductOf
  <2>5. i[A.lower[f]] = j[h[A.lower[f]]] /\ i[A.upper[f]] = j[h[A.upper[f]]]
    BY <1>2, <1>3
  <2> HIDE DEF i, r
  <2> QED BY <2>2, <2>3, <2>4, <2>5
<1> HIDE DEF i, r
<1>6. \A f \in FacesOf(A) : Carried(A, C, i, r, f)
  <2> SUFFICES ASSUME NEW f \in FacesOf(A) PROVE Carried(A, C, i, r, f)
    OBVIOUS
  <2>1. CASE h[A.lower[f]] = h[A.upper[f]]
    BY <1>4, <2>1 DEF Carried
  <2>2. CASE h[A.lower[f]] # h[A.upper[f]]
    <3>1. PICK F, x, y, a, b :
            F = p[f] + 1 /\ x = j[B.lower[F]] /\ y = j[B.upper[F]]
            /\ a = i[A.lower[f]] /\ b = i[A.upper[f]]
      OBVIOUS
    <3>2. {x, y} = {a, b} /\ r[f] = q[F] /\ Carried(B, C, j, q, F)
      BY <1>5, <2>2, <3>1
    <3>3. CASE x = y
      <4>1. a = b /\ a = x
        BY <3>2, <3>3
      <4>2. q[F] = -(x + 1)
        BY <3>1, <3>2, <3>3 DEF Carried
      <4> QED BY <3>1, <3>2, <4>1, <4>2 DEF Carried
    <3>4. CASE x # y
      <4>1. a # b
        BY <3>2, <3>4
      <4>2. q[F] + 1 \in FacesOf(C) /\ {C.lower[q[F] + 1], C.upper[q[F] + 1]} = {x, y}
        BY <3>1, <3>2, <3>4 DEF Carried
      <4>3. r[f] + 1 \in FacesOf(C) /\ {C.lower[r[f] + 1], C.upper[r[f] + 1]} = {a, b}
        BY <3>2, <4>2
      <4> QED BY <3>1, <4>1, <4>3 DEF Carried
    <3> QED BY <3>3, <3>4
  <2> QED BY <2>1, <2>2
<1>7. r \in [FacesOf(A) -> Int]
  <2>1. \A f \in FacesOf(A) : r[f] \in Int
    BY <1>4, <1>5
  <2> QED BY <2>1 DEF r
<1>8. ASSUME NEW K, K \subseteq FacesOf(B), NEW v, NEW g, \A f \in FacesOf(A) : g[f] \in Int,
             \A F \in FacesOf(B) : v[F] = SumOf(g, OnFace(A, p, F))
      PROVE  SumOf(v, K) = SumOf(g, {f \in FacesOf(A) : p[f] + 1 \in K})
  <2>1. IsFiniteSet(K)
    BY <1>2, <1>8, FS_Subset
  <2>2. \A F \in K : v[F] = SumOf(g, {f \in FacesOf(A) : p[f] + 1 = F})
    BY <1>8 DEF OnFace
  <2>3. IsFiniteSet(FacesOf(A))
    BY <1>2
  <2> QED BY <1>8, <2>1, <2>2, <2>3, FacesCompose
<1>9. ASSUME NEW F \in FacesOf(C)
      PROVE  C.coeff[F] = SumOf(A.coeff, OnFace(A, r, F)) /\ wc[F] = SumOf(wa, OnFace(A, r, F))
  <2> DEFINE K == OnFace(B, q, F)
  <2>1. {f \in FacesOf(A) : p[f] + 1 \in K} = OnFace(A, r, F)
    <3>1. ASSUME NEW f \in FacesOf(A) PROVE p[f] + 1 \in K <=> r[f] + 1 = F
      <4>1. CASE h[A.lower[f]] = h[A.upper[f]]
        BY <1>4, <4>1 DEF OnFace
      <4>2. CASE h[A.lower[f]] # h[A.upper[f]]
        BY <1>5, <4>2 DEF OnFace
      <4> QED BY <4>1, <4>2
    <3> QED BY <3>1 DEF OnFace
  <2>2. C.coeff[F] = SumOf(B.coeff, K) /\ wc[F] = SumOf(wb, K)
    BY DEF ProductOf
  <2>3. K \subseteq FacesOf(B)
    BY DEF OnFace
  <2>4. /\ \A G \in FacesOf(B) : B.coeff[G] = SumOf(A.coeff, OnFace(A, p, G))
        /\ \A G \in FacesOf(B) : wb[G] = SumOf(wa, OnFace(A, p, G))
    BY DEF ProductOf
  <2> HIDE DEF K
  <2>5. SumOf(B.coeff, K) = SumOf(A.coeff, OnFace(A, r, F))
    BY <1>2, <1>8, <2>1, <2>3, <2>4
  <2>6. SumOf(wb, K) = SumOf(wa, OnFace(A, r, F))
    BY <1>8, <2>1, <2>3, <2>4
  <2> QED BY <2>2, <2>5, <2>6
<1>10. ASSUME NEW c \in CellsOf(C)
       PROVE  C.diag[c] = SumOf(A.diag, HeldBy(A, i, c)) + 2 * SumOf(A.coeff, Inside(A, i, c))
  <2> DEFINE E == HeldBy(B, j, c)
             K == Inside(B, j, c)
             inner == {f \in FacesOf(A) : h[A.lower[f]] = h[A.upper[f]]}
             key == [f \in inner |-> h[A.lower[f]]]
             old == {f \in inner : key[f] \in E}
             fresh == {f \in FacesOf(A) : p[f] + 1 \in K}
             D == [e \in E |-> SumOf(A.diag, HeldBy(A, h, e))]
             I == [e \in E |-> SumOf(A.coeff, Inside(A, h, e))]
             II == [e \in E |-> I[e] + I[e]]
  <2>1. C.diag[c] = SumOf(B.diag, E) + 2 * SumOf(B.coeff, K)
    BY DEF ProductOf
  <2>2. E \subseteq CellsOf(B) /\ K \subseteq FacesOf(B) /\ IsFiniteSet(E)
    <3>1. E \in SUBSET CellsOf(B) /\ K \subseteq FacesOf(B)
      BY DEF HeldBy, Inside
    <3> QED BY <1>2, <3>1, FS_Subset
  <2>3. SumOf(B.coeff, K) = SumOf(A.coeff, fresh)
    <3>1. \A G \in FacesOf(B) : B.coeff[G] = SumOf(A.coeff, OnFace(A, p, G))
      BY DEF ProductOf
    <3> HIDE DEF K
    <3> QED BY <1>2, <1>8, <2>2, <3>1
  <2>4. \A e \in E : D[e] \in Int /\ I[e] \in Int
    <3>1. ASSUME NEW e \in E PROVE D[e] \in Int
      <4>1. HeldBy(A, h, e) \in SUBSET CellsOf(A)
        BY DEF HeldBy
      <4>2. IsFiniteSet(HeldBy(A, h, e)) /\ \A x \in HeldBy(A, h, e) : A.diag[x] \in Int
        BY <1>2, <4>1, FS_Subset
      <4> QED BY <4>2, SumInt
    <3>2. ASSUME NEW e \in E PROVE I[e] \in Int
      <4>1. Inside(A, h, e) \in SUBSET FacesOf(A)
        BY DEF Inside
      <4>2. IsFiniteSet(Inside(A, h, e)) /\ \A x \in Inside(A, h, e) : A.coeff[x] \in Int
        BY <1>2, <4>1, FS_Subset
      <4> QED BY <4>2, SumInt
    <3> QED BY <3>1, <3>2
  <2>5. SumOf(B.diag, E) = SumOf(D, E) + (SumOf(I, E) + SumOf(I, E))
    <3>1. \A e \in E : B.diag[e] = D[e] + II[e] /\ II[e] = I[e] + I[e]
      <4>1. \A e \in E : B.diag[e] = D[e] + 2 * I[e]
        BY <2>2 DEF ProductOf
      <4>2. \A e \in E : II[e] = I[e] + I[e]
        OBVIOUS
      <4> HIDE DEF D, I, II, E
      <4> QED BY <2>4, <4>1, <4>2
    <3>2. \A e \in E : II[e] \in Int
      BY <2>4
    <3> HIDE DEF D, I, II, E
    <3>3. SumOf(B.diag, E) = SumOf(D, E) + SumOf(II, E)
      BY <2>2, <2>4, <3>1, <3>2, SumPlus
    <3>4. SumOf(II, E) = SumOf(I, E) + SumOf(I, E)
      BY <2>2, <2>4, <3>1, SumPlus
    <3> QED BY <3>3, <3>4
  <2>6. SumOf(D, E) = SumOf(A.diag, HeldBy(A, i, c))
    <3>1. \A e \in E : D[e] = SumOf(A.diag, Group(CellsOf(A), h, e))
      BY DEF HeldBy, Group
    <3>2. HeldBy(A, i, c) = Groups(CellsOf(A), h, E)
      <4>1. \A d \in CellsOf(A) : h[d] \in CellsOf(B) /\ i[d] = j[h[d]]
        BY <1>1, <1>3
      <4> QED BY <4>1 DEF HeldBy, Groups
    <3> HIDE DEF D, E
    <3>3. SumOf(A.diag, Groups(CellsOf(A), h, E)) = SumOf(D, E)
      BY <1>2, <2>2, <3>1, SumGroups
    <3> QED BY <3>2, <3>3
  <2>7. IsFiniteSet(inner) /\ \A f \in inner : A.coeff[f] \in Int
    <3>1. inner \in SUBSET FacesOf(A)
      OBVIOUS
    <3> HIDE DEF inner
    <3> QED BY <1>2, <3>1, FS_Subset
  <2>8. SumOf(I, E) = SumOf(A.coeff, old)
    <3>1. \A e \in E : I[e] = SumOf(A.coeff, Group(inner, key, e))
      <4>1. \A e : Inside(A, h, e) = Group(inner, key, e)
        BY DEF Inside, Group
      <4> HIDE DEF inner, key, E
      <4> QED BY <4>1
    <3>2. old = Groups(inner, key, E)
      BY DEF Groups
    <3> HIDE DEF I, E, key, inner, old
    <3>3. SumOf(A.coeff, Groups(inner, key, E)) = SumOf(I, E)
      BY <2>2, <2>7, <3>1, SumGroups
    <3> QED BY <3>2, <3>3
  <2>9. old \cup fresh = Inside(A, i, c) /\ old \cap fresh = {}
    <3>1. ASSUME NEW f \in FacesOf(A), h[A.lower[f]] = h[A.upper[f]]
          PROVE  f \notin fresh /\ (f \in old <=> f \in Inside(A, i, c))
      <4>1. f \notin fresh
        BY <1>4, <2>2, <3>1
      <4>2. h[A.lower[f]] \in CellsOf(B) /\ i[A.lower[f]] = j[h[A.lower[f]]] /\ i[A.lower[f]] = i[A.upper[f]]
        BY <1>1, <1>2, <1>3, <3>1
      <4> QED BY <3>1, <4>1, <4>2 DEF HeldBy, Inside
    <3>2. ASSUME NEW f \in FacesOf(A), h[A.lower[f]] # h[A.upper[f]]
          PROVE  f \notin old /\ (f \in fresh <=> f \in Inside(A, i, c))
      <4>1. PICK F : F = p[f] + 1
        OBVIOUS
      <4>2. F \in FacesOf(B) /\ {j[B.lower[F]], j[B.upper[F]]} = {i[A.lower[f]], i[A.upper[f]]}
        BY <1>5, <3>2, <4>1
      <4>3. f \in fresh <=> j[B.lower[F]] = c /\ j[B.upper[F]] = c
        BY <4>1, <4>2 DEF Inside
      <4>4. f \in Inside(A, i, c) <=> i[A.lower[f]] = c /\ i[A.upper[f]] = c
        BY DEF Inside
      <4>5. f \notin old
        BY <3>2
      <4> HIDE DEF fresh, old
      <4> QED BY <4>2, <4>3, <4>4, <4>5
    <3>3. old \subseteq FacesOf(A) /\ fresh \subseteq FacesOf(A) /\ Inside(A, i, c) \subseteq FacesOf(A)
      BY DEF Inside
    <3> HIDE DEF old, fresh
    <3> QED BY <3>1, <3>2, <3>3
  <2>10. /\ IsFiniteSet(old) /\ IsFiniteSet(fresh)
         /\ \A f \in old \cup fresh : A.coeff[f] \in Int
    <3>1. old \in SUBSET FacesOf(A) /\ fresh \in SUBSET FacesOf(A)
      OBVIOUS
    <3> HIDE DEF old, fresh
    <3> QED BY <1>2, <3>1, FS_Subset
  <2> HIDE DEF E, K, inner, key, old, fresh, D, I, II
  <2>11. SumOf(A.coeff, Inside(A, i, c)) = SumOf(A.coeff, old) + SumOf(A.coeff, fresh)
    BY <2>9, <2>10, SumUnion
  <2>12. SumOf(A.coeff, old) \in Int /\ SumOf(A.coeff, fresh) \in Int
    BY <2>10, SumInt
  <2>13. SumOf(D, E) \in Int
    BY <2>2, <2>4, SumInt
  <2> QED BY <2>1, <2>3, <2>5, <2>6, <2>8, <2>11, <2>12, <2>13
<1>11. ProductOf(A, wa, C, wc, i, r)
  BY <1>3, <1>6, <1>7, <1>9, <1>10 DEF ProductOf
<1> QED BY <1>11 DEF i, Composed

-----------------------------------------------------------------------------
(* Holder: the cells of the finest matrix followed through the levels.     *)

\* the cell of level k that holds c, from the one of level k - 1
ChainStep(at, D, lv, k) ==
  [c \in D |-> IF k = 0 THEN c ELSE lv[k].fineToCoarse[at[k - 1][c]]]
IsChain(at, D, lv, n) == at = [k \in 0 .. n |-> ChainStep(at, D, lv, k)]

\* Holder, of a given finest matrix and given levels
HolderOf(m, lv) == (CHOOSE at : IsChain(at, CellsOf(m), lv, Len(lv)))[Len(lv)]

\* The recursion that Holder is defined by has a solution, for any number of
\* levels: the levels are added one at a time.
LEMMA ChainExists ==
  ASSUME NEW D, NEW lv
  PROVE  \A n \in Nat : \E at : IsChain(at, D, lv, n)
<1> DEFINE good == {n \in Nat : \E at : IsChain(at, D, lv, n)}
<1>1. 0 \in good
  <2> DEFINE at == [k \in 0 .. 0 |-> [c \in D |-> c]]
  <2>1. \A k \in 0 .. 0 : \A f : ChainStep(f, D, lv, k) = [c \in D |-> c]
    BY DEF ChainStep
  <2>2. IsChain(at, D, lv, 0)
    BY <2>1 DEF IsChain
  <2> HIDE DEF at
  <2> QED BY <2>2
<1>2. ASSUME NEW n \in Nat, n \in good PROVE n + 1 \in good
  <2>1. PICK at : IsChain(at, D, lv, n)
    BY <1>2
  <2> DEFINE Of(f, k) == ChainStep(f, D, lv, k)
             bt == [k \in 0 .. n + 1 |-> Of(at, k)]
  <2>2. \A k \in 0 .. n : at[k] = Of(at, k) /\ bt[k] = Of(at, k)
    BY <2>1 DEF IsChain
  <2>3. ASSUME NEW k \in 0 .. n + 1 PROVE Of(bt, k) = Of(at, k)
    <3>1. CASE k = 0
      BY <3>1 DEF ChainStep
    <3>2. CASE k # 0
      <4>1. k - 1 \in 0 .. n
        BY <3>2
      <4>2. bt[k - 1] = at[k - 1]
        BY <2>2, <4>1
      <4> HIDE DEF bt
      <4> QED BY <4>2 DEF ChainStep
    <3> QED BY <3>1, <3>2
  <2>4. bt = [k \in 0 .. n + 1 |-> Of(bt, k)]
    <3>1. bt = [k \in 0 .. n + 1 |-> Of(at, k)]
      OBVIOUS
    <3> HIDE DEF bt, Of
    <3> QED BY <2>3, <3>1
  <2>5. IsChain(bt, D, lv, n + 1)
    <3> HIDE DEF bt
    <3> QED BY <2>4 DEF IsChain
  <2> HIDE DEF bt
  <2> QED BY <2>5
<1> HIDE DEF good
<1>3. \A n \in Nat : n \in good
  BY <1>1, <1>2, NumberInduction
<1> QED BY <1>3 DEF good

\* the first n levels are the same
SameUpTo(lv, lw, n) == \A k \in 1 .. n : lv[k] = lw[k]

\* The cells of a level do not depend on the levels that come after it.
LEMMA ChainsAgree ==
  ASSUME NEW D, NEW lv, NEW lw, NEW n \in Nat, NEW m \in Nat, n <= m,
         NEW at, NEW bt, IsChain(at, D, lv, n), IsChain(bt, D, lw, m),
         SameUpTo(lv, lw, n)
  PROVE  \A k \in 0 .. n : at[k] = bt[k]
<1> DEFINE good == {k \in Nat : k <= n => at[k] = bt[k]}
<1>0. \A k \in 0 .. n :
        at[k] = ChainStep(at, D, lv, k) /\ bt[k] = ChainStep(bt, D, lw, k)
  <2>1. \A k \in 0 .. n : k \in 0 .. m
    OBVIOUS
  <2> QED BY <2>1 DEF IsChain
<1>1. 0 \in good
  <2>1. ChainStep(at, D, lv, 0) = ChainStep(bt, D, lw, 0)
    BY DEF ChainStep
  <2>2. 0 \in 0 .. n
    OBVIOUS
  <2> QED BY <1>0, <2>1, <2>2
<1>2. ASSUME NEW k \in Nat, k \in good PROVE k + 1 \in good
  <2> SUFFICES ASSUME k + 1 <= n PROVE at[k + 1] = bt[k + 1]
    OBVIOUS
  <2>1. k + 1 \in 0 .. n /\ k + 1 \in 1 .. n /\ k <= n /\ k + 1 # 0 /\ (k + 1) - 1 = k
    OBVIOUS
  <2>2. at[k] = bt[k]
    BY <1>2, <2>1
  <2>3. at[k + 1] = [c \in D |-> lv[k + 1].fineToCoarse[at[k][c]]]
    BY <1>0, <2>1 DEF ChainStep
  <2>4. bt[k + 1] = [c \in D |-> lw[k + 1].fineToCoarse[bt[k][c]]]
    BY <1>0, <2>1 DEF ChainStep
  <2>5. lv[k + 1] = lw[k + 1]
    BY <2>1 DEF SameUpTo
  <2> QED BY <2>2, <2>3, <2>4, <2>5
<1> HIDE DEF good
<1>3. \A k \in Nat : k \in good
  BY <1>1, <1>2, NumberInduction
<1> QED BY <1>3 DEF good

\* Holder solves its recursion.
LEMMA HolderChain ==
  ASSUME NEW m, NEW lv, Len(lv) \in Nat
  PROVE  \E at : IsChain(at, CellsOf(m), lv, Len(lv)) /\ HolderOf(m, lv) = at[Len(lv)]
BY ChainExists DEF HolderOf

\* Without a level every cell holds itself.
LEMMA HolderFirst ==
  ASSUME NEW m, NEW lv, Len(lv) = 0
  PROVE  HolderOf(m, lv) = [c \in CellsOf(m) |-> c]
<1>1. PICK at : IsChain(at, CellsOf(m), lv, Len(lv)) /\ HolderOf(m, lv) = at[Len(lv)]
  BY HolderChain
<1>2. 0 \in 0 .. Len(lv)
  OBVIOUS
<1> QED BY <1>1, <1>2 DEF IsChain, ChainStep

\* A new level maps the holders the old levels had.
LEMMA HolderAppended ==
  ASSUME NEW m, NEW lv, NEW lw, Len(lv) \in Nat, Len(lw) = Len(lv) + 1,
         \A k \in 1 .. Len(lv) : lw[k] = lv[k]
  PROVE  HolderOf(m, lw) = [c \in CellsOf(m) |-> lw[Len(lw)].fineToCoarse[HolderOf(m, lv)[c]]]
<1>1. PICK at : IsChain(at, CellsOf(m), lv, Len(lv)) /\ HolderOf(m, lv) = at[Len(lv)]
  BY HolderChain
<1>2. PICK bt : IsChain(bt, CellsOf(m), lw, Len(lw)) /\ HolderOf(m, lw) = bt[Len(lw)]
  BY HolderChain
<1>3. at[Len(lv)] = bt[Len(lv)]
  <2>1. PICK n, k : n = Len(lv) /\ k = Len(lw)
    OBVIOUS
  <2>2. n \in Nat /\ k \in Nat /\ n <= k /\ n \in 0 .. n
    BY <2>1
  <2>3. \A x \in 0 .. n : at[x] = bt[x]
    <3>1. PICK D : D = CellsOf(m)
      OBVIOUS
    <3>2. IsChain(at, D, lv, n) /\ IsChain(bt, D, lw, k)
      BY <1>1, <1>2, <2>1, <3>1
    <3>3. SameUpTo(lv, lw, n)
      BY <2>1 DEF SameUpTo
    <3> QED BY <2>2, <3>2, <3>3, ChainsAgree
  <2> QED BY <2>1, <2>2, <2>3
<1>4. bt[Len(lw)] = [c \in CellsOf(m) |-> lw[Len(lw)].fineToCoarse[bt[Len(lv)][c]]]
  <2>1. PICK n, k, D : n = Len(lv) /\ k = Len(lw) /\ D = CellsOf(m)
    OBVIOUS
  <2>2. n \in Nat /\ k = n + 1
    BY <2>1
  <2>3. k \in 0 .. k /\ k # 0 /\ k - 1 = n
    BY <2>2
  <2>4. bt[k] = ChainStep(bt, D, lw, k)
    BY <1>2, <2>1, <2>3 DEF IsChain
  <2>5. ChainStep(bt, D, lw, k) = [c \in D |-> lw[k].fineToCoarse[bt[n][c]]]
    BY <2>3, Zenon DEF ChainStep
  <2> QED BY <2>1, <2>4, <2>5
<1> QED BY <1>1, <1>2, <1>3, <1>4

\* Holder, now and in the next state.
LEMMA HolderIs == /\ Holder = HolderOf(matrices[1], levels)
                  /\ Holder' = HolderOf(matrices'[1], levels')
BY DEF Holder, HolderOf, IsChain, ChainStep, CellsOf

-----------------------------------------------------------------------------
(* Every matrix of the hierarchy is a product of the finest one.           *)

\* absolute values, which the weights of the finest faces are
AbsOn(s, D) == [f \in D |-> Abs(s[f])]
Magnitudes(m) == AbsOn(m.coeff, FacesOf(m))

\* the current matrix and its weights are a product of the finest matrix
IsProduct ==
  \E A, B, w, h, p :
    /\ A = matrices[1] /\ B = Current /\ w = faceWeights /\ h = Holder
    /\ ProductOf(A, Magnitudes(A), B, w, h, p)

\* The finest matrix is a product of itself.
LEMMA FirstProduct ==
  ASSUME NEW m, GoodMatrix(m)
  PROVE  ProductOf(m, Magnitudes(m), m, Magnitudes(m), [c \in CellsOf(m) |-> c], [f \in FacesOf(m) |-> f - 1])
<1> DEFINE h == [c \in CellsOf(m) |-> c]
           p == [f \in FacesOf(m) |-> f - 1]
<1>1. /\ FacesOf(m) \subseteq Nat
      /\ \A f \in FacesOf(m) : /\ m.lower[f] \in CellsOf(m) /\ m.upper[f] \in CellsOf(m)
                               /\ m.lower[f] # m.upper[f] /\ m.coeff[f] \in Int
      /\ \A c \in CellsOf(m) : m.diag[c] \in Int
  BY MatrixFacts
<1>2. /\ \A f \in FacesOf(m) : Magnitudes(m)[f] \in Int
  BY <1>1 DEF Magnitudes, AbsOn, Abs
<1>3. \A f \in FacesOf(m) : p[f] + 1 = f /\ p[f] \in Int
  BY <1>1
<1>4. h \in [CellsOf(m) -> CellsOf(m)] /\ p \in [FacesOf(m) -> Int]
  BY <1>3
<1>5. ASSUME NEW f \in FacesOf(m) PROVE Carried(m, m, h, p, f)
  BY <1>1, <1>3 DEF Carried
<1>6. ASSUME NEW F \in FacesOf(m)
      PROVE  /\ m.coeff[F] = SumOf(m.coeff, OnFace(m, p, F))
             /\ Magnitudes(m)[F] = SumOf(Magnitudes(m), OnFace(m, p, F))
  <2>1. OnFace(m, p, F) = {F}
    BY <1>3 DEF OnFace
  <2> QED BY <1>1, <1>2, <2>1, SumSingle
<1>7. ASSUME NEW c \in CellsOf(m)
      PROVE  m.diag[c] = SumOf(m.diag, HeldBy(m, h, c)) + 2 * SumOf(m.coeff, Inside(m, h, c))
  <2>1. HeldBy(m, h, c) = {c}
    BY DEF HeldBy
  <2>2. Inside(m, h, c) = {}
    BY <1>1 DEF Inside
  <2>3. SumOf(m.diag, {c}) = m.diag[c] /\ m.diag[c] \in Int
    BY <1>1, SumSingle
  <2>4. SumOf(m.coeff, {}) = 0
    BY SumEmpty
  <2> HIDE DEF h
  <2>5. SumOf(m.diag, HeldBy(m, h, c)) = m.diag[c] /\ SumOf(m.coeff, Inside(m, h, c)) = 0
    BY <2>1, <2>2, <2>3, <2>4
  <2> QED BY <2>3, <2>5
<1> HIDE DEF h, p
<1>8. ProductOf(m, Magnitudes(m), m, Magnitudes(m), h, p)
  BY <1>4, <1>5, <1>6, <1>7 DEF ProductOf
<1> QED BY <1>8 DEF h, p

\* agglomerateMatrix makes the product of the current matrix by the clusters.
LEMMA StepProduct ==
  ASSUME Hierarchy, Complete(Current, coarseCellMap, nCoarseCells)
  PROVE  ProductOf(Current, faceWeights, CoarseOne, CoarseWeights, coarseCellMap, FaceToCoarse)
<1>1. PICK m, map, n, fmap, M, w, W :
        /\ m = Current /\ map = coarseCellMap /\ n = nCoarseCells /\ fmap = FaceToCoarse
        /\ M = CoarseOne /\ w = faceWeights /\ W = CoarseWeights
  OBVIOUS
<1>2. /\ GoodMatrix(m) /\ GoodMatrix(M) /\ Complete(m, map, n)
      /\ FacesOf(M) = 1 .. NFaces /\ NFaces \in Nat /\ M.n = n
  BY <1>1, CurrentIsGood, CoarseOneGood, CoarseFaces, CoarseOneIs
<1>3. CellsOf(M) = 0 .. n - 1 /\ map \in [CellsOf(m) -> 0 .. n - 1] /\ DOMAIN fmap = FacesOf(m)
  BY <1>1, <1>2 DEF CellsOf, Complete, FaceToCoarse
<1>4. \A f \in FacesOf(m) :
        /\ map[m.lower[f]] \in 0 .. n - 1 /\ map[m.upper[f]] \in 0 .. n - 1
        /\ IF map[m.lower[f]] = map[m.upper[f]]
             THEN fmap[f] = -(map[m.lower[f]] + 1)
             ELSE \E k \in 1 .. NFaces :
                    /\ fmap[f] = k - 1
                    /\ {M.lower[k], M.upper[k]} = {map[m.lower[f]], map[m.upper[f]]}
  <2> SUFFICES ASSUME NEW f \in FacesOf(m)
               PROVE  /\ map[m.lower[f]] \in 0 .. n - 1 /\ map[m.upper[f]] \in 0 .. n - 1
                      /\ IF map[m.lower[f]] = map[m.upper[f]]
                           THEN fmap[f] = -(map[m.lower[f]] + 1)
                           ELSE \E k \in 1 .. NFaces :
                                  /\ fmap[f] = k - 1
                                  /\ {M.lower[k], M.upper[k]} = {map[m.lower[f]], map[m.upper[f]]}
    OBVIOUS
  <2>1. PICK x, y : x = map[m.lower[f]] /\ y = map[m.upper[f]]
    OBVIOUS
  <2>2. x = MappedLower(f) /\ y = MappedUpper(f) /\ x \in 0 .. n - 1 /\ y \in 0 .. n - 1
    <3>1. x = MappedLower(f) /\ y = MappedUpper(f)
      BY <1>1, <2>1 DEF MappedLower, MappedUpper
    <3> QED BY <1>1, <3>1, CoarseEnds
  <2>3. CASE x = y
    <3>1. f \notin Crossing
      BY <2>2, <2>3 DEF Crossing
    <3>2. fmap[f] = -(x + 1)
      BY <1>1, <2>2, <2>3, <3>1 DEF FaceToCoarse
    <3> QED BY <2>1, <2>2, <2>3, <3>2
  <2>4. CASE x # y
    <3>1. f \in Crossing
      BY <1>1, <2>2, <2>4 DEF Crossing
    <3>2. PICK k \in 1 .. NFaces : FaceToCoarse[f] = k - 1 /\ SameCoarseEnds(f, FaceAt(k))
      BY <3>1, CoarseFaces
    <3>3. M.lower[k] = AtMost(x, y) /\ M.upper[k] = AtLeast(x, y)
      BY <1>1, <2>2, <3>2, CoarseOneIs DEF SameCoarseEnds, CoarseOwner, CoarseNeighbour
    <3>4. {M.lower[k], M.upper[k]} = {x, y}
      BY <1>2, <2>2, <3>3 DEF AtMost, AtLeast
    <3> QED BY <1>1, <2>1, <2>2, <2>4, <3>2, <3>4
  <2> QED BY <2>3, <2>4
<1>5. ASSUME NEW f \in FacesOf(m) PROVE fmap[f] \in Int /\ Carried(m, M, map, fmap, f)
  <2>1. PICK x, y : x = map[m.lower[f]] /\ y = map[m.upper[f]] /\ x \in Int /\ y \in Int
    BY <1>4
  <2>2. CASE x = y
    <3>1. fmap[f] = -(x + 1)
      BY <1>4, <2>1, <2>2
    <3>2. Carried(m, M, map, fmap, f)
      BY <2>1, <2>2, <3>1 DEF Carried
    <3> QED BY <2>1, <3>1, <3>2
  <2>3. CASE x # y
    <3>1. PICK k \in 1 .. NFaces : fmap[f] = k - 1 /\ {M.lower[k], M.upper[k]} = {x, y}
      BY <1>4, <2>1, <2>3
    <3>2. fmap[f] + 1 = k /\ fmap[f] \in Int
      BY <1>2, <3>1
    <3>3. Carried(m, M, map, fmap, f)
      BY <1>2, <2>1, <2>3, <3>1, <3>2 DEF Carried
    <3> QED BY <3>2, <3>3
  <2> QED BY <2>2, <2>3
<1>6. fmap \in [FacesOf(m) -> Int]
  <2>1. fmap = [f \in FacesOf(m) |-> fmap[f]]
    BY <1>1 DEF FaceToCoarse
  <2> QED BY <1>5, <2>1
<1>7. ASSUME NEW F \in FacesOf(M)
      PROVE  M.coeff[F] = SumOf(m.coeff, OnFace(m, fmap, F)) /\ W[F] = SumOf(w, OnFace(m, fmap, F))
  <2>1. F \in 1 .. NFaces /\ F \in Int
    BY <1>2
  <2>2. {f \in DOMAIN fmap : fmap[f] = F - 1} = OnFace(m, fmap, F)
    <3>1. \A f \in FacesOf(m) : fmap[f] = F - 1 <=> fmap[f] + 1 = F
      <4>1. \A x \in Int : x = F - 1 <=> x + 1 = F
        BY <2>1
      <4> QED BY <1>5, <4>1
    <3> QED BY <1>3, <3>1 DEF OnFace
  <2>3. /\ M.coeff[F] = Collected(m.coeff, fmap, F - 1)
        /\ W[F] = Collected(w, fmap, F - 1)
    BY <1>1, <2>1, CoarseOneIs
  <2> QED BY <2>2, <2>3, CollectedSum
<1>8. ASSUME NEW c \in CellsOf(M)
      PROVE  M.diag[c] = SumOf(m.diag, HeldBy(m, map, c)) + 2 * SumOf(m.coeff, Inside(m, map, c))
  <2>1. M.diag[c] = Collected(m.diag, map, c) + 2 * Collected(m.coeff, fmap, -(c + 1))
    BY <1>1, <1>3, CoarseOneIs
  <2>2. {d \in DOMAIN map : map[d] = c} = HeldBy(m, map, c)
    BY <1>3 DEF HeldBy
  <2>3. \A f \in FacesOf(m) : fmap[f] = -(c + 1) <=> map[m.lower[f]] = c /\ map[m.upper[f]] = c
    <3> SUFFICES ASSUME NEW f \in FacesOf(m)
                 PROVE  fmap[f] = -(c + 1) <=> map[m.lower[f]] = c /\ map[m.upper[f]] = c
      OBVIOUS
    <3>1. PICK x, y : x = map[m.lower[f]] /\ y = map[m.upper[f]] /\ x \in 0 .. n - 1 /\ y \in 0 .. n - 1
      BY <1>4
    <3>2. c \in Int /\ c >= 0 /\ x \in Int /\ y \in Int
      BY <1>3, <3>1
    <3>3. CASE x = y
      <4>1. fmap[f] = -(x + 1)
        BY <1>4, <3>1, <3>3
      <4> QED BY <3>1, <3>2, <3>3, <4>1
    <3>4. CASE x # y
      <4>1. PICK k \in 1 .. NFaces : fmap[f] = k - 1
        BY <1>4, <3>1, <3>4
      <4>2. fmap[f] # -(c + 1)
        BY <1>2, <3>2, <4>1
      <4> QED BY <3>1, <3>4, <4>2
    <3> QED BY <3>3, <3>4
  <2>4. {f \in DOMAIN fmap : fmap[f] = -(c + 1)} = Inside(m, map, c)
    BY <1>3, <2>3 DEF Inside
  <2> QED BY <2>1, <2>2, <2>4, CollectedSum
<1>9. ProductOf(m, w, M, W, map, fmap)
  BY <1>3, <1>5, <1>6, <1>7, <1>8 DEF ProductOf
<1> QED BY <1>1, <1>9

\* the sum of absolute values, as Galerkin has it
SumAbs(s, S) == MapThenSumSet(LAMBDA f : Abs(s[f]), S)

\* Absolute values may be taken before they are added up.
LEMMA SumOfMagnitudes ==
  ASSUME NEW s, NEW D, NEW S \in SUBSET D, IsFiniteSet(S)
  PROVE  SumAbs(s, S) = SumOf(AbsOn(s, D), S)
<1> DEFINE g == [f \in D |-> Abs(s[f])]
           Magnitude(T) == Abs(s[First(T)])
           it == CHOOSE i : i = [T \in SUBSET S |-> IF T = {} THEN 0 ELSE Magnitude(T) + i[T \ {First(T)}]]
           jt == CHOOSE i : AreSums(i, g, S)
<1>1. SumAbs(s, S) = it[S]
  BY DEF SumAbs, MapThenSumSet, MapThenFoldSet, First
<1>2. SumOf(g, S) = jt[S]
  BY SumUnfolds
<1>3. AreSums(jt, g, S)
  BY SumsExist
<1>4. \A T \in SUBSET S : T # {} => g[First(T)] = Magnitude(T)
  BY FirstOf
<1>5. \A i : \A T \in SUBSET S :
        SumFrom(g, i, T) = IF T = {} THEN 0 ELSE Magnitude(T) + i[T \ {First(T)}]
  <2> HIDE DEF g, Magnitude
  <2> QED BY <1>4 DEF SumFrom
<1>6. \A i : AreSums(i, g, S)
               <=> i = [T \in SUBSET S |-> IF T = {} THEN 0 ELSE Magnitude(T) + i[T \ {First(T)}]]
  <2> HIDE DEF g, Magnitude
  <2> QED BY <1>5 DEF AreSums
<1>7. \E i : i = [T \in SUBSET S |-> IF T = {} THEN 0 ELSE Magnitude(T) + i[T \ {First(T)}]]
  <2> HIDE DEF g, Magnitude
  <2> QED BY <1>3, <1>6
<1>8. it = [T \in SUBSET S |-> IF T = {} THEN 0 ELSE Magnitude(T) + it[T \ {First(T)}]]
  <2> HIDE DEF Magnitude
  <2> QED BY <1>7
<1>9. AreSums(it, g, S)
  <2> HIDE DEF it, g, Magnitude
  <2> QED BY <1>6, <1>8
<1>10. it[S] = jt[S]
  <2> HIDE DEF it, jt, g
  <2> QED BY <1>3, <1>9, SumsAgree
<1>11. SumAbs(s, S) = SumOf(g, S)
  BY <1>1, <1>2, <1>10
<1> QED BY <1>11 DEF AbsOn

\* At first the only matrix is the finest one.
LEMMA ProductInit ==
  ASSUME Init
  PROVE  IsProduct
<1>1. PICK m \in Matrices : matrices = <<m>> /\ faceWeights = [f \in FacesOf(m) |-> Abs(m.coeff[f])]
  BY DEF Init
<1>2. GoodMatrix(m)
  BY MatricesAssumption DEF GoodMatrix
<1>3. matrices[1] = m /\ Current = m /\ faceWeights = Magnitudes(m) /\ Len(levels) = 0
  BY <1>1 DEF Init, Current, Magnitudes, AbsOn
<1>4. Holder = [c \in CellsOf(m) |-> c]
  BY <1>3, HolderIs, HolderFirst
<1> QED BY <1>2, <1>3, <1>4, FirstProduct DEF IsProduct

\* A new level is a product of the finest matrix, by the composed maps.
LEMMA ProductNext ==
  ASSUME IInv, IsProduct, Coarsen
  PROVE  IsProduct'
<1>1. PICK A, wa, B, wb, C, wc, h, j, q :
        /\ A = matrices[1] /\ wa = Magnitudes(A) /\ B = Current /\ wb = faceWeights
        /\ C = CoarseOne /\ wc = CoarseWeights /\ h = Holder /\ j = coarseCellMap /\ q = FaceToCoarse
  OBVIOUS
<1>2. PICK p : ProductOf(A, wa, B, wb, h, p)
  BY <1>1 DEF IsProduct
<1>3. Hierarchy /\ Complete(Current, coarseCellMap, nCoarseCells)
  BY NewLevel
<1>4. ProductOf(B, wb, C, wc, j, q) /\ GoodMatrix(B) /\ GoodMatrix(C)
  BY <1>1, <1>3, StepProduct, CurrentIsGood, CoarseOneGood
<1>5. GoodMatrix(A) /\ 1 \in 1 .. Len(matrices)
  <2>1. Len(matrices) \in Nat /\ Len(matrices) >= 1
    BY <1>3, NewLevel
  <2> QED BY <1>1, <1>3, <2>1 DEF Hierarchy
<1>6. \A f \in FacesOf(A) : wa[f] \in Int
  BY <1>1, <1>5, MatrixFacts DEF Magnitudes, AbsOn, Abs
<1>7. PICK r : ProductOf(A, wa, C, wc, Composed(A, h, j), r)
  BY <1>2, <1>4, <1>5, <1>6, ProductsCompose
<1>8. /\ matrices'[1] = A /\ Current' = C /\ faceWeights' = wc
      /\ Len(levels) \in Nat /\ Len(levels') = Len(levels) + 1
      /\ \A k \in 1 .. Len(levels) : levels'[k] = levels[k]
      /\ levels'[Len(levels')].fineToCoarse = j
  BY <1>1, <1>5, NewLevel DEF Made
<1>9. Holder' = Composed(A, h, j)
  <2>1. PICK lv, lw : lv = levels /\ lw = levels'
    OBVIOUS
  <2>2. h = HolderOf(A, lv) /\ Holder' = HolderOf(A, lw)
    BY <1>1, <1>8, <2>1, HolderIs
  <2>3. HolderOf(A, lw) = [c \in CellsOf(A) |-> lw[Len(lw)].fineToCoarse[HolderOf(A, lv)[c]]]
    BY <1>8, <2>1, HolderAppended
  <2> QED BY <1>8, <2>1, <2>2, <2>3 DEF Composed
<1>10. PICK i : i = Composed(A, h, j)
  OBVIOUS
<1>11. /\ A = matrices'[1] /\ C = Current' /\ wc = faceWeights' /\ i = Holder'
       /\ ProductOf(A, Magnitudes(A), C, wc, i, r)
  BY <1>1, <1>7, <1>8, <1>9, <1>10
<1> QED BY <1>11 DEF IsProduct

\* Nothing else touches the matrices.
LEMMA ProductStays ==
  ASSUME IsProduct, UNCHANGED hierarchy
  PROVE  IsProduct'
<1>1. matrices' = matrices /\ levels' = levels /\ faceWeights' = faceWeights /\ Current' = Current
  BY DEF hierarchy, Current
<1>2. Holder' = Holder
  BY <1>1, HolderIs
<1> QED BY <1>1, <1>2 DEF IsProduct

-----------------------------------------------------------------------------
(* What a product says of the entries of the matrix.                       *)

\* What Galerkin says, of given matrices.
GalerkinOf(finest, current, w, holder) ==
  LET held(c) == {d \in CellsOf(finest) : holder[d] = c}
      coeff(f) == finest.coeff[f]
      between(X, Y) == {f \in FacesOf(finest) : \/ finest.lower[f] \in X /\ finest.upper[f] \in Y
                                                \/ finest.lower[f] \in Y /\ finest.upper[f] \in X}
  IN  /\ \A c \in CellsOf(current) :
           current.diag[c] = SumOver(LAMBDA d : finest.diag[d], held(c))
                               + 2 * SumOver(coeff, between(held(c), held(c)))
      /\ \A F \in FacesOf(current) :
           LET faces == between(held(current.lower[F]), held(current.upper[F]))
           IN  /\ current.coeff[F] = SumOver(coeff, faces)
               /\ w[F] = SumOver(LAMBDA f : Abs(finest.coeff[f]), faces)
      /\ \A c, d \in CellsOf(current) :
           c < d /\ between(held(c), held(d)) # {} =>
             \E F \in FacesOf(current) :
               current.lower[F] = c /\ current.upper[F] = d

\* Galerkin, of the matrices of the hierarchy.
LEMMA GalerkinIs == Galerkin <=> (phase = "level" => GalerkinOf(matrices[1], Current, faceWeights, Holder))
BY DEF Galerkin, GalerkinOf, Between

\* The face map of a product sends a fine face to the one coarse face between the
\* clusters of its ends, so the faces a coarse face collects are all those between
\* them.
LEMMA ProductIsGalerkin ==
  ASSUME NEW A, GoodMatrix(A), NEW B, GoodMatrix(B), NEW w, NEW h, NEW p,
         ProductOf(A, Magnitudes(A), B, w, h, p),
         \A F, G \in FacesOf(B) : F # G => <<B.lower[F], B.upper[F]>> # <<B.lower[G], B.upper[G]>>
  PROVE  GalerkinOf(A, B, w, h)
<1> DEFINE held(c) == {d \in CellsOf(A) : h[d] = c}
           between(X, Y) == {f \in FacesOf(A) : \/ A.lower[f] \in X /\ A.upper[f] \in Y
                                                \/ A.lower[f] \in Y /\ A.upper[f] \in X}
<1>5. /\ h \in [CellsOf(A) -> CellsOf(B)] /\ CellsOf(B) \subseteq Nat
      /\ \A f \in FacesOf(A) : A.lower[f] \in CellsOf(A) /\ A.upper[f] \in CellsOf(A)
      /\ \A F \in FacesOf(B) : /\ B.lower[F] \in CellsOf(B) /\ B.upper[F] \in CellsOf(B)
                               /\ B.lower[F] < B.upper[F]
      /\ \A f \in FacesOf(A) : Carried(A, B, h, p, f)
  BY MatrixFacts DEF ProductOf
<1>6. \A c, d : between(held(c), held(d)) =
        {f \in FacesOf(A) : \/ h[A.lower[f]] = c /\ h[A.upper[f]] = d
                            \/ h[A.lower[f]] = d /\ h[A.upper[f]] = c}
  BY <1>5
<1>7. ASSUME NEW F \in FacesOf(B)
      PROVE  between(held(B.lower[F]), held(B.upper[F])) = OnFace(A, p, F)
  <2>1. PICK c, d : c = B.lower[F] /\ d = B.upper[F]
    OBVIOUS
  <2>2. c # d /\ c \in CellsOf(B) /\ d \in CellsOf(B)
    BY <1>5, <2>1
  <2>3. ASSUME NEW f \in FacesOf(A)
        PROVE  (\/ h[A.lower[f]] = c /\ h[A.upper[f]] = d
                \/ h[A.lower[f]] = d /\ h[A.upper[f]] = c) <=> p[f] + 1 = F
    <3>1. PICK x, y, G : x = h[A.lower[f]] /\ y = h[A.upper[f]] /\ G = p[f] + 1
      OBVIOUS
    <3>2. CASE x = y
      <4>1. p[f] = -(x + 1) /\ x \in Nat
        BY <1>5, <3>1, <3>2 DEF Carried
      <4>2. F \in Nat /\ F >= 1
        BY MatrixFacts DEF FacesOf
      <4>3. G # F
        BY <3>1, <4>1, <4>2
      <4> QED BY <2>2, <3>1, <3>2, <4>3
    <3>3. CASE x # y
      <4>1. G \in FacesOf(B) /\ {B.lower[G], B.upper[G]} = {x, y}
        BY <1>5, <3>1, <3>3 DEF Carried
      <4>2. B.lower[G] < B.upper[G] /\ c < d
        BY <1>5, <2>1, <4>1
      <4>3. ASSUME {x, y} = {c, d} PROVE G = F
        <5>1. B.lower[G] = c /\ B.upper[G] = d
          <6>1. {B.lower[G], B.upper[G]} = {c, d}
            BY <4>1, <4>3
          <6>2. B.lower[G] \in Nat /\ B.upper[G] \in Nat /\ c \in Nat /\ d \in Nat
            BY <1>5, <2>2, <4>1
          <6> QED BY <4>2, <6>1, <6>2
        <5> QED BY <2>1, <4>1, <5>1
      <4>4. G = F => {x, y} = {c, d}
        BY <2>1, <4>1
      <4> QED BY <3>1, <4>3, <4>4
    <3> QED BY <3>2, <3>3
  <2> QED BY <1>6, <2>1, <2>3 DEF OnFace
<1>8. \A c : between(held(c), held(c)) = Inside(A, h, c)
  BY <1>6 DEF Inside
<1>9. ASSUME NEW c \in CellsOf(B), NEW d \in CellsOf(B), c < d,
             between(held(c), held(d)) # {}
      PROVE  \E F \in FacesOf(B) : B.lower[F] = c /\ B.upper[F] = d
  <2>1. PICK f \in FacesOf(A) : \/ h[A.lower[f]] = c /\ h[A.upper[f]] = d
                                \/ h[A.lower[f]] = d /\ h[A.upper[f]] = c
    BY <1>6, <1>9
  <2>2. c \in Nat /\ d \in Nat /\ c # d
    BY <1>5, <1>9
  <2>3. PICK F \in FacesOf(B) : {B.lower[F], B.upper[F]} = {c, d}
    <3>1. PICK G : G = p[f] + 1
      OBVIOUS
    <3>2. Carried(A, B, h, p, f)
      BY <1>5
    <3>3. G \in FacesOf(B) /\ {B.lower[G], B.upper[G]} = {h[A.lower[f]], h[A.upper[f]]}
      BY <2>1, <2>2, <3>1, <3>2 DEF Carried
    <3>4. {h[A.lower[f]], h[A.upper[f]]} = {c, d}
      BY <2>1
    <3> QED BY <3>3, <3>4
  <2>4. B.lower[F] < B.upper[F] /\ B.lower[F] \in Nat /\ B.upper[F] \in Nat
    BY <1>5
  <2>5. B.lower[F] = c /\ B.upper[F] = d
    BY <1>9, <2>2, <2>3, <2>4
  <2> QED BY <2>5
<1>10. ASSUME NEW F \in FacesOf(B)
       PROVE  LET faces == between(held(B.lower[F]), held(B.upper[F]))
              IN  /\ B.coeff[F] = SumOver(LAMBDA f : A.coeff[f], faces)
                  /\ w[F] = SumOver(LAMBDA f : Abs(A.coeff[f]), faces)
  <2>1. PICK S, s : S = OnFace(A, p, F) /\ s = A.coeff
    OBVIOUS
  <2>2. B.coeff[F] = SumOf(s, S) /\ w[F] = SumOf(AbsOn(s, FacesOf(A)), S)
    BY <2>1 DEF ProductOf, Magnitudes
  <2>3. S \in SUBSET FacesOf(A) /\ IsFiniteSet(S)
    <3>1. S \in SUBSET FacesOf(A)
      BY <2>1 DEF OnFace
    <3> QED BY <3>1, MatrixFacts, FS_Subset
  <2>4. w[F] = SumAbs(s, S)
    BY <2>2, <2>3, SumOfMagnitudes
  <2>5. S = between(held(B.lower[F]), held(B.upper[F]))
    BY <1>7, <2>1
  <2>6. B.coeff[F] = SumOf(A.coeff, S) /\ w[F] = SumAbs(A.coeff, S)
    BY <2>1, <2>2, <2>4
  <2> HIDE DEF between, held
  <2> QED BY <2>5, <2>6 DEF SumOver, SumOf, SumAbs
<1>11. ASSUME NEW c \in CellsOf(B)
       PROVE  B.diag[c] = SumOver(LAMBDA d : A.diag[d], held(c))
                            + 2 * SumOver(LAMBDA f : A.coeff[f], between(held(c), held(c)))
  <2>1. B.diag[c] = SumOf(A.diag, HeldBy(A, h, c)) + 2 * SumOf(A.coeff, Inside(A, h, c))
    BY DEF ProductOf
  <2>2. held(c) = HeldBy(A, h, c) /\ between(held(c), held(c)) = Inside(A, h, c)
    BY <1>8 DEF HeldBy
  <2>3. PICK X, Y : X = held(c) /\ Y = between(held(c), held(c))
    OBVIOUS
  <2>4. B.diag[c] = SumOf(A.diag, X) + 2 * SumOf(A.coeff, Y)
    BY <2>1, <2>2, <2>3
  <2> HIDE DEF between, held
  <2> QED BY <2>3, <2>4 DEF SumOver, SumOf
<1> QED BY <1>9, <1>10, <1>11 DEF GalerkinOf

\* A matrix that is a product of the finest one satisfies the property.
LEMMA LevelIsGalerkin ==
  ASSUME IInv, IsProduct
  PROVE  Galerkin
<1> SUFFICES ASSUME phase = "level" PROVE GalerkinOf(matrices[1], Current, faceWeights, Holder)
  BY GalerkinIs
<1>1. PICK A, B, w, h, p :
        /\ A = matrices[1] /\ B = Current /\ w = faceWeights /\ h = Holder
        /\ ProductOf(A, Magnitudes(A), B, w, h, p)
  BY DEF IsProduct
<1>2. GoodMatrix(A) /\ GoodMatrix(B)
  <2>1. Hierarchy
    BY DEF IInv
  <2>2. 1 \in 1 .. Len(matrices)
    BY <2>1, LenProperties DEF Hierarchy
  <2> QED BY <1>1, <2>1, <2>2, CurrentIsGood DEF Hierarchy
<1>3. \A F, G \in FacesOf(B) : F # G => <<B.lower[F], B.upper[F]>> # <<B.lower[G], B.upper[G]>>
  BY <1>1 DEF IInv, CoarseMatricesSound
<1>4. GalerkinOf(A, B, w, h)
  BY <1>1, <1>2, <1>3, ProductIsGalerkin
<1> QED BY <1>1, <1>4

\* Over all levels the coarse matrix is the Galerkin product of the finest one,
\* and the weights of its faces are the sums of absolute values.
THEOREM GalerkinProducts == Spec => []Galerkin
<1>1. Init => IInv /\ IsProduct
  BY IInvInit, ProductInit
<1>2. IInv /\ IsProduct /\ [Next]_vars => IInv' /\ IsProduct'
  <2> SUFFICES ASSUME IInv, IsProduct, [Next]_vars PROVE IInv' /\ IsProduct'
    OBVIOUS
  <2>1. IInv'
    BY IInvNext, IInvStays
  <2>2. Coarsen \/ UNCHANGED hierarchy
    BY DEF Next, vars, RejectControls, BeginLevel, PassOver, Pair, JoinCluster, Visiting,
           FinishPairing, StopCoarsening, Finish, NoCoarseLevel
  <2> QED BY <2>1, <2>2, ProductNext, ProductStays
<1>3. IInv /\ IsProduct => Galerkin
  BY LevelIsGalerkin
<1> QED BY <1>1, <1>2, <1>3, PTL DEF Spec

-----------------------------------------------------------------------------
(* Numbers modulo P.                                                       *)

\* Division with remainder by P.
LEMMA Remainder ==
  /\ P \in Nat /\ P > 1
  /\ \A a \in Int : a % P \in Value /\ a % P \in Int /\ 0 <= a % P /\ a % P < P
  /\ \A a \in Int : \E q \in Int : \E s \in Int : s = q * P /\ a = s + (a % P)
<1>1. P \in Nat /\ P > 1
  BY PrimeAssumption
<1>2. \A a \in Int : a % P \in Value /\ a % P \in Int /\ 0 <= a % P /\ a % P < P
  BY <1>1 DEF Value
<1>3. ASSUME NEW a \in Int PROVE \E q \in Int : \E s \in Int : s = q * P /\ a = s + (a % P)
  <2>1. a \div P \in Int /\ (a \div P) * P \in Int /\ a = (a \div P) * P + (a % P)
    BY <1>1
  <2> QED BY <2>1
<1> QED BY <1>1, <1>2, <1>3

\* Multiples of P, added up.
LEMMA Multiples ==
  ASSUME NEW q \in Int, NEW r \in Int
  PROVE  /\ q * P \in Int /\ r * P \in Int /\ (q + r) * P = q * P + r * P
         /\ (q - r) * P = q * P - r * P
BY PrimeAssumption

\* a multiple of P apart
Congruent(a, b) == \E k \in Int : a - b = k * P

\* Numbers a multiple of P apart leave the same remainder.
LEMMA SameRemainder ==
  ASSUME NEW a \in Int, NEW b \in Int, Congruent(a, b)
  PROVE  a % P = b % P
<1>0. PICK k \in Int : a - b = k * P
  BY DEF Congruent
<1>1. PICK u, v : u = a % P /\ v = b % P
  OBVIOUS
<1>2. PICK q \in Int : \E s \in Int : s = q * P /\ a = s + u
  BY <1>1, Remainder
<1>3. PICK r \in Int : \E t \in Int : t = r * P /\ b = t + v
  BY <1>1, Remainder
<1>4. PICK s \in Int, t \in Int, w \in Int : s = q * P /\ a = s + u /\ t = r * P /\ b = t + v /\ w = k * P
  BY <1>2, <1>3, Multiples
<1>5. /\ u \in Int /\ v \in Int /\ 0 <= u /\ u < P /\ 0 <= v /\ v < P /\ P \in Int
  BY <1>1, Remainder
<1>6. PICK d \in Int : d = (k + r) - q
  OBVIOUS
<1>7. d * P = w + t - s
  <2>1. k + r \in Int /\ (k + r) * P = w + t /\ ((k + r) - q) * P = (k + r) * P - s
    BY <1>4, Multiples
  <2> QED BY <1>6, <2>1
<1>8. u - v = d * P
  BY <1>0, <1>4, <1>5, <1>7
<1>9. d = 0
  <2>1. d >= 1 => d * P >= P
    BY <1>5
  <2>2. d <= -1 => d * P <= -P
    BY <1>5
  <2> QED BY <1>5, <1>8, <2>1, <2>2
<1> QED BY <1>1, <1>5, <1>8, <1>9

\* A remainder may be taken before adding or multiplying, or after it.
LEMMA RemainderArithmetic ==
  ASSUME NEW a \in Int, NEW b \in Int
  PROVE  /\ ((a % P) + b) % P = (a + b) % P
         /\ (a + (b % P)) % P = (a + b) % P
         /\ (a - (b % P)) % P = (a - b) % P
         /\ ((a % P) - b) % P = (a - b) % P
         /\ ((a % P) * b) % P = (a * b) % P
         /\ (a * (b % P)) % P = (a * b) % P
         /\ (a % P) % P = a % P
<1>1. PICK u, v : u = a % P /\ v = b % P
  OBVIOUS
<1>2. PICK q \in Int : \E s \in Int : s = q * P /\ a = s + u
  BY <1>1, Remainder
<1>3. PICK r \in Int : \E t \in Int : t = r * P /\ b = t + v
  BY <1>1, Remainder
<1>4. PICK s \in Int, t \in Int : s = q * P /\ a = s + u /\ t = r * P /\ b = t + v
  BY <1>2, <1>3
<1>5. u \in Int /\ v \in Int /\ P \in Int
  BY <1>1, Remainder
<1>6. (a + b) % P = (u + b) % P
  <2>1. Congruent(a + b, u + b) /\ a + b \in Int /\ u + b \in Int
    BY <1>4, <1>5 DEF Congruent
  <2> QED BY <2>1, SameRemainder, Zenon
<1>7. (a + b) % P = (a + v) % P
  <2>1. Congruent(a + b, a + v) /\ a + b \in Int /\ a + v \in Int
    BY <1>4, <1>5 DEF Congruent
  <2> QED BY <2>1, SameRemainder, Zenon
<1>8. (a - b) % P = (a - v) % P
  <2>1. Congruent(a - v, a - b) /\ a - v \in Int /\ a - b \in Int
    BY <1>4, <1>5 DEF Congruent
  <2> QED BY <2>1, SameRemainder, Zenon
<1>9. (a - b) % P = (u - b) % P
  <2>1. Congruent(a - b, u - b) /\ a - b \in Int /\ u - b \in Int
    BY <1>4, <1>5 DEF Congruent
  <2> QED BY <2>1, SameRemainder, Zenon
<1>10. (a * b) % P = (u * b) % P
  <2>1. a * b \in Int /\ u * b \in Int /\ q * b \in Int
    BY <1>5
  <2>2. a * b - u * b = (q * b) * P
    <3>1. a * b = s * b + u * b /\ s * b \in Int
      BY <1>4, <1>5
    <3>2. s * b = (q * b) * P
      BY <1>4, <1>5
    <3> QED BY <2>1, <3>1, <3>2
  <2>3. Congruent(a * b, u * b)
    BY <2>1, <2>2 DEF Congruent
  <2> QED BY <2>1, <2>3, SameRemainder, Zenon
<1>11. (a * b) % P = (a * v) % P
  <2>1. a * b \in Int /\ a * v \in Int /\ a * r \in Int
    BY <1>5
  <2>2. a * b - a * v = (a * r) * P
    <3>1. a * b = a * t + a * v /\ a * t \in Int
      BY <1>4, <1>5
    <3>2. a * t = (a * r) * P
      BY <1>4, <1>5
    <3> QED BY <2>1, <3>1, <3>2
  <2>3. Congruent(a * b, a * v)
    BY <2>1, <2>2 DEF Congruent
  <2> QED BY <2>1, <2>3, SameRemainder, Zenon
<1>12. a % P = u % P
  <2>1. Congruent(a, u)
    BY <1>4, <1>5 DEF Congruent
  <2> QED BY <1>5, <2>1, SameRemainder
<1> QED BY <1>1, <1>6, <1>7, <1>8, <1>9, <1>10, <1>11, <1>12, Zenon

\* A number below P is its own remainder.
LEMMA RemainderOfValue == \A a \in Value : a \in Int /\ a % P = a
BY PrimeAssumption DEF Value

-----------------------------------------------------------------------------
(* The sums of the kernels, over the values of a function.                 *)

\* Whatever the fold chooses, if it adds up g, is the sum of g.
LEMMA SumChosen ==
  ASSUME NEW S, IsFiniteSet(S), NEW g, NEW it, AreSums(it, g, S)
  PROVE  it[S] = SumOf(g, S)
<1>1. PICK jt : jt = CHOOSE i : AreSums(i, g, S)
  OBVIOUS
<1>2. AreSums(jt, g, S) /\ SumOf(g, S) = jt[S]
  BY <1>1, SumsExist, SumUnfolds
<1>3. S \in SUBSET S
  OBVIOUS
<1> QED BY <1>2, <1>3, SumsAgree

\* each coefficient times the value at the other end of its face, and two
\* fields multiplied cell by cell
TimesUpper(m, x) == [f \in FacesOf(m) |-> m.coeff[f] * x[m.upper[f]]]
TimesLower(m, x) == [f \in FacesOf(m) |-> m.coeff[f] * x[m.lower[f]]]
TimesOne(m, v) == [f \in FacesOf(m) |-> m.coeff[f] * v]
CellTimes(x, y, S) == [c \in S |-> x[c] * y[c]]

SumTimesUpper(m, x, S) == MapThenSumSet(LAMBDA f : m.coeff[f] * x[m.upper[f]], S)
SumTimesLower(m, x, S) == MapThenSumSet(LAMBDA f : m.coeff[f] * x[m.lower[f]], S)
SumTimesCell(m, x, c, S) == MapThenSumSet(LAMBDA f : m.coeff[f] * x[c], S)
SumCellTimes(x, y, S) == MapThenSumSet(LAMBDA c : x[c] * y[c], S)

\* A product may be summed up as a function of the face, or of the cell.
LEMMA SumUppers ==
  ASSUME NEW m, NEW x, NEW S \in SUBSET FacesOf(m), IsFiniteSet(S)
  PROVE  SumTimesUpper(m, x, S) = SumOf(TimesUpper(m, x), S)
<1> DEFINE F(i) == [T \in SUBSET S |-> IF T = {} THEN 0
                                      ELSE m.coeff[First(T)] * x[m.upper[First(T)]] + i[T \ {First(T)}]]
           it == CHOOSE i : i = F(i)
<1>1. SumTimesUpper(m, x, S) = it[S]
  BY DEF SumTimesUpper, MapThenSumSet, MapThenFoldSet, First
<1>2. ASSUME NEW i PROVE [T \in SUBSET S |-> SumFrom(TimesUpper(m, x), i, T)] = F(i)
  <2>1. \A T \in SUBSET S : T # {} => First(T) \in S
    BY FirstOf
  <2>2. \A T \in SUBSET S : T # {} => TimesUpper(m, x)[First(T)] = m.coeff[First(T)] * x[m.upper[First(T)]]
    BY <2>1 DEF TimesUpper
  <2> QED BY <2>2 DEF SumFrom
<1> HIDE DEF F
<1>3. \A i : AreSums(i, TimesUpper(m, x), S) <=> i = F(i)
  BY <1>2 DEF AreSums
<1>4. \E i : i = F(i)
  BY <1>3, SumsExist
<1>5. it = F(it)
  BY <1>4
<1>6. AreSums(it, TimesUpper(m, x), S)
  <2> HIDE DEF it
  <2> QED BY <1>3, <1>5
<1> HIDE DEF it
<1> QED BY <1>1, <1>6, SumChosen

\* The same with the value below the face,
LEMMA SumLowers ==
  ASSUME NEW m, NEW x, NEW S \in SUBSET FacesOf(m), IsFiniteSet(S)
  PROVE  SumTimesLower(m, x, S) = SumOf(TimesLower(m, x), S)
<1> DEFINE F(i) == [T \in SUBSET S |-> IF T = {} THEN 0
                                      ELSE m.coeff[First(T)] * x[m.lower[First(T)]] + i[T \ {First(T)}]]
           it == CHOOSE i : i = F(i)
<1>1. SumTimesLower(m, x, S) = it[S]
  BY DEF SumTimesLower, MapThenSumSet, MapThenFoldSet, First
<1>2. ASSUME NEW i PROVE [T \in SUBSET S |-> SumFrom(TimesLower(m, x), i, T)] = F(i)
  <2>1. \A T \in SUBSET S : T # {} => First(T) \in S
    BY FirstOf
  <2>2. \A T \in SUBSET S : T # {} => TimesLower(m, x)[First(T)] = m.coeff[First(T)] * x[m.lower[First(T)]]
    BY <2>1 DEF TimesLower
  <2> QED BY <2>2 DEF SumFrom
<1> HIDE DEF F
<1>3. \A i : AreSums(i, TimesLower(m, x), S) <=> i = F(i)
  BY <1>2 DEF AreSums
<1>4. \E i : i = F(i)
  BY <1>3, SumsExist
<1>5. it = F(it)
  BY <1>4
<1>6. AreSums(it, TimesLower(m, x), S)
  <2> HIDE DEF it
  <2> QED BY <1>3, <1>5
<1> HIDE DEF it
<1> QED BY <1>1, <1>6, SumChosen

\* with one value for all faces,
LEMMA SumOnes ==
  ASSUME NEW m, NEW x, NEW S \in SUBSET FacesOf(m), NEW c, IsFiniteSet(S)
  PROVE  SumTimesCell(m, x, c, S) = SumOf(TimesOne(m, x[c]), S)
<1> DEFINE F(i) == [T \in SUBSET S |-> IF T = {} THEN 0
                                      ELSE m.coeff[First(T)] * x[c] + i[T \ {First(T)}]]
           it == CHOOSE i : i = F(i)
<1>1. SumTimesCell(m, x, c, S) = it[S]
  BY DEF SumTimesCell, MapThenSumSet, MapThenFoldSet, First
<1>2. ASSUME NEW i PROVE [T \in SUBSET S |-> SumFrom(TimesOne(m, x[c]), i, T)] = F(i)
  <2>1. \A T \in SUBSET S : T # {} => First(T) \in S
    BY FirstOf
  <2>2. \A T \in SUBSET S : T # {} => TimesOne(m, x[c])[First(T)] = m.coeff[First(T)] * x[c]
    BY <2>1 DEF TimesOne
  <2> QED BY <2>2 DEF SumFrom
<1> HIDE DEF F
<1>3. \A i : AreSums(i, TimesOne(m, x[c]), S) <=> i = F(i)
  BY <1>2 DEF AreSums
<1>4. \E i : i = F(i)
  BY <1>3, SumsExist
<1>5. it = F(it)
  BY <1>4
<1>6. AreSums(it, TimesOne(m, x[c]), S)
  <2> HIDE DEF it
  <2> QED BY <1>3, <1>5
<1> HIDE DEF it
<1> QED BY <1>1, <1>6, SumChosen

\* and of two fields.
LEMMA SumCells ==
  ASSUME NEW x, NEW y, NEW S, IsFiniteSet(S)
  PROVE  SumCellTimes(x, y, S) = SumOf(CellTimes(x, y, S), S)
<1> DEFINE F(i) == [T \in SUBSET S |-> IF T = {} THEN 0
                                      ELSE x[First(T)] * y[First(T)] + i[T \ {First(T)}]]
           it == CHOOSE i : i = F(i)
<1>1. SumCellTimes(x, y, S) = it[S]
  BY DEF SumCellTimes, MapThenSumSet, MapThenFoldSet, First
<1>2. ASSUME NEW i PROVE [T \in SUBSET S |-> SumFrom(CellTimes(x, y, S), i, T)] = F(i)
  <2>1. \A T \in SUBSET S : T # {} => First(T) \in S
    BY FirstOf
  <2>2. \A T \in SUBSET S : T # {} => CellTimes(x, y, S)[First(T)] = x[First(T)] * y[First(T)]
    BY <2>1 DEF CellTimes
  <2> QED BY <2>2 DEF SumFrom
<1> HIDE DEF F
<1>3. \A i : AreSums(i, CellTimes(x, y, S), S) <=> i = F(i)
  BY <1>2 DEF AreSums
<1>4. \E i : i = F(i)
  BY <1>3, SumsExist
<1>5. it = F(it)
  BY <1>4
<1>6. AreSums(it, CellTimes(x, y, S), S)
  <2> HIDE DEF it
  <2> QED BY <1>3, <1>5
<1> HIDE DEF it
<1> QED BY <1>1, <1>6, SumChosen

-----------------------------------------------------------------------------
(* Folds over a sequence.  The community module takes the last element off *)
(* the set of places that are left; over 1..n this is the loop from 1 to n. *)

\* A nonempty set of places has a last one.
LEMMA LastPlace ==
  ASSUME NEW n \in Nat, NEW T \in SUBSET (1 .. n), T # {}
  PROVE  Max(T) \in T /\ \A t \in T : t <= Max(T)
<1> DEFINE S == {n - t : t \in T}
<1>0. \A t \in T : t \in 1 .. n /\ n - t \in Nat
  OBVIOUS
<1>1. S \in SUBSET Nat /\ S # {}
  BY <1>0
<1>2. PICK s \in S : \A k \in S : s <= k
  BY <1>1, LeastNatural
<1>3. PICK x \in T : s = n - x
  OBVIOUS
<1>4. \A t \in T : x >= t
  <2>1. ASSUME NEW t \in T PROVE x >= t
    <3>1. n - t \in S
      OBVIOUS
    <3>2. n - x <= n - t
      <4> HIDE DEF S
      <4> QED BY <1>2, <1>3, <3>1
    <3>3. t \in Int /\ x \in Int /\ n \in Int
      BY <1>0
    <3> QED BY <3>2, <3>3
  <2> QED BY <2>1
<1>5. Max(T) \in T /\ \A t \in T : Max(T) >= t
  BY <1>4 DEF Max
<1>6. Max(T) \in Int /\ \A t \in T : t \in Int
  <2>1. \A t \in T : t \in Int
    BY <1>0
  <2> HIDE DEF S
  <2> QED BY <1>5, <2>1, Zenon
<1>7. \A a, b \in Int : a >= b => b <= a
  OBVIOUS
<1> QED BY <1>5, <1>6, <1>7

\* The places up to k, without the last one, are those up to k - 1.
LEMMA PlacesUpTo ==
  ASSUME NEW n \in Nat
  PROVE  /\ 1 .. 0 = {}
         /\ \A k \in 1 .. n : /\ 1 .. k \in SUBSET (1 .. n) /\ 1 .. k # {} /\ Max(1 .. k) = k
                              /\ (1 .. k) \ {k} = 1 .. (k - 1)
<1>1. ASSUME NEW k \in 1 .. n
      PROVE  1 .. k \in SUBSET (1 .. n) /\ 1 .. k # {} /\ (1 .. k) \ {k} = 1 .. (k - 1)
  <2>1. 1 .. k \in SUBSET (1 .. n)
    OBVIOUS
  <2>2. k \in 1 .. k
    OBVIOUS
  <2>3. (1 .. k) \ {k} = 1 .. (k - 1)
    OBVIOUS
  <2> QED BY <2>1, <2>2, <2>3
<1>2. ASSUME NEW k \in 1 .. n PROVE Max(1 .. k) = k
  <2>1. Max(1 .. k) \in 1 .. k /\ \A t \in 1 .. k : t <= Max(1 .. k)
    BY <1>1, LastPlace
  <2>2. k \in 1 .. k
    OBVIOUS
  <2>3. k <= Max(1 .. k)
    BY <2>1, <2>2
  <2> QED BY <2>1, <2>3
<1>3. 1 .. 0 = {}
  OBVIOUS
<1> QED BY <1>1, <1>2, <1>3

\* The function a fold with steps in Y is defined by exists.
IsStep(n, Y, h) == h \in [(1 .. n) \X Y -> Y]
FoldStep(h, base, it, T) == IF T = {} THEN base ELSE h[<<Max(T), it[T \ {Max(T)}]>>]
IsFold(n, Y, base, h, it) ==
  /\ it \in [SUBSET (1 .. n) -> Y]
  /\ it = [T \in SUBSET (1 .. n) |-> FoldStep(h, base, it, T)]

\* what is asked of such a function, and the loop it comes to
TakesLast(n, Y, base, h, it) ==
  /\ it[{}] = base
  /\ \A T \in SUBSET (1 .. n) :
       T # {} /\ it[T \ {Max(T)}] \in Y => it[T] = h[<<Max(T), it[T \ {Max(T)}]>>]
IsLoop(n, Y, base, h, acc) ==
  /\ acc \in [0 .. n -> Y]
  /\ acc[0] = base
  /\ \A k \in 1 .. n : acc[k] = h[<<k, acc[k - 1]>>]

\* Such a function exists: the definition is no circle.
LEMMA FoldsExist ==
  ASSUME NEW n \in Nat, NEW Y, NEW base \in Y, NEW h, IsStep(n, Y, h)
  PROVE  \E it : IsFold(n, Y, base, h, it)
<1> DEFINE S == 1 .. n
           Small(k) == {T \in SUBSET S : Cardinality(T) <= k}
           good == {k \in Nat : \E it \in [Small(k) -> Y] :
                                  it = [T \in Small(k) |-> FoldStep(h, base, it, T)]}
<1>0. IsFiniteSet(S)
  BY FS_Interval
<1>1. \A T \in SUBSET S : IsFiniteSet(T) /\ Cardinality(T) \in Nat /\ Cardinality(T) <= Cardinality(S)
  BY <1>0, FS_Subset, FS_CardinalityType
<1>2. Cardinality(S) \in Nat
  BY <1>0, FS_CardinalityType
<1>3. 0 \in good
  <2>1. \A T \in Small(0) : T = {}
    BY <1>1, FS_EmptySet
  <2> DEFINE it == [T \in Small(0) |-> base]
  <2>2. \A i : \A T \in Small(0) : FoldStep(h, base, i, T) = base
    BY <2>1 DEF FoldStep
  <2>3. it = [T \in Small(0) |-> FoldStep(h, base, it, T)] /\ it \in [Small(0) -> Y]
    BY <2>2
  <2> QED BY <2>3
<1>4. ASSUME NEW k \in Nat, k \in good PROVE k + 1 \in good
  <2>1. PICK it \in [Small(k) -> Y] : it = [T \in Small(k) |-> FoldStep(h, base, it, T)]
    BY <1>4
  <2> DEFINE jt == [T \in Small(k + 1) |-> FoldStep(h, base, it, T)]
  <2>2. ASSUME NEW T \in Small(k + 1)
        PROVE  FoldStep(h, base, it, T) = FoldStep(h, base, jt, T) /\ FoldStep(h, base, it, T) \in Y
    <3>1. CASE T = {}
      BY <3>1 DEF FoldStep
    <3>2. CASE T # {}
      <4> DEFINE R == T \ {Max(T)}
      <4>0. Max(T) \in T
        BY <3>2, LastPlace
      <4>1. Cardinality(R) = Cardinality(T) - 1 /\ R \in SUBSET S
        BY <1>1, <4>0, FS_RemoveElement
      <4>2. R \in Small(k) /\ R \in Small(k + 1) /\ Max(T) \in S
        <5>1. Cardinality(T) \in Nat /\ Cardinality(T) <= k + 1
          BY <1>1
        <5>2. Cardinality(R) <= k /\ Cardinality(R) <= k + 1
          <6> HIDE DEF R
          <6> QED BY <4>1, <5>1
        <5> HIDE DEF R
        <5> QED BY <4>0, <4>1, <5>2
      <4> HIDE DEF R
      <4>3. it[R] = FoldStep(h, base, it, R) /\ jt[R] = FoldStep(h, base, it, R) /\ it[R] \in Y
        <5>1. it[R] = FoldStep(h, base, it, R)
          BY <2>1, <4>2
        <5>2. jt[R] = FoldStep(h, base, it, R)
          BY <4>2
        <5> HIDE DEF Small, jt
        <5> QED BY <5>1, <5>2, <4>2
      <4> HIDE DEF jt, S
      <4>4. <<Max(T), it[R]>> \in S \X Y
        BY <4>2, <4>3
      <4>5. h[<<Max(T), it[R]>>] \in Y
        BY <4>4 DEF S, IsStep
      <4> QED BY <3>2, <4>3, <4>5 DEF FoldStep, R
    <3> QED BY <3>1, <3>2
  <2>3. jt = [T \in Small(k + 1) |-> FoldStep(h, base, jt, T)] /\ jt \in [Small(k + 1) -> Y]
    <3> HIDE DEF Small
    <3> QED BY <2>2
  <2> HIDE DEF jt, Small
  <2> QED BY <2>3
<1>5. Cardinality(S) \in good
  <2> HIDE DEF good
  <2> QED BY <1>2, <1>3, <1>4, NumberInduction
<1>6. Small(Cardinality(S)) = SUBSET S
  BY <1>1
<1> QED BY <1>5, <1>6 DEF IsFold

\* Whatever function the fold chooses, it takes the places in their order.
LEMMA FoldRuns ==
  ASSUME NEW n \in Nat, NEW Y, NEW base \in Y, NEW h, IsStep(n, Y, h),
         NEW it, TakesLast(n, Y, base, h, it)
  PROVE  \E acc : IsLoop(n, Y, base, h, acc) /\ acc[n] = it[1 .. n]
<1> DEFINE good == {k \in Nat : k <= n => it[1 .. k] \in Y}
           acc == [k \in 0 .. n |-> it[1 .. k]]
<1>1. ASSUME NEW k \in 1 .. n, it[1 .. (k - 1)] \in Y
      PROVE  it[1 .. k] = h[<<k, it[1 .. (k - 1)]>>] /\ it[1 .. k] \in Y
  <2> DEFINE T == 1 .. k
  <2>1. T \in SUBSET (1 .. n) /\ T # {} /\ Max(T) = k /\ T \ {k} = 1 .. (k - 1)
    BY PlacesUpTo
  <2> HIDE DEF T
  <2>2. it[T] = h[<<k, it[1 .. (k - 1)]>>]
    BY <1>1, <2>1 DEF TakesLast
  <2>3. <<k, it[1 .. (k - 1)]>> \in (1 .. n) \X Y
    BY <1>1
  <2>4. h[<<k, it[1 .. (k - 1)]>>] \in Y
    BY <2>3 DEF IsStep
  <2> QED BY <2>2, <2>4 DEF T
<1>2. 1 .. 0 = {}
  OBVIOUS
<1>3. 0 \in good
  BY <1>2 DEF TakesLast
<1>4. ASSUME NEW k \in Nat, k \in good PROVE k + 1 \in good
  <2>1. CASE k + 1 <= n
    <3>1. k + 1 \in 1 .. n /\ (k + 1) - 1 = k /\ k <= n
      BY <2>1
    <3>2. it[1 .. k] \in Y
      BY <1>4, <3>1
    <3>3. it[1 .. (k + 1)] \in Y
      <4>1. \E j : j = k + 1
        OBVIOUS
      <4>2. PICK j : j = k + 1
        BY <4>1
      <4>3. j \in 1 .. n /\ j - 1 = k
        BY <3>1, <4>2
      <4>4. it[1 .. j] \in Y
        BY <1>1, <3>2, <4>3
      <4> QED BY <4>2, <4>4
    <3> QED BY <3>3
  <2> QED BY <2>1
<1>5. \A k \in Nat : k \in good
  <2> HIDE DEF good
  <2> QED BY <1>3, <1>4, NumberInduction
<1>6. \A k \in 0 .. n : it[1 .. k] \in Y
  BY <1>5
<1>7. acc \in [0 .. n -> Y]
  BY <1>6
<1>8. acc[0] = base /\ acc[n] = it[1 .. n]
  BY <1>2 DEF TakesLast
<1>9. ASSUME NEW k \in 1 .. n PROVE acc[k] = h[<<k, acc[k - 1]>>]
  <2>1. k \in 0 .. n /\ k - 1 \in 0 .. n
    OBVIOUS
  <2>2. it[1 .. (k - 1)] \in Y
    BY <1>6, <2>1
  <2>3. it[1 .. k] = h[<<k, it[1 .. (k - 1)]>>]
    BY <1>1, <2>2
  <2> QED BY <2>1, <2>3
<1> HIDE DEF acc
<1> QED BY <1>7, <1>8, <1>9 DEF IsLoop

-----------------------------------------------------------------------------
(* The products of GAMGKernels.                                            *)

\* a field as the kernels keep it
LEMMA TableIs == \A x : Table(x) = x
BY DEF Table

\* A matrix and its fields.
LEMMA FieldFacts ==
  ASSUME NEW m, GoodMatrix(m)
  PROVE  /\ m.n \in Nat /\ Index(m) = CellsOf(m) /\ Len(m.lower) \in Nat
         /\ FacesOf(m) = 1 .. Len(m.lower) /\ IsFiniteSet(FacesOf(m)) /\ IsFiniteSet(CellsOf(m))
         /\ \A f \in FacesOf(m) : /\ m.lower[f] \in CellsOf(m) /\ m.upper[f] \in CellsOf(m)
                                  /\ m.lower[f] # m.upper[f] /\ m.coeff[f] \in Int
         /\ \A c \in CellsOf(m) : m.diag[c] \in Int
         /\ \A x \in FieldOf(m) : \A c \in CellsOf(m) : x[c] \in Value /\ x[c] \in Int
<1>1. \A x \in FieldOf(m) : \A c \in CellsOf(m) : x[c] \in Value /\ x[c] \in Int
  BY RemainderOfValue DEF FieldOf, Index, CellsOf
<1>2. /\ m.n \in Nat /\ Len(m.lower) \in Nat
      /\ IsFiniteSet(FacesOf(m)) /\ IsFiniteSet(CellsOf(m))
      /\ \A f \in FacesOf(m) : /\ m.lower[f] \in CellsOf(m) /\ m.upper[f] \in CellsOf(m)
                               /\ m.lower[f] # m.upper[f] /\ m.coeff[f] \in Int
      /\ \A c \in CellsOf(m) : m.diag[c] \in Int
  BY MatrixFacts
<1>3. Index(m) = CellsOf(m) /\ FacesOf(m) = 1 .. Len(m.lower)
  BY DEF Index, CellsOf, FacesOf
<1> QED BY <1>1, <1>2, <1>3

\* The products of the diagonal are a field.
LEMMA DiagonalTimesIs ==
  ASSUME NEW m, GoodMatrix(m), NEW x \in FieldOf(m)
  PROVE  /\ DiagonalTimes(m, x) \in FieldOf(m)
         /\ \A c \in CellsOf(m) : DiagonalTimes(m, x)[c] = (m.diag[c] * x[c]) % P
<1>1. DiagonalTimes(m, x) = [c \in CellsOf(m) |-> (m.diag[c] * x[c]) % P]
  BY TableIs, FieldFacts DEF DiagonalTimes
<1>2. \A c \in CellsOf(m) : (m.diag[c] * x[c]) % P \in Value
  <2>1. \A c \in CellsOf(m) : m.diag[c] * x[c] \in Int
    BY FieldFacts
  <2> QED BY <2>1, Remainder
<1> QED BY <1>1, <1>2, FieldFacts DEF FieldOf

\* One face adds to the cells at its two ends.
Scattered(m, f, x, y, c) ==
  IF c = m.lower[f] THEN (y[c] + m.coeff[f] * x[m.upper[f]]) % P
  ELSE IF c = m.upper[f] THEN (y[c] + m.coeff[f] * x[m.lower[f]]) % P
  ELSE y[c]

\* That is what scattering one face computes, and it is a field.
LEMMA ScatterIs ==
  ASSUME NEW m, GoodMatrix(m), NEW x \in FieldOf(m), NEW f \in FacesOf(m), NEW y \in FieldOf(m)
  PROVE  /\ Scatter(m, f, m.lower[f], x, y) \in FieldOf(m)
         /\ \A c \in CellsOf(m) :
              Scatter(m, f, m.lower[f], x, y)[c] = Scattered(m, f, x, y, c)
<1> DEFINE z == Scatter(m, f, m.lower[f], x, y)
<1>1. PICK l, u : l = m.lower[f] /\ u = m.upper[f]
  OBVIOUS
<1>2. /\ l \in CellsOf(m) /\ u \in CellsOf(m) /\ l # u /\ FieldOf(m) = [CellsOf(m) -> Value]
  BY <1>1, FieldFacts DEF FieldOf
<1>3. \A c \in CellsOf(m) : /\ (y[c] + m.coeff[f] * x[u]) % P \in Value
                            /\ (y[c] + m.coeff[f] * x[l]) % P \in Value
  <2>1. ASSUME NEW c \in CellsOf(m), NEW d \in CellsOf(m) PROVE (y[c] + m.coeff[f] * x[d]) % P \in Value
    <3>1. y[c] + m.coeff[f] * x[d] \in Int
      BY FieldFacts
    <3> QED BY <3>1, Remainder
  <2> QED BY <1>2, <2>1
<1>4. z = [y EXCEPT ![l] = (@ + m.coeff[f] * x[u]) % P, ![u] = (@ + m.coeff[f] * x[l]) % P]
  BY <1>1, TableIs DEF Scatter
<1> HIDE DEF z
<1>5. z \in FieldOf(m) /\ \A c \in CellsOf(m) :
        z[c] = IF c = l THEN (y[c] + m.coeff[f] * x[u]) % P
               ELSE IF c = u THEN (y[c] + m.coeff[f] * x[l]) % P ELSE y[c]
  BY <1>2, <1>3, <1>4
<1> QED BY <1>1, <1>5 DEF z, Scattered

\* multiply goes through the faces one by one.
LEMMA MultiplyRuns ==
  ASSUME NEW m, GoodMatrix(m), NEW x \in FieldOf(m)
  PROVE  \E acc \in [0 .. Len(m.lower) -> FieldOf(m)] :
           /\ acc[0] = DiagonalTimes(m, x) /\ acc[Len(m.lower)] = Multiply(m, x)
           /\ \A k \in FacesOf(m) : acc[k] = Scatter(m, k, m.lower[k], x, acc[k - 1])
<1> DEFINE n == Len(m.lower)
           Y == FieldOf(m)
           base == DiagonalTimes(m, x)
           F(i) == [T \in SUBSET (1 .. n) |->
                      IF T = {} THEN base
                      ELSE Scatter(m, FacesAt(m)[Max(T)], m.lower[FacesAt(m)[Max(T)]], x, i[T \ {Max(T)}])]
           it == CHOOSE i : i = F(i)
           h == [p \in (1 .. n) \X Y |-> Scatter(m, p[1], m.lower[p[1]], x, p[2])]
<1>1. Multiply(m, x) = it[1 .. n]
  BY DEF Multiply, FoldLeft, MapThenFoldSet, FacesAt
<1>2. n \in Nat /\ base \in Y /\ FacesOf(m) = 1 .. n /\ \A f \in 1 .. n : FacesAt(m)[f] = f
  BY FieldFacts, DiagonalTimesIs DEF FacesAt
<1>3. IsStep(n, Y, h)
  <2>1. \A f \in 1 .. n : \A y \in Y : Scatter(m, f, m.lower[f], x, y) \in Y
    BY <1>2, ScatterIs
  <2> QED BY <2>1 DEF IsStep
<1>4. \A T \in SUBSET (1 .. n) : T # {} => Max(T) \in 1 .. n
  BY <1>2, LastPlace
<1>5. ASSUME NEW i, NEW T \in SUBSET (1 .. n), T # {}, i[T \ {Max(T)}] \in Y
      PROVE  F(i)[T] = h[<<Max(T), i[T \ {Max(T)}]>>]
  <2>1. <<Max(T), i[T \ {Max(T)}]>> \in (1 .. n) \X Y
    BY <1>4, <1>5
  <2>2. FacesAt(m)[Max(T)] = Max(T)
    BY <1>2, <1>4, <1>5
  <2> HIDE DEF n, Y
  <2> QED BY <1>5, <2>1, <2>2
<1> HIDE DEF h, base
<1>6. \E i : i = F(i)
  <2>1. PICK i : IsFold(n, Y, base, h, i)
    <3> HIDE DEF n, Y, F
    <3> QED BY <1>2, <1>3, FoldsExist
  <2>2. \A T \in SUBSET (1 .. n) : FoldStep(h, base, i, T) = F(i)[T]
    <3> SUFFICES ASSUME NEW T \in SUBSET (1 .. n) PROVE FoldStep(h, base, i, T) = F(i)[T]
      OBVIOUS
    <3>1. CASE T = {}
      BY <3>1 DEF FoldStep
    <3>2. CASE T # {}
      <4>1. i[T \ {Max(T)}] \in Y
        BY <2>1 DEF IsFold
      <4> HIDE DEF F
      <4> QED BY <1>5, <3>2, <4>1 DEF FoldStep
    <3> QED BY <3>1, <3>2
  <2>3. i = F(i)
    <3>1. F(i) = [T \in SUBSET (1 .. n) |-> F(i)[T]]
      OBVIOUS
    <3> HIDE DEF F
    <3> QED BY <2>1, <2>2, <3>1 DEF IsFold
  <2> QED BY <2>3
<1>7. it = F(it)
  <2> HIDE DEF F
  <2> QED BY <1>6
<1>8. it[{}] = base
  <2>1. F(it)[{}] = base
    OBVIOUS
  <2> HIDE DEF it, F
  <2> QED BY <1>7, <2>1
<1>9. TakesLast(n, Y, base, h, it)
  <2> HIDE DEF it, F
  <2> QED BY <1>5, <1>7, <1>8 DEF TakesLast
<1>10. PICK acc : IsLoop(n, Y, base, h, acc) /\ acc[n] = it[1 .. n]
  <2>1. n \in Nat /\ base \in Y
    BY <1>2
  <2> HIDE DEF n, Y, it, F
  <2> QED BY <2>1, <1>3, <1>9, FoldRuns
<1>11. \A k \in 1 .. n : acc[k] = Scatter(m, k, m.lower[k], x, acc[k - 1])
  <2>1. \A k \in 1 .. n : acc[k - 1] \in Y
    BY <1>2, <1>10 DEF IsLoop
  <2>2. \A k \in 1 .. n : \A y \in Y : h[<<k, y>>] = Scatter(m, k, m.lower[k], x, y)
    BY DEF h
  <2> QED BY <1>10, <2>1, <2>2 DEF IsLoop
<1> QED BY <1>1, <1>2, <1>10, <1>11 DEF base, IsLoop

\* the products at the faces up to k that cell c owns, and those it lies above,
\* and the row of c as far as these go
OwnedUpTo(m, c, k) == {f \in 1 .. k : m.lower[f] = c}
AboveUpTo(m, c, k) == {f \in 1 .. k : m.upper[f] = c}
RowSum(m, x, c, owned, above) ==
  m.diag[c] * x[c] + SumOf(TimesUpper(m, x), owned) + SumOf(TimesLower(m, x), above)

\* The sums of a row are integers.
LEMMA RowSumInt ==
  ASSUME NEW m, GoodMatrix(m), NEW x \in FieldOf(m), NEW c \in CellsOf(m)
  PROVE  /\ m.diag[c] * x[c] \in Int
         /\ \A f \in FacesOf(m) : TimesUpper(m, x)[f] \in Int /\ TimesLower(m, x)[f] \in Int
         /\ \A f \in FacesOf(m) : TimesUpper(m, x)[f] = m.coeff[f] * x[m.upper[f]]
                                  /\ TimesLower(m, x)[f] = m.coeff[f] * x[m.lower[f]]
         /\ \A S \in SUBSET FacesOf(m) : /\ IsFiniteSet(S)
                                         /\ SumOf(TimesUpper(m, x), S) \in Int
                                         /\ SumOf(TimesLower(m, x), S) \in Int
         /\ \A S, T \in SUBSET FacesOf(m) : RowSum(m, x, c, S, T) \in Int
<1>1. m.diag[c] * x[c] \in Int
  BY FieldFacts
<1>2. ASSUME NEW f \in FacesOf(m)
      PROVE  /\ TimesUpper(m, x)[f] \in Int /\ TimesLower(m, x)[f] \in Int
             /\ TimesUpper(m, x)[f] = m.coeff[f] * x[m.upper[f]]
             /\ TimesLower(m, x)[f] = m.coeff[f] * x[m.lower[f]]
  <2>1. TimesUpper(m, x)[f] = m.coeff[f] * x[m.upper[f]] /\ TimesLower(m, x)[f] = m.coeff[f] * x[m.lower[f]]
    BY DEF TimesUpper, TimesLower
  <2>2. m.coeff[f] \in Int /\ x[m.upper[f]] \in Int /\ x[m.lower[f]] \in Int
    BY FieldFacts
  <2> QED BY <2>1, <2>2
<1>3. ASSUME NEW S \in SUBSET FacesOf(m)
      PROVE  /\ IsFiniteSet(S)
             /\ SumOf(TimesUpper(m, x), S) \in Int /\ SumOf(TimesLower(m, x), S) \in Int
  <2>1. IsFiniteSet(S)
    BY FieldFacts, FS_Subset
  <2> QED BY <1>2, <2>1, SumInt
<1>4. ASSUME NEW S \in SUBSET FacesOf(m), NEW T \in SUBSET FacesOf(m)
      PROVE  RowSum(m, x, c, S, T) \in Int
  <2>1. SumOf(TimesUpper(m, x), S) \in Int /\ SumOf(TimesLower(m, x), T) \in Int
    BY <1>3
  <2> QED BY <1>1, <2>1 DEF RowSum
<1> QED BY <1>1, <1>2, <1>3, <1>4

\* A row of the product by its definition.
LEMMA RowTimesIs ==
  ASSUME NEW m, GoodMatrix(m), NEW x \in FieldOf(m), NEW c \in CellsOf(m)
  PROVE  /\ RowTimes(m, x, c) =
              RowSum(m, x, c, {f \in FacesOf(m) : m.lower[f] = c}, {f \in FacesOf(m) : m.upper[f] = c}) % P
         /\ RowTimes(m, x, c) \in Value
<1> DEFINE S == {f \in FacesOf(m) : m.lower[f] = c}
           T == {f \in FacesOf(m) : m.upper[f] = c}
<1>1. RowTimes(m, x, c) = (m.diag[c] * x[c] + SumTimesUpper(m, x, S) + SumTimesLower(m, x, T)) % P
  BY DEF RowTimes, SumOver, SumTimesUpper, SumTimesLower
<1>2. S \in SUBSET FacesOf(m) /\ T \in SUBSET FacesOf(m)
  OBVIOUS
<1> HIDE DEF S, T
<1>3. IsFiniteSet(S) /\ IsFiniteSet(T)
  BY <1>2, RowSumInt
<1>4. SumTimesUpper(m, x, S) = SumOf(TimesUpper(m, x), S) /\ SumTimesLower(m, x, T) = SumOf(TimesLower(m, x), T)
  BY <1>2, <1>3, SumUppers, SumLowers
<1>5. RowTimes(m, x, c) = RowSum(m, x, c, S, T) % P
  BY <1>1, <1>4 DEF RowSum
<1>6. RowSum(m, x, c, S, T) \in Int
  BY <1>2, RowSumInt
<1> QED BY <1>5, <1>6, Remainder DEF S, T

\* a number added to the remainder of a sum
Added(a, u, v, w) == (((a + u + v) % P) + w) % P

\* It may be added to either part of the sum.
LEMMA AddedProduct ==
  ASSUME NEW a \in Int, NEW u \in Int, NEW v \in Int, NEW w \in Int
  PROVE  /\ Added(a, u, v, w) = (a + (w + u) + v) % P
         /\ Added(a, u, v, w) = (a + u + (w + v)) % P
<1>1. (((a + u + v) % P) + w) % P = ((a + u + v) + w) % P
  BY RemainderArithmetic
<1>2. (a + u + v) + w = a + (w + u) + v /\ (a + u + v) + w = a + u + (w + v)
  OBVIOUS
<1> QED BY <1>1, <1>2 DEF Added

\* multiply adds up the rows of the product.
THEOREM MultiplyIsTimes ==
  ASSUME NEW m, GoodMatrix(m), NEW x \in FieldOf(m)
  PROVE  Multiply(m, x) = Times(m, x) /\ Multiply(m, x) \in FieldOf(m)
<1> DEFINE n == Len(m.lower)
           Row(c, k) == RowSum(m, x, c, OwnedUpTo(m, c, k), AboveUpTo(m, c, k))
<1>1. PICK acc \in [0 .. n -> FieldOf(m)] :
        /\ acc[0] = DiagonalTimes(m, x) /\ acc[n] = Multiply(m, x)
        /\ \A k \in FacesOf(m) : acc[k] = Scatter(m, k, m.lower[k], x, acc[k - 1])
  BY MultiplyRuns
<1> DEFINE good == {k \in Nat : k <= n => \A c \in CellsOf(m) : acc[k][c] = Row(c, k) % P}
<1>2. n \in Nat /\ FacesOf(m) = 1 .. n
  BY FieldFacts
<1>3. ASSUME NEW k \in 0 .. n, NEW c \in CellsOf(m)
      PROVE  OwnedUpTo(m, c, k) \in SUBSET FacesOf(m) /\ AboveUpTo(m, c, k) \in SUBSET FacesOf(m)
  BY <1>2 DEF OwnedUpTo, AboveUpTo
<1>4. 0 \in good
  <2>1. ASSUME NEW c \in CellsOf(m) PROVE acc[0][c] = Row(c, 0) % P
    <3>1. OwnedUpTo(m, c, 0) = {} /\ AboveUpTo(m, c, 0) = {}
      BY DEF OwnedUpTo, AboveUpTo
    <3>2. Row(c, 0) = m.diag[c] * x[c] + 0 + 0
      BY <3>1, SumEmpty DEF RowSum
    <3>3. m.diag[c] * x[c] \in Int
      BY RowSumInt
    <3>4. Row(c, 0) = m.diag[c] * x[c]
      BY <3>2, <3>3
    <3> QED BY <1>1, <3>4, DiagonalTimesIs
  <2> QED BY <2>1
<1>5. ASSUME NEW k \in 1 .. n, NEW c \in CellsOf(m), acc[k - 1][c] = Row(c, k - 1) % P
      PROVE  acc[k][c] = Row(c, k) % P
  <2> DEFINE a == m.diag[c] * x[c]
             u == SumOf(TimesUpper(m, x), OwnedUpTo(m, c, k - 1))
             v == SumOf(TimesLower(m, x), AboveUpTo(m, c, k - 1))
  <2>0. k \in FacesOf(m) /\ k - 1 \in 0 .. n /\ k \in 0 .. n /\ acc[k - 1] \in FieldOf(m)
    BY <1>1, <1>2
  <2>1. /\ OwnedUpTo(m, c, k - 1) \in SUBSET FacesOf(m) /\ AboveUpTo(m, c, k - 1) \in SUBSET FacesOf(m)
        /\ IsFiniteSet(OwnedUpTo(m, c, k - 1)) /\ IsFiniteSet(AboveUpTo(m, c, k - 1))
    BY <1>3, <2>0, RowSumInt
  <2>2. a \in Int /\ u \in Int /\ v \in Int
    BY <2>1, RowSumInt
  <2>3. Row(c, k - 1) = a + u + v
    BY DEF RowSum
  <2>4. m.lower[k] # m.upper[k] /\ TimesUpper(m, x)[k] \in Int /\ TimesLower(m, x)[k] \in Int
        /\ TimesUpper(m, x)[k] = m.coeff[k] * x[m.upper[k]] /\ TimesLower(m, x)[k] = m.coeff[k] * x[m.lower[k]]
    BY <2>0, FieldFacts, RowSumInt
  <2>5. acc[k][c] = IF c = m.lower[k] THEN (acc[k - 1][c] + m.coeff[k] * x[m.upper[k]]) % P
                    ELSE IF c = m.upper[k] THEN (acc[k - 1][c] + m.coeff[k] * x[m.lower[k]]) % P
                    ELSE acc[k - 1][c]
    <3>1. acc[k] = Scatter(m, k, m.lower[k], x, acc[k - 1])
      BY <1>1, <2>0
    <3>2. PICK y \in FieldOf(m) : y = acc[k - 1]
      BY <2>0
    <3>3. Scatter(m, k, m.lower[k], x, y)[c] = Scattered(m, k, x, y, c)
      BY <2>0, ScatterIs
    <3> QED BY <3>1, <3>2, <3>3, Zenon DEF Scattered
  <2>6. CASE c = m.lower[k]
    <3>1. OwnedUpTo(m, c, k) = OwnedUpTo(m, c, k - 1) \cup {k} /\ k \notin OwnedUpTo(m, c, k - 1)
          /\ AboveUpTo(m, c, k) = AboveUpTo(m, c, k - 1)
      BY <2>4, <2>6 DEF OwnedUpTo, AboveUpTo
    <3>2. SumOf(TimesUpper(m, x), OwnedUpTo(m, c, k)) = TimesUpper(m, x)[k] + u
      <4>1. \A f \in OwnedUpTo(m, c, k - 1) \cup {k} : TimesUpper(m, x)[f] \in Int
        BY <2>0, <2>1, RowSumInt
      <4> QED BY <2>1, <3>1, <4>1, SumAdd
    <3>3. Row(c, k) = a + (TimesUpper(m, x)[k] + u) + v
      BY <3>1, <3>2 DEF RowSum
    <3>4. acc[k][c] = (((a + u + v) % P) + TimesUpper(m, x)[k]) % P
      BY <1>5, <2>3, <2>4, <2>5, <2>6
    <3> HIDE DEF a, u, v, Row
    <3>0. PICK w \in Int : w = TimesUpper(m, x)[k]
      BY <2>4
    <3>5. Added(a, u, v, w) = (a + (w + u) + v) % P
      BY <2>2, AddedProduct
    <3> QED BY <3>0, <3>3, <3>4, <3>5, Zenon DEF Added
  <2>7. CASE c = m.upper[k]
    <3>1. AboveUpTo(m, c, k) = AboveUpTo(m, c, k - 1) \cup {k} /\ k \notin AboveUpTo(m, c, k - 1)
          /\ OwnedUpTo(m, c, k) = OwnedUpTo(m, c, k - 1)
      BY <2>4, <2>7 DEF OwnedUpTo, AboveUpTo
    <3>2. SumOf(TimesLower(m, x), AboveUpTo(m, c, k)) = TimesLower(m, x)[k] + v
      <4>1. \A f \in AboveUpTo(m, c, k - 1) \cup {k} : TimesLower(m, x)[f] \in Int
        BY <2>0, <2>1, RowSumInt
      <4> QED BY <2>1, <3>1, <4>1, SumAdd
    <3>3. Row(c, k) = a + u + (TimesLower(m, x)[k] + v)
      BY <3>1, <3>2 DEF RowSum
    <3>4. acc[k][c] = (((a + u + v) % P) + TimesLower(m, x)[k]) % P
      BY <1>5, <2>3, <2>4, <2>5, <2>7
    <3> HIDE DEF a, u, v, Row
    <3>0. PICK w \in Int : w = TimesLower(m, x)[k]
      BY <2>4
    <3>5. Added(a, u, v, w) = (a + u + (w + v)) % P
      BY <2>2, AddedProduct
    <3> QED BY <3>0, <3>3, <3>4, <3>5, Zenon DEF Added
  <2>8. CASE c # m.lower[k] /\ c # m.upper[k]
    <3>1. OwnedUpTo(m, c, k) = OwnedUpTo(m, c, k - 1) /\ AboveUpTo(m, c, k) = AboveUpTo(m, c, k - 1)
      BY <2>8 DEF OwnedUpTo, AboveUpTo
    <3> QED BY <1>5, <2>5, <2>8, <3>1
  <2> QED BY <2>6, <2>7, <2>8
<1>6. ASSUME NEW k \in Nat, k \in good PROVE k + 1 \in good
  <2>1. CASE k + 1 <= n
    <3>1. PICK j : j = k + 1
      OBVIOUS
    <3>2. j \in 1 .. n /\ j - 1 = k /\ k <= n
      BY <1>2, <2>1, <3>1
    <3>3. \A c \in CellsOf(m) : acc[j][c] = Row(c, j) % P
      <4> HIDE DEF Row
      <4> QED BY <1>5, <1>6, <3>2
    <3> QED BY <3>1, <3>3
  <2> QED BY <2>1
<1>7. n \in good
  <2> HIDE DEF good
  <2> QED BY <1>2, <1>4, <1>6, NumberInduction
<1>8. ASSUME NEW c \in CellsOf(m) PROVE Multiply(m, x)[c] = RowTimes(m, x, c)
  <2>1. OwnedUpTo(m, c, n) = {f \in FacesOf(m) : m.lower[f] = c}
        /\ AboveUpTo(m, c, n) = {f \in FacesOf(m) : m.upper[f] = c}
    BY <1>2 DEF OwnedUpTo, AboveUpTo
  <2>2. acc[n][c] = Row(c, n) % P
    BY <1>2, <1>7
  <2> QED BY <1>1, <2>1, <2>2, RowTimesIs
<1>9. Multiply(m, x) \in [CellsOf(m) -> Value]
  BY <1>1, <1>2, FieldFacts DEF FieldOf
<1> QED BY <1>8, <1>9, FieldFacts DEF Times, FieldOf

\* One owner: its own row, and its column.
OwnerStep(m, x, y, owner) ==
  [c \in CellsOf(m) |->
     (y[c] + (IF c = owner
                THEN SumOf(TimesUpper(m, x), OwnedBy(m, c)) % P
                ELSE SumOf(TimesOne(m, x[owner]), {f \in OwnedBy(m, owner) : m.upper[f] = c}) % P)) % P]

\* That is what accumulating one owner computes, and it is a field.
LEMMA OwnerStepIs ==
  ASSUME NEW m, GoodMatrix(m), NEW x \in FieldOf(m), NEW y \in FieldOf(m), NEW owner \in CellsOf(m)
  PROVE  /\ OwnerStep(m, x, y, owner) \in FieldOf(m)
         /\ OwnerStep(m, x, y, owner) =
              Table([c \in Index(m) |->
                (y[c] + (IF c = owner
                  THEN Total(LAMBDA f : m.coeff[f] * x[m.upper[f]], OwnedBy(m, c))
                  ELSE Total(LAMBDA f : m.coeff[f] * x[owner],
                             {f \in OwnedBy(m, owner) : m.upper[f] = c}))) % P])
<1> DEFINE U(c) == OwnedBy(m, c)
           V(c) == {f \in OwnedBy(m, owner) : m.upper[f] = c}
           a(c) == SumOf(TimesUpper(m, x), U(c))
           b(c) == SumOf(TimesOne(m, x[owner]), V(c))
<1>1. ASSUME NEW c \in CellsOf(m)
      PROVE  /\ SumTimesUpper(m, x, U(c)) = a(c) /\ SumTimesCell(m, x, owner, V(c)) = b(c)
             /\ a(c) \in Int /\ b(c) \in Int
  <2>1. U(c) \in SUBSET FacesOf(m) /\ V(c) \in SUBSET FacesOf(m)
    BY DEF OwnedBy, FacesOf
  <2> HIDE DEF U, V
  <2>2. IsFiniteSet(U(c)) /\ IsFiniteSet(V(c)) /\ a(c) \in Int
    BY <2>1, RowSumInt
  <2>3. \A f \in V(c) : TimesOne(m, x[owner])[f] \in Int
    <3>1. \A f \in FacesOf(m) : TimesOne(m, x[owner])[f] \in Int
      BY FieldFacts DEF TimesOne
    <3> QED BY <2>1, <3>1
  <2>4. b(c) \in Int
    BY <2>2, <2>3, SumInt
  <2>5. SumTimesUpper(m, x, U(c)) = a(c) /\ SumTimesCell(m, x, owner, V(c)) = b(c)
    BY <2>1, <2>2, SumUppers, SumOnes
  <2> QED BY <2>2, <2>4, <2>5
<1>2. ASSUME NEW c \in CellsOf(m)
      PROVE  (y[c] + (IF c = owner THEN a(c) % P ELSE b(c) % P)) % P \in Value
  <2>1. a(c) % P \in Int /\ b(c) % P \in Int /\ y[c] \in Int
    BY <1>1, FieldFacts, Remainder
  <2> HIDE DEF a, b
  <2>2. y[c] + (IF c = owner THEN a(c) % P ELSE b(c) % P) \in Int
    BY <2>1
  <2> QED BY <2>2, Remainder
<1>3. OwnerStep(m, x, y, owner) = [c \in CellsOf(m) |-> (y[c] + (IF c = owner THEN a(c) % P ELSE b(c) % P)) % P]
  BY DEF OwnerStep
<1>4. OwnerStep(m, x, y, owner) \in FieldOf(m)
  <2> HIDE DEF a, b
  <2> QED BY <1>2, <1>3, FieldFacts DEF FieldOf
<1>5. Table([c \in Index(m) |->
                (y[c] + (IF c = owner
                  THEN Total(LAMBDA f : m.coeff[f] * x[m.upper[f]], OwnedBy(m, c))
                  ELSE Total(LAMBDA f : m.coeff[f] * x[owner],
                             {f \in OwnedBy(m, owner) : m.upper[f] = c}))) % P])
      = [c \in Index(m) |-> (y[c] + (IF c = owner THEN SumTimesUpper(m, x, U(c)) % P
                                     ELSE SumTimesCell(m, x, owner, V(c)) % P)) % P]
  BY TableIs DEF Total, SumTimesUpper, SumTimesCell
<1>6. Index(m) = CellsOf(m)
  BY FieldFacts
<1>7. [c \in CellsOf(m) |-> (y[c] + (IF c = owner THEN SumTimesUpper(m, x, U(c)) % P
                                     ELSE SumTimesCell(m, x, owner, V(c)) % P)) % P]
      = [c \in CellsOf(m) |-> (y[c] + (IF c = owner THEN a(c) % P ELSE b(c) % P)) % P]
  <2> HIDE DEF a, b, U, V
  <2> QED BY <1>1
<1> QED BY <1>3, <1>4, <1>5, <1>6, <1>7

\* multiplyOwnerAccumulated goes through the owners one by one.
LEMMA OwnersRun ==
  ASSUME NEW m, GoodMatrix(m), NEW x \in FieldOf(m)
  PROVE  \E acc \in [0 .. m.n -> FieldOf(m)] :
           /\ acc[0] = DiagonalTimes(m, x) /\ acc[m.n] = MultiplyOwnerAccumulated(m, x)
           /\ \A k \in 1 .. m.n : acc[k] = OwnerStep(m, x, acc[k - 1], k - 1)
<1> DEFINE n == m.n
           Y == FieldOf(m)
           base == DiagonalTimes(m, x)
           Owner(y, owner) ==
             Table([c \in Index(m) |->
               (y[c] + (IF c = owner
                 THEN Total(LAMBDA f : m.coeff[f] * x[m.upper[f]], OwnedBy(m, c))
                 ELSE Total(LAMBDA f : m.coeff[f] * x[owner],
                            {f \in OwnedBy(m, owner) : m.upper[f] = c}))) % P])
           F(i) == [T \in SUBSET (1 .. n) |->
                      IF T = {} THEN base ELSE Owner(i[T \ {Max(T)}], Upwards(n)[Max(T)])]
           it == CHOOSE i : i = F(i)
           h == [p \in (1 .. n) \X Y |-> OwnerStep(m, x, p[2], p[1] - 1)]
<1>1. MultiplyOwnerAccumulated(m, x) = it[1 .. n]
  BY DEF MultiplyOwnerAccumulated, FoldLeft, MapThenFoldSet, Upwards
<1>2. n \in Nat /\ base \in Y /\ CellsOf(m) = 0 .. n - 1 /\ \A k \in 1 .. n : Upwards(n)[k] = k - 1
  BY FieldFacts, DiagonalTimesIs DEF Upwards, CellsOf
<1>3. \A k \in 1 .. n : k - 1 \in CellsOf(m)
  BY <1>2
<1>4. IsStep(n, Y, h)
  <2>1. \A k \in 1 .. n : \A y \in Y : OwnerStep(m, x, y, k - 1) \in Y
    BY <1>3, OwnerStepIs
  <2> QED BY <2>1 DEF IsStep
<1>5. \A T \in SUBSET (1 .. n) : T # {} => Max(T) \in 1 .. n
  BY <1>2, LastPlace
<1>6. \A y \in Y : \A k \in 1 .. n : Owner(y, k - 1) = OwnerStep(m, x, y, k - 1)
  BY <1>3, OwnerStepIs
<1> HIDE DEF Owner
<1>7. ASSUME NEW i, NEW T \in SUBSET (1 .. n), T # {}, i[T \ {Max(T)}] \in Y
      PROVE  F(i)[T] = h[<<Max(T), i[T \ {Max(T)}]>>]
  <2>1. PICK k \in 1 .. n, y \in Y : k = Max(T) /\ y = i[T \ {Max(T)}]
    BY <1>5, <1>7
  <2>2. F(i)[T] = Owner(y, Upwards(n)[k])
    BY <1>7, <2>1
  <2>3. Owner(y, Upwards(n)[k]) = OwnerStep(m, x, y, k - 1)
    <3> HIDE DEF n, Y
    <3> QED BY <1>2, <1>6
  <2>4. h[<<k, y>>] = OwnerStep(m, x, y, k - 1)
    OBVIOUS
  <2> HIDE DEF F, h
  <2> QED BY <2>1, <2>2, <2>3, <2>4
<1> HIDE DEF h, base
<1>8. \E i : i = F(i)
  <2>1. PICK i : IsFold(n, Y, base, h, i)
    <3>1. n \in Nat /\ base \in Y
      BY <1>2
    <3> HIDE DEF n, Y, F
    <3> QED BY <3>1, <1>4, FoldsExist
  <2>2. \A T \in SUBSET (1 .. n) : FoldStep(h, base, i, T) = F(i)[T]
    <3> SUFFICES ASSUME NEW T \in SUBSET (1 .. n) PROVE FoldStep(h, base, i, T) = F(i)[T]
      OBVIOUS
    <3>1. CASE T = {}
      BY <3>1 DEF FoldStep
    <3>2. CASE T # {}
      <4>1. i[T \ {Max(T)}] \in Y
        BY <2>1 DEF IsFold
      <4> HIDE DEF F
      <4> QED BY <1>7, <3>2, <4>1 DEF FoldStep
    <3> QED BY <3>1, <3>2
  <2>3. i = F(i)
    <3>1. F(i) = [T \in SUBSET (1 .. n) |-> F(i)[T]]
      OBVIOUS
    <3> HIDE DEF F
    <3> QED BY <2>1, <2>2, <3>1 DEF IsFold
  <2> QED BY <2>3
<1>9. it = F(it)
  <2> HIDE DEF F
  <2> QED BY <1>8
<1>10. it[{}] = base
  <2>1. F(it)[{}] = base
    OBVIOUS
  <2> HIDE DEF it, F
  <2> QED BY <1>9, <2>1
<1>11. TakesLast(n, Y, base, h, it)
  <2> HIDE DEF it, F
  <2> QED BY <1>7, <1>9, <1>10 DEF TakesLast
<1>12. PICK acc : IsLoop(n, Y, base, h, acc) /\ acc[n] = it[1 .. n]
  <2>1. n \in Nat /\ base \in Y
    BY <1>2
  <2> HIDE DEF n, Y, it, F
  <2> QED BY <2>1, <1>4, <1>11, FoldRuns
<1>13. \A k \in 1 .. n : acc[k] = OwnerStep(m, x, acc[k - 1], k - 1)
  <2>1. \A k \in 1 .. n : acc[k - 1] \in Y
    BY <1>2, <1>12 DEF IsLoop
  <2>2. \A k \in 1 .. n : \A y \in Y : h[<<k, y>>] = OwnerStep(m, x, y, k - 1)
    BY DEF h
  <2> QED BY <1>12, <2>1, <2>2 DEF IsLoop
<1> QED BY <1>1, <1>12, <1>13 DEF base, IsLoop

\* the products at the faces that owners below k have with c
AboveBelow(m, c, k) == {f \in FacesOf(m) : m.upper[f] = c /\ m.lower[f] < k}

\* multiplyOwnerAccumulated adds up the rows of the product as well.
THEOREM OwnersAreTimes ==
  ASSUME NEW m, GoodMatrix(m), NEW x \in FieldOf(m)
  PROVE  MultiplyOwnerAccumulated(m, x) = Times(m, x)
<1> DEFINE n == m.n
           Owned(c, k) == IF c < k THEN OwnedBy(m, c) ELSE {}
           Row(c, k) == RowSum(m, x, c, Owned(c, k), AboveBelow(m, c, k))
<1>1. PICK acc \in [0 .. n -> FieldOf(m)] :
        /\ acc[0] = DiagonalTimes(m, x) /\ acc[n] = MultiplyOwnerAccumulated(m, x)
        /\ \A k \in 1 .. n : acc[k] = OwnerStep(m, x, acc[k - 1], k - 1)
  BY OwnersRun
<1> DEFINE right == {k \in Nat : k <= n => \A c \in CellsOf(m) : acc[k][c] = Row(c, k) % P}
<1>2. n \in Nat /\ CellsOf(m) = 0 .. n - 1
  BY FieldFacts DEF CellsOf
<1>3. ASSUME NEW k \in 0 .. n, NEW c \in CellsOf(m)
      PROVE  Owned(c, k) \in SUBSET FacesOf(m) /\ AboveBelow(m, c, k) \in SUBSET FacesOf(m)
  BY DEF OwnedBy, FacesOf, AboveBelow
<1>4. 0 \in right
  <2>1. ASSUME NEW c \in CellsOf(m) PROVE acc[0][c] = Row(c, 0) % P
    <3>1. Owned(c, 0) = {}
      BY <1>2
    <3>2. AboveBelow(m, c, 0) = {}
      <4>1. \A f \in FacesOf(m) : m.lower[f] \in CellsOf(m)
        BY FieldFacts
      <4> QED BY <1>2, <4>1 DEF AboveBelow
    <3>3. Row(c, 0) = m.diag[c] * x[c] + 0 + 0
      <4> HIDE DEF Owned
      <4> QED BY <3>1, <3>2, SumEmpty DEF RowSum
    <3>4. m.diag[c] * x[c] \in Int
      BY RowSumInt
    <3>5. Row(c, 0) = m.diag[c] * x[c]
      BY <3>3, <3>4
    <3> QED BY <1>1, <3>5, DiagonalTimesIs
  <2> QED BY <2>1
<1>5. ASSUME NEW k \in 1 .. n, NEW c \in CellsOf(m), acc[k - 1][c] = Row(c, k - 1) % P
      PROVE  acc[k][c] = Row(c, k) % P
  <2> DEFINE a == m.diag[c] * x[c]
             u == SumOf(TimesUpper(m, x), Owned(c, k - 1))
             v == SumOf(TimesLower(m, x), AboveBelow(m, c, k - 1))
             owner == k - 1
             new == {f \in OwnedBy(m, owner) : m.upper[f] = c}
  <2>0. /\ k - 1 \in 0 .. n /\ k \in 0 .. n /\ acc[k - 1] \in FieldOf(m) /\ owner \in CellsOf(m)
        /\ k \in Int /\ c \in Int
    BY <1>1, <1>2
  <2>1. /\ Owned(c, k - 1) \in SUBSET FacesOf(m) /\ AboveBelow(m, c, k - 1) \in SUBSET FacesOf(m)
        /\ IsFiniteSet(Owned(c, k - 1)) /\ IsFiniteSet(AboveBelow(m, c, k - 1))
    <3> HIDE DEF Owned
    <3> QED BY <1>3, <2>0, RowSumInt
  <2>2. a \in Int /\ u \in Int /\ v \in Int
    <3> HIDE DEF Owned
    <3> QED BY <2>1, RowSumInt
  <2>3. Row(c, k - 1) = a + u + v
    BY DEF RowSum
  <2>4. OwnedBy(m, c) \in SUBSET FacesOf(m) /\ OwnedBy(m, owner) \in SUBSET FacesOf(m)
        /\ OwnedBy(m, c) = {f \in FacesOf(m) : m.lower[f] = c}
        /\ OwnedBy(m, owner) = {f \in FacesOf(m) : m.lower[f] = owner}
    BY DEF OwnedBy, FacesOf
  <2>5. new \in SUBSET FacesOf(m) /\ IsFiniteSet(new) /\ IsFiniteSet(OwnedBy(m, c))
    <3>1. new \in SUBSET FacesOf(m)
      BY <2>4
    <3> QED BY <2>4, <3>1, RowSumInt
  <2>6. acc[k][c] = (acc[k - 1][c] + (IF c = owner
                THEN SumOf(TimesUpper(m, x), OwnedBy(m, c)) % P
                ELSE SumOf(TimesOne(m, x[owner]), new) % P)) % P
    BY <1>1 DEF OwnerStep
  <2>7. \A f \in FacesOf(m) : m.lower[f] \in Int /\ m.lower[f] # m.upper[f]
    BY <1>2, FieldFacts
  <2>8. AboveBelow(m, c, k) = AboveBelow(m, c, k - 1) \cup new /\ AboveBelow(m, c, k - 1) \cap new = {}
    <3>1. ASSUME NEW f \in FacesOf(m) PROVE m.lower[f] < k <=> (m.lower[f] < k - 1 \/ m.lower[f] = owner)
      <4>1. PICK l \in Int : l = m.lower[f]
        BY <2>7
      <4>2. l < k <=> (l < k - 1 \/ l = k - 1)
        BY <2>0
      <4> QED BY <4>1, <4>2
    <3>2. \A f \in FacesOf(m) : ~(m.lower[f] < k - 1 /\ m.lower[f] = owner)
      BY <2>0
    <3> HIDE DEF owner
    <3> QED BY <2>4, <3>1, <3>2 DEF AboveBelow
  <2>9. CASE c = owner
    <3>1. new = {}
      BY <2>4, <2>7, <2>9
    <3>2. AboveBelow(m, c, k) = AboveBelow(m, c, k - 1) /\ Owned(c, k - 1) = {} /\ Owned(c, k) = OwnedBy(m, c)
      <4>1. ~(c < k - 1) /\ c < k
        BY <2>0, <2>9
      <4> HIDE DEF new
      <4> QED BY <2>8, <3>1, <4>1
    <3>3. u = 0
      <4> HIDE DEF Owned
      <4> QED BY <3>2, SumEmpty
    <3> DEFINE w == SumOf(TimesUpper(m, x), OwnedBy(m, c))
    <3>4. w \in Int
      BY <2>4, RowSumInt
    <3>5. Row(c, k) = a + w + v
      BY <3>2 DEF RowSum
    <3>6. acc[k][c] = (((a + u + v) % P) + (w % P)) % P
      BY <1>5, <2>3, <2>6, <2>9
    <3> HIDE DEF a, u, v, w, Row
    <3>7. a + (w + u) + v = a + w + v
      BY <2>2, <3>3, <3>4
    <3>8. (((a + u + v) % P) + (w % P)) % P = (((a + u + v) % P) + w) % P
      <4>1. a + u + v \in Int
        BY <2>2
      <4>2. (a + u + v) % P \in Int
        BY <4>1, Remainder
      <4> QED BY <3>4, <4>2, RemainderArithmetic
    <3>9. Added(a, u, v, w) = (a + (w + u) + v) % P
      BY <2>2, <3>4, AddedProduct
    <3> QED BY <3>5, <3>6, <3>7, <3>8, <3>9, Zenon DEF Added
  <2>10. CASE c # owner
    <3> DEFINE w == SumOf(TimesOne(m, x[owner]), new)
    <3>1. SumOf(TimesLower(m, x), new) = w /\ w \in Int
      <4>1. \A f \in new : f \in FacesOf(m) /\ m.lower[f] = owner
        BY <2>4
      <4>2. \A f \in new : TimesLower(m, x)[f] \in Int /\ TimesOne(m, x[owner])[f] = TimesLower(m, x)[f]
        <5>1. \A f \in FacesOf(m) : TimesOne(m, x[owner])[f] = m.coeff[f] * x[owner]
          BY DEF TimesOne
        <5>2. \A f \in FacesOf(m) : TimesLower(m, x)[f] = m.coeff[f] * x[m.lower[f]] /\ TimesLower(m, x)[f] \in Int
          BY <2>0, RowSumInt
        <5> HIDE DEF owner, new
        <5> QED BY <4>1, <5>1, <5>2
      <4> HIDE DEF new, owner
      <4>3. w = SumOf(TimesLower(m, x), new)
        BY <2>5, <4>2, SumSame
      <4>4. SumOf(TimesLower(m, x), new) \in Int
        BY <2>5, RowSumInt
      <4> QED BY <4>3, <4>4
    <3>2. Owned(c, k) = Owned(c, k - 1)
      <4>1. c < k <=> c < k - 1
        BY <2>0, <2>10
      <4> QED BY <4>1
    <3>3. SumOf(TimesLower(m, x), AboveBelow(m, c, k)) = v + w
      <4>1. \A f \in AboveBelow(m, c, k - 1) \cup new : TimesLower(m, x)[f] \in Int
        BY <2>1, <2>5, RowSumInt
      <4> HIDE DEF new
      <4>2. SumOf(TimesLower(m, x), AboveBelow(m, c, k - 1) \cup new) = v + SumOf(TimesLower(m, x), new)
        BY <2>1, <2>5, <2>8, <4>1, SumUnion
      <4> QED BY <2>8, <3>1, <4>2
    <3>4. Row(c, k) = a + u + (v + w)
      BY <3>2, <3>3 DEF RowSum
    <3>5. acc[k][c] = (((a + u + v) % P) + (w % P)) % P
      BY <1>5, <2>3, <2>6, <2>10
    <3> HIDE DEF a, u, v, w, Row
    <3>6. a + u + (v + w) = a + u + (w + v)
      BY <2>2, <3>1
    <3>7. (((a + u + v) % P) + (w % P)) % P = (((a + u + v) % P) + w) % P
      <4>1. a + u + v \in Int
        BY <2>2
      <4>2. (a + u + v) % P \in Int
        BY <4>1, Remainder
      <4> QED BY <3>1, <4>2, RemainderArithmetic
    <3>8. Added(a, u, v, w) = (a + u + (w + v)) % P
      BY <2>2, <3>1, AddedProduct
    <3> QED BY <3>4, <3>5, <3>6, <3>7, <3>8, Zenon DEF Added
  <2> QED BY <2>9, <2>10
<1>6. ASSUME NEW k \in Nat, k \in right PROVE k + 1 \in right
  <2>1. CASE k + 1 <= n
    <3>1. PICK j : j = k + 1
      OBVIOUS
    <3>2. j \in 1 .. n /\ j - 1 = k /\ k <= n
      BY <1>2, <2>1, <3>1
    <3>3. \A c \in CellsOf(m) : acc[j][c] = Row(c, j) % P
      <4> HIDE DEF Row
      <4> QED BY <1>5, <1>6, <3>2
    <3> HIDE DEF Row
    <3> QED BY <3>1, <3>3
  <2> QED BY <2>1
<1>7. n \in right
  <2> HIDE DEF right
  <2> QED BY <1>2, <1>4, <1>6, NumberInduction
<1>8. ASSUME NEW c \in CellsOf(m) PROVE MultiplyOwnerAccumulated(m, x)[c] = RowTimes(m, x, c)
  <2>1. Owned(c, n) = {f \in FacesOf(m) : m.lower[f] = c}
    BY <1>2 DEF OwnedBy, FacesOf
  <2>2. AboveBelow(m, c, n) = {f \in FacesOf(m) : m.upper[f] = c}
    <3>1. \A f \in FacesOf(m) : m.lower[f] \in CellsOf(m)
      BY FieldFacts
    <3>2. \A f \in FacesOf(m) : m.lower[f] < n
      BY <1>2, <3>1
    <3> QED BY <3>2 DEF AboveBelow
  <2>3. acc[n][c] = Row(c, n) % P
    BY <1>2, <1>7
  <2> HIDE DEF Owned
  <2> QED BY <1>1, <2>1, <2>2, <2>3, RowTimesIs
<1>9. MultiplyOwnerAccumulated(m, x) \in [CellsOf(m) -> Value]
  BY <1>1, <1>2, FieldFacts DEF FieldOf
<1> QED BY <1>8, <1>9 DEF Times

-----------------------------------------------------------------------------
(* Division modulo the prime P.                                            *)

\* Numbers a multiple of P apart stay so when a number is taken from both or
\* both are multiplied.
LEMMA CongruentArithmetic ==
  ASSUME NEW a \in Int, NEW b \in Int, Congruent(a, b), NEW q \in Int
  PROVE  /\ Congruent(a * q, b * q) /\ Congruent(P - a * q, P - b * q)
         /\ Congruent(P - a * q, -(b * q))
<1>0. PICK k \in Int : a - b = k * P
  BY DEF Congruent
<1>1. P \in Int /\ k * P \in Int /\ a * q \in Int /\ b * q \in Int /\ k * q \in Int /\ -(k * q) \in Int /\ 1 - k * q \in Int
  BY Remainder
<1>2. a * q - b * q = (k * q) * P
  <2>1. a = b + k * P
    BY <1>0, <1>1
  <2>2. a * q = b * q + (k * P) * q
    BY <1>1, <2>1
  <2>3. (k * P) * q = (k * q) * P
    BY <1>1
  <2> QED BY <1>1, <2>2, <2>3
<1>3. (P - a * q) - (P - b * q) = (-(k * q)) * P
  <2>1. (-(k * q)) * P = -((k * q) * P)
    BY <1>1
  <2> QED BY <1>1, <1>2, <2>1
<1>4. (P - a * q) - (-(b * q)) = (1 - k * q) * P
  <2>1. (1 - k * q) * P = P - ((k * q) * P)
    BY <1>1
  <2> QED BY <1>1, <1>2, <2>1
<1> QED BY <1>1, <1>2, <1>3, <1>4 DEF Congruent

\* A number that P does not divide has an inverse: the least positive number
\* congruent to a multiple of it divides P, so that it is 1.
LEMMA InverseExists ==
  ASSUME NEW a \in Int, a % P # 0
  PROVE  \E x \in Value : (a * x) % P = 1
<1> DEFINE S == {n \in Nat : n > 0 /\ \E x \in Int : Congruent(n, a * x)}
<1>0. P \in Nat /\ P > 1 /\ P \in Int
  BY Remainder
<1>1. S \in SUBSET Nat
  OBVIOUS
<1>2. a % P \in S
  <2>1. PICK q \in Int : \E s \in Int : s = q * P /\ a = s + (a % P)
    BY Remainder
  <2>2. PICK s \in Int : s = q * P /\ a = s + (a % P)
    BY <2>1
  <2>3. a % P \in Int /\ 0 <= a % P
    BY Remainder
  <2>4. -q \in Int /\ (-q) * P = -s /\ a * 1 = a
    BY <1>0, <2>2
  <2>5. (a % P) - a * 1 = (-q) * P
    BY <2>2, <2>3, <2>4
  <2>6. Congruent(a % P, a * 1)
    BY <2>4, <2>5 DEF Congruent
  <2>7. \E y \in Int : Congruent(a % P, a * y)
    BY <2>6
  <2>8. a % P \in Nat /\ a % P > 0
    BY <2>3
  <2> QED BY <2>7, <2>8, Zenon
<1>3. PICK d \in S : \A k \in S : d <= k
  <2> HIDE DEF S
  <2> QED BY <1>1, <1>2, LeastNatural
<1>4. d \in Nat /\ d > 0
  OBVIOUS
<1>5. PICK x \in Int : Congruent(d, a * x)
  OBVIOUS
<1>6. d <= a % P /\ d < P
  <2>1. d <= a % P
    <3> HIDE DEF S
    <3> QED BY <1>2, <1>3
  <2>2. a % P \in Int /\ a % P < P
    BY Remainder
  <2> QED BY <1>0, <1>4, <2>1, <2>2
<1>7. P % d = 0
  <2>1. PICK q \in Int, r \in Int : q = P \div d /\ r = P % d
    BY <1>0, <1>4
  <2>2. P = d * q + r /\ 0 <= r /\ r < d
    BY <1>0, <1>4, <2>1
  <2>3. r = P - d * q
    <3>1. d * q \in Int
      BY <1>4
    <3> QED BY <1>0, <2>2, <3>1
  <2>4. CASE r > 0
    <3>1. Congruent(P - d * q, -((a * x) * q)) /\ a * x \in Int
      BY <1>4, <1>5, CongruentArithmetic
    <3>2. -((a * x) * q) = a * (-(x * q)) /\ -(x * q) \in Int
      OBVIOUS
    <3>3. Congruent(r, a * (-(x * q)))
      BY <2>3, <3>1, <3>2, Zenon
    <3>4. r \in S
      <4>1. \E y \in Int : Congruent(r, a * y)
        BY <3>2, <3>3, Zenon
      <4>2. r \in Nat
        BY <2>4
      <4> QED BY <2>4, <4>1, <4>2, Zenon
    <3>5. d <= r
      <4> HIDE DEF S
      <4> QED BY <1>3, <3>4
    <3> QED BY <1>4, <2>2, <3>5
  <2>5. CASE r = 0
    BY <2>1, <2>5
  <2> QED BY <2>2, <2>4, <2>5
<1>8. d = 1
  <2>1. CASE d >= 2
    <3>1. d \in 2 .. P - 1
      BY <1>0, <1>4, <1>6, <2>1
    <3> QED BY <1>7, <3>1, PrimeAssumption
  <2> QED BY <1>4, <2>1
<1>9. (a * x) % P = 1
  <2>1. 1 % P = (a * x) % P
    BY <1>5, <1>8, SameRemainder
  <2>2. 1 % P = 1
    BY <1>0
  <2> QED BY <2>1, <2>2
<1>10. (a * (x % P)) % P = 1 /\ x % P \in Value
  BY <1>9, Remainder, RemainderArithmetic
<1> QED BY <1>10

\* Over divides, when that is possible.
LEMMA OverIs ==
  ASSUME NEW a \in Int, NEW b \in Int
  PROVE  /\ Over(a, b) \in Value
         /\ b % P # 0 => (b * Over(a, b)) % P = a % P
<1>1. PICK r : r = Reciprocal(b % P)
  OBVIOUS
<1>2. b % P \in Int
  BY Remainder
<1>3. r \in Value /\ (b % P # 0 => ((b % P) * r) % P = 1)
  <2>1. \E x \in Value : b % P = 0 \/ ((b % P) * x) % P = 1
    <3>1. CASE b % P = 0
      <4>1. 0 \in Value
        BY Remainder DEF Value
      <4> QED BY <3>1, <4>1
    <3>2. CASE b % P # 0
      <4>1. PICK x \in Value : (b * x) % P = 1
        BY <3>2, InverseExists
      <4>2. x \in Int
        BY RemainderOfValue
      <4>3. ((b % P) * x) % P = 1
        BY <4>1, <4>2, RemainderArithmetic
      <4> QED BY <4>3
    <3> QED BY <3>1, <3>2
  <2> QED BY <1>1, <2>1 DEF Reciprocal
<1>4. r \in Int
  BY <1>3, RemainderOfValue
<1>5. a * r \in Int /\ Over(a, b) = (a * r) % P
  BY <1>1, <1>4 DEF Over
<1>6. Over(a, b) \in Value
  BY <1>5, Remainder
<1>7. ASSUME b % P # 0 PROVE (b * Over(a, b)) % P = a % P
  <2>1. (b * Over(a, b)) % P = (b * (a * r)) % P
    BY <1>5, RemainderArithmetic
  <2>2. (b * r) % P = 1
    BY <1>3, <1>4, <1>7, RemainderArithmetic
  <2>3. b * (a * r) = a * (b * r) /\ b * r \in Int
    BY <1>4
  <2>4. (a * (b * r)) % P = (a * ((b * r) % P)) % P
    BY <2>3, RemainderArithmetic
  <2>5. a * 1 = a
    OBVIOUS
  <2> QED BY <2>1, <2>2, <2>3, <2>4, <2>5, Zenon
<1> QED BY <1>6, <1>7

\* what a fold computes of what it has computed so far
Follows(n, Y, base, h, i, next) ==
  /\ next = [T \in SUBSET (1 .. n) |-> next[T]]
  /\ \A T \in SUBSET (1 .. n) :
       T = {} \/ i[T \ {Max(T)}] \in Y => next[T] = FoldStep(h, base, i, T)

\* A fold of the steps h is a fold of what follows them, and whatever repeats
\* itself takes the places in their order.
LEMMA FoldFollows ==
  ASSUME NEW n \in Nat, NEW Y, NEW base \in Y, NEW h, IsStep(n, Y, h),
         NEW i, NEW next, Follows(n, Y, base, h, i, next)
  PROVE  /\ IsFold(n, Y, base, h, i) => i = next
         /\ i = next => TakesLast(n, Y, base, h, i)
<1>1. ASSUME IsFold(n, Y, base, h, i) PROVE i = next
  <2>1. \A T \in SUBSET (1 .. n) : T = {} \/ i[T \ {Max(T)}] \in Y
    BY <1>1 DEF IsFold
  <2>2. \A T \in SUBSET (1 .. n) : next[T] = FoldStep(h, base, i, T)
    BY <2>1 DEF Follows
  <2>3. next = [T \in SUBSET (1 .. n) |-> FoldStep(h, base, i, T)]
    BY <2>2 DEF Follows
  <2> QED BY <1>1, <2>3 DEF IsFold
<1>2. ASSUME i = next PROVE TakesLast(n, Y, base, h, i)
  <2>1. i[{}] = base
    <3>1. {} \in SUBSET (1 .. n)
      OBVIOUS
    <3>2. next[{}] = FoldStep(h, base, i, {})
      BY <3>1 DEF Follows
    <3> QED BY <1>2, <3>2 DEF FoldStep
  <2>2. ASSUME NEW T \in SUBSET (1 .. n), T # {}, i[T \ {Max(T)}] \in Y
        PROVE  i[T] = h[<<Max(T), i[T \ {Max(T)}]>>]
    <3>1. next[T] = FoldStep(h, base, i, T)
      BY <2>2 DEF Follows
    <3> QED BY <1>2, <2>2, <3>1 DEF FoldStep
  <2> QED BY <2>1, <2>2 DEF TakesLast
<1> QED BY <1>1, <1>2

-----------------------------------------------------------------------------
(* The other kernels return fields of their level.                         *)

\* Fields that depend on no sum.
LEMMA SimpleFields ==
  ASSUME NEW m, GoodMatrix(m)
  PROVE  /\ ZeroField(m.n) \in FieldOf(m)
         /\ \A x, y \in FieldOf(m) : /\ PlusField(x, y) \in FieldOf(m)
                                     /\ MinusField(x, y) \in FieldOf(m)
                                     /\ Residual(m, x, y) \in FieldOf(m)
<1>0. 0 \in Value /\ FieldOf(m) = [CellsOf(m) -> Value]
  <2>1. 0 \in Value
    BY Remainder DEF Value
  <2> QED BY <2>1, FieldFacts DEF FieldOf
<1>1. ZeroField(m.n) \in FieldOf(m)
  BY <1>0 DEF ZeroField, CellsOf
<1>2. ASSUME NEW x \in FieldOf(m), NEW y \in FieldOf(m)
      PROVE  PlusField(x, y) \in FieldOf(m) /\ MinusField(x, y) \in FieldOf(m)
  <2>1. DOMAIN x = CellsOf(m)
    BY <1>0
  <2>2. \A c \in CellsOf(m) : x[c] + y[c] \in Int /\ x[c] - y[c] \in Int
    BY FieldFacts
  <2>3. \A c \in CellsOf(m) : (x[c] + y[c]) % P \in Value /\ (x[c] - y[c]) % P \in Value
    BY <2>2, Remainder
  <2>4. /\ PlusField(x, y) = [c \in CellsOf(m) |-> (x[c] + y[c]) % P]
        /\ MinusField(x, y) = [c \in CellsOf(m) |-> (x[c] - y[c]) % P]
    BY <2>1, TableIs DEF PlusField, MinusField
  <2> QED BY <1>0, <2>3, <2>4
<1>3. ASSUME NEW x \in FieldOf(m), NEW y \in FieldOf(m) PROVE Residual(m, x, y) \in FieldOf(m)
  <2>1. Multiply(m, x) \in FieldOf(m)
    BY MultiplyIsTimes
  <2> QED BY <1>2, <2>1 DEF Residual
<1> QED BY <1>1, <1>2, <1>3

\* the map from the cells of one matrix to those of the next
Maps(map, fine, coarse) == map \in [CellsOf(fine) -> CellsOf(coarse)]

\* Fields that lead from one level to the next, or back.
LEMMA TransferFields ==
  ASSUME NEW fine, GoodMatrix(fine), NEW coarse, GoodMatrix(coarse), NEW map, Maps(map, fine, coarse)
  PROVE  /\ \A x \in FieldOf(fine) : RestrictField(map, coarse.n, x) \in FieldOf(coarse)
         /\ \A x \in FieldOf(coarse) : ProlongField(map, x) \in FieldOf(fine)
<1>0. /\ FieldOf(fine) = [CellsOf(fine) -> Value] /\ FieldOf(coarse) = [CellsOf(coarse) -> Value]
      /\ map \in [CellsOf(fine) -> CellsOf(coarse)] /\ CellsOf(coarse) = 0 .. coarse.n - 1
  BY FieldFacts DEF FieldOf, Maps, CellsOf
<1>1. ASSUME NEW x \in FieldOf(fine) PROVE RestrictField(map, coarse.n, x) \in FieldOf(coarse)
  <2> DEFINE S(C) == {c \in DOMAIN x : map[c] = C}
  <2>1. RestrictField(map, coarse.n, x) = [C \in CellsOf(coarse) |-> SumOf(x, S(C)) % P]
    BY <1>0, TableIs DEF RestrictField, Total, SumOf
  <2>2. ASSUME NEW C \in CellsOf(coarse) PROVE SumOf(x, S(C)) % P \in Value
    <3>1. S(C) \in SUBSET CellsOf(fine)
      BY <1>0
    <3> HIDE DEF S
    <3>2. IsFiniteSet(S(C)) /\ \A c \in S(C) : x[c] \in Int
      BY <3>1, FieldFacts, FS_Subset
    <3>3. SumOf(x, S(C)) \in Int
      BY <3>2, SumInt
    <3> QED BY <3>3, Remainder
  <2> HIDE DEF S
  <2> QED BY <1>0, <2>1, <2>2
<1>2. ASSUME NEW x \in FieldOf(coarse) PROVE ProlongField(map, x) \in FieldOf(fine)
  <2>1. ProlongField(map, x) = [c \in CellsOf(fine) |-> x[map[c]]]
    BY <1>0, TableIs DEF ProlongField
  <2> QED BY <1>0, <2>1
<1> QED BY <1>1, <1>2

\* One cell of a sweep, as a function of the sums it makes.
SweepStates(m) == [bPrime : FieldOf(m), psi : FieldOf(m)]

\* Smoothing a cell leaves fields.
LEMMA SmoothCellIs ==
  ASSUME NEW m, GoodMatrix(m), NEW s \in SweepStates(m), NEW c \in CellsOf(m)
  PROVE  SmoothCell(m, s, c) \in SweepStates(m)
<1> DEFINE owned == OwnedBy(m, c)
           sum == SumOf(TimesUpper(m, s.psi), owned)
           value == Over(s.bPrime[c] - (sum % P), m.diag[c])
           above(d) == {f \in owned : m.upper[f] = d}
           weight(d) == SumOf(m.coeff, above(d))
           b(d) == (s.bPrime[d] - value * (weight(d) % P)) % P
<1>0. /\ s.bPrime \in FieldOf(m) /\ s.psi \in FieldOf(m) /\ FieldOf(m) = [CellsOf(m) -> Value]
      /\ Index(m) = CellsOf(m)
  BY FieldFacts DEF SweepStates, FieldOf
<1>1. owned \in SUBSET FacesOf(m) /\ \A d \in CellsOf(m) : above(d) \in SUBSET FacesOf(m)
  BY DEF OwnedBy, FacesOf
<1> HIDE DEF owned, above
<1>2. SumTimesUpper(m, s.psi, owned) = sum /\ sum \in Int
  <2>1. IsFiniteSet(owned) /\ sum \in Int
    BY <1>0, <1>1, RowSumInt
  <2> QED BY <1>1, <2>1, SumUppers
<1>3. value \in Value
  <2>1. sum % P \in Int /\ s.bPrime[c] \in Int /\ m.diag[c] \in Int
    BY <1>0, <1>2, FieldFacts, Remainder
  <2>2. s.bPrime[c] - (sum % P) \in Int
    BY <2>1
  <2> QED BY <2>1, <2>2, OverIs
<1>4. SmoothCell(m, s, c) =
        [bPrime |-> [d \in Index(m) |-> b(d)], psi |-> [s.psi EXCEPT ![c] = value]]
  <2>1. SmoothCell(m, s, c) =
          LET val == Over(s.bPrime[c] - (SumTimesUpper(m, s.psi, owned) % P), m.diag[c])
          IN  [bPrime |-> Table([d \in Index(m) |-> (s.bPrime[d] - val * (weight(d) % P)) % P]),
               psi |-> Table([s.psi EXCEPT ![c] = val])]
    BY DEF SmoothCell, Total, SumTimesUpper, SumOf, owned, above
  <2> HIDE DEF weight
  <2> QED BY <1>2, <2>1, TableIs
<1> HIDE DEF value
<1>5. \A d \in CellsOf(m) : b(d) \in Value
  <2>1. ASSUME NEW d \in CellsOf(m) PROVE b(d) \in Value
    <3>1. weight(d) \in Int
      <4>1. IsFiniteSet(above(d)) /\ \A f \in above(d) : m.coeff[f] \in Int
        BY <1>1, FieldFacts, FS_Subset
      <4> QED BY <4>1, SumInt
    <3> HIDE DEF weight
    <3>2. weight(d) % P \in Int /\ value \in Int /\ s.bPrime[d] \in Int
      BY <1>0, <1>3, <3>1, FieldFacts, Remainder, RemainderOfValue
    <3>3. s.bPrime[d] - value * (weight(d) % P) \in Int
      BY <3>2
    <3> QED BY <3>3, Remainder
  <2> QED BY <2>1
<1> HIDE DEF b
<1>6. [d \in Index(m) |-> b(d)] \in FieldOf(m) /\ [s.psi EXCEPT ![c] = value] \in FieldOf(m)
  BY <1>0, <1>3, <1>5
<1> QED BY <1>4, <1>6 DEF SweepStates

\* A sweep visits the cells one by one.
SweepOnce(m, source_, x) ==
  FoldLeft(LAMBDA s, c : SmoothCell(m, s, c), [bPrime |-> source_, psi |-> x], Upwards(m.n)).psi

\* A sweep leaves a field.
LEMMA SweepField ==
  ASSUME NEW m, GoodMatrix(m), NEW b \in FieldOf(m), NEW x \in FieldOf(m)
  PROVE  SweepOnce(m, b, x) \in FieldOf(m)
<1> DEFINE n == m.n
           Y == SweepStates(m)
           base == [bPrime |-> b, psi |-> x]
           F(i) == [T \in SUBSET (1 .. n) |->
                      IF T = {} THEN base ELSE SmoothCell(m, i[T \ {Max(T)}], Upwards(n)[Max(T)])]
           it == CHOOSE i : i = F(i)
           h == [p \in (1 .. n) \X Y |-> SmoothCell(m, p[2], p[1] - 1)]
<1>1. SweepOnce(m, b, x) = it[1 .. n].psi
  BY DEF SweepOnce, FoldLeft, MapThenFoldSet, Upwards
<1>2. n \in Nat /\ CellsOf(m) = 0 .. n - 1 /\ \A k \in 1 .. n : Upwards(n)[k] = k - 1
  BY FieldFacts DEF Upwards, CellsOf
<1>3. base \in Y
  BY DEF SweepStates
<1>4. \A k \in 1 .. n : k - 1 \in CellsOf(m)
  BY <1>2
<1>5. IsStep(n, Y, h)
  <2>1. \A k \in 1 .. n : \A y \in Y : SmoothCell(m, y, k - 1) \in Y
    BY <1>4, SmoothCellIs
  <2> QED BY <2>1 DEF IsStep
<1>6. \A T \in SUBSET (1 .. n) : T # {} => Max(T) \in 1 .. n
  BY <1>2, LastPlace
<1>7. ASSUME NEW i PROVE Follows(n, Y, base, h, i, F(i))
  <2>1. ASSUME NEW T \in SUBSET (1 .. n), T # {}, i[T \ {Max(T)}] \in Y
        PROVE  F(i)[T] = FoldStep(h, base, i, T)
    <3>1. PICK k \in 1 .. n, y \in Y : k = Max(T) /\ y = i[T \ {Max(T)}]
      BY <1>6, <2>1
    <3>2. F(i)[T] = SmoothCell(m, y, k - 1)
      BY <1>2, <2>1, <3>1
    <3>3. h[<<k, y>>] = SmoothCell(m, y, k - 1)
      OBVIOUS
    <3> HIDE DEF F, h
    <3> QED BY <2>1, <3>1, <3>2, <3>3 DEF FoldStep
  <2>2. F(i)[{}] = FoldStep(h, base, i, {}) /\ F(i) = [T \in SUBSET (1 .. n) |-> F(i)[T]]
    BY DEF FoldStep
  <2> HIDE DEF F, h
  <2> QED BY <2>1, <2>2 DEF Follows
<1> HIDE DEF h, base, Y, n, F
<1>8. \E i : i = F(i)
  BY <1>2, <1>3, <1>5, <1>7, FoldsExist, FoldFollows
<1>9. it = F(it)
  BY <1>8
<1> HIDE DEF it
<1>10. TakesLast(n, Y, base, h, it)
  BY <1>2, <1>3, <1>5, <1>7, <1>9, FoldFollows
<1>11. PICK acc : IsLoop(n, Y, base, h, acc) /\ acc[n] = it[1 .. n]
  BY <1>2, <1>3, <1>5, <1>10, FoldRuns
<1>12. it[1 .. n] \in Y
  BY <1>2, <1>11 DEF IsLoop
<1> QED BY <1>1, <1>12 DEF SweepStates, Y

\* Any number of sweeps.
LEMMA SmoothField ==
  ASSUME NEW m, GoodMatrix(m), NEW b \in FieldOf(m), NEW x \in FieldOf(m), NEW nSweeps \in Int
  PROVE  GaussSeidelSmooth(m, x, b, nSweeps) \in FieldOf(m)
<1> DEFINE n == IF nSweeps < 0 THEN 0 ELSE nSweeps
           Y == FieldOf(m)
           F(i) == [T \in SUBSET (1 .. n) |->
                      IF T = {} THEN x ELSE SweepOnce(m, b, i[T \ {Max(T)}])]
           it == CHOOSE i : i = F(i)
           h == [p \in (1 .. n) \X Y |-> SweepOnce(m, b, p[2])]
<1>0. n \in Nat /\ 1 .. nSweeps = 1 .. n
  OBVIOUS
<1>1. GaussSeidelSmooth(m, x, b, nSweeps) = it[1 .. n]
  <2>1. GaussSeidelSmooth(m, x, b, nSweeps) =
          (CHOOSE i : i = [T \in SUBSET (1 .. nSweeps) |->
             IF T = {} THEN x ELSE SweepOnce(m, b, i[T \ {Max(T)}])])[1 .. nSweeps]
    BY DEF GaussSeidelSmooth, SweepOnce, FoldLeft, MapThenFoldSet, Upwards
  <2> HIDE DEF n
  <2> QED BY <1>0, <2>1
<1>2. x \in Y
  OBVIOUS
<1>5. IsStep(n, Y, h)
  <2>1. \A y \in Y : SweepOnce(m, b, y) \in Y
    BY SweepField
  <2> HIDE DEF n
  <2> QED BY <2>1 DEF IsStep
<1> HIDE DEF n
<1>6. \A T \in SUBSET (1 .. n) : T # {} => Max(T) \in 1 .. n
  BY <1>0, LastPlace
<1>7. ASSUME NEW i PROVE Follows(n, Y, x, h, i, F(i))
  <2>1. ASSUME NEW T \in SUBSET (1 .. n), T # {}, i[T \ {Max(T)}] \in Y
        PROVE  F(i)[T] = FoldStep(h, x, i, T)
    <3>1. PICK k \in 1 .. n, y \in Y : k = Max(T) /\ y = i[T \ {Max(T)}]
      BY <1>6, <2>1
    <3>2. F(i)[T] = SweepOnce(m, b, y)
      BY <2>1, <3>1
    <3>3. h[<<k, y>>] = SweepOnce(m, b, y)
      OBVIOUS
    <3> HIDE DEF F, h
    <3> QED BY <2>1, <3>1, <3>2, <3>3 DEF FoldStep
  <2>2. F(i)[{}] = FoldStep(h, x, i, {}) /\ F(i) = [T \in SUBSET (1 .. n) |-> F(i)[T]]
    BY DEF FoldStep
  <2> HIDE DEF F, h
  <2> QED BY <2>1, <2>2 DEF Follows
<1> HIDE DEF h, Y, F
<1>8. \E i : i = F(i)
  BY <1>0, <1>2, <1>5, <1>7, FoldsExist, FoldFollows
<1>9. it = F(it)
  BY <1>8
<1> HIDE DEF it
<1>10. TakesLast(n, Y, x, h, it)
  BY <1>0, <1>2, <1>5, <1>7, <1>9, FoldFollows
<1>11. PICK acc : IsLoop(n, Y, x, h, acc) /\ acc[n] = it[1 .. n]
  BY <1>0, <1>2, <1>5, <1>10, FoldRuns
<1>12. it[1 .. n] \in Y
  BY <1>0, <1>11 DEF IsLoop
<1> QED BY <1>1, <1>12 DEF Y

\* Scaling a correction.
LEMMA ScaleField ==
  ASSUME NEW m, GoodMatrix(m), NEW x \in FieldOf(m), NEW b \in FieldOf(m)
  PROVE  ScaleCorrection(m, x, b) \in FieldOf(m)
<1> DEFINE product == Multiply(m, x)
           denominator == InnerProduct(x, product)
           factor == Over(InnerProduct(x, b), IF denominator = 0 THEN 1 ELSE denominator)
           new(c) == (factor * x[c] + Over(b[c] - factor * product[c], m.diag[c])) % P
<1>1. ASSUME NEW y \in FieldOf(m) PROVE InnerProduct(x, y) \in Int
  <2>1. DOMAIN x = CellsOf(m)
    BY FieldFacts DEF FieldOf
  <2>2. InnerProduct(x, y) = SumCellTimes(x, y, CellsOf(m)) % P
    BY <2>1 DEF InnerProduct, Total, SumCellTimes
  <2>3. \A c \in CellsOf(m) : CellTimes(x, y, CellsOf(m))[c] \in Int
    <3>1. \A c \in CellsOf(m) : x[c] \in Int /\ y[c] \in Int
      BY FieldFacts
    <3> QED BY <3>1 DEF CellTimes
  <2>4. SumCellTimes(x, y, CellsOf(m)) \in Int
    BY <2>3, FieldFacts, SumCells, SumInt
  <2> QED BY <2>2, <2>4, Remainder
<1>2. product \in FieldOf(m)
  BY MultiplyIsTimes
<1> HIDE DEF product
<1>3. factor \in Int
  <2>1. InnerProduct(x, b) \in Int /\ denominator \in Int
    BY <1>1, <1>2
  <2>2. (IF denominator = 0 THEN 1 ELSE denominator) \in Int
    BY <2>1
  <2> HIDE DEF denominator
  <2>3. factor \in Value
    BY <2>1, <2>2, OverIs
  <2> HIDE DEF factor
  <2> QED BY <2>3, RemainderOfValue
<1>4. ScaleCorrection(m, x, b) = [c \in Index(m) |-> new(c)]
  BY TableIs DEF ScaleCorrection, product
<1> HIDE DEF factor
<1>5. ASSUME NEW c \in CellsOf(m) PROVE new(c) \in Value
  <2>1. x[c] \in Int /\ b[c] \in Int /\ product[c] \in Int /\ m.diag[c] \in Int
    BY <1>2, FieldFacts
  <2>2. b[c] - factor * product[c] \in Int
    BY <1>3, <2>1
  <2>3. Over(b[c] - factor * product[c], m.diag[c]) \in Int
    BY <2>1, <2>2, OverIs, RemainderOfValue
  <2>4. factor * x[c] + Over(b[c] - factor * product[c], m.diag[c]) \in Int
    BY <1>3, <2>1, <2>3
  <2> QED BY <2>4, Remainder
<1> HIDE DEF new
<1> QED BY <1>4, <1>5, FieldFacts DEF FieldOf

-----------------------------------------------------------------------------
(* Sums modulo P.                                                          *)

\* with the same remainder
Same(a, b) == a % P = b % P

\* Numbers with the same remainder may take each other's place.
LEMMA SameArithmetic ==
  ASSUME NEW a \in Int, NEW b \in Int, NEW c \in Int, NEW d \in Int, Same(a, b), Same(c, d)
  PROVE  Same(a + c, b + d) /\ Same(a - c, b - d) /\ Same(a * c, b * d)
<1>1. a % P = b % P /\ c % P = d % P
  BY DEF Same
<1>2. (a + c) % P = (b + d) % P
  <2>1. ((a % P) + c) % P = (a + c) % P
    BY RemainderArithmetic
  <2>2. ((b % P) + c) % P = (b + c) % P
    BY RemainderArithmetic
  <2>3. (b + (c % P)) % P = (b + c) % P
    BY RemainderArithmetic
  <2>4. (b + (d % P)) % P = (b + d) % P
    BY RemainderArithmetic
  <2> QED BY <1>1, <2>1, <2>2, <2>3, <2>4, Zenon
<1>3. (a - c) % P = (b - d) % P
  <2>1. ((a % P) - c) % P = (a - c) % P
    BY RemainderArithmetic
  <2>2. ((b % P) - c) % P = (b - c) % P
    BY RemainderArithmetic
  <2>3. (b - (c % P)) % P = (b - c) % P
    BY RemainderArithmetic
  <2>4. (b - (d % P)) % P = (b - d) % P
    BY RemainderArithmetic
  <2> QED BY <1>1, <2>1, <2>2, <2>3, <2>4, Zenon
<1>4. (a * c) % P = (b * d) % P
  <2>1. ((a % P) * c) % P = (a * c) % P
    BY RemainderArithmetic
  <2>2. ((b % P) * c) % P = (b * c) % P
    BY RemainderArithmetic
  <2>3. (b * (c % P)) % P = (b * c) % P
    BY RemainderArithmetic
  <2>4. (b * (d % P)) % P = (b * d) % P
    BY RemainderArithmetic
  <2> QED BY <1>1, <2>1, <2>2, <2>3, <2>4, Zenon
<1> QED BY <1>2, <1>3, <1>4, Zenon DEF Same

\* Same is an equivalence, of which a number and its remainder are an example.
LEMMA SameIs ==
  /\ \A a \in Int : Same(a % P, a) /\ Same(a, a % P) /\ Same(a, a)
  /\ \A a, b : Same(a, b) => Same(b, a)
  /\ \A a, b, c : Same(a, b) /\ Same(b, c) => Same(a, c)
  /\ \A a, b \in Value : Same(a, b) => a = b
<1>1. ASSUME NEW a \in Int PROVE Same(a % P, a) /\ Same(a, a % P) /\ Same(a, a)
  BY RemainderArithmetic, Zenon DEF Same
<1>2. ASSUME NEW a \in Value, NEW b \in Value, Same(a, b) PROVE a = b
  BY <1>2, RemainderOfValue, Zenon DEF Same
<1> QED BY <1>1, <1>2 DEF Same

\* A sum of differences, each known by its remainder.
LEMMA SumCombined ==
  ASSUME NEW S, IsFiniteSet(S), NEW a, NEW b, NEW h, NEW q \in Int,
         \A c \in S : a[c] \in Int /\ b[c] \in Int /\ h[c] \in Int /\ Same(h[c], a[c] - q * b[c])
  PROVE  Same(SumOf(h, S), SumOf(a, S) - q * SumOf(b, S))
<1> DEFINE good == {T \in SUBSET S : Same(SumOf(h, T), SumOf(a, T) - q * SumOf(b, T))}
<1>1. ASSUME NEW T \in SUBSET S, \A x \in T : T \ {x} \in good
      PROVE  T \in good
  <2>1. IsFiniteSet(T)
    BY FS_Subset
  <2>2. CASE T = {}
    <3>1. SumOf(h, T) = 0 /\ SumOf(a, T) = 0 /\ SumOf(b, T) = 0
      BY <2>2, SumEmpty
    <3>2. 0 - q * 0 = 0
      OBVIOUS
    <3>3. Same(0, 0)
      BY SameIs
    <3> QED BY <3>1, <3>2, <3>3
  <2>3. CASE T # {}
    <3> DEFINE t == First(T)
               R == T \ {t}
    <3>1. /\ SumOf(h, T) = h[t] + SumOf(h, R)
          /\ SumOf(a, T) = a[t] + SumOf(a, R)
          /\ SumOf(b, T) = b[t] + SumOf(b, R)
      BY <2>1, <2>3, SumFirst
    <3>2. t \in T /\ t \in S
      BY <2>3, FirstOf
    <3>3. Same(SumOf(h, R), SumOf(a, R) - q * SumOf(b, R))
      BY <1>1, <3>2
    <3>4. IsFiniteSet(R) /\ \A c \in R : h[c] \in Int /\ a[c] \in Int /\ b[c] \in Int
      BY <2>1, FS_RemoveElement
    <3> HIDE DEF t, R
    <3>5. SumOf(h, R) \in Int /\ SumOf(a, R) \in Int /\ SumOf(b, R) \in Int
      BY <3>4, SumInt
    <3>6. PICK u \in Int, v \in Int, w \in Int : u = SumOf(h, R) /\ v = SumOf(a, R) /\ w = SumOf(b, R)
      BY <3>5
    <3>7. PICK hh \in Int, aa \in Int, bb \in Int : hh = h[t] /\ aa = a[t] /\ bb = b[t]
      BY <3>2
    <3>8. Same(hh, aa - q * bb) /\ Same(u, v - q * w)
      BY <3>2, <3>3, <3>6, <3>7
    <3>9. aa - q * bb \in Int /\ v - q * w \in Int
      OBVIOUS
    <3>10. Same(hh + u, (aa - q * bb) + (v - q * w))
      BY <3>8, <3>9, SameArithmetic
    <3>11. (aa - q * bb) + (v - q * w) = (aa + v) - q * (bb + w)
      OBVIOUS
    <3>12. Same(SumOf(h, T), SumOf(a, T) - q * SumOf(b, T))
      BY <3>1, <3>6, <3>7, <3>10, <3>11, Zenon
    <3> QED BY <3>12
  <2> QED BY <2>2, <2>3
<1>2. S \in good
  <2> HIDE DEF good
  <2>1. \A T \in SUBSET S : T \in good
    BY <1>1, RemovalInduction
  <2> QED BY <2>1
<1> QED BY <1>2

\* A sum of numbers known by their remainders.
LEMMA SumsSame ==
  ASSUME NEW S, IsFiniteSet(S), NEW a, NEW h, \A c \in S : a[c] \in Int /\ h[c] \in Int /\ Same(h[c], a[c])
  PROVE  Same(SumOf(h, S), SumOf(a, S))
<1>1. \A c \in S : Same(h[c], a[c] - 0 * a[c])
  <2>1. \A z \in Int : z - 0 * z = z
    OBVIOUS
  <2> QED BY <2>1, Zenon
<1>2. Same(SumOf(h, S), SumOf(a, S) - 0 * SumOf(a, S))
  <2>1. 0 \in Int
    OBVIOUS
  <2> HIDE DEF Same
  <2> QED BY <1>1, <2>1, SumCombined
<1>3. SumOf(a, S) \in Int
  BY SumInt
<1>4. SumOf(a, S) - 0 * SumOf(a, S) = SumOf(a, S)
  BY <1>3
<1> QED BY <1>2, <1>4

-----------------------------------------------------------------------------
(* solveCoarsest: elimination with a pivot, and substitution.              *)

Rows(n) == 0 .. n - 1
Dense(n) == [Rows(n) -> [Rows(n) -> Value]]
Systems(n) == [singular : BOOLEAN, dense : Dense(n), rhs : [Rows(n) -> Value]]

\* what row r of D makes of x, on the columns S; and x as a solution
Dot(D, x, r, S) == SumOf(CellTimes(D[r], x, S), S)
Solves(n, x, D, b) == \A r \in Rows(n) : Same(Dot(D, x, r, Rows(n)), b[r])

\* A nonempty set of rows has a last one.
LEMMA LastRow ==
  ASSUME NEW n \in Nat, NEW T \in SUBSET Rows(n), T # {}
  PROVE  Max(T) \in T
<1> DEFINE S == {n - t : t \in T}
<1>0. \A t \in T : t \in Int /\ n - t \in Nat
  BY DEF Rows
<1>1. S \in SUBSET Nat /\ S # {}
  BY <1>0
<1>2. PICK s \in S : \A k \in S : s <= k
  BY <1>1, LeastNatural
<1>3. PICK x \in T : s = n - x
  OBVIOUS
<1>4. \A t \in T : x >= t
  <2>1. ASSUME NEW t \in T PROVE x >= t
    <3>1. n - t \in S
      OBVIOUS
    <3>2. n - x <= n - t
      <4> HIDE DEF S
      <4> QED BY <1>2, <1>3, <3>1
    <3>3. t \in Int /\ x \in Int /\ n \in Int
      BY <1>0
    <3> QED BY <3>2, <3>3
  <2> QED BY <2>1
<1> QED BY <1>4 DEF Max

\* One step of the elimination: rows change places, row from[r] less a multiple
\* of the row of the pivot becomes row r, with a zero below the pivot.
Exchanges(n, pivot, from) ==
  /\ from \in [Rows(n) -> Rows(n)]
  /\ \A r \in Rows(n) : /\ from[from[r]] = r
                        /\ r < pivot => from[r] = r
                        /\ r >= pivot => from[r] >= pivot
Reduces(n, e, pivot, from, q, d) ==
  /\ q \in [Rows(n) -> Value]
  /\ \A r \in Rows(n) : r <= pivot => q[r] = 0
  /\ \A r \in Rows(n) : \A c \in Rows(n) :
       d.dense[r][c] = (e.dense[from[r]][c] - q[r] * e.dense[from[pivot]][c]) % P
  /\ \A r \in Rows(n) : d.rhs[r] = (e.rhs[from[r]] - q[r] * e.rhs[from[pivot]]) % P
  /\ e.dense[from[pivot]][pivot] # 0
  /\ \A r \in Rows(n) : r > pivot =>
       Same(q[r] * e.dense[from[pivot]][pivot], e.dense[from[r]][pivot])
Reduction(n, e, pivot, d) ==
  /\ d \in Systems(n) /\ d.singular = FALSE
  /\ \E from : Exchanges(n, pivot, from) /\ \E q : Reduces(n, e, pivot, from, q, d)

\* One elimination below a pivot that is not zero is such a step.
LEMMA EliminateIs ==
  ASSUME NEW n \in Nat, NEW e \in Systems(n), NEW pivot \in Rows(n), PivotRows(e, pivot) # {}
  PROVE  Reduction(n, e, pivot, Eliminate(e, pivot))
<1> DEFINE best == Max(PivotRows(e, pivot))
           from == [r \in Rows(n) |-> IF r = pivot THEN best ELSE IF r = best THEN pivot ELSE r]
           D(r, c) == e.dense[from[r]][c]
           q == [r \in Rows(n) |-> IF r > pivot THEN Over(D(r, pivot), D(pivot, pivot)) ELSE 0]
           row(r) == [c \in Rows(n) |-> (D(r, c) - q[r] * D(pivot, c)) % P]
           b(r) == (e.rhs[from[r]] - q[r] * e.rhs[from[pivot]]) % P
<1>0. /\ e.rhs \in [Rows(n) -> Value] /\ e.dense \in [Rows(n) -> [Rows(n) -> Value]]
      /\ DOMAIN e.rhs = Rows(n)
  BY DEF Systems, Dense
<1>1. best \in Rows(n) /\ best >= pivot /\ e.dense[best][pivot] # 0
  <2>1. PivotRows(e, pivot) \in SUBSET Rows(n)
    BY <1>0 DEF PivotRows
  <2>2. best \in PivotRows(e, pivot)
    BY <2>1, LastRow
  <2> HIDE DEF best
  <2> QED BY <1>0, <2>2 DEF PivotRows
<1> HIDE DEF best
<1>2. Exchanges(n, pivot, from)
  <2>1. from \in [Rows(n) -> Rows(n)]
    BY <1>1
  <2>2. \A r \in Rows(n) : r \in Int
    BY DEF Rows
  <2>3. ASSUME NEW r \in Rows(n)
        PROVE from[from[r]] = r /\ (r < pivot => from[r] = r) /\ (r >= pivot => from[r] >= pivot)
    BY <1>1, <2>2
  <2> HIDE DEF from
  <2> QED BY <2>1, <2>3 DEF Exchanges
<1>3. D(pivot, pivot) # 0
  BY <1>1
<1>4. from \in [Rows(n) -> Rows(n)]
  BY <1>2 DEF Exchanges
<1>5. Eliminate(e, pivot) = [singular |-> FALSE,
                             dense |-> [r \in Rows(n) |-> row(r)],
                             rhs |-> [r \in Rows(n) |-> b(r)]]
  <2> DEFINE dense == [r \in Rows(n) |-> e.dense[from[r]]]
             rhs == [r \in Rows(n) |-> e.rhs[from[r]]]
             factor(r) == IF r > pivot THEN Over(dense[r][pivot], dense[pivot][pivot]) ELSE 0
  <2>1. Eliminate(e, pivot) =
          [singular |-> FALSE,
           dense |-> Table([r \in Rows(n) |-> Table([c \in Rows(n) |->
                        (dense[r][c] - factor(r) * dense[pivot][c]) % P])]),
           rhs |-> Table([r \in Rows(n) |-> (rhs[r] - factor(r) * rhs[pivot]) % P])]
    <3>1. DOMAIN rhs = Rows(n)
      OBVIOUS
    <3>2. Eliminate(e, pivot) =
          [singular |-> FALSE,
           dense |-> Table([r \in DOMAIN rhs |-> Table([c \in DOMAIN rhs |->
                        (dense[r][c] - factor(r) * dense[pivot][c]) % P])]),
           rhs |-> Table([r \in DOMAIN rhs |-> (rhs[r] - factor(r) * rhs[pivot]) % P])]
      BY <1>0 DEF Eliminate, best
    <3> HIDE DEF from, dense, rhs, factor
    <3> QED BY <3>1, <3>2
  <2>2. \A r \in Rows(n) : factor(r) = q[r]
    <3> HIDE DEF from
    <3> QED OBVIOUS
  <2>3. \A r \in Rows(n) : \A c \in Rows(n) :
          (dense[r][c] - factor(r) * dense[pivot][c]) % P = (D(r, c) - q[r] * D(pivot, c)) % P
    <3> HIDE DEF factor, q, from
    <3> QED BY <2>2
  <2>4. \A r \in Rows(n) : (rhs[r] - factor(r) * rhs[pivot]) % P = b(r)
    <3> HIDE DEF factor, q, from
    <3> QED BY <2>2
  <2> HIDE DEF factor, q, from, dense, rhs, D, b
  <2>5. \A r \in Rows(n) : [c \in Rows(n) |-> (dense[r][c] - factor(r) * dense[pivot][c]) % P] = row(r)
    BY <2>3
  <2> DEFINE made(r) == [c \in Rows(n) |-> (dense[r][c] - factor(r) * dense[pivot][c]) % P]
  <2>6. \A r \in Rows(n) : Table(made(r)) = row(r)
    BY <2>5, TableIs
  <2> HIDE DEF row, made
  <2>7. [r \in Rows(n) |-> Table(made(r))] = [r \in Rows(n) |-> row(r)]
    BY <2>6
  <2>8. [r \in Rows(n) |-> (rhs[r] - factor(r) * rhs[pivot]) % P] = [r \in Rows(n) |-> b(r)]
    BY <2>4
  <2>9. Table([r \in Rows(n) |-> Table(made(r))]) = [r \in Rows(n) |-> row(r)]
        /\ Table([r \in Rows(n) |-> (rhs[r] - factor(r) * rhs[pivot]) % P]) = [r \in Rows(n) |-> b(r)]
    BY <2>7, <2>8, TableIs
  <2> QED BY <2>1, <2>9, Zenon DEF made
<1> HIDE DEF from
<1>6. \A r, c \in Rows(n) : D(r, c) \in Value /\ D(r, c) \in Int /\ e.rhs[from[r]] \in Int
  BY <1>0, <1>4, RemainderOfValue
<1> HIDE DEF D
<1>7. q \in [Rows(n) -> Value] /\ \A r \in Rows(n) : q[r] \in Int
  <2>1. 0 \in Value
    BY Remainder DEF Value
  <2>2. \A r \in Rows(n) : Over(D(r, pivot), D(pivot, pivot)) \in Value
    BY <1>6, OverIs
  <2>3. q \in [Rows(n) -> Value]
    BY <2>1, <2>2
  <2> HIDE DEF q
  <2> QED BY <2>3, RemainderOfValue
<1>8. \A r \in Rows(n) : r > pivot => Same(q[r] * D(pivot, pivot), D(r, pivot))
  <2>1. ASSUME NEW r \in Rows(n), r > pivot PROVE Same(q[r] * D(pivot, pivot), D(r, pivot))
    <3>1. PICK z \in Value, w \in Value : z = D(pivot, pivot) /\ w = D(r, pivot)
      BY <1>6
    <3>2. z \in Int /\ w \in Int /\ z % P # 0
      BY <1>3, <3>1, RemainderOfValue DEF D
    <3>3. (z * Over(w, z)) % P = w % P /\ Over(w, z) \in Int
      BY <3>2, OverIs, RemainderOfValue
    <3>4. q[r] = Over(w, z)
      BY <2>1, <3>1
    <3>5. z * Over(w, z) = Over(w, z) * z
      BY <3>2, <3>3
    <3> HIDE DEF q
    <3> QED BY <3>1, <3>3, <3>4, <3>5 DEF Same
  <2> QED BY <2>1
<1>9. \A r \in Rows(n) : r <= pivot => q[r] = 0
  <2>1. \A r \in Rows(n) : r \in Int
    BY DEF Rows
  <2> QED BY <2>1
<1> HIDE DEF q
<1>10. \A r, c \in Rows(n) : (D(r, c) - q[r] * D(pivot, c)) % P \in Value /\ b(r) \in Value
  <2>1. ASSUME NEW r \in Rows(n), NEW c \in Rows(n)
        PROVE  D(r, c) - q[r] * D(pivot, c) \in Int /\ e.rhs[from[r]] - q[r] * e.rhs[from[pivot]] \in Int
    <3>1. D(r, c) \in Int /\ D(pivot, c) \in Int /\ q[r] \in Int /\ e.rhs[from[r]] \in Int /\ e.rhs[from[pivot]] \in Int
      BY <1>6, <1>7
    <3> QED BY <3>1
  <2> QED BY <2>1, Remainder
<1> DEFINE d == Eliminate(e, pivot)
<1>11. \A r, c \in Rows(n) : d.dense[r][c] = (D(r, c) - q[r] * D(pivot, c)) % P /\ d.rhs[r] = b(r)
  BY <1>5
<1>12. d \in Systems(n) /\ d.singular = FALSE
  <2> HIDE DEF b
  <2> QED BY <1>5, <1>10 DEF Systems, Dense
<1> HIDE DEF d
<1>13. Reduces(n, e, pivot, from, q, d)
  BY <1>3, <1>7, <1>8, <1>9, <1>11 DEF Reduces, D
<1> QED BY <1>2, <1>12, <1>13 DEF Reduction, d

\* A step of the loop: without a pivot the matrix is singular, for good.
EliminationStep(e, pivot) ==
  IF e.singular \/ PivotRows(e, pivot) = {} THEN [e EXCEPT !.singular = TRUE] ELSE Eliminate(e, pivot)

\* A step that finds the matrix nonsingular had found it so before.
LEMMA EliminationStepIs ==
  ASSUME NEW n \in Nat, NEW e \in Systems(n), NEW pivot \in Rows(n)
  PROVE  /\ EliminationStep(e, pivot) \in Systems(n)
         /\ EliminationStep(e, pivot).singular = FALSE =>
              e.singular = FALSE /\ Reduction(n, e, pivot, EliminationStep(e, pivot))
<1>1. CASE e.singular \/ PivotRows(e, pivot) = {}
  <2>1. EliminationStep(e, pivot) = [e EXCEPT !.singular = TRUE]
    BY <1>1 DEF EliminationStep
  <2>2. [e EXCEPT !.singular = TRUE] \in Systems(n) /\ [e EXCEPT !.singular = TRUE].singular = TRUE
    BY DEF Systems
  <2> QED BY <2>1, <2>2
<1>2. CASE ~(e.singular \/ PivotRows(e, pivot) = {})
  <2>1. EliminationStep(e, pivot) = Eliminate(e, pivot)
    BY <1>2 DEF EliminationStep
  <2>2. Reduction(n, e, pivot, Eliminate(e, pivot))
    BY <1>2, EliminateIs
  <2>3. e.singular \in BOOLEAN
    BY DEF Systems
  <2> QED BY <1>2, <2>1, <2>2, <2>3 DEF Reduction
<1> QED BY <1>1, <1>2

\* The elimination takes the pivots one by one.
Start(dense, b) == [singular |-> FALSE, dense |-> dense, rhs |-> b]
EliminationRun(n, dense, b, acc) ==
  /\ acc \in [0 .. n -> Systems(n)]
  /\ acc[0] = Start(dense, b) /\ acc[n] = Elimination(dense, b)
  /\ \A k \in 1 .. n : acc[k] = EliminationStep(acc[k - 1], k - 1)

\* The elimination is such a run.
LEMMA EliminationRuns ==
  ASSUME NEW n \in Nat, NEW dense \in Dense(n), NEW b \in [Rows(n) -> Value]
  PROVE  \E acc : EliminationRun(n, dense, b, acc)
<1> DEFINE Y == Systems(n)
           base == Start(dense, b)
           F(i) == [T \in SUBSET (1 .. n) |->
                      IF T = {} THEN base ELSE EliminationStep(i[T \ {Max(T)}], Upwards(n)[Max(T)])]
           it == CHOOSE i : i = F(i)
           h == [p \in (1 .. n) \X Y |-> EliminationStep(p[2], p[1] - 1)]
<1>0. DOMAIN b = Rows(n) /\ Cardinality(Rows(n)) = n
  <2>1. Cardinality(0 .. n - 1) = n
    <3>1. 0 \in Int /\ n - 1 \in Int
      OBVIOUS
    <3>2. Cardinality(0 .. n - 1) = IF 0 > n - 1 THEN 0 ELSE (n - 1) - 0 + 1
      BY <3>1, FS_Interval
    <3> QED BY <3>2
  <2> QED BY <2>1 DEF Rows
<1>1. Elimination(dense, b) = it[1 .. n]
  <2>1. Elimination(dense, b) =
          (CHOOSE i : i = [T \in SUBSET (1 .. Cardinality(DOMAIN b)) |->
             IF T = {} THEN base
             ELSE EliminationStep(i[T \ {Max(T)}], Upwards(Cardinality(DOMAIN b))[Max(T)])])
          [1 .. Cardinality(DOMAIN b)]
    BY DEF Elimination, EliminationStep, FoldLeft, MapThenFoldSet, Upwards, Start
  <2> QED BY <1>0, <2>1
<1>2. n \in Nat /\ Rows(n) = 0 .. n - 1 /\ \A k \in 1 .. n : Upwards(n)[k] = k - 1
  BY DEF Upwards, Rows
<1>3. base \in Y
  BY DEF Start, Systems
<1>4. \A k \in 1 .. n : k - 1 \in Rows(n)
  BY <1>2
<1>5. IsStep(n, Y, h)
  <2>1. \A k \in 1 .. n : \A y \in Y : EliminationStep(y, k - 1) \in Y
    BY <1>4, EliminationStepIs
  <2> QED BY <2>1 DEF IsStep
<1>6. \A T \in SUBSET (1 .. n) : T # {} => Max(T) \in 1 .. n
  BY <1>2, LastPlace
<1>7. ASSUME NEW i PROVE Follows(n, Y, base, h, i, F(i))
  <2>1. ASSUME NEW T \in SUBSET (1 .. n), T # {}, i[T \ {Max(T)}] \in Y
        PROVE  F(i)[T] = FoldStep(h, base, i, T)
    <3>1. PICK k \in 1 .. n, y \in Y : k = Max(T) /\ y = i[T \ {Max(T)}]
      BY <1>6, <2>1
    <3>2. F(i)[T] = EliminationStep(y, k - 1)
      BY <1>2, <2>1, <3>1
    <3>3. h[<<k, y>>] = EliminationStep(y, k - 1)
      OBVIOUS
    <3> HIDE DEF F, h
    <3> QED BY <2>1, <3>1, <3>2, <3>3 DEF FoldStep
  <2>2. F(i)[{}] = FoldStep(h, base, i, {}) /\ F(i) = [T \in SUBSET (1 .. n) |-> F(i)[T]]
    BY DEF FoldStep
  <2> HIDE DEF F, h
  <2> QED BY <2>1, <2>2 DEF Follows
<1>8. \A k \in 1 .. n : \A y \in Y : h[<<k, y>>] = EliminationStep(y, k - 1)
  OBVIOUS
<1> HIDE DEF h, base, Y, F
<1>9. \E i : i = F(i)
  BY <1>2, <1>3, <1>5, <1>7, FoldsExist, FoldFollows
<1>10. it = F(it)
  BY <1>9
<1> HIDE DEF it
<1>11. TakesLast(n, Y, base, h, it)
  BY <1>2, <1>3, <1>5, <1>7, <1>10, FoldFollows
<1>12. PICK acc : IsLoop(n, Y, base, h, acc) /\ acc[n] = it[1 .. n]
  BY <1>2, <1>3, <1>5, <1>11, FoldRuns
<1>13. \A k \in 1 .. n : acc[k] = EliminationStep(acc[k - 1], k - 1)
  <2>1. \A k \in 1 .. n : acc[k - 1] \in Y
    BY <1>2, <1>12 DEF IsLoop
  <2> QED BY <1>8, <1>12, <2>1 DEF IsLoop
<1>14. acc \in [0 .. n -> Y] /\ acc[0] = base
  BY <1>12 DEF IsLoop
<1> QED BY <1>1, <1>12, <1>13, <1>14 DEF EliminationRun, Y, base

\* The right-hand side has no part in the choice of the pivots.
LEMMA PivotsOfDense ==
  ASSUME NEW n \in Nat, NEW e \in Systems(n), NEW d \in Systems(n), NEW pivot \in Rows(n),
         e.dense = d.dense, e.singular = d.singular
  PROVE  /\ EliminationStep(e, pivot).dense = EliminationStep(d, pivot).dense
         /\ EliminationStep(e, pivot).singular = EliminationStep(d, pivot).singular
<1>1. DOMAIN e.rhs = Rows(n) /\ DOMAIN d.rhs = Rows(n)
  BY DEF Systems
<1>2. PivotRows(e, pivot) = PivotRows(d, pivot)
  BY <1>1 DEF PivotRows
<1>3. Eliminate(e, pivot).dense = Eliminate(d, pivot).dense /\ Eliminate(e, pivot).singular = Eliminate(d, pivot).singular
  <2> DEFINE best(x) == Max(PivotRows(x, pivot))
             from(x) == [r \in DOMAIN x.rhs |-> IF r = pivot THEN best(x) ELSE IF r = best(x) THEN pivot ELSE r]
             dense(x) == [r \in DOMAIN x.rhs |-> x.dense[from(x)[r]]]
             factor(x, r) == IF r > pivot THEN Over(dense(x)[r][pivot], dense(x)[pivot][pivot]) ELSE 0
             new(x) == Table([r \in DOMAIN x.rhs |-> Table([c \in DOMAIN x.rhs |->
                         (dense(x)[r][c] - factor(x, r) * dense(x)[pivot][c]) % P])])
  <2>1. best(e) = best(d)
    BY <1>2
  <2>2. from(e) = from(d)
    <3> HIDE DEF best
    <3> QED BY <1>1, <2>1
  <2>3. dense(e) = dense(d)
    <3> HIDE DEF from
    <3> QED BY <1>1, <2>2
  <2>4. new(e) = new(d)
    <3>1. \A r : factor(e, r) = factor(d, r)
      <4> HIDE DEF dense
      <4> QED BY <2>3
    <3> HIDE DEF dense, factor
    <3> QED BY <1>1, <2>3, <3>1
  <2>5. Eliminate(e, pivot).dense = new(e) /\ Eliminate(d, pivot).dense = new(d)
    BY DEF Eliminate
  <2>6. Eliminate(e, pivot).singular = FALSE /\ Eliminate(d, pivot).singular = FALSE
    BY DEF Eliminate
  <2> HIDE DEF new
  <2> QED BY <2>4, <2>5, <2>6
<1>4. CASE e.singular \/ PivotRows(e, pivot) = {}
  <2>1. EliminationStep(e, pivot) = [e EXCEPT !.singular = TRUE] /\ EliminationStep(d, pivot) = [d EXCEPT !.singular = TRUE]
    BY <1>2, <1>4 DEF EliminationStep
  <2> QED BY <2>1 DEF Systems
<1>5. CASE ~(e.singular \/ PivotRows(e, pivot) = {})
  <2>1. EliminationStep(e, pivot) = Eliminate(e, pivot) /\ EliminationStep(d, pivot) = Eliminate(d, pivot)
    BY <1>2, <1>5 DEF EliminationStep
  <2> QED BY <1>3, <2>1
<1> QED BY <1>4, <1>5

\* A matrix is singular whatever it is solved for.
LEMMA SingularIs ==
  ASSUME NEW n \in Nat, NEW dense \in Dense(n), NEW b \in [Rows(n) -> Value]
  PROVE  Singular(dense) = Elimination(dense, b).singular
<1> DEFINE zero == [r \in Rows(n) |-> 0]
<1>1. Singular(dense) = Elimination(dense, zero).singular
  <2>1. DOMAIN dense = Rows(n)
    BY DEF Dense
  <2> QED BY <2>1 DEF Singular
<1>2. zero \in [Rows(n) -> Value]
  <2>1. 0 \in Value
    BY Remainder DEF Value
  <2> QED BY <2>1
<1> HIDE DEF zero
<1>3. PICK acc : EliminationRun(n, dense, b, acc)
  BY EliminationRuns
<1>4. PICK bcc : EliminationRun(n, dense, zero, bcc)
  BY <1>2, EliminationRuns
<1> DEFINE good == {k \in Nat : k <= n => acc[k].dense = bcc[k].dense /\ acc[k].singular = bcc[k].singular}
<1>5. 0 \in good
  <2>1. acc[0] = Start(dense, b) /\ bcc[0] = Start(dense, zero)
    BY <1>3, <1>4 DEF EliminationRun
  <2>2. acc[0].dense = bcc[0].dense /\ acc[0].singular = bcc[0].singular
    BY <2>1 DEF Start
  <2> QED BY <2>2
<1>6. ASSUME NEW k \in Nat, k \in good PROVE k + 1 \in good
  <2>1. CASE k + 1 <= n
    <3>1. PICK j : j = k + 1
      OBVIOUS
    <3>2. j \in 1 .. n /\ j - 1 = k /\ k <= n /\ k \in Rows(n) /\ k \in 0 .. n
      BY <2>1, <3>1 DEF Rows
    <3>3. acc[k] \in Systems(n) /\ bcc[k] \in Systems(n)
      BY <1>3, <1>4, <3>2 DEF EliminationRun
    <3>4. acc[j] = EliminationStep(acc[k], k) /\ bcc[j] = EliminationStep(bcc[k], k)
      BY <1>3, <1>4, <3>2 DEF EliminationRun
    <3>5. acc[k].dense = bcc[k].dense /\ acc[k].singular = bcc[k].singular
      BY <1>6, <3>2
    <3>6. acc[j].dense = bcc[j].dense /\ acc[j].singular = bcc[j].singular
      BY <3>2, <3>3, <3>4, <3>5, PivotsOfDense
    <3> QED BY <3>1, <3>6
  <2> QED BY <2>1
<1>7. n \in good
  <2> HIDE DEF good
  <2> QED BY <1>5, <1>6, NumberInduction
<1>8. acc[n].singular = bcc[n].singular
  BY <1>7
<1> QED BY <1>1, <1>3, <1>4, <1>8 DEF EliminationRun

\* A row times a vector, on some columns.
LEMMA DotIs ==
  ASSUME NEW n \in Nat, NEW D \in Dense(n), NEW x \in [Rows(n) -> Value], NEW r \in Rows(n)
  PROVE  /\ IsFiniteSet(Rows(n))
         /\ \A c \in Rows(n) : /\ D[r][c] \in Value /\ D[r][c] \in Int
                               /\ x[c] \in Value /\ x[c] \in Int /\ D[r][c] * x[c] \in Int
         /\ \A S \in SUBSET Rows(n) :
              /\ IsFiniteSet(S) /\ Dot(D, x, r, S) \in Int
              /\ \A c \in S : /\ CellTimes(D[r], x, S)[c] = D[r][c] * x[c]
                              /\ CellTimes(D[r], x, S)[c] \in Int
<1>1. IsFiniteSet(Rows(n))
  <2>1. IsFiniteSet(0 .. n - 1)
    BY FS_Interval
  <2> QED BY <2>1 DEF Rows
<1>2. ASSUME NEW c \in Rows(n)
      PROVE  D[r][c] \in Value /\ D[r][c] \in Int /\ x[c] \in Value /\ x[c] \in Int /\ D[r][c] * x[c] \in Int
  <2>1. D[r][c] \in Value /\ x[c] \in Value
    BY DEF Dense
  <2>2. D[r][c] \in Int /\ x[c] \in Int
    BY <2>1, RemainderOfValue
  <2> QED BY <2>1, <2>2
<1>3. ASSUME NEW S \in SUBSET Rows(n)
      PROVE  /\ IsFiniteSet(S) /\ Dot(D, x, r, S) \in Int
             /\ \A c \in S : /\ CellTimes(D[r], x, S)[c] = D[r][c] * x[c]
                             /\ CellTimes(D[r], x, S)[c] \in Int
  <2>1. IsFiniteSet(S)
    BY <1>1, FS_Subset
  <2>2. \A c \in S : CellTimes(D[r], x, S)[c] = D[r][c] * x[c]
    BY DEF CellTimes
  <2>3. \A c \in S : CellTimes(D[r], x, S)[c] \in Int
    BY <1>2, <2>2
  <2>4. Dot(D, x, r, S) \in Int
    BY <2>1, <2>3, SumInt DEF Dot
  <2> QED BY <2>1, <2>2, <2>3, <2>4
<1> QED BY <1>1, <1>2, <1>3

\* What solves the rows after a step solves those before it.
LEMMA StepSolves ==
  ASSUME NEW n \in Nat, NEW e \in Systems(n), NEW pivot \in Rows(n), NEW d, Reduction(n, e, pivot, d),
         NEW x \in [Rows(n) -> Value], Solves(n, x, d.dense, d.rhs)
  PROVE  Solves(n, x, e.dense, e.rhs)
<1>1. PICK from : Exchanges(n, pivot, from) /\ \E q : Reduces(n, e, pivot, from, q, d)
  BY DEF Reduction
<1>2. PICK q : Reduces(n, e, pivot, from, q, d)
  BY <1>1
<1>3. PICK p : p = from[pivot]
  OBVIOUS
<1>4. /\ p \in Rows(n) /\ \A r \in Rows(n) : from[r] \in Rows(n) /\ from[from[r]] = r
      /\ \A r \in Rows(n) : q[r] \in Value
      /\ q[pivot] = 0
  <2>1. from \in [Rows(n) -> Rows(n)] /\ \A r \in Rows(n) : from[from[r]] = r
    BY <1>1 DEF Exchanges
  <2>2. q \in [Rows(n) -> Value] /\ \A r \in Rows(n) : r <= pivot => q[r] = 0
    BY <1>2 DEF Reduces
  <2>3. pivot <= pivot
    BY DEF Rows
  <2> QED BY <1>3, <2>1, <2>2, <2>3
<1>5. /\ e.dense \in Dense(n) /\ d.dense \in Dense(n)
      /\ e.rhs \in [Rows(n) -> Value] /\ d.rhs \in [Rows(n) -> Value]
  BY DEF Reduction, Systems
<1>6. \A r \in Rows(n) : q[r] \in Int /\ e.rhs[r] \in Int /\ d.rhs[r] \in Int
  BY <1>4, <1>5, RemainderOfValue
<1> DEFINE A(r) == Dot(e.dense, x, r, Rows(n))
<1>7. \A r \in Rows(n) : A(r) \in Int /\ Dot(d.dense, x, r, Rows(n)) \in Int
  <2>1. Rows(n) \in SUBSET Rows(n)
    OBVIOUS
  <2> QED BY <1>5, <2>1, DotIs
<1>8. ASSUME NEW r \in Rows(n) PROVE Same(Dot(d.dense, x, r, Rows(n)), A(from[r]) - q[r] * A(p))
  <2> DEFINE a == CellTimes(e.dense[from[r]], x, Rows(n))
             b == CellTimes(e.dense[p], x, Rows(n))
             h == CellTimes(d.dense[r], x, Rows(n))
  <2>0. from[r] \in Rows(n) /\ q[r] \in Int /\ IsFiniteSet(Rows(n)) /\ Rows(n) \in SUBSET Rows(n)
    BY <1>4, <1>5, <1>6, DotIs
  <2>1. ASSUME NEW c \in Rows(n)
        PROVE  a[c] \in Int /\ b[c] \in Int /\ h[c] \in Int /\ Same(h[c], a[c] - q[r] * b[c])
    <3>1. PICK u \in Int, v \in Int, z \in Int, y \in Int :
            u = e.dense[from[r]][c] /\ v = e.dense[p][c] /\ z = x[c] /\ y = d.dense[r][c]
      BY <1>4, <1>5, <2>0, DotIs
    <3>2. a[c] = u * z /\ b[c] = v * z /\ h[c] = y * z
      BY <1>4, <1>5, <2>0, <3>1, DotIs
    <3>3. y = (u - q[r] * v) % P
      BY <1>2, <1>3, <3>1 DEF Reduces
    <3>4. PICK k \in Int : k = q[r]
      BY <2>0
    <3>5. u - k * v \in Int
      OBVIOUS
    <3>6. Same(y, u - k * v) /\ Same(z, z)
      BY <3>3, <3>4, <3>5, SameIs
    <3>7. Same(y * z, (u - k * v) * z)
      BY <3>5, <3>6, SameArithmetic
    <3>8. (u - k * v) * z = u * z - k * (v * z)
      OBVIOUS
    <3>9. u * z \in Int /\ v * z \in Int /\ y * z \in Int
      OBVIOUS
    <3> QED BY <3>2, <3>4, <3>7, <3>8, <3>9, Zenon
  <2> HIDE DEF a, b, h
  <2>2. Same(SumOf(h, Rows(n)), SumOf(a, Rows(n)) - q[r] * SumOf(b, Rows(n)))
    BY <2>0, <2>1, SumCombined
  <2> QED BY <2>2 DEF Dot, a, b, h
<1>9. ASSUME NEW r \in Rows(n)
      PROVE  Same(A(from[r]) - q[r] * A(p), e.rhs[from[r]] - q[r] * e.rhs[p])
             /\ A(from[r]) - q[r] * A(p) \in Int /\ e.rhs[from[r]] - q[r] * e.rhs[p] \in Int
  <2>1. from[r] \in Rows(n)
    BY <1>4
  <2>2. PICK i \in Int, j \in Int, k \in Int, u \in Int, v \in Int :
          i = A(from[r]) /\ j = A(p) /\ k = q[r] /\ u = e.rhs[from[r]] /\ v = e.rhs[p]
    BY <1>4, <1>6, <1>7, <2>1
  <2>3. i - k * j \in Int /\ u - k * v \in Int
    OBVIOUS
  <2>4. d.rhs[r] = (u - k * v) % P
    BY <1>2, <1>3, <2>2 DEF Reduces
  <2>5. Same(d.rhs[r], u - k * v)
    BY <2>3, <2>4, SameIs
  <2>6. Same(Dot(d.dense, x, r, Rows(n)), i - k * j)
    BY <1>8, <2>2
  <2>7. Same(Dot(d.dense, x, r, Rows(n)), d.rhs[r])
    BY DEF Solves
  <2>8. Same(i - k * j, u - k * v)
    BY <2>5, <2>6, <2>7, SameIs, Zenon
  <2> HIDE DEF A
  <2> QED BY <2>2, <2>3, <2>8, Zenon
<1> HIDE DEF A
<1>10. Same(A(p), e.rhs[p])
  <2>1. PICK j \in Int, v \in Int : j = A(p) /\ v = e.rhs[p]
    BY <1>4, <1>6, <1>7
  <2>2. Same(j - 0 * j, v - 0 * v)
    BY <1>3, <1>4, <1>9, <2>1
  <2>3. j - 0 * j = j /\ v - 0 * v = v
    OBVIOUS
  <2> QED BY <2>1, <2>2, <2>3
<1>11. ASSUME NEW r \in Rows(n) PROVE Same(A(from[r]), e.rhs[from[r]])
  <2>1. from[r] \in Rows(n)
    BY <1>4
  <2>2. PICK i \in Int, j \in Int, k \in Int, u \in Int, v \in Int :
          i = A(from[r]) /\ j = A(p) /\ k = q[r] /\ u = e.rhs[from[r]] /\ v = e.rhs[p]
    BY <1>4, <1>6, <1>7, <2>1
  <2>3. i - k * j \in Int /\ u - k * v \in Int /\ k * j \in Int /\ k * v \in Int
    OBVIOUS
  <2>4. Same(i - k * j, u - k * v) /\ Same(j, v) /\ Same(k, k)
    BY <1>9, <1>10, <2>2, SameIs
  <2>5. Same(k * j, k * v)
    BY <2>4, SameArithmetic
  <2>6. Same((i - k * j) + k * j, (u - k * v) + k * v)
    BY <2>3, <2>4, <2>5, SameArithmetic
  <2>7. (i - k * j) + k * j = i /\ (u - k * v) + k * v = u
    OBVIOUS
  <2> QED BY <2>2, <2>6, <2>7
<1>12. \A r \in Rows(n) : Same(A(r), e.rhs[r])
  BY <1>4, <1>11
<1> QED BY <1>12 DEF Solves, A

\* the first k columns have zeros below the diagonal, and none on it
Triangular(n, D, k) ==
  \A j \in Rows(n) : j < k => D[j][j] # 0 /\ \A r \in Rows(n) : r > j => D[r][j] = 0

\* A step makes one more column so.
LEMMA StepTriangular ==
  ASSUME NEW n \in Nat, NEW e \in Systems(n), NEW pivot \in Rows(n), NEW d, Reduction(n, e, pivot, d),
         Triangular(n, e.dense, pivot)
  PROVE  Triangular(n, d.dense, pivot + 1)
<1>1. PICK from : Exchanges(n, pivot, from) /\ \E q : Reduces(n, e, pivot, from, q, d)
  BY DEF Reduction
<1>2. PICK q : Reduces(n, e, pivot, from, q, d)
  BY <1>1
<1>3. PICK p : p = from[pivot]
  OBVIOUS
<1>4. /\ p \in Rows(n) /\ p >= pivot
      /\ \A r \in Rows(n) : /\ from[r] \in Rows(n) /\ from[r] \in Int
                            /\ r < pivot => from[r] = r
                            /\ r >= pivot => from[r] >= pivot
      /\ \A r \in Rows(n) : q[r] \in Int /\ r \in Int
      /\ \A r \in Rows(n) : r <= pivot => q[r] = 0
  <2>1. from \in [Rows(n) -> Rows(n)]
    BY <1>1 DEF Exchanges
  <2>2. q \in [Rows(n) -> Value] /\ \A r \in Rows(n) : r <= pivot => q[r] = 0
    BY <1>2 DEF Reduces
  <2>3. \A r \in Rows(n) : r \in Int
    BY DEF Rows
  <2>4. \A r \in Rows(n) : (r < pivot => from[r] = r) /\ (r >= pivot => from[r] >= pivot)
    BY <1>1 DEF Exchanges
  <2>5. pivot >= pivot
    BY <2>3
  <2>6. \A r \in Rows(n) : q[r] \in Int
    BY <2>2, RemainderOfValue
  <2> QED BY <1>3, <2>1, <2>2, <2>3, <2>4, <2>5, <2>6
<1>5. \A r, c \in Rows(n) : /\ e.dense[r][c] \in Value /\ e.dense[r][c] \in Int
                            /\ e.dense[r][c] % P = e.dense[r][c]
  BY RemainderOfValue DEF Systems, Dense
<1>6. \A r, c \in Rows(n) : d.dense[r][c] = (e.dense[from[r]][c] - q[r] * e.dense[p][c]) % P
  BY <1>2, <1>3 DEF Reduces
<1>7. 0 % P = 0
  BY PrimeAssumption
<1>8. ASSUME NEW j \in Rows(n), j < pivot
      PROVE  d.dense[j][j] # 0 /\ \A r \in Rows(n) : r > j => d.dense[r][j] = 0
  <2>1. e.dense[j][j] # 0 /\ \A r \in Rows(n) : r > j => e.dense[r][j] = 0
    BY <1>8 DEF Triangular
  <2>2. from[j] = j /\ q[j] = 0 /\ p > j
    BY <1>4, <1>8
  <2>3. e.dense[p][j] = 0
    BY <1>4, <2>1, <2>2
  <2>4. d.dense[j][j] = (e.dense[j][j] - 0 * 0) % P
    BY <1>6, <2>2, <2>3
  <2>5. e.dense[j][j] - 0 * 0 = e.dense[j][j]
    BY <1>5
  <2>6. ASSUME NEW r \in Rows(n), r > j PROVE d.dense[r][j] = 0
    <3>1. from[r] > j
      BY <1>4, <1>8, <2>6
    <3>2. e.dense[from[r]][j] = 0
      BY <1>4, <2>1, <3>1
    <3>3. d.dense[r][j] = (0 - q[r] * 0) % P
      BY <1>6, <2>3, <3>2
    <3>4. 0 - q[r] * 0 = 0
      BY <1>4
    <3> QED BY <1>7, <3>3, <3>4
  <2> QED BY <1>5, <2>1, <2>4, <2>5, <2>6
<1>9. d.dense[pivot][pivot] # 0 /\ \A r \in Rows(n) : r > pivot => d.dense[r][pivot] = 0
  <2>1. e.dense[p][pivot] # 0 /\ \A r \in Rows(n) : r > pivot => Same(q[r] * e.dense[p][pivot], e.dense[from[r]][pivot])
    BY <1>2, <1>3 DEF Reduces
  <2>2. PICK v \in Int : v = e.dense[p][pivot] /\ v % P = v
    BY <1>4, <1>5
  <2>3. q[pivot] = 0
    BY <1>4
  <2>4. d.dense[pivot][pivot] = (v - 0 * v) % P
    BY <1>3, <1>6, <2>2, <2>3
  <2>5. v - 0 * v = v
    OBVIOUS
  <2>6. ASSUME NEW r \in Rows(n), r > pivot PROVE d.dense[r][pivot] = 0
    <3>1. PICK u \in Int, k \in Int : u = e.dense[from[r]][pivot] /\ k = q[r]
      BY <1>4, <1>5
    <3>2. Same(k * v, u) /\ Same(u, u) /\ k * v \in Int
      BY <2>1, <2>2, <2>6, <3>1, SameIs
    <3>3. Same(u - k * v, u - u)
      BY <3>2, SameArithmetic
    <3>4. u - u = 0
      OBVIOUS
    <3>5. d.dense[r][pivot] = (u - k * v) % P
      BY <1>6, <2>2, <3>1
    <3> QED BY <1>7, <3>3, <3>4, <3>5 DEF Same
  <2> QED BY <2>1, <2>2, <2>4, <2>5, <2>6
<1>10. ASSUME NEW j \in Rows(n), j < pivot + 1 PROVE j < pivot \/ j = pivot
  BY <1>4, <1>10
<1> QED BY <1>8, <1>9, <1>10 DEF Triangular

\* The whole elimination: the columns have zeros below the diagonal, and what
\* solves the last rows solves the first ones.
LEMMA EliminationSolves ==
  ASSUME NEW n \in Nat, NEW dense \in Dense(n), NEW b \in [Rows(n) -> Value],
         Elimination(dense, b).singular = FALSE
  PROVE  LET e == Elimination(dense, b)
         IN  /\ e \in Systems(n) /\ Triangular(n, e.dense, n)
             /\ \A x \in [Rows(n) -> Value] : Solves(n, x, e.dense, e.rhs) => Solves(n, x, dense, b)
<1>1. PICK acc : EliminationRun(n, dense, b, acc)
  BY EliminationRuns
<1> DEFINE Sound(k) == /\ Triangular(n, acc[k].dense, k)
                       /\ \A x \in [Rows(n) -> Value] :
                            Solves(n, x, acc[k].dense, acc[k].rhs) => Solves(n, x, dense, b)
           good == {k \in Nat : k <= n /\ acc[k].singular = FALSE => Sound(k)}
<1>2. 0 \in good
  <2>1. acc[0] = Start(dense, b)
    BY <1>1 DEF EliminationRun
  <2>2. acc[0].dense = dense /\ acc[0].rhs = b
    BY <2>1 DEF Start
  <2>3. \A j \in Rows(n) : ~(j < 0)
    BY DEF Rows
  <2>4. Sound(0)
    BY <2>2, <2>3 DEF Triangular
  <2> HIDE DEF Sound
  <2> QED BY <2>4
<1>3. ASSUME NEW k \in Nat, k \in good PROVE k + 1 \in good
  <2>1. CASE k + 1 <= n /\ acc[k + 1].singular = FALSE
    <3>1. PICK j : j = k + 1
      OBVIOUS
    <3>2. j \in 1 .. n /\ j - 1 = k /\ k <= n /\ k \in Rows(n) /\ k \in 0 .. n
      BY <2>1, <3>1 DEF Rows
    <3>3. acc[k] \in Systems(n) /\ acc[j] = EliminationStep(acc[k], k)
      BY <1>1, <3>2 DEF EliminationRun
    <3>4. acc[k].singular = FALSE /\ Reduction(n, acc[k], k, acc[j])
      BY <2>1, <3>1, <3>2, <3>3, EliminationStepIs
    <3>5. Sound(k)
      <4> HIDE DEF Sound
      <4> QED BY <1>3, <3>2, <3>4
    <3>6. Triangular(n, acc[j].dense, k + 1)
      BY <3>2, <3>3, <3>4, <3>5, StepTriangular
    <3>7. \A x \in [Rows(n) -> Value] : Solves(n, x, acc[j].dense, acc[j].rhs) => Solves(n, x, dense, b)
      BY <3>2, <3>3, <3>4, <3>5, StepSolves
    <3>8. Sound(j)
      BY <3>1, <3>6, <3>7
    <3>9. k + 1 \in Nat
      OBVIOUS
    <3> HIDE DEF Sound
    <3> QED BY <3>1, <3>8, <3>9, Zenon
  <2> HIDE DEF Sound
  <2>2. k + 1 <= n /\ acc[k + 1].singular = FALSE => Sound(k + 1)
    <3>1. (k + 1 <= n /\ acc[k + 1].singular = FALSE) => k + 1 \in good
      BY <2>1, Zenon
    <3> QED BY <3>1, Zenon
  <2>3. k + 1 \in Nat
    OBVIOUS
  <2> QED BY <2>2, <2>3, Zenon
<1>4. n \in good
  <2> HIDE DEF good
  <2> QED BY <1>2, <1>3, NumberInduction
<1>5. acc[n] = Elimination(dense, b) /\ acc[n] \in Systems(n)
  BY <1>1 DEF EliminationRun
<1>6. Sound(n)
  <2> HIDE DEF Sound
  <2> QED BY <1>4, <1>5
<1> QED BY <1>5, <1>6

\* Zeros add up to zero.
LEMMA SumZeros ==
  ASSUME NEW S, IsFiniteSet(S), NEW g, \A x \in S : g[x] = 0
  PROVE  SumOf(g, S) = 0
<1>1. \A x \in S : g[x] \in Int /\ g[x] = g[x] + g[x]
  OBVIOUS
<1>2. SumOf(g, S) = SumOf(g, S) + SumOf(g, S)
  BY <1>1, SumPlus
<1>3. SumOf(g, S) \in Int
  BY <1>1, SumInt
<1>4. PICK s : s = SumOf(g, S)
  OBVIOUS
<1>5. s \in Int /\ s = s + s
  BY <1>2, <1>3, <1>4
<1>6. s = 0
  BY <1>5
<1> QED BY <1>4, <1>6

\* One row of the substitution.
From(n, r) == {c \in Rows(n) : c >= r}
After(n, r) == {c \in Rows(n) : c > r}
BackStep(n, D, x, r) == [x EXCEPT ![r] = Over(x[r] - (Dot(D, x, r, After(n, r)) % P), D[r][r])]

\* One step of the substitution solves its row and leaves the others alone.
LEMMA BackStepIs ==
  ASSUME NEW n \in Nat, NEW D \in Dense(n), NEW x \in [Rows(n) -> Value], NEW r \in Rows(n)
  PROVE  /\ BackStep(n, D, x, r) \in [Rows(n) -> Value]
         /\ \A c \in Rows(n) : c # r => BackStep(n, D, x, r)[c] = x[c]
         /\ D[r][r] # 0 => Same(Dot(D, BackStep(n, D, x, r), r, From(n, r)), x[r])
<1> DEFINE y == BackStep(n, D, x, r)
           rest == Dot(D, x, r, After(n, r))
<1>1. After(n, r) \in SUBSET Rows(n) /\ From(n, r) \in SUBSET Rows(n)
  BY DEF After, From
<1>2. rest \in Int /\ rest % P \in Int /\ x[r] \in Int /\ D[r][r] \in Int /\ D[r][r] % P = D[r][r]
  <2>1. rest \in Int
    BY <1>1, DotIs
  <2>2. D[r][r] \in Value
    BY DotIs
  <2> QED BY <2>1, <2>2, DotIs, Remainder, RemainderOfValue
<1> HIDE DEF rest
<1>3. x[r] - (rest % P) \in Int
  BY <1>2
<1>4. PICK v \in Value : v = Over(x[r] - (rest % P), D[r][r])
  BY <1>2, <1>3, OverIs
<1>5. y = [x EXCEPT ![r] = v]
  BY <1>4 DEF BackStep, rest
<1>6. y \in [Rows(n) -> Value] /\ y[r] = v /\ \A c \in Rows(n) : c # r => y[c] = x[c]
  <2> HIDE DEF y
  <2> QED BY <1>5
<1> HIDE DEF y
<1>7. ASSUME D[r][r] # 0 PROVE Same(Dot(D, y, r, From(n, r)), x[r])
  <2>1. PICK a \in Int, w \in Int, s \in Int, t \in Int :
          a = D[r][r] /\ w = v /\ s = rest /\ t = x[r]
    BY <1>2, RemainderOfValue
  <2>2. Same(a * w, t - (s % P))
    <3>1. D[r][r] % P # 0
      BY <1>2, <1>7
    <3>2. (D[r][r] * Over(x[r] - (rest % P), D[r][r])) % P = (x[r] - (rest % P)) % P
      BY <1>2, <1>3, <3>1, OverIs
    <3> QED BY <1>4, <2>1, <3>2 DEF Same
  <2>3. Dot(D, y, r, After(n, r)) = s
    <3> DEFINE g == CellTimes(D[r], x, After(n, r))
               h == CellTimes(D[r], y, After(n, r))
    <3>1. \A c \in After(n, r) : g[c] = D[r][c] * x[c] /\ g[c] \in Int /\ h[c] = D[r][c] * y[c]
      BY <1>1, <1>6, DotIs
    <3>2. \A c \in After(n, r) : c # r
      BY DEF After, Rows
    <3>3. \A c \in After(n, r) : g[c] \in Int /\ h[c] = g[c]
      BY <1>1, <1>6, <3>1, <3>2
    <3>4. IsFiniteSet(After(n, r))
      BY <1>1, DotIs
    <3> HIDE DEF g, h
    <3>5. SumOf(h, After(n, r)) = SumOf(g, After(n, r))
      BY <3>3, <3>4, SumSame
    <3> QED BY <2>1, <3>5 DEF Dot, rest, g, h
  <2>4. Dot(D, y, r, From(n, r)) = a * w + s
    <3> DEFINE g == CellTimes(D[r], y, From(n, r))
               h == CellTimes(D[r], y, After(n, r))
    <3>1. r \in From(n, r) /\ From(n, r) \ {r} = After(n, r)
      BY DEF From, After, Rows
    <3>2. IsFiniteSet(From(n, r)) /\ \A c \in From(n, r) : g[c] \in Int /\ g[c] = D[r][c] * y[c]
      BY <1>1, <1>6, DotIs
    <3>3. IsFiniteSet(After(n, r)) /\ \A c \in After(n, r) : h[c] \in Int /\ h[c] = D[r][c] * y[c]
      BY <1>1, <1>6, DotIs
    <3> HIDE DEF g, h
    <3>4. SumOf(g, From(n, r)) = g[r] + SumOf(g, From(n, r) \ {r})
      BY <3>1, <3>2, SumRemove
    <3>5. \A c \in After(n, r) : h[c] \in Int /\ g[c] = h[c]
      BY <3>1, <3>2, <3>3
    <3>6. SumOf(g, After(n, r)) = SumOf(h, After(n, r))
      BY <3>3, <3>5, SumSame
    <3>7. g[r] = a * w
      BY <1>6, <2>1, <3>1, <3>2
    <3>8. SumOf(h, After(n, r)) = s
      BY <2>3 DEF Dot, h
    <3>9. SumOf(g, From(n, r)) = a * w + s
      BY <3>1, <3>4, <3>6, <3>7, <3>8
    <3> QED BY <3>9 DEF Dot, g
  <2>5. Same(a * w + s, (t - (s % P)) + s)
    <3>1. a * w \in Int /\ t - (s % P) \in Int /\ Same(s, s)
      BY Remainder, SameIs
    <3> QED BY <2>2, <3>1, SameArithmetic
  <2>6. Same((t - (s % P)) + s, t)
    <3>1. s % P \in Int
      BY Remainder
    <3>2. PICK z \in Int : z = s % P
      BY <3>1
    <3>3. Same(z, s) /\ Same(s, z) /\ Same(t - z, t - z) /\ Same(t - z, t - s)
      <4>1. Same(z, s) /\ Same(s, z) /\ Same(t - z, t - z) /\ Same(t, t) /\ t - z \in Int
        BY <3>2, SameIs
      <4> QED BY <4>1, SameArithmetic
    <3>4. Same((t - z) + s, (t - s) + s)
      <4>1. t - z \in Int /\ t - s \in Int /\ Same(s, s)
        BY SameIs
      <4> QED BY <3>3, <4>1, SameArithmetic
    <3>5. (t - s) + s = t
      OBVIOUS
    <3> QED BY <3>2, <3>4, <3>5
  <2>7. Same(a * w + s, t)
    BY <2>5, <2>6, SameIs
  <2> QED BY <2>1, <2>4, <2>7
<1> QED BY <1>6, <1>7 DEF y

\* The substitution goes through the rows from the last one to the first.
BackRun(n, D, b, x, acc) ==
  /\ acc \in [0 .. n -> [Rows(n) -> Value]]
  /\ acc[0] = b /\ acc[n] = x
  /\ \A k \in 1 .. n : acc[k] = BackStep(n, D, acc[k - 1], n - k)

\* the fold of the substitution, from the places S of the rows R
SubstitutionFold(e, n, R, S) ==
  (CHOOSE i : i = [T \in SUBSET S |->
     IF T = {} THEN e.rhs
     ELSE Table([i[T \ {Max(T)}] EXCEPT ![R[Max(T)]] =
            Over(@ - Total(LAMBDA c : e.dense[R[Max(T)]][c] * i[T \ {Max(T)}][c],
                           R[Max(T)] + 1 .. n - 1),
                 e.dense[R[Max(T)]][R[Max(T)]])])])[S]

\* The substitution is such a run.
LEMMA BackRuns ==
  ASSUME NEW n \in Nat, NEW dense \in Dense(n), NEW b \in [Rows(n) -> Value],
         Elimination(dense, b) \in Systems(n)
  PROVE  \E acc : BackRun(n, Elimination(dense, b).dense, Elimination(dense, b).rhs,
                          SolveDense(dense, b), acc)
<1> DEFINE e == Elimination(dense, b)
           Y == [Rows(n) -> Value]
           base == e.rhs
           Row(x, r) == Table([x EXCEPT ![r] =
                          Over(@ - Total(LAMBDA c : e.dense[r][c] * x[c], r + 1 .. n - 1), e.dense[r][r])])
           F(i) == [T \in SUBSET (1 .. n) |->
                      IF T = {} THEN base ELSE Row(i[T \ {Max(T)}], Reverse(Upwards(n))[Max(T)])]
           it == CHOOSE i : i = F(i)
           h == [p \in (1 .. n) \X Y |-> BackStep(n, e.dense, p[2], n - p[1])]
<1>0. DOMAIN b = Rows(n) /\ Cardinality(Rows(n)) = n
  <2>1. Cardinality(0 .. n - 1) = n
    <3>1. 0 \in Int /\ n - 1 \in Int
      OBVIOUS
    <3>2. Cardinality(0 .. n - 1) = IF 0 > n - 1 THEN 0 ELSE (n - 1) - 0 + 1
      BY <3>1, FS_Interval
    <3> QED BY <3>2
  <2> QED BY <2>1 DEF Rows
<1>1. n \in Nat /\ Rows(n) = 0 .. n - 1 /\ \A k \in 1 .. n : n - k \in Rows(n)
  BY DEF Rows
<1>2. Reverse(Upwards(n)) = [k \in 1 .. n |-> n - k]
  <2>1. Upwards(n) \in Seq(Int) /\ Len(Upwards(n)) = n
    BY DEF Upwards
  <2>2. Reverse(Upwards(n)) = [k \in 1 .. n |-> Upwards(n)[(n - k) + 1]]
    BY <2>1 DEF Reverse
  <2>3. \A k \in 1 .. n : Upwards(n)[(n - k) + 1] = n - k
    BY DEF Upwards
  <2> QED BY <2>2, <2>3
<1>3. SolveDense(dense, b) = it[1 .. n]
  <2>1. SolveDense(dense, b) =
          SubstitutionFold(e, Cardinality(DOMAIN b), Reverse(Upwards(Cardinality(DOMAIN b))),
                           DOMAIN Reverse(Upwards(Cardinality(DOMAIN b))))
    BY DEF SolveDense, SubstitutionFold, FoldLeft, MapThenFoldSet
  <2>2. DOMAIN Reverse(Upwards(n)) = 1 .. n
    BY <1>2
  <2>3. Cardinality(DOMAIN b) = n
    BY <1>0
  <2>4. SolveDense(dense, b) = SubstitutionFold(e, n, Reverse(Upwards(n)), 1 .. n)
    <3> HIDE DEF e
    <3> QED BY <2>1, <2>2, <2>3, Zenon
  <2>5. SubstitutionFold(e, n, Reverse(Upwards(n)), 1 .. n) = it[1 .. n]
    <3> HIDE DEF e
    <3> QED BY DEF SubstitutionFold
  <2> QED BY <2>4, <2>5
<1>4. e.dense \in Dense(n) /\ base \in Y
  BY DEF Systems
<1> HIDE DEF e
<1>5. ASSUME NEW x \in Y, NEW r \in Rows(n) PROVE Row(x, r) = BackStep(n, e.dense, x, r)
  <2>1. r + 1 .. n - 1 = After(n, r)
    BY DEF After, Rows
  <2>2. IsFiniteSet(After(n, r))
    <3>1. After(n, r) \in SUBSET Rows(n)
      BY DEF After
    <3> QED BY <1>4, <3>1, DotIs
  <2>3. Total(LAMBDA c : e.dense[r][c] * x[c], r + 1 .. n - 1) = SumCellTimes(e.dense[r], x, After(n, r)) % P
    BY <2>1 DEF Total, SumCellTimes
  <2>4. SumCellTimes(e.dense[r], x, After(n, r)) = Dot(e.dense, x, r, After(n, r))
    BY <2>2, SumCells DEF Dot
  <2> QED BY <2>3, <2>4, TableIs DEF BackStep
<1>6. IsStep(n, Y, h)
  <2>1. \A k \in 1 .. n : \A y \in Y : BackStep(n, e.dense, y, n - k) \in Y
    BY <1>1, <1>4, BackStepIs
  <2> QED BY <2>1 DEF IsStep
<1>7. \A T \in SUBSET (1 .. n) : T # {} => Max(T) \in 1 .. n
  BY <1>1, LastPlace
<1> HIDE DEF Row
<1>8. ASSUME NEW i PROVE Follows(n, Y, base, h, i, F(i))
  <2>1. ASSUME NEW T \in SUBSET (1 .. n), T # {}, i[T \ {Max(T)}] \in Y
        PROVE  F(i)[T] = FoldStep(h, base, i, T)
    <3>1. PICK k \in 1 .. n, y \in Y : k = Max(T) /\ y = i[T \ {Max(T)}]
      BY <1>7, <2>1
    <3>2. F(i)[T] = Row(y, n - k)
      BY <1>2, <2>1, <3>1
    <3>3. Row(y, n - k) = BackStep(n, e.dense, y, n - k)
      BY <1>1, <1>5
    <3>4. h[<<k, y>>] = BackStep(n, e.dense, y, n - k)
      OBVIOUS
    <3> HIDE DEF F, h
    <3> QED BY <2>1, <3>1, <3>2, <3>3, <3>4 DEF FoldStep
  <2>2. F(i)[{}] = FoldStep(h, base, i, {}) /\ F(i) = [T \in SUBSET (1 .. n) |-> F(i)[T]]
    BY DEF FoldStep
  <2> HIDE DEF F, h
  <2> QED BY <2>1, <2>2 DEF Follows
<1>9. \A k \in 1 .. n : \A y \in Y : h[<<k, y>>] = BackStep(n, e.dense, y, n - k)
  OBVIOUS
<1> HIDE DEF h, base, Y, F
<1>10. n \in Nat /\ base \in Y
  BY <1>4
<1>11. \E i : i = F(i)
  <2>1. PICK i : IsFold(n, Y, base, h, i)
    BY <1>6, <1>10, FoldsExist
  <2>2. i = F(i)
    BY <1>6, <1>8, <1>10, <2>1, FoldFollows
  <2> QED BY <2>2
<1>12. it = F(it)
  BY <1>11
<1> HIDE DEF it
<1>13. TakesLast(n, Y, base, h, it)
  BY <1>6, <1>8, <1>10, <1>12, FoldFollows
<1>14. PICK acc : IsLoop(n, Y, base, h, acc) /\ acc[n] = it[1 .. n]
  BY <1>6, <1>10, <1>13, FoldRuns
<1>15. \A k \in 1 .. n : acc[k] = BackStep(n, e.dense, acc[k - 1], n - k)
  <2>1. \A k \in 1 .. n : acc[k - 1] \in Y
    BY <1>1, <1>14 DEF IsLoop
  <2> QED BY <1>9, <1>14, <2>1 DEF IsLoop
<1>16. acc \in [0 .. n -> Y] /\ acc[0] = base
  BY <1>14 DEF IsLoop
<1> QED BY <1>3, <1>14, <1>15, <1>16 DEF BackRun, Y, base, e

\* After k rows of the substitution the last k rows hold.
LEMMA SubstitutionSolves ==
  ASSUME NEW n \in Nat, NEW D \in Dense(n), Triangular(n, D, n), NEW b \in [Rows(n) -> Value],
         NEW x, NEW acc, BackRun(n, D, b, x, acc)
  PROVE  x \in [Rows(n) -> Value] /\ \A r \in Rows(n) : Same(Dot(D, x, r, From(n, r)), b[r])
<1> DEFINE Solved(k, r) == /\ r < n - k => acc[k][r] = b[r]
                           /\ r >= n - k => Same(Dot(D, acc[k], r, From(n, r)), b[r])
           good == {k \in Nat : k <= n => \A r \in Rows(n) : Solved(k, r)}
<1>1. 0 \in good
  <2>1. \A r \in Rows(n) : r < n - 0 /\ ~(r >= n - 0)
    BY DEF Rows
  <2>2. acc[0] = b
    BY DEF BackRun
  <2> QED BY <2>1, <2>2
<1>2. ASSUME NEW k \in Nat, k \in good PROVE k + 1 \in good
  <2>1. CASE k + 1 <= n
    <3>1. PICK j, p : j = k + 1 /\ p = n - j
      OBVIOUS
    <3>2. /\ j \in 1 .. n /\ j - 1 = k /\ k <= n /\ k \in 0 .. n /\ p \in Rows(n) /\ p \in Int /\ p < n
          /\ n - k = p + 1 /\ n - j = p
      BY <2>1, <3>1 DEF Rows
    <3>3. PICK x0, y \in [Rows(n) -> Value] : x0 = acc[k] /\ y = acc[j]
      BY <3>2 DEF BackRun
    <3>4. y = BackStep(n, D, x0, p)
      BY <3>2, <3>3 DEF BackRun
    <3>5. D[p][p] # 0
      BY <3>2 DEF Triangular
    <3>6. /\ y \in [Rows(n) -> Value] /\ \A c \in Rows(n) : c # p => y[c] = x0[c]
          /\ Same(Dot(D, y, p, From(n, p)), x0[p])
      BY <3>2, <3>4, <3>5, BackStepIs
    <3>7. \A r \in Rows(n) : Solved(k, r)
      <4> HIDE DEF Solved
      <4> QED BY <1>2, <3>2
    <3>8. \A r \in Rows(n) : r \in Int /\ (r < p => r < p + 1) /\ (r > p => r >= p + 1)
                             /\ (r >= p => r = p \/ r > p) /\ p < p + 1
      BY <3>2 DEF Rows
    <3>9. ASSUME NEW r \in Rows(n), r < p PROVE y[r] = b[r]
      <4>1. r # p
        BY <3>2, <3>8, <3>9
      <4> QED BY <3>2, <3>3, <3>6, <3>7, <3>8, <3>9, <4>1
    <3>10. Same(Dot(D, y, p, From(n, p)), b[p])
      BY <3>2, <3>3, <3>6, <3>7, <3>8
    <3>11. ASSUME NEW r \in Rows(n), r > p PROVE Same(Dot(D, y, r, From(n, r)), b[r])
      <4>1. Same(Dot(D, x0, r, From(n, r)), b[r])
        BY <3>2, <3>3, <3>7, <3>8, <3>11
      <4> DEFINE g == CellTimes(D[r], x0, From(n, r))
                 h == CellTimes(D[r], y, From(n, r))
      <4>2. From(n, r) \in SUBSET Rows(n) /\ \A c \in From(n, r) : c # p
        BY <3>2, <3>8, <3>11 DEF From
      <4>3. IsFiniteSet(From(n, r)) /\ \A c \in From(n, r) : g[c] \in Int /\ g[c] = D[r][c] * x0[c]
        <5> DEFINE S == From(n, r)
        <5>1. S \in SUBSET Rows(n)
          BY <4>2
        <5> HIDE DEF S
        <5>2. /\ IsFiniteSet(S)
              /\ \A c \in S : /\ CellTimes(D[r], x0, S)[c] = D[r][c] * x0[c]
                              /\ CellTimes(D[r], x0, S)[c] \in Int
          BY <5>1, DotIs, Zenon
        <5> QED BY <5>2 DEF S
      <4>4. \A c \in From(n, r) : h[c] = D[r][c] * y[c]
        BY DEF CellTimes
      <4>5. \A c \in From(n, r) : h[c] = g[c] /\ g[c] \in Int
        <5> HIDE DEF g, h
        <5> QED BY <3>6, <4>2, <4>3, <4>4
      <4> HIDE DEF g, h
      <4>6. SumOf(h, From(n, r)) = SumOf(g, From(n, r))
        BY <4>3, <4>5, SumSame
      <4> QED BY <4>1, <4>6 DEF Dot, g, h
    <3>12. \A r \in Rows(n) : Solved(j, r)
      BY <3>2, <3>3, <3>8, <3>9, <3>10, <3>11
    <3> HIDE DEF Solved
    <3>13. k + 1 \in Nat
      OBVIOUS
    <3> QED BY <3>1, <3>12, <3>13, Zenon
  <2>2. k + 1 \in Nat
    OBVIOUS
  <2> HIDE DEF Solved
  <2> QED BY <2>1, <2>2, Zenon
<1>3. n \in good
  <2> HIDE DEF good
  <2> QED BY <1>1, <1>2, NumberInduction
<1>4. \A r \in Rows(n) : r >= n - n
  BY DEF Rows
<1>5. acc[n] = x /\ acc[n] \in [Rows(n) -> Value]
  BY DEF BackRun
<1> QED BY <1>3, <1>4, <1>5

\* A row without entries before the diagonal is worth what it is from there on.
LEMMA DotFrom ==
  ASSUME NEW n \in Nat, NEW D \in Dense(n), NEW x \in [Rows(n) -> Value], NEW r \in Rows(n),
         Triangular(n, D, n)
  PROVE  Dot(D, x, r, Rows(n)) = Dot(D, x, r, From(n, r))
<1> DEFINE before == {c \in Rows(n) : c < r}
           g == CellTimes(D[r], x, Rows(n))
           h == CellTimes(D[r], x, From(n, r))
<1>1. /\ before \in SUBSET Rows(n) /\ From(n, r) \in SUBSET Rows(n)
      /\ before \cup From(n, r) = Rows(n) /\ before \cap From(n, r) = {}
      /\ Rows(n) \in SUBSET Rows(n)
  BY DEF From, Rows
<1>2. IsFiniteSet(before) /\ IsFiniteSet(From(n, r))
  BY <1>1, DotIs
<1>3. \A c \in Rows(n) : g[c] \in Int /\ g[c] = D[r][c] * x[c] /\ x[c] \in Int
  BY <1>1, DotIs
<1>4. \A c \in From(n, r) : h[c] \in Int /\ h[c] = D[r][c] * x[c]
  <2>1. From(n, r) \in SUBSET Rows(n)
    BY <1>1
  <2> QED BY <2>1, DotIs
<1>5. ASSUME NEW c \in before PROVE g[c] = 0
  <2>1. c \in Rows(n) /\ c < n /\ r > c
    BY DEF Rows
  <2>2. D[r][c] = 0
    BY <2>1 DEF Triangular
  <2>3. g[c] = 0 * x[c] /\ x[c] \in Int
    BY <1>3, <2>1, <2>2
  <2> QED BY <2>3
<1> HIDE DEF g, h, before
<1>6. SumOf(g, before \cup From(n, r)) = SumOf(g, before) + SumOf(g, From(n, r))
  BY <1>1, <1>2, <1>3, SumUnion
<1>7. SumOf(g, before) = 0
  BY <1>2, <1>5, SumZeros
<1>8. \A c \in From(n, r) : h[c] \in Int /\ g[c] = h[c]
  BY <1>1, <1>3, <1>4
<1>9. SumOf(g, From(n, r)) = SumOf(h, From(n, r)) /\ SumOf(h, From(n, r)) \in Int
  BY <1>2, <1>8, SumSame, SumInt
<1>10. SumOf(g, Rows(n)) = SumOf(h, From(n, r))
  BY <1>1, <1>6, <1>7, <1>9
<1> QED BY <1>10 DEF Dot, g, h

\* solveCoarsest solves a matrix that is not singular.
THEOREM SolveDenseSolves ==
  ASSUME NEW n \in Nat, NEW dense \in Dense(n), NEW b \in [Rows(n) -> Value]
  PROVE  /\ SolveDense(dense, b) \in [Rows(n) -> Value]
         /\ Singular(dense) = FALSE => Solves(n, SolveDense(dense, b), dense, b)
         /\ Singular(dense) \in BOOLEAN
<1> DEFINE e == Elimination(dense, b)
           x == SolveDense(dense, b)
<1>1. e \in Systems(n) /\ e.singular \in BOOLEAN
  <2>1. PICK acc : EliminationRun(n, dense, b, acc)
    BY EliminationRuns
  <2>2. e \in Systems(n)
    BY <2>1 DEF EliminationRun
  <2> HIDE DEF e
  <2> QED BY <2>2 DEF Systems
<1>2. PICK acc : BackRun(n, e.dense, e.rhs, x, acc)
  BY <1>1, BackRuns
<1>3. x \in [Rows(n) -> Value]
  BY <1>2 DEF BackRun
<1>4. ASSUME Singular(dense) = FALSE PROVE Solves(n, x, dense, b)
  <2>1. e.singular = FALSE
    BY <1>4, SingularIs
  <2>2. /\ Triangular(n, e.dense, n)
        /\ \A y \in [Rows(n) -> Value] : Solves(n, y, e.dense, e.rhs) => Solves(n, y, dense, b)
    BY <2>1, EliminationSolves
  <2> HIDE DEF e, x
  <2>3. e.dense \in Dense(n) /\ e.rhs \in [Rows(n) -> Value]
    BY <1>1 DEF Systems
  <2>4. \A r \in Rows(n) : Same(Dot(e.dense, x, r, From(n, r)), e.rhs[r])
    BY <1>2, <2>2, <2>3, SubstitutionSolves
  <2>5. \A r \in Rows(n) : Dot(e.dense, x, r, Rows(n)) = Dot(e.dense, x, r, From(n, r))
    BY <1>3, <2>2, <2>3, DotFrom
  <2>6. Solves(n, x, e.dense, e.rhs)
    BY <2>4, <2>5 DEF Solves
  <2> QED BY <1>3, <2>2, <2>6
<1>5. Singular(dense) = e.singular
  BY SingularIs
<1> QED BY <1>1, <1>3, <1>4, <1>5

-----------------------------------------------------------------------------
(* The dense matrix of the coarsest level is its matrix.                   *)

\* no two faces join the same cells
FacesDiffer(m) ==
  \A f, g \in FacesOf(m) : f # g => <<m.lower[f], m.upper[f]>> # <<m.lower[g], m.upper[g]>>

FacesJoining(m, r, c) == {f \in FacesOf(m) : {m.lower[f], m.upper[f]} = {r, c}}

\* The entries of the dense matrix.
LEMMA DenseEntries ==
  ASSUME NEW m, GoodMatrix(m)
  PROVE  /\ DenseMatrix(m) \in Dense(m.n)
         /\ \A r \in CellsOf(m) : DenseMatrix(m)[r][r] = m.diag[r] % P
         /\ \A r, c \in CellsOf(m) : r # c /\ FacesJoining(m, r, c) = {} => DenseMatrix(m)[r][c] = 0
         /\ \A r, c \in CellsOf(m) : \A f \in FacesOf(m) :
              r # c /\ FacesJoining(m, r, c) = {f} => DenseMatrix(m)[r][c] = m.coeff[f] % P
<1> DEFINE joining(r, c) == FacesJoining(m, r, c)
           entry(r, c) == (IF r = c THEN m.diag[r]
                           ELSE IF joining(r, c) = {} THEN 0 ELSE m.coeff[Max(joining(r, c))]) % P
<1>0. Rows(m.n) = CellsOf(m) /\ Index(m) = CellsOf(m) /\ m.n \in Nat /\ Len(m.lower) \in Nat
      /\ FacesOf(m) = 1 .. Len(m.lower)
  BY FieldFacts DEF Rows, CellsOf
<1>1. DenseMatrix(m) = [r \in CellsOf(m) |-> [c \in CellsOf(m) |-> entry(r, c)]]
  BY <1>0 DEF DenseMatrix, FacesJoining
<1>2. \A r, c : joining(r, c) \in SUBSET (1 .. Len(m.lower))
  BY <1>0 DEF FacesJoining
<1> HIDE DEF joining
<1>3. ASSUME NEW r \in CellsOf(m), NEW c \in CellsOf(m) PROVE entry(r, c) \in Value
  <2>1. ASSUME joining(r, c) # {} PROVE m.coeff[Max(joining(r, c))] \in Int
    <3>1. Max(joining(r, c)) \in FacesOf(m)
      BY <1>0, <1>2, <2>1, LastPlace
    <3> QED BY <3>1, FieldFacts
  <2>2. m.diag[r] \in Int /\ 0 \in Int
    BY FieldFacts
  <2>3. (IF r = c THEN m.diag[r]
         ELSE IF joining(r, c) = {} THEN 0 ELSE m.coeff[Max(joining(r, c))]) \in Int
    BY <2>1, <2>2
  <2> QED BY <2>3, Remainder
<1>4. \A r, c \in CellsOf(m) : DenseMatrix(m)[r][c] = entry(r, c)
  <2> HIDE DEF entry
  <2> QED BY <1>1
<1>5. DenseMatrix(m) \in Dense(m.n)
  <2> HIDE DEF entry
  <2> QED BY <1>0, <1>1, <1>3 DEF Dense
<1>6. \A r \in CellsOf(m) : entry(r, r) = m.diag[r] % P
  OBVIOUS
<1>7. 0 % P = 0
  BY PrimeAssumption
<1>8. \A r, c \in CellsOf(m) : r # c /\ joining(r, c) = {} => entry(r, c) = 0
  BY <1>7
<1>9. ASSUME NEW r \in CellsOf(m), NEW c \in CellsOf(m), NEW f \in FacesOf(m), r # c, joining(r, c) = {f}
      PROVE  entry(r, c) = m.coeff[f] % P
  <2>1. Max(joining(r, c)) = f
    <3>1. Max(joining(r, c)) \in joining(r, c)
      BY <1>0, <1>2, <1>9, LastPlace
    <3> QED BY <1>9, <3>1
  <2> QED BY <1>9, <2>1
<1> HIDE DEF entry
<1> QED BY <1>4, <1>5, <1>6, <1>8, <1>9 DEF joining

\* the faces cell r owns, and those it lies above
OwnedFaces(m, r) == {f \in FacesOf(m) : m.lower[f] = r}
AboveFaces(m, r) == {f \in FacesOf(m) : m.upper[f] = r}

\* what column c contributes to row r
Column(m, x, r, c) ==
  SumOf(TimesUpper(m, x), Group(OwnedFaces(m, r), m.upper, c))
    + SumOf(TimesLower(m, x), Group(AboveFaces(m, r), m.lower, c))

\* An entry of the dense matrix is what its column contributes.
LEMMA EntryIsColumn ==
  ASSUME NEW m, GoodMatrix(m), FacesDiffer(m), NEW x \in FieldOf(m),
         NEW r \in CellsOf(m), NEW c \in CellsOf(m), r # c
  PROVE  Same(DenseMatrix(m)[r][c] * x[c], Column(m, x, r, c))
<1> DEFINE S == Group(OwnedFaces(m, r), m.upper, c)
           T == Group(AboveFaces(m, r), m.lower, c)
<1>1. S = {f \in FacesOf(m) : m.lower[f] = r /\ m.upper[f] = c}
      /\ T = {f \in FacesOf(m) : m.upper[f] = r /\ m.lower[f] = c}
  BY DEF Group, OwnedFaces, AboveFaces
<1>2. FacesJoining(m, r, c) = S \cup T
  BY <1>1 DEF FacesJoining
<1>3. x[c] \in Int
  BY FieldFacts
<1>4. \A f, g \in FacesOf(m) : m.lower[f] = m.lower[g] /\ m.upper[f] = m.upper[g] => f = g
  BY DEF FacesDiffer
<1>5. S = {} \/ T = {}
  <2>1. \A f \in FacesOf(m) : m.lower[f] < m.upper[f] /\ m.lower[f] \in Nat /\ m.upper[f] \in Nat
    BY MatrixFacts
  <2>2. ASSUME NEW f \in S, NEW g \in T PROVE FALSE
    <3>1. r < c /\ c < r /\ r \in Nat /\ c \in Nat
      BY <1>1, <2>1
    <3> QED BY <3>1
  <2> QED BY <2>2
<1>6. CASE S = {} /\ T = {}
  <2>1. DenseMatrix(m)[r][c] = 0
    BY <1>2, <1>6, DenseEntries
  <2>2. Column(m, x, r, c) = 0
    BY <1>6, SumEmpty DEF Column
  <2>3. 0 * x[c] = 0
    BY <1>3
  <2> QED BY <2>1, <2>2, <2>3, SameIs
<1>7. CASE S # {}
  <2>1. PICK f \in FacesOf(m) : f \in S /\ m.lower[f] = r /\ m.upper[f] = c
    BY <1>1, <1>7
  <2>2. S = {f} /\ T = {}
    BY <1>1, <1>4, <1>5, <2>1
  <2>3. DenseMatrix(m)[r][c] = m.coeff[f] % P
    <3>1. FacesJoining(m, r, c) = {f}
      BY <1>2, <2>2
    <3> HIDE DEF S, T
    <3> QED BY <3>1, DenseEntries
  <2>4. TimesUpper(m, x)[f] = m.coeff[f] * x[c] /\ TimesUpper(m, x)[f] \in Int
    BY <2>1, RowSumInt
  <2>5. Column(m, x, r, c) = TimesUpper(m, x)[f] + 0
    BY <2>2, <2>4, SumSingle, SumEmpty DEF Column
  <2>6. PICK a \in Int, z \in Int : a = m.coeff[f] /\ z = x[c]
    BY <1>3, FieldFacts
  <2>7. Same((a % P) * z, a * z)
    <3>1. Same(a % P, a) /\ Same(z, z) /\ a % P \in Int
      BY SameIs, Remainder
    <3> QED BY <3>1, SameArithmetic
  <2>8. a * z + 0 = a * z
    OBVIOUS
  <2> QED BY <2>3, <2>4, <2>5, <2>6, <2>7, <2>8, Zenon
<1>8. CASE T # {}
  <2>1. PICK f \in FacesOf(m) : f \in T /\ m.upper[f] = r /\ m.lower[f] = c
    BY <1>1, <1>8
  <2>2. T = {f} /\ S = {}
    BY <1>1, <1>4, <1>5, <2>1
  <2>3. DenseMatrix(m)[r][c] = m.coeff[f] % P
    <3>1. FacesJoining(m, r, c) = {f}
      BY <1>2, <2>2
    <3> HIDE DEF S, T
    <3> QED BY <3>1, DenseEntries
  <2>4. TimesLower(m, x)[f] = m.coeff[f] * x[c] /\ TimesLower(m, x)[f] \in Int
    BY <2>1, RowSumInt
  <2>5. Column(m, x, r, c) = 0 + TimesLower(m, x)[f]
    BY <2>2, <2>4, SumSingle, SumEmpty DEF Column
  <2>6. PICK a \in Int, z \in Int : a = m.coeff[f] /\ z = x[c]
    BY <1>3, FieldFacts
  <2>7. Same((a % P) * z, a * z)
    <3>1. Same(a % P, a) /\ Same(z, z) /\ a % P \in Int
      BY SameIs, Remainder
    <3> QED BY <3>1, SameArithmetic
  <2>8. 0 + a * z = a * z
    OBVIOUS
  <2> QED BY <2>3, <2>4, <2>5, <2>6, <2>7, <2>8, Zenon
<1> QED BY <1>6, <1>7, <1>8

\* A row of the dense matrix times a field is a row of the matrix times it.
LEMMA DenseRow ==
  ASSUME NEW m, GoodMatrix(m), FacesDiffer(m), NEW x \in FieldOf(m), NEW r \in CellsOf(m)
  PROVE  Same(Dot(DenseMatrix(m), x, r, CellsOf(m)),
              RowSum(m, x, r, OwnedFaces(m, r), AboveFaces(m, r)))
<1> DEFINE C == CellsOf(m)
           S == OwnedFaces(m, r)
           T == AboveFaces(m, r)
           a == TimesUpper(m, x)
           b == TimesLower(m, x)
           d == m.diag[r] * x[r]
           g == CellTimes(DenseMatrix(m)[r], x, C)
           u == [c \in C |-> IF c = r THEN d ELSE 0]
           v == [c \in C |-> SumOf(a, Group(S, m.upper, c))]
           w == [c \in C |-> SumOf(b, Group(T, m.lower, c))]
           vw == [c \in C |-> v[c] + w[c]]
           h == [c \in C |-> u[c] + vw[c]]
<1>1. /\ IsFiniteSet(C) /\ S \in SUBSET FacesOf(m) /\ T \in SUBSET FacesOf(m)
      /\ IsFiniteSet(S) /\ IsFiniteSet(T)
  <2>1. S \in SUBSET FacesOf(m) /\ T \in SUBSET FacesOf(m)
    BY DEF OwnedFaces, AboveFaces
  <2> HIDE DEF S, T
  <2> QED BY <2>1, FieldFacts, RowSumInt
<1>2. d \in Int /\ \A f \in FacesOf(m) : a[f] \in Int /\ b[f] \in Int
  BY RowSumInt
<1>3. \A c \in C : v[c] \in Int /\ w[c] \in Int
  <2>1. \A c : Group(S, m.upper, c) \in SUBSET FacesOf(m) /\ Group(T, m.lower, c) \in SUBSET FacesOf(m)
    BY <1>1 DEF Group
  <2>2. \A c : SumOf(a, Group(S, m.upper, c)) \in Int /\ SumOf(b, Group(T, m.lower, c)) \in Int
    <3> HIDE DEF S, T
    <3> QED BY <2>1, RowSumInt
  <2> QED BY <2>2
<1>4. \A c \in C : u[c] \in Int /\ vw[c] \in Int /\ h[c] \in Int /\ g[c] \in Int
  <2>1. \A c \in C : u[c] \in Int
    BY <1>2
  <2>2. \A c \in C : vw[c] \in Int
    <3> HIDE DEF v, w
    <3> QED BY <1>3
  <2>3. \A c \in C : h[c] \in Int
    <3> HIDE DEF u, vw
    <3> QED BY <2>1, <2>2
  <2>4. \A c \in C : g[c] \in Int
    <3>1. C = Rows(m.n) /\ m.n \in Nat /\ FieldOf(m) = [Rows(m.n) -> Value]
      BY FieldFacts DEF Rows, CellsOf, FieldOf
    <3>2. DenseMatrix(m) \in Dense(m.n)
      BY DenseEntries
    <3>3. \A c \in C : DenseMatrix(m)[r][c] * x[c] \in Int
      BY <3>1, <3>2, DotIs
    <3>4. \A c \in C : g[c] = DenseMatrix(m)[r][c] * x[c]
      BY DEF CellTimes
    <3> HIDE DEF g, C
    <3> QED BY <3>3, <3>4
  <2> QED BY <2>1, <2>2, <2>3, <2>4
<1>5. ASSUME NEW c \in C PROVE Same(g[c], h[c])
  <2>1. g[c] = DenseMatrix(m)[r][c] * x[c] /\ h[c] = u[c] + (v[c] + w[c])
    BY DEF CellTimes
  <2>2. v[c] + w[c] = Column(m, x, r, c) /\ v[c] + w[c] \in Int
    <3>1. v[c] + w[c] = Column(m, x, r, c)
      BY DEF Column
    <3> HIDE DEF v, w
    <3> QED BY <1>3, <3>1
  <2>3. CASE c = r
    <3>1. Group(S, m.upper, r) = {} /\ Group(T, m.lower, r) = {}
      <4>1. \A f \in FacesOf(m) : m.lower[f] # m.upper[f]
        BY FieldFacts
      <4> QED BY <4>1 DEF Group, OwnedFaces, AboveFaces
    <3>2. v[r] = 0 /\ w[r] = 0
      <4> HIDE DEF S, T
      <4> QED BY <3>1, SumEmpty
    <3>3. u[r] = d
      OBVIOUS
    <3>4. h[r] = d
      <4> HIDE DEF u, v, w, d, vw, h
      <4> QED BY <1>2, <2>1, <2>3, <3>2, <3>3
    <3>5. PICK p \in Int, z \in Int : p = m.diag[r] /\ z = x[r]
      BY FieldFacts
    <3>6. Same((p % P) * z, p * z)
      <4>1. Same(p % P, p) /\ Same(z, z) /\ p % P \in Int
        BY SameIs, Remainder
      <4> QED BY <4>1, SameArithmetic
    <3>7. DenseMatrix(m)[r][r] = p % P
      BY <3>5, DenseEntries
    <3> HIDE DEF g, h, u, v, w, vw
    <3> QED BY <2>1, <2>3, <3>4, <3>5, <3>6, <3>7
  <2>4. CASE c # r
    <3>1. Same(DenseMatrix(m)[r][c] * x[c], Column(m, x, r, c))
      BY <2>4, EntryIsColumn
    <3>2. u[c] = 0
      BY <2>4
    <3>3. h[c] = v[c] + w[c]
      <4> HIDE DEF u, v, w, vw, h
      <4> QED BY <2>1, <2>2, <3>2
    <3> HIDE DEF g, h, u, v, w, vw
    <3> QED BY <2>1, <2>2, <3>1, <3>3
  <2> QED BY <2>3, <2>4
<1>6. SumOf(u, C) = d
  <2>1. \A c \in C \ {r} : u[c] = 0
    OBVIOUS
  <2>2. u[r] = d
    OBVIOUS
  <2>3. IsFiniteSet(C \ {r})
    BY <1>1, FS_RemoveElement
  <2> HIDE DEF u, d
  <2>4. SumOf(u, C) = u[r] + SumOf(u, C \ {r})
    BY <1>1, <1>4, SumRemove
  <2>5. SumOf(u, C \ {r}) = 0
    BY <2>1, <2>3, SumZeros
  <2> QED BY <1>2, <2>2, <2>4, <2>5
<1>7. SumOf(v, C) = SumOf(a, S)
  <2>1. Groups(S, m.upper, C) = S
    BY <1>1, FieldFacts DEF Groups
  <2>2. \A c \in C : v[c] = SumOf(a, Group(S, m.upper, c))
    OBVIOUS
  <2>3. \A f \in S : a[f] \in Int
    BY <1>1, <1>2
  <2> HIDE DEF v, S, C, a
  <2>4. SumOf(a, Groups(S, m.upper, C)) = SumOf(v, C)
    BY <1>1, <2>2, <2>3, SumGroups
  <2> QED BY <2>1, <2>4
<1>8. SumOf(w, C) = SumOf(b, T)
  <2>1. Groups(T, m.lower, C) = T
    BY <1>1, FieldFacts DEF Groups
  <2>2. \A c \in C : w[c] = SumOf(b, Group(T, m.lower, c))
    OBVIOUS
  <2>3. \A f \in T : b[f] \in Int
    BY <1>1, <1>2
  <2> HIDE DEF w, T, C, b
  <2>4. SumOf(b, Groups(T, m.lower, C)) = SumOf(w, C)
    BY <1>1, <2>2, <2>3, SumGroups
  <2> QED BY <2>1, <2>4
<1>9. \A c \in C : vw[c] = v[c] + w[c] /\ h[c] = u[c] + vw[c]
  OBVIOUS
<1> HIDE DEF u, v, w, vw, h, C, a, b, d, g, S, T
<1>10. SumOf(vw, C) = SumOf(v, C) + SumOf(w, C)
  BY <1>1, <1>3, <1>9, SumPlus
<1>11. SumOf(h, C) = SumOf(u, C) + SumOf(vw, C)
  BY <1>1, <1>4, <1>9, SumPlus
<1>12. Same(SumOf(g, C), SumOf(h, C))
  BY <1>1, <1>4, <1>5, SumsSame
<1>13. SumOf(a, S) \in Int /\ SumOf(b, T) \in Int
  BY <1>1, RowSumInt DEF a, b
<1>14. SumOf(h, C) = d + SumOf(a, S) + SumOf(b, T)
  BY <1>2, <1>6, <1>7, <1>8, <1>10, <1>11, <1>13
<1> QED BY <1>12, <1>14 DEF Dot, RowSum, C, a, b, d, g, S, T

\* solveCoarsest solves the equation of the coarsest level.
LEMMA CoarsestSolved ==
  ASSUME NEW m, GoodMatrix(m), NEW b \in FieldOf(m)
  PROVE  /\ SolveCoarsest(m, b) \in FieldOf(m)
         /\ Singular(DenseMatrix(m)) \in BOOLEAN
         /\ Singular(DenseMatrix(m)) = FALSE /\ FacesDiffer(m) => Times(m, SolveCoarsest(m, b)) = b
<1> DEFINE x == SolveCoarsest(m, b)
<1>0. /\ CellsOf(m) = Rows(m.n) /\ m.n \in Nat /\ FieldOf(m) = [Rows(m.n) -> Value]
      /\ DenseMatrix(m) \in Dense(m.n)
  BY FieldFacts, DenseEntries DEF Rows, CellsOf, FieldOf
<1>1. /\ x \in FieldOf(m) /\ Singular(DenseMatrix(m)) \in BOOLEAN
      /\ Singular(DenseMatrix(m)) = FALSE => Solves(m.n, x, DenseMatrix(m), b)
  BY <1>0, SolveDenseSolves DEF SolveCoarsest
<1> HIDE DEF x
<1>2. ASSUME Singular(DenseMatrix(m)) = FALSE, FacesDiffer(m) PROVE Times(m, x) = b
  <2>1. ASSUME NEW c \in CellsOf(m) PROVE RowTimes(m, x, c) = b[c]
    <3>1. Same(Dot(DenseMatrix(m), x, c, CellsOf(m)), b[c])
      BY <1>0, <1>1, <1>2 DEF Solves
    <3>2. Same(Dot(DenseMatrix(m), x, c, CellsOf(m)),
               RowSum(m, x, c, OwnedFaces(m, c), AboveFaces(m, c)))
      BY <1>1, <1>2, DenseRow
    <3>3. Same(RowSum(m, x, c, OwnedFaces(m, c), AboveFaces(m, c)), b[c])
      BY <3>1, <3>2, SameIs
    <3>4. /\ RowTimes(m, x, c) = RowSum(m, x, c, OwnedFaces(m, c), AboveFaces(m, c)) % P
          /\ RowTimes(m, x, c) \in Value
      BY <1>1, RowTimesIs DEF OwnedFaces, AboveFaces
    <3>5. b[c] \in Value
      BY FieldFacts
    <3>6. b[c] % P = b[c]
      BY <3>5, RemainderOfValue
    <3> QED BY <3>3, <3>4, <3>6 DEF Same
  <2>2. b = [c \in CellsOf(m) |-> b[c]]
    BY <1>0
  <2> QED BY <2>1, <2>2 DEF Times
<1> QED BY <1>1, <1>2 DEF x

-----------------------------------------------------------------------------
(* The invariant of the solver.                                            *)

LevelNumbers == 0 .. nLevels - 1

\* the hierarchy as the solver needs it: maps from each level to the next one,
\* and a coarsest matrix without two faces that join the same cells
Levelled ==
  /\ \A k \in 1 .. Len(levels) : Maps(levels[k].fineToCoarse, matrices[k], matrices[k + 1])
  /\ Len(levels) >= 1 => FacesDiffer(Current)
  /\ phase = "built" => Len(levels) >= 1

Staged ==
  /\ stage \in {"setup", "ready", "loop", "down", "up", "measure", "returned", "applied", "thrown"}
  /\ stage # "setup" => phase = "built"
  /\ stage \notin {"setup", "thrown"} => ~InvalidIterations
  /\ stage \in {"setup", "ready"} => performance = NoPerformance

\* the fields of the call, from the first one on
CallFields ==
  stage \notin {"setup", "ready", "thrown"} =>
    psi \in FieldOf(Finest) /\ source \in FieldOf(Finest) /\ finestResidual \in FieldOf(Finest)

\* x has a field on the levels S, and none on the others
FieldsOn(x, S) ==
  /\ DOMAIN x = LevelNumbers
  /\ \A l \in LevelNumbers : IF l \in S THEN x[l] \in FieldOf(At(l)) ELSE x[l] = <<>>

\* on the way down the levels above have their fields, on the way up all have
CycleFields ==
  /\ stage = "down" => /\ level \in 1 .. nLevels - 1
                       /\ FieldsOn(sources, 0 .. level - 1)
                       /\ FieldsOn(corrections, 1 .. level - 1)
  /\ stage = "up" => /\ level \in 0 .. nLevels - 2
                     /\ FieldsOn(sources, 0 .. nLevels - 1)
                     /\ FieldsOn(corrections, 1 .. nLevels - 1)
  /\ stage = "measure" => level = 0

\* one norm for the start and one for each iteration, and what the last one says
Counted ==
  /\ performance.iterations \in Nat
  /\ performance.converged \in BOOLEAN
  /\ \E S : performance.residualHistory \in Seq(S)
  /\ stage \in {"loop", "measure", "returned"} => ~Applying
  /\ Applying => performance.iterations = 0
  /\ stage \in {"loop", "down", "up", "measure", "returned"} /\ ~Applying =>
       /\ Len(performance.residualHistory) = performance.iterations + 1
       /\ performance.iterations <= controls.maxIterations
       /\ performance.converged =
            (SmallNorm(performance.residualHistory[Len(performance.residualHistory)])
               /\ performance.iterations >= controls.minIterations)
  /\ stage \in {"down", "up", "measure"} /\ ~Applying =>
       performance.iterations < controls.maxIterations
  /\ stage = "returned" => performance.converged \/ performance.iterations = controls.maxIterations

\* the residual the loop decides by is the one of psi
ResidualKnown ==
  stage \in {"loop", "returned"} => finestResidual = MinusField(source, Times(Finest, psi))

\* whoever has been on the coarsest level once never throws there
NonsingularFound ==
  /\ stage \in {"up", "measure"} \/ performance.iterations > 0 =>
       Singular(DenseMatrix(Current)) = FALSE
  /\ stage = "thrown" => performance.iterations = 0

\* the sweeps of a cycle, as far as it has come
SweepsDone ==
  /\ stage \in {"down", "up", "measure", "applied"} => DOMAIN sweeps = LevelNumbers
  /\ stage = "down" => \A l \in LevelNumbers :
       sweeps[l] = [pre |-> IF l < level THEN Diagnostics(l).pre ELSE 0, post |-> 0]
  /\ stage = "up" => \A l \in LevelNumbers :
       sweeps[l] = [pre |-> Diagnostics(l).pre,
                    post |-> IF l > level THEN Diagnostics(l).post ELSE 0]
  /\ stage \in {"measure", "applied"} => \A l \in LevelNumbers : sweeps[l] = Diagnostics(l)

\* the coarsest level is solved when the way up begins
CoarsestExact ==
  stage = "up" /\ level = nLevels - 2 =>
    Times(Current, corrections[level + 1]) = sources[level + 1]

SInv ==
  /\ IInv /\ Levelled /\ Staged /\ CallFields /\ CycleFields
  /\ Counted /\ ResidualKnown /\ NonsingularFound /\ SweepsDone /\ CoarsestExact

-----------------------------------------------------------------------------
(* Steps of the hierarchy, and what the solver may rely on.                *)

\* A step of the constructor appends a level or leaves the levels alone.
LEMMA LevelledNext ==
  ASSUME IInv, Levelled, Next
  PROVE  Levelled'
<1>1. CASE Coarsen
  <2>1. PICK n \in Nat : n = Len(levels)
    BY <1>1, NewLevel
  <2>2. /\ Len(matrices) = n + 1 /\ Len(levels') = n + 1 /\ Len(matrices') = n + 2
        /\ \A k \in 1 .. n + 1 : matrices'[k] = matrices[k]
        /\ \A k \in 1 .. n : levels'[k] = levels[k]
    BY <1>1, <2>1, NewLevel
  <2>3. /\ matrices'[n + 1] = Current /\ matrices'[n + 2] = CoarseOne
        /\ levels'[n + 1].fineToCoarse = coarseCellMap
    <3>1. Current' = CoarseOne /\ Fine' = Current /\ Made'.fineToCoarse = coarseCellMap
      BY <1>1, NewLevel
    <3> QED BY <2>2, <3>1 DEF Current, Fine, Made
  <2>4. Hierarchy /\ Complete(Current, coarseCellMap, nCoarseCells)
    BY <1>1, NewLevel
  <2>5. Maps(coarseCellMap, Current, CoarseOne)
    BY <2>4, CoarseOneIs DEF Complete, Maps, CellsOf
  <2>6. FacesDiffer(CoarseOne)
    BY <2>4, CoarseOneGood, CoarseMapsRight DEF FacesDiffer
  <2>7. ASSUME NEW k \in 1 .. n + 1
        PROVE  Maps(levels'[k].fineToCoarse, matrices'[k], matrices'[k + 1])
    <3>1. CASE k \in 1 .. n
      <4>1. Maps(levels[k].fineToCoarse, matrices[k], matrices[k + 1])
        BY <2>1, <3>1 DEF Levelled
      <4>2. k \in 1 .. n + 1 /\ k + 1 \in 1 .. n + 1
        BY <3>1
      <4> QED BY <2>2, <3>1, <4>1, <4>2
    <3>2. CASE k = n + 1
      <4>1. k + 1 = n + 2
        BY <3>2
      <4> QED BY <2>3, <2>5, <3>2, <4>1
    <3> QED BY <3>1, <3>2
  <2>8. Current' = CoarseOne
    BY <1>1, NewLevel
  <2>9. phase' = "level"
    BY <1>1 DEF Coarsen
  <2> QED BY <2>2, <2>6, <2>7, <2>8, <2>9 DEF Levelled
<1>2. CASE UNCHANGED hierarchy
  <2>1. matrices' = matrices /\ levels' = levels /\ Current' = Current
    BY <1>2 DEF hierarchy, Current
  <2>2. phase' = "built" => Len(levels) >= 1
    <3> SUFFICES ASSUME phase' = "built" PROVE Len(levels) >= 1
      OBVIOUS
    <3>1. CASE Finish
      <4>1. levels # <<>> /\ \E S : levels \in Seq(S)
        BY <3>1 DEF Finish, IInv, Hierarchy
      <4>2. PICK S : levels \in Seq(S)
        BY <4>1
      <4>3. Len(levels) \in Nat /\ Len(levels) # 0
        BY <4>1, <4>2, LenProperties, EmptySeq
      <4> QED BY <4>3
    <3>2. CASE ~Finish
      BY <3>2 DEF Next, RejectControls, BeginLevel, PassOver, Pair, JoinCluster, Visiting,
                  FinishPairing, StopCoarsening, Coarsen, NoCoarseLevel
    <3> QED BY <3>1, <3>2
  <2> QED BY <2>1, <2>2 DEF Levelled
<1>3. Coarsen \/ UNCHANGED hierarchy
  BY DEF Next, vars, RejectControls, BeginLevel, PassOver, Pair, JoinCluster, Visiting,
         FinishPairing, StopCoarsening, Finish, NoCoarseLevel
<1> QED BY <1>1, <1>2, <1>3

\* Once the hierarchy is built its constructor takes no more steps.
LEMMA BuiltStops == phase = "built" => ~Next
BY DEF Next, RejectControls, BeginLevel, PassOver, Pair, JoinCluster, Visiting,
       FinishPairing, StopCoarsening, Coarsen, Finish, NoCoarseLevel, LoopEnds

\* A step that changes no level.
LEMMA LevelsStay ==
  ASSUME IInv, Levelled, UNCHANGED vars
  PROVE  /\ IInv' /\ Levelled'
         /\ phase' = phase /\ controls' = controls /\ levels' = levels
         /\ nLevels' = nLevels /\ Finest' = Finest /\ Current' = Current
         /\ \A l : At(l)' = At(l) /\ Diagnostics(l)' = Diagnostics(l)
         /\ LevelNumbers' = LevelNumbers /\ InvalidIterations' = InvalidIterations
<1>1. /\ phase' = phase /\ controls' = controls /\ levels' = levels /\ matrices' = matrices
  BY DEF vars, hierarchy
<1>2. nLevels' = nLevels /\ Finest' = Finest /\ Current' = Current /\ \A l : At(l)' = At(l)
  BY <1>1 DEF nLevels, Finest, Current, At
<1>3. (\A l : Diagnostics(l)' = Diagnostics(l)) /\ InvalidIterations' = InvalidIterations
  BY <1>1, <1>2 DEF Diagnostics, InvalidIterations
<1>4. LevelNumbers' = LevelNumbers
  BY <1>2 DEF LevelNumbers
<1>5. Levelled'
  BY <1>1, <1>2 DEF Levelled
<1> QED BY <1>1, <1>2, <1>3, <1>4, <1>5, IInvStays

\* What the solver may rely on.
LEMMA SolverFacts ==
  ASSUME IInv, Levelled, phase = "built"
  PROVE  /\ nLevels \in Nat /\ nLevels >= 2 /\ LevelNumbers = 0 .. nLevels - 1
         /\ \A l \in LevelNumbers : GoodMatrix(At(l))
         /\ GoodMatrix(Finest) /\ Finest = At(0)
         /\ GoodMatrix(Current) /\ Current = At(nLevels - 1) /\ FacesDiffer(Current)
         /\ \A l \in LevelNumbers : l + 1 < nLevels =>
              Maps(levels[l + 1].fineToCoarse, At(l), At(l + 1))
         /\ controls.nFinestSweeps \in Int /\ controls.minIterations \in Int
         /\ controls.maxIterations \in Int
         /\ \A l \in Int : PreSweeps(l) \in Int /\ PostSweeps(l) \in Int
<1>1. PICK n \in Nat : n = Len(levels)
  <2>1. PICK S : levels \in Seq(S)
    BY DEF IInv, Hierarchy
  <2> QED BY <2>1, LenProperties
<1>2. Len(matrices) = n + 1 /\ n >= 1
  BY <1>1 DEF IInv, Hierarchy, Levelled
<1>3. nLevels = n + 1
  BY <1>2 DEF nLevels
<1>4. \A l \in LevelNumbers : l \in Int /\ l + 1 \in 1 .. n + 1
  BY <1>3 DEF LevelNumbers
<1>5. \A l \in LevelNumbers : GoodMatrix(At(l))
  BY <1>2, <1>4 DEF IInv, Hierarchy, At
<1>6. Finest = At(0) /\ Current = At(nLevels - 1)
  <2>1. 0 + 1 = 1 /\ (n + 1) - 1 + 1 = n + 1
    OBVIOUS
  <2> QED BY <1>2, <1>3, <2>1 DEF Finest, Current, At
<1>7. 0 \in LevelNumbers /\ nLevels - 1 \in LevelNumbers
  BY <1>3 DEF LevelNumbers
<1>8. FacesDiffer(Current)
  BY <1>1, <1>2 DEF Levelled
<1>9. ASSUME NEW l \in LevelNumbers, l + 1 < nLevels
      PROVE  Maps(levels[l + 1].fineToCoarse, At(l), At(l + 1))
  <2>1. l + 1 \in 1 .. n
    BY <1>3, <1>4, <1>9
  <2> QED BY <1>1, <2>1 DEF Levelled, At
<1>10. controls \in Controls
  BY DEF IInv
<1>11. /\ {controls.nPreSweeps, controls.preSweepsLevelMultiplier, controls.maxPreSweeps,
           controls.nPostSweeps, controls.postSweepsLevelMultiplier, controls.maxPostSweeps,
           controls.nFinestSweeps, controls.minIterations, controls.maxIterations} \subseteq Int
  BY <1>10, ControlsAssumption
<1>12. ASSUME NEW l \in Int PROVE PreSweeps(l) \in Int /\ PostSweeps(l) \in Int
  <2>1. \A a, b, c \in Int : AtMost(a + b * (l - 1), c) \in Int
    <3>1. \A a, b, c \in Int : a + b * (l - 1) \in Int
      OBVIOUS
    <3> QED BY <3>1 DEF AtMost
  <2> QED BY <1>11, <2>1 DEF PreSweeps, PostSweeps
<1> QED BY <1>2, <1>3, <1>5, <1>6, <1>7, <1>8, <1>9, <1>11, <1>12 DEF LevelNumbers

-----------------------------------------------------------------------------
(* Every step of the solver keeps the invariant.                           *)

\* No performance is a performance.
LEMMA NoPerformanceIs ==
  /\ NoPerformance.iterations = 0 /\ NoPerformance.converged = FALSE
  /\ NoPerformance.residualHistory = <<>>
  /\ \E S : NoPerformance.residualHistory \in Seq(S)
<1>1. NoPerformance.residualHistory \in Seq({})
  BY DEF NoPerformance
<1> QED BY <1>1 DEF NoPerformance

\* A step that ends in an exception.
LEMMA ThrowsKeep ==
  ASSUME SInv, UNCHANGED vars, phase = "built", stage' = "thrown",
         \/ performance' = performance /\ performance.iterations = 0
         \/ performance' = NoPerformance
  PROVE  SInv'
<1>1. IInv' /\ Levelled' /\ phase' = "built"
  BY LevelsStay DEF SInv
<1>2. Staged'
  BY <1>1 DEF Staged
<1>3. /\ performance'.iterations = 0 /\ performance'.converged \in BOOLEAN
      /\ \E S : performance'.residualHistory \in Seq(S)
  BY NoPerformanceIs DEF SInv, Counted
<1>4. Counted'
  BY <1>3 DEF Counted
<1>5. NonsingularFound'
  BY <1>3 DEF NonsingularFound
<1>6. CallFields' /\ CycleFields' /\ ResidualKnown' /\ SweepsDone' /\ CoarsestExact'
  BY DEF CallFields, CycleFields, ResidualKnown, SweepsDone, CoarsestExact
<1> QED BY <1>1, <1>2, <1>4, <1>5, <1>6 DEF SInv

\* Exceptions are thrown where no iteration has been counted.
LEMMA RejectIterationsKeeps ==
  ASSUME SInv, RejectIterations
  PROVE  SInv'
<1>1. phase = "built" /\ stage' = "thrown" /\ UNCHANGED vars /\ performance' = performance
      /\ stage = "setup"
  BY DEF RejectIterations
<1>2. performance.iterations = 0
  BY <1>1, NoPerformanceIs DEF SInv, Staged
<1> QED BY <1>1, <1>2, ThrowsKeep

\* The same of fields of the wrong size,
LEMMA RejectFieldsKeeps ==
  ASSUME SInv, RejectFields
  PROVE  SInv'
<1>1. stage' = "thrown" /\ UNCHANGED vars /\ performance' = NoPerformance /\ stage # "setup"
  BY DEF RejectFields, Idle
<1>2. phase = "built"
  BY <1>1 DEF SInv, Staged
<1> QED BY <1>1, <1>2, ThrowsKeep

\* and of a singular coarsest matrix, which the first cycle finds.
LEMMA SingularCoarsestKeeps ==
  ASSUME SInv, SingularCoarsest
  PROVE  SInv'
<1>1. /\ stage' = "thrown" /\ UNCHANGED vars /\ performance' = performance /\ stage = "down"
      /\ level + 1 = nLevels /\ Singular(DenseMatrix(At(level)))
  BY DEF SingularCoarsest
<1>2. phase = "built"
  BY <1>1 DEF SInv, Staged
<1>3. At(level) = Current
  <2>1. level \in 1 .. nLevels - 1 /\ nLevels \in Nat /\ Current = At(nLevels - 1)
    BY <1>1, <1>2, SolverFacts DEF SInv, CycleFields
  <2>2. level = nLevels - 1
    BY <1>1, <2>1
  <2> QED BY <2>1, <2>2
<1>4. performance.iterations = 0
  <2>1. ~(performance.iterations > 0)
    BY <1>1, <1>3 DEF SInv, NonsingularFound
  <2>2. performance.iterations \in Nat
    BY DEF SInv, Counted
  <2> QED BY <2>1, <2>2
<1> QED BY <1>1, <1>2, <1>4, ThrowsKeep

\* The constructor of the solver has checked the numbers of iterations.
LEMMA ConstructKeeps ==
  ASSUME SInv, Construct
  PROVE  SInv'
<1>1. /\ stage' = "ready" /\ UNCHANGED vars /\ UNCHANGED performance /\ stage = "setup"
      /\ phase = "built" /\ ~InvalidIterations
  BY DEF Construct
<1>2. IInv' /\ Levelled' /\ phase' = "built" /\ InvalidIterations' = InvalidIterations
  BY <1>1, LevelsStay DEF SInv
<1>3. performance = NoPerformance
  BY <1>1 DEF SInv, Staged
<1>4. Staged'
  BY <1>1, <1>2, <1>3 DEF Staged, NoPerformance
<1>5. Counted'
  BY <1>1 DEF SInv, Counted, Applying
<1>6. NonsingularFound'
  <2>1. ~(performance'.iterations > 0)
    BY <1>1, <1>3, NoPerformanceIs
  <2> QED BY <1>1, <2>1 DEF NonsingularFound
<1>7. CallFields' /\ CycleFields' /\ ResidualKnown' /\ SweepsDone' /\ CoarsestExact'
  BY <1>1 DEF CallFields, CycleFields, ResidualKnown, SweepsDone, CoarsestExact
<1> QED BY <1>2, <1>4, <1>5, <1>6, <1>7 DEF SInv

\* Nothing but the hierarchy changes while it is built.
LEMMA AgglomerateKeeps ==
  ASSUME SInv, Agglomerate
  PROVE  SInv'
<1>1. Next /\ UNCHANGED solving
  BY DEF Agglomerate
<1>2. stage' = stage /\ performance' = performance
  BY <1>1 DEF solving
<1>3. phase # "built"
  BY <1>1, BuiltStops
<1>4. stage = "setup"
  BY <1>3 DEF SInv, Staged
<1>5. IInv' /\ Levelled'
  BY <1>1, IInvNext, LevelledNext DEF SInv
<1>6. performance = NoPerformance
  BY <1>4 DEF SInv, Staged
<1>7. Staged'
  BY <1>2, <1>4, <1>6 DEF Staged, NoPerformance
<1>8. Counted'
  BY <1>2, <1>4 DEF SInv, Counted, Applying
<1>9. NonsingularFound'
  BY <1>2, <1>4, <1>6, NoPerformanceIs DEF NonsingularFound
<1>10. CallFields' /\ CycleFields' /\ ResidualKnown' /\ SweepsDone' /\ CoarsestExact'
  BY <1>2, <1>4 DEF CallFields, CycleFields, ResidualKnown, SweepsDone, CoarsestExact
<1> QED BY <1>5, <1>7, <1>8, <1>9, <1>10 DEF SInv

\* A step that changes nothing.
LEMMA NothingKeeps ==
  ASSUME SInv, UNCHANGED solverVars
  PROVE  SInv'
<1>1. /\ UNCHANGED vars /\ stage' = stage /\ performance' = performance /\ level' = level
      /\ psi' = psi /\ source' = source /\ finestResidual' = finestResidual
      /\ corrections' = corrections /\ sources' = sources /\ sweeps' = sweeps
  BY DEF solverVars, solving, fields, cycle
<1>2. /\ IInv' /\ Levelled' /\ phase' = phase /\ controls' = controls
      /\ nLevels' = nLevels /\ Finest' = Finest /\ Current' = Current
      /\ \A l : At(l)' = At(l) /\ Diagnostics(l)' = Diagnostics(l)
      /\ LevelNumbers' = LevelNumbers /\ InvalidIterations' = InvalidIterations
  BY <1>1, LevelsStay DEF SInv
<1>3. Staged'
  BY <1>1, <1>2 DEF SInv, Staged, NoPerformance
<1>4. CallFields'
  BY <1>1, <1>2 DEF SInv, CallFields
<1>5. CycleFields'
  BY <1>1, <1>2 DEF SInv, CycleFields, FieldsOn
<1>6. Counted'
  BY <1>1, <1>2 DEF SInv, Counted, Applying, SmallNorm
<1>7. ResidualKnown'
  BY <1>1, <1>2 DEF SInv, ResidualKnown
<1>8. NonsingularFound'
  BY <1>1, <1>2 DEF SInv, NonsingularFound
<1>9. SweepsDone'
  BY <1>1, <1>2 DEF SInv, SweepsDone
<1>10. CoarsestExact'
  BY <1>1, <1>2 DEF SInv, CoarsestExact
<1> QED BY <1>2, <1>3, <1>4, <1>5, <1>6, <1>7, <1>8, <1>9, <1>10 DEF SInv

\* solve returns where the loop ends.
LEMMA ReturnKeeps ==
  ASSUME SInv, Return
  PROVE  SInv'
<1>1. /\ UNCHANGED vars /\ stage = "loop" /\ stage' = "returned" /\ ~GoesOn
      /\ performance' = performance
      /\ psi' = psi /\ source' = source /\ finestResidual' = finestResidual
  BY DEF Return, fields
<1>2. /\ IInv' /\ Levelled' /\ phase' = phase /\ controls' = controls /\ Finest' = Finest
      /\ Current' = Current /\ InvalidIterations' = InvalidIterations
  BY <1>1, LevelsStay DEF SInv
<1>3. Staged'
  BY <1>1, <1>2 DEF SInv, Staged
<1>4. CallFields' /\ ResidualKnown'
  BY <1>1, <1>2 DEF SInv, CallFields, ResidualKnown
<1>5. Counted'
  <2>1. /\ performance.iterations \in Nat /\ controls.maxIterations \in Int
        /\ controls.minIterations \in Int /\ performance.iterations <= controls.maxIterations
        /\ performance.converged =
             (SmallNorm(performance.residualHistory[Len(performance.residualHistory)])
                /\ performance.iterations >= controls.minIterations)
        /\ performance.converged \in BOOLEAN
    BY <1>1, SolverFacts DEF SInv, Counted, Staged
  <2>2. performance.converged \/ performance.iterations = controls.maxIterations
    <3>1. performance.iterations >= controls.maxIterations \/ performance.converged
      BY <1>1, <2>1 DEF GoesOn
    <3> QED BY <2>1, <3>1
  <2> QED BY <1>1, <1>2, <2>2 DEF SInv, Counted, Applying, SmallNorm
<1>6. NonsingularFound'
  BY <1>1, <1>2 DEF SInv, NonsingularFound
<1>7. CycleFields' /\ SweepsDone' /\ CoarsestExact'
  BY <1>1 DEF CycleFields, SweepsDone, CoarsestExact
<1> QED BY <1>2, <1>3, <1>4, <1>5, <1>6, <1>7 DEF SInv

\* What holds of the levels whenever the solver has been constructed.
LEMMA AtWork ==
  ASSUME SInv, stage # "setup", stage # "thrown"
  PROVE  /\ IInv /\ Levelled /\ phase = "built" /\ ~InvalidIterations
         /\ controls.maxIterations \in Int /\ controls.minIterations \in Int
         /\ controls.maxIterations >= 1 /\ controls.minIterations >= 0
<1>1. IInv /\ Levelled /\ phase = "built" /\ ~InvalidIterations
  BY DEF SInv, Staged
<1>2. controls.maxIterations \in Int /\ controls.minIterations \in Int
  BY <1>1, SolverFacts
<1> QED BY <1>1, <1>2 DEF InvalidIterations

\* The fields of a start of the right size are fields of the finest level.
LEMMA StartFields ==
  ASSUME NEW start \in Starts, ~WrongSize(start)
  PROVE  start.psi \in FieldOf(Finest) /\ start.source \in FieldOf(Finest)
<1>1. DOMAIN start.psi = CellsOf(Finest) /\ DOMAIN start.source = CellsOf(Finest)
  BY DEF WrongSize
<1>2. start.psi \in [DOMAIN start.psi -> Value] /\ start.source \in [DOMAIN start.source -> Value]
  BY StartsAssumption
<1>3. CellsOf(Finest) = Index(Finest)
  BY DEF CellsOf, Index
<1> QED BY <1>1, <1>2, <1>3 DEF FieldOf

\* solve begins with the residual of psi.
LEMMA SolveKeeps ==
  ASSUME SInv, Solve
  PROVE  SInv'
<1>1. Idle /\ UNCHANGED vars /\ stage' = "loop"
  BY DEF Solve
<1>2. PICK start \in Starts :
        /\ ~WrongSize(start) /\ psi' = start.psi /\ source' = start.source
        /\ finestResidual' = MinusField(source', Multiply(Finest, psi'))
        /\ \E norm \in NormOf(finestResidual') \ {"relative"} :
             performance' = [converged |-> SmallNorm(norm) /\ controls.minIterations = 0,
                             iterations |-> 0, residualHistory |-> <<norm>>]
  BY DEF Solve
<1>3. PICK norm : performance' = [converged |-> SmallNorm(norm) /\ controls.minIterations = 0,
                                  iterations |-> 0, residualHistory |-> <<norm>>]
  BY <1>2
<1>4. /\ IInv /\ Levelled /\ phase = "built" /\ ~InvalidIterations
      /\ controls.maxIterations \in Int /\ controls.minIterations \in Int
      /\ controls.maxIterations >= 1 /\ controls.minIterations >= 0
  BY <1>1, AtWork DEF Idle
<1>5. /\ IInv' /\ Levelled' /\ phase' = phase /\ controls' = controls /\ Finest' = Finest
      /\ Current' = Current /\ InvalidIterations' = InvalidIterations
  BY <1>1, <1>4, LevelsStay
<1>6. Staged'
  BY <1>1, <1>4, <1>5 DEF Staged
<1>7. PICK x, b, m : x = psi' /\ b = source' /\ m = Finest
  OBVIOUS
<1>8. GoodMatrix(m) /\ x \in FieldOf(m) /\ b \in FieldOf(m)
  BY <1>2, <1>4, <1>7, StartFields, SolverFacts
<1>9. Multiply(m, x) = Times(m, x) /\ Multiply(m, x) \in FieldOf(m)
  BY <1>8, MultiplyIsTimes
<1>10. finestResidual' = MinusField(b, Times(m, x)) /\ finestResidual' \in FieldOf(m)
  BY <1>2, <1>7, <1>8, <1>9, SimpleFields
<1>11. CallFields' /\ ResidualKnown'
  BY <1>1, <1>5, <1>7, <1>8, <1>10 DEF CallFields, ResidualKnown
<1>12. /\ performance'.iterations = 0 /\ performance'.residualHistory = <<norm>>
       /\ performance'.converged = (SmallNorm(norm) /\ controls.minIterations = 0)
  BY <1>3
<1>13. SmallNorm(norm)' = SmallNorm(norm)
  BY <1>5 DEF SmallNorm
<1>14. Counted'
  <2>1. <<norm>> # <<>> /\ Len(<<norm>>) = 0 + 1 /\ <<norm>>[Len(<<norm>>)] = norm
        /\ <<norm>> \in Seq({norm})
    OBVIOUS
  <2>2. 0 >= controls.minIterations <=> controls.minIterations = 0
    BY <1>4
  <2>3. performance'.converged \in BOOLEAN
    BY <1>12
  <2>4. performance'.converged = (SmallNorm(norm)' /\ 0 >= controls'.minIterations)
    BY <1>5, <1>12, <1>13, <2>2
  <2>5. 0 \in Nat /\ 0 <= controls'.maxIterations
    BY <1>4, <1>5
  <2>6. ~Applying'
    BY <1>12, <2>1 DEF Applying
  <2> HIDE DEF SmallNorm
  <2> QED BY <1>1, <1>12, <2>1, <2>3, <2>4, <2>5, <2>6 DEF Counted
<1>15. NonsingularFound'
  <2>1. ~(performance'.iterations > 0)
    BY <1>12
  <2> QED BY <1>1, <2>1 DEF NonsingularFound
<1>16. CycleFields' /\ SweepsDone' /\ CoarsestExact'
  BY <1>1 DEF CycleFields, SweepsDone, CoarsestExact
<1> QED BY <1>5, <1>6, <1>11, <1>14, <1>15, <1>16 DEF SInv

\* A cycle begins with the residual on the finest level and nothing below.
LEMMA EnterKeeps ==
  ASSUME IInv, Levelled, phase = "built", UNCHANGED vars, NEW r \in FieldOf(Finest), EnterCycle(r)
  PROVE  stage' = "down" /\ CycleFields' /\ SweepsDone' /\ CoarsestExact' /\ ResidualKnown'
<1>1. /\ stage' = "down" /\ level' = 1
      /\ corrections' = [l \in 0 .. nLevels - 1 |-> <<>>]
      /\ sources' = [l \in 0 .. nLevels - 1 |-> IF l = 0 THEN r ELSE <<>>]
      /\ sweeps' = [l \in 0 .. nLevels - 1 |-> NoSweeps]
  BY DEF EnterCycle
<1>2. /\ nLevels' = nLevels /\ \A l : At(l)' = At(l) /\ Diagnostics(l)' = Diagnostics(l)
      /\ LevelNumbers' = LevelNumbers
  BY LevelsStay
<1>3. nLevels \in Nat /\ nLevels >= 2 /\ LevelNumbers = 0 .. nLevels - 1 /\ Finest = At(0)
  BY SolverFacts
<1>4. DOMAIN sources' = LevelNumbers /\ DOMAIN corrections' = LevelNumbers /\ DOMAIN sweeps' = LevelNumbers
  BY <1>1, <1>3
<1>5. \A l \in LevelNumbers : /\ IF l \in 0 .. 0 THEN sources'[l] \in FieldOf(At(l)) ELSE sources'[l] = <<>>
                              /\ corrections'[l] = <<>> /\ sweeps'[l] = NoSweeps
  BY <1>1, <1>3
<1>6. FieldsOn(sources, 0 .. level - 1)'
  <2>1. 0 .. level' - 1 = 0 .. 0
    BY <1>1
  <2> QED BY <1>2, <1>4, <1>5, <2>1 DEF FieldsOn
<1>7. FieldsOn(corrections, 1 .. level - 1)'
  <2>1. 1 .. level' - 1 = {}
    BY <1>1
  <2> QED BY <1>2, <1>4, <1>5, <2>1 DEF FieldsOn
<1>8. CycleFields'
  <2>1. 1 \in 1 .. nLevels' - 1
    BY <1>2, <1>3
  <2> QED BY <1>1, <1>6, <1>7, <2>1 DEF CycleFields
<1>9. SweepsDone'
  <2>1. Diagnostics(0).pre = 0
    BY <1>3 DEF Diagnostics
  <2>2. \A l \in LevelNumbers : l < 1 => l = 0
    BY <1>3
  <2>3. \A l \in LevelNumbers : (IF l < 1 THEN Diagnostics(l).pre ELSE 0) = 0
    BY <2>1, <2>2
  <2>4. \A l \in LevelNumbers :
          sweeps'[l] = [pre |-> IF l < level' THEN (Diagnostics(l)').pre ELSE 0, post |-> 0]
    BY <1>1, <1>2, <1>5, <2>3 DEF NoSweeps
  <2> QED BY <1>1, <1>2, <1>4, <2>4 DEF SweepsDone
<1> QED BY <1>1, <1>8, <1>9 DEF CoarsestExact, ResidualKnown

\* The loop begins a cycle with the residual it has decided by.
LEMMA BeginCycleKeeps ==
  ASSUME SInv, BeginCycle
  PROVE  SInv'
<1>1. /\ stage = "loop" /\ GoesOn /\ EnterCycle(finestResidual)
      /\ UNCHANGED vars /\ performance' = performance
      /\ psi' = psi /\ source' = source /\ finestResidual' = finestResidual
  BY DEF BeginCycle, fields
<1>2. /\ IInv /\ Levelled /\ phase = "built" /\ ~InvalidIterations
      /\ controls.maxIterations \in Int /\ controls.minIterations \in Int
  BY <1>1, AtWork
<1>3. /\ IInv' /\ Levelled' /\ phase' = phase /\ controls' = controls /\ Finest' = Finest
      /\ Current' = Current /\ InvalidIterations' = InvalidIterations
  BY <1>1, <1>2, LevelsStay
<1>4. finestResidual \in FieldOf(Finest)
  BY <1>1 DEF SInv, CallFields
<1>5. stage' = "down" /\ CycleFields' /\ SweepsDone' /\ CoarsestExact' /\ ResidualKnown'
  BY <1>1, <1>2, <1>4, EnterKeeps
<1>6. Staged'
  BY <1>2, <1>3, <1>5 DEF Staged
<1>7. CallFields'
  BY <1>1, <1>3, <1>5 DEF SInv, CallFields
<1>8. Counted'
  <2>1. performance.iterations < controls.maxIterations
    BY <1>1 DEF GoesOn
  <2> QED BY <1>1, <1>3, <1>5, <2>1 DEF SInv, Counted, Applying, SmallNorm
<1>9. NonsingularFound'
  BY <1>1, <1>3, <1>5 DEF SInv, NonsingularFound
<1> QED BY <1>3, <1>5, <1>6, <1>7, <1>8, <1>9 DEF SInv

\* The benchmarks begin one with the residual of their field.
LEMMA ApplyVCycleKeeps ==
  ASSUME SInv, ApplyVCycle
  PROVE  SInv'
<1>1. Idle /\ UNCHANGED vars /\ performance' = NoPerformance /\ EnterCycle(finestResidual')
  BY DEF ApplyVCycle
<1>2. PICK start \in Starts :
        /\ ~WrongSize(start) /\ psi' = start.psi /\ source' = start.source
        /\ finestResidual' = Residual(Finest, start.psi, start.source)
  BY DEF ApplyVCycle
<1>3. IInv /\ Levelled /\ phase = "built" /\ ~InvalidIterations
  BY <1>1, AtWork DEF Idle
<1>4. /\ IInv' /\ Levelled' /\ phase' = phase /\ controls' = controls /\ Finest' = Finest
      /\ Current' = Current /\ InvalidIterations' = InvalidIterations
  BY <1>1, <1>3, LevelsStay
<1>5. /\ psi' \in FieldOf(Finest) /\ source' \in FieldOf(Finest)
      /\ finestResidual' \in FieldOf(Finest)
  <2>1. PICK x, b, m : x = start.psi /\ b = start.source /\ m = Finest
    OBVIOUS
  <2>2. GoodMatrix(m) /\ x \in FieldOf(m) /\ b \in FieldOf(m)
    BY <1>2, <1>3, <2>1, StartFields, SolverFacts
  <2> QED BY <1>2, <2>1, <2>2, SimpleFields
<1>6. stage' = "down" /\ CycleFields' /\ SweepsDone' /\ CoarsestExact' /\ ResidualKnown'
  <2>1. PICK r : r = finestResidual'
    OBVIOUS
  <2>2. EnterCycle(r) /\ r \in FieldOf(Finest)
    BY <1>1, <1>5, <2>1 DEF EnterCycle
  <2> QED BY <1>1, <1>3, <2>2, EnterKeeps
<1>7. Staged'
  BY <1>3, <1>4, <1>6 DEF Staged
<1>8. CallFields'
  BY <1>4, <1>5, <1>6 DEF CallFields
<1>9. /\ performance'.iterations = 0 /\ performance'.converged \in BOOLEAN
      /\ performance'.residualHistory = <<>> /\ \E S : performance'.residualHistory \in Seq(S)
  BY <1>1, NoPerformanceIs
<1>10. Counted'
  BY <1>6, <1>9 DEF Counted, Applying
<1>11. NonsingularFound'
  <2>1. ~(performance'.iterations > 0)
    BY <1>9
  <2> QED BY <1>6, <2>1 DEF NonsingularFound
<1> QED BY <1>4, <1>6, <1>7, <1>8, <1>10, <1>11 DEF SInv

\* One more level has a field.
LEMMA FieldsExtend ==
  ASSUME NEW x, NEW S, FieldsOn(x, S), NEW l \in LevelNumbers, NEW v \in FieldOf(At(l))
  PROVE  FieldsOn([x EXCEPT ![l] = v], S \cup {l})
BY DEF FieldsOn

\* Fields scaled on their level stay fields.
LEMMA ScaledField ==
  ASSUME IInv, Levelled, phase = "built", NEW l \in LevelNumbers,
         NEW x \in FieldOf(At(l)), NEW b \in FieldOf(At(l))
  PROVE  Scaled(l, x, b) \in FieldOf(At(l))
<1>1. GoodMatrix(At(l))
  BY SolverFacts
<1>2. ScaleCorrection(At(l), x, b) \in FieldOf(At(l))
  BY <1>1, ScaleField
<1> QED BY <1>2 DEF Scaled

\* What the level above hands down is a field.
LEMMA RestrictedField ==
  ASSUME SInv, stage = "down"
  PROVE  Restricted \in FieldOf(At(level)) /\ level \in LevelNumbers /\ level >= 1
<1>1. IInv /\ Levelled /\ phase = "built"
  BY AtWork
<1>2. PICK l \in Int : l = level /\ l \in 1 .. nLevels - 1 /\ FieldsOn(sources, 0 .. l - 1)
  BY DEF SInv, CycleFields
<1>3. nLevels \in Nat /\ LevelNumbers = 0 .. nLevels - 1
  BY <1>1, SolverFacts
<1>4. PICK k \in LevelNumbers : k = l - 1 /\ k \in 0 .. l - 1 /\ k + 1 = l /\ k + 1 < nLevels
  BY <1>2, <1>3
<1>5. l \in LevelNumbers
  BY <1>2, <1>3
<1>6. sources[k] \in FieldOf(At(k))
  BY <1>2, <1>4 DEF FieldsOn
<1>7. GoodMatrix(At(k)) /\ GoodMatrix(At(l)) /\ Maps(levels[l].fineToCoarse, At(k), At(l))
  BY <1>1, <1>4, <1>5, SolverFacts
<1>8. RestrictField(levels[l].fineToCoarse, At(l).n, sources[k]) \in FieldOf(At(l))
  BY <1>6, <1>7, TransferFields
<1> QED BY <1>2, <1>4, <1>5, <1>8 DEF Restricted

\* A visit of a level on the way down.
LEMMA DescendKeeps ==
  ASSUME SInv, Descend
  PROVE  SInv'
<1>0. PICK l \in LevelNumbers : l = level
  BY RestrictedField DEF Descend
<1>1. /\ stage = "down" /\ stage' = "down" /\ level + 1 < nLevels /\ level' = level + 1
      /\ UNCHANGED vars /\ performance' = performance
      /\ psi' = psi /\ source' = source /\ finestResidual' = finestResidual
  BY DEF Descend, fields
<1>2. IInv /\ Levelled /\ phase = "built" /\ ~InvalidIterations
  BY <1>1, AtWork
<1>3. /\ IInv' /\ Levelled' /\ phase' = phase /\ controls' = controls
      /\ nLevels' = nLevels /\ Finest' = Finest /\ Current' = Current
      /\ \A j : At(j)' = At(j) /\ Diagnostics(j)' = Diagnostics(j)
      /\ LevelNumbers' = LevelNumbers /\ InvalidIterations' = InvalidIterations
  BY <1>1, <1>2, LevelsStay
<1>4. PICK r \in FieldOf(At(l)) : l = level /\ r = Restricted
  BY <1>0, <1>1, RestrictedField
<1>5. /\ nLevels \in Nat /\ LevelNumbers = 0 .. nLevels - 1 /\ l \in 1 .. nLevels - 2
      /\ GoodMatrix(At(l)) /\ l \in Int
      /\ FieldsOn(sources, 0 .. l - 1) /\ FieldsOn(corrections, 1 .. l - 1)
  BY <1>1, <1>2, <1>4, SolverFacts, RestrictedField DEF SInv, CycleFields
<1> DEFINE zero == ZeroField(At(l).n)
           smoothed == GaussSeidelSmooth(At(l), zero, r, PreSweeps(l))
           correction == Scaled(l, smoothed, r)
<1>6. zero \in FieldOf(At(l))
  BY <1>5, SimpleFields
<1>7. smoothed \in FieldOf(At(l))
  <2>1. PreSweeps(l) \in Int
    BY <1>2, <1>5, SolverFacts
  <2> HIDE DEF zero
  <2> QED BY <1>5, <1>6, <2>1, SmoothField
<1>8. correction \in FieldOf(At(l))
  <2> HIDE DEF smoothed
  <2> QED BY <1>2, <1>7, ScaledField
<1>9. Residual(At(l), correction, r) \in FieldOf(At(l))
  <2> HIDE DEF correction
  <2> QED BY <1>5, <1>8, SimpleFields
<1>10. IF controls.nPreSweeps > 0
         THEN /\ corrections' = [corrections EXCEPT ![l] = correction]
              /\ sources' = [sources EXCEPT ![l] = Residual(At(l), correction, r)]
              /\ sweeps' = [sweeps EXCEPT ![l].pre = PreSweeps(l)]
         ELSE /\ corrections' = [corrections EXCEPT ![l] = zero]
              /\ sources' = [sources EXCEPT ![l] = r]
              /\ sweeps' = sweeps
  BY <1>4 DEF Descend
<1> HIDE DEF zero, smoothed, correction
<1>11. PICK s \in FieldOf(At(l)), c \in FieldOf(At(l)) :
         corrections' = [corrections EXCEPT ![l] = c] /\ sources' = [sources EXCEPT ![l] = s]
  BY <1>6, <1>8, <1>9, <1>10
<1>12. CycleFields'
  <2>1. /\ 0 .. level' - 1 = (0 .. l - 1) \cup {l} /\ 1 .. level' - 1 = (1 .. l - 1) \cup {l}
        /\ level' \in 1 .. nLevels - 1
    BY <1>1, <1>4, <1>5
  <2>2. /\ FieldsOn([sources EXCEPT ![l] = s], (0 .. l - 1) \cup {l})
        /\ FieldsOn([corrections EXCEPT ![l] = c], (1 .. l - 1) \cup {l})
    BY <1>5, FieldsExtend
  <2>3. FieldsOn(sources, 0 .. level - 1)'
    BY <1>3, <1>11, <2>1, <2>2 DEF FieldsOn
  <2>4. FieldsOn(corrections, 1 .. level - 1)'
    BY <1>3, <1>11, <2>1, <2>2 DEF FieldsOn
  <2> QED BY <1>1, <1>3, <2>1, <2>3, <2>4 DEF CycleFields
<1>13. SweepsDone'
  <2>1. /\ DOMAIN sweeps = LevelNumbers
        /\ \A j \in LevelNumbers :
             sweeps[j] = [pre |-> IF j < l THEN Diagnostics(j).pre ELSE 0, post |-> 0]
    BY <1>1, <1>4 DEF SInv, SweepsDone
  <2>2. Diagnostics(l).pre = IF controls.nPreSweeps > 0 THEN PreSweeps(l) ELSE 0
    BY <1>5 DEF Diagnostics, PreSweeps
  <2>3. sweeps[l] = [pre |-> 0, post |-> 0]
    BY <1>5, <2>1
  <2>4. DOMAIN sweeps' = LevelNumbers /\ \A j \in LevelNumbers : j # l => sweeps'[j] = sweeps[j]
    BY <1>10, <2>1
  <2>5. sweeps'[l] = [pre |-> Diagnostics(l).pre, post |-> 0]
    <3>1. CASE controls.nPreSweeps > 0
      <4>1. sweeps' = [sweeps EXCEPT ![l].pre = PreSweeps(l)]
        BY <1>10, <3>1
      <4>2. sweeps'[l] = [sweeps[l] EXCEPT !.pre = PreSweeps(l)]
        BY <2>1, <4>1
      <4> QED BY <2>2, <2>3, <3>1, <4>2
    <3>2. CASE ~(controls.nPreSweeps > 0)
      BY <1>10, <2>2, <2>3, <3>2
    <3> QED BY <3>1, <3>2
  <2>6. \A j \in LevelNumbers : (j = l => j < l + 1) /\ (j # l => (j < l + 1 <=> j < l))
    BY <1>5
  <2>7. \A j \in LevelNumbers :
          sweeps'[j] = [pre |-> IF j < l + 1 THEN Diagnostics(j).pre ELSE 0, post |-> 0]
    BY <2>1, <2>4, <2>5, <2>6
  <2> QED BY <1>1, <1>3, <1>4, <2>4, <2>7 DEF SweepsDone
<1>14. Staged'
  BY <1>1, <1>2, <1>3 DEF Staged
<1>15. CallFields'
  BY <1>1, <1>3 DEF SInv, CallFields
<1>16. Counted'
  BY <1>1, <1>3 DEF SInv, Counted, Applying, SmallNorm
<1>17. NonsingularFound'
  BY <1>1, <1>3 DEF SInv, NonsingularFound
<1>18. CoarsestExact' /\ ResidualKnown'
  BY <1>1 DEF CoarsestExact, ResidualKnown
<1> QED BY <1>3, <1>12, <1>13, <1>14, <1>15, <1>16, <1>17, <1>18 DEF SInv

\* The coarsest level is solved.
LEMMA SolveCoarsestLevelKeeps ==
  ASSUME SInv, SolveCoarsestLevel
  PROVE  SInv'
<1>0. PICK l \in LevelNumbers : l = level
  BY RestrictedField DEF SolveCoarsestLevel
<1>1. /\ stage = "down" /\ stage' = "up" /\ level + 1 = nLevels /\ level' = level - 1
      /\ UNCHANGED vars /\ performance' = performance /\ sweeps' = sweeps
      /\ psi' = psi /\ source' = source /\ finestResidual' = finestResidual
      /\ ~Singular(DenseMatrix(At(level)))
  BY DEF SolveCoarsestLevel, fields
<1>2. IInv /\ Levelled /\ phase = "built" /\ ~InvalidIterations
  BY <1>1, AtWork
<1>3. /\ IInv' /\ Levelled' /\ phase' = phase /\ controls' = controls
      /\ nLevels' = nLevels /\ Finest' = Finest /\ Current' = Current
      /\ \A j : At(j)' = At(j) /\ Diagnostics(j)' = Diagnostics(j)
      /\ LevelNumbers' = LevelNumbers /\ InvalidIterations' = InvalidIterations
  BY <1>1, <1>2, LevelsStay
<1>4. PICK r \in FieldOf(At(l)) : l = level /\ r = Restricted
  BY <1>0, <1>1, RestrictedField
<1>5. /\ nLevels \in Nat /\ LevelNumbers = 0 .. nLevels - 1 /\ nLevels >= 2
      /\ l = nLevels - 1 /\ l \in Int /\ At(l) = Current /\ GoodMatrix(Current) /\ FacesDiffer(Current)
      /\ FieldsOn(sources, 0 .. l - 1) /\ FieldsOn(corrections, 1 .. l - 1)
  <2>1. /\ nLevels \in Nat /\ LevelNumbers = 0 .. nLevels - 1 /\ nLevels >= 2
        /\ Current = At(nLevels - 1) /\ GoodMatrix(Current) /\ FacesDiffer(Current)
    BY <1>2, SolverFacts
  <2>2. l \in Int /\ l = nLevels - 1
    BY <1>1, <1>4, <2>1
  <2> QED BY <1>1, <1>4, <2>1, <2>2 DEF SInv, CycleFields
<1>6. PICK c \in FieldOf(At(l)) : c = SolveCoarsest(Current, r) /\ Times(Current, c) = r
  <2>1. Singular(DenseMatrix(Current)) = FALSE
    BY <1>1, <1>4, <1>5, CoarsestSolved
  <2> QED BY <1>4, <1>5, <2>1, CoarsestSolved
<1>7. sources' = [sources EXCEPT ![l] = r] /\ corrections' = [corrections EXCEPT ![l] = c]
  <2>1. sources' = [sources EXCEPT ![l] = r]
    BY <1>4 DEF SolveCoarsestLevel
  <2>2. DOMAIN sources = LevelNumbers
    BY <1>5 DEF FieldsOn
  <2>3. sources'[l] = r
    BY <2>1, <2>2
  <2>4. corrections' = [corrections EXCEPT ![l] = SolveCoarsest(At(l), sources'[l])]
    BY <1>4 DEF SolveCoarsestLevel
  <2> QED BY <1>5, <1>6, <2>1, <2>3, <2>4
<1>8. CycleFields'
  <2>1. /\ 0 .. nLevels - 1 = (0 .. l - 1) \cup {l} /\ 1 .. nLevels - 1 = (1 .. l - 1) \cup {l}
        /\ level' \in 0 .. nLevels - 2
    BY <1>1, <1>4, <1>5
  <2>2. /\ FieldsOn([sources EXCEPT ![l] = r], (0 .. l - 1) \cup {l})
        /\ FieldsOn([corrections EXCEPT ![l] = c], (1 .. l - 1) \cup {l})
    BY <1>5, FieldsExtend
  <2>3. FieldsOn(sources, 0 .. nLevels - 1)'
    BY <1>3, <1>7, <2>1, <2>2 DEF FieldsOn
  <2>4. FieldsOn(corrections, 1 .. nLevels - 1)'
    BY <1>3, <1>7, <2>1, <2>2 DEF FieldsOn
  <2> QED BY <1>1, <1>3, <2>1, <2>3, <2>4 DEF CycleFields
<1>9. CoarsestExact'
  <2>1. level' + 1 = l
    BY <1>1, <1>4, <1>5
  <2>2. DOMAIN sources = LevelNumbers /\ DOMAIN corrections = LevelNumbers
    BY <1>5 DEF FieldsOn
  <2>3. sources'[l] = r /\ corrections'[l] = c
    BY <1>7, <2>2
  <2> QED BY <1>3, <1>6, <2>1, <2>3 DEF CoarsestExact
<1>10. SweepsDone'
  <2>1. /\ DOMAIN sweeps = LevelNumbers
        /\ \A j \in LevelNumbers :
             sweeps[j] = [pre |-> IF j < l THEN Diagnostics(j).pre ELSE 0, post |-> 0]
    BY <1>1, <1>4 DEF SInv, SweepsDone
  <2>2. Diagnostics(l).pre = 0 /\ Diagnostics(l).post = 0
    BY <1>5 DEF Diagnostics
  <2>3. \A j \in LevelNumbers : (j < l \/ j = l) /\ (j > l - 1 => j = l)
    BY <1>5
  <2>4. \A j \in LevelNumbers :
          sweeps[j] = [pre |-> Diagnostics(j).pre, post |-> IF j > l - 1 THEN Diagnostics(j).post ELSE 0]
    BY <2>1, <2>2, <2>3
  <2> QED BY <1>1, <1>3, <1>4, <2>1, <2>4 DEF SweepsDone
<1>11. Staged'
  BY <1>1, <1>2, <1>3 DEF Staged
<1>12. CallFields'
  BY <1>1, <1>3 DEF SInv, CallFields
<1>13. Counted'
  BY <1>1, <1>3 DEF SInv, Counted, Applying, SmallNorm
<1>14. NonsingularFound'
  <2>1. Singular(DenseMatrix(Current)) = FALSE
    BY <1>1, <1>4, <1>5, CoarsestSolved
  <2> QED BY <1>1, <1>3, <2>1 DEF NonsingularFound
<1>15. ResidualKnown'
  BY <1>1 DEF ResidualKnown
<1> QED BY <1>3, <1>8, <1>9, <1>10, <1>11, <1>12, <1>13, <1>14, <1>15 DEF SInv

\* What the coarser level hands up is a field.
LEMMA ProlongedField ==
  ASSUME SInv, stage = "up"
  PROVE  /\ Prolonged(level) \in FieldOf(At(level)) /\ level \in LevelNumbers
         /\ level \in 0 .. nLevels - 2
<1>1. IInv /\ Levelled /\ phase = "built"
  BY AtWork
<1>2. PICK l \in Int : l = level /\ l \in 0 .. nLevels - 2 /\ FieldsOn(corrections, 1 .. nLevels - 1)
  BY DEF SInv, CycleFields
<1>3. nLevels \in Nat /\ LevelNumbers = 0 .. nLevels - 1
  BY <1>1, SolverFacts
<1>4. l \in LevelNumbers /\ l + 1 < nLevels
  BY <1>2, <1>3
<1>5. PICK k \in LevelNumbers : k = l + 1 /\ k \in 1 .. nLevels - 1
  BY <1>2, <1>3
<1>6. corrections[k] \in FieldOf(At(k))
  BY <1>2, <1>5 DEF FieldsOn
<1>7. GoodMatrix(At(l)) /\ GoodMatrix(At(k)) /\ Maps(levels[k].fineToCoarse, At(l), At(k))
  BY <1>1, <1>4, <1>5, SolverFacts
<1>8. ProlongField(levels[k].fineToCoarse, corrections[k]) \in FieldOf(At(l))
  BY <1>6, <1>7, TransferFields
<1> QED BY <1>2, <1>4, <1>5, <1>8 DEF Prolonged

\* A visit of a level on the way up.
LEMMA AscendKeeps ==
  ASSUME SInv, Ascend
  PROVE  SInv'
<1>0. PICK l \in LevelNumbers : l = level
  BY ProlongedField DEF Ascend
<1>1. /\ stage = "up" /\ stage' = "up" /\ level > 0 /\ level' = level - 1
      /\ UNCHANGED vars /\ performance' = performance /\ sources' = sources
      /\ psi' = psi /\ source' = source /\ finestResidual' = finestResidual
      /\ sweeps' = [sweeps EXCEPT ![level].post = PostSweeps(level)]
  BY DEF Ascend, fields
<1>2. IInv /\ Levelled /\ phase = "built" /\ ~InvalidIterations
  BY <1>1, AtWork
<1>3. /\ IInv' /\ Levelled' /\ phase' = phase /\ controls' = controls
      /\ nLevels' = nLevels /\ Finest' = Finest /\ Current' = Current
      /\ \A j : At(j)' = At(j) /\ Diagnostics(j)' = Diagnostics(j)
      /\ LevelNumbers' = LevelNumbers /\ InvalidIterations' = InvalidIterations
  BY <1>1, <1>2, LevelsStay
<1>4. PICK p \in FieldOf(At(l)) : p = Prolonged(level)
  BY <1>0, <1>1, ProlongedField
<1>5. /\ nLevels \in Nat /\ LevelNumbers = 0 .. nLevels - 1 /\ l \in 1 .. nLevels - 2
      /\ GoodMatrix(At(l)) /\ l \in Int
      /\ FieldsOn(sources, 0 .. nLevels - 1) /\ FieldsOn(corrections, 1 .. nLevels - 1)
  BY <1>0, <1>1, <1>2, SolverFacts, ProlongedField DEF SInv, CycleFields
<1>6. sources[l] \in FieldOf(At(l)) /\ corrections[l] \in FieldOf(At(l))
  <2>1. l \in 0 .. nLevels - 1 /\ l \in 1 .. nLevels - 1
    BY <1>5
  <2> QED BY <1>5, <2>1 DEF FieldsOn
<1> DEFINE scaled == Scaled(l, p, sources[l])
           correction == IF controls.nPreSweeps > 0 THEN PlusField(scaled, corrections[l]) ELSE scaled
<1>7. correction \in FieldOf(At(l))
  <2>1. scaled \in FieldOf(At(l))
    BY <1>2, <1>6, ScaledField
  <2> HIDE DEF scaled
  <2>2. PlusField(scaled, corrections[l]) \in FieldOf(At(l))
    BY <1>5, <1>6, <2>1, SimpleFields
  <2> QED BY <2>1, <2>2
<1>8. PICK c \in FieldOf(At(l)) : corrections' = [corrections EXCEPT ![l] = c]
  <2>1. corrections' = [corrections EXCEPT ![l] =
          GaussSeidelSmooth(At(l), correction, sources[l], PostSweeps(l))]
    BY <1>0, <1>4 DEF Ascend
  <2>2. PostSweeps(l) \in Int
    BY <1>2, <1>5, SolverFacts
  <2> HIDE DEF correction
  <2>3. GaussSeidelSmooth(At(l), correction, sources[l], PostSweeps(l)) \in FieldOf(At(l))
    BY <1>5, <1>6, <1>7, <2>2, SmoothField
  <2> QED BY <2>1, <2>3
<1>9. CycleFields'
  <2>1. FieldsOn([corrections EXCEPT ![l] = c], (1 .. nLevels - 1) \cup {l})
    BY <1>5, FieldsExtend
  <2>2. (1 .. nLevels - 1) \cup {l} = 1 .. nLevels - 1 /\ level' \in 0 .. nLevels - 2
    BY <1>0, <1>1, <1>5
  <2>3. FieldsOn(corrections, 1 .. nLevels - 1)'
    BY <1>3, <1>8, <2>1, <2>2 DEF FieldsOn
  <2>4. FieldsOn(sources, 0 .. nLevels - 1)'
    BY <1>1, <1>3, <1>5 DEF FieldsOn
  <2> QED BY <1>1, <1>3, <2>2, <2>3, <2>4 DEF CycleFields
<1>10. SweepsDone'
  <2>1. /\ DOMAIN sweeps = LevelNumbers
        /\ \A j \in LevelNumbers :
             sweeps[j] = [pre |-> Diagnostics(j).pre,
                          post |-> IF j > l THEN Diagnostics(j).post ELSE 0]
    BY <1>0, <1>1 DEF SInv, SweepsDone
  <2>2. Diagnostics(l).post = PostSweeps(l)
    BY <1>5 DEF Diagnostics, PostSweeps
  <2>3. sweeps[l] = [pre |-> Diagnostics(l).pre, post |-> 0]
    BY <1>5, <2>1
  <2>4. DOMAIN sweeps' = LevelNumbers /\ \A j \in LevelNumbers : j # l => sweeps'[j] = sweeps[j]
    BY <1>0, <1>1, <2>1
  <2>5. sweeps'[l] = [pre |-> Diagnostics(l).pre, post |-> Diagnostics(l).post]
    <3>1. sweeps'[l] = [sweeps[l] EXCEPT !.post = PostSweeps(l)]
      BY <1>0, <1>1, <2>1
    <3> QED BY <2>2, <2>3, <3>1
  <2>6. \A j \in LevelNumbers : (j = l => j > l - 1) /\ (j # l => (j > l - 1 <=> j > l))
    BY <1>5
  <2>7. \A j \in LevelNumbers :
          sweeps'[j] = [pre |-> Diagnostics(j).pre,
                        post |-> IF j > l - 1 THEN Diagnostics(j).post ELSE 0]
    BY <2>1, <2>4, <2>5, <2>6
  <2> QED BY <1>0, <1>1, <1>3, <2>4, <2>7 DEF SweepsDone
<1>11. CoarsestExact'
  <2>1. level' # nLevels - 2
    BY <1>0, <1>1, <1>5
  <2> QED BY <1>3, <2>1 DEF CoarsestExact
<1>12. Staged'
  BY <1>1, <1>2, <1>3 DEF Staged
<1>13. CallFields'
  BY <1>1, <1>3 DEF SInv, CallFields
<1>14. Counted'
  BY <1>1, <1>3 DEF SInv, Counted, Applying, SmallNorm
<1>15. NonsingularFound'
  BY <1>1, <1>3 DEF SInv, NonsingularFound
<1>16. ResidualKnown'
  BY <1>1 DEF ResidualKnown
<1> QED BY <1>3, <1>9, <1>10, <1>11, <1>12, <1>13, <1>14, <1>15, <1>16 DEF SInv

\* The correction is added to psi, which the finest level smooths.
LEMMA FinishCycleKeeps ==
  ASSUME SInv, FinishCycle
  PROVE  SInv'
<1>1. /\ stage = "up" /\ level = 0 /\ level' = 0
      /\ stage' = IF Applying THEN "applied" ELSE "measure"
      /\ UNCHANGED vars /\ performance' = performance
      /\ source' = source /\ finestResidual' = finestResidual
      /\ sweeps' = [sweeps EXCEPT ![0].post = controls.nFinestSweeps]
      /\ psi' = GaussSeidelSmooth(Finest, PlusField(psi, FinestCorrection), source,
                                  controls.nFinestSweeps)
  BY DEF FinishCycle
<1>2. IInv /\ Levelled /\ phase = "built" /\ ~InvalidIterations
  BY <1>1, AtWork
<1>3. /\ IInv' /\ Levelled' /\ phase' = phase /\ controls' = controls
      /\ nLevels' = nLevels /\ Finest' = Finest /\ Current' = Current
      /\ \A j : At(j)' = At(j) /\ Diagnostics(j)' = Diagnostics(j)
      /\ LevelNumbers' = LevelNumbers /\ InvalidIterations' = InvalidIterations
  BY <1>1, <1>2, LevelsStay
<1>4. /\ nLevels \in Nat /\ nLevels >= 2 /\ LevelNumbers = 0 .. nLevels - 1 /\ Finest = At(0)
      /\ GoodMatrix(Finest) /\ controls.nFinestSweeps \in Int
  BY <1>2, SolverFacts
<1>5. PICK p \in FieldOf(Finest) : p = Prolonged(0)
  BY <1>1, <1>4, ProlongedField
<1>6. psi \in FieldOf(Finest) /\ source \in FieldOf(Finest) /\ finestResidual \in FieldOf(Finest)
  BY <1>1 DEF SInv, CallFields
<1>7. FinestCorrection \in FieldOf(Finest)
  <2>1. ScaleCorrection(Finest, p, finestResidual) \in FieldOf(Finest)
    BY <1>4, <1>6, ScaleField
  <2> QED BY <1>5, <2>1 DEF FinestCorrection
<1>8. psi' \in FieldOf(Finest)
  <2>1. PlusField(psi, FinestCorrection) \in FieldOf(Finest)
    BY <1>4, <1>6, <1>7, SimpleFields
  <2> QED BY <1>1, <1>4, <1>6, <2>1, SmoothField
<1>9. stage' \in {"measure", "applied"} /\ (stage' = "measure" <=> ~Applying)
  BY <1>1
<1>10. CallFields'
  BY <1>1, <1>3, <1>6, <1>8 DEF CallFields
<1>11. CycleFields' /\ CoarsestExact' /\ ResidualKnown'
  BY <1>1, <1>9 DEF CycleFields, CoarsestExact, ResidualKnown
<1>12. Staged'
  BY <1>2, <1>3, <1>9 DEF Staged
<1>13. Counted'
  BY <1>1, <1>3, <1>9 DEF SInv, Counted, Applying, SmallNorm
<1>14. NonsingularFound'
  BY <1>1, <1>3, <1>9 DEF SInv, NonsingularFound
<1>15. SweepsDone'
  <2>1. /\ DOMAIN sweeps = LevelNumbers
        /\ \A j \in LevelNumbers :
             sweeps[j] = [pre |-> Diagnostics(j).pre,
                          post |-> IF j > 0 THEN Diagnostics(j).post ELSE 0]
    BY <1>1 DEF SInv, SweepsDone
  <2>2. Diagnostics(0).post = controls.nFinestSweeps
    BY DEF Diagnostics
  <2>3. 0 \in LevelNumbers /\ \A j \in LevelNumbers : j # 0 => j > 0
    BY <1>4
  <2>4. DOMAIN sweeps' = LevelNumbers /\ \A j \in LevelNumbers : j # 0 => sweeps'[j] = sweeps[j]
    BY <1>1, <2>1
  <2>5. sweeps'[0] = [pre |-> Diagnostics(0).pre, post |-> Diagnostics(0).post]
    <3>1. sweeps'[0] = [sweeps[0] EXCEPT !.post = controls.nFinestSweeps]
      BY <1>1, <2>1, <2>3
    <3>2. sweeps[0] = [pre |-> Diagnostics(0).pre, post |-> 0]
      BY <2>1, <2>3
    <3> QED BY <2>2, <3>1, <3>2
  <2>6. \A j : Diagnostics(j) = [pre |-> Diagnostics(j).pre, post |-> Diagnostics(j).post]
    BY DEF Diagnostics
  <2>7. \A j \in LevelNumbers : sweeps'[j] = Diagnostics(j)
    BY <2>1, <2>3, <2>4, <2>5, <2>6
  <2> QED BY <1>3, <1>9, <2>4, <2>7 DEF SweepsDone
<1> QED BY <1>3, <1>10, <1>11, <1>12, <1>13, <1>14, <1>15 DEF SInv

\* The residual of the new psi is counted as an iteration.
LEMMA MeasureKeeps ==
  ASSUME SInv, Measure
  PROVE  SInv'
<1>1. /\ stage = "measure" /\ stage' = "loop" /\ UNCHANGED vars
      /\ psi' = psi /\ source' = source
      /\ finestResidual' = MinusField(source, Multiply(Finest, psi))
  BY DEF Measure
<1>2. PICK norm : performance' =
        [converged |-> SmallNorm(norm) /\ performance.iterations + 1 >= controls.minIterations,
         iterations |-> performance.iterations + 1,
         residualHistory |-> Append(performance.residualHistory, norm)]
  BY DEF Measure
<1>3. /\ IInv /\ Levelled /\ phase = "built" /\ ~InvalidIterations
      /\ controls.maxIterations \in Int /\ controls.minIterations \in Int
  BY <1>1, AtWork
<1>4. /\ IInv' /\ Levelled' /\ phase' = phase /\ controls' = controls /\ Finest' = Finest
      /\ Current' = Current /\ InvalidIterations' = InvalidIterations
  BY <1>1, <1>3, LevelsStay
<1>5. Staged'
  BY <1>1, <1>3, <1>4 DEF Staged
<1>6. PICK x, b, m : x = psi /\ b = source /\ m = Finest
  OBVIOUS
<1>7. GoodMatrix(m) /\ x \in FieldOf(m) /\ b \in FieldOf(m)
  BY <1>1, <1>3, <1>6, SolverFacts DEF SInv, CallFields
<1>8. Multiply(m, x) = Times(m, x) /\ Multiply(m, x) \in FieldOf(m)
  BY <1>7, MultiplyIsTimes
<1>9. finestResidual' = MinusField(b, Times(m, x)) /\ finestResidual' \in FieldOf(m)
  BY <1>1, <1>6, <1>7, <1>8, SimpleFields
<1>10. CallFields' /\ ResidualKnown'
  BY <1>1, <1>4, <1>6, <1>7, <1>9 DEF CallFields, ResidualKnown
<1>11. PICK h, i : /\ i \in Nat
                   /\ h = performance.residualHistory /\ i = performance.iterations
                   /\ Len(h) = i + 1 /\ i < controls.maxIterations
                   /\ \E S : h \in Seq(S)
  BY <1>1 DEF SInv, Counted
<1>12. /\ \E S : Append(h, norm) \in Seq(S)
       /\ Len(Append(h, norm)) = i + 2 /\ Append(h, norm)[i + 2] = norm /\ Append(h, norm) # <<>>
  <2>1. PICK S : h \in Seq(S)
    BY <1>11
  <2>2. h \in Seq(S \cup {norm}) /\ norm \in S \cup {norm}
    BY <2>1
  <2>3. /\ Append(h, norm) \in Seq(S \cup {norm}) /\ Len(Append(h, norm)) = Len(h) + 1
        /\ Append(h, norm)[Len(h) + 1] = norm
    BY <2>2, AppendProperties
  <2>4. Len(h) + 1 = i + 2 /\ i + 2 # 0
    BY <1>11
  <2> QED BY <2>3, <2>4
<1>13. /\ performance'.iterations = i + 1 /\ performance'.residualHistory = Append(h, norm)
       /\ performance'.converged = (SmallNorm(norm) /\ i + 1 >= controls.minIterations)
  BY <1>2, <1>11
<1>14. Counted'
  <2>1. SmallNorm(norm)' = SmallNorm(norm)
    BY <1>4 DEF SmallNorm
  <2>2. i + 1 \in Nat /\ i + 1 <= controls'.maxIterations /\ i + 2 = (i + 1) + 1
    BY <1>3, <1>4, <1>11
  <2>3. ~Applying'
    BY <1>12, <1>13 DEF Applying
  <2>4. performance'.converged \in BOOLEAN
    BY <1>13
  <2>5. performance'.residualHistory[Len(performance'.residualHistory)] = norm
    BY <1>12, <1>13
  <2>6. SmallNorm(performance.residualHistory[Len(performance.residualHistory)])' = SmallNorm(norm)
    BY <2>1, <2>5 DEF SmallNorm
  <2> HIDE DEF SmallNorm
  <2> QED BY <1>1, <1>4, <1>12, <1>13, <2>2, <2>3, <2>4, <2>6 DEF Counted
<1>15. NonsingularFound'
  BY <1>1, <1>4 DEF SInv, NonsingularFound
<1>16. CycleFields' /\ SweepsDone' /\ CoarsestExact'
  BY <1>1 DEF CycleFields, SweepsDone, CoarsestExact
<1> QED BY <1>4, <1>5, <1>10, <1>14, <1>15, <1>16 DEF SInv

\* The invariant holds at the start,
LEMMA SInvInit ==
  ASSUME SolverInit
  PROVE  SInv
<1>1. Init /\ stage = "setup" /\ performance = NoPerformance
  BY DEF SolverInit
<1>2. IInv /\ phase = "called" /\ levels = <<>> /\ Len(levels) = 0
  BY <1>1, IInvInit DEF Init
<1>3. Levelled
  BY <1>2 DEF Levelled
<1>4. Staged /\ CallFields /\ CycleFields /\ ResidualKnown /\ SweepsDone /\ CoarsestExact
  BY <1>1 DEF Staged, CallFields, CycleFields, ResidualKnown, SweepsDone, CoarsestExact
<1>5. /\ performance.iterations = 0 /\ performance.converged \in BOOLEAN
      /\ \E S : performance.residualHistory \in Seq(S)
  BY <1>1, NoPerformanceIs
<1>6. Counted
  BY <1>1, <1>5 DEF Counted
<1>7. NonsingularFound
  BY <1>1, <1>5 DEF NonsingularFound
<1> QED BY <1>2, <1>3, <1>4, <1>6, <1>7 DEF SInv

\* and every step keeps it.
LEMMA SInvNext ==
  ASSUME SInv, [SolverNext]_solverVars
  PROVE  SInv'
<1>1. CASE SolverNext
  <2>1. CASE Agglomerate \/ RejectIterations \/ Construct
    BY <2>1, AgglomerateKeeps, RejectIterationsKeeps, ConstructKeeps
  <2>2. CASE RejectFields \/ Solve \/ ApplyVCycle
    BY <2>2, RejectFieldsKeeps, SolveKeeps, ApplyVCycleKeeps
  <2>3. CASE SolveStep
    <3>1. CASE BeginCycle \/ Descend \/ SolveCoarsestLevel \/ SingularCoarsest
      BY <3>1, BeginCycleKeeps, DescendKeeps, SolveCoarsestLevelKeeps, SingularCoarsestKeeps
    <3>2. CASE Ascend \/ FinishCycle \/ Measure \/ Return
      BY <3>2, AscendKeeps, FinishCycleKeeps, MeasureKeeps, ReturnKeeps
    <3> QED BY <2>3, <3>1, <3>2 DEF SolveStep
  <2>4. CASE Thrown
    BY <2>4, NothingKeeps DEF Thrown
  <2> QED BY <1>1, <2>1, <2>2, <2>3, <2>4 DEF SolverNext
<1> QED BY <1>1, NothingKeeps

\* What the run checks of the solver follows from the invariant.
LEMMA SInvSound ==
  ASSUME SInv
  PROVE  SolverSound
<1>1. SolverTypeOK
  <2>1. Staged /\ CallFields /\ CycleFields
    BY DEF SInv
  <2>2. stage \in {"down", "up"} =>
          \A l \in 0 .. nLevels - 1 : /\ sources[l] \in FieldOf(At(l)) \cup {<<>>}
                                      /\ corrections[l] \in FieldOf(At(l)) \cup {<<>>}
    BY <2>1 DEF CycleFields, FieldsOn, LevelNumbers
  <2>3. stage \in {"down", "up", "measure"} => level \in 0 .. nLevels - 1
    <3>1. ASSUME stage \in {"down", "up", "measure"} PROVE level \in 0 .. nLevels - 1
      <4>1. nLevels \in Nat /\ nLevels >= 2
        BY <3>1, AtWork, SolverFacts
      <4> QED BY <2>1, <3>1, <4>1 DEF CycleFields
    <3> QED BY <3>1
  <2> QED BY <2>1, <2>2, <2>3 DEF SolverTypeOK, Staged, CallFields
<1>2. LoopSound
  BY DEF SInv, Counted, ResidualKnown, LoopSound
<1>3. stage = "thrown" => performance.iterations = 0
  BY DEF SInv, NonsingularFound
<1>4. stage \in {"measure", "applied"} => \A l \in 0 .. nLevels - 1 : sweeps[l] = Diagnostics(l)
  BY DEF SInv, SweepsDone, LevelNumbers
<1> QED BY <1>1, <1>2, <1>3, <1>4 DEF SolverSound

\* The kernels are exact on the fields of a cycle.
LEMMA SInvExact ==
  ASSUME SInv
  PROVE  KernelsExact
<1> SUFFICES ASSUME stage = "up", level = nLevels - 2 PROVE
      /\ Times(At(level + 1), corrections[level + 1]) = sources[level + 1]
      /\ \A l \in 0 .. nLevels - 1 :
           /\ Multiply(At(l), sources[l]) = Times(At(l), sources[l])
           /\ MultiplyOwnerAccumulated(At(l), sources[l]) = Times(At(l), sources[l])
  BY DEF KernelsExact
<1>1. IInv /\ Levelled /\ phase = "built"
  BY AtWork
<1>2. nLevels \in Nat /\ LevelNumbers = 0 .. nLevels - 1 /\ Current = At(nLevels - 1)
      /\ \A l \in LevelNumbers : GoodMatrix(At(l))
  BY <1>1, SolverFacts
<1>3. At(level + 1) = Current
  <2>1. level + 1 = nLevels - 1
    BY <1>2
  <2> QED BY <1>2, <2>1
<1>4. Times(At(level + 1), corrections[level + 1]) = sources[level + 1]
  BY <1>3 DEF SInv, CoarsestExact
<1>5. FieldsOn(sources, 0 .. nLevels - 1)
  BY DEF SInv, CycleFields
<1>6. \A l \in 0 .. nLevels - 1 : GoodMatrix(At(l)) /\ sources[l] \in FieldOf(At(l))
  BY <1>2, <1>5 DEF FieldsOn
<1> QED BY <1>4, <1>6, MultiplyIsTimes, OwnersAreTimes

\* solve stops for the right reasons, with the residual of the psi it returns;
\* an exception leaves before psi has changed; a cycle does the sweeps that
\* diagnostics() announces.
THEOREM SolverStopsRight == SolverSpec => []SolverSound
<1>1. SolverInit => SInv
  BY SInvInit
<1>2. SInv /\ [SolverNext]_solverVars => SInv'
  BY SInvNext
<1>3. SInv => SolverSound
  BY SInvSound
<1> QED BY <1>1, <1>2, <1>3, PTL DEF SolverSpec

\* Whichever way GAMGKernels goes through the faces, it computes the product;
\* elimination and substitution solve the equation of the coarsest level.
THEOREM KernelsCompute == SolverSpec => []KernelsExact
<1>1. SolverInit => SInv
  BY SInvInit
<1>2. SInv /\ [SolverNext]_solverVars => SInv'
  BY SInvNext
<1>3. SInv => KernelsExact
  BY SInvExact
<1> QED BY <1>1, <1>2, <1>3, PTL DEF SolverSpec
==================================================================================
