-------------------------------- MODULE FwProofs --------------------------------
(***************************************************************************)
(* The packed matrices of fwGAMG, for every symmetric matrix, every order  *)
(* of its rows and every field.  All products of a matrix agree with the   *)
(* one of the matrix it was packed from, whichever view of the edges they  *)
(* walk through: ProductsAgree.  Every fusion of the last sweep with the   *)
(* product leaves the field of the sweeps by themselves, and the product   *)
(* of that field: FusionsAgree.  And of the solver over them: in every     *)
(* state the numberings, matrices and row maps of its levels are sound     *)
(* (HierarchyIsSound), and the product its loop decides by is the one of   *)
(* the field it is about to return (ProductIsCurrent); both follow from    *)
(* the inductive invariant FwInv.                                          *)
(***************************************************************************)
EXTENDS FwSolver, GAMGProofs

-----------------------------------------------------------------------------
(* Lists of the elements of a set, and sums over them.                     *)

\* s has every element of S at one place
Lists(s, S) ==
  /\ Len(s) \in Nat /\ DOMAIN s = 1 .. Len(s)
  /\ \A i \in 1 .. Len(s) : s[i] \in S
  /\ \A i, j \in 1 .. Len(s) : s[i] = s[j] => i = j
  /\ \A x \in S : \E i \in 1 .. Len(s) : s[i] = x

\* A sum may be made over the images of a one-to-one map.
LEMMA SumMoved ==
  ASSUME NEW S, IsFiniteSet(S), NEW T, IsFiniteSet(T), NEW h, NEW g, NEW w,
         \A x \in S : h[x] \in T /\ g[x] \in Int /\ w[h[x]] = g[x],
         \A x, y \in S : h[x] = h[y] => x = y,
         \A t \in T : \E x \in S : h[x] = t
  PROVE  SumOf(g, S) = SumOf(w, T)
<1>1. ASSUME NEW t \in T PROVE w[t] = SumOf(g, Group(S, h, t))
  <2>1. PICK x \in S : h[x] = t
    OBVIOUS
  <2>2. Group(S, h, t) = {x}
    BY <2>1 DEF Group
  <2>3. SumOf(g, {x}) = g[x]
    BY SumSingle
  <2> QED BY <2>1, <2>2, <2>3
<1>2. SumOf(g, Groups(S, h, T)) = SumOf(w, T)
  BY <1>1, SumGroups
<1>3. Groups(S, h, T) = S
  BY DEF Groups
<1> QED BY <1>2, <1>3

\* The elements of a list are a finite set.
LEMMA ListedFinite ==
  ASSUME NEW s, NEW S, Lists(s, S)
  PROVE  IsFiniteSet(S) /\ Cardinality(S) = Len(s) /\ IsFiniteSet(DOMAIN s)
<1> DEFINE D == 1 .. Len(s)
           f == [i \in D |-> s[i]]
<1>1. IsFiniteSet(D) /\ Cardinality(D) = Len(s)
  BY FS_Interval DEF Lists
<1>2. f \in Bijection(D, S)
  <2>1. f \in [D -> S]
    BY DEF Lists
  <2>2. \A i, j \in D : f[i] = f[j] => i = j
    BY DEF Lists
  <2>3. \A x \in S : \E i \in D : f[i] = x
    BY DEF Lists
  <2> HIDE DEF f, D
  <2> QED BY <2>1, <2>2, <2>3 DEF Bijection, Injection, Surjection, IsInjective
<1> HIDE DEF f
<1>3. IsFiniteSet(S) /\ Cardinality(S) = Cardinality(D)
  <2>1. ExistsBijection(D, S)
    BY <1>2 DEF ExistsBijection
  <2> QED BY <1>1, <2>1, FS_Bijection
<1> QED BY <1>1, <1>3 DEF Lists

\* Ascending lists its set.
LEMMA AscendingIs ==
  ASSUME NEW S \in SUBSET Nat, IsFiniteSet(S)
  PROVE  Lists(Ascending(S), S) /\ Len(Ascending(S)) = Cardinality(S)
<1> DEFINE R == {p \in S \X S : p[1] < p[2]}
           n == Cardinality(S)
<1>0. n \in Nat
  BY FS_CardinalityType
<1>1. \A x, y \in S : <<x, y>> \in R <=> x < y
  OBVIOUS
<1>2. Orders(R, S)
  <2>1. \A x, y \in S : x # y => x < y \/ y < x
    OBVIOUS
  <2>2. \A x, y, z \in S : x < y /\ y < z => x < z
    OBVIOUS
  <2>3. \A x \in S : ~(x < x)
    OBVIOUS
  <2> HIDE DEF R
  <2> QED BY <1>1, <2>1, <2>2, <2>3 DEF Orders
<1>3. \A x \in S : PlaceIn(S, R, x) = Cardinality({y \in S : y < x})
  <2>1. \A x \in S : {y \in S : <<y, x>> \in R} = {y \in S : y < x}
    BY <1>1
  <2> QED BY <2>1 DEF PlaceIn
<1>4. Numbered(S, R)
  BY <1>2, PlacesFill
<1> DEFINE at(i) == CHOOSE x \in S : Cardinality({y \in S : y < x}) = i - 1
<1>5. Ascending(S) = [i \in 1 .. n |-> at(i)]
  BY DEF Ascending
<1>6. \A i \in 1 .. n : at(i) \in S /\ PlaceIn(S, R, at(i)) = i - 1
  <2> SUFFICES ASSUME NEW i \in 1 .. n PROVE at(i) \in S /\ PlaceIn(S, R, at(i)) = i - 1
    OBVIOUS
  <2>1. i - 1 \in 0 .. n - 1
    BY <1>0
  <2>2. \E x \in S : PlaceIn(S, R, x) = i - 1
    BY <1>4, <2>1 DEF Numbered
  <2>3. \E x \in S : Cardinality({y \in S : y < x}) = i - 1
    BY <1>3, <2>2
  <2>4. at(i) \in S /\ Cardinality({y \in S : y < at(i)}) = i - 1
    BY <2>3
  <2> HIDE DEF at
  <2> QED BY <1>3, <2>4
<1> HIDE DEF at, n, R
<1>7. Ascending(S) \in Seq(S) /\ Len(Ascending(S)) = n /\ DOMAIN Ascending(S) = 1 .. n
  BY <1>0, <1>5, <1>6
<1>8. \A i, j \in 1 .. n : Ascending(S)[i] = Ascending(S)[j] => i = j
  <2>1. \A i, j \in 1 .. n : at(i) = at(j) => i - 1 = j - 1
    BY <1>6
  <2>2. \A i, j \in 1 .. n : i - 1 = j - 1 => i = j
    BY <1>0
  <2> QED BY <1>5, <2>1, <2>2
<1>9. ASSUME NEW x \in S PROVE \E i \in 1 .. n : Ascending(S)[i] = x
  <2>1. PICK k \in 0 .. n - 1 : PlaceIn(S, R, x) = k
    BY <1>4 DEF Numbered, n
  <2>2. k + 1 \in 1 .. n /\ (k + 1) - 1 = k
    BY <1>0, <2>1
  <2>3. PlaceIn(S, R, at(k + 1)) = k /\ at(k + 1) \in S
    BY <1>6, <2>2
  <2>4. at(k + 1) = x
    BY <1>4, <2>1, <2>3 DEF Numbered
  <2> QED BY <1>5, <2>2, <2>4
<1> QED BY <1>0, <1>5, <1>6, <1>7, <1>8, <1>9 DEF Lists, n

\* What a chain of steps computes: the recursive functions of the model.
LEMMA LoopExists ==
  ASSUME NEW n \in Nat, NEW Y, NEW base \in Y, NEW h, IsStep(n, Y, h)
  PROVE  \E acc : IsLoop(n, Y, base, h, acc)
<1>1. PICK it : IsFold(n, Y, base, h, it)
  BY FoldsExist
<1>2. TakesLast(n, Y, base, h, it)
  <2>1. \A T \in SUBSET (1 .. n) : it[T] = FoldStep(h, base, it, T)
    BY <1>1 DEF IsFold
  <2>2. {} \in SUBSET (1 .. n)
    OBVIOUS
  <2> QED BY <2>1, <2>2 DEF TakesLast, FoldStep
<1> QED BY <1>2, FoldRuns

-----------------------------------------------------------------------------
(* The faces of a cell, and the orders of the rows.                        *)

\* A set of places that with one has all before it is an interval.
LEMMA FirstPlaces ==
  ASSUME NEW n \in Nat, NEW S \in SUBSET (1 .. n), \A i \in S : \A j \in 1 .. n : j < i => j \in S
  PROVE  Cardinality(S) \in Nat /\ S = 1 .. Cardinality(S)
<1>1. CASE S = {}
  <2>1. Cardinality(S) = 0 /\ 1 .. 0 = {}
    BY <1>1, FS_EmptySet
  <2> QED BY <1>1, <2>1
<1>2. CASE S # {}
  <2>1. PICK k : k = Max(S)
    OBVIOUS
  <2>2. k \in S /\ \A t \in S : t <= k
    BY <1>2, <2>1, LastPlace
  <2>3. k \in 1 .. n
    BY <2>2
  <2>4. S = 1 .. k
    <3>1. \A x \in S : x \in 1 .. k
      BY <2>2
    <3>2. \A x \in 1 .. k : x \in 1 .. n /\ (x = k \/ x < k)
      BY <2>3
    <3>3. \A x \in 1 .. k : x \in S
      BY <2>2, <3>2
    <3> QED BY <3>1, <3>3
  <2>5. Cardinality(1 .. k) = k
    BY <2>3, FS_Interval
  <2> QED BY <2>3, <2>4, <2>5
<1> QED BY <1>1, <1>2

\* The faces of an owner follow each other, so ownerStarts finds them all.
LEMMA OwnerRangeIs ==
  ASSUME NEW m, GoodMatrix(m), NEW c \in CellsOf(m)
  PROVE  Lists(OwnerRange(m, c), OwnedFaces(m, c))
<1> DEFINE n == Len(m.lower)
           before == {f \in 1 .. n : m.lower[f] < c}
           upTo == {f \in 1 .. n : m.lower[f] <= c}
<1>1. n \in Nat /\ FacesOf(m) = 1 .. n /\ c \in Nat
  BY MatrixFacts DEF FacesOf
<1>2. \A f \in 1 .. n : m.lower[f] \in Nat
  BY <1>1, MatrixFacts
<1>3. \A f, g \in 1 .. n : f < g => m.lower[f] <= m.lower[g]
  BY <1>1 DEF GoodMatrix, IsMatrix
<1> HIDE DEF n
<1>4. \A i \in before : \A j \in 1 .. n : j < i => j \in before
  BY <1>1, <1>2, <1>3
<1>5. \A i \in upTo : \A j \in 1 .. n : j < i => j \in upTo
  BY <1>1, <1>2, <1>3
<1>6. PICK a \in Nat : a = Cardinality(before) /\ before = 1 .. a
  <2>1. before \in SUBSET (1 .. n)
    OBVIOUS
  <2> HIDE DEF before
  <2> QED BY <1>1, <1>4, <2>1, FirstPlaces
<1>7. PICK b \in Nat : upTo = 1 .. b
  <2>1. upTo \in SUBSET (1 .. n)
    OBVIOUS
  <2> HIDE DEF upTo
  <2> QED BY <1>1, <1>5, <2>1, FirstPlaces
<1>8. before \subseteq upTo
  BY <1>1, <1>2
<1>9. a <= b
  BY <1>6, <1>7, <1>8
<1>10. OwnedFaces(m, c) = (a + 1) .. b
  <2>1. OwnedFaces(m, c) = upTo \ before
    BY <1>1, <1>2 DEF OwnedFaces
  <2>2. (1 .. b) \ (1 .. a) = (a + 1) .. b
    <3>1. \A x : x \in (1 .. b) \ (1 .. a) <=> x \in (a + 1) .. b
      OBVIOUS
    <3> QED BY <3>1
  <2> HIDE DEF before, upTo
  <2> QED BY <1>6, <1>7, <2>1, <2>2
<1>11. OwnedBy(m, c) = OwnedFaces(m, c)
  BY <1>1 DEF OwnedBy, OwnedFaces, n
<1>12. Cardinality(OwnedBy(m, c)) = b - a
  <2>1. PICK d \in Nat : d = a + 1
    OBVIOUS
  <2>2. Cardinality(d .. b) = IF d > b THEN 0 ELSE b - d + 1
    BY FS_Interval
  <2>3. Cardinality(d .. b) = b - a
    BY <1>9, <2>1, <2>2
  <2> QED BY <1>10, <1>11, <2>1, <2>3
<1>13. OwnerRange(m, c) = [i \in 1 .. (b - a) |-> a + i]
  BY <1>6, <1>12 DEF OwnerRange, n
<1> DEFINE s == [i \in 1 .. (b - a) |-> a + i]
<1>14. b - a \in Nat
  BY <1>9
<1>15. Len(s) = b - a /\ DOMAIN s = 1 .. (b - a)
  BY <1>14
<1>16. \A i \in 1 .. (b - a) : s[i] = a + i /\ s[i] \in (a + 1) .. b
  BY <1>9
<1>17. \A x \in (a + 1) .. b : x - a \in 1 .. (b - a) /\ a + (x - a) = x
  BY <1>9
<1>18. \A i, j \in 1 .. (b - a) : a + i = a + j => i = j
  OBVIOUS
<1> HIDE DEF s
<1>19. Lists(s, (a + 1) .. b)
  <2>1. \A i, j \in 1 .. (b - a) : s[i] = s[j] => i = j
    BY <1>16, <1>18
  <2>2. \A x \in (a + 1) .. b : \E i \in 1 .. (b - a) : s[i] = x
    BY <1>16, <1>17
  <2> QED BY <1>14, <1>15, <1>16, <2>1, <2>2 DEF Lists
<1> QED BY <1>10, <1>13, <1>19 DEF s

\* every cell has one row, and an owner has its row before its neighbours
IsOrder(m, order) ==
  /\ Lists(order, CellsOf(m)) /\ Len(order) = m.n
  /\ \A f \in FacesOf(m) : \A i, j \in 1 .. m.n :
       order[i] = m.lower[f] /\ order[j] = m.upper[f] => i < j

\* The natural order is one: faces lead upwards.
LEMMA NaturalIsOrder ==
  ASSUME NEW m, GoodMatrix(m)
  PROVE  IsOrder(m, NaturalOrder(m))
<1>1. PICK n \in Nat : n = m.n
  BY MatrixFacts
<1>2. NaturalOrder(m) = [i \in 1 .. n |-> i - 1]
  BY <1>1 DEF NaturalOrder, Upwards
<1>3. CellsOf(m) = 0 .. n - 1
  BY <1>1 DEF CellsOf
<1> DEFINE s == [i \in 1 .. n |-> i - 1]
<1>4. Len(s) = n /\ DOMAIN s = 1 .. n /\ \A i \in 1 .. n : s[i] = i - 1 /\ s[i] \in 0 .. n - 1
  OBVIOUS
<1>5. \A x \in 0 .. n - 1 : x + 1 \in 1 .. n /\ (x + 1) - 1 = x
  OBVIOUS
<1> HIDE DEF s
<1>6. Lists(s, 0 .. n - 1)
  <2>1. \A i, j \in 1 .. n : s[i] = s[j] => i = j
    BY <1>4
  <2>2. \A x \in 0 .. n - 1 : \E i \in 1 .. n : s[i] = x
    BY <1>4, <1>5
  <2> QED BY <1>4, <2>1, <2>2 DEF Lists
<1>7. \A f \in FacesOf(m) : m.lower[f] \in Nat /\ m.upper[f] \in Nat /\ m.lower[f] < m.upper[f]
  BY MatrixFacts
<1>8. \A f \in FacesOf(m) : \A i, j \in 1 .. n : s[i] = m.lower[f] /\ s[j] = m.upper[f] => i < j
  BY <1>4, <1>7
<1> QED BY <1>1, <1>2, <1>3, <1>4, <1>6, <1>8 DEF IsOrder, s

\* the cells whose owners are all in s, and the sequences of one cell more
OwnersOf(m) ==
  [c \in Index(m) |-> {m.lower[f] : f \in {g \in 1 .. Len(m.lower) : m.upper[g] = c}}]
NextCells(m, s) == {c \in Index(m) \ ToSet(s) : OwnersOf(m)[c] \subseteq ToSet(s)}
Longer(m, Q) == UNION {{Append(s, c) : c \in NextCells(m, s)} : s \in Q}

\* no cell twice, and every owner before
OwnersLead(m, s, k) ==
  /\ s \in Seq(CellsOf(m)) /\ Len(s) = k
  /\ \A i, j \in 1 .. k : s[i] = s[j] => i = j
  /\ \A i \in 1 .. k : \A f \in FacesOf(m) :
       m.upper[f] = s[i] => \E j \in 1 .. k : j < i /\ s[j] = m.lower[f]

\* One more cell whose owners are there.
LEMMA LongerPrefix ==
  ASSUME NEW m, GoodMatrix(m), NEW k \in Nat, NEW s, OwnersLead(m, s, k), NEW c \in NextCells(m, s)
  PROVE  OwnersLead(m, Append(s, c), k + 1)
<1> DEFINE t == Append(s, c)
<1>0. CellsOf(m) = Index(m) /\ FacesOf(m) = 1 .. Len(m.lower)
  BY DEF CellsOf, Index, FacesOf
<1>1. s \in Seq(CellsOf(m)) /\ Len(s) = k
  BY DEF OwnersLead
<1>2. ToSet(s) = {s[i] : i \in 1 .. k}
  BY <1>1 DEF ToSet
<1>3. c \in CellsOf(m) /\ (\A i \in 1 .. k : s[i] # c) /\ OwnersOf(m)[c] \subseteq {s[i] : i \in 1 .. k}
  BY <1>0, <1>2 DEF NextCells
<1>4. t \in Seq(CellsOf(m)) /\ Len(t) = k + 1 /\ t[k + 1] = c /\ \A i \in 1 .. k : t[i] = s[i]
  BY <1>1, <1>3
<1>5. \A i \in 1 .. (k + 1) : i \in 1 .. k \/ i = k + 1
  OBVIOUS
<1>6. \A i \in 1 .. k : i \in 1 .. (k + 1) /\ i < k + 1
  OBVIOUS
<1> HIDE DEF t
<1>7. \A i, j \in 1 .. (k + 1) : t[i] = t[j] => i = j
  <2>1. \A i, j \in 1 .. k : s[i] = s[j] => i = j
    BY DEF OwnersLead
  <2> QED BY <1>3, <1>4, <1>5, <2>1
<1>8. ASSUME NEW i \in 1 .. (k + 1), NEW f \in FacesOf(m), m.upper[f] = t[i]
      PROVE  \E j \in 1 .. (k + 1) : j < i /\ t[j] = m.lower[f]
  <2>1. CASE i \in 1 .. k
    <3>1. m.upper[f] = s[i]
      BY <1>4, <1>8, <2>1
    <3>2. PICK j \in 1 .. k : j < i /\ s[j] = m.lower[f]
      BY <2>1, <3>1 DEF OwnersLead
    <3> QED BY <1>4, <1>6, <3>2
  <2>2. CASE i = k + 1
    <3>1. m.upper[f] = c
      BY <1>4, <1>8, <2>2
    <3>2. m.lower[f] \in OwnersOf(m)[c]
      BY <1>0, <1>3, <3>1 DEF OwnersOf
    <3>3. PICK j \in 1 .. k : s[j] = m.lower[f]
      BY <1>3, <3>2
    <3> QED BY <1>4, <1>6, <2>2, <3>3
  <2> QED BY <1>5, <2>1, <2>2
<1> QED BY <1>4, <1>7, <1>8 DEF OwnersLead, t

\* A sequence of all cells with every owner before is an order.
LEMMA FullPrefix ==
  ASSUME NEW m, GoodMatrix(m), NEW s, OwnersLead(m, s, m.n)
  PROVE  IsOrder(m, s)
<1>1. PICK n \in Nat : n = m.n
  BY MatrixFacts
<1>2. IsFiniteSet(CellsOf(m)) /\ Cardinality(CellsOf(m)) = n
  BY <1>1, MatrixFacts
<1>3. s \in Seq(CellsOf(m)) /\ Len(s) = n /\ DOMAIN s = 1 .. n
  BY <1>1 DEF OwnersLead
<1>4. \A i, j \in 1 .. n : s[i] = s[j] => i = j
  BY <1>1 DEF OwnersLead
<1>5. \A i \in 1 .. n : s[i] \in CellsOf(m)
  BY <1>3
<1>6. \A x \in CellsOf(m) : \E i \in 1 .. n : s[i] = x
  <2> DEFINE Hit == {s[i] : i \in 1 .. n}
             f == [i \in 1 .. n |-> s[i]]
  <2>1. Hit \in SUBSET CellsOf(m) /\ IsFiniteSet(Hit)
    BY <1>2, <1>5, FS_Subset
  <2>2. f \in [1 .. n -> Hit] /\ (\A i, j \in 1 .. n : f[i] = f[j] => i = j)
        /\ \A x \in Hit : \E i \in 1 .. n : f[i] = x
    BY <1>4
  <2>3. ExistsBijection(1 .. n, Hit)
    <3> HIDE DEF f, Hit
    <3>1. f \in Bijection(1 .. n, Hit)
      BY <2>2 DEF Bijection, Injection, Surjection, IsInjective
    <3> QED BY <3>1 DEF ExistsBijection
  <2>4. Cardinality(Hit) = n
    <3>1. IsFiniteSet(1 .. n) /\ Cardinality(1 .. n) = n
      BY FS_Interval
    <3> HIDE DEF Hit
    <3> QED BY <2>3, <3>1, FS_Bijection
  <2>5. Hit = CellsOf(m)
    <3> HIDE DEF Hit
    <3> QED BY <1>2, <2>1, <2>4, FS_Subset
  <2> QED BY <2>5
<1>7. \A f \in FacesOf(m) : \A i, j \in 1 .. n : s[i] = m.lower[f] /\ s[j] = m.upper[f] => i < j
  <2> SUFFICES ASSUME NEW f \in FacesOf(m), NEW i \in 1 .. n, NEW j \in 1 .. n,
                      s[i] = m.lower[f], s[j] = m.upper[f]
               PROVE  i < j
    OBVIOUS
  <2>1. PICK k \in 1 .. n : k < j /\ s[k] = m.lower[f]
    BY <1>1 DEF OwnersLead
  <2>2. k = i
    BY <1>4, <2>1
  <2> QED BY <2>1, <2>2
<1>8. Lists(s, CellsOf(m))
  BY <1>3, <1>4, <1>5, <1>6 DEF Lists
<1> QED BY <1>1, <1>3, <1>7, <1>8 DEF IsOrder

\* The builders' orders, grown from the front.
LEMMA ForwardIsOrder ==
  ASSUME NEW m, GoodMatrix(m), NEW order \in ForwardOrders(m)
  PROVE  IsOrder(m, order)
<1> DEFINE F(o) == [k \in 0 .. m.n |-> IF k = 0 THEN {<<>>} ELSE Longer(m, o[k - 1])]
           orders == CHOOSE o : o = F(o)
           Y == SUBSET Seq(CellsOf(m))
           h == [p \in (1 .. m.n) \X Y |-> Longer(m, p[2])]
<1>0. PICK n \in Nat : n = m.n
  BY MatrixFacts
<1>1. ForwardOrders(m) = orders[m.n]
  BY DEF ForwardOrders, Longer, NextCells, OwnersOf
<1>2. \A Q \in Y : Longer(m, Q) \in Y
  <2>1. ASSUME NEW Q \in Y, NEW s \in Q, NEW c \in NextCells(m, s) PROVE Append(s, c) \in Seq(CellsOf(m))
    <3>1. c \in CellsOf(m)
      BY DEF NextCells, CellsOf, Index
    <3> QED BY <3>1
  <2> QED BY <2>1 DEF Longer
<1>3. {<<>>} \in Y /\ IsStep(n, Y, h)
  BY <1>0, <1>2 DEF IsStep
<1>4. PICK acc : IsLoop(n, Y, {<<>>}, h, acc)
  <2> HIDE DEF Y, h
  <2> QED BY <1>3, LoopExists
<1>5. acc = F(acc)
  <2>1. \A k \in 1 .. n : k - 1 \in 0 .. n
    OBVIOUS
  <2>2. \A k \in 1 .. n : acc[k - 1] \in Y
    BY <1>4, <2>1 DEF IsLoop
  <2>3. \A k \in 1 .. n : <<k, acc[k - 1]>> \in (1 .. m.n) \X Y
    BY <1>0, <2>2
  <2>4. \A k \in 1 .. n : acc[k] = Longer(m, acc[k - 1])
    <3>1. \A p \in (1 .. m.n) \X Y : h[p] = Longer(m, p[2])
      OBVIOUS
    <3> HIDE DEF h, Y
    <3> QED BY <1>4, <2>3, <3>1 DEF IsLoop
  <2>5. acc[0] = {<<>>} /\ acc = [k \in 0 .. n |-> acc[k]]
    BY <1>4 DEF IsLoop
  <2>6. \A k \in 0 .. n : k = 0 \/ k \in 1 .. n
    OBVIOUS
  <2> QED BY <1>0, <2>4, <2>5, <2>6
<1>6. orders = F(orders)
  <2> HIDE DEF F
  <2> QED BY <1>5
<1>7. orders[0] = {<<>>} /\ \A k \in Nat : k + 1 <= n => orders[k + 1] = Longer(m, orders[k])
  <2> HIDE DEF orders
  <2>1. \A k \in 0 .. n : orders[k] = IF k = 0 THEN {<<>>} ELSE Longer(m, orders[k - 1])
    BY <1>0, <1>6
  <2>2. \A k \in Nat : k + 1 <= n => k + 1 \in 0 .. n /\ (k + 1) - 1 = k /\ k + 1 # 0
    OBVIOUS
  <2> QED BY <2>1, <2>2
<1> HIDE DEF orders, F
<1> DEFINE good == {k \in Nat : k <= n => \A s \in orders[k] : OwnersLead(m, s, k)}
<1>8. 0 \in good
  <2>1. OwnersLead(m, <<>>, 0)
    BY DEF OwnersLead
  <2> QED BY <1>7, <2>1
<1>9. ASSUME NEW k \in Nat, k \in good PROVE k + 1 \in good
  <2>1. ASSUME k + 1 <= n, NEW s \in orders[k + 1] PROVE OwnersLead(m, s, k + 1)
    <3>0. s \in Longer(m, orders[k])
      BY <1>7, <2>1, Zenon
    <3>1. PICK q \in orders[k] : \E c \in NextCells(m, q) : s = Append(q, c)
      BY <3>0 DEF Longer
    <3>2. OwnersLead(m, q, k)
      BY <1>9, <2>1
    <3> QED BY <3>1, <3>2, LongerPrefix
  <2> QED BY <2>1
<1>10. n \in good
  <2> HIDE DEF good
  <2> QED BY <1>8, <1>9, NumberInduction
<1> QED BY <1>0, <1>1, <1>10, FullPrefix

-----------------------------------------------------------------------------
(* Packed matrices.                                                        *)

\* es has one entry for each face of F, with the row of the end of the face
Entries(es, F, rowOf, end, m) ==
  /\ Listed(es) /\ Len(es) \in Nat /\ DOMAIN es = 1 .. Len(es)
  /\ \A i \in 1 .. Len(es) : /\ es[i].face \in F
                             /\ es[i].col = rowOf[end[es[i].face]]
                             /\ es[i].coeff = m.coeff[es[i].face]
  /\ \A i, j \in 1 .. Len(es) : es[i].face = es[j].face => i = j
  /\ \A f \in F : \E i \in 1 .. Len(es) : es[i].face = f

\* the edge of face f between rows
EdgeOf(M, m, f) ==
  [owner |-> M.oldToNew[m.lower[f]], col |-> M.oldToNew[m.upper[f]], coeff |-> m.coeff[f]]

\* M has the cells of m in forward order, with the faces of each in its row
IsPacked(M, m) ==
  /\ GoodMatrix(m) /\ M.n = m.n
  /\ M.newToOld \in [CellsOf(m) -> CellsOf(m)] /\ M.oldToNew \in [CellsOf(m) -> CellsOf(m)]
  /\ \A c \in CellsOf(m) : M.newToOld[M.oldToNew[c]] = c /\ M.oldToNew[M.newToOld[c]] = c
  /\ \A row \in CellsOf(m) : M.diag[row] = m.diag[M.newToOld[row]]
  /\ \A f \in FacesOf(m) : M.oldToNew[m.lower[f]] < M.oldToNew[m.upper[f]]
  /\ \A row \in CellsOf(m) :
       /\ Entries(M.incoming[row], AboveFaces(m, M.newToOld[row]), M.oldToNew, m.lower, m)
       /\ Entries(M.outgoing[row], OwnedFaces(m, M.newToOld[row]), M.oldToNew, m.upper, m)
  /\ Len(M.lduOrderEdges) = Len(m.lower) /\ Listed(M.lduOrderEdges)
  /\ \A f \in FacesOf(m) : M.lduOrderEdges[f] = EdgeOf(M, m, f)

\* The entries made from a list of faces.
LEMMA EntriesOfList ==
  ASSUME NEW s, NEW F, Lists(s, F), NEW rowOf, NEW end, NEW m, NEW es,
         es = [i \in DOMAIN s |-> [col |-> rowOf[end[s[i]]], face |-> s[i], coeff |-> m.coeff[s[i]]]]
  PROVE  Entries(es, F, rowOf, end, m)
<1> DEFINE e(f) == [col |-> rowOf[end[f]], face |-> f, coeff |-> m.coeff[f]]
           T == {e(f) : f \in F}
<1>1. PICK n \in Nat : n = Len(s)
  BY DEF Lists
<1>2. DOMAIN s = 1 .. n /\ \A i \in 1 .. n : s[i] \in F
  BY <1>1 DEF Lists
<1>3. es = [i \in 1 .. n |-> e(s[i])]
  BY <1>2
<1>4. \A i \in 1 .. n : es[i] = e(s[i]) /\ e(s[i]) \in T
  BY <1>2, <1>3
<1>5. es \in Seq(T) /\ Len(es) = n /\ DOMAIN es = 1 .. n
  <2> HIDE DEF e, T
  <2> QED BY <1>3, <1>4
<1>6. \A f : e(f).face = f /\ e(f).col = rowOf[end[f]] /\ e(f).coeff = m.coeff[f]
  OBVIOUS
<1> HIDE DEF e, T
<1>7. \A i \in 1 .. n : es[i].face = s[i] /\ es[i].col = rowOf[end[s[i]]] /\ es[i].coeff = m.coeff[s[i]]
  BY <1>4, <1>6
<1>8. /\ \A i, j \in 1 .. n : s[i] = s[j] => i = j
      /\ \A f \in F : \E i \in 1 .. n : s[i] = f
  BY <1>1 DEF Lists
<1>9. Listed(es)
  BY <1>5 DEF Listed
<1> QED BY <1>2, <1>5, <1>7, <1>8, <1>9 DEF Entries

\* the row of a cell
RowIn(order, c) == (CHOOSE i \in DOMAIN order : order[i] = c) - 1

\* Rows and cells are numbered against each other.
LEMMA RowInIs ==
  ASSUME NEW m, GoodMatrix(m), NEW order, IsOrder(m, order)
  PROVE  /\ \A c \in CellsOf(m) : RowIn(order, c) \in CellsOf(m) /\ order[RowIn(order, c) + 1] = c
         /\ \A row \in CellsOf(m) : order[row + 1] \in CellsOf(m) /\ RowIn(order, order[row + 1]) = row
         /\ \A f \in FacesOf(m) : RowIn(order, m.lower[f]) < RowIn(order, m.upper[f])
<1>1. PICK n \in Nat : n = m.n
  BY MatrixFacts
<1>2. CellsOf(m) = 0 .. n - 1 /\ DOMAIN order = 1 .. n
  BY <1>1 DEF CellsOf, IsOrder, Lists
<1>3. /\ \A i \in 1 .. n : order[i] \in CellsOf(m)
      /\ \A i, j \in 1 .. n : order[i] = order[j] => i = j
      /\ \A c \in CellsOf(m) : \E i \in 1 .. n : order[i] = c
  BY <1>1 DEF IsOrder, Lists
<1>4. \A c \in CellsOf(m) : \E i \in 1 .. n : order[i] = c /\ RowIn(order, c) = i - 1
  BY <1>2, <1>3 DEF RowIn
<1>5. \A i \in 1 .. n : i - 1 \in 0 .. n - 1 /\ (i - 1) + 1 = i
  OBVIOUS
<1>6. \A c \in CellsOf(m) : RowIn(order, c) \in CellsOf(m) /\ order[RowIn(order, c) + 1] = c
  BY <1>2, <1>4, <1>5
<1>7. \A row \in 0 .. n - 1 : row + 1 \in 1 .. n /\ (row + 1) - 1 = row
  OBVIOUS
<1>8. ASSUME NEW row \in CellsOf(m) PROVE order[row + 1] \in CellsOf(m) /\ RowIn(order, order[row + 1]) = row
  <2>1. PICK j \in 1 .. n : j = row + 1 /\ j - 1 = row
    BY <1>2, <1>7
  <2>2. order[j] \in CellsOf(m)
    BY <1>3
  <2>3. PICK i \in 1 .. n : order[i] = order[j] /\ RowIn(order, order[j]) = i - 1
    BY <1>4, <2>2
  <2>4. i = j
    BY <1>3, <2>3
  <2> QED BY <2>1, <2>2, <2>3, <2>4
<1>9. ASSUME NEW f \in FacesOf(m) PROVE RowIn(order, m.lower[f]) < RowIn(order, m.upper[f])
  <2>1. m.lower[f] \in CellsOf(m) /\ m.upper[f] \in CellsOf(m)
    BY MatrixFacts
  <2>2. PICK i \in 1 .. n : order[i] = m.lower[f] /\ RowIn(order, m.lower[f]) = i - 1
    BY <1>4, <2>1
  <2>3. PICK j \in 1 .. n : order[j] = m.upper[f] /\ RowIn(order, m.upper[f]) = j - 1
    BY <1>4, <2>1
  <2>4. i < j
    BY <1>1, <2>2, <2>3 DEF IsOrder
  <2>5. i - 1 < j - 1
    BY <2>4
  <2> QED BY <2>2, <2>3, <2>5
<1> QED BY <1>6, <1>8, <1>9

\* buildWithOrdering packs the matrix.
LEMMA PackIs ==
  ASSUME NEW m, GoodMatrix(m), NEW order, IsOrder(m, order)
  PROVE  IsPacked(Pack(m, order), m)
<1> DEFINE M == Pack(m, order)
           rowOf == [c \in Index(m) |-> RowIn(order, c)]
           into(c) == Ascending({f \in 1 .. Len(m.lower) : m.upper[f] = c})
           In(c) == [i \in DOMAIN into(c) |->
                       [col |-> rowOf[m.lower[into(c)[i]]], face |-> into(c)[i],
                        coeff |-> m.coeff[into(c)[i]]]]
           Out(c) == [i \in DOMAIN OwnerRange(m, c) |->
                       [col |-> rowOf[m.upper[OwnerRange(m, c)[i]]], face |-> OwnerRange(m, c)[i],
                        coeff |-> m.coeff[OwnerRange(m, c)[i]]]]
<1>0. Index(m) = CellsOf(m) /\ FacesOf(m) = 1 .. Len(m.lower)
  BY DEF Index, CellsOf, FacesOf
<1>1. /\ M.n = m.n
      /\ M.newToOld = [row \in Index(m) |-> order[row + 1]]
      /\ M.oldToNew = rowOf
      /\ M.diag = [row \in Index(m) |-> m.diag[order[row + 1]]]
      /\ M.incoming = [row \in Index(m) |-> In(order[row + 1])]
      /\ M.outgoing = [row \in Index(m) |-> Out(order[row + 1])]
      /\ M.lduOrderEdges = [f \in 1 .. Len(m.lower) |->
           [owner |-> rowOf[m.lower[f]], col |-> rowOf[m.upper[f]], coeff |-> m.coeff[f]]]
  BY DEF Pack, RowIn
<1>2. \A c \in CellsOf(m) : Entries(In(c), AboveFaces(m, c), rowOf, m.lower, m)
  <2> SUFFICES ASSUME NEW c \in CellsOf(m) PROVE Entries(In(c), AboveFaces(m, c), rowOf, m.lower, m)
    OBVIOUS
  <2>1. {f \in 1 .. Len(m.lower) : m.upper[f] = c} = AboveFaces(m, c)
    BY <1>0 DEF AboveFaces
  <2>2. AboveFaces(m, c) \in SUBSET Nat /\ IsFiniteSet(AboveFaces(m, c))
    <3>1. AboveFaces(m, c) \subseteq FacesOf(m) /\ IsFiniteSet(FacesOf(m)) /\ FacesOf(m) \subseteq Nat
      BY MatrixFacts DEF AboveFaces
    <3> QED BY <3>1, FS_Subset
  <2>3. Lists(into(c), AboveFaces(m, c))
    BY <2>1, <2>2, AscendingIs
  <2> HIDE DEF into, rowOf
  <2> QED BY <2>3, EntriesOfList
<1>3. \A c \in CellsOf(m) : Entries(Out(c), OwnedFaces(m, c), rowOf, m.upper, m)
  <2> SUFFICES ASSUME NEW c \in CellsOf(m) PROVE Entries(Out(c), OwnedFaces(m, c), rowOf, m.upper, m)
    OBVIOUS
  <2>1. Lists(OwnerRange(m, c), OwnedFaces(m, c))
    BY OwnerRangeIs
  <2> HIDE DEF rowOf
  <2> QED BY <2>1, EntriesOfList
<1>4. \A c \in CellsOf(m) : rowOf[c] = RowIn(order, c)
  BY <1>0
<1>5. /\ \A c \in CellsOf(m) : rowOf[c] \in CellsOf(m) /\ order[rowOf[c] + 1] = c
      /\ \A row \in CellsOf(m) : order[row + 1] \in CellsOf(m) /\ rowOf[order[row + 1]] = row
      /\ \A f \in FacesOf(m) : rowOf[m.lower[f]] < rowOf[m.upper[f]]
  <2>1. \A f \in FacesOf(m) : m.lower[f] \in CellsOf(m) /\ m.upper[f] \in CellsOf(m)
    BY MatrixFacts
  <2> HIDE DEF rowOf
  <2> QED BY <1>4, <2>1, RowInIs
<1>6. rowOf = [c \in CellsOf(m) |-> rowOf[c]]
  BY <1>0
<1> HIDE DEF M, rowOf, In, Out
<1>7. M.newToOld \in [CellsOf(m) -> CellsOf(m)] /\ M.oldToNew \in [CellsOf(m) -> CellsOf(m)]
  BY <1>0, <1>1, <1>5, <1>6
<1>8. \A row \in CellsOf(m) : /\ M.newToOld[row] = order[row + 1]
                              /\ M.diag[row] = m.diag[order[row + 1]]
                              /\ M.incoming[row] = In(order[row + 1])
                              /\ M.outgoing[row] = Out(order[row + 1])
  BY <1>0, <1>1
<1>9. \A c \in CellsOf(m) : M.newToOld[M.oldToNew[c]] = c /\ M.oldToNew[M.newToOld[c]] = c
  BY <1>1, <1>5, <1>8
<1>10. \A row \in CellsOf(m) : M.diag[row] = m.diag[M.newToOld[row]]
  BY <1>8
<1>11. \A row \in CellsOf(m) :
         /\ Entries(M.incoming[row], AboveFaces(m, M.newToOld[row]), M.oldToNew, m.lower, m)
         /\ Entries(M.outgoing[row], OwnedFaces(m, M.newToOld[row]), M.oldToNew, m.upper, m)
  <2> SUFFICES ASSUME NEW row \in CellsOf(m)
               PROVE  /\ Entries(M.incoming[row], AboveFaces(m, M.newToOld[row]), M.oldToNew, m.lower, m)
                      /\ Entries(M.outgoing[row], OwnedFaces(m, M.newToOld[row]), M.oldToNew, m.upper, m)
    OBVIOUS
  <2>1. PICK c \in CellsOf(m) : c = order[row + 1]
    BY <1>5
  <2>2. M.newToOld[row] = c /\ M.incoming[row] = In(c) /\ M.outgoing[row] = Out(c) /\ M.oldToNew = rowOf
    BY <1>1, <1>8, <2>1
  <2> QED BY <1>2, <1>3, <2>2
<1>12. /\ Len(M.lduOrderEdges) = Len(m.lower) /\ Listed(M.lduOrderEdges)
       /\ \A f \in FacesOf(m) : M.lduOrderEdges[f] = EdgeOf(M, m, f)
  <2> DEFINE E == [f \in 1 .. Len(m.lower) |-> EdgeOf(M, m, f)]
  <2>1. M.lduOrderEdges = E
    BY <1>1 DEF EdgeOf
  <2>2. Len(m.lower) \in Nat
    BY MatrixFacts
  <2>3. E \in Seq({EdgeOf(M, m, f) : f \in 1 .. Len(m.lower)}) /\ Len(E) = Len(m.lower)
    BY <2>2
  <2> QED BY <1>0, <2>1, <2>3 DEF Listed
<1>13. \A f \in FacesOf(m) : M.oldToNew[m.lower[f]] < M.oldToNew[m.upper[f]]
  BY <1>1, <1>5
<1>14. GoodMatrix(m) /\ M.n = m.n
  BY <1>1
<1> QED BY <1>7, <1>9, <1>10, <1>11, <1>12, <1>13, <1>14 DEF IsPacked, M

-----------------------------------------------------------------------------
(* Sums over the entries of a row are sums over its faces.                 *)

\* es shows the faces of F, face phi[i] at place i, with their columns
Shows(es, phi, F, colOf, m) ==
  /\ Lists(phi, F) /\ Len(es) = Len(phi) /\ DOMAIN es = 1 .. Len(es)
  /\ \A i \in 1 .. Len(es) : es[i].col = colOf[phi[i]] /\ es[i].coeff = m.coeff[phi[i]]

\* coefficients of the entries, alone and with the value of a field
Coeffs(es) == [i \in DOMAIN es |-> es[i].coeff]
EntryTimes(es, x) == [i \in DOMAIN es |-> es[i].coeff * x[es[i].col]]
SumCoeffs(es, S) == MapThenSumSet(LAMBDA i : es[i].coeff, S)
SumEntryTimes(es, x, S) == MapThenSumSet(LAMBDA i : es[i].coeff * x[es[i].col], S)

\* The sums of the kernels are sums of these.
LEMMA SumCoeffsIs ==
  ASSUME NEW es, NEW S \in SUBSET DOMAIN es, IsFiniteSet(S)
  PROVE  SumCoeffs(es, S) = SumOf(Coeffs(es), S)
<1> DEFINE F(i) == [T \in SUBSET S |-> IF T = {} THEN 0 ELSE es[First(T)].coeff + i[T \ {First(T)}]]
           it == CHOOSE i : i = F(i)
<1>1. SumCoeffs(es, S) = it[S]
  BY DEF SumCoeffs, MapThenSumSet, MapThenFoldSet, First
<1>2. ASSUME NEW i PROVE [T \in SUBSET S |-> SumFrom(Coeffs(es), i, T)] = F(i)
  <2>1. \A T \in SUBSET S : T # {} => First(T) \in S
    BY FirstOf
  <2>2. \A T \in SUBSET S : T # {} => Coeffs(es)[First(T)] = es[First(T)].coeff
    BY <2>1 DEF Coeffs
  <2> QED BY <2>2 DEF SumFrom
<1> HIDE DEF F
<1>3. \A i : AreSums(i, Coeffs(es), S) <=> i = F(i)
  BY <1>2 DEF AreSums
<1>4. \E i : i = F(i)
  BY <1>3, SumsExist
<1>5. it = F(it)
  BY <1>4
<1>6. AreSums(it, Coeffs(es), S)
  <2> HIDE DEF it
  <2> QED BY <1>3, <1>5
<1> HIDE DEF it
<1> QED BY <1>1, <1>6, SumChosen

\* The same with the value at the column.
LEMMA SumEntryTimesIs ==
  ASSUME NEW es, NEW x, NEW S \in SUBSET DOMAIN es, IsFiniteSet(S)
  PROVE  SumEntryTimes(es, x, S) = SumOf(EntryTimes(es, x), S)
<1> DEFINE F(i) == [T \in SUBSET S |-> IF T = {} THEN 0
                                      ELSE es[First(T)].coeff * x[es[First(T)].col] + i[T \ {First(T)}]]
           it == CHOOSE i : i = F(i)
<1>1. SumEntryTimes(es, x, S) = it[S]
  BY DEF SumEntryTimes, MapThenSumSet, MapThenFoldSet, First
<1>2. ASSUME NEW i PROVE [T \in SUBSET S |-> SumFrom(EntryTimes(es, x), i, T)] = F(i)
  <2>1. \A T \in SUBSET S : T # {} => First(T) \in S
    BY FirstOf
  <2>2. \A T \in SUBSET S : T # {} =>
          EntryTimes(es, x)[First(T)] = es[First(T)].coeff * x[es[First(T)].col]
    BY <2>1 DEF EntryTimes
  <2> QED BY <2>2 DEF SumFrom
<1> HIDE DEF F
<1>3. \A i : AreSums(i, EntryTimes(es, x), S) <=> i = F(i)
  BY <1>2 DEF AreSums
<1>4. \E i : i = F(i)
  BY <1>3, SumsExist
<1>5. it = F(it)
  BY <1>4
<1>6. AreSums(it, EntryTimes(es, x), S)
  <2> HIDE DEF it
  <2> QED BY <1>3, <1>5
<1> HIDE DEF it
<1> QED BY <1>1, <1>6, SumChosen

\* each coefficient times the value in the column of its face
FaceTimes(m, x, colOf) == [f \in FacesOf(m) |-> m.coeff[f] * x[colOf[f]]]
\* the coefficients of the entries in column d
Weight(es, d) == Total(LAMBDA i : es[i].coeff, {i \in DOMAIN es : es[i].col = d})

\* What a list of entries makes of a field.
LEMMA AppliedIs ==
  ASSUME NEW m, GoodMatrix(m), NEW F \in SUBSET FacesOf(m), NEW colOf, NEW es, NEW phi,
         Shows(es, phi, F, colOf, m), NEW x, \A f \in F : x[colOf[f]] \in Int
  PROVE  Applied(es, x) = SumOf(FaceTimes(m, x, colOf), F) % P
<1>1. PICK n \in Nat : n = Len(es)
  BY DEF Shows, Lists
<1>2. DOMAIN es = 1 .. n /\ IsFiniteSet(1 .. n)
  BY <1>1, FS_Interval DEF Shows
<1>3. /\ \A i \in 1 .. n : phi[i] \in F
      /\ \A i, j \in 1 .. n : phi[i] = phi[j] => i = j
      /\ \A f \in F : \E i \in 1 .. n : phi[i] = f
  BY <1>1 DEF Shows, Lists
<1>4. IsFiniteSet(F) /\ \A f \in F : m.coeff[f] \in Int
  <2>1. IsFiniteSet(FacesOf(m)) /\ \A f \in FacesOf(m) : m.coeff[f] \in Int
    BY MatrixFacts
  <2> QED BY <2>1, FS_Subset
<1>5. ASSUME NEW i \in 1 .. n
      PROVE  /\ EntryTimes(es, x)[i] \in Int
             /\ FaceTimes(m, x, colOf)[phi[i]] = EntryTimes(es, x)[i]
  <2>1. es[i].col = colOf[phi[i]] /\ es[i].coeff = m.coeff[phi[i]] /\ phi[i] \in F
    BY <1>1, <1>3 DEF Shows
  <2>2. PICK u \in Int, v \in Int : u = m.coeff[phi[i]] /\ v = x[colOf[phi[i]]]
    BY <1>4, <2>1
  <2>3. EntryTimes(es, x)[i] = u * v
    BY <1>2, <2>1, <2>2 DEF EntryTimes
  <2>4. FaceTimes(m, x, colOf)[phi[i]] = u * v
    BY <2>1, <2>2 DEF FaceTimes
  <2>5. u * v \in Int
    OBVIOUS
  <2> QED BY <2>3, <2>4, <2>5
<1>6. SumOf(EntryTimes(es, x), 1 .. n) = SumOf(FaceTimes(m, x, colOf), F)
  <2>1. PICK g, w : g = EntryTimes(es, x) /\ w = FaceTimes(m, x, colOf)
    OBVIOUS
  <2>2. \A i \in 1 .. n : phi[i] \in F /\ g[i] \in Int /\ w[phi[i]] = g[i]
    BY <1>3, <1>5, <2>1
  <2>3. SumOf(g, 1 .. n) = SumOf(w, F)
    <3>1. PICK S : S = 1 .. n
      OBVIOUS
    <3>2. /\ IsFiniteSet(S) /\ IsFiniteSet(F)
          /\ \A i \in S : phi[i] \in F /\ g[i] \in Int /\ w[phi[i]] = g[i]
          /\ \A i, j \in S : phi[i] = phi[j] => i = j
          /\ \A f \in F : \E i \in S : phi[i] = f
      BY <1>2, <1>3, <1>4, <2>2, <3>1
    <3>3. SumOf(g, S) = SumOf(w, F)
      BY <3>2, SumMoved
    <3> QED BY <3>1, <3>3
  <2> QED BY <2>1, <2>3
<1>7. SumEntryTimes(es, x, 1 .. n) = SumOf(EntryTimes(es, x), 1 .. n)
  BY <1>2, SumEntryTimesIs
<1>8. Applied(es, x) = SumEntryTimes(es, x, DOMAIN es) % P
  BY DEF Applied, Total, SumEntryTimes
<1> QED BY <1>2, <1>6, <1>7, <1>8

\* The coefficients in one column.
LEMMA WeightIs ==
  ASSUME NEW m, GoodMatrix(m), NEW F \in SUBSET FacesOf(m), NEW colOf, NEW es, NEW phi,
         Shows(es, phi, F, colOf, m), NEW d
  PROVE  Weight(es, d) = SumOf(m.coeff, Group(F, colOf, d)) % P
<1> DEFINE S == {i \in DOMAIN es : es[i].col = d}
           T == {f \in F : colOf[f] = d}
<1>1. PICK n \in Nat : n = Len(es)
  BY DEF Shows, Lists
<1>2. DOMAIN es = 1 .. n /\ IsFiniteSet(1 .. n)
  BY <1>1, FS_Interval DEF Shows
<1>3. /\ \A i \in 1 .. n : phi[i] \in F
      /\ \A i, j \in 1 .. n : phi[i] = phi[j] => i = j
      /\ \A f \in F : \E i \in 1 .. n : phi[i] = f
  BY <1>1 DEF Shows, Lists
<1>4. IsFiniteSet(F) /\ \A f \in F : m.coeff[f] \in Int
  <2>1. IsFiniteSet(FacesOf(m)) /\ \A f \in FacesOf(m) : m.coeff[f] \in Int
    BY MatrixFacts
  <2> QED BY <2>1, FS_Subset
<1>5. \A i \in 1 .. n : es[i].col = colOf[phi[i]] /\ es[i].coeff = m.coeff[phi[i]]
  BY <1>1 DEF Shows
<1>6. IsFiniteSet(S) /\ IsFiniteSet(T) /\ S \in SUBSET DOMAIN es
  BY <1>2, <1>4, FS_Subset
<1>7. \A i \in S : phi[i] \in T /\ Coeffs(es)[i] \in Int /\ m.coeff[phi[i]] = Coeffs(es)[i]
  BY <1>2, <1>3, <1>4, <1>5 DEF Coeffs
<1>8. \A i, j \in S : phi[i] = phi[j] => i = j
  BY <1>2, <1>3
<1>9. \A f \in T : \E i \in S : phi[i] = f
  BY <1>2, <1>3, <1>5
<1>10. Weight(es, d) = SumCoeffs(es, S) % P
  BY DEF Weight, Total, SumCoeffs
<1> HIDE DEF S, T
<1>11. SumOf(Coeffs(es), S) = SumOf(m.coeff, T)
  BY <1>6, <1>7, <1>8, <1>9, SumMoved
<1>12. SumCoeffs(es, S) = SumOf(Coeffs(es), S)
  BY <1>6, SumCoeffsIs
<1> QED BY <1>10, <1>11, <1>12 DEF T, Group

\* the faces of the entries
EntryFaces(es) == [i \in 1 .. Len(es) |-> es[i].face]

\* Entries show their faces.
LEMMA EntriesShow ==
  ASSUME NEW es, NEW F, NEW rowOf, NEW end, NEW m, Entries(es, F, rowOf, end, m),
         NEW colOf, \A f \in F : colOf[f] = rowOf[end[f]]
  PROVE  Shows(es, EntryFaces(es), F, colOf, m)
<1> DEFINE phi == EntryFaces(es)
<1>1. PICK n \in Nat : n = Len(es)
  BY DEF Entries
<1>2. phi = [i \in 1 .. n |-> es[i].face]
  BY <1>1 DEF EntryFaces
<1>3. /\ DOMAIN es = 1 .. n
      /\ \A i \in 1 .. n : /\ es[i].face \in F
                           /\ es[i].col = rowOf[end[es[i].face]]
                           /\ es[i].coeff = m.coeff[es[i].face]
      /\ \A i, j \in 1 .. n : es[i].face = es[j].face => i = j
      /\ \A f \in F : \E i \in 1 .. n : es[i].face = f
  BY <1>1 DEF Entries
<1>4. phi \in Seq(F) /\ Len(phi) = n /\ DOMAIN phi = 1 .. n
  BY <1>2, <1>3
<1>5. \A i \in 1 .. n : phi[i] = es[i].face
  BY <1>2
<1>6. Lists(phi, F)
  BY <1>3, <1>4, <1>5 DEF Lists
<1>7. \A i \in 1 .. n : es[i].col = colOf[phi[i]] /\ es[i].coeff = m.coeff[phi[i]]
  BY <1>3, <1>5
<1> QED BY <1>1, <1>3, <1>4, <1>6, <1>7 DEF Shows

\* the rows of the ends of the faces
LowerRows(M, m) == [f \in FacesOf(m) |-> M.oldToNew[m.lower[f]]]
UpperRows(M, m) == [f \in FacesOf(m) |-> M.oldToNew[m.upper[f]]]

\* A field of the rows is a field of the cells.
LEMMA PackedFields ==
  ASSUME NEW M, NEW m, IsPacked(M, m), NEW x \in FieldOf(m)
  PROVE  /\ ToOriginal(M, x) \in FieldOf(m)
         /\ \A c \in CellsOf(m) : ToOriginal(M, x)[c] = x[M.oldToNew[c]]
         /\ \A r \in CellsOf(m) : ToOriginal(M, x)[M.newToOld[r]] = x[r]
<1>1. GoodMatrix(m) /\ Index(M) = CellsOf(m) /\ FieldOf(m) = [CellsOf(m) -> Value]
  BY FieldFacts DEF IsPacked, Index, CellsOf, FieldOf
<1>2. ToOriginal(M, x) = [c \in CellsOf(m) |-> x[M.oldToNew[c]]]
  BY <1>1, TableIs DEF ToOriginal
<1>3. /\ \A c \in CellsOf(m) : M.oldToNew[c] \in CellsOf(m) /\ M.newToOld[c] \in CellsOf(m)
      /\ \A r \in CellsOf(m) : M.oldToNew[M.newToOld[r]] = r
  BY DEF IsPacked
<1> QED BY <1>1, <1>2, <1>3

\* The faces of a cell, on their sides.
LEMMA SidesOf ==
  ASSUME NEW m, GoodMatrix(m), NEW c
  PROVE  /\ OwnedFaces(m, c) \in SUBSET FacesOf(m) /\ AboveFaces(m, c) \in SUBSET FacesOf(m)
         /\ OwnedFaces(m, c) \cap AboveFaces(m, c) = {}
         /\ IsFiniteSet(OwnedFaces(m, c)) /\ IsFiniteSet(AboveFaces(m, c))
<1>1. OwnedFaces(m, c) \in SUBSET FacesOf(m) /\ AboveFaces(m, c) \in SUBSET FacesOf(m)
  BY DEF OwnedFaces, AboveFaces
<1>2. OwnedFaces(m, c) \cap AboveFaces(m, c) = {}
  BY FieldFacts DEF OwnedFaces, AboveFaces
<1>3. IsFiniteSet(FacesOf(m))
  BY FieldFacts
<1> QED BY <1>1, <1>2, <1>3, FS_Subset

\* Entries with the rows of the neighbours, applied to a field.
LEMMA AppliedUppers ==
  ASSUME NEW M, NEW m, IsPacked(M, m), NEW x \in FieldOf(m), NEW F \in SUBSET FacesOf(m),
         NEW es, NEW phi, Shows(es, phi, F, UpperRows(M, m), m)
  PROVE  Applied(es, x) = SumOf(TimesUpper(m, ToOriginal(M, x)), F) % P
<1>1. GoodMatrix(m)
  BY DEF IsPacked
<1>2. \A f \in FacesOf(m) : x[UpperRows(M, m)[f]] \in Int
                         /\ x[UpperRows(M, m)[f]] = ToOriginal(M, x)[m.upper[f]]
  BY <1>1, PackedFields, FieldFacts DEF UpperRows
<1>3. Applied(es, x) = SumOf(FaceTimes(m, x, UpperRows(M, m)), F) % P
  BY <1>1, <1>2, AppliedIs
<1>4. FaceTimes(m, x, UpperRows(M, m)) = TimesUpper(m, ToOriginal(M, x))
  BY <1>2 DEF FaceTimes, TimesUpper
<1> QED BY <1>3, <1>4

\* The same with those of the owners.
LEMMA AppliedLowers ==
  ASSUME NEW M, NEW m, IsPacked(M, m), NEW x \in FieldOf(m), NEW F \in SUBSET FacesOf(m),
         NEW es, NEW phi, Shows(es, phi, F, LowerRows(M, m), m)
  PROVE  Applied(es, x) = SumOf(TimesLower(m, ToOriginal(M, x)), F) % P
<1>1. GoodMatrix(m)
  BY DEF IsPacked
<1>2. \A f \in FacesOf(m) : x[LowerRows(M, m)[f]] \in Int
                         /\ x[LowerRows(M, m)[f]] = ToOriginal(M, x)[m.lower[f]]
  BY <1>1, PackedFields, FieldFacts DEF LowerRows
<1>3. Applied(es, x) = SumOf(FaceTimes(m, x, LowerRows(M, m)), F) % P
  BY <1>1, <1>2, AppliedIs
<1>4. FaceTimes(m, x, LowerRows(M, m)) = TimesLower(m, ToOriginal(M, x))
  BY <1>2 DEF FaceTimes, TimesLower
<1> QED BY <1>3, <1>4

\* The incoming and the outgoing entries of a row show the faces on either side.
LEMMA SidesShown ==
  ASSUME NEW M, NEW m, IsPacked(M, m), NEW r \in CellsOf(m), NEW c, c = M.newToOld[r]
  PROVE  /\ Shows(M.incoming[r], EntryFaces(M.incoming[r]), AboveFaces(m, c), LowerRows(M, m), m)
         /\ Shows(M.outgoing[r], EntryFaces(M.outgoing[r]), OwnedFaces(m, c), UpperRows(M, m), m)
<1>1. /\ Entries(M.incoming[r], AboveFaces(m, c), M.oldToNew, m.lower, m)
      /\ Entries(M.outgoing[r], OwnedFaces(m, c), M.oldToNew, m.upper, m)
  BY DEF IsPacked
<1>2. /\ \A f \in AboveFaces(m, c) : LowerRows(M, m)[f] = M.oldToNew[m.lower[f]]
      /\ \A f \in OwnedFaces(m, c) : UpperRows(M, m)[f] = M.oldToNew[m.upper[f]]
  BY DEF AboveFaces, OwnedFaces, LowerRows, UpperRows
<1> QED BY <1>1, <1>2, EntriesShow

\* what a row has from the cells before it, and from those after it
FromLowers(m, x, c) == SumOf(TimesLower(m, x), AboveFaces(m, c))
FromUppers(m, x, c) == SumOf(TimesUpper(m, x), OwnedFaces(m, c))

\* Both sides of a row, applied to a field.
LEMMA AppliedSides ==
  ASSUME NEW M, NEW m, IsPacked(M, m), NEW x \in FieldOf(m), NEW r \in CellsOf(m), NEW c, c = M.newToOld[r]
  PROVE  /\ c \in CellsOf(m)
         /\ Applied(M.incoming[r], x) = FromLowers(m, ToOriginal(M, x), c) % P
         /\ Applied(M.outgoing[r], x) = FromUppers(m, ToOriginal(M, x), c) % P
         /\ FromLowers(m, ToOriginal(M, x), c) \in Int
         /\ FromUppers(m, ToOriginal(M, x), c) \in Int
<1>1. GoodMatrix(m) /\ c \in CellsOf(m)
  BY DEF IsPacked
<1>2. OwnedFaces(m, c) \in SUBSET FacesOf(m) /\ AboveFaces(m, c) \in SUBSET FacesOf(m)
  BY <1>1, SidesOf
<1>3. Applied(M.incoming[r], x) = SumOf(TimesLower(m, ToOriginal(M, x)), AboveFaces(m, c)) % P
  BY <1>2, SidesShown, AppliedLowers
<1>4. Applied(M.outgoing[r], x) = SumOf(TimesUpper(m, ToOriginal(M, x)), OwnedFaces(m, c)) % P
  BY <1>2, SidesShown, AppliedUppers
<1>5. ToOriginal(M, x) \in FieldOf(m)
  BY PackedFields
<1>6. /\ SumOf(TimesLower(m, ToOriginal(M, x)), AboveFaces(m, c)) \in Int
      /\ SumOf(TimesUpper(m, ToOriginal(M, x)), OwnedFaces(m, c)) \in Int
  BY <1>1, <1>2, <1>5, RowSumInt
<1> QED BY <1>1, <1>3, <1>4, <1>6 DEF FromLowers, FromUppers

\* the other end of a face of c
Beyond(m, c) == [f \in FacesOf(m) |-> IF m.lower[f] = c THEN m.upper[f] ELSE m.lower[f]]
FacesAround(m, c) == AboveFaces(m, c) \cup OwnedFaces(m, c)
BeyondRows(M, m, c) == [f \in FacesOf(m) |-> M.oldToNew[Beyond(m, c)[f]]]

\* e is s, with a elements, followed by t, with b elements
IsJoined(e, s, t, a, b) ==
  /\ Listed(e) /\ Len(e) = a + b /\ DOMAIN e = 1 .. (a + b)
  /\ \A i \in 1 .. a : e[i] = s[i]
  /\ \A i \in 1 .. b : e[a + i] = t[i]
  /\ \A i \in 1 .. (a + b) : i \in 1 .. a \/ (i - a \in 1 .. b /\ i = a + (i - a))

\* The elements of two sequences joined.
LEMMA JoinedIs ==
  ASSUME NEW s, Listed(s), NEW t, Listed(t), NEW a \in Nat, a = Len(s), NEW b \in Nat, b = Len(t),
         NEW e, e = s \o t
  PROVE  IsJoined(e, s, t, a, b)
<1>1. PICK S, T : s \in Seq(S) /\ t \in Seq(T)
  BY DEF Listed
<1>2. PICK U : U = S \cup T
  OBVIOUS
<1>3. s \in Seq(U) /\ t \in Seq(U)
  <2>1. \A i \in 1 .. a : s[i] \in U
    BY <1>1, <1>2
  <2>2. \A i \in 1 .. b : t[i] \in U
    BY <1>1, <1>2
  <2> QED BY <1>1, <1>2, <2>1, <2>2
<1>4. e \in Seq(U) /\ Len(e) = a + b /\ DOMAIN e = 1 .. (a + b)
  BY <1>3
<1>5. \A i \in 1 .. a : e[i] = s[i]
  BY <1>3
<1>6. \A i \in 1 .. b : e[a + i] = t[i]
  BY <1>3
<1>7. \A i \in 1 .. (a + b) : i \in 1 .. a \/ (i - a \in 1 .. b /\ i = a + (i - a))
  OBVIOUS
<1>8. Listed(e)
  BY <1>4 DEF Listed
<1> QED BY <1>4, <1>5, <1>6, <1>7, <1>8 DEF IsJoined

\* A row has an entry for each face of its cell.
LEMMA RowEntries ==
  ASSUME NEW M, NEW m, IsPacked(M, m), NEW r \in CellsOf(m), NEW c, c = M.newToOld[r]
  PROVE  Entries(Row(M, r), FacesAround(m, c), M.oldToNew, Beyond(m, c), m)
<1> DEFINE s == M.incoming[r]
           t == M.outgoing[r]
           A == AboveFaces(m, c)
           B == OwnedFaces(m, c)
<1>1. Entries(s, A, M.oldToNew, m.lower, m) /\ Entries(t, B, M.oldToNew, m.upper, m) /\ GoodMatrix(m)
  BY DEF IsPacked
<1>2. PICK a \in Nat, b \in Nat : a = Len(s) /\ b = Len(t)
  BY <1>1 DEF Entries
<1>3. PICK e : e = Row(M, r)
  OBVIOUS
<1>4. /\ Listed(e) /\ Len(e) = a + b /\ DOMAIN e = 1 .. (a + b)
      /\ \A i \in 1 .. a : e[i] = s[i]
      /\ \A i \in 1 .. b : e[a + i] = t[i]
      /\ \A i \in 1 .. (a + b) : i \in 1 .. a \/ (i - a \in 1 .. b /\ i = a + (i - a))
  <2>1. e = s \o t
    BY <1>3 DEF Row
  <2>2. Listed(s) /\ Listed(t)
    BY <1>1 DEF Entries
  <2> HIDE DEF s, t
  <2>3. IsJoined(e, s, t, a, b)
    BY <1>2, <2>1, <2>2, JoinedIs
  <2> QED BY <2>3 DEF IsJoined
<1>5. A \cap B = {} /\ A \in SUBSET FacesOf(m) /\ B \in SUBSET FacesOf(m)
  BY <1>1, SidesOf
<1>6. /\ \A f \in A : Beyond(m, c)[f] = m.lower[f]
      /\ \A f \in B : Beyond(m, c)[f] = m.upper[f]
  <2>1. \A f \in FacesOf(m) : m.lower[f] # m.upper[f]
    BY <1>1, FieldFacts
  <2> QED BY <2>1 DEF AboveFaces, OwnedFaces, Beyond
<1> HIDE DEF A, B, s, t
<1>7. ASSUME NEW i \in 1 .. a
      PROVE  /\ e[i].face \in A /\ e[i].face = s[i].face
             /\ e[i].col = M.oldToNew[Beyond(m, c)[e[i].face]] /\ e[i].coeff = m.coeff[e[i].face]
  <2>1. s[i].face \in A /\ s[i].col = M.oldToNew[m.lower[s[i].face]] /\ s[i].coeff = m.coeff[s[i].face]
    BY <1>1, <1>2 DEF Entries
  <2> QED BY <1>4, <1>6, <2>1
<1>8. ASSUME NEW i \in 1 .. b
      PROVE  /\ e[a + i].face \in B /\ e[a + i].face = t[i].face
             /\ e[a + i].col = M.oldToNew[Beyond(m, c)[e[a + i].face]]
             /\ e[a + i].coeff = m.coeff[e[a + i].face]
  <2>1. t[i].face \in B /\ t[i].col = M.oldToNew[m.upper[t[i].face]] /\ t[i].coeff = m.coeff[t[i].face]
    BY <1>1, <1>2 DEF Entries
  <2> QED BY <1>4, <1>6, <2>1
<1>9. \A i \in 1 .. (a + b) :
        /\ e[i].face \in A \cup B
        /\ e[i].col = M.oldToNew[Beyond(m, c)[e[i].face]]
        /\ e[i].coeff = m.coeff[e[i].face]
  <2> SUFFICES ASSUME NEW i \in 1 .. (a + b)
               PROVE  /\ e[i].face \in A \cup B
                      /\ e[i].col = M.oldToNew[Beyond(m, c)[e[i].face]]
                      /\ e[i].coeff = m.coeff[e[i].face]
    OBVIOUS
  <2>1. CASE i \in 1 .. a
    BY <1>7, <2>1
  <2>2. CASE i - a \in 1 .. b /\ i = a + (i - a)
    <3>1. PICK j \in 1 .. b : i = a + j
      BY <2>2
    <3> QED BY <1>8, <3>1
  <2> QED BY <1>4, <2>1, <2>2
<1>10. ASSUME NEW i \in 1 .. (a + b), NEW j \in 1 .. (a + b), e[i].face = e[j].face
       PROVE  i = j
  <2>1. \A k, l \in 1 .. a : s[k].face = s[l].face => k = l
    BY <1>1, <1>2 DEF Entries
  <2>2. \A k, l \in 1 .. b : t[k].face = t[l].face => k = l
    BY <1>1, <1>2 DEF Entries
  <2>3. CASE i \in 1 .. a /\ j \in 1 .. a
    BY <1>7, <1>10, <2>1, <2>3
  <2>4. CASE i \in 1 .. a /\ j \notin 1 .. a
    <3>1. PICK l \in 1 .. b : j = a + l
      BY <1>4, <2>4
    <3>2. e[i].face \in A /\ e[j].face \in B
      BY <1>7, <1>8, <2>4, <3>1
    <3> QED BY <1>5, <1>10, <3>2
  <2>5. CASE i \notin 1 .. a /\ j \in 1 .. a
    <3>1. PICK l \in 1 .. b : i = a + l
      BY <1>4, <2>5
    <3>2. e[j].face \in A /\ e[i].face \in B
      BY <1>7, <1>8, <2>5, <3>1
    <3> QED BY <1>5, <1>10, <3>2
  <2>6. CASE i \notin 1 .. a /\ j \notin 1 .. a
    <3>1. PICK k \in 1 .. b, l \in 1 .. b : i = a + k /\ j = a + l
      BY <1>4, <2>6
    <3>2. t[k].face = t[l].face
      BY <1>8, <1>10, <3>1
    <3> QED BY <2>2, <3>1, <3>2
  <2> QED BY <2>3, <2>4, <2>5, <2>6
<1>11. ASSUME NEW f \in A \cup B PROVE \E i \in 1 .. (a + b) : e[i].face = f
  <2>1. CASE f \in A
    <3>1. PICK i \in 1 .. a : s[i].face = f
      BY <1>1, <1>2, <2>1 DEF Entries
    <3>2. i \in 1 .. (a + b)
      OBVIOUS
    <3> QED BY <1>7, <3>1, <3>2
  <2>2. CASE f \in B
    <3>1. PICK i \in 1 .. b : t[i].face = f
      BY <1>1, <1>2, <2>2 DEF Entries
    <3>2. a + i \in 1 .. (a + b)
      OBVIOUS
    <3> QED BY <1>8, <3>1, <3>2
  <2> QED BY <2>1, <2>2
<1>12. FacesAround(m, c) = A \cup B /\ Len(e) \in Nat
  BY <1>4 DEF FacesAround, A, B
<1> QED BY <1>3, <1>4, <1>9, <1>10, <1>11, <1>12 DEF Entries

\* The faces of a cell lead to other cells.
LEMMA AroundIs ==
  ASSUME NEW m, GoodMatrix(m), NEW c
  PROVE  /\ FacesAround(m, c) \in SUBSET FacesOf(m) /\ IsFiniteSet(FacesAround(m, c))
         /\ \A f \in FacesAround(m, c) : Beyond(m, c)[f] \in CellsOf(m) /\ Beyond(m, c)[f] # c
         /\ \A d : d # c => FacesJoining(m, c, d) = {f \in FacesAround(m, c) : Beyond(m, c)[f] = d}
         /\ \A f \in AboveFaces(m, c) : Beyond(m, c)[f] = m.lower[f]
         /\ \A f \in OwnedFaces(m, c) : Beyond(m, c)[f] = m.upper[f]
<1>1. \A f \in FacesOf(m) : m.lower[f] \in CellsOf(m) /\ m.upper[f] \in CellsOf(m) /\ m.lower[f] # m.upper[f]
  BY FieldFacts
<1>2. FacesAround(m, c) \in SUBSET FacesOf(m) /\ IsFiniteSet(FacesAround(m, c))
  <2>1. FacesAround(m, c) \in SUBSET FacesOf(m)
    BY DEF FacesAround, AboveFaces, OwnedFaces
  <2> QED BY <2>1, FieldFacts, FS_Subset
<1>3. \A f \in FacesAround(m, c) : Beyond(m, c)[f] \in CellsOf(m) /\ Beyond(m, c)[f] # c
  BY <1>1 DEF FacesAround, AboveFaces, OwnedFaces, Beyond
<1>4. \A f \in AboveFaces(m, c) : Beyond(m, c)[f] = m.lower[f]
  BY <1>1 DEF AboveFaces, Beyond
<1>5. \A f \in OwnedFaces(m, c) : Beyond(m, c)[f] = m.upper[f]
  BY DEF OwnedFaces, Beyond
<1>6. ASSUME NEW d, d # c
      PROVE  FacesJoining(m, c, d) = {f \in FacesAround(m, c) : Beyond(m, c)[f] = d}
  <2>1. \A f \in FacesOf(m) : {m.lower[f], m.upper[f]} = {c, d}
                               <=> \/ m.lower[f] = c /\ m.upper[f] = d
                                   \/ m.upper[f] = c /\ m.lower[f] = d
    OBVIOUS
  <2> QED BY <1>1, <1>6, <2>1 DEF FacesJoining, FacesAround, AboveFaces, OwnedFaces, Beyond
<1> QED BY <1>2, <1>3, <1>4, <1>5, <1>6

\* the coefficients around c times the values beyond
TimesBeyond(m, x, c) == [f \in FacesOf(m) |-> m.coeff[f] * x[Beyond(m, c)[f]]]

\* The sum around a cell is the sum of both sides.
LEMMA SumAround ==
  ASSUME NEW m, GoodMatrix(m), NEW x \in FieldOf(m), NEW c \in CellsOf(m)
  PROVE  /\ \A f \in FacesAround(m, c) : TimesBeyond(m, x, c)[f] \in Int
         /\ FromLowers(m, x, c) \in Int /\ FromUppers(m, x, c) \in Int
         /\ SumOf(TimesBeyond(m, x, c), FacesAround(m, c)) = FromLowers(m, x, c) + FromUppers(m, x, c)
<1> DEFINE A == AboveFaces(m, c)
           B == OwnedFaces(m, c)
           g == TimesBeyond(m, x, c)
<1>1. A \in SUBSET FacesOf(m) /\ B \in SUBSET FacesOf(m) /\ A \cap B = {} /\ IsFiniteSet(A) /\ IsFiniteSet(B)
  BY SidesOf
<1>2. \A f \in FacesOf(m) : /\ TimesLower(m, x)[f] = m.coeff[f] * x[m.lower[f]]
                            /\ TimesUpper(m, x)[f] = m.coeff[f] * x[m.upper[f]]
                            /\ TimesLower(m, x)[f] \in Int /\ TimesUpper(m, x)[f] \in Int
  BY RowSumInt
<1>3. \A f \in A : Beyond(m, c)[f] = m.lower[f]
  BY AroundIs
<1>4. \A f \in B : Beyond(m, c)[f] = m.upper[f]
  BY AroundIs
<1>5. \A f \in A : g[f] = TimesLower(m, x)[f]
  BY <1>1, <1>2, <1>3 DEF TimesBeyond
<1>6. \A f \in B : g[f] = TimesUpper(m, x)[f]
  BY <1>1, <1>2, <1>4 DEF TimesBeyond
<1> HIDE DEF A, B, g
<1>7. SumOf(g, A) = SumOf(TimesLower(m, x), A) /\ SumOf(g, B) = SumOf(TimesUpper(m, x), B)
  BY <1>1, <1>2, <1>5, <1>6, SumSame
<1>8. \A f \in A \cup B : g[f] \in Int
  BY <1>1, <1>2, <1>5, <1>6
<1>9. SumOf(g, A \cup B) = SumOf(g, A) + SumOf(g, B)
  BY <1>1, <1>8, SumUnion
<1>10. SumOf(TimesLower(m, x), A) \in Int /\ SumOf(TimesUpper(m, x), B) \in Int
  BY <1>1, RowSumInt
<1> QED BY <1>7, <1>8, <1>9, <1>10 DEF FromLowers, FromUppers, FacesAround, A, B, g

\* A row, applied to a field.
LEMMA AppliedRow ==
  ASSUME NEW M, NEW m, IsPacked(M, m), NEW x \in FieldOf(m), NEW r \in CellsOf(m), NEW c, c = M.newToOld[r]
  PROVE  Applied(Row(M, r), x) = (FromLowers(m, ToOriginal(M, x), c) + FromUppers(m, ToOriginal(M, x), c)) % P
<1> DEFINE F == FacesAround(m, c)
           xN == ToOriginal(M, x)
<1>1. GoodMatrix(m) /\ c \in CellsOf(m)
  BY DEF IsPacked
<1>2. F \in SUBSET FacesOf(m) /\ \A f \in F : Beyond(m, c)[f] \in CellsOf(m)
  BY <1>1, AroundIs
<1>3. Entries(Row(M, r), F, M.oldToNew, Beyond(m, c), m)
  BY RowEntries
<1>4. xN \in FieldOf(m) /\ \A d \in CellsOf(m) : xN[d] = x[M.oldToNew[d]] /\ xN[d] \in Int
  BY <1>1, PackedFields, FieldFacts
<1> HIDE DEF xN, F
<1>5. \A f \in F : /\ BeyondRows(M, m, c)[f] = M.oldToNew[Beyond(m, c)[f]]
                   /\ x[BeyondRows(M, m, c)[f]] = xN[Beyond(m, c)[f]]
                   /\ x[BeyondRows(M, m, c)[f]] \in Int
  BY <1>2, <1>4 DEF BeyondRows
<1>6. Shows(Row(M, r), EntryFaces(Row(M, r)), F, BeyondRows(M, m, c), m)
  BY <1>3, <1>5, EntriesShow
<1>7. Applied(Row(M, r), x) = SumOf(FaceTimes(m, x, BeyondRows(M, m, c)), F) % P
  BY <1>1, <1>2, <1>5, <1>6, AppliedIs
<1>8. \A f \in F : TimesBeyond(m, xN, c)[f] \in Int
                   /\ FaceTimes(m, x, BeyondRows(M, m, c))[f] = TimesBeyond(m, xN, c)[f]
  <2>1. \A f \in F : TimesBeyond(m, xN, c)[f] \in Int
    BY <1>1, <1>4, SumAround DEF F
  <2> QED BY <1>2, <1>5, <2>1 DEF FaceTimes, TimesBeyond
<1>9. SumOf(FaceTimes(m, x, BeyondRows(M, m, c)), F) = SumOf(TimesBeyond(m, xN, c), F)
  <2>1. IsFiniteSet(F)
    BY <1>1, AroundIs DEF F
  <2> QED BY <1>8, <2>1, SumSame
<1>10. SumOf(TimesBeyond(m, xN, c), F) = FromLowers(m, xN, c) + FromUppers(m, xN, c)
  BY <1>1, <1>4, SumAround DEF F
<1> QED BY <1>7, <1>9, <1>10 DEF xN

\* An entry of a packed matrix is the sum of the faces between two cells.
LEMMA EntryIs ==
  ASSUME NEW M, NEW m, IsPacked(M, m), NEW r \in CellsOf(m), NEW d \in CellsOf(m),
         NEW a, a = M.newToOld[r], NEW b, b = M.newToOld[d]
  PROVE  /\ r = d => EntryOf(M, r, d) = m.diag[a] % P
         /\ r # d => a # b /\ EntryOf(M, r, d) = SumOf(m.coeff, FacesJoining(m, a, b)) % P
<1>1. GoodMatrix(m) /\ a \in CellsOf(m) /\ b \in CellsOf(m) /\ M.diag[r] = m.diag[a]
      /\ M.oldToNew[a] = r /\ M.oldToNew[b] = d
      /\ \A e \in CellsOf(m) : M.newToOld[M.oldToNew[e]] = e
  BY DEF IsPacked
<1>2. r = d => EntryOf(M, r, d) = m.diag[a] % P
  BY <1>1 DEF EntryOf
<1>3. ASSUME r # d PROVE a # b /\ EntryOf(M, r, d) = SumOf(m.coeff, FacesJoining(m, a, b)) % P
  <2> DEFINE F == FacesAround(m, a)
  <2>1. a # b
    BY <1>1, <1>3
  <2>2. F \in SUBSET FacesOf(m) /\ (\A f \in F : Beyond(m, a)[f] \in CellsOf(m))
        /\ FacesJoining(m, a, b) = {f \in F : Beyond(m, a)[f] = b}
    <3>1. b # a => FacesJoining(m, a, b) = {f \in F : Beyond(m, a)[f] = b}
      BY <1>1, AroundIs
    <3>2. F \in SUBSET FacesOf(m) /\ \A f \in F : Beyond(m, a)[f] \in CellsOf(m)
      BY <1>1, AroundIs
    <3> HIDE DEF F
    <3> QED BY <2>1, <3>1, <3>2
  <2>3. Entries(Row(M, r), F, M.oldToNew, Beyond(m, a), m)
    BY RowEntries
  <2> HIDE DEF F
  <2>4. \A f \in F : BeyondRows(M, m, a)[f] = M.oldToNew[Beyond(m, a)[f]]
    BY <2>2 DEF BeyondRows
  <2>5. Shows(Row(M, r), EntryFaces(Row(M, r)), F, BeyondRows(M, m, a), m)
    BY <2>3, <2>4, EntriesShow
  <2>6. Weight(Row(M, r), d) = SumOf(m.coeff, Group(F, BeyondRows(M, m, a), d)) % P
    BY <1>1, <2>2, <2>5, WeightIs
  <2>7. Group(F, BeyondRows(M, m, a), d) = FacesJoining(m, a, b)
    BY <1>1, <2>2, <2>4 DEF Group
  <2>8. EntryOf(M, r, d) = Weight(Row(M, r), d)
    BY <1>3 DEF EntryOf, Weight
  <2> QED BY <2>1, <2>6, <2>7, <2>8
<1> QED BY <1>2, <1>3

\* the entries of a row times a field, and their sum
EntryTimesCell(M, x, r) == [d \in Index(M) |-> EntryOf(M, r, d) * x[d]]
SumEntryCells(M, x, r) == MapThenSumSet(LAMBDA d : EntryOf(M, r, d) * x[d], Index(M))

\* That sum, over the values of a function.
LEMMA SumEntryCellsIs ==
  ASSUME NEW M, NEW x, NEW r, IsFiniteSet(Index(M))
  PROVE  SumEntryCells(M, x, r) = SumOf(EntryTimesCell(M, x, r), Index(M))
<1> DEFINE S == Index(M)
           F(i) == [T \in SUBSET S |-> IF T = {} THEN 0
                                      ELSE EntryOf(M, r, First(T)) * x[First(T)] + i[T \ {First(T)}]]
           it == CHOOSE i : i = F(i)
<1>1. SumEntryCells(M, x, r) = it[S]
  BY DEF SumEntryCells, MapThenSumSet, MapThenFoldSet, First
<1>2. ASSUME NEW i PROVE [T \in SUBSET S |-> SumFrom(EntryTimesCell(M, x, r), i, T)] = F(i)
  <2>1. \A T \in SUBSET S : T # {} => First(T) \in S
    BY FirstOf
  <2>2. \A T \in SUBSET S : T # {} =>
          EntryTimesCell(M, x, r)[First(T)] = EntryOf(M, r, First(T)) * x[First(T)]
    BY <2>1 DEF EntryTimesCell
  <2> QED BY <2>2 DEF SumFrom
<1> HIDE DEF F
<1>3. \A i : AreSums(i, EntryTimesCell(M, x, r), S) <=> i = F(i)
  BY <1>2 DEF AreSums
<1>4. \E i : i = F(i)
  BY <1>3, SumsExist
<1>5. it = F(it)
  BY <1>4
<1>6. AreSums(it, EntryTimesCell(M, x, r), S)
  <2> HIDE DEF it
  <2> QED BY <1>3, <1>5
<1> HIDE DEF it
<1> QED BY <1>1, <1>6, SumChosen

\* A number times a sum.
LEMMA SumTimes ==
  ASSUME NEW S, IsFiniteSet(S), NEW g, NEW h, NEW v \in Int,
         \A f \in S : g[f] \in Int /\ h[f] = g[f] * v
  PROVE  SumOf(g, S) \in Int /\ SumOf(h, S) = SumOf(g, S) * v
<1> DEFINE good == {T \in SUBSET S : SumOf(h, T) = SumOf(g, T) * v}
<1>1. ASSUME NEW T \in SUBSET S PROVE IsFiniteSet(T) /\ SumOf(g, T) \in Int
  <2>1. IsFiniteSet(T)
    BY FS_Subset
  <2> QED BY <2>1, SumInt
<1>2. \A f \in S : h[f] \in Int
  BY SMT
<1>3. ASSUME NEW T \in SUBSET S, \A y \in T : T \ {y} \in good PROVE T \in good
  <2>1. CASE T = {}
    <3>1. SumOf(h, T) = 0 /\ SumOf(g, T) = 0 /\ 0 * v = 0
      BY <2>1, SumEmpty
    <3> QED BY <3>1
  <2>2. CASE T # {}
    <3>1. PICK y \in T : T \ {y} \in good
      BY <1>3, <2>2
    <3>2. SumOf(h, T) = h[y] + SumOf(h, T \ {y}) /\ SumOf(g, T) = g[y] + SumOf(g, T \ {y})
      BY <1>1, <1>2, SumRemove
    <3>3. PICK a \in Int, b \in Int : a = g[y] /\ b = SumOf(g, T \ {y})
      BY <1>1
    <3>4. SumOf(h, T) = a * v + b * v /\ SumOf(g, T) = a + b
      BY <3>1, <3>2, <3>3
    <3>5. (a + b) * v = a * v + b * v
      OBVIOUS
    <3> QED BY <3>4, <3>5
  <2> QED BY <2>1, <2>2
<1>4. S \in good
  <2>1. \A T \in SUBSET S : T \in good
    <3> HIDE DEF good
    <3> QED BY <1>3, RemovalInduction
  <2> QED BY <2>1
<1> QED BY <1>1, <1>4

\* The remainder of a factor may take its place.
LEMMA RemainderTimes ==
  ASSUME NEW q \in Int, NEW z \in Int
  PROVE  Same((q % P) * z, q * z) /\ (q % P) * z \in Int /\ q * z \in Int
<1>1. PICK w \in Int : w = q % P
  BY Remainder
<1>2. Same(w, q) /\ Same(z, z)
  BY <1>1, SameIs
<1>3. Same(w * z, q * z)
  BY <1>2, SameArithmetic
<1>4. w * z \in Int /\ q * z \in Int
  OBVIOUS
<1> QED BY <1>1, <1>3, <1>4

\* The reference product of the packed rows is the product of the matrix.
LEMMA ReferenceRow ==
  ASSUME NEW M, NEW m, IsPacked(M, m), NEW x \in FieldOf(m), NEW r \in CellsOf(m), NEW a, a = M.newToOld[r]
  PROVE  Reference(M, x)[r] = RowTimes(m, ToOriginal(M, x), a)
<1> DEFINE C == CellsOf(m)
           F == FacesAround(m, a)
           xN == ToOriginal(M, x)
           rows == BeyondRows(M, m, a)
           t == TimesBeyond(m, xN, a)
           p == m.diag[a] * xN[a]
           g == EntryTimesCell(M, x, r)
           u == [d \in C |-> IF d = r THEN p ELSE 0]
           v == [d \in C |-> SumOf(t, Group(F, rows, d))]
           h == [d \in C |-> u[d] + v[d]]
<1>1. /\ GoodMatrix(m) /\ a \in C /\ M.oldToNew[a] = r /\ Index(M) = C /\ IsFiniteSet(C)
      /\ \A d \in C : M.newToOld[d] \in C /\ M.oldToNew[M.newToOld[d]] = d
      /\ \A b \in C : M.oldToNew[b] \in C /\ M.newToOld[M.oldToNew[b]] = b
  BY FieldFacts DEF IsPacked, Index, CellsOf
<1>2. /\ xN \in FieldOf(m) /\ (\A d \in C : xN[d] = x[M.oldToNew[d]] /\ xN[d] \in Int)
      /\ \A d \in C : x[d] \in Int /\ xN[M.newToOld[d]] = x[d]
  BY <1>1, PackedFields, FieldFacts
<1>3. F \in SUBSET FacesOf(m) /\ IsFiniteSet(F)
      /\ \A f \in F : Beyond(m, a)[f] \in C /\ Beyond(m, a)[f] # a
  BY <1>1, AroundIs
<1> HIDE DEF xN
<1>4. \A f \in F : t[f] \in Int
  BY <1>1, <1>2, SumAround
<1>5. \A f \in F : /\ rows[f] = M.oldToNew[Beyond(m, a)[f]] /\ rows[f] \in C /\ rows[f] # r
                   /\ t[f] = m.coeff[f] * x[rows[f]] /\ m.coeff[f] \in Int
  <2> HIDE DEF F
  <2>1. \A f \in F : rows[f] = M.oldToNew[Beyond(m, a)[f]]
    BY <1>3 DEF BeyondRows
  <2>2. \A f \in F : rows[f] \in C /\ rows[f] # r
    BY <1>1, <1>3, <2>1
  <2>3. \A f \in F : t[f] = m.coeff[f] * x[rows[f]]
    BY <1>2, <1>3, <2>1 DEF TimesBeyond
  <2>4. \A f \in F : m.coeff[f] \in Int
    BY <1>1, <1>3, FieldFacts
  <2> QED BY <2>1, <2>2, <2>3, <2>4
<1>6. \A d \in C : Group(F, rows, d) \in SUBSET F /\ IsFiniteSet(Group(F, rows, d))
  <2> HIDE DEF F, rows
  <2>1. \A d : Group(F, rows, d) \in SUBSET F
    BY DEF Group
  <2> QED BY <1>3, <2>1, FS_Subset
<1>7. Group(F, rows, r) = {}
  <2> HIDE DEF F, rows
  <2> QED BY <1>5 DEF Group
<1>8. \A d \in C : v[d] \in Int
  <2>1. ASSUME NEW d \in C PROVE SumOf(t, Group(F, rows, d)) \in Int
    <3> HIDE DEF F, rows, t
    <3>1. \A f \in Group(F, rows, d) : t[f] \in Int
      BY <1>4, <1>6
    <3> QED BY <1>6, <3>1, SumInt
  <2> QED BY <2>1
<1>9. p \in Int
  <2>1. m.diag[a] \in Int /\ xN[a] \in Int
    BY <1>1, <1>2, FieldFacts
  <2> QED BY <2>1
<1>10. ASSUME NEW d \in C PROVE g[d] \in Int /\ h[d] \in Int /\ u[d] \in Int /\ Same(g[d], h[d])
  <2>0. g[d] = EntryOf(M, r, d) * x[d] /\ h[d] = u[d] + v[d]
    BY <1>1 DEF EntryTimesCell
  <2>1. CASE d = r
    <3>1. EntryOf(M, r, d) = m.diag[a] % P
      BY <2>1, EntryIs
    <3>2. v[d] = 0
      <4> HIDE DEF F, rows, t
      <4> QED BY <1>7, <2>1, SumEmpty
    <3>3. u[d] = p /\ x[d] = xN[a]
      BY <1>1, <1>2, <2>1
    <3>4. PICK q \in Int, z \in Int : q = m.diag[a] /\ z = x[d]
      BY <1>1, <1>2, FieldFacts
    <3>5. Same((q % P) * z, q * z) /\ (q % P) * z \in Int /\ q * z \in Int
      BY RemainderTimes
    <3>6. u[d] = q * z
      BY <3>3, <3>4
    <3>7. h[d] = q * z
      <4> HIDE DEF u, v, h
      <4> QED BY <2>0, <3>2, <3>6, <3>5
    <3>8. g[d] = (q % P) * z
      BY <2>0, <3>1, <3>4
    <3> HIDE DEF g, h, u
    <3> QED BY <3>5, <3>6, <3>7, <3>8
  <2>2. CASE d # r
    <3> DEFINE b == M.newToOld[d]
               G == Group(F, rows, d)
    <3>1. EntryOf(M, r, d) = SumOf(m.coeff, G) % P
      <4>1. a # b /\ EntryOf(M, r, d) = SumOf(m.coeff, FacesJoining(m, a, b)) % P
        BY <2>2, EntryIs
      <4>2. FacesJoining(m, a, b) = {f \in F : Beyond(m, a)[f] = b}
        BY <1>1, <4>1, AroundIs
      <4>3. \A f \in F : Beyond(m, a)[f] = b <=> rows[f] = d
        <5> HIDE DEF F, rows
        <5> QED BY <1>1, <1>3, <1>5
      <4>4. FacesJoining(m, a, b) = G
        <5> HIDE DEF F, rows
        <5> QED BY <4>2, <4>3 DEF Group
      <4> QED BY <4>1, <4>4
    <3>2. IsFiniteSet(G) /\ \A f \in G : m.coeff[f] \in Int /\ t[f] = m.coeff[f] * x[d]
      <4> HIDE DEF F, rows, t
      <4> QED BY <1>5, <1>6 DEF Group
    <3> HIDE DEF G, t
    <3>3. SumOf(m.coeff, G) \in Int /\ SumOf(t, G) = SumOf(m.coeff, G) * x[d]
      BY <1>2, <3>2, SumTimes
    <3>4. PICK q \in Int, z \in Int : q = SumOf(m.coeff, G) /\ z = x[d]
      BY <1>2, <3>3
    <3>5. Same((q % P) * z, q * z) /\ (q % P) * z \in Int /\ q * z \in Int
      BY RemainderTimes
    <3>6. v[d] = q * z /\ u[d] = 0
      BY <2>2, <3>3, <3>4 DEF G
    <3>7. h[d] = q * z
      <4> HIDE DEF u, v, h
      <4> QED BY <2>0, <3>5, <3>6
    <3>8. g[d] = (q % P) * z
      BY <2>0, <3>1, <3>4
    <3> HIDE DEF g, h, u
    <3> QED BY <3>5, <3>6, <3>7, <3>8
  <2> QED BY <2>1, <2>2
<1>11. SumOf(u, C) = p
  <2>1. \A d \in C \ {r} : u[d] = 0
    OBVIOUS
  <2>2. u[r] = p
    OBVIOUS
  <2>3. IsFiniteSet(C \ {r})
    BY <1>1, FS_RemoveElement
  <2> HIDE DEF u, p
  <2>4. SumOf(u, C) = u[r] + SumOf(u, C \ {r})
    BY <1>1, <1>10, SumRemove
  <2>5. SumOf(u, C \ {r}) = 0
    BY <2>1, <2>3, SumZeros
  <2> QED BY <1>9, <2>2, <2>4, <2>5
<1>12. SumOf(v, C) = SumOf(t, F)
  <2>1. Groups(F, rows, C) = F
    <3> HIDE DEF F, rows
    <3> QED BY <1>5 DEF Groups
  <2>2. \A d \in C : v[d] = SumOf(t, Group(F, rows, d))
    OBVIOUS
  <2> HIDE DEF v, F, C, t, rows
  <2>3. SumOf(t, Groups(F, rows, C)) = SumOf(v, C)
    BY <1>1, <1>3, <1>4, <2>2, SumGroups
  <2> QED BY <2>1, <2>3
<1>13. \A d \in C : h[d] = u[d] + v[d]
  OBVIOUS
<1>14. SumOf(t, F) = FromLowers(m, xN, a) + FromUppers(m, xN, a)
       /\ FromLowers(m, xN, a) \in Int /\ FromUppers(m, xN, a) \in Int
  BY <1>1, <1>2, SumAround
<1>15. Reference(M, x)[r] = SumOf(g, C) % P
  <2>1. Reference(M, x)[r] = SumEntryCells(M, x, r) % P
    BY <1>1 DEF Reference, Total, SumEntryCells
  <2>2. SumEntryCells(M, x, r) = SumOf(g, C)
    BY <1>1, SumEntryCellsIs
  <2> QED BY <2>1, <2>2
<1>16. RowTimes(m, xN, a) = (p + FromUppers(m, xN, a) + FromLowers(m, xN, a)) % P
  BY <1>1, <1>2, RowTimesIs DEF RowSum, FromUppers, FromLowers, OwnedFaces, AboveFaces
<1> HIDE DEF u, v, h, C, t, g, p, F, rows
<1>17. SumOf(h, C) = SumOf(u, C) + SumOf(v, C)
  BY <1>1, <1>8, <1>10, <1>13, SumPlus
<1>18. Same(SumOf(g, C), SumOf(h, C))
  BY <1>1, <1>10, SumsSame
<1>19. SumOf(h, C) = p + FromUppers(m, xN, a) + FromLowers(m, xN, a)
  BY <1>9, <1>11, <1>12, <1>14, <1>17
<1>20. SumOf(g, C) % P = SumOf(h, C) % P
  BY <1>18 DEF Same
<1> QED BY <1>15, <1>16, <1>19, <1>20, Zenon DEF xN

\* A field of the rows that has the products of the matrix is the reference.
LEMMA ReferenceIs ==
  ASSUME NEW M, NEW m, IsPacked(M, m), NEW x \in FieldOf(m), NEW y \in FieldOf(m),
         \A r \in CellsOf(m) : y[r] = RowTimes(m, ToOriginal(M, x), M.newToOld[r])
  PROVE  y = Reference(M, x)
<1>1. Index(M) = CellsOf(m) /\ FieldOf(m) = [CellsOf(m) -> Value]
  BY DEF IsPacked, Index, CellsOf, FieldOf
<1>2. \A r \in CellsOf(m) : y[r] = Reference(M, x)[r]
  BY ReferenceRow
<1>3. Reference(M, x) = [r \in CellsOf(m) |-> Reference(M, x)[r]]
  BY <1>1 DEF Reference
<1>4. y = [r \in CellsOf(m) |-> y[r]]
  BY <1>1
<1> QED BY <1>2, <1>3, <1>4

\* The row of the product, from its sides.
LEMMA RowTimesSides ==
  ASSUME NEW M, NEW m, IsPacked(M, m), NEW x \in FieldOf(m), NEW r \in CellsOf(m), NEW a, a = M.newToOld[r]
  PROVE  LET xN == ToOriginal(M, x)
         IN  /\ RowTimes(m, xN, a) = (M.diag[r] * x[r] + FromUppers(m, xN, a) + FromLowers(m, xN, a)) % P
             /\ RowTimes(m, xN, a) \in Value
             /\ M.diag[r] \in Int /\ x[r] \in Int /\ M.diag[r] * x[r] \in Int
<1> DEFINE xN == ToOriginal(M, x)
<1>1. GoodMatrix(m) /\ a \in CellsOf(m) /\ M.diag[r] = m.diag[a]
  BY DEF IsPacked
<1>2. xN \in FieldOf(m) /\ xN[a] = x[r]
  BY PackedFields
<1> HIDE DEF xN
<1>3. /\ RowTimes(m, xN, a) = (m.diag[a] * xN[a] + FromUppers(m, xN, a) + FromLowers(m, xN, a)) % P
      /\ RowTimes(m, xN, a) \in Value
  BY <1>1, <1>2, RowTimesIs DEF RowSum, FromUppers, FromLowers, OwnedFaces, AboveFaces
<1>4. m.diag[a] \in Int /\ xN[a] \in Int
  BY <1>1, <1>2, FieldFacts
<1>5. M.diag[r] * x[r] \in Int
  BY <1>1, <1>2, <1>4
<1> QED BY <1>1, <1>2, <1>3, <1>4, <1>5 DEF xN

\* multiply on the packed rows computes the product.
LEMMA PackedProductIs ==
  ASSUME NEW M, NEW m, IsPacked(M, m), NEW x \in FieldOf(m)
  PROVE  PackedProduct(M, x) = Reference(M, x) /\ PackedProduct(M, x) \in FieldOf(m)
<1>1. Index(M) = CellsOf(m) /\ FieldOf(m) = [CellsOf(m) -> Value]
  BY DEF IsPacked, Index, CellsOf, FieldOf
<1> DEFINE y == PackedProduct(M, x)
           xN == ToOriginal(M, x)
<1>2. y = [row \in CellsOf(m) |-> (M.diag[row] * x[row] + Applied(Row(M, row), x)) % P]
  BY <1>1, TableIs DEF PackedProduct
<1>3. ASSUME NEW r \in CellsOf(m)
      PROVE  y[r] = RowTimes(m, xN, M.newToOld[r]) /\ y[r] \in Value
  <2>1. PICK a : a = M.newToOld[r]
    OBVIOUS
  <2>2. PICK p \in Int : p = M.diag[r] * x[r]
    BY <2>1, RowTimesSides
  <2>3. PICK u \in Int, l \in Int : u = FromUppers(m, xN, a) /\ l = FromLowers(m, xN, a)
    BY <2>1, AppliedSides
  <2>4. Applied(Row(M, r), x) = (l + u) % P
    BY <2>1, <2>3, AppliedRow
  <2>5. RowTimes(m, xN, a) = (p + u + l) % P /\ RowTimes(m, xN, a) \in Value
    BY <2>1, <2>2, <2>3, RowTimesSides
  <2>6. y[r] = (p + ((l + u) % P)) % P
    BY <1>2, <2>2, <2>4
  <2>7. (p + ((l + u) % P)) % P = (p + (l + u)) % P
    BY RemainderArithmetic
  <2>8. p + (l + u) = p + u + l
    OBVIOUS
  <2> QED BY <2>1, <2>5, <2>6, <2>7, <2>8
<1>4. y \in FieldOf(m)
  BY <1>1, <1>2, <1>3
<1> QED BY <1>3, <1>4, ReferenceIs

\* Incoming and outgoing entries lie on their sides of the diagonal.
LEMMA RangesAre ==
  ASSUME NEW M, NEW m, IsPacked(M, m)
  PROVE  RangesContiguous(M)
<1>1. Index(M) = CellsOf(m)
  BY DEF IsPacked, Index, CellsOf
<1>2. ASSUME NEW r \in CellsOf(m)
      PROVE  /\ \A i \in DOMAIN M.incoming[r] : M.incoming[r][i].col < r
             /\ \A i \in DOMAIN M.outgoing[r] : M.outgoing[r][i].col > r
  <2> DEFINE a == M.newToOld[r]
  <2>1. M.oldToNew[a] = r /\ \A f \in FacesOf(m) : M.oldToNew[m.lower[f]] < M.oldToNew[m.upper[f]]
    BY DEF IsPacked
  <2>2. /\ \A f \in AboveFaces(m, a) : f \in FacesOf(m) /\ m.upper[f] = a
        /\ \A f \in OwnedFaces(m, a) : f \in FacesOf(m) /\ m.lower[f] = a
    BY DEF AboveFaces, OwnedFaces
  <2>3. /\ Entries(M.incoming[r], AboveFaces(m, a), M.oldToNew, m.lower, m)
        /\ Entries(M.outgoing[r], OwnedFaces(m, a), M.oldToNew, m.upper, m)
    BY DEF IsPacked
  <2> HIDE DEF a
  <2>4. \A i \in DOMAIN M.incoming[r] : /\ M.incoming[r][i].face \in AboveFaces(m, a)
                                        /\ M.incoming[r][i].col = M.oldToNew[m.lower[M.incoming[r][i].face]]
    BY <2>3 DEF Entries
  <2>5. \A i \in DOMAIN M.outgoing[r] : /\ M.outgoing[r][i].face \in OwnedFaces(m, a)
                                        /\ M.outgoing[r][i].col = M.oldToNew[m.upper[M.outgoing[r][i].face]]
    BY <2>3 DEF Entries
  <2>6. \A i \in DOMAIN M.incoming[r] : M.incoming[r][i].col < r
    BY <2>1, <2>2, <2>4
  <2>7. M.oldToNew \in [CellsOf(m) -> Int] /\ \A f \in FacesOf(m) : m.upper[f] \in CellsOf(m)
    <3>1. GoodMatrix(m) /\ M.oldToNew \in [CellsOf(m) -> CellsOf(m)]
      BY DEF IsPacked
    <3>2. CellsOf(m) \in SUBSET Int
      BY DEF CellsOf
    <3> QED BY <3>1, <3>2, FieldFacts
  <2>8. \A i \in DOMAIN M.outgoing[r] : M.outgoing[r][i].col \in Int
    BY <2>2, <2>5, <2>7
  <2>9. r \in Int
    BY DEF CellsOf
  <2>10. \A i \in DOMAIN M.outgoing[r] : r < M.outgoing[r][i].col
    BY <2>1, <2>2, <2>5
  <2> QED BY <2>6, <2>8, <2>9, <2>10
<1> QED BY <1>1, <1>2 DEF RangesContiguous

-----------------------------------------------------------------------------
(* Products over a view of the edges.                                      *)

\* edges has the edge of every face once, of face phi[i] at place i
ListsEdges(edges, phi, M, m) ==
  /\ Lists(phi, FacesOf(m)) /\ Len(edges) = Len(phi) /\ DOMAIN edges = 1 .. Len(edges)
  /\ \A i \in 1 .. Len(edges) : /\ edges[i].owner = M.oldToNew[m.lower[phi[i]]]
                                /\ edges[i].col = M.oldToNew[m.upper[phi[i]]]
                                /\ edges[i].coeff = m.coeff[phi[i]]

\* The rows of an edge.
LEMMA EdgeEnds ==
  ASSUME NEW M, NEW m, IsPacked(M, m), NEW edges, NEW phi, ListsEdges(edges, phi, M, m)
  PROVE  /\ Len(edges) \in Nat /\ DOMAIN edges = 1 .. Len(edges)
         /\ \A i \in 1 .. Len(edges) :
              /\ phi[i] \in FacesOf(m)
              /\ edges[i].owner \in CellsOf(m) /\ edges[i].col \in CellsOf(m)
              /\ edges[i].owner # edges[i].col /\ edges[i].coeff \in Int
              /\ \A x \in FieldOf(m) :
                   /\ edges[i].coeff * x[edges[i].col] = TimesUpper(m, ToOriginal(M, x))[phi[i]]
                   /\ edges[i].coeff * x[edges[i].owner] = TimesLower(m, ToOriginal(M, x))[phi[i]]
                   /\ TimesUpper(m, ToOriginal(M, x))[phi[i]] \in Int
                   /\ TimesLower(m, ToOriginal(M, x))[phi[i]] \in Int
              /\ \A r \in CellsOf(m) : /\ r = edges[i].owner <=> M.newToOld[r] = m.lower[phi[i]]
                                       /\ r = edges[i].col <=> M.newToOld[r] = m.upper[phi[i]]
<1>1. PICK n \in Nat : n = Len(edges)
  BY DEF ListsEdges, Lists
<1>2. DOMAIN edges = 1 .. n /\ \A i \in 1 .. n : phi[i] \in FacesOf(m)
  BY <1>1 DEF ListsEdges, Lists
<1>3. GoodMatrix(m) /\ (\A c \in CellsOf(m) : M.oldToNew[c] \in CellsOf(m) /\ M.newToOld[M.oldToNew[c]] = c
                                             /\ M.oldToNew[M.newToOld[c]] = c)
  BY DEF IsPacked
<1>4. \A f \in FacesOf(m) : /\ m.lower[f] \in CellsOf(m) /\ m.upper[f] \in CellsOf(m)
                            /\ m.lower[f] # m.upper[f] /\ m.coeff[f] \in Int
  BY <1>3, FieldFacts
<1>5. ASSUME NEW i \in 1 .. n
      PROVE  /\ phi[i] \in FacesOf(m)
             /\ edges[i].owner = M.oldToNew[m.lower[phi[i]]] /\ edges[i].col = M.oldToNew[m.upper[phi[i]]]
             /\ edges[i].coeff = m.coeff[phi[i]]
  BY <1>1, <1>2 DEF ListsEdges
<1>6. ASSUME NEW i \in 1 .. n
      PROVE  /\ edges[i].owner \in CellsOf(m) /\ edges[i].col \in CellsOf(m)
             /\ edges[i].owner # edges[i].col /\ edges[i].coeff \in Int
             /\ \A r \in CellsOf(m) : /\ r = edges[i].owner <=> M.newToOld[r] = m.lower[phi[i]]
                                      /\ r = edges[i].col <=> M.newToOld[r] = m.upper[phi[i]]
  BY <1>3, <1>4, <1>5
<1>7. ASSUME NEW i \in 1 .. n, NEW x \in FieldOf(m)
      PROVE  /\ edges[i].coeff * x[edges[i].col] = TimesUpper(m, ToOriginal(M, x))[phi[i]]
             /\ edges[i].coeff * x[edges[i].owner] = TimesLower(m, ToOriginal(M, x))[phi[i]]
             /\ TimesUpper(m, ToOriginal(M, x))[phi[i]] \in Int
             /\ TimesLower(m, ToOriginal(M, x))[phi[i]] \in Int
  <2> DEFINE xN == ToOriginal(M, x)
  <2>1. xN \in FieldOf(m) /\ \A c \in CellsOf(m) : xN[c] = x[M.oldToNew[c]]
    BY PackedFields
  <2> HIDE DEF xN
  <2>2. /\ xN[m.upper[phi[i]]] = x[edges[i].col] /\ xN[m.lower[phi[i]]] = x[edges[i].owner]
    BY <1>4, <1>5, <2>1
  <2>3. m.lower[phi[i]] \in CellsOf(m)
    BY <1>4, <1>5
  <2>4. /\ TimesUpper(m, xN)[phi[i]] = m.coeff[phi[i]] * xN[m.upper[phi[i]]]
        /\ TimesLower(m, xN)[phi[i]] = m.coeff[phi[i]] * xN[m.lower[phi[i]]]
        /\ TimesUpper(m, xN)[phi[i]] \in Int /\ TimesLower(m, xN)[phi[i]] \in Int
    BY <1>3, <1>5, <2>1, <2>3, RowSumInt
  <2> QED BY <1>5, <2>2, <2>4 DEF xN
<1> QED BY <1>1, <1>2, <1>5, <1>6, <1>7

\* what one edge adds to both its rows
EdgeStep(x, y, e) ==
  [y EXCEPT ![e.owner] = (@ + e.coeff * x[e.col]) % P, ![e.col] = (@ + e.coeff * x[e.owner]) % P]

\* Two places of a function may be changed in a row.
LEMMA TwoPlaces ==
  ASSUME NEW S, NEW V, NEW y \in [S -> V], NEW a \in S, NEW b \in S, a # b, NEW u \in V, NEW v \in V,
         NEW z, z = [[y EXCEPT ![a] = u] EXCEPT ![b] = v]
  PROVE  /\ z \in [S -> V] /\ z[a] = u /\ z[b] = v
         /\ \A c \in S : c # a /\ c # b => z[c] = y[c]
OBVIOUS

\* That is a field, row by row.
LEMMA EdgeStepIs ==
  ASSUME NEW m, GoodMatrix(m), NEW x \in FieldOf(m), NEW y \in FieldOf(m), NEW e,
         e.owner \in CellsOf(m), e.col \in CellsOf(m), e.owner # e.col, e.coeff \in Int
  PROVE  /\ EdgeStep(x, y, e) \in FieldOf(m)
         /\ EdgeStep(x, y, e)[e.owner] = (y[e.owner] + e.coeff * x[e.col]) % P
         /\ EdgeStep(x, y, e)[e.col] = (y[e.col] + e.coeff * x[e.owner]) % P
         /\ \A r \in CellsOf(m) : r # e.owner /\ r # e.col => EdgeStep(x, y, e)[r] = y[r]
<1>1. FieldOf(m) = [CellsOf(m) -> Value]
  BY FieldFacts DEF FieldOf
<1>2. PICK a \in CellsOf(m), b \in CellsOf(m), k \in Int : a = e.owner /\ b = e.col /\ k = e.coeff
  OBVIOUS
<1> DEFINE u == (y[a] + k * x[b]) % P
           v == (y[b] + k * x[a]) % P
<1>3. u \in Value /\ v \in Value
  <2>1. x[a] \in Int /\ x[b] \in Int /\ y[a] \in Int /\ y[b] \in Int
    BY FieldFacts
  <2>2. y[a] + k * x[b] \in Int /\ y[b] + k * x[a] \in Int
    BY <2>1
  <2> QED BY <2>2, Remainder
<1>4. EdgeStep(x, y, e) = [[y EXCEPT ![a] = u] EXCEPT ![b] = v]
  <2>1. [y EXCEPT ![a] = u][b] = y[b]
    BY <1>1, <1>2
  <2>2. EdgeStep(x, y, e) = [[y EXCEPT ![a] = u] EXCEPT ![b] = ([y EXCEPT ![a] = u][b] + k * x[a]) % P]
    BY <1>1, <1>2 DEF EdgeStep
  <2> QED BY <2>1, <2>2
<1> HIDE DEF u, v
<1>5. /\ EdgeStep(x, y, e) \in [CellsOf(m) -> Value]
      /\ EdgeStep(x, y, e)[a] = u /\ EdgeStep(x, y, e)[b] = v
      /\ \A c \in CellsOf(m) : c # a /\ c # b => EdgeStep(x, y, e)[c] = y[c]
  <2>1. PICK S : S = CellsOf(m)
    OBVIOUS
  <2>2. PICK z : z = EdgeStep(x, y, e)
    OBVIOUS
  <2>3. y \in [S -> Value] /\ a \in S /\ b \in S /\ a # b
    BY <1>1, <1>2, <2>1
  <2>4. z = [[y EXCEPT ![a] = u] EXCEPT ![b] = v]
    BY <1>4, <2>2
  <2>5. /\ z \in [S -> Value] /\ z[a] = u /\ z[b] = v
        /\ \A c \in S : c # a /\ c # b => z[c] = y[c]
    BY <1>3, <2>3, <2>4
  <2> QED BY <2>1, <2>2, <2>5
<1> QED BY <1>1, <1>2, <1>5 DEF u, v

\* The products of the diagonal.
LEMMA FwDiagonalIs ==
  ASSUME NEW M, NEW m, IsPacked(M, m), NEW x \in FieldOf(m)
  PROVE  /\ FwDiagonal(M, x) \in FieldOf(m)
         /\ \A r \in CellsOf(m) : FwDiagonal(M, x)[r] = (M.diag[r] * x[r]) % P
<1>1. Index(M) = CellsOf(m) /\ FieldOf(m) = [CellsOf(m) -> Value]
  BY DEF IsPacked, Index, CellsOf, FieldOf
<1>2. FwDiagonal(M, x) = [r \in CellsOf(m) |-> (M.diag[r] * x[r]) % P]
  BY <1>1, TableIs DEF FwDiagonal
<1>3. \A r \in CellsOf(m) : (M.diag[r] * x[r]) % P \in Value
  <2>1. \A r \in CellsOf(m) : M.diag[r] * x[r] \in Int
    BY RowTimesSides
  <2> QED BY <2>1, Remainder
<1> QED BY <1>1, <1>2, <1>3

\* the run through the edges
EdgeRun(M, m, edges, x, acc) ==
  /\ acc \in [0 .. Len(edges) -> FieldOf(m)]
  /\ acc[0] = FwDiagonal(M, x) /\ acc[Len(edges)] = EdgeProduct(M, edges, x)
  /\ \A k \in 1 .. Len(edges) : acc[k] = EdgeStep(x, acc[k - 1], edges[k])

\* The product of a view goes through its edges one by one.
LEMMA EdgesRun ==
  ASSUME NEW M, NEW m, IsPacked(M, m), NEW edges, NEW phi, ListsEdges(edges, phi, M, m), NEW x \in FieldOf(m)
  PROVE  \E acc : EdgeRun(M, m, edges, x, acc)
<1> DEFINE n == Len(edges)
           Y == FieldOf(m)
           base == FwDiagonal(M, x)
           Edge(y, e) ==
             Table([y EXCEPT ![e.owner] = (@ + e.coeff * x[e.col]) % P,
                             ![e.col] = (@ + e.coeff * x[e.owner]) % P])
           F(i) == [T \in SUBSET (1 .. n) |->
                      IF T = {} THEN base ELSE Edge(i[T \ {Max(T)}], edges[Max(T)])]
           it == CHOOSE i : i = F(i)
           h == [p \in (1 .. n) \X Y |-> EdgeStep(x, p[2], edges[p[1]])]
<1>0. n \in Nat /\ DOMAIN edges = 1 .. n
      /\ \A i \in 1 .. n : /\ edges[i].owner \in CellsOf(m) /\ edges[i].col \in CellsOf(m)
                           /\ edges[i].owner # edges[i].col /\ edges[i].coeff \in Int
  BY EdgeEnds
<1>1. EdgeProduct(M, edges, x) = it[1 .. n]
  <2>1. EdgeProduct(M, edges, x) =
          (CHOOSE i : i = [T \in SUBSET DOMAIN edges |->
             IF T = {} THEN base ELSE Edge(i[T \ {Max(T)}], edges[Max(T)])])[DOMAIN edges]
    BY DEF EdgeProduct, FoldLeft, MapThenFoldSet
  <2>2. DOMAIN edges = 1 .. n
    BY <1>0
  <2> HIDE DEF n, base, Edge
  <2> QED BY <2>1, <2>2
<1>1a. \A y, e : Edge(y, e) = EdgeStep(x, y, e)
  BY TableIs DEF EdgeStep
<1>1b. n \in Nat
  BY <1>0
<1> HIDE DEF Edge
<1>2. base \in Y
  BY FwDiagonalIs
<1>3. IsStep(n, Y, h)
  <2>1. GoodMatrix(m)
    BY DEF IsPacked
  <2>2. \A k \in 1 .. n : \A y \in Y : EdgeStep(x, y, edges[k]) \in Y
    BY <1>0, <2>1, EdgeStepIs
  <2> QED BY <2>2 DEF IsStep
<1>4. \A T \in SUBSET (1 .. n) : T # {} => Max(T) \in 1 .. n
  BY <1>0, LastPlace
<1>5. ASSUME NEW i PROVE Follows(n, Y, base, h, i, F(i))
  <2>1. ASSUME NEW T \in SUBSET (1 .. n), T # {}, i[T \ {Max(T)}] \in Y
        PROVE  F(i)[T] = FoldStep(h, base, i, T)
    <3>1. PICK k \in 1 .. n, y \in Y : k = Max(T) /\ y = i[T \ {Max(T)}]
      BY <1>4, <2>1
    <3>2. F(i)[T] = EdgeStep(x, y, edges[k])
      BY <1>1a, <2>1, <3>1
    <3>3. h[<<k, y>>] = EdgeStep(x, y, edges[k])
      OBVIOUS
    <3> HIDE DEF F, h
    <3> QED BY <2>1, <3>1, <3>2, <3>3 DEF FoldStep
  <2>2. F(i)[{}] = FoldStep(h, base, i, {}) /\ F(i) = [T \in SUBSET (1 .. n) |-> F(i)[T]]
    BY DEF FoldStep
  <2> HIDE DEF F, h
  <2> QED BY <2>1, <2>2 DEF Follows
<1>6. \A k \in 1 .. n : \A y \in Y : h[<<k, y>>] = EdgeStep(x, y, edges[k])
  OBVIOUS
<1> HIDE DEF h, base, Y, n, F
<1>7. \E i : i = F(i)
  BY <1>1b, <1>2, <1>3, <1>5, FoldsExist, FoldFollows
<1>8. it = F(it)
  BY <1>7
<1> HIDE DEF it
<1>9. TakesLast(n, Y, base, h, it)
  BY <1>1b, <1>2, <1>3, <1>5, <1>8, FoldFollows
<1>10. PICK acc : IsLoop(n, Y, base, h, acc) /\ acc[n] = it[1 .. n]
  BY <1>1b, <1>2, <1>3, <1>9, FoldRuns
<1>11. \A k \in 1 .. n : acc[k] = EdgeStep(x, acc[k - 1], edges[k])
  <2>1. \A k \in 1 .. n : acc[k - 1] \in Y /\ acc[k] = h[<<k, acc[k - 1]>>]
    BY <1>0, <1>10 DEF IsLoop
  <2> QED BY <1>6, <2>1
<1>12. acc \in [0 .. n -> Y] /\ acc[0] = base
  BY <1>10 DEF IsLoop
<1> QED BY <1>1, <1>10, <1>11, <1>12 DEF EdgeRun, n, Y, base

\* the faces of a cell, on either side, among the first k of a list, and the
\* row of the cell as far as these go
OwnedSeen(m, phi, c, k) == {f \in FacesOf(m) : m.lower[f] = c /\ \E i \in 1 .. k : phi[i] = f}
AboveSeen(m, phi, c, k) == {f \in FacesOf(m) : m.upper[f] = c /\ \E i \in 1 .. k : phi[i] = f}
RowSeen(m, x, phi, c, k) == RowSum(m, x, c, OwnedSeen(m, phi, c, k), AboveSeen(m, phi, c, k))

\* One more face of a list is one of its owner and one of its neighbour.
LEMMA SeenStep ==
  ASSUME NEW m, GoodMatrix(m), NEW phi, Lists(phi, FacesOf(m)), NEW c, NEW k \in 1 .. Len(phi)
  PROVE  LET f == phi[k]
         IN  /\ f \in FacesOf(m)
             /\ OwnedSeen(m, phi, c, k - 1) \in SUBSET FacesOf(m) /\ f \notin OwnedSeen(m, phi, c, k - 1)
             /\ AboveSeen(m, phi, c, k - 1) \in SUBSET FacesOf(m) /\ f \notin AboveSeen(m, phi, c, k - 1)
             /\ c = m.lower[f] => OwnedSeen(m, phi, c, k) = OwnedSeen(m, phi, c, k - 1) \cup {f}
             /\ c # m.lower[f] => OwnedSeen(m, phi, c, k) = OwnedSeen(m, phi, c, k - 1)
             /\ c = m.upper[f] => AboveSeen(m, phi, c, k) = AboveSeen(m, phi, c, k - 1) \cup {f}
             /\ c # m.upper[f] => AboveSeen(m, phi, c, k) = AboveSeen(m, phi, c, k - 1)
<1> DEFINE f == phi[k]
<1>0. PICK n \in Nat : n = Len(phi)
  BY DEF Lists
<1>1. f \in FacesOf(m) /\ k \in 1 .. n
  BY <1>0 DEF Lists
<1>2. \A i \in 1 .. (k - 1) : phi[i] # f
  <2>1. \A i, j \in 1 .. n : phi[i] = phi[j] => i = j
    BY <1>0 DEF Lists
  <2>2. \A i \in 1 .. (k - 1) : i \in 1 .. n /\ i # k
    BY <1>1
  <2> QED BY <1>1, <2>1, <2>2
<1>3. \A i : i \in 1 .. k <=> (i \in 1 .. (k - 1) \/ i = k)
  BY <1>1
<1>4. \A g : (\E i \in 1 .. k : phi[i] = g) <=> ((\E i \in 1 .. (k - 1) : phi[i] = g) \/ g = f)
  BY <1>3
<1> HIDE DEF f
<1>5. f \notin OwnedSeen(m, phi, c, k - 1) /\ f \notin AboveSeen(m, phi, c, k - 1)
  BY <1>2 DEF OwnedSeen, AboveSeen
<1>6. OwnedSeen(m, phi, c, k - 1) \in SUBSET FacesOf(m) /\ AboveSeen(m, phi, c, k - 1) \in SUBSET FacesOf(m)
  BY DEF OwnedSeen, AboveSeen
<1>7. \A g : g \in OwnedSeen(m, phi, c, k) <=> g \in OwnedSeen(m, phi, c, k - 1) \/ (g = f /\ m.lower[f] = c)
  BY <1>1, <1>4 DEF OwnedSeen
<1>8. \A g : g \in AboveSeen(m, phi, c, k) <=> g \in AboveSeen(m, phi, c, k - 1) \/ (g = f /\ m.upper[f] = c)
  BY <1>1, <1>4 DEF AboveSeen
<1>9. c = m.lower[f] => OwnedSeen(m, phi, c, k) = OwnedSeen(m, phi, c, k - 1) \cup {f}
  BY <1>7
<1>10. c # m.lower[f] => OwnedSeen(m, phi, c, k) = OwnedSeen(m, phi, c, k - 1)
  BY <1>7
<1>11. c = m.upper[f] => AboveSeen(m, phi, c, k) = AboveSeen(m, phi, c, k - 1) \cup {f}
  BY <1>8
<1>12. c # m.upper[f] => AboveSeen(m, phi, c, k) = AboveSeen(m, phi, c, k - 1)
  BY <1>8
<1> QED BY <1>1, <1>5, <1>6, <1>9, <1>10, <1>11, <1>12 DEF f

\* Before the first face a row has its diagonal, after the last one it is whole.
LEMMA SeenEnds ==
  ASSUME NEW m, GoodMatrix(m), NEW x \in FieldOf(m), NEW phi, Lists(phi, FacesOf(m)), NEW c \in CellsOf(m)
  PROVE  /\ RowSeen(m, x, phi, c, 0) = m.diag[c] * x[c] /\ m.diag[c] * x[c] \in Int
         /\ RowSeen(m, x, phi, c, Len(phi)) % P = RowTimes(m, x, c)
<1>1. OwnedSeen(m, phi, c, 0) = {} /\ AboveSeen(m, phi, c, 0) = {}
  BY DEF OwnedSeen, AboveSeen
<1>2. RowSeen(m, x, phi, c, 0) = m.diag[c] * x[c] + 0 + 0
  BY <1>1, SumEmpty DEF RowSeen, RowSum
<1>3. m.diag[c] * x[c] \in Int
  BY RowSumInt
<1>4. RowSeen(m, x, phi, c, 0) = m.diag[c] * x[c]
  BY <1>2, <1>3
<1>5. \A f \in FacesOf(m) : \E i \in 1 .. Len(phi) : phi[i] = f
  BY DEF Lists
<1>6. /\ OwnedSeen(m, phi, c, Len(phi)) = {f \in FacesOf(m) : m.lower[f] = c}
      /\ AboveSeen(m, phi, c, Len(phi)) = {f \in FacesOf(m) : m.upper[f] = c}
  BY <1>5 DEF OwnedSeen, AboveSeen
<1>7. RowSeen(m, x, phi, c, Len(phi)) =
        RowSum(m, x, c, {f \in FacesOf(m) : m.lower[f] = c}, {f \in FacesOf(m) : m.upper[f] = c})
  BY <1>6 DEF RowSeen
<1> QED BY <1>3, <1>4, <1>7, RowTimesIs

\* One more face adds its products to two rows.
LEMMA RowSeenStep ==
  ASSUME NEW m, GoodMatrix(m), NEW x \in FieldOf(m), NEW phi, Lists(phi, FacesOf(m)), NEW c \in CellsOf(m),
         NEW k \in 1 .. Len(phi), NEW f, f = phi[k]
  PROVE  /\ c = m.lower[f] => RowSeen(m, x, phi, c, k) % P
                              = ((RowSeen(m, x, phi, c, k - 1) % P) + TimesUpper(m, x)[f]) % P
         /\ c = m.upper[f] => RowSeen(m, x, phi, c, k) % P
                              = ((RowSeen(m, x, phi, c, k - 1) % P) + TimesLower(m, x)[f]) % P
         /\ c # m.lower[f] /\ c # m.upper[f] => RowSeen(m, x, phi, c, k) = RowSeen(m, x, phi, c, k - 1)
<1> DEFINE O(j) == OwnedSeen(m, phi, c, j)
           A(j) == AboveSeen(m, phi, c, j)
           g == TimesUpper(m, x)
           h == TimesLower(m, x)
<1>1. /\ f \in FacesOf(m) /\ m.lower[f] # m.upper[f]
      /\ O(k - 1) \in SUBSET FacesOf(m) /\ f \notin O(k - 1)
      /\ A(k - 1) \in SUBSET FacesOf(m) /\ f \notin A(k - 1)
  BY SeenStep, FieldFacts
<1>2. /\ c = m.lower[f] => O(k) = O(k - 1) \cup {f}
      /\ c # m.lower[f] => O(k) = O(k - 1)
      /\ c = m.upper[f] => A(k) = A(k - 1) \cup {f}
      /\ c # m.upper[f] => A(k) = A(k - 1)
  BY SeenStep
<1>3. RowSeen(m, x, phi, c, k) = m.diag[c] * x[c] + SumOf(g, O(k)) + SumOf(h, A(k))
      /\ RowSeen(m, x, phi, c, k - 1) = m.diag[c] * x[c] + SumOf(g, O(k - 1)) + SumOf(h, A(k - 1))
  BY DEF RowSeen, RowSum
<1>4. /\ \A e \in FacesOf(m) : g[e] \in Int /\ h[e] \in Int
      /\ IsFiniteSet(O(k - 1)) /\ IsFiniteSet(A(k - 1)) /\ m.diag[c] * x[c] \in Int
      /\ SumOf(g, O(k - 1)) \in Int /\ SumOf(h, A(k - 1)) \in Int
  BY <1>1, RowSumInt
<1> HIDE DEF O, A, g, h
<1>5. PICK a \in Int, u \in Int, v \in Int :
        a = m.diag[c] * x[c] /\ u = SumOf(g, O(k - 1)) /\ v = SumOf(h, A(k - 1))
  BY <1>4
<1>6. PICK s \in Int, t \in Int : s = g[f] /\ t = h[f]
  BY <1>1, <1>4
<1>7. RowSeen(m, x, phi, c, k - 1) = a + u + v
  BY <1>3, <1>5
<1>8. ASSUME c = m.lower[f]
      PROVE  RowSeen(m, x, phi, c, k) % P = ((RowSeen(m, x, phi, c, k - 1) % P) + g[f]) % P
  <2>1. SumOf(g, O(k)) = s + u
    <3>1. \A e \in O(k - 1) \cup {f} : g[e] \in Int
      BY <1>1, <1>4
    <3>2. SumOf(g, O(k - 1) \cup {f}) = g[f] + SumOf(g, O(k - 1))
      BY <1>1, <1>4, <3>1, SumAdd
    <3> QED BY <1>2, <1>5, <1>6, <1>8, <3>2
  <2>2. SumOf(h, A(k)) = v
    BY <1>1, <1>2, <1>5, <1>8
  <2>3. RowSeen(m, x, phi, c, k) = a + (s + u) + v
    BY <1>3, <1>5, <2>1, <2>2
  <2>4. Added(a, u, v, s) = (a + (s + u) + v) % P
    BY AddedProduct
  <2> QED BY <1>6, <1>7, <2>3, <2>4, Zenon DEF Added
<1>9. ASSUME c = m.upper[f]
      PROVE  RowSeen(m, x, phi, c, k) % P = ((RowSeen(m, x, phi, c, k - 1) % P) + h[f]) % P
  <2>1. SumOf(h, A(k)) = t + v
    <3>1. \A e \in A(k - 1) \cup {f} : h[e] \in Int
      BY <1>1, <1>4
    <3>2. SumOf(h, A(k - 1) \cup {f}) = h[f] + SumOf(h, A(k - 1))
      BY <1>1, <1>4, <3>1, SumAdd
    <3> QED BY <1>2, <1>5, <1>6, <1>9, <3>2
  <2>2. SumOf(g, O(k)) = u
    BY <1>1, <1>2, <1>5, <1>9
  <2>3. RowSeen(m, x, phi, c, k) = a + u + (t + v)
    BY <1>3, <1>5, <2>1, <2>2
  <2>4. Added(a, u, v, t) = (a + u + (t + v)) % P
    BY AddedProduct
  <2> QED BY <1>6, <1>7, <2>3, <2>4, Zenon DEF Added
<1>10. c # m.lower[f] /\ c # m.upper[f] => RowSeen(m, x, phi, c, k) = RowSeen(m, x, phi, c, k - 1)
  BY <1>2, <1>3
<1> QED BY <1>8, <1>9, <1>10 DEF g, h

\* A product over a view of the edges is the product of the matrix.
LEMMA EdgeProductIs ==
  ASSUME NEW M, NEW m, IsPacked(M, m), NEW edges, NEW phi, ListsEdges(edges, phi, M, m), NEW x \in FieldOf(m)
  PROVE  EdgeProduct(M, edges, x) = Reference(M, x) /\ EdgeProduct(M, edges, x) \in FieldOf(m)
<1> DEFINE xN == ToOriginal(M, x)
<1>0. PICK n \in Nat : n = Len(edges) /\ n = Len(phi)
  <2>1. Len(edges) \in Nat
    BY EdgeEnds
  <2>2. Len(edges) = Len(phi)
    BY DEF ListsEdges
  <2> QED BY <2>1, <2>2
<1>1. GoodMatrix(m) /\ xN \in FieldOf(m) /\ Lists(phi, FacesOf(m))
  BY PackedFields DEF IsPacked, ListsEdges
<1>2. \A r \in CellsOf(m) : /\ M.newToOld[r] \in CellsOf(m)
                            /\ M.diag[r] * x[r] = m.diag[M.newToOld[r]] * xN[M.newToOld[r]]
  <2>1. \A r \in CellsOf(m) : M.newToOld[r] \in CellsOf(m) /\ M.diag[r] = m.diag[M.newToOld[r]]
    BY DEF IsPacked
  <2>2. \A r \in CellsOf(m) : xN[M.newToOld[r]] = x[r]
    BY PackedFields
  <2> HIDE DEF xN
  <2> QED BY <2>1, <2>2
<1>3. PICK acc : EdgeRun(M, m, edges, x, acc)
  BY EdgesRun
<1>4. /\ \A k \in 0 .. n : acc[k] \in FieldOf(m)
      /\ acc[0] = FwDiagonal(M, x) /\ acc[n] = EdgeProduct(M, edges, x)
      /\ \A k \in 1 .. n : acc[k] = EdgeStep(x, acc[k - 1], edges[k])
  BY <1>0, <1>3 DEF EdgeRun
<1> HIDE DEF xN
<1> DEFINE Seen(r, k) == RowSeen(m, xN, phi, M.newToOld[r], k) % P
           good == {k \in Nat : k <= n => \A r \in CellsOf(m) : acc[k][r] = Seen(r, k)}
<1>5. 0 \in good
  <2>1. ASSUME NEW r \in CellsOf(m) PROVE acc[0][r] = Seen(r, 0)
    <3>1. acc[0][r] = (M.diag[r] * x[r]) % P
      BY <1>4, FwDiagonalIs
    <3>2. RowSeen(m, xN, phi, M.newToOld[r], 0) = M.diag[r] * x[r]
      BY <1>1, <1>2, SeenEnds
    <3> QED BY <3>1, <3>2
  <2> QED BY <2>1
<1>6. ASSUME NEW k \in 1 .. n, NEW r \in CellsOf(m), acc[k - 1][r] = Seen(r, k - 1)
      PROVE  acc[k][r] = Seen(r, k)
  <2> DEFINE e == edges[k]
             f == phi[k]
             c == M.newToOld[r]
  <2>1. k \in 1 .. Len(edges) /\ k \in 1 .. Len(phi) /\ k - 1 \in 0 .. n
    BY <1>0
  <2>2. /\ e.owner \in CellsOf(m) /\ e.col \in CellsOf(m) /\ e.owner # e.col /\ e.coeff \in Int
        /\ e.coeff * x[e.col] = TimesUpper(m, xN)[f] /\ e.coeff * x[e.owner] = TimesLower(m, xN)[f]
        /\ (r = e.owner <=> c = m.lower[f]) /\ (r = e.col <=> c = m.upper[f])
    BY <2>1, EdgeEnds DEF xN
  <2>3. PICK y \in FieldOf(m) : y = acc[k - 1]
    BY <1>4, <2>1
  <2>4. acc[k] = EdgeStep(x, y, e)
    BY <1>4, <2>3
  <2> HIDE DEF e
  <2>5. /\ EdgeStep(x, y, e)[e.owner] = (y[e.owner] + e.coeff * x[e.col]) % P
        /\ EdgeStep(x, y, e)[e.col] = (y[e.col] + e.coeff * x[e.owner]) % P
        /\ \A d \in CellsOf(m) : d # e.owner /\ d # e.col => EdgeStep(x, y, e)[d] = y[d]
    BY <1>1, <2>2, EdgeStepIs
  <2>6. c \in CellsOf(m)
    BY <1>2
  <2>7. /\ c = m.lower[f] => RowSeen(m, xN, phi, c, k) % P
                              = ((RowSeen(m, xN, phi, c, k - 1) % P) + TimesUpper(m, xN)[f]) % P
        /\ c = m.upper[f] => RowSeen(m, xN, phi, c, k) % P
                              = ((RowSeen(m, xN, phi, c, k - 1) % P) + TimesLower(m, xN)[f]) % P
        /\ c # m.lower[f] /\ c # m.upper[f] => RowSeen(m, xN, phi, c, k) = RowSeen(m, xN, phi, c, k - 1)
    BY <1>1, <2>1, <2>6, RowSeenStep
  <2>8. y[r] = RowSeen(m, xN, phi, c, k - 1) % P
    BY <1>6, <2>3
  <2> HIDE DEF f, c
  <2>9. CASE r = e.owner
    <3>1. acc[k][r] = (y[r] + TimesUpper(m, xN)[f]) % P
      BY <2>2, <2>4, <2>5, <2>9
    <3>2. RowSeen(m, xN, phi, c, k) % P = ((RowSeen(m, xN, phi, c, k - 1) % P) + TimesUpper(m, xN)[f]) % P
      BY <2>2, <2>7, <2>9
    <3> QED BY <2>8, <3>1, <3>2, Zenon DEF c
  <2>10. CASE r = e.col
    <3>1. acc[k][r] = (y[r] + TimesLower(m, xN)[f]) % P
      BY <2>2, <2>4, <2>5, <2>10
    <3>2. RowSeen(m, xN, phi, c, k) % P = ((RowSeen(m, xN, phi, c, k - 1) % P) + TimesLower(m, xN)[f]) % P
      BY <2>2, <2>7, <2>10
    <3> QED BY <2>8, <3>1, <3>2, Zenon DEF c
  <2>11. CASE r # e.owner /\ r # e.col
    <3>1. acc[k][r] = y[r]
      BY <2>4, <2>5, <2>11
    <3>2. RowSeen(m, xN, phi, c, k) = RowSeen(m, xN, phi, c, k - 1)
      BY <2>2, <2>7, <2>11
    <3> QED BY <2>8, <3>1, <3>2, Zenon DEF c
  <2> QED BY <2>9, <2>10, <2>11
<1>7. ASSUME NEW k \in Nat, k \in good PROVE k + 1 \in good
  <2>1. CASE k + 1 <= n
    <3>1. PICK j : j = k + 1
      OBVIOUS
    <3>2. j \in 1 .. n /\ j - 1 = k /\ k <= n
      BY <2>1, <3>1
    <3>3. \A r \in CellsOf(m) : acc[j][r] = Seen(r, j)
      <4> HIDE DEF Seen
      <4> QED BY <1>6, <1>7, <3>2
    <3> QED BY <3>1, <3>3
  <2> QED BY <2>1
<1>8. n \in good
  <2> HIDE DEF good
  <2> QED BY <1>5, <1>7, NumberInduction
<1>9. ASSUME NEW r \in CellsOf(m) PROVE EdgeProduct(M, edges, x)[r] = RowTimes(m, xN, M.newToOld[r])
  <2>1. acc[n][r] = RowSeen(m, xN, phi, M.newToOld[r], n) % P
    BY <1>8
  <2>2. RowSeen(m, xN, phi, M.newToOld[r], Len(phi)) % P = RowTimes(m, xN, M.newToOld[r])
    BY <1>1, <1>2, SeenEnds
  <2> QED BY <1>0, <1>4, <2>1, <2>2
<1>10. EdgeProduct(M, edges, x) \in FieldOf(m)
  BY <1>4
<1> QED BY <1>9, <1>10, ReferenceIs DEF xN

\* The view in native face order has every edge once.
LEMMA NativeEdges ==
  ASSUME NEW M, NEW m, IsPacked(M, m)
  PROVE  ListsEdges(M.lduOrderEdges, [f \in FacesOf(m) |-> f], M, m)
<1>1. PICK n \in Nat : n = Len(m.lower) /\ FacesOf(m) = 1 .. n
  BY FieldFacts DEF IsPacked
<1>2. PICK edges : edges = M.lduOrderEdges
  OBVIOUS
<1>3. Len(edges) = n /\ Listed(edges) /\ \A f \in FacesOf(m) : edges[f] = EdgeOf(M, m, f)
  BY <1>1, <1>2 DEF IsPacked
<1>4. DOMAIN edges = 1 .. n
  BY <1>3 DEF Listed
<1> DEFINE phi == [f \in 1 .. n |-> f]
<1>5. Len(phi) = n /\ DOMAIN phi = 1 .. n /\ \A i \in 1 .. n : phi[i] = i
  OBVIOUS
<1> HIDE DEF phi
<1>6. Lists(phi, FacesOf(m))
  BY <1>1, <1>5 DEF Lists
<1>7. \A i \in 1 .. n : /\ edges[i].owner = M.oldToNew[m.lower[phi[i]]]
                        /\ edges[i].col = M.oldToNew[m.upper[phi[i]]]
                        /\ edges[i].coeff = m.coeff[phi[i]]
  <2>1. \A i \in 1 .. n : edges[i] = EdgeOf(M, m, i) /\ phi[i] = i
    BY <1>1, <1>3, <1>5
  <2>2. \A f : /\ EdgeOf(M, m, f).owner = M.oldToNew[m.lower[f]]
               /\ EdgeOf(M, m, f).col = M.oldToNew[m.upper[f]]
               /\ EdgeOf(M, m, f).coeff = m.coeff[f]
    BY DEF EdgeOf
  <2> QED BY <2>1, <2>2
<1>8. ListsEdges(edges, phi, M, m)
  BY <1>3, <1>4, <1>5, <1>6, <1>7 DEF ListsEdges
<1> QED BY <1>1, <1>2, <1>8 DEF phi

-----------------------------------------------------------------------------
(* Sequences joined one after the other.                                   *)

\* starts[k] elements are in the first k of n sequences
StartsOf(starts, seqs, n) ==
  /\ starts \in [0 .. n -> Nat] /\ starts[0] = 0
  /\ \A k \in 1 .. n : starts[k] = starts[k - 1] + Len(seqs[k])

\* e has the elements of the first k sequences, in their order
IsFlat(e, seqs, starts, k) ==
  /\ Listed(e) /\ Len(e) = starts[k] /\ DOMAIN e = 1 .. starts[k]
  /\ \A j \in 1 .. k : \A i \in 1 .. Len(seqs[j]) :
       starts[j - 1] + i \in 1 .. starts[k] /\ e[starts[j - 1] + i] = seqs[j][i]
  /\ \A p \in 1 .. starts[k] :
       \E j \in 1 .. k : \E i \in 1 .. Len(seqs[j]) : p = starts[j - 1] + i

\* the sequences are joined one by one
FlatRun(acc, seqs, E, n) ==
  /\ acc \in [0 .. n -> Seq(E)] /\ acc[0] = <<>> /\ acc[n] = FlattenSeq(seqs)
  /\ \A k \in 1 .. n : acc[k] = acc[k - 1] \o seqs[k]

\* FlattenSeq does that.
LEMMA FlattenRuns ==
  ASSUME NEW n \in Nat, n >= 1, NEW E, NEW seqs, Len(seqs) = n, \A k \in 1 .. n : seqs[k] \in Seq(E)
  PROVE  \E acc : FlatRun(acc, seqs, E, n)
<1> DEFINE Y == Seq(E)
           h == [p \in (1 .. n) \X Y |-> p[2] \o seqs[p[1]]]
           F(g) == [k \in 1 .. n |-> IF k = 1 THEN seqs[k] ELSE g[k - 1] \o seqs[k]]
           flatten == CHOOSE g : g = F(g)
<1>1. FlattenSeq(seqs) = flatten[n]
  <2>1. Len(seqs) # 0
    OBVIOUS
  <2>2. FlattenSeq(seqs) = (CHOOSE g : g = [k \in 1 .. Len(seqs) |->
                              IF k = 1 THEN seqs[k] ELSE g[k - 1] \o seqs[k]])[Len(seqs)]
    BY <2>1 DEF FlattenSeq
  <2> QED BY <2>2
<1>2. <<>> \in Y /\ IsStep(n, Y, h)
  <2>1. \A k \in 1 .. n : \A s \in Y : s \o seqs[k] \in Y
    OBVIOUS
  <2> QED BY <2>1 DEF IsStep
<1>3. PICK acc : IsLoop(n, Y, <<>>, h, acc)
  <2> HIDE DEF Y, h
  <2> QED BY <1>2, LoopExists
<1>4. acc \in [0 .. n -> Y] /\ acc[0] = <<>> /\ \A k \in 1 .. n : acc[k] = acc[k - 1] \o seqs[k]
  <2>1. \A k \in 1 .. n : \A s \in Y : h[<<k, s>>] = s \o seqs[k]
    OBVIOUS
  <2> HIDE DEF h, Y
  <2>2. acc \in [0 .. n -> Y] /\ acc[0] = <<>> /\ \A k \in 1 .. n : acc[k] = h[<<k, acc[k - 1]>>]
    BY <1>3 DEF IsLoop
  <2>3. \A k \in 1 .. n : acc[k - 1] \in Y
    BY <2>2
  <2> QED BY <2>1, <2>2, <2>3
<1> DEFINE sums == [k \in 1 .. n |-> acc[k]]
<1>5. sums = F(sums)
  <2>1. ASSUME NEW k \in 1 .. n PROVE sums[k] = F(sums)[k]
    <3>1. CASE k = 1
      <4>1. acc[1] = acc[0] \o seqs[1] /\ seqs[1] \in Seq(E)
        <5>1. 1 \in 1 .. n /\ 1 - 1 = 0
          OBVIOUS
        <5>2. acc[1] = acc[1 - 1] \o seqs[1]
          BY <1>4, <5>1
        <5> QED BY <5>1, <5>2
      <4>2. acc[1] = seqs[1]
        BY <1>4, <4>1
      <4> QED BY <3>1, <4>2
    <3>2. CASE k # 1
      <4>1. k - 1 \in 1 .. n
        BY <3>2
      <4> QED BY <1>4, <3>2, <4>1
    <3> QED BY <3>1, <3>2
  <2> QED BY <2>1
<1>6. flatten = F(flatten)
  <2> HIDE DEF F
  <2> QED BY <1>5
<1> HIDE DEF flatten
<1>7. \A k \in 1 .. n : flatten[k] = IF k = 1 THEN seqs[k] ELSE flatten[k - 1] \o seqs[k]
  BY <1>6
<1>8. \A k \in 1 .. n : sums[k] = IF k = 1 THEN seqs[k] ELSE sums[k - 1] \o seqs[k]
  BY <1>5
<1> HIDE DEF F, sums
<1> DEFINE good == {k \in Nat : k + 1 <= n => flatten[k + 1] = sums[k + 1]}
<1>9. 0 \in good
  BY <1>7, <1>8
<1>10. ASSUME NEW k \in Nat, k \in good PROVE k + 1 \in good
  <2>1. ASSUME (k + 1) + 1 <= n PROVE flatten[(k + 1) + 1] = sums[(k + 1) + 1]
    <3>1. PICK j : j = (k + 1) + 1
      OBVIOUS
    <3>2. j \in 1 .. n /\ j # 1 /\ j - 1 = k + 1 /\ k + 1 <= n
      BY <2>1, <3>1
    <3>3. flatten[j] = flatten[j - 1] \o seqs[j] /\ sums[j] = sums[j - 1] \o seqs[j]
      BY <1>7, <1>8, <3>2
    <3> QED BY <1>10, <3>1, <3>2, <3>3
  <2> QED BY <2>1
<1>11. n - 1 \in good
  <2>1. n - 1 \in Nat
    OBVIOUS
  <2> HIDE DEF good
  <2> QED BY <1>9, <1>10, <2>1, NumberInduction
<1>12. flatten[n] = sums[n]
  <2>1. (n - 1) + 1 = n /\ (n - 1) + 1 <= n
    OBVIOUS
  <2> QED BY <1>11, <2>1
<1>13. sums[n] = acc[n]
  BY DEF sums
<1> QED BY <1>1, <1>4, <1>12, <1>13 DEF FlatRun, Y

\* What the joined sequence has at each place.
LEMMA FlattenIs ==
  ASSUME NEW n \in Nat, n >= 1, NEW seqs, Len(seqs) = n, NEW E, \A k \in 1 .. n : seqs[k] \in Seq(E),
         NEW starts, StartsOf(starts, seqs, n)
  PROVE  IsFlat(FlattenSeq(seqs), seqs, starts, n)
<1>0. PICK acc : FlatRun(acc, seqs, E, n)
  BY FlattenRuns
<1>1. /\ acc \in [0 .. n -> Seq(E)] /\ acc[0] = <<>> /\ acc[n] = FlattenSeq(seqs)
      /\ \A k \in 1 .. n : acc[k] = acc[k - 1] \o seqs[k]
  BY <1>0 DEF FlatRun
<1>2. starts \in [0 .. n -> Nat] /\ starts[0] = 0
      /\ \A k \in 1 .. n : starts[k] = starts[k - 1] + Len(seqs[k])
  BY DEF StartsOf
<1> DEFINE good == {k \in Nat : k <= n => IsFlat(acc[k], seqs, starts, k)}
<1>3. 0 \in good
  <2>0. <<>> \in Seq(E) /\ Len(<<>>) = 0
    OBVIOUS
  <2>1. Listed(acc[0]) /\ Len(acc[0]) = 0 /\ DOMAIN acc[0] = 1 .. 0
    <3>1. PICK e \in Seq(E) : e = acc[0] /\ Len(e) = 0
      BY <1>1, <2>0
    <3> QED BY <3>1 DEF Listed
  <2>2. \A j \in 1 .. 0 : FALSE
    OBVIOUS
  <2> QED BY <1>2, <2>1, <2>2 DEF IsFlat
<1>4. ASSUME NEW k \in 1 .. n, IsFlat(acc[k - 1], seqs, starts, k - 1) PROVE IsFlat(acc[k], seqs, starts, k)
  <2>1. PICK e, s, t : e = acc[k] /\ s = acc[k - 1] /\ t = seqs[k]
    OBVIOUS
  <2>2. PICK a \in Nat, b \in Nat : a = starts[k - 1] /\ b = Len(seqs[k])
    <3>1. Len(seqs[k]) \in Nat /\ starts[k - 1] \in Nat
      BY <1>2
    <3> QED BY <3>1
  <2>3. starts[k] = a + b /\ Len(s) = a /\ Len(t) = b /\ Listed(s) /\ Listed(t) /\ e = s \o t
    <3>1. starts[k] = a + b
      BY <1>2, <2>2
    <3>2. Listed(s) /\ Len(s) = a
      BY <1>4, <2>1, <2>2 DEF IsFlat
    <3>3. Listed(t) /\ Len(t) = b
      BY <2>1, <2>2 DEF Listed
    <3> QED BY <1>1, <2>1, <3>1, <3>2, <3>3
  <2>4. IsJoined(e, s, t, a, b)
    BY <2>3, JoinedIs
  <2>5. /\ Listed(e) /\ Len(e) = a + b /\ DOMAIN e = 1 .. (a + b)
        /\ \A i \in 1 .. a : e[i] = s[i]
        /\ \A i \in 1 .. b : e[a + i] = t[i]
        /\ \A i \in 1 .. (a + b) : i \in 1 .. a \/ (i - a \in 1 .. b /\ i = a + (i - a))
    BY <2>4 DEF IsJoined
  <2>6. /\ \A j \in 1 .. (k - 1) : \A i \in 1 .. Len(seqs[j]) :
             starts[j - 1] + i \in 1 .. a /\ s[starts[j - 1] + i] = seqs[j][i]
        /\ \A p \in 1 .. a : \E j \in 1 .. (k - 1) : \E i \in 1 .. Len(seqs[j]) : p = starts[j - 1] + i
    BY <1>4, <2>1, <2>2 DEF IsFlat
  <2>7. \A j \in 1 .. k : j \in 1 .. (k - 1) \/ j = k
    OBVIOUS
  <2>8. ASSUME NEW j \in 1 .. k, NEW i \in 1 .. Len(seqs[j])
        PROVE  starts[j - 1] + i \in 1 .. (a + b) /\ e[starts[j - 1] + i] = seqs[j][i]
    <3>1. CASE j \in 1 .. (k - 1)
      <4>1. PICK p \in 1 .. a : p = starts[j - 1] + i /\ s[p] = seqs[j][i]
        BY <2>6, <3>1
      <4>2. p \in 1 .. (a + b) /\ e[p] = s[p]
        BY <2>5
      <4> QED BY <4>1, <4>2
    <3>2. CASE j = k
      <4>1. i \in 1 .. b /\ starts[j - 1] = a
        BY <2>2, <3>2
      <4>2. a + i \in 1 .. (a + b) /\ e[a + i] = t[i]
        BY <2>5, <4>1
      <4> QED BY <2>1, <3>2, <4>1, <4>2
    <3> QED BY <2>7, <3>1, <3>2
  <2>9. ASSUME NEW p \in 1 .. (a + b)
        PROVE  \E j \in 1 .. k : \E i \in 1 .. Len(seqs[j]) : p = starts[j - 1] + i
    <3>1. CASE p \in 1 .. a
      <4>1. PICK j \in 1 .. (k - 1) : \E i \in 1 .. Len(seqs[j]) : p = starts[j - 1] + i
        BY <2>6, <3>1
      <4>2. j \in 1 .. k
        OBVIOUS
      <4> QED BY <4>1, <4>2
    <3>2. CASE p - a \in 1 .. b /\ p = a + (p - a)
      <4>1. k \in 1 .. k
        OBVIOUS
      <4> QED BY <2>2, <3>2, <4>1
    <3> QED BY <2>5, <3>1, <3>2
  <2>10. Listed(e) /\ Len(e) = starts[k] /\ DOMAIN e = 1 .. starts[k]
    BY <2>3, <2>5
  <2>11. IsFlat(e, seqs, starts, k)
    <3>1. \A j \in 1 .. k : \A i \in 1 .. Len(seqs[j]) :
            starts[j - 1] + i \in 1 .. starts[k] /\ e[starts[j - 1] + i] = seqs[j][i]
      BY <2>3, <2>8
    <3>2. \A p \in 1 .. starts[k] : \E j \in 1 .. k : \E i \in 1 .. Len(seqs[j]) : p = starts[j - 1] + i
      <4>1. 1 .. starts[k] = 1 .. (a + b)
        BY <2>3
      <4> QED BY <2>9, <4>1, Zenon
    <3> QED BY <2>10, <3>1, <3>2 DEF IsFlat
  <2> QED BY <2>1, <2>11
<1>5. ASSUME NEW k \in Nat, k \in good PROVE k + 1 \in good
  <2>1. CASE k + 1 <= n
    <3>1. PICK j : j = k + 1
      OBVIOUS
    <3>2. j \in 1 .. n /\ j - 1 = k /\ k <= n
      BY <2>1, <3>1
    <3>3. IsFlat(acc[j], seqs, starts, j)
      BY <1>4, <1>5, <3>2
    <3> QED BY <3>1, <3>3
  <2> QED BY <2>1
<1>6. n \in good
  <2> HIDE DEF good
  <2> QED BY <1>3, <1>5, NumberInduction
<1> QED BY <1>1, <1>6

-----------------------------------------------------------------------------
(* The flat and the direct view.                                           *)

\* the faces of the entries above the diagonal, from the first to the last
EdgeFaces(M, row) ==
  LET upper == Ascending({p \in DOMAIN Row(M, row) : Row(M, row)[p].col > row})
  IN  [i \in DOMAIN upper |-> Row(M, row)[upper[i]].face]

\* A row of the direct view shows the faces its cell owns.
LEMMA DirectRowIs ==
  ASSUME NEW M, NEW m, IsPacked(M, m), NEW r \in CellsOf(m), NEW c, c = M.newToOld[r]
  PROVE  LET es == DirectEdgesOfRow(M, r)
         IN  /\ Shows(es, EdgeFaces(M, r), OwnedFaces(m, c), UpperRows(M, m), m)
             /\ \A i \in 1 .. Len(es) : es[i].owner = r
             /\ Len(es) = Len(M.outgoing[r]) /\ Len(es) \in Nat
<1> DEFINE e == Row(M, r)
           D == {p \in DOMAIN e : e[p].col > r}
           up == Ascending(D)
           F == OwnedFaces(m, c)
           phi == EdgeFaces(M, r)
           es == DirectEdgesOfRow(M, r)
<1>1. Entries(e, FacesAround(m, c), M.oldToNew, Beyond(m, c), m)
  BY RowEntries
<1>2. PICK n \in Nat : n = Len(e)
  BY <1>1 DEF Entries
<1>3. /\ GoodMatrix(m) /\ c \in CellsOf(m) /\ M.oldToNew[c] = r /\ r \in Int
      /\ \A f \in FacesOf(m) : M.oldToNew[m.lower[f]] < M.oldToNew[m.upper[f]]
      /\ \A d \in CellsOf(m) : M.oldToNew[d] \in Int
  <2>1. /\ GoodMatrix(m) /\ c \in CellsOf(m) /\ M.oldToNew[c] = r
        /\ \A f \in FacesOf(m) : M.oldToNew[m.lower[f]] < M.oldToNew[m.upper[f]]
        /\ \A d \in CellsOf(m) : M.oldToNew[d] \in CellsOf(m)
    BY DEF IsPacked
  <2>2. \A d \in CellsOf(m) : d \in Int
    BY DEF CellsOf
  <2> QED BY <2>1, <2>2
<1>4. /\ F \in SUBSET FacesOf(m) /\ AboveFaces(m, c) \in SUBSET FacesOf(m)
      /\ F \in SUBSET FacesAround(m, c)
      /\ \A f \in FacesAround(m, c) : f \in F \/ f \in AboveFaces(m, c)
      /\ \A f \in AboveFaces(m, c) : f \in FacesOf(m) /\ m.upper[f] = c /\ Beyond(m, c)[f] = m.lower[f]
      /\ \A f \in F : f \in FacesOf(m) /\ m.lower[f] = c /\ Beyond(m, c)[f] = m.upper[f]
  <2>1. /\ \A f \in AboveFaces(m, c) : Beyond(m, c)[f] = m.lower[f]
        /\ \A f \in F : Beyond(m, c)[f] = m.upper[f]
    BY <1>3, AroundIs
  <2> QED BY <2>1 DEF AboveFaces, OwnedFaces, FacesAround
<1>5. /\ DOMAIN e = 1 .. n
      /\ \A p \in 1 .. n : /\ e[p].face \in FacesAround(m, c)
                           /\ e[p].col = M.oldToNew[Beyond(m, c)[e[p].face]]
                           /\ e[p].coeff = m.coeff[e[p].face]
      /\ (\A p, q \in 1 .. n : e[p].face = e[q].face => p = q)
      /\ \A f \in FacesAround(m, c) : \E p \in 1 .. n : e[p].face = f
  BY <1>1, <1>2 DEF Entries
<1>6. \A f \in FacesOf(m) : m.lower[f] \in CellsOf(m) /\ m.upper[f] \in CellsOf(m)
  BY <1>3, FieldFacts
<1> HIDE DEF e, F
<1>7. \A p \in 1 .. n : p \in D <=> e[p].face \in F
  <2> SUFFICES ASSUME NEW p \in 1 .. n PROVE e[p].col > r <=> e[p].face \in F
    BY <1>5
  <2>1. PICK f \in FacesAround(m, c) : f = e[p].face
    BY <1>5
  <2>2. CASE f \in F
    <3>1. e[p].col = M.oldToNew[m.upper[f]] /\ m.lower[f] = c /\ m.upper[f] \in CellsOf(m)
      BY <1>4, <1>5, <1>6, <2>1, <2>2
    <3>2. PICK a \in Int : a = M.oldToNew[m.upper[f]]
      BY <1>3, <3>1
    <3>3. r < a
      BY <1>3, <1>4, <2>2, <3>1, <3>2
    <3>4. e[p].col > r
      BY <1>3, <3>1, <3>2, <3>3
    <3> QED BY <2>1, <2>2, <3>4
  <2>3. CASE f \notin F
    <3>1. f \in AboveFaces(m, c)
      BY <1>4, <2>3
    <3>2. e[p].col = M.oldToNew[m.lower[f]] /\ m.upper[f] = c /\ m.lower[f] \in CellsOf(m)
      BY <1>4, <1>5, <1>6, <2>1, <3>1
    <3>3. PICK a \in Int : a = M.oldToNew[m.lower[f]]
      BY <1>3, <3>2
    <3>4. a < r
      BY <1>3, <1>4, <3>1, <3>2, <3>3
    <3>5. ~(e[p].col > r)
      BY <1>3, <3>2, <3>3, <3>4
    <3> QED BY <2>1, <2>3, <3>5
  <2> QED BY <2>2, <2>3
<1>8. D \in SUBSET (1 .. n) /\ IsFiniteSet(D) /\ D \in SUBSET Nat
  <2>1. D \in SUBSET (1 .. n)
    BY <1>5
  <2>2. IsFiniteSet(1 .. n)
    BY FS_Interval
  <2> QED BY <2>1, <2>2, FS_Subset
<1> HIDE DEF D
<1>9. Lists(up, D)
  BY <1>8, AscendingIs
<1>10. PICK k \in Nat : k = Len(up)
  BY <1>9 DEF Lists
<1>11. DOMAIN up = 1 .. k /\ (\A i \in 1 .. k : up[i] \in D /\ up[i] \in 1 .. n)
       /\ (\A i, j \in 1 .. k : up[i] = up[j] => i = j)
       /\ \A p \in D : \E i \in 1 .. k : up[i] = p
  BY <1>8, <1>9, <1>10 DEF Lists
<1>12. phi = [i \in DOMAIN up |-> e[up[i]].face]
       /\ es = [i \in DOMAIN up |-> [owner |-> r, col |-> e[up[i]].col, coeff |-> e[up[i]].coeff]]
  BY DEF EdgeFaces, DirectEdgesOfRow, e, D
<1> HIDE DEF phi, es, up
<1>13. /\ phi = [i \in 1 .. k |-> e[up[i]].face]
       /\ es = [i \in 1 .. k |-> [owner |-> r, col |-> e[up[i]].col, coeff |-> e[up[i]].coeff]]
  BY <1>11, <1>12
<1>14. Len(phi) = k /\ DOMAIN phi = 1 .. k /\ Len(es) = k /\ DOMAIN es = 1 .. k
  BY <1>13
<1>15. \A i \in 1 .. k : /\ phi[i] = e[up[i]].face /\ phi[i] \in F
                         /\ es[i].owner = r /\ es[i].col = e[up[i]].col /\ es[i].coeff = e[up[i]].coeff
  BY <1>7, <1>11, <1>13
<1>16. Lists(phi, F)
  <2>1. ASSUME NEW i \in 1 .. k, NEW j \in 1 .. k, phi[i] = phi[j] PROVE i = j
    <3>1. PICK p \in 1 .. n, q \in 1 .. n : p = up[i] /\ q = up[j]
      BY <1>11
    <3>2. e[p].face = e[q].face
      BY <1>15, <2>1, <3>1
    <3>3. p = q
      BY <1>5, <3>2
    <3> QED BY <1>11, <3>1, <3>3
  <2>2. ASSUME NEW f \in F PROVE \E i \in 1 .. k : phi[i] = f
    <3>1. PICK p \in 1 .. n : e[p].face = f
      BY <1>4, <1>5
    <3>2. PICK i \in 1 .. k : up[i] = p
      BY <1>7, <1>11, <3>1
    <3> QED BY <1>15, <3>1, <3>2
  <2> QED BY <1>14, <1>15, <2>1, <2>2 DEF Lists
<1>17. \A i \in 1 .. k : es[i].col = UpperRows(M, m)[phi[i]] /\ es[i].coeff = m.coeff[phi[i]]
  <2> SUFFICES ASSUME NEW i \in 1 .. k
               PROVE  es[i].col = UpperRows(M, m)[phi[i]] /\ es[i].coeff = m.coeff[phi[i]]
    OBVIOUS
  <2>1. PICK p \in 1 .. n : p = up[i]
    BY <1>11
  <2>2. PICK f \in F : f = phi[i] /\ f = e[p].face
    BY <1>15, <2>1
  <2>3. e[p].col = M.oldToNew[m.upper[f]] /\ e[p].coeff = m.coeff[f] /\ f \in FacesOf(m)
    BY <1>4, <1>5, <2>2
  <2>4. UpperRows(M, m)[f] = M.oldToNew[m.upper[f]]
    BY <2>3 DEF UpperRows
  <2> QED BY <1>15, <2>1, <2>2, <2>3, <2>4
<1>18. Shows(es, phi, F, UpperRows(M, m), m)
  BY <1>14, <1>16, <1>17 DEF Shows
<1>19. Len(M.outgoing[r]) = k
  <2>1. Shows(M.outgoing[r], EntryFaces(M.outgoing[r]), F, UpperRows(M, m), m)
    BY SidesShown DEF F
  <2>2. Cardinality(F) = Len(M.outgoing[r])
    BY <2>1, ListedFinite DEF Shows
  <2>3. Cardinality(F) = k
    BY <1>14, <1>16, ListedFinite
  <2> QED BY <2>2, <2>3
<1> QED BY <1>14, <1>15, <1>18, <1>19 DEF es, phi, F

\* how many faces the cells of the first rows own
FaceStarts(M, m, starts) ==
  /\ starts \in [0 .. m.n -> Nat] /\ starts[0] = 0
  /\ \A k \in 1 .. m.n : starts[k] = starts[k - 1] + Len(DirectEdgesOfRow(M, k - 1))

\* DirectEdgeRowStarts counts them.
LEMMA StartsAre ==
  ASSUME NEW M, NEW m, IsPacked(M, m)
  PROVE  FaceStarts(M, m, DirectEdgeRowStarts(M))
<1> DEFINE F(s) == [row \in 0 .. M.n |-> IF row = 0 THEN 0
                                         ELSE s[row - 1] + Len(DirectEdgesOfRow(M, row - 1))]
           starts == CHOOSE s : s = F(s)
           h == [p \in (1 .. m.n) \X Nat |-> p[2] + Len(DirectEdgesOfRow(M, p[1] - 1))]
<1>0. PICK n \in Nat : n = m.n /\ n = M.n
  BY FieldFacts DEF IsPacked
<1>1. \A k \in 1 .. n : Len(DirectEdgesOfRow(M, k - 1)) \in Nat
  <2>1. \A k \in 1 .. n : k - 1 \in CellsOf(m)
    BY <1>0 DEF CellsOf
  <2> QED BY <2>1, DirectRowIs
<1>2. 0 \in Nat /\ IsStep(n, Nat, h)
  BY <1>0, <1>1 DEF IsStep
<1>3. PICK acc : IsLoop(n, Nat, 0, h, acc)
  <2> HIDE DEF h
  <2> QED BY <1>2, LoopExists
<1>4. acc \in [0 .. n -> Nat] /\ acc[0] = 0
      /\ \A k \in 1 .. n : acc[k] = acc[k - 1] + Len(DirectEdgesOfRow(M, k - 1))
  <2>1. \A k \in 1 .. n : \A y \in Nat : h[<<k, y>>] = y + Len(DirectEdgesOfRow(M, k - 1))
    BY <1>0
  <2> HIDE DEF h
  <2>2. acc \in [0 .. n -> Nat] /\ acc[0] = 0 /\ \A k \in 1 .. n : acc[k] = h[<<k, acc[k - 1]>>]
    BY <1>3 DEF IsLoop
  <2>3. \A k \in 1 .. n : acc[k - 1] \in Nat
    BY <2>2
  <2> QED BY <2>1, <2>2, <2>3
<1>5. acc = F(acc)
  <2>1. \A k \in 0 .. n : k = 0 \/ k \in 1 .. n
    OBVIOUS
  <2>2. acc = [k \in 0 .. n |-> acc[k]]
    BY <1>4
  <2> QED BY <1>0, <1>4, <2>1, <2>2
<1>6. starts = F(starts)
  <2> HIDE DEF F
  <2> QED BY <1>5
<1>7. DirectEdgeRowStarts(M) = starts
  BY DEF DirectEdgeRowStarts
<1> HIDE DEF starts
<1>8. \A s : s = F(s) => s = acc
  <2> SUFFICES ASSUME NEW s, s = F(s) PROVE s = acc
    OBVIOUS
  <2> DEFINE good == {k \in Nat : k <= n => s[k] = acc[k]}
  <2>1. s = [k \in 0 .. n |-> s[k]] /\ s[0] = 0
        /\ \A k \in 1 .. n : s[k] = s[k - 1] + Len(DirectEdgesOfRow(M, k - 1))
    <3>1. \A k \in 0 .. n : s[k] = IF k = 0 THEN 0 ELSE s[k - 1] + Len(DirectEdgesOfRow(M, k - 1))
      BY <1>0
    <3>2. DOMAIN s = 0 .. n
      BY <1>0
    <3>3. s = [k \in DOMAIN s |-> s[k]]
      BY <1>0
    <3> HIDE DEF F
    <3>4. \A k \in 1 .. n : k \in 0 .. n /\ k # 0
      OBVIOUS
    <3> QED BY <3>1, <3>2, <3>3, <3>4
  <2>2. 0 \in good
    BY <1>4, <2>1
  <2>3. ASSUME NEW k \in Nat, k \in good PROVE k + 1 \in good
    <3>1. CASE k + 1 <= n
      <4>1. PICK j : j = k + 1
        OBVIOUS
      <4>2. j \in 1 .. n /\ j - 1 = k /\ k <= n
        BY <3>1, <4>1
      <4>3. s[j] = s[k] + Len(DirectEdgesOfRow(M, j - 1)) /\ acc[j] = acc[k] + Len(DirectEdgesOfRow(M, j - 1))
        BY <1>4, <2>1, <4>2
      <4> QED BY <2>3, <4>1, <4>2, <4>3
    <3> QED BY <3>1
  <2>4. \A k \in Nat : k \in good
    <3> HIDE DEF good
    <3> QED BY <2>2, <2>3, NumberInduction
  <2>5. \A k \in 0 .. n : s[k] = acc[k]
    <3>1. \A k \in 0 .. n : k \in Nat /\ k <= n
      OBVIOUS
    <3>2. \A k \in good : k <= n => s[k] = acc[k]
      OBVIOUS
    <3> HIDE DEF good, F
    <3> QED BY <2>4, <3>1, <3>2
  <2>6. acc = [k \in 0 .. n |-> acc[k]]
    BY <1>4
  <2> QED BY <2>1, <2>5, <2>6
<1>9. starts = acc
  <2> HIDE DEF F
  <2> QED BY <1>6, <1>8
<1> QED BY <1>0, <1>4, <1>7, <1>9 DEF FaceStarts

\* Sequences have a set of all their elements.
LEMMA PoolOfElements ==
  ASSUME NEW n \in Nat, NEW seqs, \A k \in 1 .. n : Listed(seqs[k])
  PROVE  \E E : \A k \in 1 .. n : seqs[k] \in Seq(E)
<1> DEFINE E == UNION {{seqs[k][i] : i \in 1 .. Len(seqs[k])} : k \in 1 .. n}
<1>1. ASSUME NEW k \in 1 .. n PROVE seqs[k] \in Seq(E)
  <2>1. PICK S : seqs[k] \in Seq(S)
    BY DEF Listed
  <2>2. PICK t \in Seq(S) : t = seqs[k]
    BY <2>1
  <2>3. \A i \in 1 .. Len(t) : t[i] \in E
    BY <2>2
  <2> HIDE DEF E
  <2>4. t \in Seq(E)
    BY <2>3
  <2> QED BY <2>2, <2>4
<1> HIDE DEF E
<1> QED BY <1>1

\* the rows of the direct view, and their faces
EdgeRows(M) == [i \in 1 .. M.n |-> DirectEdgesOfRow(M, i - 1)]
FaceRows(M) == [i \in 1 .. M.n |-> EdgeFaces(M, i - 1)]
DirectFaces(M) == FlattenSeq(FaceRows(M))

\* A row of the direct view is a sequence of edges, and so are its faces.
LEMMA DirectRowListed ==
  ASSUME NEW M, NEW m, IsPacked(M, m), NEW r \in CellsOf(m)
  PROVE  /\ Listed(DirectEdgesOfRow(M, r)) /\ Listed(EdgeFaces(M, r))
         /\ Len(EdgeFaces(M, r)) = Len(DirectEdgesOfRow(M, r)) /\ Len(DirectEdgesOfRow(M, r)) \in Nat
<1> DEFINE up == Ascending({p \in DOMAIN Row(M, r) : Row(M, r)[p].col > r})
<1>1. PICK c : c = M.newToOld[r]
  OBVIOUS
<1>2a. PICK es, phi : es = DirectEdgesOfRow(M, r) /\ phi = EdgeFaces(M, r)
  OBVIOUS
<1>2b. PICK k \in Nat : k = Len(es)
  BY <1>1, <1>2a, DirectRowIs
<1>2. es = DirectEdgesOfRow(M, r) /\ phi = EdgeFaces(M, r) /\ k = Len(es)
  BY <1>2a, <1>2b
<1>3. Shows(es, phi, OwnedFaces(m, c), UpperRows(M, m), m)
  BY <1>1, <1>2, DirectRowIs
<1>4. Len(phi) = k /\ DOMAIN es = 1 .. k /\ DOMAIN phi = 1 .. k
  BY <1>2, <1>3 DEF Shows, Lists
<1>5. es = [i \in DOMAIN up |-> es[i]] /\ phi = [i \in DOMAIN up |-> phi[i]]
  BY <1>2 DEF DirectEdgesOfRow, EdgeFaces
<1> HIDE DEF up
<1>6. es = [i \in 1 .. k |-> es[i]] /\ phi = [i \in 1 .. k |-> phi[i]]
  BY <1>4, <1>5
<1>7. PICK S : S = {es[i] : i \in 1 .. k}
  OBVIOUS
<1>8. PICK T : T = {phi[i] : i \in 1 .. k}
  OBVIOUS
<1>9. es \in Seq(S)
  BY <1>6, <1>7
<1>10. phi \in Seq(T)
  BY <1>6, <1>8
<1> QED BY <1>2, <1>4, <1>9, <1>10 DEF Listed

\* where the edges of the rows are
DirectPlaces(M, m, starts) ==
  /\ Len(DirectEdges(M)) = starts[m.n] /\ Listed(DirectEdges(M))
  /\ \A r \in CellsOf(m) : \A i \in 1 .. Len(DirectEdgesOfRow(M, r)) :
       /\ starts[r] + i \in 1 .. starts[m.n]
       /\ DirectEdges(M)[starts[r] + i] = DirectEdgesOfRow(M, r)[i]
       /\ DirectFaces(M)[starts[r] + i] = EdgeFaces(M, r)[i]
  /\ \A p \in 1 .. starts[m.n] :
       \E r \in CellsOf(m) : \E i \in 1 .. Len(DirectEdgesOfRow(M, r)) : p = starts[r] + i

\* The rows follow each other in the direct view.
LEMMA DirectPlacesAre ==
  ASSUME NEW M, NEW m, IsPacked(M, m), NEW starts, FaceStarts(M, m, starts)
  PROVE  /\ DirectPlaces(M, m, starts)
         /\ Len(DirectFaces(M)) = starts[m.n] /\ DOMAIN DirectFaces(M) = 1 .. starts[m.n]
<1>0. PICK n \in Nat : n = m.n /\ n = M.n /\ n >= 1
  BY MatrixFacts DEF IsPacked
<1>1. \A k \in 1 .. n : k - 1 \in CellsOf(m)
  BY <1>0 DEF CellsOf
<1>2. \A r \in CellsOf(m) : r + 1 \in 1 .. n /\ (r + 1) - 1 = r
  BY <1>0 DEF CellsOf
<1>3. PICK E, Q : E = EdgeRows(M) /\ Q = FaceRows(M)
  OBVIOUS
<1>4. Len(E) = n /\ Len(Q) = n
      /\ \A k \in 1 .. n : E[k] = DirectEdgesOfRow(M, k - 1) /\ Q[k] = EdgeFaces(M, k - 1)
  BY <1>0, <1>3 DEF EdgeRows, FaceRows
<1>5. \A k \in 1 .. n : Listed(E[k]) /\ Listed(Q[k]) /\ Len(Q[k]) = Len(E[k])
  BY <1>1, <1>4, DirectRowListed
<1>6. StartsOf(starts, E, n) /\ StartsOf(starts, Q, n)
  <2>1. starts \in [0 .. n -> Nat] /\ starts[0] = 0
        /\ \A k \in 1 .. n : starts[k] = starts[k - 1] + Len(DirectEdgesOfRow(M, k - 1))
    BY <1>0 DEF FaceStarts
  <2>2. \A k \in 1 .. n : Len(E[k]) = Len(DirectEdgesOfRow(M, k - 1)) /\ Len(Q[k]) = Len(E[k])
    BY <1>4, <1>5
  <2> QED BY <2>1, <2>2 DEF StartsOf
<1>7. IsFlat(FlattenSeq(E), E, starts, n) /\ IsFlat(FlattenSeq(Q), Q, starts, n)
  <2>1. PICK S : \A k \in 1 .. n : E[k] \in Seq(S)
    BY <1>5, PoolOfElements
  <2>2. PICK T : \A k \in 1 .. n : Q[k] \in Seq(T)
    BY <1>5, PoolOfElements
  <2>3. IsFlat(FlattenSeq(E), E, starts, n)
    BY <1>0, <1>4, <1>6, <2>1, FlattenIs
  <2>4. IsFlat(FlattenSeq(Q), Q, starts, n)
    BY <1>0, <1>4, <1>6, <2>2, FlattenIs
  <2> QED BY <2>3, <2>4
<1>8. DirectEdges(M) = FlattenSeq(E) /\ DirectFaces(M) = FlattenSeq(Q)
  BY <1>3 DEF DirectEdges, DirectFaces, EdgeRows
<1>9. PICK d, g : d = DirectEdges(M) /\ g = DirectFaces(M)
  OBVIOUS
<1>10. IsFlat(d, E, starts, n) /\ IsFlat(g, Q, starts, n)
  BY <1>7, <1>8, <1>9
<1>11. ASSUME NEW r \in CellsOf(m), NEW i \in 1 .. Len(DirectEdgesOfRow(M, r))
       PROVE  /\ starts[r] + i \in 1 .. starts[n]
              /\ d[starts[r] + i] = DirectEdgesOfRow(M, r)[i]
              /\ g[starts[r] + i] = EdgeFaces(M, r)[i]
  <2>1. PICK j \in 1 .. n : j = r + 1 /\ j - 1 = r
    BY <1>2
  <2>2. E[j] = DirectEdgesOfRow(M, r) /\ Q[j] = EdgeFaces(M, r) /\ Len(Q[j]) = Len(E[j])
    BY <1>4, <1>5, <2>1
  <2>3. starts[j - 1] + i \in 1 .. starts[n] /\ d[starts[j - 1] + i] = E[j][i]
    BY <1>10, <2>2 DEF IsFlat
  <2>4. g[starts[j - 1] + i] = Q[j][i]
    BY <1>10, <2>2 DEF IsFlat
  <2> QED BY <2>1, <2>2, <2>3, <2>4
<1>12. ASSUME NEW p \in 1 .. starts[n]
       PROVE  \E r \in CellsOf(m) : \E i \in 1 .. Len(DirectEdgesOfRow(M, r)) : p = starts[r] + i
  <2>1. PICK j \in 1 .. n : \E i \in 1 .. Len(E[j]) : p = starts[j - 1] + i
    BY <1>10 DEF IsFlat
  <2>2. PICK r \in CellsOf(m) : r = j - 1
    BY <1>1
  <2>3. E[j] = DirectEdgesOfRow(M, r)
    BY <1>4, <2>2
  <2> QED BY <2>1, <2>2, <2>3
<1>13. Listed(d) /\ Len(d) = starts[n] /\ Len(g) = starts[n] /\ DOMAIN g = 1 .. starts[n]
  BY <1>10 DEF IsFlat
<1>14. DirectPlaces(M, m, starts)
  BY <1>0, <1>9, <1>11, <1>12, <1>13, Zenon DEF DirectPlaces
<1> QED BY <1>0, <1>9, <1>13, <1>14

\* The direct view has every edge once.
LEMMA DirectEdgesListed ==
  ASSUME NEW M, NEW m, IsPacked(M, m)
  PROVE  ListsEdges(DirectEdges(M), DirectFaces(M), M, m)
<1>1. PICK starts : FaceStarts(M, m, starts)
  BY StartsAre
<1>2. DirectPlaces(M, m, starts)
      /\ Len(DirectFaces(M)) = starts[m.n] /\ DOMAIN DirectFaces(M) = 1 .. starts[m.n]
  BY <1>1, DirectPlacesAre
<1>3. PICK d, g, n : d = DirectEdges(M) /\ g = DirectFaces(M) /\ n = starts[m.n]
  OBVIOUS
<1>4. n \in Nat
  <2>1. m.n \in Nat
    BY FieldFacts DEF IsPacked
  <2> QED BY <1>1, <1>3, <2>1 DEF FaceStarts
<1>5. /\ Len(d) = n /\ Listed(d) /\ Len(g) = n /\ DOMAIN g = 1 .. n
      /\ \A r \in CellsOf(m) : \A i \in 1 .. Len(DirectEdgesOfRow(M, r)) :
           /\ starts[r] + i \in 1 .. n
           /\ d[starts[r] + i] = DirectEdgesOfRow(M, r)[i]
           /\ g[starts[r] + i] = EdgeFaces(M, r)[i]
      /\ \A p \in 1 .. n : \E r \in CellsOf(m) : \E i \in 1 .. Len(DirectEdgesOfRow(M, r)) : p = starts[r] + i
  BY <1>2, <1>3, Zenon DEF DirectPlaces
<1>6. DOMAIN d = 1 .. n
  BY <1>5 DEF Listed
<1>7. ASSUME NEW r \in CellsOf(m)
      PROVE  LET es == DirectEdgesOfRow(M, r)
                 phi == EdgeFaces(M, r)
             IN  /\ Lists(phi, OwnedFaces(m, M.newToOld[r])) /\ Len(es) = Len(phi)
                 /\ \A i \in 1 .. Len(es) :
                      /\ phi[i] \in FacesOf(m) /\ m.lower[phi[i]] = M.newToOld[r]
                      /\ es[i].owner = r
                      /\ es[i].col = M.oldToNew[m.upper[phi[i]]] /\ es[i].coeff = m.coeff[phi[i]]
                 /\ \A i, j \in 1 .. Len(es) : phi[i] = phi[j] => i = j
  <2>1. PICK es, phi, c : es = DirectEdgesOfRow(M, r) /\ phi = EdgeFaces(M, r) /\ c = M.newToOld[r]
    OBVIOUS
  <2>2. Shows(es, phi, OwnedFaces(m, c), UpperRows(M, m), m) /\ \A i \in 1 .. Len(es) : es[i].owner = r
    BY <2>1, DirectRowIs
  <2>3. /\ Lists(phi, OwnedFaces(m, c)) /\ Len(es) = Len(phi)
        /\ \A i \in 1 .. Len(es) : es[i].col = UpperRows(M, m)[phi[i]] /\ es[i].coeff = m.coeff[phi[i]]
    BY <2>2 DEF Shows
  <2>4. \A i \in 1 .. Len(es) : phi[i] \in OwnedFaces(m, c)
    BY <2>3 DEF Lists
  <2>5. \A f \in OwnedFaces(m, c) : f \in FacesOf(m) /\ m.lower[f] = c /\ UpperRows(M, m)[f] = M.oldToNew[m.upper[f]]
    BY DEF OwnedFaces, UpperRows
  <2>6. \A i, j \in 1 .. Len(es) : phi[i] = phi[j] => i = j
    BY <2>3 DEF Lists
  <2> QED BY <2>1, <2>2, <2>3, <2>4, <2>5, <2>6
<1>8. /\ \A c \in CellsOf(m) : M.oldToNew[c] \in CellsOf(m) /\ M.newToOld[M.oldToNew[c]] = c
                               /\ M.oldToNew[M.newToOld[c]] = c
      /\ \A f \in FacesOf(m) : m.lower[f] \in CellsOf(m)
  BY FieldFacts DEF IsPacked
<1>9. \A i \in 1 .. n : /\ g[i] \in FacesOf(m)
                        /\ d[i].owner = M.oldToNew[m.lower[g[i]]]
                        /\ d[i].col = M.oldToNew[m.upper[g[i]]]
                        /\ d[i].coeff = m.coeff[g[i]]
  <2> SUFFICES ASSUME NEW p_ \in 1 .. n
               PROVE  /\ g[p_] \in FacesOf(m)
                      /\ d[p_].owner = M.oldToNew[m.lower[g[p_]]]
                      /\ d[p_].col = M.oldToNew[m.upper[g[p_]]]
                      /\ d[p_].coeff = m.coeff[g[p_]]
    OBVIOUS
  <2>1. PICK r \in CellsOf(m) : \E i \in 1 .. Len(DirectEdgesOfRow(M, r)) : p_ = starts[r] + i
    BY <1>5
  <2>2. PICK es, phi : es = DirectEdgesOfRow(M, r) /\ phi = EdgeFaces(M, r)
    OBVIOUS
  <2>3. PICK i \in 1 .. Len(es) : p_ = starts[r] + i
    BY <2>1, <2>2
  <2>4. d[p_] = es[i] /\ g[p_] = phi[i]
    BY <1>5, <2>2, <2>3
  <2>5. /\ phi[i] \in FacesOf(m) /\ m.lower[phi[i]] = M.newToOld[r] /\ es[i].owner = r
        /\ es[i].col = M.oldToNew[m.upper[phi[i]]] /\ es[i].coeff = m.coeff[phi[i]]
    BY <1>7, <2>2, <2>3
  <2>6. M.oldToNew[m.lower[phi[i]]] = r
    BY <1>8, <2>5
  <2> QED BY <2>4, <2>5, <2>6
<1>10. ASSUME NEW k \in 1 .. n, NEW l \in 1 .. n, g[k] = g[l] PROVE k = l
  <2>1. PICK r \in CellsOf(m) : \E i \in 1 .. Len(DirectEdgesOfRow(M, r)) : k = starts[r] + i
    BY <1>5
  <2>2. PICK i \in 1 .. Len(DirectEdgesOfRow(M, r)) : k = starts[r] + i
    BY <2>1
  <2>3. PICK s \in CellsOf(m) : \E j \in 1 .. Len(DirectEdgesOfRow(M, s)) : l = starts[s] + j
    BY <1>5
  <2>4. PICK j \in 1 .. Len(DirectEdgesOfRow(M, s)) : l = starts[s] + j
    BY <2>3
  <2>5. g[k] = EdgeFaces(M, r)[i] /\ g[l] = EdgeFaces(M, s)[j]
    BY <1>5, <2>2, <2>4
  <2>6. m.lower[EdgeFaces(M, r)[i]] = M.newToOld[r] /\ m.lower[EdgeFaces(M, s)[j]] = M.newToOld[s]
    BY <1>7
  <2>7. M.newToOld[r] = M.newToOld[s]
    BY <1>10, <2>5, <2>6
  <2>8. r = s
    BY <1>8, <2>7
  <2>9. i = j
    <3>1. PICK phi, es : phi = EdgeFaces(M, r) /\ es = DirectEdgesOfRow(M, r)
      OBVIOUS
    <3>2. i \in 1 .. Len(es) /\ j \in 1 .. Len(es) /\ phi[i] = phi[j]
      BY <1>10, <2>5, <2>8, <3>1
    <3>3. \A a, b \in 1 .. Len(es) : phi[a] = phi[b] => a = b
      BY <1>7, <3>1
    <3> QED BY <3>2, <3>3
  <2> QED BY <2>2, <2>4, <2>8, <2>9
<1>11. ASSUME NEW f \in FacesOf(m) PROVE \E i \in 1 .. n : g[i] = f
  <2>1. PICK r \in CellsOf(m) : r = M.oldToNew[m.lower[f]]
    BY <1>8
  <2>2. PICK phi, es : phi = EdgeFaces(M, r) /\ es = DirectEdgesOfRow(M, r)
    OBVIOUS
  <2>3. Lists(phi, OwnedFaces(m, M.newToOld[r])) /\ Len(es) = Len(phi)
    BY <1>7, <2>2
  <2>4. f \in OwnedFaces(m, M.newToOld[r])
    BY <1>8, <2>1 DEF OwnedFaces
  <2>5. PICK i \in 1 .. Len(es) : phi[i] = f
    BY <2>3, <2>4 DEF Lists
  <2>6. starts[r] + i \in 1 .. n /\ g[starts[r] + i] = phi[i]
    BY <1>5, <2>2
  <2> QED BY <2>5, <2>6
<1>12. Lists(g, FacesOf(m))
  BY <1>4, <1>5, <1>9, <1>10, <1>11 DEF Lists
<1> QED BY <1>3, <1>5, <1>6, <1>9, <1>12 DEF ListsEdges

\* Every face is an edge of the views once, as the constructors ask.
LEMMA ViewsComplete ==
  ASSUME NEW M, NEW m, IsPacked(M, m)
  PROVE  EdgeViewsComplete(M)
<1>1. Len(DirectEdges(M)) = Len(DirectFaces(M)) /\ Lists(DirectFaces(M), FacesOf(m))
  BY DirectEdgesListed DEF ListsEdges
<1>2. PICK g : g = DirectFaces(M)
  OBVIOUS
<1>3. Cardinality(FacesOf(m)) = Len(g)
  BY <1>1, <1>2, ListedFinite
<1>4. PICK n \in Nat : n = Len(m.lower) /\ FacesOf(m) = 1 .. n
  BY FieldFacts DEF IsPacked
<1>5. Cardinality(FacesOf(m)) = n
  BY <1>4, FS_Interval
<1>6. nFaces(M) = n
  BY <1>4 DEF nFaces, IsPacked
<1>7. Index(M) = CellsOf(m)
  BY DEF IsPacked, Index, CellsOf
<1>8. \A r \in CellsOf(m) : Len(DirectEdgesOfRow(M, r)) = Len(M.outgoing[r])
  BY DirectRowIs
<1> QED BY <1>1, <1>2, <1>3, <1>5, <1>6, <1>7, <1>8 DEF EdgeViewsComplete

\* A slice of the direct view is one of its rows.
LEMMA SliceShows ==
  ASSUME NEW M, NEW m, IsPacked(M, m), NEW starts, FaceStarts(M, m, starts), NEW r \in CellsOf(m),
         NEW es, es = SubSeq(DirectEdges(M), starts[r] + 1, starts[r + 1])
  PROVE  Shows(es, EdgeFaces(M, r), OwnedFaces(m, M.newToOld[r]), UpperRows(M, m), m)
<1>1. PICK c, row, phi, d : /\ c = M.newToOld[r] /\ row = DirectEdgesOfRow(M, r)
                            /\ phi = EdgeFaces(M, r) /\ d = DirectEdges(M)
  OBVIOUS
<1>2. PICK b \in Nat : b = Len(row)
  BY <1>1, DirectRowIs
<1>3. Shows(row, phi, OwnedFaces(m, c), UpperRows(M, m), m)
  BY <1>1, DirectRowIs
<1>4. /\ Lists(phi, OwnedFaces(m, c)) /\ Len(phi) = b
      /\ \A i \in 1 .. b : row[i].col = UpperRows(M, m)[phi[i]] /\ row[i].coeff = m.coeff[phi[i]]
  BY <1>2, <1>3 DEF Shows
<1>5. PICK n \in Nat : n = m.n
  BY FieldFacts DEF IsPacked
<1>6. r \in Nat /\ r \in 0 .. n /\ r + 1 \in 1 .. n /\ (r + 1) - 1 = r
  BY <1>5 DEF CellsOf
<1>7. PICK a \in Nat : a = starts[r] /\ starts[r + 1] = a + b
  <2>1. starts \in [0 .. n -> Nat] /\ \A k \in 1 .. n : starts[k] = starts[k - 1] + Len(DirectEdgesOfRow(M, k - 1))
    BY <1>5 DEF FaceStarts
  <2>2. starts[r] \in Nat
    BY <1>6, <2>1
  <2>3. starts[r + 1] = starts[r] + Len(row)
    BY <1>1, <1>6, <2>1
  <2> QED BY <1>2, <2>2, <2>3
<1>8. \A i \in 1 .. b : d[a + i] = row[i]
  <2>1. \A i \in 1 .. Len(DirectEdgesOfRow(M, r)) : DirectEdges(M)[starts[r] + i] = DirectEdgesOfRow(M, r)[i]
    BY DirectPlacesAre DEF DirectPlaces
  <2> QED BY <1>1, <1>2, <1>7, <2>1
<1>9. es = SubSeq(d, a + 1, a + b)
  BY <1>1, <1>7
<1>10. Len(es) = b /\ DOMAIN es = 1 .. b /\ \A i \in 1 .. b : es[i] = row[i]
  <2>1. PICK S : S = {row[i] : i \in 1 .. b}
    OBVIOUS
  <2>2. PICK p_ \in Int, q_ \in Int : p_ = a + 1 /\ q_ = a + b
    OBVIOUS
  <2>3. \A k \in p_ .. q_ : k - a \in 1 .. b /\ k = a + (k - a)
    BY <2>2
  <2>4. \A k \in p_ .. q_ : d[k] \in S
    BY <1>8, <2>1, <2>3
  <2>5. /\ es \in Seq(S)
        /\ Len(es) = IF p_ <= q_ THEN q_ - p_ + 1 ELSE 0
        /\ \A i \in 1 .. q_ - p_ + 1 : es[i] = d[p_ + i - 1]
    <3>1. PICK t : t = SubSeq(d, p_, q_)
      OBVIOUS
    <3>2. /\ t \in Seq(S)
          /\ Len(t) = IF p_ <= q_ THEN q_ - p_ + 1 ELSE 0
          /\ \A i \in 1 .. q_ - p_ + 1 : t[i] = d[p_ + i - 1]
      BY <2>4, <3>1, SubSeqProperties
    <3>3. t = es
      BY <1>9, <2>2, <3>1
    <3> QED BY <3>2, <3>3
  <2>6. q_ - p_ + 1 = b /\ Len(es) = b
    BY <2>2, <2>5
  <2>7. DOMAIN es = 1 .. b
    BY <2>5, <2>6
  <2>8. \A i \in 1 .. b : p_ + i - 1 = a + i
    BY <2>2
  <2>9. \A i \in 1 .. b : es[i] = d[a + i]
    BY <2>5, <2>6, <2>8
  <2> QED BY <1>8, <2>6, <2>7, <2>9
<1> QED BY <1>1, <1>4, <1>10 DEF Shows

\* The cursor of a row stands where the row starts.
CursorRun(edges, row, begin) ==
  {e \in begin + 1 .. Len(edges) : \A d \in begin + 1 .. e : edges[d].owner = row}

\* As many edges follow from there as the row has.
LEMMA CursorRunIs ==
  ASSUME NEW M, NEW m, IsPacked(M, m), NEW starts, FaceStarts(M, m, starts), NEW r \in CellsOf(m)
  PROVE  Cardinality(CursorRun(DirectEdges(M), r, starts[r])) = Len(DirectEdgesOfRow(M, r))
<1>1. PICK row, d, e : row = DirectEdgesOfRow(M, r) /\ d = DirectEdges(M) /\ e = starts[m.n]
  OBVIOUS
<1>2. PICK n \in Nat : n = m.n
  BY FieldFacts DEF IsPacked
<1>3. starts \in [0 .. n -> Nat]
  BY <1>2 DEF FaceStarts
<1>4. r \in 0 .. n /\ \A s \in CellsOf(m) : s \in 0 .. n
  BY <1>2 DEF CellsOf
<1>5. PICK a \in Nat, b \in Nat : a = starts[r] /\ b = Len(row)
  <2>1. starts[r] \in Nat
    BY <1>3, <1>4
  <2>2. Len(row) \in Nat
    BY <1>1, DirectRowIs
  <2> QED BY <2>1, <2>2
<1>6. e \in Nat /\ Len(d) = e
  BY <1>1, <1>2, <1>3, DirectPlacesAre DEF DirectPlaces
<1>7. \A i \in 1 .. b : a + i \in 1 .. e /\ d[a + i].owner = r
  <2>1. \A i \in 1 .. b : a + i \in 1 .. e /\ d[a + i] = row[i]
    BY <1>1, <1>5, DirectPlacesAre DEF DirectPlaces
  <2>2. \A i \in 1 .. b : row[i].owner = r
    BY <1>1, <1>5, DirectRowIs
  <2> QED BY <2>1, <2>2
<1>8. ASSUME a + b + 1 \in 1 .. e PROVE d[a + b + 1].owner # r
  <2>1. PICK k \in 1 .. e : k = a + b + 1
    BY <1>8
  <2>2. PICK s \in CellsOf(m) : \E i \in 1 .. Len(DirectEdgesOfRow(M, s)) : k = starts[s] + i
    BY <1>1, DirectPlacesAre DEF DirectPlaces
  <2>3. PICK i \in 1 .. Len(DirectEdgesOfRow(M, s)) : k = starts[s] + i
    BY <2>2
  <2>4. d[k] = DirectEdgesOfRow(M, s)[i]
    BY <1>1, <2>3, DirectPlacesAre DEF DirectPlaces
  <2>5. d[k].owner = s
    BY <2>4, DirectRowIs
  <2>6. s # r
    <3> SUFFICES ASSUME s = r PROVE FALSE
      OBVIOUS
    <3>1. i \in 1 .. b /\ k = a + i
      BY <1>1, <1>5, <2>3
    <3> QED BY <2>1, <3>1
  <2> QED BY <2>1, <2>5, <2>6
<1>9. CursorRun(d, r, a) = (a + 1) .. (a + b)
  <2>1. ASSUME NEW k \in (a + 1) .. (a + b)
        PROVE  k \in (a + 1) .. e /\ \A l \in (a + 1) .. k : d[l].owner = r
    <3>1. \A l \in (a + 1) .. k : l - a \in 1 .. b /\ l = a + (l - a)
      OBVIOUS
    <3>2. \A l \in (a + 1) .. k : d[l].owner = r /\ l \in 1 .. e
      BY <1>7, <3>1
    <3>3. k \in (a + 1) .. k
      OBVIOUS
    <3> QED BY <1>6, <3>2, <3>3
  <2>2. ASSUME NEW k \in (a + 1) .. e, \A l \in (a + 1) .. k : d[l].owner = r
        PROVE  k \in (a + 1) .. (a + b)
    <3> SUFFICES ASSUME k > a + b PROVE FALSE
      BY <1>6
    <3>1. a + b + 1 \in (a + 1) .. k /\ a + b + 1 \in 1 .. e
      BY <1>6
    <3> QED BY <1>8, <2>2, <3>1
  <2> QED BY <1>6, <2>1, <2>2 DEF CursorRun
<1>10. Cardinality((a + 1) .. (a + b)) = b
  <2>1. PICK u \in Nat, v \in Nat : u = a + 1 /\ v = a + b
    OBVIOUS
  <2>2. Cardinality(u .. v) = IF u > v THEN 0 ELSE v - u + 1
    BY FS_Interval
  <2> QED BY <2>1, <2>2
<1> QED BY <1>1, <1>5, <1>9, <1>10

\* Both ways to find the edges of a row show the faces its cell owns.
LEMMA EdgesByStartsShow ==
  ASSUME NEW M, NEW m, IsPacked(M, m), NEW r \in CellsOf(m)
  PROVE  Shows(EdgesByStarts(M)[r], EdgeFaces(M, r), OwnedFaces(m, M.newToOld[r]), UpperRows(M, m), m)
<1>1. PICK starts : starts = DirectEdgeRowStarts(M)
  OBVIOUS
<1>2. FaceStarts(M, m, starts)
  BY <1>1, StartsAre
<1>3. Index(M) = CellsOf(m)
  BY DEF IsPacked, Index, CellsOf
<1>4. EdgesByStarts(M)[r] = SubSeq(DirectEdges(M), starts[r] + 1, starts[r + 1])
  BY <1>1, <1>3 DEF EdgesByStarts
<1> QED BY <1>2, <1>4, SliceShows

\* The cursor goes from row to row.
LEMMA EdgesByCursorShow ==
  ASSUME NEW M, NEW m, IsPacked(M, m), NEW r \in CellsOf(m)
  PROVE  Shows(EdgesByCursor(M)[r], EdgeFaces(M, r), OwnedFaces(m, M.newToOld[r]), UpperRows(M, m), m)
<1> DEFINE d == DirectEdges(M)
           F(s) == [row \in 0 .. M.n |-> IF row = 0 THEN 0
                                         ELSE s[row - 1] + Cardinality(CursorRun(d, row - 1, s[row - 1]))]
           begin == CHOOSE s : s = F(s)
<1>1. PICK n \in Nat : n = m.n /\ n = M.n
  BY FieldFacts DEF IsPacked
<1>2. PICK starts : FaceStarts(M, m, starts)
  BY StartsAre
<1>3. starts \in [0 .. n -> Nat] /\ starts[0] = 0
      /\ \A k \in 1 .. n : starts[k] = starts[k - 1] + Len(DirectEdgesOfRow(M, k - 1))
  BY <1>1, <1>2 DEF FaceStarts
<1>4. \A k \in 1 .. n : starts[k] = starts[k - 1] + Cardinality(CursorRun(d, k - 1, starts[k - 1]))
  <2>1. \A k \in 1 .. n : k - 1 \in CellsOf(m)
    BY <1>1 DEF CellsOf
  <2>2. \A k \in 1 .. n : Cardinality(CursorRun(d, k - 1, starts[k - 1])) = Len(DirectEdgesOfRow(M, k - 1))
    BY <1>2, <2>1, CursorRunIs
  <2> QED BY <1>3, <2>2
<1>5. starts = F(starts)
  <2>1. \A k \in 0 .. n : k = 0 \/ k \in 1 .. n
    OBVIOUS
  <2>2. starts = [k \in 0 .. n |-> starts[k]]
    BY <1>3
  <2> HIDE DEF d
  <2> QED BY <1>1, <1>3, <1>4, <2>1, <2>2
<1>6. begin = F(begin)
  <2> HIDE DEF F
  <2> QED BY <1>5
<1>7. EdgesByCursor(M)[r] = SubSeq(d, begin[r] + 1, begin[r + 1])
  <2>1. r \in Index(M)
    BY DEF IsPacked, Index, CellsOf
  <2> QED BY <2>1 DEF EdgesByCursor, CursorRun
<1> HIDE DEF begin, d
<1>8. begin[0] = 0 /\ \A k \in 1 .. n : begin[k] = begin[k - 1] + Cardinality(CursorRun(d, k - 1, begin[k - 1]))
  <2>1. \A k \in 0 .. n : begin[k] = IF k = 0 THEN 0
                                      ELSE begin[k - 1] + Cardinality(CursorRun(d, k - 1, begin[k - 1]))
    BY <1>1, <1>6
  <2>2. 0 \in 0 .. n /\ \A k \in 1 .. n : k \in 0 .. n /\ k # 0
    OBVIOUS
  <2> HIDE DEF F
  <2> QED BY <2>1, <2>2
<1> HIDE DEF F
<1> DEFINE good == {k \in Nat : k <= n => begin[k] = starts[k]}
<1>9. 0 \in good
  BY <1>3, <1>8
<1>10. ASSUME NEW k \in Nat, k \in good PROVE k + 1 \in good
  <2>1. CASE k + 1 <= n
    <3>1. PICK j : j = k + 1
      OBVIOUS
    <3>2. j \in 1 .. n /\ j - 1 = k /\ k <= n
      BY <2>1, <3>1
    <3>3. begin[k] = starts[k]
      BY <1>10, <3>2
    <3>4. begin[j] = starts[j]
      BY <1>4, <1>8, <3>2, <3>3
    <3> QED BY <3>1, <3>4
  <2> QED BY <2>1
<1>11. \A k \in Nat : k \in good
  <2> HIDE DEF good
  <2> QED BY <1>9, <1>10, NumberInduction
<1>12. r \in Nat /\ r + 1 \in Nat /\ r <= n /\ r + 1 <= n
  BY <1>1 DEF CellsOf
<1>13. begin[r] = starts[r] /\ begin[r + 1] = starts[r + 1]
  BY <1>11, <1>12
<1> QED BY <1>2, <1>7, <1>13, SliceShows DEF d

-----------------------------------------------------------------------------
(* The result of an owner held back.                                       *)

\* the field with what is held back put in its place
Released(s) == [s.y EXCEPT ![s.owner] = s.held]
RunStates(m) == [owner : CellsOf(m), held : Value, y : FieldOf(m)]

\* one edge: the owner before it is put in its place if it is another one
OwnerRunStep(x, s, e) ==
  LET y == IF e.owner = s.owner THEN s.y ELSE Released(s)
      held == IF e.owner = s.owner THEN s.held ELSE y[e.owner]
  IN  [owner |-> e.owner,
       held |-> (held + e.coeff * x[e.col]) % P,
       y |-> [y EXCEPT ![e.col] = (@ + e.coeff * x[e.owner]) % P]]

\* What an edge does to the field with the result put back is what it does in
\* the plain product.
LEMMA OwnerRunStepIs ==
  ASSUME NEW m, GoodMatrix(m), NEW x \in FieldOf(m), NEW s \in RunStates(m), NEW e,
         e.owner \in CellsOf(m), e.col \in CellsOf(m), e.owner # e.col, e.coeff \in Int
  PROVE  /\ Released(s) \in FieldOf(m)
         /\ OwnerRunStep(x, s, e) \in RunStates(m)
         /\ Released(OwnerRunStep(x, s, e)) = EdgeStep(x, Released(s), e)
<1>1. FieldOf(m) = [CellsOf(m) -> Value]
  BY FieldFacts DEF FieldOf
<1>2. PICK a \in CellsOf(m), b \in CellsOf(m), k \in Int : a = e.owner /\ b = e.col /\ k = e.coeff
  OBVIOUS
<1>3. s.owner \in CellsOf(m) /\ s.held \in Value /\ s.y \in FieldOf(m)
  BY DEF RunStates
<1>4. Released(s) \in FieldOf(m)
  BY <1>1, <1>3 DEF Released
<1>5. PICK z \in FieldOf(m) : z = Released(s)
  BY <1>4
<1>6. z[s.owner] = s.held /\ \A c \in CellsOf(m) : c # s.owner => z[c] = s.y[c]
  BY <1>1, <1>3, <1>5 DEF Released
<1> DEFINE w == IF a = s.owner THEN s.y ELSE z
           h == IF a = s.owner THEN s.held ELSE w[a]
           u == (h + k * x[b]) % P
           v == (w[b] + k * x[a]) % P
           t == OwnerRunStep(x, s, e)
<1>7. w \in FieldOf(m) /\ h = z[a] /\ \A c \in CellsOf(m) : c # a => w[c] = z[c]
  BY <1>2, <1>3, <1>6
<1>8. t = [owner |-> a, held |-> u, y |-> [w EXCEPT ![b] = v]]
  <2>1. [w EXCEPT ![b] = (@ + k * x[a]) % P] = [w EXCEPT ![b] = v]
    BY <1>1, <1>7
  <2> QED BY <1>2, <1>5, <2>1 DEF OwnerRunStep
<1>9. u \in Value /\ v \in Value
  <2>1. x[a] \in Int /\ x[b] \in Int /\ h \in Int /\ w[b] \in Int
    BY <1>7, FieldFacts
  <2> HIDE DEF h, w
  <2>2. h + k * x[b] \in Int /\ w[b] + k * x[a] \in Int
    BY <2>1
  <2> QED BY <2>2, Remainder
<1> HIDE DEF u, v, w, h, t
<1>10. t \in RunStates(m)
  <2>1. [w EXCEPT ![b] = v] \in FieldOf(m)
    BY <1>1, <1>7, <1>9
  <2> QED BY <1>8, <1>9, <2>1 DEF RunStates
<1>11. Released(t) = [[w EXCEPT ![b] = v] EXCEPT ![a] = u]
  BY <1>8 DEF Released
<1>12. u = (z[a] + k * x[b]) % P /\ v = (z[b] + k * x[a]) % P
  <2>1. w[b] = z[b]
    BY <1>2, <1>7
  <2> QED BY <1>7, <2>1 DEF u, v
<1>13. EdgeStep(x, z, e) \in FieldOf(m)
       /\ EdgeStep(x, z, e)[a] = u /\ EdgeStep(x, z, e)[b] = v
       /\ \A c \in CellsOf(m) : c # a /\ c # b => EdgeStep(x, z, e)[c] = z[c]
  BY <1>2, <1>12, EdgeStepIs
<1>14. Released(t) \in [CellsOf(m) -> Value] /\ Released(t)[a] = u /\ Released(t)[b] = v
       /\ \A c \in CellsOf(m) : c # a /\ c # b => Released(t)[c] = z[c]
  <2>1. a # b /\ w \in [CellsOf(m) -> Value]
    BY <1>1, <1>2, <1>7
  <2>2. PICK q : q = Released(t)
    OBVIOUS
  <2>3. q = [[w EXCEPT ![b] = v] EXCEPT ![a] = u]
    BY <1>11, <2>2
  <2>4. q \in [CellsOf(m) -> Value] /\ q[a] = u /\ q[b] = v
        /\ \A c \in CellsOf(m) : c # a /\ c # b => q[c] = w[c]
    BY <1>9, <2>1, <2>3
  <2> QED BY <1>7, <2>2, <2>4
<1>15. \A c \in CellsOf(m) : Released(t)[c] = EdgeStep(x, z, e)[c]
  BY <1>13, <1>14
<1>16. Released(t) = EdgeStep(x, z, e)
  BY <1>1, <1>13, <1>14, <1>15
<1> QED BY <1>4, <1>5, <1>10, <1>16 DEF t

\* the run, and where it starts
OwnerRun(M, m, edges, x, acc) ==
  /\ acc \in [0 .. Len(edges) -> RunStates(m)]
  /\ acc[0] = [owner |-> edges[1].owner, held |-> FwDiagonal(M, x)[edges[1].owner], y |-> FwDiagonal(M, x)]
  /\ \A k \in 1 .. Len(edges) : acc[k] = OwnerRunStep(x, acc[k - 1], edges[k])

\* The product that holds results back goes through the edges one by one.
LEMMA OwnersHeldRun ==
  ASSUME NEW M, NEW m, IsPacked(M, m), NEW edges, edges = DirectEdges(M), NEW phi, ListsEdges(edges, phi, M, m),
         NEW x \in FieldOf(m), Len(edges) # 0
  PROVE  \E acc : OwnerRun(M, m, edges, x, acc) /\ OwnerRunProduct(M, x) = Released(acc[Len(edges)])
<1> DEFINE n == Len(edges)
           Y == RunStates(m)
           y0 == FwDiagonal(M, x)
           base == [owner |-> edges[1].owner, held |-> y0[edges[1].owner], y |-> y0]
           Edge(s, e) ==
             LET y == IF e.owner = s.owner THEN s.y ELSE Table([s.y EXCEPT ![s.owner] = s.held])
                 held == IF e.owner = s.owner THEN s.held ELSE y[e.owner]
             IN  [owner |-> e.owner,
                  held |-> (held + e.coeff * x[e.col]) % P,
                  y |-> Table([y EXCEPT ![e.col] = (@ + e.coeff * x[e.owner]) % P])]
           F(i) == [T \in SUBSET (1 .. n) |->
                      IF T = {} THEN base ELSE Edge(i[T \ {Max(T)}], edges[Max(T)])]
           it == CHOOSE i : i = F(i)
           h == [p \in (1 .. n) \X Y |-> OwnerRunStep(x, p[2], edges[p[1]])]
<1>0. n \in Nat /\ DOMAIN edges = 1 .. n
      /\ \A i \in 1 .. n : /\ edges[i].owner \in CellsOf(m) /\ edges[i].col \in CellsOf(m)
                           /\ edges[i].owner # edges[i].col /\ edges[i].coeff \in Int
  BY EdgeEnds
<1>1. OwnerRunProduct(M, x) = Released(it[1 .. n])
  <2>1. edges # <<>>
    OBVIOUS
  <2> DEFINE D == DirectEdges(M)
             first == D[1].owner
             z0 == FwDiagonal(M, x)
             base0 == [owner |-> first, held |-> z0[first], y |-> z0]
             end == FoldLeft(Edge, base0, D)
  <2>2. OwnerRunProduct(M, x) = IF D = <<>> THEN z0 ELSE [end.y EXCEPT ![end.owner] = end.held]
    BY Zenon DEF OwnerRunProduct
  <2>3. D = edges /\ base0 = base /\ D # <<>>
    BY <2>1
  <2>4. end = FoldLeft(Edge, base, edges)
    BY <2>3
  <2>5. OwnerRunProduct(M, x) = [end.y EXCEPT ![end.owner] = end.held]
    <3> HIDE DEF D, z0, end
    <3> QED BY <2>2, <2>3
  <2>6. DOMAIN edges = 1 .. n
    BY <1>0
  <2>7. FoldLeft(Edge, base, edges) =
          (CHOOSE i : i = [T \in SUBSET DOMAIN edges |->
             IF T = {} THEN base ELSE Edge(i[T \ {Max(T)}], edges[Max(T)])])[DOMAIN edges]
    <3> HIDE DEF base, Edge
    <3> QED BY DEF FoldLeft, MapThenFoldSet
  <2>8. FoldLeft(Edge, base, edges) = it[1 .. n]
    <3> HIDE DEF base, Edge, n
    <3> QED BY <2>6, <2>7
  <2> HIDE DEF end, n, base, Edge
  <2> QED BY <2>4, <2>5, <2>8 DEF Released
<1>1a. \A s, e : Edge(s, e) = OwnerRunStep(x, s, e)
  BY TableIs DEF OwnerRunStep, Released
<1>1b. n \in Nat
  BY <1>0
<1> HIDE DEF Edge
<1>2. base \in Y
  <2>1. y0 \in FieldOf(m)
    BY FwDiagonalIs
  <2>2. GoodMatrix(m)
    BY DEF IsPacked
  <2>3. 1 \in 1 .. n
    BY <1>0
  <2>4. edges[1].owner \in CellsOf(m)
    BY <1>0, <2>3
  <2>5. y0[edges[1].owner] \in Value
    BY <2>1, <2>2, <2>4, FieldFacts
  <2> HIDE DEF y0
  <2> QED BY <2>1, <2>4, <2>5 DEF RunStates
<1>3. IsStep(n, Y, h)
  <2>1. GoodMatrix(m)
    BY DEF IsPacked
  <2>2. \A k \in 1 .. n : \A y \in Y : OwnerRunStep(x, y, edges[k]) \in Y
    BY <1>0, <2>1, OwnerRunStepIs
  <2> QED BY <2>2 DEF IsStep
<1>4. \A T \in SUBSET (1 .. n) : T # {} => Max(T) \in 1 .. n
  BY <1>0, LastPlace
<1>5. ASSUME NEW i PROVE Follows(n, Y, base, h, i, F(i))
  <2>1. ASSUME NEW T \in SUBSET (1 .. n), T # {}, i[T \ {Max(T)}] \in Y
        PROVE  F(i)[T] = FoldStep(h, base, i, T)
    <3>1. PICK k \in 1 .. n, y \in Y : k = Max(T) /\ y = i[T \ {Max(T)}]
      BY <1>4, <2>1
    <3>2. F(i)[T] = OwnerRunStep(x, y, edges[k])
      BY <1>1a, <2>1, <3>1
    <3>3. h[<<k, y>>] = OwnerRunStep(x, y, edges[k])
      OBVIOUS
    <3> HIDE DEF F, h
    <3> QED BY <2>1, <3>1, <3>2, <3>3 DEF FoldStep
  <2>2. F(i)[{}] = FoldStep(h, base, i, {}) /\ F(i) = [T \in SUBSET (1 .. n) |-> F(i)[T]]
    BY DEF FoldStep
  <2> HIDE DEF F, h
  <2> QED BY <2>1, <2>2 DEF Follows
<1>6. \A k \in 1 .. n : \A y \in Y : h[<<k, y>>] = OwnerRunStep(x, y, edges[k])
  OBVIOUS
<1> HIDE DEF h, base, Y, n, F
<1>7. \E i : i = F(i)
  BY <1>1b, <1>2, <1>3, <1>5, FoldsExist, FoldFollows
<1>8. it = F(it)
  BY <1>7
<1> HIDE DEF it
<1>9. TakesLast(n, Y, base, h, it)
  BY <1>1b, <1>2, <1>3, <1>5, <1>8, FoldFollows
<1>10. PICK acc : IsLoop(n, Y, base, h, acc) /\ acc[n] = it[1 .. n]
  BY <1>1b, <1>2, <1>3, <1>9, FoldRuns
<1>11. \A k \in 1 .. n : acc[k] = OwnerRunStep(x, acc[k - 1], edges[k])
  <2>1. \A k \in 1 .. n : acc[k - 1] \in Y /\ acc[k] = h[<<k, acc[k - 1]>>]
    BY <1>0, <1>10 DEF IsLoop
  <2> QED BY <1>6, <2>1
<1>12. acc \in [0 .. n -> Y] /\ acc[0] = base
  BY <1>10 DEF IsLoop
<1>13. OwnerRun(M, m, edges, x, acc)
  BY <1>11, <1>12 DEF OwnerRun, n, Y, base
<1>14. OwnerRunProduct(M, x) = Released(acc[n])
  BY <1>1, <1>10
<1> QED BY <1>13, <1>14 DEF n

\* Holding results back computes the product as well.
LEMMA OwnerRunProductIs ==
  ASSUME NEW M, NEW m, IsPacked(M, m), NEW x \in FieldOf(m)
  PROVE  OwnerRunProduct(M, x) = EdgeProduct(M, DirectEdges(M), x)
<1>1. PICK edges, phi : edges = DirectEdges(M) /\ phi = DirectFaces(M)
  OBVIOUS
<1>2. ListsEdges(edges, phi, M, m)
  BY <1>1, DirectEdgesListed
<1>3. PICK n \in Nat : n = Len(edges)
  BY <1>2, EdgeEnds
<1>4. PICK acc : EdgeRun(M, m, edges, x, acc)
  BY <1>2, EdgesRun
<1>5. acc[0] = FwDiagonal(M, x) /\ acc[n] = EdgeProduct(M, edges, x)
      /\ \A k \in 1 .. n : acc[k] = EdgeStep(x, acc[k - 1], edges[k])
  BY <1>3, <1>4 DEF EdgeRun
<1>6. CASE edges = <<>>
  <2>1. n = 0
    BY <1>3, <1>6
  <2>2. OwnerRunProduct(M, x) = FwDiagonal(M, x)
    BY <1>1, <1>6 DEF OwnerRunProduct
  <2> QED BY <1>1, <1>5, <2>1, <2>2
<1>7. CASE edges # <<>>
  <2>0. Len(edges) # 0 /\ 1 \in 1 .. n
    <3>1. Listed(edges)
      <4>1. DirectPlaces(M, m, DirectEdgeRowStarts(M))
        BY StartsAre, DirectPlacesAre
      <4> QED BY <1>1, <4>1 DEF DirectPlaces
    <3>2. Len(edges) # 0
      BY <1>7, <3>1 DEF Listed
    <3> QED BY <1>3, <3>2
  <2>1. PICK run : OwnerRun(M, m, edges, x, run) /\ OwnerRunProduct(M, x) = Released(run[n])
    BY <1>1, <1>2, <1>3, <2>0, OwnersHeldRun
  <2>2. /\ \A k \in 0 .. n : run[k] \in RunStates(m)
        /\ run[0] = [owner |-> edges[1].owner, held |-> FwDiagonal(M, x)[edges[1].owner], y |-> FwDiagonal(M, x)]
        /\ \A k \in 1 .. n : run[k] = OwnerRunStep(x, run[k - 1], edges[k])
    BY <1>3, <2>1 DEF OwnerRun
  <2>3a. GoodMatrix(m)
    BY <1>2 DEF ListsEdges, IsPacked
  <2>3b. FwDiagonal(M, x) \in FieldOf(m)
    BY FwDiagonalIs
  <2>3c. FieldOf(m) = [CellsOf(m) -> Value]
    BY <2>3a, FieldFacts DEF FieldOf
  <2>3d. \A k \in 1 .. n : /\ edges[k].owner \in CellsOf(m) /\ edges[k].col \in CellsOf(m)
                            /\ edges[k].owner # edges[k].col /\ edges[k].coeff \in Int
    BY <1>2, <1>3, EdgeEnds
  <2>3. /\ GoodMatrix(m) /\ FwDiagonal(M, x) \in FieldOf(m) /\ FieldOf(m) = [CellsOf(m) -> Value]
        /\ \A k \in 1 .. n : /\ edges[k].owner \in CellsOf(m) /\ edges[k].col \in CellsOf(m)
                             /\ edges[k].owner # edges[k].col /\ edges[k].coeff \in Int
    BY <2>3a, <2>3b, <2>3c, <2>3d
  <2> DEFINE good == {k \in Nat : k <= n => Released(run[k]) = acc[k]}
  <2>4. 0 \in good
    <3>1. PICK y, a : y = FwDiagonal(M, x) /\ a = edges[1].owner
      OBVIOUS
    <3>2. [y EXCEPT ![a] = y[a]] = y
      BY <2>0, <2>3, <3>1
    <3>3. Released(run[0]) = y
      BY <2>2, <3>1, <3>2 DEF Released
    <3> QED BY <1>5, <3>1, <3>3
  <2>5. ASSUME NEW k \in Nat, k \in good PROVE k + 1 \in good
    <3>1. CASE k + 1 <= n
      <4>1. PICK j : j = k + 1
        OBVIOUS
      <4>2. j \in 1 .. n /\ j - 1 = k /\ k <= n /\ k \in 0 .. n
        BY <3>1, <4>1
      <4>3. Released(run[k]) = acc[k]
        BY <2>5, <4>2
      <4>4. PICK s \in RunStates(m) : s = run[k]
        BY <2>2, <4>2
      <4>5. run[j] = OwnerRunStep(x, s, edges[j]) /\ acc[j] = EdgeStep(x, Released(s), edges[j])
        BY <1>5, <2>2, <4>2, <4>3, <4>4
      <4>6. Released(OwnerRunStep(x, s, edges[j])) = EdgeStep(x, Released(s), edges[j])
        BY <2>3, <4>2, OwnerRunStepIs
      <4> QED BY <4>1, <4>5, <4>6
    <3> QED BY <3>1
  <2>6. n \in good
    <3> HIDE DEF good
    <3> QED BY <2>4, <2>5, NumberInduction
  <2> QED BY <1>1, <1>5, <2>1, <2>6
<1> QED BY <1>6, <1>7

\* Every way to compute the product of a packed matrix computes the same.
THEOREM ProductsAgree ==
  ASSUME NEW m, GoodMatrix(m), NEW order, IsOrder(m, order), NEW x \in FieldOf(m)
  PROVE  LET M == Pack(m, order)
         IN  /\ PackedProduct(M, x) = Reference(M, x) /\ Reference(M, x) \in FieldOf(m)
             /\ EdgeProduct(M, DirectEdges(M), x) = Reference(M, x)
             /\ EdgeProduct(M, M.lduOrderEdges, x) = Reference(M, x)
             /\ OwnerRunProduct(M, x) = Reference(M, x)
             /\ \A c \in CellsOf(m) :
                  Reference(M, x)[M.oldToNew[c]] = Times(m, ToOriginal(M, x))[c]
<1>1. PICK M : M = Pack(m, order)
  OBVIOUS
<1>2. IsPacked(M, m)
  BY <1>1, PackIs
<1>3. PackedProduct(M, x) = Reference(M, x) /\ Reference(M, x) \in FieldOf(m)
  BY <1>2, PackedProductIs
<1>4. EdgeProduct(M, DirectEdges(M), x) = Reference(M, x)
  BY <1>2, DirectEdgesListed, EdgeProductIs
<1>5. EdgeProduct(M, M.lduOrderEdges, x) = Reference(M, x)
  BY <1>2, NativeEdges, EdgeProductIs
<1>6. OwnerRunProduct(M, x) = Reference(M, x)
  BY <1>2, <1>4, OwnerRunProductIs
<1>7. ASSUME NEW c \in CellsOf(m)
      PROVE  Reference(M, x)[M.oldToNew[c]] = Times(m, ToOriginal(M, x))[c]
  <2>1. M.oldToNew[c] \in CellsOf(m) /\ M.newToOld[M.oldToNew[c]] = c
    BY <1>2 DEF IsPacked
  <2>2. Reference(M, x)[M.oldToNew[c]] = RowTimes(m, ToOriginal(M, x), c)
    BY <1>2, <2>1, ReferenceRow
  <2>3. Index(m) = CellsOf(m)
    BY FieldFacts
  <2> QED BY <2>2, <2>3 DEF Times, RowTimes
<1> QED BY <1>1, <1>3, <1>4, <1>5, <1>6, <1>7

-----------------------------------------------------------------------------
(* Sweeps over the rows.                                                   *)

\* what the rows before r, and those after it, contribute to row r
Low(M, m, x, r) == FromLowers(m, ToOriginal(M, x), M.newToOld[r])
Up(M, m, x, r) == FromUppers(m, ToOriginal(M, x), M.newToOld[r])

\* Both are integers; together with the diagonal they are the row of the product.
LEMMA LowUpInt ==
  ASSUME NEW M, NEW m, IsPacked(M, m), NEW x \in FieldOf(m), NEW r \in CellsOf(m)
  PROVE  /\ Low(M, m, x, r) \in Int /\ Up(M, m, x, r) \in Int
         /\ M.diag[r] \in Int /\ x[r] \in Int /\ x[r] \in Value
         /\ Applied(Row(M, r), x) = (Low(M, m, x, r) + Up(M, m, x, r)) % P
         /\ Applied(M.incoming[r], x) = Low(M, m, x, r) % P
<1>1. PICK c : c = M.newToOld[r]
  OBVIOUS
<1>2. GoodMatrix(m)
  BY DEF IsPacked
<1>3. x[r] \in Value /\ x[r] \in Int
  BY <1>2, FieldFacts
<1> QED BY <1>1, <1>3, AppliedSides, RowTimesSides, AppliedRow DEF Low, Up

\* Fields that agree before row r have the same contribution from there, and
\* likewise after it.
LEMMA LowLocal ==
  ASSUME NEW M, NEW m, IsPacked(M, m), NEW x \in FieldOf(m), NEW y \in FieldOf(m), NEW r \in CellsOf(m),
         \A d \in CellsOf(m) : d < r => x[d] = y[d]
  PROVE  Low(M, m, x, r) = Low(M, m, y, r)
<1>1. PICK c \in CellsOf(m) : c = M.newToOld[r]
  BY DEF IsPacked
<1>2. GoodMatrix(m) /\ M.oldToNew[c] = r
  BY <1>1 DEF IsPacked
<1>3. PICK xN \in FieldOf(m), yN \in FieldOf(m) : xN = ToOriginal(M, x) /\ yN = ToOriginal(M, y)
  BY PackedFields
<1>4. ASSUME NEW f \in AboveFaces(m, c)
      PROVE  TimesLower(m, xN)[f] \in Int /\ TimesLower(m, yN)[f] = TimesLower(m, xN)[f]
  <2>1. f \in FacesOf(m) /\ m.upper[f] = c
    BY DEF AboveFaces
  <2>2. PICK a \in CellsOf(m) : a = m.lower[f]
    BY <1>2, <2>1, FieldFacts
  <2>3. M.oldToNew[a] < r /\ M.oldToNew[a] \in CellsOf(m)
    BY <1>2, <2>1, <2>2 DEF IsPacked
  <2>4. xN[a] = yN[a]
    BY <1>3, <2>3, PackedFields
  <2>5. TimesLower(m, xN)[f] \in Int
    BY <1>1, <1>2, <2>1, RowSumInt
  <2> QED BY <2>1, <2>2, <2>4, <2>5 DEF TimesLower
<1>5. IsFiniteSet(AboveFaces(m, c))
  BY <1>2, SidesOf
<1> QED BY <1>1, <1>3, <1>4, <1>5, SumSame DEF Low, FromLowers

\* The same with the rows after it.
LEMMA UpLocal ==
  ASSUME NEW M, NEW m, IsPacked(M, m), NEW x \in FieldOf(m), NEW y \in FieldOf(m), NEW r \in CellsOf(m),
         \A d \in CellsOf(m) : d > r => x[d] = y[d]
  PROVE  Up(M, m, x, r) = Up(M, m, y, r)
<1>1. PICK c \in CellsOf(m) : c = M.newToOld[r]
  BY DEF IsPacked
<1>2. GoodMatrix(m) /\ M.oldToNew[c] = r
  BY <1>1 DEF IsPacked
<1>3. PICK xN \in FieldOf(m), yN \in FieldOf(m) : xN = ToOriginal(M, x) /\ yN = ToOriginal(M, y)
  BY PackedFields
<1>4. ASSUME NEW f \in OwnedFaces(m, c)
      PROVE  TimesUpper(m, xN)[f] \in Int /\ TimesUpper(m, yN)[f] = TimesUpper(m, xN)[f]
  <2>1. f \in FacesOf(m) /\ m.lower[f] = c
    BY DEF OwnedFaces
  <2>2. PICK a \in CellsOf(m) : a = m.upper[f]
    BY <1>2, <2>1, FieldFacts
  <2>3. r < M.oldToNew[a] /\ M.oldToNew[a] \in CellsOf(m)
    BY <1>2, <2>1, <2>2 DEF IsPacked
  <2>3a. M.oldToNew[a] > r
    BY <1>2, <2>3 DEF CellsOf
  <2>4. xN[a] = yN[a]
    BY <1>3, <2>3, <2>3a, PackedFields
  <2>5. TimesUpper(m, xN)[f] \in Int
    BY <1>1, <1>2, <2>1, RowSumInt
  <2> QED BY <2>1, <2>2, <2>4, <2>5 DEF TimesUpper
<1>5. IsFiniteSet(OwnedFaces(m, c))
  BY <1>2, SidesOf
<1> QED BY <1>1, <1>3, <1>4, <1>5, SumSame DEF Up, FromUppers

\* The new value of a row; where the diagonal can be divided by, it solves the
\* equation of the row.
LEMMA NewValueIs ==
  ASSUME NEW M, NEW m, IsPacked(M, m), NEW x \in FieldOf(m), NEW b \in FieldOf(m), NEW r \in CellsOf(m)
  PROVE  /\ NewValue(M, x, b, r) \in Value /\ NewValue(M, x, b, r) \in Int
         /\ M.diag[r] % P # 0 =>
              Same(M.diag[r] * NewValue(M, x, b, r), b[r] - (Low(M, m, x, r) + Up(M, m, x, r)))
<1>1. PICK l \in Int, u \in Int, g \in Int : l = Low(M, m, x, r) /\ u = Up(M, m, x, r) /\ g = M.diag[r]
  BY LowUpInt
<1>2. PICK q \in Int : q = b[r]
  BY LowUpInt
<1>3. NewValue(M, x, b, r) = Over(q - ((l + u) % P), g)
  BY <1>1, <1>2, LowUpInt DEF NewValue
<1>4. PICK s \in Int : s = (l + u) % P
  BY <1>1, Remainder
<1>5. q - s \in Int
  OBVIOUS
<1>6. PICK v \in Value : v = Over(q - s, g) /\ (g % P # 0 => (g * v) % P = (q - s) % P)
  BY <1>1, <1>5, OverIs
<1>7. (q - ((l + u) % P)) % P = (q - (l + u)) % P
  BY <1>1, RemainderArithmetic
<1>8. v \in Int
  BY RemainderOfValue
<1> QED BY <1>1, <1>2, <1>3, <1>4, <1>6, <1>7, <1>8 DEF Same

\* one row of a sweep, and the sweep
SweepStep(M, b, x, r) == [x EXCEPT ![r] = NewValue(M, x, b, r)]
IsSweep(M, m, b, x, acc) ==
  /\ acc \in [0 .. m.n -> FieldOf(m)]
  /\ acc[0] = x
  /\ \A k \in 1 .. m.n : acc[k] = SweepStep(M, b, acc[k - 1], k - 1)
FwSweepOnce(M, b, x) ==
  FoldLeft(LAMBDA y, row : Table([y EXCEPT ![row] = NewValue(M, y, b, row)]), x, Upwards(M.n))

\* A row of a sweep leaves a field.
LEMMA SweepStepIs ==
  ASSUME NEW M, NEW m, IsPacked(M, m), NEW x \in FieldOf(m), NEW b \in FieldOf(m), NEW r \in CellsOf(m)
  PROVE  /\ SweepStep(M, b, x, r) \in FieldOf(m)
         /\ SweepStep(M, b, x, r)[r] = NewValue(M, x, b, r)
         /\ \A d \in CellsOf(m) : d # r => SweepStep(M, b, x, r)[d] = x[d]
<1>1. FieldOf(m) = [CellsOf(m) -> Value]
  BY FieldFacts DEF IsPacked, FieldOf
<1>2. NewValue(M, x, b, r) \in Value
  BY NewValueIs
<1> QED BY <1>1, <1>2 DEF SweepStep

\* A sweep goes through the rows one by one.
LEMMA SweepRuns ==
  ASSUME NEW M, NEW m, IsPacked(M, m), NEW b \in FieldOf(m), NEW x \in FieldOf(m)
  PROVE  \E acc : IsSweep(M, m, b, x, acc) /\ acc[m.n] = FwSweepOnce(M, b, x)
<1> DEFINE n == m.n
           Y == FieldOf(m)
           base == x
           F(i) == [T \in SUBSET (1 .. n) |->
                      IF T = {} THEN base ELSE Table(SweepStep(M, b, i[T \ {Max(T)}], Upwards(n)[Max(T)]))]
           it == CHOOSE i : i = F(i)
           h == [p \in (1 .. n) \X Y |-> SweepStep(M, b, p[2], p[1] - 1)]
<1>1. FwSweepOnce(M, b, x) = it[1 .. n]
  <2>1. FwSweepOnce(M, b, x) =
          (CHOOSE i : i = [T \in SUBSET (1 .. M.n) |->
             IF T = {} THEN x ELSE Table(SweepStep(M, b, i[T \ {Max(T)}], Upwards(M.n)[Max(T)]))])[1 .. M.n]
    BY DEF FwSweepOnce, SweepStep, FoldLeft, MapThenFoldSet, Upwards
  <2>2. M.n = n
    BY DEF IsPacked
  <2> HIDE DEF n
  <2> QED BY <2>1, <2>2
<1>2. n \in Nat /\ CellsOf(m) = 0 .. n - 1 /\ \A k \in 1 .. n : Upwards(n)[k] = k - 1
  BY FieldFacts DEF IsPacked, Upwards, CellsOf
<1>2a. n \in Nat
  BY <1>2
<1>3. base \in Y
  OBVIOUS
<1>4. \A k \in 1 .. n : k - 1 \in CellsOf(m)
  BY <1>2
<1>5. IsStep(n, Y, h)
  <2>1. \A k \in 1 .. n : \A y \in Y : SweepStep(M, b, y, k - 1) \in Y
    BY <1>4, SweepStepIs
  <2> QED BY <2>1 DEF IsStep
<1>6. \A T \in SUBSET (1 .. n) : T # {} => Max(T) \in 1 .. n
  BY <1>2, LastPlace
<1>7. ASSUME NEW i PROVE Follows(n, Y, base, h, i, F(i))
  <2>1. ASSUME NEW T \in SUBSET (1 .. n), T # {}, i[T \ {Max(T)}] \in Y
        PROVE  F(i)[T] = FoldStep(h, base, i, T)
    <3>1. PICK k \in 1 .. n, y \in Y : k = Max(T) /\ y = i[T \ {Max(T)}]
      BY <1>6, <2>1
    <3>2. F(i)[T] = SweepStep(M, b, y, k - 1)
      BY <1>2, <2>1, <3>1, TableIs
    <3>3. h[<<k, y>>] = SweepStep(M, b, y, k - 1)
      OBVIOUS
    <3> HIDE DEF F, h
    <3> QED BY <2>1, <3>1, <3>2, <3>3 DEF FoldStep
  <2>2. F(i)[{}] = FoldStep(h, base, i, {}) /\ F(i) = [T \in SUBSET (1 .. n) |-> F(i)[T]]
    BY DEF FoldStep
  <2> HIDE DEF F, h
  <2> QED BY <2>1, <2>2 DEF Follows
<1>8. \A k \in 1 .. n : \A y \in Y : h[<<k, y>>] = SweepStep(M, b, y, k - 1)
  OBVIOUS
<1> HIDE DEF h, base, Y, n, F
<1>9. \E i : i = F(i)
  BY <1>2a, <1>3, <1>5, <1>7, FoldsExist, FoldFollows
<1>10. it = F(it)
  BY <1>9
<1> HIDE DEF it
<1>11. TakesLast(n, Y, base, h, it)
  BY <1>2a, <1>3, <1>5, <1>7, <1>10, FoldFollows
<1>12. PICK acc : IsLoop(n, Y, base, h, acc) /\ acc[n] = it[1 .. n]
  BY <1>2a, <1>3, <1>5, <1>11, FoldRuns
<1>13. \A k \in 1 .. n : acc[k] = SweepStep(M, b, acc[k - 1], k - 1)
  <2>1. \A k \in 1 .. n : acc[k - 1] \in Y /\ acc[k] = h[<<k, acc[k - 1]>>]
    BY <1>2, <1>12 DEF IsLoop
  <2> QED BY <1>8, <2>1
<1>14. acc \in [0 .. n -> Y] /\ acc[0] = base
  BY <1>12 DEF IsLoop
<1> QED BY <1>1, <1>12, <1>13, <1>14 DEF IsSweep, n, Y, base

\* fields of which each comes from the one before by a change in the next row
RowByRow(m, acc) ==
  /\ acc \in [0 .. m.n -> FieldOf(m)]
  /\ \A k \in 1 .. m.n : \A c \in CellsOf(m) : c # k - 1 => acc[k][c] = acc[k - 1][c]

\* The rows before the current one are as they will be at the end, the others
\* still as they were.
LEMMA RowsChangeOnce ==
  ASSUME NEW m, GoodMatrix(m), NEW acc, RowByRow(m, acc), NEW d \in CellsOf(m)
  PROVE  \A k \in 0 .. m.n : /\ k <= d => acc[k][d] = acc[0][d]
                             /\ d < k => acc[k][d] = acc[m.n][d]
<1>1. PICK n \in Nat : n = m.n /\ CellsOf(m) = 0 .. n - 1
  BY FieldFacts DEF CellsOf
<1>2. PICK e \in Nat : e = d /\ e + 1 <= n
  BY <1>1
<1>3. \A k \in 1 .. n : \A c \in CellsOf(m) : c # k - 1 => acc[k][c] = acc[k - 1][c]
  BY <1>1 DEF RowByRow
<1> DEFINE old == {k \in Nat : k <= e => acc[k][d] = acc[0][d]}
           new == {j \in Nat : (e + 1) + j <= n => acc[(e + 1) + j][d] = acc[e + 1][d]}
<1>4. ASSUME NEW k \in Nat PROVE k \in old
  <2>1. 0 \in old
    OBVIOUS
  <2>2. ASSUME NEW j \in Nat, j \in old PROVE j + 1 \in old
    <3>1. CASE j + 1 <= e
      <4>1. PICK i : i = j + 1
        OBVIOUS
      <4>2. i \in 1 .. n /\ i - 1 = j /\ j <= e /\ d # i - 1
        BY <1>2, <3>1, <4>1
      <4>3. acc[i][d] = acc[j][d] /\ acc[j][d] = acc[0][d]
        BY <1>3, <2>2, <4>2
      <4> QED BY <4>1, <4>3
    <3> QED BY <3>1
  <2> HIDE DEF old
  <2> QED BY <2>1, <2>2, NumberInduction
<1>5. ASSUME NEW k \in Nat PROVE k \in new
  <2>1. 0 \in new
    BY <1>2
  <2>2. ASSUME NEW j \in Nat, j \in new PROVE j + 1 \in new
    <3>1. CASE (e + 1) + (j + 1) <= n
      <4>1. PICK i : i = (e + 1) + (j + 1)
        OBVIOUS
      <4>2. i \in 1 .. n /\ i - 1 = (e + 1) + j /\ (e + 1) + j <= n /\ d # i - 1
        BY <1>2, <3>1, <4>1
      <4>3. acc[i][d] = acc[i - 1][d]
        BY <1>3, <4>2
      <4>4. acc[(e + 1) + j][d] = acc[e + 1][d]
        BY <2>2, <4>2
      <4> QED BY <4>1, <4>2, <4>3, <4>4
    <3> QED BY <3>1
  <2> HIDE DEF new
  <2> QED BY <2>1, <2>2, NumberInduction
<1>6. ASSUME NEW k \in 0 .. n, d < k PROVE acc[k][d] = acc[e + 1][d]
  <2>1. PICK j \in Nat : (e + 1) + j = k
    <3>1. k - (e + 1) \in Nat /\ (e + 1) + (k - (e + 1)) = k
      BY <1>2, <1>6
    <3> QED BY <3>1
  <2>2. (e + 1) + j <= n
    BY <2>1
  <2> QED BY <1>5, <2>1, <2>2
<1>7. n \in 0 .. n /\ d < n
  BY <1>2
<1> QED BY <1>1, <1>2, <1>4, <1>6, <1>7

\* During a sweep the rows before the current one have their new values, the
\* others still the old ones.
LEMMA SweepPlaces ==
  ASSUME NEW M, NEW m, IsPacked(M, m), NEW x \in FieldOf(m), NEW b \in FieldOf(m),
         NEW acc, IsSweep(M, m, b, x, acc), NEW d \in CellsOf(m)
  PROVE  \A k \in 0 .. m.n : /\ k <= d => acc[k][d] = x[d]
                             /\ d < k => acc[k][d] = acc[m.n][d]
<1>1. PICK n \in Nat : n = m.n /\ CellsOf(m) = 0 .. n - 1
  BY FieldFacts DEF IsPacked, CellsOf
<1>2. GoodMatrix(m)
  BY DEF IsPacked
<1>3. \A k \in 1 .. n : \A c \in CellsOf(m) : c # k - 1 => acc[k][c] = acc[k - 1][c]
  <2>1. ASSUME NEW k \in 1 .. n PROVE \A c \in CellsOf(m) : c # k - 1 => acc[k][c] = acc[k - 1][c]
    <3>1. PICK j \in CellsOf(m) : j = k - 1
      BY <1>1
    <3>1a. k - 1 \in 0 .. m.n /\ k \in 1 .. m.n
      BY <1>1
    <3>1b. acc \in [0 .. m.n -> FieldOf(m)]
      BY DEF IsSweep
    <3>2. PICK y \in FieldOf(m) : y = acc[k - 1]
      BY <3>1a, <3>1b
    <3>3. acc[k] = SweepStep(M, b, y, j)
      BY <1>1, <3>1, <3>2 DEF IsSweep
    <3>4. \A c \in CellsOf(m) : c # j => SweepStep(M, b, y, j)[c] = y[c]
      BY SweepStepIs
    <3> QED BY <3>1, <3>2, <3>3, <3>4
  <2> QED BY <2>1
<1>4. RowByRow(m, acc) /\ acc[0] = x
  BY <1>1, <1>3 DEF IsSweep, RowByRow
<1>5. \A k \in 0 .. m.n : /\ k <= d => acc[k][d] = acc[0][d]
                          /\ d < k => acc[k][d] = acc[m.n][d]
  BY <1>2, <1>4, RowsChangeOnce
<1> QED BY <1>4, <1>5

\* Each row of the result solves its equation with the new values before it and
\* the old ones after it.
LEMMA SweepRow ==
  ASSUME NEW M, NEW m, IsPacked(M, m), NEW x \in FieldOf(m), NEW b \in FieldOf(m),
         NEW acc, IsSweep(M, m, b, x, acc), NEW r \in CellsOf(m), NEW y, y = acc[m.n]
  PROVE  /\ y \in FieldOf(m) /\ acc[r] \in FieldOf(m)
         /\ acc[r + 1] = SweepStep(M, b, acc[r], r)
         /\ y[r] = NewValue(M, acc[r], b, r) /\ acc[r][r] = x[r]
         /\ Low(M, m, acc[r], r) = Low(M, m, y, r) /\ Up(M, m, acc[r], r) = Up(M, m, x, r)
         /\ M.diag[r] % P # 0 => Same(M.diag[r] * y[r], b[r] - (Low(M, m, y, r) + Up(M, m, x, r)))
<1>1. PICK n \in Nat : n = m.n /\ CellsOf(m) = 0 .. n - 1
  BY FieldFacts DEF IsPacked, CellsOf
<1>2. r \in 0 .. n /\ r + 1 \in 0 .. n /\ r + 1 \in 1 .. n /\ (r + 1) - 1 = r /\ n \in 0 .. n
      /\ r <= r /\ r < r + 1
  BY <1>1
<1>3. y \in FieldOf(m) /\ acc[r] \in FieldOf(m)
  BY <1>1, <1>2 DEF IsSweep
<1>4. acc[r + 1] = SweepStep(M, b, acc[r], r)
  BY <1>1, <1>2 DEF IsSweep
<1>5. y[r] = NewValue(M, acc[r], b, r)
  <2>1. \A k \in 0 .. n : r < k => acc[k][r] = acc[n][r]
    <3>1. \A k \in 0 .. m.n : /\ k <= r => acc[k][r] = x[r]
                              /\ r < k => acc[k][r] = acc[m.n][r]
      BY SweepPlaces
    <3>2. n = m.n
      BY <1>1
    <3> QED BY ONLY <3>1, <3>2
  <2>2. acc[r + 1][r] = y[r]
    BY <1>1, <1>2, <2>1
  <2>3. SweepStep(M, b, acc[r], r)[r] = NewValue(M, acc[r], b, r)
    <3>1. PICK z \in FieldOf(m) : z = acc[r]
      BY <1>3
    <3>2. SweepStep(M, b, z, r)[r] = NewValue(M, z, b, r)
      BY SweepStepIs
    <3> QED BY <3>1, <3>2
  <2> QED BY <1>4, <2>2, <2>3
<1>6. ASSUME NEW d \in CellsOf(m), d < r PROVE acc[r][d] = y[d]
  <2>1. \A k \in 0 .. m.n : /\ k <= d => acc[k][d] = x[d]
                            /\ d < k => acc[k][d] = acc[m.n][d]
    BY SweepPlaces
  <2> QED BY <1>1, <1>2, <1>6, <2>1
<1>7. \A d \in CellsOf(m) : d >= r => acc[r][d] = x[d]
  <2>1. ASSUME NEW d \in CellsOf(m), d >= r PROVE r <= d
    BY <1>1, <2>1
  <2>2. \A d \in CellsOf(m) : \A k \in 0 .. m.n : k <= d => acc[k][d] = x[d]
    BY SweepPlaces
  <2> QED BY <1>1, <1>2, <2>1, <2>2
<1>8. Low(M, m, acc[r], r) = Low(M, m, y, r)
  BY <1>3, <1>6, LowLocal
<1>9. Up(M, m, acc[r], r) = Up(M, m, x, r)
  <2>1. \A d \in CellsOf(m) : d > r => acc[r][d] = x[d]
    BY <1>1, <1>7
  <2> QED BY <1>3, <2>1, UpLocal
<1>10. M.diag[r] % P # 0 => Same(M.diag[r] * y[r], b[r] - (Low(M, m, y, r) + Up(M, m, x, r)))
  BY <1>3, <1>5, <1>8, <1>9, NewValueIs
<1>11. acc[r][r] = x[r]
  BY <1>1, <1>7
<1> QED BY <1>3, <1>4, <1>5, <1>8, <1>9, <1>10, <1>11

\* There is one sweep.
LEMMA SweepsAgree ==
  ASSUME NEW M, NEW m, IsPacked(M, m), NEW x \in FieldOf(m), NEW b \in FieldOf(m),
         NEW acc, IsSweep(M, m, b, x, acc), NEW bcc, IsSweep(M, m, b, x, bcc)
  PROVE  \A k \in 0 .. m.n : acc[k] = bcc[k]
<1>1. PICK n \in Nat : n = m.n
  BY FieldFacts DEF IsPacked
<1> DEFINE good == {k \in Nat : k <= n => acc[k] = bcc[k]}
<1>2. 0 \in good
  BY DEF IsSweep
<1>3. ASSUME NEW k \in Nat, k \in good PROVE k + 1 \in good
  <2>1. CASE k + 1 <= n
    <3>1. PICK i : i = k + 1
      OBVIOUS
    <3>2. i \in 1 .. n /\ i - 1 = k /\ k <= n
      BY <2>1, <3>1
    <3>3. acc[k] = bcc[k]
      BY <1>3, <3>2
    <3>4. acc[i] = bcc[i]
      BY <1>1, <3>2, <3>3 DEF IsSweep
    <3> QED BY <3>1, <3>4
  <2> QED BY <2>1
<1>4. ASSUME NEW k \in Nat PROVE k \in good
  <2> HIDE DEF good
  <2> QED BY <1>2, <1>3, NumberInduction
<1> QED BY <1>1, <1>4

\* A sweep leaves a field.
LEMMA FwSweepField ==
  ASSUME NEW M, NEW m, IsPacked(M, m), NEW x \in FieldOf(m), NEW b \in FieldOf(m)
  PROVE  FwSweepOnce(M, b, x) \in FieldOf(m)
<1>1. PICK n \in Nat : n = m.n
  BY FieldFacts DEF IsPacked
<1>2. PICK acc : IsSweep(M, m, b, x, acc) /\ acc[n] = FwSweepOnce(M, b, x)
  BY <1>1, SweepRuns
<1> QED BY <1>1, <1>2 DEF IsSweep

\* the sweeps of the smoother
Sweeps(M, m, b, x, n, acc) ==
  /\ acc \in [0 .. n -> FieldOf(m)] /\ acc[0] = x
  /\ \A k \in 1 .. n : acc[k] = FwSweepOnce(M, b, acc[k - 1])

\* The smoother makes its sweeps one after the other.
LEMMA SmootherRuns ==
  ASSUME NEW M, NEW m, IsPacked(M, m), NEW b \in FieldOf(m), NEW x \in FieldOf(m),
         NEW nSweeps \in Int, NEW n \in Nat, 1 .. nSweeps = 1 .. n
  PROVE  \E acc : Sweeps(M, m, b, x, n, acc) /\ acc[n] = FwSmooth(M, x, b, nSweeps)
<1> DEFINE Y == FieldOf(m)
           F(i) == [T \in SUBSET (1 .. n) |->
                      IF T = {} THEN x ELSE FwSweepOnce(M, b, i[T \ {Max(T)}])]
           it == CHOOSE i : i = F(i)
           h == [p \in (1 .. n) \X Y |-> FwSweepOnce(M, b, p[2])]
<1>1. FwSmooth(M, x, b, nSweeps) = it[1 .. n]
  <2>1. FwSmooth(M, x, b, nSweeps) =
          (CHOOSE i : i = [T \in SUBSET (1 .. nSweeps) |->
             IF T = {} THEN x ELSE FwSweepOnce(M, b, i[T \ {Max(T)}])])[1 .. nSweeps]
    BY DEF FwSmooth, FwSweepOnce, FoldLeft, MapThenFoldSet, Upwards
  <2> QED BY <2>1
<1>2. x \in Y
  OBVIOUS
<1>5. IsStep(n, Y, h)
  <2>1. \A y \in Y : FwSweepOnce(M, b, y) \in Y
    BY FwSweepField
  <2> QED BY <2>1 DEF IsStep
<1>6. \A T \in SUBSET (1 .. n) : T # {} => Max(T) \in 1 .. n
  BY LastPlace
<1>7. ASSUME NEW i PROVE Follows(n, Y, x, h, i, F(i))
  <2>1. ASSUME NEW T \in SUBSET (1 .. n), T # {}, i[T \ {Max(T)}] \in Y
        PROVE  F(i)[T] = FoldStep(h, x, i, T)
    <3>1. PICK k \in 1 .. n, y \in Y : k = Max(T) /\ y = i[T \ {Max(T)}]
      BY <1>6, <2>1
    <3>2. F(i)[T] = FwSweepOnce(M, b, y)
      BY <2>1, <3>1
    <3>3. h[<<k, y>>] = FwSweepOnce(M, b, y)
      OBVIOUS
    <3> HIDE DEF F, h
    <3> QED BY <2>1, <3>1, <3>2, <3>3 DEF FoldStep
  <2>2. F(i)[{}] = FoldStep(h, x, i, {}) /\ F(i) = [T \in SUBSET (1 .. n) |-> F(i)[T]]
    BY DEF FoldStep
  <2> HIDE DEF F, h
  <2> QED BY <2>1, <2>2 DEF Follows
<1>7a. \A k \in 1 .. n : \A y \in Y : h[<<k, y>>] = FwSweepOnce(M, b, y)
  OBVIOUS
<1> HIDE DEF h, Y, F
<1>8. \E i : i = F(i)
  BY <1>2, <1>5, <1>7, FoldsExist, FoldFollows
<1>9. it = F(it)
  BY <1>8
<1> HIDE DEF it
<1>10. TakesLast(n, Y, x, h, it)
  BY <1>2, <1>5, <1>7, <1>9, FoldFollows
<1>11. PICK acc : IsLoop(n, Y, x, h, acc) /\ acc[n] = it[1 .. n]
  BY <1>2, <1>5, <1>10, FoldRuns
<1>12. \A k \in 1 .. n : acc[k] = FwSweepOnce(M, b, acc[k - 1])
  <2>1. \A k \in 1 .. n : acc[k - 1] \in Y /\ acc[k] = h[<<k, acc[k - 1]>>]
    BY <1>11 DEF IsLoop
  <2> QED BY <1>7a, <2>1
<1>13. acc \in [0 .. n -> Y] /\ acc[0] = x
  BY <1>11 DEF IsLoop
<1> QED BY <1>1, <1>11, <1>12, <1>13 DEF Sweeps, Y

\* Smoothing leaves a field,
LEMMA FwSmoothField ==
  ASSUME NEW M, NEW m, IsPacked(M, m), NEW x \in FieldOf(m), NEW b \in FieldOf(m), NEW nSweeps \in Int
  PROVE  FwSmooth(M, x, b, nSweeps) \in FieldOf(m)
<1>1. PICK n \in Nat : 1 .. nSweeps = 1 .. n
  <2>1. CASE nSweeps < 0
    <3>1. 1 .. nSweeps = 1 .. 0
      BY <2>1
    <3> QED BY <3>1
  <2>2. CASE nSweeps >= 0
    <3>1. nSweeps \in Nat
      BY <2>2
    <3> QED BY <3>1
  <2> QED BY <2>1, <2>2
<1>2. PICK acc : Sweeps(M, m, b, x, n, acc) /\ acc[n] = FwSmooth(M, x, b, nSweeps)
  BY <1>1, SmootherRuns
<1> QED BY <1>2 DEF Sweeps

\* and the last sweep may be made apart.
LEMMA LastSweep ==
  ASSUME NEW M, NEW m, IsPacked(M, m), NEW x \in FieldOf(m), NEW b \in FieldOf(m),
         NEW n \in Nat, n > 0
  PROVE  FwSmooth(M, x, b, n) = FwSweepOnce(M, b, FwSmooth(M, x, b, n - 1))
<1>1. PICK l \in Nat : l = n - 1
  OBVIOUS
<1>2. PICK acc : Sweeps(M, m, b, x, n, acc) /\ acc[n] = FwSmooth(M, x, b, n)
  BY SmootherRuns
<1>3. PICK bcc : Sweeps(M, m, b, x, l, bcc) /\ bcc[l] = FwSmooth(M, x, b, l)
  BY SmootherRuns
<1> DEFINE good == {k \in Nat : k <= l => acc[k] = bcc[k]}
<1>4. 0 \in good
  BY <1>2, <1>3 DEF Sweeps
<1>5. ASSUME NEW k \in Nat, k \in good PROVE k + 1 \in good
  <2>1. CASE k + 1 <= l
    <3>1. PICK i : i = k + 1
      OBVIOUS
    <3>2. i \in 1 .. n /\ i \in 1 .. l /\ i - 1 = k /\ k <= l
      BY <1>1, <2>1, <3>1
    <3>3. acc[k] = bcc[k]
      BY <1>5, <3>2
    <3>4. acc[i] = bcc[i]
      BY <1>2, <1>3, <3>2, <3>3 DEF Sweeps
    <3> QED BY <3>1, <3>4
  <2> QED BY <2>1
<1>6. l \in good
  <2> HIDE DEF good
  <2> QED BY <1>4, <1>5, NumberInduction
<1>7. acc[l] = bcc[l]
  BY <1>6
<1>8. n \in 1 .. n
  OBVIOUS
<1>9. acc[n] = FwSweepOnce(M, b, acc[n - 1])
  BY <1>2, <1>8 DEF Sweeps
<1> QED BY <1>1, <1>2, <1>3, <1>7, <1>9

-----------------------------------------------------------------------------
(* The last sweep, when it keeps what it changes.                          *)

FusedStates(m) == [psi : FieldOf(m), matrixPsi : FieldOf(m)]

\* the row as the kernel has it, and as a change of two fields
DeltaRow(M, b, s, row) ==
  LET value == NewValue(M, s.psi, b, row)
  IN  [psi |-> Table([s.psi EXCEPT ![row] = value]),
       matrixPsi |-> Table([s.matrixPsi EXCEPT ![row] = (value - s.psi[row]) % P])]
DeltaStep(M, b, s, r) ==
  [psi |-> SweepStep(M, b, s.psi, r),
   matrixPsi |-> [s.matrixPsi EXCEPT ![r] = (NewValue(M, s.psi, b, r) - s.psi[r]) % P]]

\* The one is the other, and leaves fields.
LEMMA DeltaStepIs ==
  ASSUME NEW M, NEW m, IsPacked(M, m), NEW b \in FieldOf(m), NEW s \in FusedStates(m), NEW r \in CellsOf(m)
  PROVE  /\ DeltaRow(M, b, s, r) = DeltaStep(M, b, s, r)
         /\ DeltaStep(M, b, s, r) \in FusedStates(m)
         /\ DeltaStep(M, b, s, r).psi = SweepStep(M, b, s.psi, r)
         /\ DeltaStep(M, b, s, r).matrixPsi[r] = (NewValue(M, s.psi, b, r) - s.psi[r]) % P
         /\ \A d \in CellsOf(m) : d # r => DeltaStep(M, b, s, r).matrixPsi[d] = s.matrixPsi[d]
<1>1. FieldOf(m) = [CellsOf(m) -> Value]
  BY FieldFacts DEF IsPacked, FieldOf
<1>2. PICK x \in FieldOf(m), y \in FieldOf(m) : x = s.psi /\ y = s.matrixPsi
  BY DEF FusedStates
<1>3. PICK v \in Value : v = (NewValue(M, x, b, r) - x[r]) % P
  <2>1. NewValue(M, x, b, r) \in Int /\ x[r] \in Int
    BY NewValueIs, LowUpInt
  <2>2. NewValue(M, x, b, r) - x[r] \in Int
    BY <2>1
  <2> QED BY <2>2, Remainder
<1>4. PICK z \in FieldOf(m) : z = SweepStep(M, b, x, r)
  BY SweepStepIs
<1>5. DeltaStep(M, b, s, r) = [psi |-> z, matrixPsi |-> [y EXCEPT ![r] = v]]
  BY <1>2, <1>3, <1>4 DEF DeltaStep
<1>6. DeltaRow(M, b, s, r) = DeltaStep(M, b, s, r)
  BY TableIs DEF DeltaRow, DeltaStep, SweepStep
<1>7. [y EXCEPT ![r] = v] \in FieldOf(m) /\ [y EXCEPT ![r] = v][r] = v
      /\ \A d \in CellsOf(m) : d # r => [y EXCEPT ![r] = v][d] = y[d]
  BY <1>1
<1> QED BY <1>2, <1>3, <1>4, <1>5, <1>6, <1>7 DEF FusedStates

DeltaRun(M, m, b, x, acc) ==
  /\ acc \in [0 .. m.n -> FusedStates(m)]
  /\ acc[0] = [psi |-> x, matrixPsi |-> ZeroField(M.n)]
  /\ \A k \in 1 .. m.n : acc[k] = DeltaStep(M, b, acc[k - 1], k - 1)

\* The sweep goes through the rows one by one.
LEMMA DeltaRuns ==
  ASSUME NEW M, NEW m, IsPacked(M, m), NEW b \in FieldOf(m), NEW x \in FieldOf(m)
  PROVE  \E acc : DeltaRun(M, m, b, x, acc) /\ acc[m.n] = DeltaSweep(M, x, b)
<1> DEFINE n == m.n
           Y == FusedStates(m)
           base == [psi |-> x, matrixPsi |-> ZeroField(M.n)]
           F(i) == [T \in SUBSET (1 .. n) |->
                      IF T = {} THEN base ELSE DeltaRow(M, b, i[T \ {Max(T)}], Upwards(n)[Max(T)])]
           it == CHOOSE i : i = F(i)
           h == [p \in (1 .. n) \X Y |-> DeltaStep(M, b, p[2], p[1] - 1)]
<1>1. DeltaSweep(M, x, b) = it[1 .. n]
  <2>1. DeltaSweep(M, x, b) =
          (CHOOSE i : i = [T \in SUBSET (1 .. M.n) |->
             IF T = {} THEN base ELSE DeltaRow(M, b, i[T \ {Max(T)}], Upwards(M.n)[Max(T)])])[1 .. M.n]
    BY DEF DeltaSweep, DeltaRow, FoldLeft, MapThenFoldSet, Upwards
  <2>2. M.n = n
    BY DEF IsPacked
  <2> HIDE DEF n, base
  <2> QED BY <2>1, <2>2
<1>2. n \in Nat /\ CellsOf(m) = 0 .. n - 1 /\ \A k \in 1 .. n : Upwards(n)[k] = k - 1
  BY FieldFacts DEF IsPacked, Upwards, CellsOf
<1>2a. n \in Nat
  BY <1>2
<1>3. base \in Y
  BY SimpleFields DEF IsPacked, FusedStates
<1>4. \A k \in 1 .. n : k - 1 \in CellsOf(m)
  BY <1>2
<1>5. IsStep(n, Y, h)
  <2>1. \A k \in 1 .. n : \A y \in Y : DeltaStep(M, b, y, k - 1) \in Y
    BY <1>4, DeltaStepIs
  <2> QED BY <2>1 DEF IsStep
<1>6. \A T \in SUBSET (1 .. n) : T # {} => Max(T) \in 1 .. n
  BY <1>2, LastPlace
<1>7. ASSUME NEW i PROVE Follows(n, Y, base, h, i, F(i))
  <2>1. ASSUME NEW T \in SUBSET (1 .. n), T # {}, i[T \ {Max(T)}] \in Y
        PROVE  F(i)[T] = FoldStep(h, base, i, T)
    <3>1. PICK k \in 1 .. n, y \in Y : k = Max(T) /\ y = i[T \ {Max(T)}]
      BY <1>6, <2>1
    <3>2. F(i)[T] = DeltaStep(M, b, y, k - 1)
      <4>1. F(i)[T] = DeltaRow(M, b, y, k - 1)
        BY <1>2, <2>1, <3>1
      <4>2. PICK r \in CellsOf(m) : r = k - 1
        BY <1>4, <3>1
      <4>3. DeltaRow(M, b, y, r) = DeltaStep(M, b, y, r)
        BY DeltaStepIs
      <4> QED BY <4>1, <4>2, <4>3
    <3>3. h[<<k, y>>] = DeltaStep(M, b, y, k - 1)
      OBVIOUS
    <3> HIDE DEF F, h
    <3> QED BY <2>1, <3>1, <3>2, <3>3 DEF FoldStep
  <2>2. F(i)[{}] = FoldStep(h, base, i, {}) /\ F(i) = [T \in SUBSET (1 .. n) |-> F(i)[T]]
    BY DEF FoldStep
  <2> HIDE DEF F, h
  <2> QED BY <2>1, <2>2 DEF Follows
<1>8. \A k \in 1 .. n : \A y \in Y : h[<<k, y>>] = DeltaStep(M, b, y, k - 1)
  OBVIOUS
<1> HIDE DEF h, base, Y, n, F
<1>9. \E i : i = F(i)
  BY <1>2a, <1>3, <1>5, <1>7, FoldsExist, FoldFollows
<1>10. it = F(it)
  BY <1>9
<1> HIDE DEF it
<1>11. TakesLast(n, Y, base, h, it)
  BY <1>2a, <1>3, <1>5, <1>7, <1>10, FoldFollows
<1>12. PICK acc : IsLoop(n, Y, base, h, acc) /\ acc[n] = it[1 .. n]
  BY <1>2a, <1>3, <1>5, <1>11, FoldRuns
<1>13. \A k \in 1 .. n : acc[k] = DeltaStep(M, b, acc[k - 1], k - 1)
  <2>1. \A k \in 1 .. n : acc[k - 1] \in Y /\ acc[k] = h[<<k, acc[k - 1]>>]
    BY <1>2, <1>12 DEF IsLoop
  <2> QED BY <1>8, <2>1
<1>14. acc \in [0 .. n -> Y] /\ acc[0] = base
  BY <1>12 DEF IsLoop
<1> QED BY <1>1, <1>12, <1>13, <1>14 DEF DeltaRun, n, Y, base

\* It is a sweep, and it keeps how much each row has changed.
LEMMA DeltaSweepIs ==
  ASSUME NEW M, NEW m, IsPacked(M, m), NEW b \in FieldOf(m), NEW x \in FieldOf(m)
  PROVE  \E acc : /\ IsSweep(M, m, b, x, acc) /\ DeltaSweep(M, x, b).psi = acc[m.n]
                  /\ DeltaSweep(M, x, b) \in FusedStates(m)
                  /\ \A r \in CellsOf(m) : DeltaSweep(M, x, b).matrixPsi[r] = (acc[m.n][r] - x[r]) % P
<1>1. PICK n \in Nat : n = m.n /\ CellsOf(m) = 0 .. n - 1
  BY FieldFacts DEF IsPacked, CellsOf
<1>2. PICK run : DeltaRun(M, m, b, x, run) /\ run[n] = DeltaSweep(M, x, b)
  BY <1>1, DeltaRuns
<1>3. /\ run \in [0 .. n -> FusedStates(m)] /\ run[0] = [psi |-> x, matrixPsi |-> ZeroField(M.n)]
      /\ \A k \in 1 .. n : run[k] = DeltaStep(M, b, run[k - 1], k - 1)
  BY <1>1, <1>2 DEF DeltaRun
<1> DEFINE acc == [k \in 0 .. n |-> run[k].psi]
           delta == [k \in 0 .. n |-> run[k].matrixPsi]
<1>4. \A k \in 0 .. n : acc[k] = run[k].psi /\ delta[k] = run[k].matrixPsi
                        /\ acc[k] \in FieldOf(m) /\ delta[k] \in FieldOf(m)
  BY <1>3 DEF FusedStates
<1>5. acc \in [0 .. n -> FieldOf(m)] /\ delta \in [0 .. n -> FieldOf(m)]
  BY <1>4
<1> HIDE DEF acc, delta
<1>6. ASSUME NEW k \in 1 .. n
      PROVE  /\ acc[k] = SweepStep(M, b, acc[k - 1], k - 1)
             /\ delta[k][k - 1] = (NewValue(M, acc[k - 1], b, k - 1) - acc[k - 1][k - 1]) % P
             /\ \A d \in CellsOf(m) : d # k - 1 => delta[k][d] = delta[k - 1][d]
  <2>1. PICK j \in CellsOf(m) : j = k - 1 /\ j \in 0 .. n /\ k \in 0 .. n
    BY <1>1
  <2>2. PICK s \in FusedStates(m) : s = run[j]
    BY <1>3, <2>1
  <2>3. run[k] = DeltaStep(M, b, s, j)
    BY <1>3, <2>1, <2>2
  <2>4. /\ DeltaStep(M, b, s, j).psi = SweepStep(M, b, s.psi, j)
        /\ DeltaStep(M, b, s, j).matrixPsi[j] = (NewValue(M, s.psi, b, j) - s.psi[j]) % P
        /\ \A d \in CellsOf(m) : d # j => DeltaStep(M, b, s, j).matrixPsi[d] = s.matrixPsi[d]
    BY DeltaStepIs
  <2>5. s.psi = acc[j] /\ s.matrixPsi = delta[j] /\ run[k].psi = acc[k] /\ run[k].matrixPsi = delta[k]
    BY <1>4, <2>1, <2>2
  <2> QED BY <2>1, <2>3, <2>4, <2>5
<1>7. IsSweep(M, m, b, x, acc)
  <2>1. acc[0] = x
    BY <1>3, <1>4
  <2> QED BY <1>1, <1>5, <1>6, <2>1 DEF IsSweep
<1>8. RowByRow(m, delta)
  BY <1>1, <1>5, <1>6 DEF RowByRow
<1>9. ASSUME NEW r \in CellsOf(m)
      PROVE  DeltaSweep(M, x, b).matrixPsi[r] = (acc[n][r] - x[r]) % P
  <2>1. PICK k \in 1 .. n : k = r + 1
    BY <1>1
  <2>2. k - 1 = r /\ r < k /\ k \in 0 .. n /\ n \in 0 .. n
    BY <1>1, <2>1
  <2>3. delta[k][r] = (NewValue(M, acc[r], b, r) - acc[r][r]) % P
    BY <1>6, <2>2
  <2>4. acc[n][r] = NewValue(M, acc[r], b, r) /\ acc[r][r] = x[r]
    BY <1>1, <1>7, SweepRow
  <2>5. \A i \in 0 .. m.n : /\ i <= r => delta[i][r] = delta[0][r]
                            /\ r < i => delta[i][r] = delta[m.n][r]
    BY <1>8, RowsChangeOnce DEF IsPacked
  <2>6. delta[k][r] = delta[n][r]
    BY <1>1, <2>2, <2>5
  <2>7. delta[n] = DeltaSweep(M, x, b).matrixPsi
    BY <1>2, <1>4, <2>2
  <2> QED BY <2>3, <2>4, <2>6, <2>7
<1>10. DeltaSweep(M, x, b).psi = acc[n] /\ DeltaSweep(M, x, b) \in FusedStates(m)
  <2>1. n \in 0 .. n
    BY <1>1
  <2> QED BY <1>2, <1>3, <1>4, <2>1
<1> QED BY <1>1, <1>7, <1>9, <1>10

\* edges that show, row by row, the faces the row owns
ShowsOutgoing(M, m, edgesOf) ==
  \A r \in CellsOf(m) :
    \E phi : Shows(edgesOf[r], phi, OwnedFaces(m, M.newToOld[r]), UpperRows(M, m), m)

\* Applied to a field they contribute what the rows after it do.
LEMMA OutgoingUp ==
  ASSUME NEW M, NEW m, IsPacked(M, m), NEW edgesOf, ShowsOutgoing(M, m, edgesOf),
         NEW x \in FieldOf(m), NEW r \in CellsOf(m)
  PROVE  Applied(edgesOf[r], x) = Up(M, m, x, r) % P
<1>1. PICK phi : Shows(edgesOf[r], phi, OwnedFaces(m, M.newToOld[r]), UpperRows(M, m), m)
  BY DEF ShowsOutgoing
<1>2. OwnedFaces(m, M.newToOld[r]) \in SUBSET FacesOf(m)
  BY SidesOf DEF IsPacked
<1> QED BY <1>1, <1>2, AppliedUppers DEF Up, FromUppers

\* one row of the correction, and the correction
CorrectStep(edgesOf, b, y, r) == [y EXCEPT ![r] = (b[r] + Applied(edgesOf[r], y)) % P]
CorrectionRun(M, m, edgesOf, b, y, acc) ==
  /\ acc \in [0 .. m.n -> FieldOf(m)]
  /\ acc[0] = y
  /\ \A k \in 1 .. m.n : acc[k] = CorrectStep(edgesOf, b, acc[k - 1], k - 1)

\* It leaves a field.
LEMMA CorrectStepIs ==
  ASSUME NEW M, NEW m, IsPacked(M, m), NEW edgesOf, ShowsOutgoing(M, m, edgesOf),
         NEW b \in FieldOf(m), NEW y \in FieldOf(m), NEW r \in CellsOf(m)
  PROVE  /\ CorrectStep(edgesOf, b, y, r) \in FieldOf(m)
         /\ CorrectStep(edgesOf, b, y, r)[r] = (b[r] + Up(M, m, y, r)) % P
         /\ \A d \in CellsOf(m) : d # r => CorrectStep(edgesOf, b, y, r)[d] = y[d]
<1>1. FieldOf(m) = [CellsOf(m) -> Value]
  BY FieldFacts DEF IsPacked, FieldOf
<1>2. PICK u \in Int, q \in Int : u = Up(M, m, y, r) /\ q = b[r]
  BY LowUpInt
<1>3. Applied(edgesOf[r], y) = u % P
  BY <1>2, OutgoingUp
<1>4. (q + (u % P)) % P = (q + u) % P
  BY RemainderArithmetic
<1>5. PICK v \in Value : v = (q + u) % P
  <2>1. q + u \in Int
    OBVIOUS
  <2> QED BY <2>1, Remainder
<1>6. CorrectStep(edgesOf, b, y, r) = [y EXCEPT ![r] = v]
  BY <1>2, <1>3, <1>4, <1>5 DEF CorrectStep
<1> QED BY <1>1, <1>2, <1>5, <1>6

\* The correction goes through the rows one by one.
LEMMA CorrectionRuns ==
  ASSUME NEW M, NEW m, IsPacked(M, m), NEW edgesOf, ShowsOutgoing(M, m, edgesOf),
         NEW b \in FieldOf(m), NEW x \in FieldOf(m)
  PROVE  \E acc : CorrectionRun(M, m, edgesOf, b, x, acc) /\ acc[m.n] = DeltaCorrection(M, edgesOf, b, x)
<1> DEFINE n == m.n
           Y == FieldOf(m)
           base == x
           F(i) == [T \in SUBSET (1 .. n) |->
                      IF T = {} THEN base ELSE Table(CorrectStep(edgesOf, b, i[T \ {Max(T)}], Upwards(n)[Max(T)]))]
           it == CHOOSE i : i = F(i)
           h == [p \in (1 .. n) \X Y |-> CorrectStep(edgesOf, b, p[2], p[1] - 1)]
<1>1. DeltaCorrection(M, edgesOf, b, x) = it[1 .. n]
  <2>1. DeltaCorrection(M, edgesOf, b, x) =
          (CHOOSE i : i = [T \in SUBSET (1 .. M.n) |->
             IF T = {} THEN x
             ELSE Table(CorrectStep(edgesOf, b, i[T \ {Max(T)}], Upwards(M.n)[Max(T)]))])[1 .. M.n]
    BY DEF DeltaCorrection, CorrectStep, FoldLeft, MapThenFoldSet, Upwards
  <2>2. M.n = n
    BY DEF IsPacked
  <2> HIDE DEF n
  <2> QED BY <2>1, <2>2
<1>2. n \in Nat /\ CellsOf(m) = 0 .. n - 1 /\ \A k \in 1 .. n : Upwards(n)[k] = k - 1
  BY FieldFacts DEF IsPacked, Upwards, CellsOf
<1>2a. n \in Nat
  BY <1>2
<1>3. base \in Y
  OBVIOUS
<1>4. \A k \in 1 .. n : k - 1 \in CellsOf(m)
  BY <1>2
<1>5. IsStep(n, Y, h)
  <2>1. \A k \in 1 .. n : \A y \in Y : CorrectStep(edgesOf, b, y, k - 1) \in Y
    BY <1>4, CorrectStepIs
  <2> QED BY <2>1 DEF IsStep
<1>6. \A T \in SUBSET (1 .. n) : T # {} => Max(T) \in 1 .. n
  BY <1>2, LastPlace
<1>7. ASSUME NEW i PROVE Follows(n, Y, base, h, i, F(i))
  <2>1. ASSUME NEW T \in SUBSET (1 .. n), T # {}, i[T \ {Max(T)}] \in Y
        PROVE  F(i)[T] = FoldStep(h, base, i, T)
    <3>1. PICK k \in 1 .. n, y \in Y : k = Max(T) /\ y = i[T \ {Max(T)}]
      BY <1>6, <2>1
    <3>2. F(i)[T] = CorrectStep(edgesOf, b, y, k - 1)
      BY <1>2, <2>1, <3>1, TableIs
    <3>3. h[<<k, y>>] = CorrectStep(edgesOf, b, y, k - 1)
      OBVIOUS
    <3> HIDE DEF F, h
    <3> QED BY <2>1, <3>1, <3>2, <3>3 DEF FoldStep
  <2>2. F(i)[{}] = FoldStep(h, base, i, {}) /\ F(i) = [T \in SUBSET (1 .. n) |-> F(i)[T]]
    BY DEF FoldStep
  <2> HIDE DEF F, h
  <2> QED BY <2>1, <2>2 DEF Follows
<1>8. \A k \in 1 .. n : \A y \in Y : h[<<k, y>>] = CorrectStep(edgesOf, b, y, k - 1)
  OBVIOUS
<1> HIDE DEF h, base, Y, n, F
<1>9. \E i : i = F(i)
  <2>1. PICK i : IsFold(n, Y, base, h, i)
    BY <1>2a, <1>3, <1>5, FoldsExist
  <2>2. Follows(n, Y, base, h, i, F(i))
    BY <1>7
  <2>3. i = F(i)
    BY <1>2a, <1>3, <1>5, <2>1, <2>2, FoldFollows
  <2> QED BY <2>3
<1>10. it = F(it)
  BY <1>9
<1> HIDE DEF it
<1>11. TakesLast(n, Y, base, h, it)
  BY <1>2a, <1>3, <1>5, <1>7, <1>10, FoldFollows
<1>12. PICK acc : IsLoop(n, Y, base, h, acc) /\ acc[n] = it[1 .. n]
  BY <1>2a, <1>3, <1>5, <1>11, FoldRuns
<1>13. \A k \in 1 .. n : acc[k] = CorrectStep(edgesOf, b, acc[k - 1], k - 1)
  <2>1. \A k \in 1 .. n : acc[k - 1] \in Y /\ acc[k] = h[<<k, acc[k - 1]>>]
    BY <1>2, <1>12 DEF IsLoop
  <2> QED BY <1>8, <2>1
<1>14. acc \in [0 .. n -> Y] /\ acc[0] = base
  BY <1>12 DEF IsLoop
<1> QED BY <1>1, <1>12, <1>13, <1>14 DEF CorrectionRun, n, Y, base

\* When a row is corrected, those after it still hold what they have changed.
LEMMA CorrectionIs ==
  ASSUME NEW M, NEW m, IsPacked(M, m), NEW edgesOf, ShowsOutgoing(M, m, edgesOf),
         NEW b \in FieldOf(m), NEW x \in FieldOf(m)
  PROVE  /\ DeltaCorrection(M, edgesOf, b, x) \in FieldOf(m)
         /\ \A r \in CellsOf(m) : DeltaCorrection(M, edgesOf, b, x)[r] = (b[r] + Up(M, m, x, r)) % P
<1>1. PICK n \in Nat : n = m.n /\ CellsOf(m) = 0 .. n - 1
  BY FieldFacts DEF IsPacked, CellsOf
<1>2. PICK acc : CorrectionRun(M, m, edgesOf, b, x, acc) /\ acc[n] = DeltaCorrection(M, edgesOf, b, x)
  BY <1>1, CorrectionRuns
<1>3. /\ acc \in [0 .. n -> FieldOf(m)] /\ acc[0] = x
      /\ \A k \in 1 .. n : acc[k] = CorrectStep(edgesOf, b, acc[k - 1], k - 1)
  BY <1>1, <1>2 DEF CorrectionRun
<1>4. ASSUME NEW k \in 1 .. n
      PROVE  /\ acc[k][k - 1] = (b[k - 1] + Up(M, m, acc[k - 1], k - 1)) % P
             /\ \A d \in CellsOf(m) : d # k - 1 => acc[k][d] = acc[k - 1][d]
  <2>1. PICK j \in CellsOf(m) : j = k - 1 /\ j \in 0 .. n
    BY <1>1
  <2>2. PICK y \in FieldOf(m) : y = acc[j]
    BY <1>3, <2>1
  <2>3. acc[k] = CorrectStep(edgesOf, b, y, j)
    BY <1>3, <2>1, <2>2
  <2>4. /\ CorrectStep(edgesOf, b, y, j)[j] = (b[j] + Up(M, m, y, j)) % P
        /\ \A d \in CellsOf(m) : d # j => CorrectStep(edgesOf, b, y, j)[d] = y[d]
    BY CorrectStepIs
  <2> QED BY <2>1, <2>2, <2>3, <2>4
<1>5. RowByRow(m, acc)
  BY <1>1, <1>3, <1>4 DEF RowByRow
<1>6. ASSUME NEW r \in CellsOf(m)
      PROVE  acc[n][r] = (b[r] + Up(M, m, x, r)) % P
  <2>1. PICK k \in 1 .. n : k = r + 1
    BY <1>1
  <2>2. k - 1 = r /\ r < k /\ k \in 0 .. n /\ n \in 0 .. n /\ r \in 0 .. n
    BY <1>1, <2>1
  <2>3. acc[k][r] = (b[r] + Up(M, m, acc[r], r)) % P
    BY <1>4, <2>2
  <2>4. \A d \in CellsOf(m) : \A i \in 0 .. m.n : /\ i <= d => acc[i][d] = acc[0][d]
                                                  /\ d < i => acc[i][d] = acc[m.n][d]
    BY <1>5, RowsChangeOnce DEF IsPacked
  <2>5. acc[k][r] = acc[n][r]
    BY <1>1, <2>2, <2>4
  <2>6. ASSUME NEW d \in CellsOf(m), d > r PROVE acc[r][d] = x[d]
    <3>1. r <= d
      BY <1>1, <2>6
    <3> QED BY <1>1, <1>3, <2>2, <2>4, <3>1
  <2>7. acc[r] \in FieldOf(m)
    BY <1>3, <2>2
  <2>8. Up(M, m, acc[r], r) = Up(M, m, x, r)
    BY <2>6, <2>7, UpLocal
  <2> QED BY <2>3, <2>5, <2>8
<1>7. acc[n] \in FieldOf(m)
  BY <1>1, <1>3
<1> QED BY <1>2, <1>6, <1>7

\* What the rows after r contribute to changes is the difference they make.
LEMMA UpOfChange ==
  ASSUME NEW M, NEW m, IsPacked(M, m), NEW x \in FieldOf(m), NEW y \in FieldOf(m), NEW z \in FieldOf(m),
         \A d \in CellsOf(m) : z[d] = (y[d] - x[d]) % P, NEW r \in CellsOf(m)
  PROVE  Same(Up(M, m, z, r), Up(M, m, y, r) - Up(M, m, x, r))
<1>1. PICK c \in CellsOf(m) : c = M.newToOld[r]
  BY DEF IsPacked
<1>2. GoodMatrix(m)
  BY DEF IsPacked
<1>3. PICK S : S = OwnedFaces(m, c) /\ IsFiniteSet(S) /\ S \in SUBSET FacesOf(m)
  BY <1>2, SidesOf
<1>4. PICK xN \in FieldOf(m), yN \in FieldOf(m) : xN = ToOriginal(M, x) /\ yN = ToOriginal(M, y)
  BY PackedFields
<1>5. PICK zN \in FieldOf(m) : zN = ToOriginal(M, z)
  BY PackedFields
<1>6. PICK a, b, h : a = TimesUpper(m, yN) /\ b = TimesUpper(m, xN) /\ h = TimesUpper(m, zN)
  OBVIOUS
<1>7. ASSUME NEW f \in S
      PROVE  a[f] \in Int /\ b[f] \in Int /\ h[f] \in Int /\ Same(h[f], a[f] - 1 * b[f])
  <2>1. a[f] \in Int /\ b[f] \in Int /\ h[f] \in Int
    BY <1>1, <1>2, <1>3, <1>6, RowSumInt
  <2>2. PICK e \in CellsOf(m), k \in Int : e = m.upper[f] /\ k = m.coeff[f]
    BY <1>2, <1>3, FieldFacts
  <2>3. PICK p \in Int, q \in Int : p = yN[e] /\ q = xN[e]
    BY <1>2, FieldFacts
  <2>4. zN[e] = (p - q) % P
    <3>1. M.oldToNew[e] \in CellsOf(m)
      BY DEF IsPacked
    <3>2. zN[e] = z[M.oldToNew[e]] /\ p = y[M.oldToNew[e]] /\ q = x[M.oldToNew[e]]
      BY <1>4, <1>5, <2>3, PackedFields
    <3> QED BY <3>1, <3>2
  <2>5. a[f] = k * p /\ b[f] = k * q /\ h[f] = k * ((p - q) % P)
    BY <1>3, <1>6, <2>2, <2>3, <2>4 DEF TimesUpper
  <2>6. PICK g \in Int : g = p - q
    OBVIOUS
  <2>7. (k * (g % P)) % P = (k * g) % P
    BY RemainderArithmetic
  <2>8. k * g = k * p - 1 * (k * q)
    BY <2>6
  <2> QED BY <2>1, <2>5, <2>6, <2>7, <2>8 DEF Same
<1>8. Same(SumOf(h, S), SumOf(a, S) - 1 * SumOf(b, S))
  BY <1>3, <1>7, SumCombined
<1>9. PICK u \in Int, v \in Int : u = SumOf(a, S) /\ v = SumOf(b, S)
  BY <1>3, <1>7, SumInt
<1>10. u - 1 * v = u - v
  OBVIOUS
<1> QED BY <1>1, <1>3, <1>4, <1>5, <1>6, <1>8, <1>9, <1>10 DEF Up, FromUppers

-----------------------------------------------------------------------------
(* The last sweep, when it adds up the product as it goes.                 *)

\* one row as a change of two fields
FusedStep(M, b, s, r) ==
  LET v == NewValue(M, s.psi, b, r)
  IN  [psi |-> SweepStep(M, b, s.psi, r),
       matrixPsi |-> [d \in Index(M) |->
         IF d = r THEN (M.diag[r] * v + Applied(M.incoming[r], s.psi)) % P
         ELSE (s.matrixPsi[d] + v * Weight(M.incoming[r], d)) % P]]

\* the faces that row d owns with their other end before row k, or in row k
OwnedBelow(M, m, d, k) == {f \in OwnedFaces(m, M.newToOld[d]) : UpperRows(M, m)[f] < k}
OwnedAt(M, m, d, k) == {f \in OwnedFaces(m, M.newToOld[d]) : UpperRows(M, m)[f] = k}

\* The incoming entries of row r that lead to row d are faces row d owns.
LEMMA IncomingWeight ==
  ASSUME NEW M, NEW m, IsPacked(M, m), NEW r \in CellsOf(m), NEW d \in CellsOf(m)
  PROVE  /\ Weight(M.incoming[r], d) = SumOf(m.coeff, OwnedAt(M, m, d, r)) % P
         /\ IsFiniteSet(OwnedAt(M, m, d, r)) /\ OwnedAt(M, m, d, r) \in SUBSET FacesOf(m)
         /\ SumOf(m.coeff, OwnedAt(M, m, d, r)) \in Int
<1>1. PICK a \in CellsOf(m), c \in CellsOf(m) : a = M.newToOld[d] /\ c = M.newToOld[r]
  BY DEF IsPacked
<1>2. GoodMatrix(m)
  BY DEF IsPacked
<1>3. AboveFaces(m, c) \in SUBSET FacesOf(m) /\ OwnedFaces(m, a) \in SUBSET FacesOf(m)
      /\ IsFiniteSet(OwnedFaces(m, a))
  BY <1>2, SidesOf
<1>4. Weight(M.incoming[r], d) = SumOf(m.coeff, Group(AboveFaces(m, c), LowerRows(M, m), d)) % P
  <2>1. Shows(M.incoming[r], EntryFaces(M.incoming[r]), AboveFaces(m, c), LowerRows(M, m), m)
    BY <1>1, SidesShown
  <2> QED BY <1>2, <1>3, <2>1, WeightIs
<1>5. Group(AboveFaces(m, c), LowerRows(M, m), d) = OwnedAt(M, m, d, r)
  <2>1. ASSUME NEW f \in FacesOf(m)
        PROVE  /\ LowerRows(M, m)[f] = d <=> m.lower[f] = a
               /\ UpperRows(M, m)[f] = r <=> m.upper[f] = c
    <3>1. m.lower[f] \in CellsOf(m) /\ m.upper[f] \in CellsOf(m)
      BY <1>2, FieldFacts
    <3>2. \A e \in CellsOf(m) : M.newToOld[M.oldToNew[e]] = e /\ M.oldToNew[M.newToOld[e]] = e
      BY DEF IsPacked
    <3> QED BY <1>1, <3>1, <3>2 DEF LowerRows, UpperRows
  <2> QED BY <1>1, <1>3, <2>1 DEF Group, OwnedAt, AboveFaces, OwnedFaces
<1>6. OwnedAt(M, m, d, r) \in SUBSET OwnedFaces(m, a)
  BY <1>1 DEF OwnedAt
<1>7. IsFiniteSet(OwnedAt(M, m, d, r))
  BY <1>3, <1>6, FS_Subset
<1>8. \A f \in OwnedAt(M, m, d, r) : m.coeff[f] \in Int
  BY <1>2, <1>3, <1>6, FieldFacts
<1> QED BY <1>3, <1>4, <1>5, <1>6, <1>7, <1>8, SumInt

\* A row of the fused sweep leaves fields.
LEMMA FusedStepIs ==
  ASSUME NEW M, NEW m, IsPacked(M, m), NEW b \in FieldOf(m), NEW s \in FusedStates(m), NEW r \in CellsOf(m)
  PROVE  /\ FusedSmoothRow(M, b, s, r) = FusedStep(M, b, s, r)
         /\ FusedStep(M, b, s, r) \in FusedStates(m)
         /\ FusedStep(M, b, s, r).psi = SweepStep(M, b, s.psi, r)
         /\ FusedStep(M, b, s, r).matrixPsi[r] = (M.diag[r] * NewValue(M, s.psi, b, r) + Low(M, m, s.psi, r)) % P
         /\ \A d \in CellsOf(m) : d # r =>
              FusedStep(M, b, s, r).matrixPsi[d] =
                (s.matrixPsi[d] + SumOf(m.coeff, OwnedAt(M, m, d, r)) * NewValue(M, s.psi, b, r)) % P
<1>1. FieldOf(m) = [CellsOf(m) -> Value] /\ Index(M) = CellsOf(m)
  BY FieldFacts DEF IsPacked, FieldOf, Index, CellsOf
<1>2. PICK x \in FieldOf(m), y \in FieldOf(m) : x = s.psi /\ y = s.matrixPsi
  BY DEF FusedStates
<1>3. PICK v \in Int : v = NewValue(M, x, b, r)
  BY NewValueIs
<1>4. PICK g \in Int, l \in Int : g = M.diag[r] /\ l = Low(M, m, x, r) /\ Applied(M.incoming[r], x) = l % P
  BY LowUpInt
<1>5. FusedSmoothRow(M, b, s, r) = FusedStep(M, b, s, r)
  BY TableIs DEF FusedSmoothRow, FusedStep, SweepStep, Weight
<1> DEFINE z == [d \in Index(M) |-> IF d = r THEN (g * v + Applied(M.incoming[r], x)) % P
                                    ELSE (y[d] + v * Weight(M.incoming[r], d)) % P]
<1>6. FusedStep(M, b, s, r) = [psi |-> SweepStep(M, b, x, r), matrixPsi |-> z]
  BY <1>2, <1>3, <1>4 DEF FusedStep
<1>7. z[r] = (g * v + l) % P /\ z[r] \in Value
  <2>1. PICK p \in Int : p = g * v
    OBVIOUS
  <2>2. (p + (l % P)) % P = (p + l) % P
    BY RemainderArithmetic
  <2>3. p + l \in Int
    OBVIOUS
  <2>4. (p + l) % P \in Value
    BY <2>3, Remainder
  <2>5. z[r] = (p + (l % P)) % P
    BY <1>1, <1>4, <2>1
  <2> HIDE DEF z
  <2> QED BY <2>1, <2>2, <2>4, <2>5
<1>8. ASSUME NEW d \in CellsOf(m), d # r
      PROVE  z[d] = (y[d] + SumOf(m.coeff, OwnedAt(M, m, d, r)) * v) % P /\ z[d] \in Value
  <2>1. PICK w \in Int : w = SumOf(m.coeff, OwnedAt(M, m, d, r)) /\ Weight(M.incoming[r], d) = w % P
    BY IncomingWeight
  <2>2. PICK q \in Int : q = y[d]
    BY LowUpInt
  <2>3. z[d] = (q + v * (w % P)) % P
    BY <1>1, <1>8, <2>1, <2>2
  <2> HIDE DEF z
  <2>4. PICK p \in Int : p = (w % P) /\ v * p \in Int
    <3>1. (w % P) \in Int
      BY <2>1, Remainder
    <3> QED BY <3>1
  <2>5. PICK t \in Int, u \in Int : t = v * p /\ u = w * v
    BY <2>4
  <2>6. t % P = u % P
    <3>1. (v * (w % P)) % P = (v * w) % P
      BY <2>1, RemainderArithmetic
    <3>2. v * w = w * v
      OBVIOUS
    <3> QED BY <2>4, <2>5, <3>1, <3>2
  <2>7. (q + t) % P = (q + u) % P
    <3>1. (q + (t % P)) % P = (q + t) % P /\ (q + (u % P)) % P = (q + u) % P
      BY RemainderArithmetic
    <3> QED BY <2>6, <3>1
  <2>8. q + u \in Int
    OBVIOUS
  <2>9. (q + u) % P \in Value
    BY <2>8, Remainder
  <2> QED BY <2>1, <2>2, <2>3, <2>4, <2>5, <2>7, <2>9
<1> HIDE DEF z
<1>9. z \in FieldOf(m)
  <2>1. z = [d \in CellsOf(m) |-> z[d]]
    BY <1>1 DEF z
  <2>2. \A d \in CellsOf(m) : z[d] \in Value
    BY <1>7, <1>8
  <2> QED BY <1>1, <2>1, <2>2
<1>10. SweepStep(M, b, x, r) \in FieldOf(m)
  BY SweepStepIs
<1>11. FusedStep(M, b, s, r) \in FusedStates(m)
  BY <1>6, <1>9, <1>10 DEF FusedStates
<1>12. FusedStep(M, b, s, r).psi = SweepStep(M, b, x, r) /\ FusedStep(M, b, s, r).matrixPsi = z
  BY <1>6
<1> QED BY <1>2, <1>3, <1>4, <1>5, <1>7, <1>8, <1>11, <1>12

FusedRun(M, m, b, x, acc) ==
  /\ acc \in [0 .. m.n -> FusedStates(m)]
  /\ acc[0] = [psi |-> x, matrixPsi |-> ZeroField(M.n)]
  /\ \A k \in 1 .. m.n : acc[k] = FusedStep(M, b, acc[k - 1], k - 1)

\* The sweep goes through the rows one by one.
LEMMA FusedRuns ==
  ASSUME NEW M, NEW m, IsPacked(M, m), NEW b \in FieldOf(m), NEW x \in FieldOf(m)
  PROVE  \E acc : FusedRun(M, m, b, x, acc) /\ acc[m.n] = IncomingHeld(M, x, b)
<1> DEFINE n == m.n
           Y == FusedStates(m)
           base == [psi |-> x, matrixPsi |-> ZeroField(M.n)]
           F(i) == [T \in SUBSET (1 .. n) |->
                      IF T = {} THEN base ELSE FusedSmoothRow(M, b, i[T \ {Max(T)}], Upwards(n)[Max(T)])]
           it == CHOOSE i : i = F(i)
           h == [p \in (1 .. n) \X Y |-> FusedStep(M, b, p[2], p[1] - 1)]
<1>1. IncomingHeld(M, x, b) = it[1 .. n]
  <2>1. IncomingHeld(M, x, b) =
          (CHOOSE i : i = [T \in SUBSET (1 .. M.n) |->
             IF T = {} THEN base
             ELSE FusedSmoothRow(M, b, i[T \ {Max(T)}], Upwards(M.n)[Max(T)])])[1 .. M.n]
    BY DEF IncomingHeld, FoldLeft, MapThenFoldSet, Upwards
  <2>2. M.n = n
    BY DEF IsPacked
  <2> HIDE DEF n, base
  <2> QED BY <2>1, <2>2
<1>2. n \in Nat /\ CellsOf(m) = 0 .. n - 1 /\ \A k \in 1 .. n : Upwards(n)[k] = k - 1
  BY FieldFacts DEF IsPacked, Upwards, CellsOf
<1>2a. n \in Nat
  BY <1>2
<1>3. base \in Y
  BY SimpleFields DEF IsPacked, FusedStates
<1>4. \A k \in 1 .. n : k - 1 \in CellsOf(m)
  BY <1>2
<1>5. IsStep(n, Y, h)
  <2>1. \A k \in 1 .. n : \A y \in Y : FusedStep(M, b, y, k - 1) \in Y
    BY <1>4, FusedStepIs
  <2> QED BY <2>1 DEF IsStep
<1>6. \A T \in SUBSET (1 .. n) : T # {} => Max(T) \in 1 .. n
  BY <1>2, LastPlace
<1>7. ASSUME NEW i PROVE Follows(n, Y, base, h, i, F(i))
  <2>1. ASSUME NEW T \in SUBSET (1 .. n), T # {}, i[T \ {Max(T)}] \in Y
        PROVE  F(i)[T] = FoldStep(h, base, i, T)
    <3>1. PICK k \in 1 .. n, y \in Y : k = Max(T) /\ y = i[T \ {Max(T)}]
      BY <1>6, <2>1
    <3>2. F(i)[T] = FusedStep(M, b, y, k - 1)
      <4>1. F(i)[T] = FusedSmoothRow(M, b, y, k - 1)
        BY <1>2, <2>1, <3>1
      <4>2. PICK r \in CellsOf(m) : r = k - 1
        BY <1>4, <3>1
      <4>3. FusedSmoothRow(M, b, y, r) = FusedStep(M, b, y, r)
        BY FusedStepIs
      <4> QED BY <4>1, <4>2, <4>3
    <3>3. h[<<k, y>>] = FusedStep(M, b, y, k - 1)
      OBVIOUS
    <3> HIDE DEF F, h
    <3> QED BY <2>1, <3>1, <3>2, <3>3 DEF FoldStep
  <2>2. F(i)[{}] = FoldStep(h, base, i, {}) /\ F(i) = [T \in SUBSET (1 .. n) |-> F(i)[T]]
    BY DEF FoldStep
  <2> HIDE DEF F, h
  <2> QED BY <2>1, <2>2 DEF Follows
<1>8. \A k \in 1 .. n : \A y \in Y : h[<<k, y>>] = FusedStep(M, b, y, k - 1)
  OBVIOUS
<1> HIDE DEF h, base, Y, n, F
<1>9. \E i : i = F(i)
  <2>1. PICK i : IsFold(n, Y, base, h, i)
    BY <1>2a, <1>3, <1>5, FoldsExist
  <2>2. Follows(n, Y, base, h, i, F(i))
    BY <1>7
  <2>3. i = F(i)
    BY <1>2a, <1>3, <1>5, <2>1, <2>2, FoldFollows
  <2> QED BY <2>3
<1>10. it = F(it)
  BY <1>9
<1> HIDE DEF it
<1>11. TakesLast(n, Y, base, h, it)
  BY <1>2a, <1>3, <1>5, <1>7, <1>10, FoldFollows
<1>12. PICK acc : IsLoop(n, Y, base, h, acc) /\ acc[n] = it[1 .. n]
  BY <1>2a, <1>3, <1>5, <1>11, FoldRuns
<1>13. \A k \in 1 .. n : acc[k] = FusedStep(M, b, acc[k - 1], k - 1)
  <2>1. \A k \in 1 .. n : acc[k - 1] \in Y /\ acc[k] = h[<<k, acc[k - 1]>>]
    BY <1>2, <1>12 DEF IsLoop
  <2> QED BY <1>8, <2>1
<1>14. acc \in [0 .. n -> Y] /\ acc[0] = base
  BY <1>12 DEF IsLoop
<1> QED BY <1>1, <1>12, <1>13, <1>14 DEF FusedRun, n, Y, base

\* what the rows after d, as far as they come before row k, contribute to it
UpBelow(M, m, y, d, k) == SumOf(TimesUpper(m, ToOriginal(M, y)), OwnedBelow(M, m, d, k))

\* Nothing up to row d, one row more with each k, and everything at the end.
LEMMA UpBelowIs ==
  ASSUME NEW M, NEW m, IsPacked(M, m), NEW y \in FieldOf(m), NEW d \in CellsOf(m), NEW k \in 0 .. m.n
  PROVE  /\ UpBelow(M, m, y, d, k) \in Int
         /\ k <= d + 1 => UpBelow(M, m, y, d, k) = 0
         /\ k = m.n => UpBelow(M, m, y, d, k) = Up(M, m, y, d)
         /\ k < m.n => UpBelow(M, m, y, d, k + 1)
                       = UpBelow(M, m, y, d, k) + SumOf(m.coeff, OwnedAt(M, m, d, k)) * y[k]
<1>1. PICK n \in Nat : n = m.n /\ CellsOf(m) = 0 .. n - 1
  BY FieldFacts DEF IsPacked, CellsOf
<1>2. PICK a \in CellsOf(m) : a = M.newToOld[d] /\ M.oldToNew[a] = d
  BY DEF IsPacked
<1>3. GoodMatrix(m) /\ k \in 0 .. n
  BY <1>1 DEF IsPacked
<1>3a. PICK yN \in FieldOf(m) : yN = ToOriginal(M, y)
  BY PackedFields
<1>3b. PICK g : g = TimesUpper(m, yN)
  OBVIOUS
<1>4. yN = ToOriginal(M, y) /\ g = TimesUpper(m, yN)
  BY <1>3a, <1>3b
<1>5. PICK S : S = OwnedFaces(m, a) /\ IsFiniteSet(S) /\ S \in SUBSET FacesOf(m)
  BY <1>3, SidesOf
<1>6. ASSUME NEW f \in S
      PROVE  g[f] \in Int /\ UpperRows(M, m)[f] \in 0 .. n - 1 /\ d < UpperRows(M, m)[f]
  <2>1. f \in FacesOf(m) /\ m.lower[f] = a /\ m.upper[f] \in CellsOf(m)
    BY <1>3, <1>5, FieldFacts DEF OwnedFaces
  <2>2. UpperRows(M, m)[f] = M.oldToNew[m.upper[f]] /\ M.oldToNew[m.upper[f]] \in CellsOf(m)
    BY <2>1 DEF UpperRows, IsPacked
  <2>3. M.oldToNew[m.lower[f]] < M.oldToNew[m.upper[f]]
    BY <2>1 DEF IsPacked
  <2>4. g[f] \in Int
    BY <1>2, <1>3, <1>4, <2>1, RowSumInt
  <2> QED BY <1>1, <1>2, <2>1, <2>2, <2>3, <2>4
<1> DEFINE B(j) == {f \in S : UpperRows(M, m)[f] < j}
<1>7. \A j : OwnedBelow(M, m, d, j) = B(j) /\ UpBelow(M, m, y, d, j) = SumOf(g, B(j))
  BY <1>2, <1>4, <1>5 DEF OwnedBelow, UpBelow
<1>8. \A j : IsFiniteSet(B(j)) /\ SumOf(g, B(j)) \in Int
  <2>1. ASSUME NEW j PROVE IsFiniteSet(B(j)) /\ SumOf(g, B(j)) \in Int
    <3>1. B(j) \in SUBSET S
      OBVIOUS
    <3> HIDE DEF B
    <3>2. IsFiniteSet(B(j)) /\ \A f \in B(j) : g[f] \in Int
      BY <1>5, <1>6, <3>1, FS_Subset
    <3> QED BY <3>2, SumInt
  <2> QED BY <2>1
<1>9. k <= d + 1 => B(k) = {}
  <2>1. d \in Int /\ k \in Int
    BY <1>1, <1>3
  <2>2. ASSUME k <= d + 1, NEW f \in S PROVE ~(UpperRows(M, m)[f] < k)
    BY <1>6, <2>1, <2>2
  <2> QED BY <2>2
<1>10. B(n) = S
  <2>1. \A f \in S : UpperRows(M, m)[f] < n
    BY <1>6
  <2> QED BY <2>1
<1>11. SumOf(g, S) = Up(M, m, y, d)
  BY <1>2, <1>4, <1>5 DEF Up, FromUppers
<1>12. ASSUME k < n
       PROVE  SumOf(g, B(k + 1)) = SumOf(g, B(k)) + SumOf(m.coeff, OwnedAt(M, m, d, k)) * y[k]
  <2>0. k \in CellsOf(m)
    BY <1>1, <1>12
  <2>1. PICK T : T = OwnedAt(M, m, d, k) /\ T = {f \in S : UpperRows(M, m)[f] = k}
    BY <1>2, <1>5 DEF OwnedAt
  <2>2. IsFiniteSet(T) /\ T \in SUBSET FacesOf(m)
    BY <2>0, <2>1, IncomingWeight
  <2>3. B(k + 1) = B(k) \cup T
    <3>1. \A f \in S : UpperRows(M, m)[f] < k + 1 <=> (UpperRows(M, m)[f] < k \/ UpperRows(M, m)[f] = k)
      BY <1>3, <1>6
    <3> QED BY <2>1, <3>1
  <2>4. B(k) \cap T = {}
    <3>1. \A f \in S : ~(UpperRows(M, m)[f] < k /\ UpperRows(M, m)[f] = k)
      BY <1>3, <1>6
    <3> QED BY <2>1, <3>1
  <2>5. \A f \in B(k) \cup T : g[f] \in Int
    BY <1>6, <2>1
  <2> HIDE DEF B
  <2>6. SumOf(g, B(k + 1)) = SumOf(g, B(k)) + SumOf(g, T)
    BY <1>8, <2>2, <2>3, <2>4, <2>5, SumUnion
  <2>7. PICK v \in Int : v = y[k]
    BY <2>0, LowUpInt
  <2>8. \A f \in T : m.coeff[f] \in Int /\ g[f] = m.coeff[f] * v
    <3>1. ASSUME NEW f \in T PROVE m.coeff[f] \in Int /\ g[f] = m.coeff[f] * v
      <4>1. f \in FacesOf(m) /\ M.oldToNew[m.upper[f]] = k /\ m.upper[f] \in CellsOf(m) /\ m.coeff[f] \in Int
        BY <1>3, <1>5, <2>1, <2>2, FieldFacts DEF UpperRows
      <4>2. yN[m.upper[f]] = v
        BY <1>4, <2>7, <4>1, PackedFields
      <4> QED BY <1>4, <4>1, <4>2 DEF TimesUpper
    <3> QED BY <3>1
  <2>9. SumOf(g, T) = SumOf(m.coeff, T) * v
    BY <2>2, <2>8, SumTimes
  <2> QED BY <2>1, <2>6, <2>7, <2>9
<1> HIDE DEF B
<1>13. k <= d + 1 => UpBelow(M, m, y, d, k) = 0
  BY <1>7, <1>9, SumEmpty
<1>14. k = m.n => UpBelow(M, m, y, d, k) = Up(M, m, y, d)
  BY <1>1, <1>7, <1>10, <1>11
<1>15. k < m.n => UpBelow(M, m, y, d, k + 1)
                  = UpBelow(M, m, y, d, k) + SumOf(m.coeff, OwnedAt(M, m, d, k)) * y[k]
  BY <1>1, <1>7, <1>12
<1>16. UpBelow(M, m, y, d, k) \in Int
  BY <1>7, <1>8
<1> QED BY <1>13, <1>14, <1>15, <1>16

\* The product a row is given, of the field it has, is complete when all rows
\* after it have added their part.
LEMMA RowOfReference ==
  ASSUME NEW M, NEW m, IsPacked(M, m), NEW y \in FieldOf(m), NEW r \in CellsOf(m)
  PROVE  Reference(M, y)[r] = (M.diag[r] * y[r] + Low(M, m, y, r) + Up(M, m, y, r)) % P
<1>1. PICK a \in CellsOf(m) : a = M.newToOld[r]
  BY DEF IsPacked
<1>2. Reference(M, y)[r] = RowTimes(m, ToOriginal(M, y), a)
  BY <1>1, ReferenceRow
<1>3. PICK p \in Int : p = M.diag[r] * y[r]
  BY <1>1, RowTimesSides
<1>4. PICK l \in Int, u \in Int : l = Low(M, m, y, r) /\ u = Up(M, m, y, r)
  BY LowUpInt
<1>5. RowTimes(m, ToOriginal(M, y), a) = (p + u + l) % P
  BY <1>1, <1>3, <1>4, RowTimesSides DEF Low, Up
<1>6. p + u + l = p + l + u
  OBVIOUS
<1> QED BY <1>2, <1>3, <1>4, <1>5, <1>6

\* A field with these rows is the product.
LEMMA ReferenceOfRows ==
  ASSUME NEW M, NEW m, IsPacked(M, m), NEW y \in FieldOf(m), NEW z \in FieldOf(m),
         \A r \in CellsOf(m) : z[r] = (M.diag[r] * y[r] + Low(M, m, y, r) + Up(M, m, y, r)) % P
  PROVE  z = Reference(M, y)
<1>1. Index(M) = CellsOf(m) /\ FieldOf(m) = [CellsOf(m) -> Value]
  BY DEF IsPacked, Index, CellsOf, FieldOf
<1>2. \A r \in CellsOf(m) : z[r] = Reference(M, y)[r]
  BY RowOfReference
<1>3. Reference(M, y) = [r \in CellsOf(m) |-> Reference(M, y)[r]]
  BY <1>1 DEF Reference
<1>4. z = [r \in CellsOf(m) |-> z[r]]
  BY <1>1
<1> QED BY <1>2, <1>3, <1>4

\* Rows reached so far have the product as far as it goes.
HeldSoFar(M, m, y, z, k) ==
  \A d \in CellsOf(m) :
    d < k => z[d] = (M.diag[d] * y[d] + Low(M, m, y, d) + UpBelow(M, m, y, d, k)) % P

\* One row more: it takes its own part, and adds to those before it.
LEMMA HeldStep ==
  ASSUME NEW M, NEW m, IsPacked(M, m), NEW b \in FieldOf(m), NEW y \in FieldOf(m),
         NEW s \in FusedStates(m), NEW r \in CellsOf(m), HeldSoFar(M, m, y, s.matrixPsi, r),
         NewValue(M, s.psi, b, r) = y[r], Low(M, m, s.psi, r) = Low(M, m, y, r)
  PROVE  HeldSoFar(M, m, y, FusedStep(M, b, s, r).matrixPsi, r + 1)
<1>1. PICK n \in Nat : n = m.n /\ CellsOf(m) = 0 .. n - 1
  BY FieldFacts DEF IsPacked, CellsOf
<1>2. PICK z : z = FusedStep(M, b, s, r).matrixPsi
  OBVIOUS
<1>3. /\ z[r] = (M.diag[r] * y[r] + Low(M, m, y, r)) % P
      /\ \A d \in CellsOf(m) : d # r =>
           z[d] = (s.matrixPsi[d] + SumOf(m.coeff, OwnedAt(M, m, d, r)) * y[r]) % P
  BY <1>2, FusedStepIs
<1>4. r \in 0 .. m.n /\ r + 1 \in 0 .. m.n /\ r < m.n /\ r + 1 <= r + 1
  BY <1>1
<1>5. ASSUME NEW d \in CellsOf(m), d < r + 1
      PROVE  z[d] = (M.diag[d] * y[d] + Low(M, m, y, d) + UpBelow(M, m, y, d, r + 1)) % P
  <2>1. PICK p \in Int : p = M.diag[d] * y[d]
    <3>1. M.diag[d] \in Int /\ y[d] \in Int
      BY LowUpInt
    <3> QED BY <3>1
  <2>2. PICK l \in Int : l = Low(M, m, y, d)
    BY LowUpInt
  <2>3. CASE d = r
    <3>1. UpBelow(M, m, y, d, r + 1) = 0
      BY <1>4, <2>3, UpBelowIs
    <3>2. p + l + 0 = p + l
      OBVIOUS
    <3> QED BY <1>3, <2>1, <2>2, <2>3, <3>1, <3>2
  <2>4. CASE d # r
    <3>1. d < r
      BY <1>1, <1>5, <2>4
    <3>2. PICK u \in Int : u = UpBelow(M, m, y, d, r)
      BY <1>4, UpBelowIs
    <3>3. PICK w \in Int, v \in Int : w = SumOf(m.coeff, OwnedAt(M, m, d, r)) /\ v = y[r]
      BY IncomingWeight, LowUpInt
    <3>4. PICK t \in Int : t = w * v
      OBVIOUS
    <3>5. UpBelow(M, m, y, d, r + 1) = u + t
      BY <1>4, <3>2, <3>3, <3>4, UpBelowIs
    <3>6. s.matrixPsi[d] = (p + l + u) % P
      BY <2>1, <2>2, <3>1, <3>2 DEF HeldSoFar
    <3>7. z[d] = (((p + l + u) % P) + t) % P
      BY <1>3, <2>4, <3>3, <3>4, <3>6
    <3>8. PICK q \in Int : q = p + l + u
      OBVIOUS
    <3>9. ((q % P) + t) % P = (q + t) % P
      BY RemainderArithmetic
    <3>10. q + t = p + l + (u + t)
      BY <3>8
    <3> QED BY <2>1, <2>2, <3>5, <3>7, <3>8, <3>9, <3>10
  <2> QED BY <2>3, <2>4
<1> QED BY <1>2, <1>5 DEF HeldSoFar

\* The fused sweep is a sweep, and the product is the one of the field it leaves.
LEMMA IncomingHeldIs ==
  ASSUME NEW M, NEW m, IsPacked(M, m), NEW b \in FieldOf(m), NEW x \in FieldOf(m)
  PROVE  \E acc : /\ IsSweep(M, m, b, x, acc) /\ IncomingHeld(M, x, b).psi = acc[m.n]
                  /\ IncomingHeld(M, x, b) \in FusedStates(m)
                  /\ IncomingHeld(M, x, b).matrixPsi = Reference(M, acc[m.n])
<1>1. PICK n \in Nat : n = m.n /\ CellsOf(m) = 0 .. n - 1
  BY FieldFacts DEF IsPacked, CellsOf
<1>2. PICK run : FusedRun(M, m, b, x, run) /\ run[n] = IncomingHeld(M, x, b)
  BY <1>1, FusedRuns
<1>3. /\ run \in [0 .. n -> FusedStates(m)] /\ run[0] = [psi |-> x, matrixPsi |-> ZeroField(M.n)]
      /\ \A k \in 1 .. n : run[k] = FusedStep(M, b, run[k - 1], k - 1)
  BY <1>1, <1>2 DEF FusedRun
<1> DEFINE acc == [k \in 0 .. n |-> run[k].psi]
<1>4. \A k \in 0 .. n : acc[k] = run[k].psi /\ acc[k] \in FieldOf(m)
  BY <1>3 DEF FusedStates
<1>5. acc \in [0 .. n -> FieldOf(m)]
  BY <1>4
<1> HIDE DEF acc
<1>6. ASSUME NEW k \in 1 .. n PROVE acc[k] = SweepStep(M, b, acc[k - 1], k - 1)
  <2>1. PICK j \in CellsOf(m) : j = k - 1 /\ j \in 0 .. n /\ k \in 0 .. n
    BY <1>1
  <2>2. PICK s \in FusedStates(m) : s = run[j]
    BY <1>3, <2>1
  <2>3. run[k] = FusedStep(M, b, s, j)
    BY <1>3, <2>1, <2>2
  <2>4. FusedStep(M, b, s, j).psi = SweepStep(M, b, s.psi, j)
    BY FusedStepIs
  <2>5. s.psi = acc[j] /\ run[k].psi = acc[k]
    BY <1>4, <2>1, <2>2
  <2> QED BY <2>1, <2>3, <2>4, <2>5
<1>7. IsSweep(M, m, b, x, acc)
  <2>1. acc[0] = x
    BY <1>3, <1>4
  <2> QED BY <1>1, <1>5, <1>6, <2>1 DEF IsSweep
<1>8. PICK y \in FieldOf(m) : y = acc[n]
  BY <1>1, <1>5
<1> DEFINE good == {k \in Nat : k <= n => HeldSoFar(M, m, y, run[k].matrixPsi, k)}
<1>9. 0 \in good
  <2>1. \A d \in CellsOf(m) : ~(d < 0)
    BY <1>1
  <2> QED BY <2>1 DEF HeldSoFar
<1>10. ASSUME NEW k \in Nat, k \in good PROVE k + 1 \in good
  <2>1. CASE k + 1 <= n
    <3>1. PICK r \in CellsOf(m), j \in 1 .. n : r = k /\ j = k + 1 /\ j - 1 = r /\ r \in 0 .. n /\ k <= n
      BY <1>1, <2>1
    <3>2. PICK s \in FusedStates(m) : s = run[r]
      BY <1>3, <3>1
    <3>3. run[j] = FusedStep(M, b, s, r)
      BY <1>3, <3>1, <3>2
    <3>4. HeldSoFar(M, m, y, s.matrixPsi, r)
      BY <1>10, <3>1, <3>2
    <3>5. s.psi = acc[r]
      BY <1>4, <3>1, <3>2
    <3>6. NewValue(M, s.psi, b, r) = y[r] /\ Low(M, m, s.psi, r) = Low(M, m, y, r)
      BY <1>1, <1>7, <1>8, <3>5, SweepRow
    <3>7. HeldSoFar(M, m, y, FusedStep(M, b, s, r).matrixPsi, r + 1)
      BY <3>4, <3>6, HeldStep
    <3> QED BY <3>1, <3>3, <3>7
  <2> QED BY <2>1
<1>11. n \in good
  <2> HIDE DEF good
  <2> QED BY <1>9, <1>10, NumberInduction
<1>12. PICK z : z = IncomingHeld(M, x, b).matrixPsi
  OBVIOUS
<1>13. HeldSoFar(M, m, y, z, n)
  BY <1>2, <1>11, <1>12
<1>14. IncomingHeld(M, x, b).psi = y /\ IncomingHeld(M, x, b) \in FusedStates(m) /\ z \in FieldOf(m)
  <2>1. n \in 0 .. n
    BY <1>1
  <2> QED BY <1>2, <1>3, <1>4, <1>8, <1>12, <2>1 DEF FusedStates
<1>15. z = Reference(M, y)
  <2>1. ASSUME NEW d \in CellsOf(m)
        PROVE  z[d] = (M.diag[d] * y[d] + Low(M, m, y, d) + Up(M, m, y, d)) % P
    <3>1. d < n /\ m.n \in 0 .. m.n
      BY <1>1
    <3>2. UpBelow(M, m, y, d, n) = Up(M, m, y, d)
      BY <1>1, <3>1, UpBelowIs
    <3> QED BY <1>13, <3>1, <3>2 DEF HeldSoFar
  <2> QED BY <1>14, <2>1, ReferenceOfRows
<1> QED BY <1>1, <1>7, <1>8, <1>12, <1>14, <1>15

\* A corrected delta is the product as well, if every diagonal entry can be
\* divided by.
LEMMA CorrectedDelta ==
  ASSUME NEW M, NEW m, IsPacked(M, m), NEW edgesOf, ShowsOutgoing(M, m, edgesOf),
         NEW b \in FieldOf(m), NEW x \in FieldOf(m), \A r \in CellsOf(m) : M.diag[r] % P # 0
  PROVE  LET last == DeltaSweep(M, x, b)
         IN  DeltaCorrection(M, edgesOf, b, last.matrixPsi) = Reference(M, last.psi)
<1>1. PICK n \in Nat : n = m.n /\ CellsOf(m) = 0 .. n - 1
  BY FieldFacts DEF IsPacked, CellsOf
<1>2. PICK last \in FusedStates(m) : last = DeltaSweep(M, x, b)
  BY DeltaSweepIs
<1>3. PICK acc : /\ IsSweep(M, m, b, x, acc) /\ last.psi = acc[n]
                 /\ \A r \in CellsOf(m) : last.matrixPsi[r] = (acc[n][r] - x[r]) % P
  BY <1>1, <1>2, DeltaSweepIs
<1>4. PICK y \in FieldOf(m), delta \in FieldOf(m) : y = last.psi /\ delta = last.matrixPsi
  BY DEF FusedStates
<1>5. PICK z \in FieldOf(m) : z = DeltaCorrection(M, edgesOf, b, delta)
  BY CorrectionIs
<1>6. ASSUME NEW r \in CellsOf(m)
      PROVE  z[r] = (M.diag[r] * y[r] + Low(M, m, y, r) + Up(M, m, y, r)) % P
  <2>1. PICK p \in Int : p = M.diag[r] * y[r]
    <3>1. M.diag[r] \in Int /\ y[r] \in Int
      BY LowUpInt
    <3> QED BY <3>1
  <2>2. PICK q \in Int, l \in Int, u \in Int : q = b[r] /\ l = Low(M, m, y, r) /\ u = Up(M, m, y, r)
    BY LowUpInt
  <2>3. PICK v \in Int, w \in Int : v = Up(M, m, x, r) /\ w = Up(M, m, delta, r)
    BY LowUpInt
  <2>4. z[r] = (q + w) % P
    BY <1>5, <2>2, <2>3, CorrectionIs
  <2>5. Same(w, u - v)
    <3>1. \A d \in CellsOf(m) : delta[d] = (y[d] - x[d]) % P
      BY <1>3, <1>4
    <3> QED BY <2>2, <2>3, <3>1, UpOfChange
  <2>6. Same(p, q - (l + v))
    <3>1. IsSweep(M, m, b, x, acc) /\ y = acc[m.n]
      BY <1>1, <1>3, <1>4
    <3>2. M.diag[r] % P # 0 => Same(M.diag[r] * y[r], b[r] - (Low(M, m, y, r) + Up(M, m, x, r)))
      BY <3>1, SweepRow
    <3> QED BY <2>1, <2>2, <2>3, <3>2
  <2>7. Same(q + w, q + (u - v))
    BY <2>5, SameArithmetic, SameIs
  <2>8. Same(p + (l + u), (q - (l + v)) + (l + u))
    <3>1. l + u \in Int /\ q - (l + v) \in Int
      OBVIOUS
    <3>2. Same(l + u, l + u)
      BY DEF Same
    <3> QED BY <2>6, <3>1, <3>2, SameArithmetic
  <2>9. (q - (l + v)) + (l + u) = q + (u - v) /\ p + (l + u) = p + l + u
    OBVIOUS
  <2> QED BY <2>1, <2>2, <2>4, <2>7, <2>8, <2>9 DEF Same
<1>7. z = Reference(M, y)
  BY <1>6, ReferenceOfRows
<1> QED BY <1>2, <1>4, <1>5, <1>7

Fusions == {"IncomingHeld", "DeltaCorrection", "DeltaCorrectionCurrent",
            "DeltaCorrectionEdgeRows", "DeltaCorrectionPackedBaseline"}

\* The views a correction may read show the owned faces of each row.
LEMMA ViewsShowOutgoing ==
  ASSUME NEW M, NEW m, IsPacked(M, m)
  PROVE  /\ ShowsOutgoing(M, m, EdgesByStarts(M)) /\ ShowsOutgoing(M, m, EdgesByCursor(M))
         /\ ShowsOutgoing(M, m, M.outgoing)
<1>1. ASSUME NEW r \in CellsOf(m)
      PROVE  \E phi : Shows(M.outgoing[r], phi, OwnedFaces(m, M.newToOld[r]), UpperRows(M, m), m)
  <2>1. PICK c : c = M.newToOld[r]
    OBVIOUS
  <2> QED BY <2>1, SidesShown
<1> QED BY <1>1, EdgesByStartsShow, EdgesByCursorShow DEF ShowsOutgoing

\* Every fused sweep leaves the field of the plain one, and its product.
LEMMA FusedSweepIs ==
  ASSUME NEW M, NEW m, IsPacked(M, m), NEW b \in FieldOf(m), NEW x \in FieldOf(m),
         \A r \in CellsOf(m) : M.diag[r] % P # 0, NEW fusion \in Fusions
  PROVE  /\ FusedSweep(M, fusion, x, b).psi = FwSweepOnce(M, b, x)
         /\ FusedSweep(M, fusion, x, b).matrixPsi = Reference(M, FwSweepOnce(M, b, x))
<1>1. PICK n \in Nat : n = m.n /\ n \in 0 .. n
  BY FieldFacts DEF IsPacked
<1>2. PICK once : IsSweep(M, m, b, x, once) /\ once[n] = FwSweepOnce(M, b, x)
  BY <1>1, SweepRuns
<1>3. ASSUME NEW acc, IsSweep(M, m, b, x, acc) PROVE acc[n] = FwSweepOnce(M, b, x)
  <2>1. \A k \in 0 .. m.n : acc[k] = once[k]
    BY <1>2, <1>3, SweepsAgree
  <2> QED BY <1>1, <1>2, <2>1
<1>4. CASE fusion = "IncomingHeld"
  <2>1. FusedSweep(M, fusion, x, b) = IncomingHeld(M, x, b)
    BY <1>4 DEF FusedSweep
  <2>2. PICK acc : /\ IsSweep(M, m, b, x, acc) /\ IncomingHeld(M, x, b).psi = acc[n]
                   /\ IncomingHeld(M, x, b).matrixPsi = Reference(M, acc[n])
    BY <1>1, IncomingHeldIs
  <2>3. acc[n] = FwSweepOnce(M, b, x)
    BY <1>3, <2>2
  <2> QED BY <2>1, <2>2, <2>3
<1>5. ASSUME fusion # "IncomingHeld", NEW edgesOf, ShowsOutgoing(M, m, edgesOf),
             FusedSweep(M, fusion, x, b) =
               [DeltaSweep(M, x, b) EXCEPT
                  !.matrixPsi = DeltaCorrection(M, edgesOf, b, DeltaSweep(M, x, b).matrixPsi)]
      PROVE  /\ FusedSweep(M, fusion, x, b).psi = FwSweepOnce(M, b, x)
             /\ FusedSweep(M, fusion, x, b).matrixPsi = Reference(M, FwSweepOnce(M, b, x))
  <2>1. PICK last \in FusedStates(m) : last = DeltaSweep(M, x, b)
    BY DeltaSweepIs
  <2>2. PICK acc : IsSweep(M, m, b, x, acc) /\ last.psi = acc[n]
    BY <1>1, <2>1, DeltaSweepIs
  <2>3. last.psi = FwSweepOnce(M, b, x)
    BY <1>3, <2>2
  <2>4. DeltaCorrection(M, edgesOf, b, last.matrixPsi) = Reference(M, last.psi)
    BY <1>5, <2>1, CorrectedDelta
  <2>5. /\ [last EXCEPT !.matrixPsi = Reference(M, last.psi)].psi = last.psi
        /\ [last EXCEPT !.matrixPsi = Reference(M, last.psi)].matrixPsi = Reference(M, last.psi)
    BY DEF FusedStates
  <2>6. FusedSweep(M, fusion, x, b) = [last EXCEPT !.matrixPsi = Reference(M, last.psi)]
    BY <1>5, <2>1, <2>4
  <2> QED BY <2>3, <2>5, <2>6
<1>6. CASE fusion \in {"DeltaCorrection", "DeltaCorrectionEdgeRows"}
  <2>1. FusedSweep(M, fusion, x, b) =
          [DeltaSweep(M, x, b) EXCEPT
             !.matrixPsi = DeltaCorrection(M, EdgesByStarts(M), b, DeltaSweep(M, x, b).matrixPsi)]
    BY <1>6 DEF FusedSweep
  <2>2. fusion # "IncomingHeld"
    BY <1>6
  <2> QED BY <1>5, <2>1, <2>2, ViewsShowOutgoing
<1>7. CASE fusion = "DeltaCorrectionCurrent"
  <2>1. FusedSweep(M, fusion, x, b) =
          [DeltaSweep(M, x, b) EXCEPT
             !.matrixPsi = DeltaCorrection(M, EdgesByCursor(M), b, DeltaSweep(M, x, b).matrixPsi)]
    BY <1>7 DEF FusedSweep
  <2>2. fusion # "IncomingHeld"
    BY <1>7
  <2> QED BY <1>5, <2>1, <2>2, ViewsShowOutgoing
<1>8. CASE fusion = "DeltaCorrectionPackedBaseline"
  <2>1. FusedSweep(M, fusion, x, b) =
          [DeltaSweep(M, x, b) EXCEPT
             !.matrixPsi = DeltaCorrection(M, M.outgoing, b, DeltaSweep(M, x, b).matrixPsi)]
    BY <1>8 DEF FusedSweep
  <2>2. fusion # "IncomingHeld"
    BY <1>8
  <2> QED BY <1>5, <2>1, <2>2, ViewsShowOutgoing
<1> QED BY <1>4, <1>6, <1>7, <1>8 DEF Fusions

\* smoothAndMultiply, whichever way it is done, is smoothing and multiplying.
LEMMA SmoothAndMultiplyIs ==
  ASSUME NEW M, NEW m, IsPacked(M, m), NEW b \in FieldOf(m), NEW x \in FieldOf(m),
         \A r \in CellsOf(m) : M.diag[r] % P # 0, NEW fusion \in Fusions, NEW n \in Nat, n > 0
  PROVE  LET fused == SmoothAndMultiply(M, fusion, x, b, n)
             y == FwSmooth(M, x, b, n)
         IN  fused.psi = y /\ fused.matrixPsi = Reference(M, y) /\ y \in FieldOf(m)
<1>1. PICK z \in FieldOf(m) : z = FwSmooth(M, x, b, n - 1)
  <2>1. n - 1 \in Int
    OBVIOUS
  <2> QED BY <2>1, FwSmoothField
<1>2. SmoothAndMultiply(M, fusion, x, b, n) = FusedSweep(M, fusion, z, b)
  BY <1>1 DEF SmoothAndMultiply
<1>3. FwSmooth(M, x, b, n) = FwSweepOnce(M, b, z)
  BY <1>1, LastSweep
<1>4. FwSmooth(M, x, b, n) \in FieldOf(m)
  <2>1. n \in Int
    OBVIOUS
  <2> QED BY <2>1, FwSmoothField
<1>5. /\ FusedSweep(M, fusion, z, b).psi = FwSweepOnce(M, b, z)
      /\ FusedSweep(M, fusion, z, b).matrixPsi = Reference(M, FwSweepOnce(M, b, z))
  BY FusedSweepIs
<1> QED BY <1>2, <1>3, <1>4, <1>5

\* The same for a matrix that has been packed in an order of its rows.
THEOREM FusionsAgree ==
  ASSUME NEW m, GoodMatrix(m), \A c \in CellsOf(m) : m.diag[c] % P # 0, NEW order, IsOrder(m, order),
         NEW x \in FieldOf(m), NEW b \in FieldOf(m), NEW fusion \in Fusions, NEW n \in Nat, n > 0
  PROVE  LET M == Pack(m, order)
             fused == SmoothAndMultiply(M, fusion, x, b, n)
             y == FwSmooth(M, x, b, n)
         IN  fused.psi = y /\ fused.matrixPsi = Reference(M, y) /\ y \in FieldOf(m)
<1>1. PICK M : M = Pack(m, order)
  OBVIOUS
<1>2. IsPacked(M, m)
  BY <1>1, PackIs
<1>3. \A r \in CellsOf(m) : M.diag[r] % P # 0
  BY <1>2 DEF IsPacked
<1> QED BY <1>1, <1>2, <1>3, SmoothAndMultiplyIs

\* What the constructors of the views check before they keep them is so for
\* every matrix, in natural order and in every forward order.
THEOREM PackingSound ==
  ASSUME NEW m, GoodMatrix(m), NEW order,
         order = NaturalOrder(m) \/ order \in ForwardOrders(m)
  PROVE  RangesContiguous(Pack(m, order)) /\ EdgeViewsComplete(Pack(m, order))
<1>1. IsOrder(m, order)
  BY NaturalIsOrder, ForwardIsOrder
<1>2. PICK M : M = Pack(m, order)
  OBVIOUS
<1>3. IsPacked(M, m)
  BY <1>1, <1>2, PackIs
<1> QED BY <1>2, <1>3, RangesAre, ViewsComplete

-----------------------------------------------------------------------------
(* The levels of the agglomeration, as the packed matrices are built again *)
(* from them.                                                              *)

\* the coarse matrix adds up the finer one by the maps of the level
Collects(fine, made, coarse) ==
  /\ coarse = [n |-> coarse.n, lower |-> coarse.lower, upper |-> coarse.upper,
               diag |-> coarse.diag, coeff |-> coarse.coeff]
  /\ coarse.diag = [C \in CellsOf(coarse) |->
       Collected(fine.diag, made.fineToCoarse, C)
         + 2 * Collected(fine.coeff, made.faceToCoarse, -(C + 1))]
  /\ coarse.coeff = [F \in FacesOf(coarse) |-> Collected(fine.coeff, made.faceToCoarse, F - 1)]
  /\ DOMAIN made.faceToCoarse = FacesOf(fine)
  /\ Maps(made.fineToCoarse, fine, coarse)
  /\ \A C \in CellsOf(coarse) : \E c \in CellsOf(fine) : made.fineToCoarse[c] = C

LevelsCollect ==
  \A k \in 1 .. Len(levels) : Collects(matrices[k], levels[k], matrices[k + 1])

\* The matrix Coarsen is about to append collects the current one.
LEMMA CoarseOneCollects ==
  ASSUME Hierarchy, Complete(Current, coarseCellMap, nCoarseCells),
         NEW made, made = [fineToCoarse |-> coarseCellMap, faceToCoarse |-> FaceToCoarse,
                           faceFlip |-> FaceFlip]
  PROVE  Collects(Current, made, CoarseOne)
<1>1. FacesOf(CoarseOne) = 1 .. NFaces
  BY CoarseOneGood
<1>2. CellsOf(CoarseOne) = 0 .. nCoarseCells - 1
  BY CoarseOneIs DEF CellsOf
<1>3. CoarseOne = [n |-> CoarseOne.n, lower |-> CoarseOne.lower, upper |-> CoarseOne.upper,
                   diag |-> CoarseOne.diag, coeff |-> CoarseOne.coeff]
  BY DEF CoarseOne, CoarseMatrix
<1>4. made.fineToCoarse = coarseCellMap /\ made.faceToCoarse = FaceToCoarse
  OBVIOUS
<1>5. DOMAIN FaceToCoarse = FacesOf(Current)
  BY DEF FaceToCoarse
<1>6. Maps(coarseCellMap, Current, CoarseOne)
  BY <1>2 DEF Complete, Maps
<1>7. ASSUME NEW C \in CellsOf(CoarseOne)
      PROVE  \E c \in CellsOf(Current) : coarseCellMap[c] = C
  <2>1. ClusterIn(Current, coarseCellMap, C) # {}
    BY <1>2 DEF Complete, AllConnected
  <2> QED BY <2>1 DEF ClusterIn
<1>8. CoarseOne.diag = [C \in CellsOf(CoarseOne) |->
        Collected(Current.diag, coarseCellMap, C)
          + 2 * Collected(Current.coeff, FaceToCoarse, -(C + 1))]
  BY <1>2, CoarseOneIs, Zenon
<1>9. CoarseOne.coeff = [F \in FacesOf(CoarseOne) |-> Collected(Current.coeff, FaceToCoarse, F - 1)]
  BY <1>1, CoarseOneIs, Zenon
<1> QED BY <1>3, <1>4, <1>5, <1>6, <1>7, <1>8, <1>9, Zenon DEF Collects

\* A step of the constructor leaves all levels collected.
LEMMA CollectNext ==
  ASSUME IInv, LevelsCollect, Next
  PROVE  LevelsCollect'
<1>1. CASE Coarsen
  <2>1. PICK n \in Nat : n = Len(levels)
    BY <1>1, NewLevel
  <2>2. /\ Len(matrices) = n + 1 /\ Len(levels') = n + 1 /\ Len(matrices') = n + 2
        /\ \A k \in 1 .. n + 1 : matrices'[k] = matrices[k]
        /\ \A k \in 1 .. n : levels'[k] = levels[k]
    BY <1>1, <2>1, NewLevel
  <2>3. PICK made : made = [fineToCoarse |-> coarseCellMap, faceToCoarse |-> FaceToCoarse,
                            faceFlip |-> FaceFlip]
    OBVIOUS
  <2>4. matrices'[n + 1] = Current /\ matrices'[n + 2] = CoarseOne /\ levels'[n + 1] = made
    <3>1. Current' = CoarseOne /\ Fine' = Current /\ Made' = made
      BY <1>1, <2>3, NewLevel
    <3> QED BY <2>2, <3>1 DEF Current, Fine, Made
  <2>5. Collects(Current, made, CoarseOne)
    <3>1. Hierarchy /\ Complete(Current, coarseCellMap, nCoarseCells)
      BY <1>1, NewLevel
    <3> QED BY <2>3, <3>1, CoarseOneCollects
  <2>6. ASSUME NEW k \in 1 .. n + 1
        PROVE  Collects(matrices'[k], levels'[k], matrices'[k + 1])
    <3>1. CASE k \in 1 .. n
      <4>1. Collects(matrices[k], levels[k], matrices[k + 1])
        BY <2>1, <3>1 DEF LevelsCollect
      <4>2. k \in 1 .. n + 1 /\ k + 1 \in 1 .. n + 1
        BY <3>1
      <4> QED BY <2>2, <3>1, <4>1, <4>2
    <3>2. CASE k = n + 1
      <4>1. k + 1 = n + 2
        BY <3>2
      <4> QED BY <2>4, <2>5, <3>2, <4>1
    <3> QED BY <3>1, <3>2
  <2> QED BY <2>2, <2>6 DEF LevelsCollect
<1>2. CASE UNCHANGED hierarchy
  <2>1. matrices' = matrices /\ levels' = levels
    BY <1>2 DEF hierarchy
  <2> QED BY <2>1 DEF LevelsCollect
<1>3. Coarsen \/ UNCHANGED hierarchy
  BY DEF Next, vars, RejectControls, BeginLevel, PassOver, Pair, JoinCluster, Visiting,
         FinishPairing, StopCoarsening, Finish, NoCoarseLevel
<1> QED BY <1>1, <1>2, <1>3

-----------------------------------------------------------------------------
(* The numberings of a level.                                              *)

\* the two permutations of the cells of m are inverse to each other, and the
\* one of the faces is one-to-one
Permutes(N, m) ==
  /\ N.nativeToAgg \in [CellsOf(m) -> CellsOf(m)] /\ N.aggToNative \in [CellsOf(m) -> CellsOf(m)]
  /\ \A c \in CellsOf(m) :
       N.nativeToAgg[N.aggToNative[c]] = c /\ N.aggToNative[N.nativeToAgg[c]] = c
  /\ N.faceToAgg \in [FacesOf(m) -> FacesOf(m)]
  /\ \A f, g \in FacesOf(m) : N.faceToAgg[f] = N.faceToAgg[g] => f = g
  /\ \A F \in FacesOf(m) : \E f \in FacesOf(m) : N.faceToAgg[f] = F

\* native is m with its cells and faces numbered anew
Renumbers(N, native, m) ==
  /\ GoodMatrix(native) /\ GoodMatrix(m)
  /\ native.n = m.n /\ Len(native.lower) = Len(m.lower)
  /\ Permutes(N, m)
  /\ \A c \in CellsOf(m) : native.diag[c] = m.diag[N.nativeToAgg[c]]
  /\ \A f \in FacesOf(m) :
       /\ native.coeff[f] = m.coeff[N.faceToAgg[f]]
       /\ {N.nativeToAgg[native.lower[f]], N.nativeToAgg[native.upper[f]]} =
            {m.lower[N.faceToAgg[f]], m.upper[N.faceToAgg[f]]}

\* The sizes are the same.
LEMMA SameSizes ==
  ASSUME NEW N, NEW native, NEW m, Renumbers(N, native, m)
  PROVE  CellsOf(native) = CellsOf(m) /\ FacesOf(native) = FacesOf(m)
BY DEF Renumbers, CellsOf, FacesOf

\* A matrix keeps its numbers.
LEMMA IdentityRenumbers ==
  ASSUME NEW m, GoodMatrix(m)
  PROVE  Renumbers(IdentityNumbering(m.n, Len(m.lower)), m, m)
<1> DEFINE N == IdentityNumbering(m.n, Len(m.lower))
<1>1. /\ N.nativeToAgg = [c \in CellsOf(m) |-> c] /\ N.aggToNative = [c \in CellsOf(m) |-> c]
      /\ N.faceToAgg = [f \in FacesOf(m) |-> f]
  BY DEF IdentityNumbering, CellsOf, FacesOf
<1> HIDE DEF N
<1>2. Permutes(N, m)
  BY <1>1 DEF Permutes
<1>3. \A f \in FacesOf(m) : m.lower[f] \in CellsOf(m) /\ m.upper[f] \in CellsOf(m)
  BY FieldFacts
<1> QED BY <1>1, <1>2, <1>3 DEF Renumbers, N

\* Every entry that carries a face has its coefficient, and there is one.
LEMMA EntryOfFace ==
  ASSUME NEW M, NEW native, IsPacked(M, native), NEW N, NEW m, Renumbers(N, native, m),
         NEW F \in FacesOf(m)
  PROVE  (CHOOSE e \in EntriesOf(M, N, F) : TRUE).coeff = m.coeff[F]
<1> DEFINE all == UNION {{Row(M, row)[i] : i \in DOMAIN Row(M, row)} : row \in Index(M)}
<1>1. CellsOf(native) = CellsOf(m) /\ FacesOf(native) = FacesOf(m)
  BY SameSizes
<1>2. GoodMatrix(native) /\ Index(M) = CellsOf(m)
  BY <1>1 DEF IsPacked, Index, CellsOf
<1>3. \A f \in FacesOf(m) : native.coeff[f] = m.coeff[N.faceToAgg[f]]
  BY DEF Renumbers
<1>4. ASSUME NEW r \in CellsOf(m), NEW i \in DOMAIN Row(M, r)
      PROVE  Row(M, r)[i].face \in FacesOf(m) /\ Row(M, r)[i].coeff = native.coeff[Row(M, r)[i].face]
  <2>1. PICK c, es : c = M.newToOld[r] /\ es = Row(M, r)
    OBVIOUS
  <2>2. Entries(es, FacesAround(native, c), M.oldToNew, Beyond(native, c), native)
    BY <1>1, <2>1, RowEntries
  <2>3. i \in 1 .. Len(es)
    BY <2>1, <2>2 DEF Entries
  <2>4. es[i].face \in FacesAround(native, c) /\ es[i].coeff = native.coeff[es[i].face]
    BY <2>2, <2>3 DEF Entries
  <2>5. FacesAround(native, c) \subseteq FacesOf(native)
    BY DEF FacesAround, AboveFaces, OwnedFaces
  <2> QED BY <1>1, <2>1, <2>4, <2>5
<1>5. EntriesOf(M, N, F) = {e \in all : N.faceToAgg[e.face] = F}
  BY DEF EntriesOf
<1>6. ASSUME NEW e \in EntriesOf(M, N, F) PROVE e.coeff = m.coeff[F]
  <2>1. e \in all /\ N.faceToAgg[e.face] = F
    BY <1>5
  <2>2. PICK r \in CellsOf(m) : \E i \in DOMAIN Row(M, r) : e = Row(M, r)[i]
    BY <1>2, <2>1
  <2>3. e.face \in FacesOf(m) /\ e.coeff = native.coeff[e.face]
    BY <1>4, <2>2
  <2> QED BY <1>3, <2>1, <2>3
<1>7. EntriesOf(M, N, F) # {}
  <2>1. PICK f \in FacesOf(m) : N.faceToAgg[f] = F
    BY DEF Renumbers, Permutes
  <2>2. PICK c \in CellsOf(m) : c = native.lower[f]
    BY <1>1, <1>2, FieldFacts
  <2>3. PICK r \in CellsOf(m) : r = M.oldToNew[c]
    BY <1>1 DEF IsPacked
  <2>4. c = M.newToOld[r]
    BY <1>1, <2>3 DEF IsPacked
  <2>5. PICK es : es = Row(M, r)
    OBVIOUS
  <2>6. Entries(es, FacesAround(native, c), M.oldToNew, Beyond(native, c), native)
    BY <1>1, <2>4, <2>5, RowEntries
  <2>7. f \in FacesAround(native, c)
    BY <1>1, <2>2 DEF FacesAround, OwnedFaces
  <2>8. PICK i \in DOMAIN es : es[i].face = f
    BY <2>6, <2>7 DEF Entries
  <2>9. PICK e : e = es[i]
    OBVIOUS
  <2>10. e \in {Row(M, r)[j] : j \in DOMAIN Row(M, r)}
    BY <2>5, <2>8, <2>9
  <2>11. e \in all
    BY <1>2, <2>10
  <2> HIDE DEF all
  <2>12. N.faceToAgg[e.face] = F
    BY <2>1, <2>8, <2>9
  <2> QED BY <1>5, <2>11, <2>12
<1> HIDE DEF all
<1>8. PICK S : S = EntriesOf(M, N, F)
  OBVIOUS
<1>9. (CHOOSE e \in S : TRUE) \in S
  BY <1>7, <1>8
<1> QED BY <1>6, <1>8, <1>9

\* So the coarse matrix made from packed rows is the one of the agglomeration.
LEMMA OperatorIs ==
  ASSUME NEW M, NEW native, IsPacked(M, native), NEW N, NEW fine, Renumbers(N, native, fine),
         NEW made, NEW coarse, Collects(fine, made, coarse)
  PROVE  BuildCoarseOperator(M, N, coarse, made) = coarse
<1> DEFINE diag == [a \in DOMAIN made.fineToCoarse |-> M.diag[M.oldToNew[N.aggToNative[a]]]]
           coeff == [f \in DOMAIN made.faceToCoarse |-> (CHOOSE e \in EntriesOf(M, N, f) : TRUE).coeff]
<1>1. GoodMatrix(fine) /\ CellsOf(native) = CellsOf(fine)
  BY SameSizes DEF Renumbers
<1>2. fine.diag \in [CellsOf(fine) -> Int] /\ DOMAIN fine.coeff = FacesOf(fine)
  <2>1. fine.diag \in [CellsOf(fine) -> Int] /\ fine.coeff \in Seq(Int) /\ Len(fine.coeff) = Len(fine.lower)
    BY <1>1 DEF GoodMatrix, MatrixType, IsMatrix
  <2> QED BY <2>1 DEF FacesOf
<1>3. diag = fine.diag
  <2>1. DOMAIN made.fineToCoarse = CellsOf(fine)
    BY DEF Collects, Maps
  <2>2. ASSUME NEW a \in CellsOf(fine) PROVE M.diag[M.oldToNew[N.aggToNative[a]]] = fine.diag[a]
    <3>1. PICK c \in CellsOf(fine) : c = N.aggToNative[a] /\ N.nativeToAgg[c] = a
      BY DEF Renumbers, Permutes
    <3>2. native.diag[c] = fine.diag[a]
      BY <3>1 DEF Renumbers
    <3>3. M.oldToNew[c] \in CellsOf(native) /\ M.newToOld[M.oldToNew[c]] = c
      BY <1>1 DEF IsPacked
    <3>4. M.diag[M.oldToNew[c]] = native.diag[c]
      BY <3>3 DEF IsPacked
    <3> QED BY <3>1, <3>2, <3>4
  <2> QED BY <1>2, <2>1, <2>2
<1>4. coeff = fine.coeff
  <2>1. DOMAIN made.faceToCoarse = FacesOf(fine)
    BY DEF Collects
  <2>2. \A F \in FacesOf(fine) : (CHOOSE e \in EntriesOf(M, N, F) : TRUE).coeff = fine.coeff[F]
    BY EntryOfFace
  <2>3. fine.coeff = [F \in FacesOf(fine) |-> fine.coeff[F]]
    <3>1. fine.coeff \in Seq(Int)
      BY <1>1 DEF GoodMatrix, MatrixType
    <3> QED BY <1>2, <3>1
  <2> QED BY <2>1, <2>2, <2>3
<1>5. BuildCoarseOperator(M, N, coarse, made) =
        [coarse EXCEPT
           !.diag = [C \in CellsOf(coarse) |->
              Collected(diag, made.fineToCoarse, C)
                + 2 * Collected(coeff, made.faceToCoarse, -(C + 1))],
           !.coeff = [F \in FacesOf(coarse) |-> Collected(coeff, made.faceToCoarse, F - 1)]]
  BY DEF BuildCoarseOperator
<1> HIDE DEF diag, coeff
<1>6. PICK d, k : /\ d = [C \in CellsOf(coarse) |->
                             Collected(diag, made.fineToCoarse, C)
                               + 2 * Collected(coeff, made.faceToCoarse, -(C + 1))]
                  /\ k = [F \in FacesOf(coarse) |-> Collected(coeff, made.faceToCoarse, F - 1)]
  OBVIOUS
<1>7. d = coarse.diag /\ k = coarse.coeff
  BY <1>3, <1>4, <1>6, Zenon DEF Collects
<1>8. BuildCoarseOperator(M, N, coarse, made) = [coarse EXCEPT !.diag = d, !.coeff = k]
  BY <1>5, <1>6, Zenon
<1>9. coarse = [n |-> coarse.n, lower |-> coarse.lower, upper |-> coarse.upper,
                diag |-> coarse.diag, coeff |-> coarse.coeff]
  BY Zenon DEF Collects
<1> QED BY <1>7, <1>8, <1>9

-----------------------------------------------------------------------------
(* Coarse cells in the order of their first native fine cell.              *)

\* the parts of MinimumFineIndex
KeyOf(N, map, C) == Min({c \in DOMAIN N.nativeToAgg : map[N.nativeToAgg[c]] = C})
NewNumbers(m, N, map) ==
  [C \in CellsOf(m) |-> Cardinality({D \in CellsOf(m) : KeyOf(N, map, D) < KeyOf(N, map, C)})]
OldNumbers(m, new) == [c \in CellsOf(m) |-> CHOOSE C \in CellsOf(m) : new[C] = c]
LeftOf(m, new, F) == AtMost(new[m.lower[F]], new[m.upper[F]])
RightOf(m, new, F) == AtLeast(new[m.lower[F]], new[m.upper[F]])
FaceFirst(m, new, F, G) ==
  \/ LeftOf(m, new, F) < LeftOf(m, new, G)
  \/ LeftOf(m, new, F) = LeftOf(m, new, G) /\ RightOf(m, new, F) < RightOf(m, new, G)
  \/ LeftOf(m, new, F) = LeftOf(m, new, G) /\ RightOf(m, new, F) = RightOf(m, new, G) /\ F < G
OldFaces(m, new) ==
  [f \in FacesOf(m) |->
     CHOOSE F \in FacesOf(m) : Cardinality({G \in FacesOf(m) : FaceFirst(m, new, G, F)}) = f - 1]
NumberedAs(m, new, old, face) ==
  [matrix |-> [n |-> m.n,
               lower |-> [f \in FacesOf(m) |-> LeftOf(m, new, face[f])],
               upper |-> [f \in FacesOf(m) |-> RightOf(m, new, face[f])],
               diag |-> [c \in CellsOf(m) |-> m.diag[old[c]]],
               coeff |-> [f \in FacesOf(m) |-> m.coeff[face[f]]]],
   numbering |-> [nativeToAgg |-> old, aggToNative |-> new, faceToAgg |-> face]]

\* MinimumFineIndex is put together from these.
LEMMA MinimumIs ==
  ASSUME NEW m, NEW N, NEW map
  PROVE  LET new == NewNumbers(m, N, map)
         IN  MinimumFineIndex(m, N, map) =
               NumberedAs(m, new, OldNumbers(m, new), OldFaces(m, new))
BY DEF MinimumFineIndex, Rank, NumberedAs, NewNumbers, OldNumbers, OldFaces, FaceFirst,
       LeftOf, RightOf, KeyOf

\* the element of S at a place
PlacedAt(S, place, k) == CHOOSE x \in S : place[x] = k

\* Places and what lies at them.
LEMMA PlacesInverse ==
  ASSUME NEW S, IsFiniteSet(S), NEW R, Orders(R, S), NEW n \in Nat, n = Cardinality(S),
         NEW place, place = [x \in S |-> PlaceIn(S, R, x)]
  PROVE  /\ place \in [S -> 0 .. n - 1]
         /\ \A k \in 0 .. n - 1 : PlacedAt(S, place, k) \in S /\ place[PlacedAt(S, place, k)] = k
         /\ \A x, y \in S : place[x] = place[y] => x = y
         /\ \A x, y \in S : <<x, y>> \in R => place[x] < place[y]
<1>1. Numbered(S, R)
  BY PlacesFill
<1>2. \A x \in S : place[x] = PlaceIn(S, R, x) /\ PlaceIn(S, R, x) \in 0 .. n - 1
  BY <1>1 DEF Numbered
<1>3. place \in [S -> 0 .. n - 1]
  BY <1>2
<1>4. ASSUME NEW k \in 0 .. n - 1
      PROVE  PlacedAt(S, place, k) \in S /\ place[PlacedAt(S, place, k)] = k
  <2>1. \E x \in S : place[x] = k
    BY <1>1, <1>2 DEF Numbered
  <2> QED BY <2>1 DEF PlacedAt
<1>5. \A x, y \in S : place[x] = place[y] => x = y
  BY <1>1, <1>2 DEF Numbered
<1>6. \A x, y \in S : <<x, y>> \in R => place[x] < place[y]
  BY <1>1, <1>2 DEF Numbered
<1> QED BY <1>3, <1>4, <1>5, <1>6

\* Every coarse cell has a first native cell, which belongs to it.
LEMMA KeysAre ==
  ASSUME NEW N, NEW fine, GoodMatrix(fine), Permutes(N, fine), NEW m, NEW map, Maps(map, fine, m),
         \A C \in CellsOf(m) : \E c \in CellsOf(fine) : map[c] = C
  PROVE  \A C \in CellsOf(m) : KeyOf(N, map, C) \in Nat /\ map[N.nativeToAgg[KeyOf(N, map, C)]] = C
<1> SUFFICES ASSUME NEW C \in CellsOf(m)
             PROVE  KeyOf(N, map, C) \in Nat /\ map[N.nativeToAgg[KeyOf(N, map, C)]] = C
  OBVIOUS
<1> DEFINE S == {c \in DOMAIN N.nativeToAgg : map[N.nativeToAgg[c]] = C}
<1>1. DOMAIN N.nativeToAgg = CellsOf(fine) /\ CellsOf(fine) \subseteq Nat
  BY MatrixFacts DEF Permutes
<1>2. S # {}
  <2>1. PICK c \in CellsOf(fine) : map[c] = C
    OBVIOUS
  <2>2. PICK d \in CellsOf(fine) : d = N.aggToNative[c] /\ N.nativeToAgg[d] = c
    BY DEF Permutes
  <2> QED BY <1>1, <2>1, <2>2
<1>3. S \in SUBSET Nat /\ \A c \in S : map[N.nativeToAgg[c]] = C
  BY <1>1
<1>4. KeyOf(N, map, C) = Min(S)
  BY DEF KeyOf
<1> HIDE DEF S
<1>5. \E x \in S : \A y \in S : x <= y
  BY <1>2, <1>3, LeastNatural
<1>6. Min(S) \in S
  BY <1>5 DEF Min
<1> QED BY <1>3, <1>4, <1>6

\* So the coarse cells are numbered anew, without a gap.
LEMMA NewNumbersAre ==
  ASSUME NEW N, NEW fine, GoodMatrix(fine), Permutes(N, fine),
         NEW m, GoodMatrix(m), NEW map, Maps(map, fine, m),
         \A C \in CellsOf(m) : \E c \in CellsOf(fine) : map[c] = C,
         NEW new, new = NewNumbers(m, N, map)
  PROVE  /\ new \in [CellsOf(m) -> CellsOf(m)]
         /\ \A C, D \in CellsOf(m) : new[C] = new[D] => C = D
         /\ OldNumbers(m, new) \in [CellsOf(m) -> CellsOf(m)]
         /\ \A c \in CellsOf(m) : new[OldNumbers(m, new)[c]] = c
<1>1. PICK n \in Nat : n = m.n
  BY FieldFacts
<1>2. PICK S : S = CellsOf(m)
  OBVIOUS
<1>3. S = 0 .. n - 1 /\ IsFiniteSet(S) /\ Cardinality(S) = n
  BY <1>1, <1>2, MatrixFacts DEF CellsOf
<1>4. PICK key : key = [C \in S |-> KeyOf(N, map, C)]
  OBVIOUS
<1>5. \A C \in S : key[C] \in Nat /\ map[N.nativeToAgg[key[C]]] = C /\ key[C] = KeyOf(N, map, C)
  BY <1>2, <1>4, KeysAre
<1>6. PICK R : R = {p \in S \X S : key[p[1]] < key[p[2]]}
  OBVIOUS
<1>7. \A x, y \in S : <<x, y>> \in R <=> key[x] < key[y]
  BY <1>6
<1>8. Orders(R, S)
  <2>1. \A x, y \in S : x # y => key[x] # key[y]
    BY <1>5
  <2>2. \A x, y \in S : x # y => key[x] < key[y] \/ key[y] < key[x]
    BY <1>5, <2>1
  <2>3. \A x, y, z \in S : key[x] < key[y] /\ key[y] < key[z] => key[x] < key[z]
    BY <1>5
  <2>4. \A x \in S : ~ (key[x] < key[x])
    BY <1>5
  <2> QED BY <1>7, <2>2, <2>3, <2>4 DEF Orders
<1>9. new = [C \in S |-> PlaceIn(S, R, C)]
  <2>1. ASSUME NEW C \in S
        PROVE  {D \in S : KeyOf(N, map, D) < KeyOf(N, map, C)} = {D \in S : <<D, C>> \in R}
    BY <1>5, <1>7
  <2>2. new = [C \in S |-> Cardinality({D \in S : KeyOf(N, map, D) < KeyOf(N, map, C)})]
    BY <1>2 DEF NewNumbers
  <2>3. \A C \in S : Cardinality({D \in S : KeyOf(N, map, D) < KeyOf(N, map, C)}) = PlaceIn(S, R, C)
    BY <2>1 DEF PlaceIn
  <2> QED BY <2>2, <2>3
<1>10. /\ new \in [S -> 0 .. n - 1]
       /\ \A k \in 0 .. n - 1 : PlacedAt(S, new, k) \in S /\ new[PlacedAt(S, new, k)] = k
       /\ \A x, y \in S : new[x] = new[y] => x = y
       /\ \A x, y \in S : <<x, y>> \in R => new[x] < new[y]
  <2>1. IsFiniteSet(S) /\ n = Cardinality(S)
    BY <1>3
  <2> QED BY ONLY <2>1, <1>8, <1>9, PlacesInverse, n \in Nat
<1>11. OldNumbers(m, new) = [c \in S |-> PlacedAt(S, new, c)]
  BY <1>2 DEF OldNumbers, PlacedAt
<1>12. OldNumbers(m, new) \in [S -> S] /\ \A c \in S : new[OldNumbers(m, new)[c]] = c
  BY <1>3, <1>10, <1>11
<1> QED BY <1>2, <1>3, <1>10, <1>12

\* The ends of a face under new numbers, turned upwards.
LEMMA EndsTurned ==
  ASSUME NEW m, GoodMatrix(m), NEW new \in [CellsOf(m) -> CellsOf(m)],
         \A C, D \in CellsOf(m) : new[C] = new[D] => C = D, NEW F \in FacesOf(m)
  PROVE  /\ LeftOf(m, new, F) \in CellsOf(m) /\ RightOf(m, new, F) \in CellsOf(m)
         /\ LeftOf(m, new, F) \in Nat /\ RightOf(m, new, F) \in Nat
         /\ LeftOf(m, new, F) < RightOf(m, new, F) /\ RightOf(m, new, F) < m.n
         /\ {LeftOf(m, new, F), RightOf(m, new, F)} = {new[m.lower[F]], new[m.upper[F]]}
<1>1. PICK C \in CellsOf(m) : C = m.lower[F]
  BY FieldFacts
<1>2. PICK D \in CellsOf(m) : D = m.upper[F]
  BY FieldFacts
<1>3. C # D
  BY <1>1, <1>2, FieldFacts
<1>4. PICK n \in Nat : n = m.n
  BY FieldFacts
<1>5. CellsOf(m) = 0 .. n - 1
  BY <1>4 DEF CellsOf
<1>6. PICK a \in 0 .. n - 1 : a = new[C]
  BY <1>5
<1>7. PICK b \in 0 .. n - 1 : b = new[D]
  BY <1>5
<1>8. a # b
  BY <1>3, <1>6, <1>7
<1>9. LeftOf(m, new, F) = AtMost(a, b) /\ RightOf(m, new, F) = AtLeast(a, b)
  BY <1>1, <1>2, <1>6, <1>7 DEF LeftOf, RightOf
<1>10. /\ AtMost(a, b) \in 0 .. n - 1 /\ AtLeast(a, b) \in 0 .. n - 1
       /\ AtMost(a, b) < AtLeast(a, b) /\ {AtMost(a, b), AtLeast(a, b)} = {a, b}
  BY <1>8 DEF AtMost, AtLeast
<1>11. \A k \in 0 .. n - 1 : k \in Nat /\ k < n
  OBVIOUS
<1> QED BY <1>1, <1>2, <1>4, <1>5, <1>6, <1>7, <1>9, <1>10, <1>11

\* Of three numbers compared one after the other: an order of S.
LEMMA LexicographicOrder ==
  ASSUME NEW S \in SUBSET Nat, NEW a, NEW b, \A x \in S : a[x] \in Nat /\ b[x] \in Nat,
         NEW R, \A x, y \in S : <<x, y>> \in R <=>
                  \/ a[x] < a[y]
                  \/ a[x] = a[y] /\ b[x] < b[y]
                  \/ a[x] = a[y] /\ b[x] = b[y] /\ x < y
  PROVE  Orders(R, S)
<1>1. ASSUME NEW x \in S, NEW y \in S, x # y PROVE <<x, y>> \in R \/ <<y, x>> \in R
  <2>1. PICK ax \in Nat, ay \in Nat : ax = a[x] /\ ay = a[y]
    OBVIOUS
  <2>2. PICK bx \in Nat, by \in Nat : bx = b[x] /\ by = b[y]
    OBVIOUS
  <2>3. x \in Nat /\ y \in Nat
    OBVIOUS
  <2>4. \/ ax < ay \/ (ax = ay /\ bx < by) \/ (ax = ay /\ bx = by /\ x < y)
        \/ ay < ax \/ (ay = ax /\ by < bx) \/ (ay = ax /\ by = bx /\ y < x)
    BY <1>1, <2>3
  <2> QED BY <2>1, <2>2, <2>4
<1>2. ASSUME NEW x \in S, NEW y \in S, NEW z \in S, <<x, y>> \in R, <<y, z>> \in R
      PROVE  <<x, z>> \in R
  <2>1. PICK ax \in Nat, ay \in Nat, az \in Nat : ax = a[x] /\ ay = a[y] /\ az = a[z]
    OBVIOUS
  <2>2. PICK bx \in Nat, by \in Nat, bz \in Nat : bx = b[x] /\ by = b[y] /\ bz = b[z]
    OBVIOUS
  <2>3. x \in Nat /\ y \in Nat /\ z \in Nat
    OBVIOUS
  <2>4. \/ ax < ay \/ (ax = ay /\ bx < by) \/ (ax = ay /\ bx = by /\ x < y)
    BY <1>2, <2>1, <2>2
  <2>5. \/ ay < az \/ (ay = az /\ by < bz) \/ (ay = az /\ by = bz /\ y < z)
    BY <1>2, <2>1, <2>2
  <2>6. \/ ax < az \/ (ax = az /\ bx < bz) \/ (ax = az /\ bx = bz /\ x < z)
    BY <2>3, <2>4, <2>5
  <2> QED BY <2>1, <2>2, <2>6
<1>3. ASSUME NEW x \in S PROVE <<x, x>> \notin R
  <2>1. a[x] \in Nat /\ b[x] \in Nat /\ x \in Nat
    OBVIOUS
  <2>2. ~ (a[x] < a[x]) /\ ~ (b[x] < b[x]) /\ ~ (x < x)
    BY <2>1
  <2> QED BY <2>2
<1> QED BY <1>1, <1>2, <1>3 DEF Orders

\* The faces sorted by their new ends.
LEMMA OldFacesAre ==
  ASSUME NEW m, GoodMatrix(m), NEW new \in [CellsOf(m) -> CellsOf(m)],
         \A C, D \in CellsOf(m) : new[C] = new[D] => C = D,
         NEW face, face = OldFaces(m, new)
  PROVE  /\ face \in [FacesOf(m) -> FacesOf(m)]
         /\ \A f, g \in FacesOf(m) : face[f] = face[g] => f = g
         /\ \A F \in FacesOf(m) : \E f \in FacesOf(m) : face[f] = F
         /\ \A f, g \in FacesOf(m) : f < g => LeftOf(m, new, face[f]) <= LeftOf(m, new, face[g])
<1>0. PICK S : S = FacesOf(m)
  OBVIOUS
<1>1. PICK n \in Nat : n = Len(m.lower) /\ S = FacesOf(m)
  BY <1>0, FieldFacts
<1>2. S = 1 .. n /\ S \in SUBSET Nat
  BY <1>1 DEF FacesOf
<1>3. IsFiniteSet(S) /\ Cardinality(S) = n
  <2>1. IsFiniteSet(1 .. n) /\ Cardinality(1 .. n) = n
    BY FS_Interval
  <2> QED BY <1>2, <2>1
<1>4. PICK a, b : a = [F \in S |-> LeftOf(m, new, F)] /\ b = [F \in S |-> RightOf(m, new, F)]
  OBVIOUS
<1>5. \A F \in S : /\ a[F] = LeftOf(m, new, F) /\ b[F] = RightOf(m, new, F)
                   /\ a[F] \in Nat /\ b[F] \in Nat
  BY <1>1, <1>4, EndsTurned
<1>6. PICK R : R = {p \in S \X S : \/ a[p[1]] < a[p[2]]
                                   \/ a[p[1]] = a[p[2]] /\ b[p[1]] < b[p[2]]
                                   \/ a[p[1]] = a[p[2]] /\ b[p[1]] = b[p[2]] /\ p[1] < p[2]}
  OBVIOUS
<1>7. \A x, y \in S : <<x, y>> \in R <=>
        \/ a[x] < a[y]
        \/ a[x] = a[y] /\ b[x] < b[y]
        \/ a[x] = a[y] /\ b[x] = b[y] /\ x < y
  BY <1>6
<1>8. Orders(R, S)
  BY <1>2, <1>5, <1>7, LexicographicOrder
<1>9. PICK place : place = [x \in S |-> PlaceIn(S, R, x)]
  OBVIOUS
<1>10. /\ place \in [S -> 0 .. n - 1]
       /\ \A k \in 0 .. n - 1 : PlacedAt(S, place, k) \in S /\ place[PlacedAt(S, place, k)] = k
       /\ \A x, y \in S : place[x] = place[y] => x = y
       /\ \A x, y \in S : <<x, y>> \in R => place[x] < place[y]
  <2>1. IsFiniteSet(S) /\ n = Cardinality(S)
    BY <1>3
  <2> QED BY ONLY <2>1, <1>8, <1>9, PlacesInverse, n \in Nat
<1>11. face = [f \in S |-> PlacedAt(S, place, f - 1)]
  <2>1. ASSUME NEW F \in S
        PROVE  Cardinality({G \in S : FaceFirst(m, new, G, F)}) = place[F]
    <3>1. {G \in S : FaceFirst(m, new, G, F)} = {G \in S : <<G, F>> \in R}
      BY <1>5, <1>7 DEF FaceFirst
    <3> QED BY <1>9, <3>1 DEF PlaceIn
  <2>2. face = [f \in S |-> CHOOSE F \in S : Cardinality({G \in S : FaceFirst(m, new, G, F)}) = f - 1]
    BY <1>1 DEF OldFaces
  <2>3. ASSUME NEW f \in S
        PROVE  (CHOOSE F \in S : Cardinality({G \in S : FaceFirst(m, new, G, F)}) = f - 1)
                 = PlacedAt(S, place, f - 1)
    BY <2>1 DEF PlacedAt
  <2> QED BY <2>2, <2>3
<1>12. \A f \in S : f - 1 \in 0 .. n - 1 /\ f \in Nat
  BY <1>2
<1>13. \A f \in S : face[f] \in S /\ place[face[f]] = f - 1
  BY <1>10, <1>11, <1>12
<1>14. face \in [S -> S]
  BY <1>11, <1>13
<1>15. ASSUME NEW f \in S, NEW g \in S, face[f] = face[g] PROVE f = g
  <2>1. f - 1 = g - 1
    BY <1>13, <1>15
  <2> QED BY <1>12, <2>1
<1>16. ASSUME NEW F \in S PROVE \E f \in S : face[f] = F
  <2>1. PICK k \in 0 .. n - 1 : k = place[F]
    BY <1>10
  <2>2. PICK f \in S : f = k + 1
    BY <1>2
  <2>3. f - 1 = k
    BY <2>2
  <2>4. place[face[f]] = place[F] /\ face[f] \in S
    BY <1>13, <2>1, <2>3
  <2> QED BY <1>10, <2>4
<1>17. ASSUME NEW f \in S, NEW g \in S, f < g
       PROVE  LeftOf(m, new, face[f]) <= LeftOf(m, new, face[g])
  <2>1. PICK F \in S, G \in S : F = face[f] /\ G = face[g]
    BY <1>13
  <2>2. place[F] = f - 1 /\ place[G] = g - 1
    BY <1>13, <2>1
  <2>3. <<G, F>> \notin R
    <3>1. ~ (g - 1 < f - 1)
      BY <1>12, <1>17
    <3> QED BY <1>10, <2>2, <3>1
  <2>4. ~ (a[G] < a[F])
    BY <1>7, <2>3
  <2>5. a[F] <= a[G]
    BY <1>5, <2>4
  <2> QED BY <1>5, <2>1, <2>5
<1> QED BY <1>1, <1>14, <1>15, <1>16, <1>17

\* Cells and faces in their new numbers make a matrix like the old one.
LEMMA NumberedAsIs ==
  ASSUME NEW m, GoodMatrix(m), NEW new \in [CellsOf(m) -> CellsOf(m)],
         \A C, D \in CellsOf(m) : new[C] = new[D] => C = D,
         NEW old \in [CellsOf(m) -> CellsOf(m)], \A c \in CellsOf(m) : new[old[c]] = c,
         NEW face, face = OldFaces(m, new),
         NEW made, made = NumberedAs(m, new, old, face)
  PROVE  Renumbers(made.numbering, made.matrix, m)
<1> DEFINE x == made.matrix
           N == made.numbering
<1>1. /\ x.n = m.n
      /\ x.lower = [f \in FacesOf(m) |-> LeftOf(m, new, face[f])]
      /\ x.upper = [f \in FacesOf(m) |-> RightOf(m, new, face[f])]
      /\ x.diag = [c \in CellsOf(m) |-> m.diag[old[c]]]
      /\ x.coeff = [f \in FacesOf(m) |-> m.coeff[face[f]]]
      /\ N.nativeToAgg = old /\ N.aggToNative = new /\ N.faceToAgg = face
  BY DEF NumberedAs
<1> HIDE DEF x, N
<1>2. /\ face \in [FacesOf(m) -> FacesOf(m)]
      /\ \A f, g \in FacesOf(m) : face[f] = face[g] => f = g
      /\ \A F \in FacesOf(m) : \E f \in FacesOf(m) : face[f] = F
      /\ \A f, g \in FacesOf(m) : f < g => LeftOf(m, new, face[f]) <= LeftOf(m, new, face[g])
  BY OldFacesAre
<1>3. \A F \in FacesOf(m) :
         /\ LeftOf(m, new, F) \in CellsOf(m) /\ RightOf(m, new, F) \in CellsOf(m)
         /\ LeftOf(m, new, F) \in Nat /\ RightOf(m, new, F) \in Nat
         /\ LeftOf(m, new, F) < RightOf(m, new, F) /\ RightOf(m, new, F) < m.n
         /\ {LeftOf(m, new, F), RightOf(m, new, F)} = {new[m.lower[F]], new[m.upper[F]]}
  BY EndsTurned
<1>4. PICK n \in Nat, k \in Nat : n = m.n /\ k = Len(m.lower)
  BY FieldFacts
<1>5. FacesOf(m) = 1 .. k /\ n >= 1
  BY <1>4, MatrixFacts DEF FacesOf
<1>6. \A c \in CellsOf(m) : old[new[c]] = c
  BY Zenon
<1>7. Permutes(N, m)
  BY <1>1, <1>2, <1>6 DEF Permutes
<1>8. \A f \in FacesOf(m) : m.lower[f] \in CellsOf(m) /\ m.upper[f] \in CellsOf(m) /\ m.coeff[f] \in Int
  BY FieldFacts
<1>9. \A c \in CellsOf(m) : m.diag[c] \in Int
  BY FieldFacts
<1>10. x.lower \in Seq(Nat) /\ x.upper \in Seq(Nat) /\ x.coeff \in Seq(Int)
       /\ Len(x.lower) = k /\ Len(x.upper) = k /\ Len(x.coeff) = k
  <2>1. \A f \in 1 .. k : /\ LeftOf(m, new, face[f]) \in Nat /\ RightOf(m, new, face[f]) \in Nat
                          /\ m.coeff[face[f]] \in Int
    BY <1>2, <1>3, <1>5, <1>8
  <2>2. /\ x.lower = [f \in 1 .. k |-> LeftOf(m, new, face[f])]
        /\ x.upper = [f \in 1 .. k |-> RightOf(m, new, face[f])]
        /\ x.coeff = [f \in 1 .. k |-> m.coeff[face[f]]]
    BY <1>1, <1>5
  <2>3. ASSUME NEW T, NEW s, s \in [1 .. k -> T] PROVE s \in Seq(T) /\ Len(s) = k
    BY <2>3
  <2>4. x.lower \in [1 .. k -> Nat] /\ x.upper \in [1 .. k -> Nat] /\ x.coeff \in [1 .. k -> Int]
    BY <2>1, <2>2
  <2> QED BY <2>3, <2>4
<1>11. CellsOf(x) = CellsOf(m) /\ FacesOf(x) = FacesOf(m)
  BY <1>1, <1>4, <1>5, <1>10 DEF CellsOf, FacesOf
<1>12. x.diag \in [CellsOf(x) -> Int]
  BY <1>1, <1>9, <1>11
<1>13. MatrixType(x)
  BY <1>1, <1>4, <1>10, <1>12 DEF MatrixType
<1>14. ASSUME NEW f \in FacesOf(m)
       PROVE  /\ 0 <= x.lower[f] /\ x.lower[f] < x.upper[f] /\ x.upper[f] < x.n
              /\ \A g \in FacesOf(m) : f < g => x.lower[f] <= x.lower[g]
              /\ {x.lower[f], x.upper[f]} = {new[m.lower[face[f]]], new[m.upper[face[f]]]}
  <2>1. face[f] \in FacesOf(m)
    BY <1>2
  <2>2. x.lower[f] = LeftOf(m, new, face[f]) /\ x.upper[f] = RightOf(m, new, face[f])
    BY <1>1
  <2>3. \A g \in FacesOf(m) : f < g => x.lower[f] <= x.lower[g]
    BY <1>1, <1>2, <2>2
  <2>4. LeftOf(m, new, face[f]) \in Nat
    BY <1>3, <2>1
  <2>5. 0 <= LeftOf(m, new, face[f])
    BY <2>4
  <2>6. PICK F \in FacesOf(m) : F = face[f]
    BY <2>1
  <2>7. /\ LeftOf(m, new, F) < RightOf(m, new, F) /\ RightOf(m, new, F) < m.n
        /\ {LeftOf(m, new, F), RightOf(m, new, F)} = {new[m.lower[F]], new[m.upper[F]]}
    BY <1>3
  <2>8. x.n = m.n
    BY <1>1
  <2> QED BY <2>2, <2>3, <2>5, <2>6, <2>7, <2>8
<1>15. IsMatrix(x)
  BY <1>1, <1>4, <1>5, <1>10, <1>11, <1>14 DEF IsMatrix
<1>16. \A f \in FacesOf(m) :
         {N.nativeToAgg[x.lower[f]], N.nativeToAgg[x.upper[f]]} =
           {m.lower[N.faceToAgg[f]], m.upper[N.faceToAgg[f]]}
  <2> SUFFICES ASSUME NEW f \in FacesOf(m)
               PROVE  {old[x.lower[f]], old[x.upper[f]]} = {m.lower[face[f]], m.upper[face[f]]}
    BY <1>1
  <2>1. PICK F \in FacesOf(m) : F = face[f]
    BY <1>2
  <2>2. PICK C \in CellsOf(m), D \in CellsOf(m) : C = m.lower[F] /\ D = m.upper[F]
    BY <1>8
  <2>3. {x.lower[f], x.upper[f]} = {new[C], new[D]}
    BY <1>14, <2>1, <2>2
  <2>4. old[new[C]] = C /\ old[new[D]] = D
    BY <1>6
  <2>5. \/ x.lower[f] = new[C] /\ x.upper[f] = new[D]
        \/ x.lower[f] = new[D] /\ x.upper[f] = new[C]
    BY <2>3
  <2> QED BY <2>1, <2>2, <2>4, <2>5
<1>17. Len(x.lower) = Len(m.lower)
  BY <1>4, <1>10
<1>18. \A c \in CellsOf(m) : x.diag[c] = m.diag[N.nativeToAgg[c]]
  BY <1>1
<1>19. \A f \in FacesOf(m) : x.coeff[f] = m.coeff[N.faceToAgg[f]]
  BY <1>1
<1>20. Renumbers(N, x, m)
  BY <1>1, <1>7, <1>13, <1>15, <1>16, <1>17, <1>18, <1>19 DEF Renumbers, GoodMatrix
<1> QED BY <1>20 DEF N, x

\* Whatever the options say, the numbering belongs to the matrix.
LEMMA RenumberCoarseIs ==
  ASSUME NEW N, NEW fine, GoodMatrix(fine), Permutes(N, fine),
         NEW m, GoodMatrix(m), NEW map, Maps(map, fine, m),
         \A C \in CellsOf(m) : \E c \in CellsOf(fine) : map[c] = C,
         NEW made, made = RenumberCoarse(m, N, map)
  PROVE  Renumbers(made.numbering, made.matrix, m)
<1>1. CASE options.coarseRenumbering = "None"
  <2>1. made = [matrix |-> m, numbering |-> IdentityNumbering(m.n, Len(m.lower))]
    BY <1>1 DEF RenumberCoarse
  <2>2. made.matrix = m /\ made.numbering = IdentityNumbering(m.n, Len(m.lower))
    BY <2>1
  <2> QED BY <2>2, IdentityRenumbers
<1>2. CASE options.coarseRenumbering # "None"
  <2>1. PICK new : new = NewNumbers(m, N, map)
    OBVIOUS
  <2>2. PICK old, face : old = OldNumbers(m, new) /\ face = OldFaces(m, new)
    OBVIOUS
  <2>3. made = NumberedAs(m, new, old, face)
    BY <1>2, <2>1, <2>2, MinimumIs DEF RenumberCoarse
  <2>4. /\ new \in [CellsOf(m) -> CellsOf(m)]
        /\ \A C, D \in CellsOf(m) : new[C] = new[D] => C = D
        /\ old \in [CellsOf(m) -> CellsOf(m)]
        /\ \A c \in CellsOf(m) : new[old[c]] = c
    BY <2>1, <2>2, NewNumbersAre
  <2> QED BY <2>2, <2>3, <2>4, NumberedAsIs
<1> QED BY <1>1, <1>2

-----------------------------------------------------------------------------
(* A level of the hierarchy: its packed matrix and its numbering.          *)

PackedLevel(M, N, m) == \E native : IsPacked(M, native) /\ Renumbers(N, native, m)

\* the row of a cell of the agglomeration
RowPlaces(M, N, m) == [a \in CellsOf(m) |-> M.oldToNew[N.aggToNative[a]]]

\* Cells and rows, there and back.
LEMMA RowsAre ==
  ASSUME NEW M, NEW N, NEW m, PackedLevel(M, N, m)
  PROVE  /\ RowPlaces(M, N, m) \in [CellsOf(m) -> CellsOf(m)] /\ M.n = m.n /\ GoodMatrix(m)
         /\ \A a \in CellsOf(m) : N.nativeToAgg[M.newToOld[RowPlaces(M, N, m)[a]]] = a
         /\ \A r \in CellsOf(m) : N.nativeToAgg[M.newToOld[r]] \in CellsOf(m)
         /\ \A r \in CellsOf(m) : RowPlaces(M, N, m)[N.nativeToAgg[M.newToOld[r]]] = r
         /\ \A c \in CellsOf(m) : M.oldToNew[N.aggToNative[c]] \in CellsOf(m)
         /\ \A a, b \in CellsOf(m) : RowPlaces(M, N, m)[a] = RowPlaces(M, N, m)[b] => a = b
<1>1. PICK native : IsPacked(M, native) /\ Renumbers(N, native, m)
  BY DEF PackedLevel
<1>2. CellsOf(native) = CellsOf(m) /\ M.n = m.n /\ GoodMatrix(m)
  BY <1>1, SameSizes DEF Renumbers, IsPacked
<1>3. PICK S : S = CellsOf(m)
  OBVIOUS
<1>4. /\ M.newToOld \in [S -> S] /\ M.oldToNew \in [S -> S]
      /\ \A c \in S : M.newToOld[M.oldToNew[c]] = c /\ M.oldToNew[M.newToOld[c]] = c
  BY <1>1, <1>2, <1>3 DEF IsPacked
<1>5. /\ N.nativeToAgg \in [S -> S] /\ N.aggToNative \in [S -> S]
      /\ \A c \in S : N.nativeToAgg[N.aggToNative[c]] = c /\ N.aggToNative[N.nativeToAgg[c]] = c
  BY <1>1, <1>3 DEF Renumbers, Permutes
<1>6. RowPlaces(M, N, m) = [a \in S |-> M.oldToNew[N.aggToNative[a]]]
  BY <1>3 DEF RowPlaces
<1>7. \A a \in S : /\ N.aggToNative[a] \in S /\ M.oldToNew[N.aggToNative[a]] \in S
                   /\ N.nativeToAgg[M.newToOld[M.oldToNew[N.aggToNative[a]]]] = a
  BY <1>4, <1>5
<1>8. \A r \in S : /\ N.nativeToAgg[M.newToOld[r]] \in S
                   /\ M.oldToNew[N.aggToNative[N.nativeToAgg[M.newToOld[r]]]] = r
  BY <1>4, <1>5
<1>9. PICK row : row = RowPlaces(M, N, m)
  OBVIOUS
<1>10. row \in [S -> S] /\ \A a \in S : N.nativeToAgg[M.newToOld[row[a]]] = a
  BY <1>6, <1>7, <1>9
<1>11. \A a, b \in S : row[a] = row[b] => a = b
  BY <1>10
<1>12. \A r \in S : row[N.nativeToAgg[M.newToOld[r]]] = r
  BY <1>6, <1>8, <1>9
<1>13. /\ row \in [S -> S]
       /\ \A a \in S : N.nativeToAgg[M.newToOld[row[a]]] = a
       /\ \A r \in S : N.nativeToAgg[M.newToOld[r]] \in S
       /\ \A r \in S : row[N.nativeToAgg[M.newToOld[r]]] = r
       /\ \A c \in S : M.oldToNew[N.aggToNative[c]] \in S
       /\ \A a, b \in S : row[a] = row[b] => a = b
  BY ONLY <1>7, <1>8, <1>10, <1>11, <1>12
<1> QED BY ONLY <1>2, <1>3, <1>9, <1>13

\* Faces between two cells keep the cells they join.
LEMMA JoiningMoved ==
  ASSUME NEW N, NEW native, NEW m, Renumbers(N, native, m),
         NEW a \in CellsOf(m), NEW b \in CellsOf(m)
  PROVE  SumOf(native.coeff, FacesJoining(native, N.aggToNative[a], N.aggToNative[b]))
           = SumOf(m.coeff, FacesJoining(m, a, b))
<1> DEFINE S == FacesJoining(native, N.aggToNative[a], N.aggToNative[b])
           T == FacesJoining(m, a, b)
           h == N.faceToAgg
<1>1. GoodMatrix(native) /\ GoodMatrix(m)
  BY DEF Renumbers
<1>2. CellsOf(native) = CellsOf(m) /\ FacesOf(native) = FacesOf(m)
  BY SameSizes
<1>3. /\ N.nativeToAgg \in [CellsOf(m) -> CellsOf(m)] /\ N.aggToNative \in [CellsOf(m) -> CellsOf(m)]
      /\ \A c \in CellsOf(m) :
           N.nativeToAgg[N.aggToNative[c]] = c /\ N.aggToNative[N.nativeToAgg[c]] = c
      /\ h \in [FacesOf(m) -> FacesOf(m)]
      /\ \A f, g \in FacesOf(m) : h[f] = h[g] => f = g
      /\ \A F \in FacesOf(m) : \E f \in FacesOf(m) : h[f] = F
  BY DEF Renumbers, Permutes
<1>4. \A f \in FacesOf(m) :
         /\ native.coeff[f] = m.coeff[h[f]] /\ native.coeff[f] \in Int
         /\ {N.nativeToAgg[native.lower[f]], N.nativeToAgg[native.upper[f]]} =
              {m.lower[h[f]], m.upper[h[f]]}
         /\ native.lower[f] \in CellsOf(m) /\ native.upper[f] \in CellsOf(m)
  BY <1>1, <1>2, FieldFacts DEF Renumbers
<1>5. S = {f \in FacesOf(m) : {native.lower[f], native.upper[f]} = {N.aggToNative[a], N.aggToNative[b]}}
  BY <1>2 DEF FacesJoining
<1>6. T = {F \in FacesOf(m) : {m.lower[F], m.upper[F]} = {a, b}}
  BY DEF FacesJoining
<1>7. IsFiniteSet(S) /\ IsFiniteSet(T)
  <2>1. S \subseteq FacesOf(m) /\ T \subseteq FacesOf(m)
    BY <1>5, <1>6
  <2> HIDE DEF S, T
  <2> QED BY <1>1, <2>1, FieldFacts, FS_Subset
<1>8. ASSUME NEW f \in FacesOf(m) PROVE f \in S <=> h[f] \in T
  <2>1. PICK c \in CellsOf(m), d \in CellsOf(m) : c = native.lower[f] /\ d = native.upper[f]
    BY <1>4
  <2>2. PICK C \in CellsOf(m), D \in CellsOf(m) : C = N.nativeToAgg[c] /\ D = N.nativeToAgg[d]
    BY <1>3
  <2>3. N.aggToNative[C] = c /\ N.aggToNative[D] = d
    BY <1>3, <2>2
  <2>4. {C, D} = {m.lower[h[f]], m.upper[h[f]]}
    BY <1>4, <2>1, <2>2
  <2>5. h[f] \in FacesOf(m)
    BY <1>3
  <2>6. f \in S <=> {c, d} = {N.aggToNative[a], N.aggToNative[b]}
    BY <1>5, <2>1
  <2>7. h[f] \in T <=> {C, D} = {a, b}
    BY <1>6, <2>4, <2>5
  <2>8. \A x, y \in CellsOf(m) : N.aggToNative[x] = N.aggToNative[y] => x = y
    BY <1>3
  <2>9. {c, d} = {N.aggToNative[a], N.aggToNative[b]} <=> {C, D} = {a, b}
    <3>1. {C, D} = {a, b} => {N.aggToNative[C], N.aggToNative[D]} = {N.aggToNative[a], N.aggToNative[b]}
      <4>1. {C, D} = {a, b} => (C = a /\ D = b) \/ (C = b /\ D = a)
        OBVIOUS
      <4> QED BY <4>1
    <3>2. {c, d} = {N.aggToNative[a], N.aggToNative[b]} =>
            \/ c = N.aggToNative[a] /\ d = N.aggToNative[b]
            \/ c = N.aggToNative[b] /\ d = N.aggToNative[a]
      OBVIOUS
    <3>3. {c, d} = {N.aggToNative[a], N.aggToNative[b]} => (C = a /\ D = b) \/ (C = b /\ D = a)
      BY <2>3, <2>8, <3>2
    <3> QED BY <2>3, <3>1, <3>3
  <2> QED BY <2>6, <2>7, <2>9
<1>9. S \subseteq FacesOf(m) /\ T \subseteq FacesOf(m)
  BY <1>5, <1>6
<1> HIDE DEF S, T, h
<1>10. \A f \in S : h[f] \in T /\ native.coeff[f] \in Int /\ m.coeff[h[f]] = native.coeff[f]
  BY <1>4, <1>8, <1>9
<1>11. \A f, g \in S : h[f] = h[g] => f = g
  BY <1>3, <1>9
<1>12. \A F \in T : \E f \in S : h[f] = F
  BY <1>3, <1>8, <1>9
<1>13. SumOf(native.coeff, S) = SumOf(m.coeff, T)
  BY <1>7, <1>10, <1>11, <1>12, SumMoved
<1> QED BY <1>13 DEF S, T

\* The entries are those of the matrix of the agglomeration.
LEMMA EntriesKept ==
  ASSUME NEW M, NEW N, NEW m, PackedLevel(M, N, m), NEW a \in CellsOf(m), NEW b \in CellsOf(m)
  PROVE  EntryOf(M, RowPlaces(M, N, m)[a], RowPlaces(M, N, m)[b]) = EntryIn(m, a, b)
<1>1. PICK native : IsPacked(M, native) /\ Renumbers(N, native, m)
  BY DEF PackedLevel
<1>2. CellsOf(native) = CellsOf(m)
  BY <1>1, SameSizes
<1>3. PICK c \in CellsOf(m), d \in CellsOf(m) :
        c = N.aggToNative[a] /\ d = N.aggToNative[b] /\ N.nativeToAgg[c] = a /\ N.nativeToAgg[d] = b
  BY <1>1 DEF Renumbers, Permutes
<1>4. PICK r \in CellsOf(m), s \in CellsOf(m) : r = RowPlaces(M, N, m)[a] /\ s = RowPlaces(M, N, m)[b]
  BY RowsAre
<1>5. r = M.oldToNew[c] /\ s = M.oldToNew[d]
  BY <1>3, <1>4 DEF RowPlaces
<1>6. M.newToOld[r] = c /\ M.newToOld[s] = d
  BY <1>1, <1>2, <1>5 DEF IsPacked
<1>7. /\ r = s => EntryOf(M, r, s) = native.diag[c] % P
      /\ r # s => EntryOf(M, r, s) = SumOf(native.coeff, FacesJoining(native, c, d)) % P
  BY <1>1, <1>2, <1>6, EntryIs
<1>8. r = s <=> a = b
  BY <1>3, <1>5, <1>6
<1>9. native.diag[c] = m.diag[a]
  BY <1>1, <1>3 DEF Renumbers
<1>10. SumOf(native.coeff, FacesJoining(native, c, d)) = SumOf(m.coeff, FacesJoining(m, a, b))
  BY <1>1, <1>3, JoiningMoved
<1>11. EntryIn(m, a, b) = IF a = b THEN m.diag[a] % P
                          ELSE SumOf(m.coeff, FacesJoining(m, a, b)) % P
  BY DEF EntryIn, Total, SumOf, FacesJoining
<1> QED BY <1>4, <1>7, <1>8, <1>9, <1>10, <1>11

\* The map of rows is the map of cells.
LEMMA DirectMapIs ==
  ASSUME NEW M, NEW N, NEW fine, PackedLevel(M, N, fine),
         NEW cM, NEW cN, NEW coarse, PackedLevel(cM, cN, coarse),
         NEW map, Maps(map, fine, coarse), NEW direct, direct = DirectMap(M, N, map, cN, cM)
  PROVE  /\ Maps(direct, fine, coarse)
         /\ \A a \in CellsOf(fine) :
              direct[RowPlaces(M, N, fine)[a]] = RowPlaces(cM, cN, coarse)[map[a]]
<1>1. Index(M) = CellsOf(fine)
  BY RowsAre DEF Index, CellsOf
<1>2. direct = [r \in CellsOf(fine) |-> cM.oldToNew[cN.aggToNative[map[N.nativeToAgg[M.newToOld[r]]]]]]
  BY <1>1 DEF DirectMap
<1>3. ASSUME NEW a \in CellsOf(fine) PROVE map[a] \in CellsOf(coarse)
  BY DEF Maps
<1>4. ASSUME NEW r \in CellsOf(fine)
      PROVE  cM.oldToNew[cN.aggToNative[map[N.nativeToAgg[M.newToOld[r]]]]] \in CellsOf(coarse)
  <2>1. PICK a \in CellsOf(fine) : a = N.nativeToAgg[M.newToOld[r]]
    BY RowsAre
  <2> QED BY <1>3, <2>1, RowsAre
<1>5. Maps(direct, fine, coarse)
  BY <1>2, <1>4 DEF Maps
<1>6. ASSUME NEW a \in CellsOf(fine)
      PROVE  direct[RowPlaces(M, N, fine)[a]] = RowPlaces(cM, cN, coarse)[map[a]]
  <2>1. PICK r \in CellsOf(fine) : r = RowPlaces(M, N, fine)[a] /\ N.nativeToAgg[M.newToOld[r]] = a
    BY RowsAre
  <2>2. direct[r] = cM.oldToNew[cN.aggToNative[map[a]]]
    BY <1>2, <2>1
  <2> QED BY <1>3, <2>1, <2>2 DEF RowPlaces
<1> QED BY <1>5, <1>6

\* The rows of any order the options ask for make a level.
LEMMA OrderedLevel ==
  ASSUME NEW N, NEW native, NEW m, Renumbers(N, native, m), NEW order \in RowOrders(native)
  PROVE  PackedLevel(Pack(native, order), N, m)
<1>1. GoodMatrix(native)
  BY DEF Renumbers
<1>2. order = NaturalOrder(native) \/ order \in ForwardOrders(native)
  BY DEF RowOrders
<1>3. IsOrder(native, order)
  BY <1>1, <1>2, NaturalIsOrder, ForwardIsOrder
<1>4. IsPacked(Pack(native, order), native)
  BY <1>1, <1>3, PackIs
<1> QED BY <1>4 DEF PackedLevel

\* The level below another one.
LEMMA CoarseLevel ==
  ASSUME NEW M, NEW N, NEW fine, PackedLevel(M, N, fine), NEW made, NEW coarse, GoodMatrix(coarse),
         Collects(fine, made, coarse), NEW next,
         next = RenumberCoarse(BuildCoarseOperator(M, N, coarse, made), N, made.fineToCoarse),
         NEW order \in RowOrders(next.matrix)
  PROVE  PackedLevel(Pack(next.matrix, order), next.numbering, coarse)
<1>1. PICK native : IsPacked(M, native) /\ Renumbers(N, native, fine)
  BY DEF PackedLevel
<1>2. BuildCoarseOperator(M, N, coarse, made) = coarse
  BY <1>1, OperatorIs
<1>3. next = RenumberCoarse(coarse, N, made.fineToCoarse)
  BY <1>2
<1>4. GoodMatrix(fine) /\ Permutes(N, fine)
  BY <1>1 DEF Renumbers
<1>5. /\ Maps(made.fineToCoarse, fine, coarse)
      /\ \A C \in CellsOf(coarse) : \E c \in CellsOf(fine) : made.fineToCoarse[c] = C
  BY DEF Collects
<1>6. Renumbers(next.numbering, next.matrix, coarse)
  BY <1>3, <1>4, <1>5, RenumberCoarseIs
<1> QED BY <1>6, OrderedLevel

-----------------------------------------------------------------------------
(* The kernels on the fields of a packed matrix.                           *)

Ways == {"RowWise", "FlatEdgeWise", "DirectFlatEdgeWise", "NativeFaceOrderDirectFlatEdgeWise"}

\* The product, in whichever way the options ask for it.
LEMMA ProductIs ==
  ASSUME NEW M, NEW m, IsPacked(M, m), NEW x \in FieldOf(m), NEW traversal \in Ways
  PROVE  Product(M, traversal, x) = Reference(M, x) /\ Reference(M, x) \in FieldOf(m)
<1>1. PackedProduct(M, x) = Reference(M, x) /\ Reference(M, x) \in FieldOf(m)
  BY PackedProductIs
<1>2. EdgeProduct(M, DirectEdges(M), x) = Reference(M, x)
  BY DirectEdgesListed, EdgeProductIs
<1>3. EdgeProduct(M, M.lduOrderEdges, x) = Reference(M, x)
  BY NativeEdges, EdgeProductIs
<1>4. Product(M, traversal, x) =
        CASE traversal = "RowWise" -> PackedProduct(M, x)
          [] traversal \in {"FlatEdgeWise", "DirectFlatEdgeWise"} -> EdgeProduct(M, DirectEdges(M), x)
          [] traversal = "NativeFaceOrderDirectFlatEdgeWise" -> EdgeProduct(M, M.lduOrderEdges, x)
  BY DEF Product
<1> QED BY <1>1, <1>2, <1>3, <1>4 DEF Ways

\* Fields in the order of rows and back.
LEMMA FieldMoved ==
  ASSUME NEW M, NEW m, IsPacked(M, m), NEW x \in FieldOf(m)
  PROVE  ToFw(M, x) \in FieldOf(m) /\ ToOriginal(M, x) \in FieldOf(m)
<1>1. Index(M) = CellsOf(m) /\ FieldOf(m) = [CellsOf(m) -> Value]
      /\ M.newToOld \in [CellsOf(m) -> CellsOf(m)]
  BY DEF IsPacked, Index, CellsOf, FieldOf
<1>2. ToFw(M, x) = [row \in CellsOf(m) |-> x[M.newToOld[row]]]
  BY <1>1, TableIs DEF ToFw
<1>3. ToFw(M, x) \in FieldOf(m)
  BY <1>1, <1>2
<1> QED BY <1>3, PackedFields

\* The scaled correction of a field is a field.
LEMMA FwScaleField ==
  ASSUME NEW M, NEW m, IsPacked(M, m), NEW x \in FieldOf(m), NEW b \in FieldOf(m),
         NEW traversal \in Ways
  PROVE  FwScaleCorrection(M, traversal, x, b) \in FieldOf(m)
<1> DEFINE product == Product(M, traversal, x)
           denominator == InnerProduct(x, product)
           factor == Over(InnerProduct(x, b), IF denominator = 0 THEN 1 ELSE denominator)
           new(c) == (factor * x[c] + Over(b[c] - factor * product[c], M.diag[c])) % P
<1>0. GoodMatrix(m) /\ Index(M) = CellsOf(m) /\ Index(m) = CellsOf(m)
      /\ \A c \in CellsOf(m) : M.newToOld[c] \in CellsOf(m) /\ M.diag[c] = m.diag[M.newToOld[c]]
  BY DEF IsPacked, Index, CellsOf
<1>1. ASSUME NEW y \in FieldOf(m) PROVE InnerProduct(x, y) \in Int
  <2>1. DOMAIN x = CellsOf(m)
    BY <1>0, FieldFacts DEF FieldOf
  <2>2. InnerProduct(x, y) = SumCellTimes(x, y, CellsOf(m)) % P
    BY <2>1 DEF InnerProduct, Total, SumCellTimes
  <2>3. \A c \in CellsOf(m) : CellTimes(x, y, CellsOf(m))[c] \in Int
    <3>1. \A c \in CellsOf(m) : x[c] \in Int /\ y[c] \in Int
      BY <1>0, FieldFacts
    <3> QED BY <3>1 DEF CellTimes
  <2>4. SumCellTimes(x, y, CellsOf(m)) \in Int
    BY <1>0, <2>3, FieldFacts, SumCells, SumInt
  <2> QED BY <2>2, <2>4, Remainder
<1>2. product \in FieldOf(m)
  BY ProductIs
<1> HIDE DEF product
<1>3. factor \in Int
  <2>1. InnerProduct(x, b) \in Int /\ denominator \in Int
    BY <1>1, <1>2
  <2>2. (IF denominator = 0 THEN 1 ELSE denominator) \in Int
    BY <2>1
  <2> HIDE DEF denominator
  <2>3. factor \in Value
    BY <2>1, <2>2, OverIs
  <2> HIDE DEF factor
  <2> QED BY <2>3, RemainderOfValue
<1>4. FwScaleCorrection(M, traversal, x, b) = [c \in Index(M) |-> new(c)]
  BY TableIs DEF FwScaleCorrection, product
<1> HIDE DEF factor
<1>5. ASSUME NEW c \in CellsOf(m) PROVE new(c) \in Value
  <2>1. x[c] \in Int /\ b[c] \in Int /\ product[c] \in Int /\ M.diag[c] \in Int
    BY <1>0, <1>2, FieldFacts
  <2>2. b[c] - factor * product[c] \in Int
    BY <1>3, <2>1
  <2>3. Over(b[c] - factor * product[c], M.diag[c]) \in Int
    BY <2>1, <2>2, OverIs, RemainderOfValue
  <2>4. factor * x[c] + Over(b[c] - factor * product[c], M.diag[c]) \in Int
    BY <1>3, <2>1, <2>3
  <2> QED BY <2>4, Remainder
<1> HIDE DEF new
<1> QED BY <1>0, <1>4, <1>5 DEF FieldOf

\* The dense matrix made of packed rows.
LEMMA FwDenseIs ==
  ASSUME NEW M, NEW m, IsPacked(M, m)
  PROVE  FwDense(M) \in Dense(m.n)
<1> DEFINE at(r, c) == {i \in DOMAIN Row(M, r) : Row(M, r)[i].col = c}
           last(r, c) == CHOOSE i \in at(r, c) : \A j \in at(r, c) : j <= i
           entry(r, c) == (IF at(r, c) # {} THEN Row(M, r)[last(r, c)].coeff
                           ELSE IF c = r THEN M.diag[r] ELSE 0) % P
<1>0. GoodMatrix(m) /\ Index(M) = CellsOf(m) /\ Rows(m.n) = CellsOf(m)
      /\ \A c \in CellsOf(m) : M.newToOld[c] \in CellsOf(m) /\ M.diag[c] = m.diag[M.newToOld[c]]
  BY DEF IsPacked, Index, CellsOf, Rows
<1>1. FwDense(M) = [r \in CellsOf(m) |-> [c \in CellsOf(m) |-> entry(r, c)]]
  BY <1>0 DEF FwDense
<1>2. ASSUME NEW r \in CellsOf(m), NEW c \in CellsOf(m), at(r, c) # {}
      PROVE  Row(M, r)[last(r, c)].coeff \in Int
  <2>1. PICK old \in CellsOf(m) : old = M.newToOld[r]
    BY <1>0
  <2>2. Entries(Row(M, r), FacesAround(m, old), M.oldToNew, Beyond(m, old), m)
    BY <2>1, RowEntries
  <2>3. PICK n \in Nat : DOMAIN Row(M, r) = 1 .. n /\ n = Len(Row(M, r))
    BY <2>2 DEF Entries
  <2>4. at(r, c) \in SUBSET (1 .. n)
    BY <2>3
  <2> HIDE DEF at
  <2>5. \E i \in at(r, c) : \A j \in at(r, c) : j <= i
    BY <1>2, <2>4, LastPlace
  <2>6. last(r, c) \in at(r, c)
    BY <2>5
  <2> HIDE DEF last
  <2>7. last(r, c) \in 1 .. n
    BY <2>4, <2>6
  <2>8. /\ Row(M, r)[last(r, c)].face \in FacesAround(m, old)
        /\ Row(M, r)[last(r, c)].coeff = m.coeff[Row(M, r)[last(r, c)].face]
    BY <2>2, <2>3, <2>7 DEF Entries
  <2>9. Row(M, r)[last(r, c)].face \in FacesOf(m)
    BY <2>8 DEF FacesAround, AboveFaces, OwnedFaces
  <2> QED BY <1>0, <2>8, <2>9, FieldFacts
<1>3. ASSUME NEW r \in CellsOf(m), NEW c \in CellsOf(m) PROVE entry(r, c) \in Value
  <2>1. M.diag[r] \in Int /\ 0 \in Int
    BY <1>0, FieldFacts
  <2> HIDE DEF at, last
  <2>2. (IF at(r, c) # {} THEN Row(M, r)[last(r, c)].coeff
         ELSE IF c = r THEN M.diag[r] ELSE 0) \in Int
    BY <1>2, <2>1
  <2> QED BY <2>2, Remainder
<1> HIDE DEF entry
<1> QED BY <1>0, <1>1, <1>3 DEF Dense

\* What the solver may do with the matrix of a level and fields of its size.
Worked(M, m, traversal) ==
  \A x, b \in FieldOf(m) :
    /\ Product(M, traversal, x) = Reference(M, x) /\ Reference(M, x) \in FieldOf(m)
    /\ ToFw(M, x) \in FieldOf(m) /\ ToOriginal(M, x) \in FieldOf(m)
    /\ FwScaleCorrection(M, traversal, x, b) \in FieldOf(m)
    /\ \A n \in Int : FwSmooth(M, x, b, n) \in FieldOf(m)
    /\ SolveDense(FwDense(M), b) \in FieldOf(m)

LEMMA LevelWorks ==
  ASSUME NEW M, NEW N, NEW m, PackedLevel(M, N, m), NEW traversal \in Ways
  PROVE  Worked(M, m, traversal)
<1>1. PICK native : IsPacked(M, native) /\ Renumbers(N, native, m)
  BY DEF PackedLevel
<1>2. FieldOf(native) = FieldOf(m) /\ native.n = m.n /\ GoodMatrix(native) /\ GoodMatrix(m)
  BY <1>1 DEF Renumbers, FieldOf, Index
<1>3. FwDense(M) \in Dense(m.n) /\ m.n \in Nat /\ FieldOf(m) = [Rows(m.n) -> Value]
  BY <1>1, <1>2, FwDenseIs, FieldFacts DEF FieldOf, Index, Rows
<1>4. ASSUME NEW x \in FieldOf(m), NEW b \in FieldOf(m)
      PROVE  /\ Product(M, traversal, x) = Reference(M, x) /\ Reference(M, x) \in FieldOf(m)
             /\ ToFw(M, x) \in FieldOf(m) /\ ToOriginal(M, x) \in FieldOf(m)
             /\ FwScaleCorrection(M, traversal, x, b) \in FieldOf(m)
             /\ \A n \in Int : FwSmooth(M, x, b, n) \in FieldOf(m)
             /\ SolveDense(FwDense(M), b) \in FieldOf(m)
  <2>1. x \in FieldOf(native) /\ b \in FieldOf(native)
    BY <1>2, <1>4
  <2>2. Product(M, traversal, x) = Reference(M, x) /\ Reference(M, x) \in FieldOf(native)
    BY <1>1, <2>1, ProductIs
  <2>3. ToFw(M, x) \in FieldOf(native) /\ ToOriginal(M, x) \in FieldOf(native)
    BY <1>1, <2>1, FieldMoved
  <2>4. FwScaleCorrection(M, traversal, x, b) \in FieldOf(native)
    BY <1>1, <2>1, FwScaleField
  <2>5. \A n \in Int : FwSmooth(M, x, b, n) \in FieldOf(native)
    BY <1>1, <2>1, FwSmoothField
  <2>6. SolveDense(FwDense(M), b) \in FieldOf(m)
    BY <1>3, SolveDenseSolves
  <2> QED BY <1>2, <2>2, <2>3, <2>4, <2>5, <2>6
<1> QED BY <1>4 DEF Worked

\* The fused last sweep on a level without a zero on the diagonal.
LEMMA LevelFuses ==
  ASSUME NEW M, NEW N, NEW m, PackedLevel(M, N, m), \A c \in CellsOf(m) : m.diag[c] % P # 0,
         NEW b \in FieldOf(m), NEW x \in FieldOf(m), NEW fusion \in Fusions, NEW n \in Int, n > 0
  PROVE  LET fused == SmoothAndMultiply(M, fusion, x, b, n)
             y == FwSmooth(M, x, b, n)
         IN  fused.psi = y /\ fused.matrixPsi = Reference(M, y) /\ y \in FieldOf(m)
<1>1. PICK native : IsPacked(M, native) /\ Renumbers(N, native, m)
  BY DEF PackedLevel
<1>2. FieldOf(native) = FieldOf(m) /\ CellsOf(native) = CellsOf(m)
  BY <1>1 DEF Renumbers, FieldOf, Index, CellsOf
<1>3. ASSUME NEW r \in CellsOf(native) PROVE M.diag[r] % P # 0
  <2>1. PICK c \in CellsOf(native) : c = M.newToOld[r] /\ M.diag[r] = native.diag[c]
    BY <1>1 DEF IsPacked
  <2>2. PICK a \in CellsOf(m) : native.diag[c] = m.diag[a]
    BY <1>1, <1>2 DEF Renumbers, Permutes
  <2> QED BY <2>1, <2>2
<1>4. n \in Nat /\ x \in FieldOf(native) /\ b \in FieldOf(native)
  BY <1>2
<1> QED BY <1>1, <1>2, <1>3, <1>4, SmoothAndMultiplyIs

-----------------------------------------------------------------------------
(* The hierarchy, as far as it is packed.                                  *)

\* the levels made by the agglomeration; the finest one was given
Agglomerated == IInv /\ Levelled /\ LevelsCollect /\ Finest \in Matrices

\* a sequence of any values
IsList(s) == \E S : s \in Seq(S)

\* p, N and R are the packed matrices, the numberings and the maps of rows of
\* the first levels of the agglomeration
Assembled(p, N, R, ms, ls) ==
  /\ IsList(p)
  /\ IsList(N)
  /\ IsList(R)
  /\ Len(N) = Len(p) /\ Len(p) <= Len(ms)
  /\ Len(R) = IF Len(p) = 0 THEN 0 ELSE Len(p) - 1
  /\ \A k \in 1 .. Len(p) : PackedLevel(p[k], N[k], ms[k])
  /\ \A k \in 1 .. Len(R) :
       R[k] = DirectMap(p[k], N[k], ls[k].fineToCoarse, N[k + 1], p[k + 1])

Hierarchical ==
  options \in Options /\ Assembled(packed, numberings, restrictionMaps, matrices, levels)

\* A sequence with one more element.
LEMMA Appended ==
  ASSUME NEW s, IsList(s), NEW x
  PROVE  /\ IsList(Append(s, x)) /\ Len(Append(s, x)) = Len(s) + 1
         /\ Append(s, x)[Len(s) + 1] = x /\ \A i \in 1 .. Len(s) : Append(s, x)[i] = s[i]
<1>1. PICK S : s \in Seq(S)
  BY DEF IsList
<1>2. s \in Seq(S \cup {x}) /\ x \in S \cup {x}
  BY <1>1
<1>3. Append(s, x) \in Seq(S \cup {x})
  BY <1>2, AppendProperties
<1> QED BY <1>2, <1>3, AppendProperties DEF IsList

\* A level is appended.
LEMMA AssembledGrows ==
  ASSUME NEW p, NEW N, NEW R, NEW ms, NEW ls, Assembled(p, N, R, ms, ls), NEW n \in Nat, n = Len(ms),
         NEW l \in Nat, l = Len(p), 1 <= l, l + 1 <= n,
         NEW M, NEW made, PackedLevel(M, made, ms[l + 1])
  PROVE  Assembled(Append(p, M), Append(N, made),
                Append(R, DirectMap(p[l], N[l], ls[l].fineToCoarse, made, M)), ms, ls)
<1> DEFINE map == DirectMap(p[l], N[l], ls[l].fineToCoarse, made, M)
<1>1. /\ IsList(p)
      /\ IsList(N)
      /\ IsList(R)
      /\ Len(N) = l /\ Len(R) = l - 1
  BY DEF Assembled
<1> HIDE DEF map
<1>3. l - 1 \in Nat /\ (l - 1) + 1 = l
  OBVIOUS
<1>4. PICK q, K, Q : q = Append(p, M) /\ K = Append(N, made) /\ Q = Append(R, map)
  OBVIOUS
<1>5. /\ IsList(q)
      /\ Len(q) = l + 1 /\ q[l + 1] = M /\ \A i \in 1 .. l : q[i] = p[i]
  <2>1. /\ IsList(Append(p, M)) /\ Len(Append(p, M)) = Len(p) + 1
        /\ Append(p, M)[Len(p) + 1] = M /\ \A i \in 1 .. Len(p) : Append(p, M)[i] = p[i]
    BY <1>1, Appended
  <2> QED BY <1>4, <2>1
<1>6. /\ IsList(K)
      /\ Len(K) = l + 1 /\ K[l + 1] = made /\ \A i \in 1 .. l : K[i] = N[i]
  <2>1. /\ IsList(Append(N, made)) /\ Len(Append(N, made)) = Len(N) + 1
        /\ Append(N, made)[Len(N) + 1] = made
        /\ \A i \in 1 .. Len(N) : Append(N, made)[i] = N[i]
    BY <1>1, Appended
  <2> QED BY <1>1, <1>4, <2>1
<1>7. /\ IsList(Q)
      /\ Len(Q) = l /\ Q[l] = map /\ \A i \in 1 .. l - 1 : Q[i] = R[i]
  <2>1. /\ IsList(Append(R, map)) /\ Len(Append(R, map)) = Len(R) + 1
        /\ Append(R, map)[Len(R) + 1] = map
        /\ \A i \in 1 .. Len(R) : Append(R, map)[i] = R[i]
    BY <1>1, Appended
  <2>2. Len(R) = l - 1 /\ Len(R) + 1 = l
    BY <1>1, <1>3
  <2> QED BY <1>4, <2>1, <2>2
<1>8. \A k \in 1 .. l + 1 : PackedLevel(q[k], K[k], ms[k])
  <2>1. \A k \in 1 .. l : PackedLevel(p[k], N[k], ms[k])
    BY DEF Assembled
  <2>2. \A k \in 1 .. l + 1 : k \in 1 .. l \/ k = l + 1
    OBVIOUS
  <2> QED BY <1>5, <1>6, <2>1, <2>2
<1>9. ASSUME NEW k \in 1 .. l
      PROVE  Q[k] = DirectMap(q[k], K[k], ls[k].fineToCoarse, K[k + 1], q[k + 1])
  <2>1. CASE k = l
    BY <1>5, <1>6, <1>7, <2>1 DEF map
  <2>2. CASE k # l
    <3>1. k \in 1 .. l - 1 /\ k + 1 \in 1 .. l
      BY <2>2
    <3>2. R[k] = DirectMap(p[k], N[k], ls[k].fineToCoarse, N[k + 1], p[k + 1])
      BY <1>1, <3>1 DEF Assembled
    <3> QED BY <1>5, <1>6, <1>7, <3>1, <3>2
  <2> QED BY <2>1, <2>2
<1>10. l + 1 # 0 /\ (l + 1) - 1 = l
  OBVIOUS
<1>11. Assembled(q, K, Q, ms, ls)
  BY <1>5, <1>6, <1>7, <1>8, <1>9, <1>10 DEF Assembled
<1> QED BY <1>4, <1>11 DEF map

\* One level by itself.
LEMMA AssembledFirst ==
  ASSUME NEW ms, NEW ls, NEW n \in Nat, n = Len(ms), 1 <= n, NEW M, NEW made,
         PackedLevel(M, made, ms[1])
  PROVE  Assembled(<<M>>, <<made>>, <<>>, ms, ls)
<1>1. <<M>> \in Seq({M}) /\ <<made>> \in Seq({made}) /\ <<>> \in Seq({})
  OBVIOUS
<1>2. Len(<<M>>) = 1 /\ Len(<<made>>) = 1 /\ <<M>>[1] = M /\ <<made>>[1] = made
  OBVIOUS
<1>3. \A k \in 1 .. 1 : k = 1
  OBVIOUS
<1>4. Len(<<>>) = 0 /\ 1 - 1 = 0 /\ 1 # 0 /\ 1 .. 0 = {}
  OBVIOUS
<1> QED BY <1>1, <1>2, <1>3, <1>4 DEF Assembled, IsList

\* None yet.
LEMMA AssembledNone ==
  ASSUME NEW ms, NEW ls, NEW n \in Nat, n = Len(ms)
  PROVE  Assembled(<<>>, <<>>, <<>>, ms, ls)
<1>1. <<>> \in Seq({}) /\ Len(<<>>) = 0 /\ 1 .. 0 = {}
  OBVIOUS
<1> QED BY <1>1 DEF Assembled, IsList

\* A step of the agglomeration keeps what it has made,
LEMMA AgglomeratedNext ==
  ASSUME Agglomerated, Next
  PROVE  Agglomerated'
<1>1. IInv' /\ Levelled' /\ LevelsCollect'
  BY IInvNext, LevelledNext, CollectNext DEF Agglomerated
<1>2. CASE Coarsen
  <2>1. IInv
    BY DEF Agglomerated
  <2>2. Len(levels) \in Nat /\ Len(matrices) = Len(levels) + 1
        /\ \A k \in 1 .. Len(matrices) : matrices'[k] = matrices[k]
    BY <1>2, <2>1, NewLevel
  <2>3. 1 \in 1 .. Len(matrices)
    BY <2>2
  <2> QED BY <1>1, <2>2, <2>3 DEF Agglomerated, Finest
<1>3. CASE UNCHANGED hierarchy
  BY <1>1, <1>3 DEF Agglomerated, Finest, hierarchy
<1>4. Coarsen \/ UNCHANGED hierarchy
  BY DEF Next, vars, RejectControls, BeginLevel, PassOver, Pair, JoinCluster, Visiting,
         FinishPairing, StopCoarsening, Finish, NoCoarseLevel
<1> QED BY <1>2, <1>3, <1>4

\* and so does a step of the solver.
LEMMA AgglomeratedStays ==
  ASSUME Agglomerated, UNCHANGED vars
  PROVE  /\ Agglomerated' /\ matrices' = matrices /\ levels' = levels
         /\ phase' = phase /\ controls' = controls
         /\ nLevels' = nLevels /\ Finest' = Finest /\ \A l : At(l)' = At(l)
         /\ LevelNumbers' = LevelNumbers /\ InvalidIterations' = InvalidIterations
<1>1. matrices' = matrices /\ levels' = levels
  BY DEF vars, hierarchy
<1>2. IInv' /\ Levelled' /\ Finest' = Finest /\ phase' = phase /\ controls' = controls
      /\ nLevels' = nLevels /\ (\A l : At(l)' = At(l))
      /\ LevelNumbers' = LevelNumbers /\ InvalidIterations' = InvalidIterations
  BY LevelsStay DEF Agglomerated
<1>3. LevelsCollect'
  BY <1>1 DEF Agglomerated, LevelsCollect
<1> QED BY <1>1, <1>2, <1>3 DEF Agglomerated

\* The matrices of a finished agglomeration.
LEMMA AgglomeratedFacts ==
  ASSUME Agglomerated, phase = "built"
  PROVE  \E n \in Nat : /\ n = nLevels /\ n >= 2 /\ Len(matrices) = n /\ Len(levels) = n - 1
                        /\ \A k \in 1 .. n : GoodMatrix(matrices[k])
                        /\ \A k \in 1 .. n - 1 : Collects(matrices[k], levels[k], matrices[k + 1])
                        /\ \A c \in CellsOf(Finest) : Finest.diag[c] % P # 0
<1>1. PICK n \in Nat : n = nLevels /\ n >= 2
  BY SolverFacts DEF Agglomerated
<1>2. /\ Len(matrices) = n /\ Len(matrices) = Len(levels) + 1
      /\ \A k \in 1 .. Len(matrices) : GoodMatrix(matrices[k])
      /\ \E S : levels \in Seq(S)
  BY <1>1 DEF Agglomerated, IInv, Hierarchy, nLevels
<1>3. Len(levels) = n - 1
  <2>1. PICK S : levels \in Seq(S)
    BY <1>2
  <2>2. Len(levels) \in Nat
    BY <2>1, LenProperties
  <2> QED BY <1>2, <2>2
<1>4. \A c \in CellsOf(Finest) : Finest.diag[c] % P # 0
  BY DiagonalAssumption DEF Agglomerated
<1>5. \A k \in 1 .. n - 1 : Collects(matrices[k], levels[k], matrices[k + 1])
  BY <1>3 DEF Agglomerated, LevelsCollect
<1> QED BY <1>1, <1>2, <1>3, <1>4, <1>5

\* The packed matrix of the finest level.
LEMMA BuildFinestJoins ==
  ASSUME Agglomerated, Hierarchical, BuildFinest
  PROVE  Hierarchical' /\ Len(packed') = 1
<1>1. /\ phase = "built" /\ UNCHANGED vars /\ options' = options /\ restrictionMaps' = restrictionMaps
      /\ packed = <<>>
      /\ numberings' = <<IdentityNumbering(Finest.n, Len(Finest.lower))>>
  BY DEF BuildFinest, Building
<1>2. PICK order \in RowOrders(Finest) : packed' = <<Pack(Finest, order)>>
  BY DEF BuildFinest
<1>3. PICK n \in Nat : /\ n = nLevels /\ n >= 2 /\ Len(matrices) = n
                       /\ \A k \in 1 .. n : GoodMatrix(matrices[k])
  BY <1>1, AgglomeratedFacts
<1>4. 1 <= n /\ 1 \in 1 .. n
  BY <1>3
<1>5. GoodMatrix(Finest) /\ Finest = matrices[1]
  BY <1>3, <1>4 DEF Finest
<1>6. Renumbers(IdentityNumbering(Finest.n, Len(Finest.lower)), Finest, Finest)
  BY <1>5, IdentityRenumbers
<1>7. PackedLevel(Pack(Finest, order), IdentityNumbering(Finest.n, Len(Finest.lower)), matrices[1])
  BY <1>5, <1>6, OrderedLevel
<1>8. restrictionMaps = <<>>
  <2>1. Len(restrictionMaps) = 0 /\ IsList(restrictionMaps)
    BY <1>1 DEF Hierarchical, Assembled
  <2> QED BY <2>1, EmptySeq DEF IsList
<1>9. Assembled(packed', numberings', restrictionMaps', matrices, levels)
  BY <1>1, <1>2, <1>3, <1>4, <1>7, <1>8, AssembledFirst
<1>10. matrices' = matrices /\ levels' = levels
  BY <1>1, AgglomeratedStays
<1>11. Len(packed') = 1
  BY <1>2
<1> QED BY <1>1, <1>9, <1>10, <1>11 DEF Hierarchical

\* The packed matrix of the next coarser level.
LEMMA BuildCoarseJoins ==
  ASSUME Agglomerated, Hierarchical, BuildCoarse
  PROVE  Hierarchical' /\ Len(packed') = Len(packed) + 1 /\ Len(packed) \in Nat
<1> DEFINE l == Len(packed)
           M == packed[l]
           made == levels[l]
           coarse == BuildCoarseOperator(M, numberings[l], matrices[l + 1], made)
           next == RenumberCoarse(coarse, numberings[l], made.fineToCoarse)
<1>1. /\ phase = "built" /\ UNCHANGED vars /\ options' = options
      /\ l \in 1 .. Len(levels)
      /\ numberings' = Append(numberings, next.numbering)
      /\ \E order \in RowOrders(next.matrix) :
           packed' = Append(packed, Pack(next.matrix, order))
      /\ restrictionMaps' = Append(restrictionMaps,
           DirectMap(M, numberings[l], made.fineToCoarse, next.numbering, packed'[l + 1]))
  BY DEF BuildCoarse, Building
<1>2. PICK n \in Nat : /\ n = nLevels /\ n >= 2 /\ Len(matrices) = n /\ Len(levels) = n - 1
                       /\ \A k \in 1 .. n : GoodMatrix(matrices[k])
                       /\ \A k \in 1 .. n - 1 : Collects(matrices[k], levels[k], matrices[k + 1])
  BY <1>1, AgglomeratedFacts
<1>3. PICK j \in Nat : j = l /\ 1 <= j /\ j + 1 <= n /\ j \in 1 .. n - 1 /\ j + 1 \in 1 .. n
  BY <1>1, <1>2
<1> HIDE DEF next, coarse, made, M
<1>4. PICK X : X = next
  OBVIOUS
<1>5. PICK order \in RowOrders(X.matrix) : packed' = Append(packed, Pack(X.matrix, order))
  BY <1>1, <1>4
<1>6. PICK T : T = Pack(X.matrix, order)
  OBVIOUS
<1>7. packed'[l + 1] = T /\ Len(packed') = l + 1
  <2>1. PICK S : packed \in Seq(S)
    BY DEF Hierarchical, Assembled, IsList
  <2>2. packed \in Seq(S \cup {T}) /\ T \in S \cup {T}
    BY <2>1
  <2>3. Append(packed, T)[Len(packed) + 1] = T /\ Len(Append(packed, T)) = Len(packed) + 1
    BY <2>2, AppendProperties
  <2> QED BY <1>5, <1>6, <2>3
<1>8. PackedLevel(T, X.numbering, matrices[j + 1])
  <2>1. PackedLevel(packed[j], numberings[j], matrices[j])
    BY <1>3 DEF Hierarchical, Assembled
  <2>2. GoodMatrix(matrices[j + 1]) /\ Collects(matrices[j], levels[j], matrices[j + 1])
    BY <1>2, <1>3
  <2>3. X = RenumberCoarse(BuildCoarseOperator(packed[j], numberings[j], matrices[j + 1], levels[j]),
                           numberings[j], levels[j].fineToCoarse)
    BY <1>3, <1>4 DEF next, coarse, made, M
  <2> QED BY <1>5, <1>6, <2>1, <2>2, <2>3, CoarseLevel
<1>9. restrictionMaps' = Append(restrictionMaps,
        DirectMap(packed[j], numberings[j], levels[j].fineToCoarse, X.numbering, T))
  BY <1>1, <1>3, <1>4, <1>7 DEF M, made
<1>10. Assembled(packed', numberings', restrictionMaps', matrices, levels)
  <2>1. Assembled(packed, numberings, restrictionMaps, matrices, levels)
    BY DEF Hierarchical
  <2>2. packed' = Append(packed, T) /\ numberings' = Append(numberings, X.numbering)
    BY <1>1, <1>4, <1>5, <1>6
  <2>3. Assembled(Append(packed, T), Append(numberings, X.numbering),
               Append(restrictionMaps,
                 DirectMap(packed[j], numberings[j], levels[j].fineToCoarse, X.numbering, T)),
               matrices, levels)
    BY <1>2, <1>3, <1>8, <2>1, AssembledGrows
  <2> QED BY <1>9, <2>2, <2>3
<1>11. matrices' = matrices /\ levels' = levels
  BY <1>1, AgglomeratedStays
<1> QED BY <1>1, <1>3, <1>7, <1>10, <1>11 DEF Hierarchical

\* A packed level has the rows of the level of the agglomeration.
LEMMA LevelIs ==
  ASSUME Agglomerated, Hierarchical, phase = "built", NEW l \in Nat, l + 1 <= Len(packed)
  PROVE  /\ PackedLevel(Packed(l), numberings[l + 1], At(l))
         /\ l \in LevelNumbers /\ GoodMatrix(At(l)) /\ l + 1 <= nLevels
<1>1. PICK n \in Nat : n = nLevels /\ Len(matrices) = n /\ \A k \in 1 .. n : GoodMatrix(matrices[k])
  BY AgglomeratedFacts
<1>2. PICK k \in Nat : k = Len(packed) /\ k <= n
  <2>1. PICK S : packed \in Seq(S)
    BY DEF Hierarchical, Assembled, IsList
  <2>2. Len(packed) \in Nat
    BY <2>1, LenProperties
  <2> QED BY <1>1, <2>2 DEF Hierarchical, Assembled
<1>3. l + 1 \in 1 .. k /\ l + 1 \in 1 .. n /\ l \in 0 .. n - 1
  BY <1>2
<1>4. PackedLevel(packed[l + 1], numberings[l + 1], matrices[l + 1])
  BY <1>2, <1>3 DEF Hierarchical, Assembled
<1> QED BY <1>1, <1>3, <1>4 DEF Packed, At, LevelNumbers

\* The map of rows leads from a level to the next one, as the map of cells does.
LEMMA RowMapIs ==
  ASSUME Agglomerated, Hierarchical, phase = "built", NEW l \in Nat, l + 2 <= Len(packed)
  PROVE  /\ Maps(restrictionMaps[l + 1], At(l), At(l + 1))
         /\ \A a \in CellsOf(At(l)) :
              restrictionMaps[l + 1][RowPlaces(Packed(l), numberings[l + 1], At(l))[a]] =
                RowPlaces(Packed(l + 1), numberings[l + 2], At(l + 1))[levels[l + 1].fineToCoarse[a]]
<1>1. PICK j \in Nat : j = l + 1 /\ l + 2 = j + 1
  OBVIOUS
<1>2. Len(packed) \in Nat
  <2>1. PICK S : packed \in Seq(S)
    BY DEF Hierarchical, Assembled, IsList
  <2> QED BY <2>1, LenProperties
<1>3. /\ PackedLevel(Packed(l), numberings[j], At(l))
      /\ PackedLevel(Packed(j), numberings[j + 1], At(j)) /\ j + 1 <= nLevels
  <2>1. l + 1 <= Len(packed) /\ j + 1 <= Len(packed)
    BY <1>1, <1>2
  <2> QED BY <1>1, <2>1, LevelIs
<1>4. PICK n \in Nat : n = nLevels /\ Len(levels) = n - 1
        /\ \A k \in 1 .. n - 1 : Collects(matrices[k], levels[k], matrices[k + 1])
  BY AgglomeratedFacts
<1>5. j \in 1 .. n - 1
  BY <1>1, <1>3, <1>4
<1>6. Maps(levels[j].fineToCoarse, At(l), At(j))
  BY <1>1, <1>4, <1>5 DEF Collects, At
<1>7. restrictionMaps[j] =
        DirectMap(Packed(l), numberings[j], levels[j].fineToCoarse, numberings[j + 1], Packed(j))
  <2>1. Len(restrictionMaps) = Len(packed) - 1
    BY <1>2 DEF Hierarchical, Assembled
  <2>2. j \in 1 .. Len(restrictionMaps)
    BY <1>1, <1>2, <2>1
  <2> QED BY <1>1, <2>2 DEF Hierarchical, Assembled, Packed
<1>8. /\ Maps(restrictionMaps[j], At(l), At(j))
      /\ \A a \in CellsOf(At(l)) :
           restrictionMaps[j][RowPlaces(Packed(l), numberings[j], At(l))[a]] =
             RowPlaces(Packed(j), numberings[j + 1], At(j))[levels[j].fineToCoarse[a]]
  BY <1>3, <1>6, <1>7, DirectMapIs
<1> QED BY <1>1, <1>8

\* What the run checks of the level packed last.
LEMMA LevelIsSound ==
  ASSUME Agglomerated, Hierarchical, phase = "built", NEW l \in Nat, l + 1 <= Len(packed)
  PROVE  LevelSound(l)
<1>1. PICK M, N, m : M = Packed(l) /\ N = numberings[l + 1] /\ m = At(l)
  OBVIOUS
<1>2. PackedLevel(M, N, m) /\ m = matrices[l + 1]
  BY <1>1, LevelIs DEF At
<1>3. RowOf(l) = RowPlaces(M, N, m)
  BY <1>1, <1>2 DEF RowOf, RowPlaces
<1>4. PICK rows : rows = RowPlaces(M, N, m)
  OBVIOUS
<1>5. {rows[a] : a \in CellsOf(m)} = CellsOf(m)
  <2>1. /\ \A a \in CellsOf(m) : rows[a] \in CellsOf(m)
        /\ \A r \in CellsOf(m) : N.nativeToAgg[M.newToOld[r]] \in CellsOf(m)
                                 /\ rows[N.nativeToAgg[M.newToOld[r]]] = r
    BY <1>2, <1>4, RowsAre
  <2> QED BY <2>1
<1>6. \A a, b \in CellsOf(m) : EntryOf(M, rows[a], rows[b]) = EntryIn(m, a, b)
  BY <1>2, <1>4, EntriesKept
<1>7. RangesContiguous(M) /\ EdgeViewsComplete(M)
  BY <1>2, RangesAre, ViewsComplete DEF PackedLevel
<1>8. ASSUME l > 0, NEW a \in CellsOf(matrices[l])
      PROVE  restrictionMaps[l][RowOf(l - 1)[a]] = RowOf(l)[levels[l].fineToCoarse[a]]
  <2>1. PICK k \in Nat : k = l - 1 /\ k + 1 = l /\ k + 2 = l + 1
    BY <1>8
  <2>2. At(k) = matrices[l] /\ At(k + 1) = matrices[l + 1]
    BY <2>1 DEF At
  <2>3. RowOf(k) = RowPlaces(Packed(k), numberings[k + 1], At(k))
    BY <2>1, <2>2 DEF RowOf, RowPlaces
  <2>4. restrictionMaps[k + 1][RowPlaces(Packed(k), numberings[k + 1], At(k))[a]] =
          RowPlaces(Packed(k + 1), numberings[k + 2], At(k + 1))[levels[k + 1].fineToCoarse[a]]
    <3>1. k + 2 <= Len(packed) /\ a \in CellsOf(At(k))
      BY <1>8, <2>1, <2>2
    <3> QED BY <3>1, RowMapIs
  <2>5. RowPlaces(Packed(k + 1), numberings[k + 2], At(k + 1)) = RowOf(l)
    BY <1>1, <1>3, <2>1
  <2> QED BY <2>1, <2>3, <2>4, <2>5
<1>9. LevelSound(l)
  BY <1>1, <1>2, <1>3, <1>4, <1>5, <1>6, <1>7, <1>8 DEF LevelSound
<1> QED BY <1>9

-----------------------------------------------------------------------------
(* The hierarchy stays as it is while the solver works.                    *)

FwStages == {"setup", "ready", "loop", "down", "up", "measure", "returned", "applied",
             "thrown", "refused"}

\* levels are packed when all are made, and the solver begins when all are packed
FwStaged ==
  /\ stage \in FwStages
  /\ stage # "setup" => phase = "built"
  /\ packed # <<>> => phase = "built"
  /\ stage \notin {"setup", "thrown", "refused"} => Len(packed) = nLevels

Packaged == Agglomerated /\ Hierarchical /\ FwStaged

\* A step that packs nothing.
LEMMA PackagedStays ==
  ASSUME Packaged, UNCHANGED <<vars, hierarchyVars>>, stage' \in FwStages,
         stage' # "setup" => phase = "built",
         stage' \notin {"setup", "thrown", "refused"} => Len(packed) = nLevels
  PROVE  Packaged'
<1>1. /\ Agglomerated' /\ matrices' = matrices /\ levels' = levels /\ phase' = phase
      /\ nLevels' = nLevels
  BY AgglomeratedStays DEF Packaged
<1>2. /\ options' = options /\ packed' = packed /\ numberings' = numberings
      /\ restrictionMaps' = restrictionMaps
  BY DEF hierarchyVars
<1>3. Hierarchical'
  BY <1>1, <1>2 DEF Packaged, Hierarchical
<1>4. FwStaged'
  BY <1>1, <1>2 DEF Packaged, FwStaged
<1> QED BY <1>1, <1>3, <1>4 DEF Packaged

LEMMA PackagedAgglomerates ==
  ASSUME Packaged, FwAgglomerate
  PROVE  Packaged' /\ stage = "setup" /\ stage' = stage /\ performance' = performance
<1>1. Next /\ UNCHANGED solving /\ UNCHANGED hierarchyVars
  BY DEF FwAgglomerate, Agglomerate, OwnStay
<1>2. phase # "built"
  BY <1>1, BuiltStops
<1>3. stage = "setup" /\ packed = <<>> /\ stage' = stage /\ packed' = packed /\ options' = options
      /\ numberings' = numberings /\ restrictionMaps' = restrictionMaps /\ performance' = performance
  BY <1>1, <1>2 DEF Packaged, FwStaged, solving, hierarchyVars
<1>4. Agglomerated'
  BY <1>1, AgglomeratedNext DEF Packaged
<1>5. PICK n \in Nat : n = Len(matrices')
  <2>1. \E S : matrices' \in Seq(S)
    BY <1>4 DEF Agglomerated, IInv, Hierarchy
  <2> QED BY <2>1, LenProperties
<1>6. Hierarchical'
  <2>1. Len(numberings) = 0 /\ Len(restrictionMaps) = 0 /\ IsList(numberings)
        /\ IsList(restrictionMaps) /\ options \in Options
    BY <1>3 DEF Packaged, Hierarchical, Assembled
  <2>2. numberings = <<>> /\ restrictionMaps = <<>>
    BY <2>1, EmptySeq DEF IsList
  <2>3. Assembled(<<>>, <<>>, <<>>, matrices', levels')
    BY <1>5, AssembledNone
  <2> QED BY <1>3, <2>1, <2>2, <2>3 DEF Hierarchical
<1>7. FwStaged'
  BY <1>3 DEF FwStaged, FwStages
<1> QED BY <1>3, <1>4, <1>6, <1>7 DEF Packaged

LEMMA PackagedBuilds ==
  ASSUME Packaged, BuildFinest \/ BuildCoarse
  PROVE  Packaged' /\ stage = "setup" /\ stage' = stage /\ performance' = performance
<1>1. UNCHANGED vars /\ stage = "setup" /\ stage' = stage /\ phase = "built" /\ performance' = performance
  BY DEF BuildFinest, BuildCoarse, Building
<1>2. Agglomerated' /\ phase' = phase
  BY <1>1, AgglomeratedStays DEF Packaged
<1>3. Hierarchical'
  BY BuildFinestJoins, BuildCoarseJoins DEF Packaged
<1>4. FwStaged'
  BY <1>1, <1>2 DEF FwStaged, FwStages
<1> QED BY <1>1, <1>2, <1>3, <1>4 DEF Packaged

\* the steps of the solver, from its constructor on
FwConstructing == RefuseWidth \/ RejectWidth \/ FwRejectIterations \/ FwConstruct
FwCalls == FwRejectFields \/ FwSolve \/ FwApplyVCycle
FwCycles == FwBeginCycle \/ FwDescend \/ FwSolveCoarsestLevel \/ FwSingularCoarsest
            \/ FwAscend \/ FwFinishCycle \/ FwMeasure \/ FwReturn

\* They change no level, and begin when all are packed.
LEMMA StagesFollow ==
  ASSUME FwConstructing \/ FwCalls \/ FwCycles \/ FwThrown
  PROVE  /\ UNCHANGED <<vars, hierarchyVars>>
         /\ stage = "setup" /\ stage' # "setup" =>
              /\ phase = "built" /\ stage' \in {"refused", "thrown", "ready"}
              /\ stage' = "ready" => Len(packed) = nLevels
         /\ stage' # stage => stage' \in FwStages /\ stage' # "setup"
         /\ stage \in {"thrown", "refused"} => stage' = stage
<1>1. CASE FwConstructing
  BY <1>1 DEF FwConstructing, RefuseWidth, RejectWidth, FwRejectIterations, FwConstruct, Building,
              Built, FwStages
<1>2. CASE FwRejectFields
  BY <1>2 DEF FwRejectFields, RejectFields, OwnStay, Idle, FwStages
<1>3. CASE FwSolve
  BY <1>3 DEF FwSolve, Idle, FwStages
<1>4. CASE FwApplyVCycle
  <2>1. UNCHANGED vars /\ UNCHANGED hierarchyVars /\ Idle /\ EnterCycle(finestResidual')
    BY <1>4 DEF FwApplyVCycle
  <2> QED BY <2>1 DEF EnterCycle, Idle, FwStages
<1>5. CASE FwBeginCycle
  <2>1. UNCHANGED vars /\ UNCHANGED hierarchyVars /\ stage = "loop" /\ EnterCycle(finestResidual)
    BY <1>5 DEF FwBeginCycle, BeginCycle, OwnStay
  <2> QED BY <2>1 DEF EnterCycle, FwStages
<1>6. CASE FwDescend \/ FwAscend
  <2>1. UNCHANGED vars /\ UNCHANGED hierarchyVars /\ stage' = stage /\ stage \in {"down", "up"}
    BY <1>6 DEF FwDescend, FwAscend
  <2> QED BY <2>1
<1>7. CASE FwSolveCoarsestLevel \/ FwSingularCoarsest
  BY <1>7 DEF FwSolveCoarsestLevel, FwSingularCoarsest, FwStages
<1>8. CASE FwFinishCycle
  <2>1. /\ UNCHANGED vars /\ UNCHANGED hierarchyVars /\ stage = "up"
        /\ stage' \in {"applied", "measure"}
    BY <1>8 DEF FwFinishCycle
  <2> QED BY <2>1 DEF FwStages
<1>9. CASE FwMeasure \/ FwReturn
  <2>1. /\ UNCHANGED vars /\ UNCHANGED hierarchyVars /\ stage \in {"measure", "loop"}
        /\ stage' \in {"loop", "returned"}
    BY <1>9 DEF FwMeasure, FwReturn
  <2> QED BY <2>1 DEF FwStages
<1>10. CASE FwThrown
  BY <1>10 DEF FwThrown, fwVars
<1> QED BY <1>1, <1>2, <1>3, <1>4, <1>5, <1>6, <1>7, <1>8, <1>9, <1>10 DEF FwCalls, FwCycles

\* The hierarchy is packed in every state.
LEMMA PackagedInit ==
  ASSUME FwInit
  PROVE  Packaged
<1>1. /\ Init /\ stage = "setup" /\ options \in Options
      /\ packed = <<>> /\ numberings = <<>> /\ restrictionMaps = <<>>
  BY DEF FwInit, SolverInit
<1>2. IInv /\ levels = <<>> /\ Len(levels) = 0 /\ phase = "called"
  BY <1>1, IInvInit DEF Init
<1>3. PICK m \in Matrices : matrices = <<m>>
  BY <1>1 DEF Init
<1>4. Finest \in Matrices /\ Len(matrices) = 1
  BY <1>3 DEF Finest
<1>5. Levelled /\ LevelsCollect
  BY <1>2 DEF Levelled, LevelsCollect
<1>6. Agglomerated
  BY <1>2, <1>4, <1>5 DEF Agglomerated
<1>7. Hierarchical
  <2>1. Assembled(<<>>, <<>>, <<>>, matrices, levels)
    BY <1>4, AssembledNone
  <2> QED BY <1>1, <2>1 DEF Hierarchical
<1>8. FwStaged
  BY <1>1 DEF FwStaged, FwStages
<1> QED BY <1>6, <1>7, <1>8 DEF Packaged

LEMMA PackagedNext ==
  ASSUME Packaged, [FwNext]_fwVars
  PROVE  Packaged'
<1>1. CASE FwAgglomerate
  BY <1>1, PackagedAgglomerates
<1>2. CASE BuildFinest \/ BuildCoarse
  BY <1>2, PackagedBuilds
<1>3. CASE FwConstructing \/ FwCalls \/ FwCycles \/ FwThrown
  <2>1. /\ UNCHANGED <<vars, hierarchyVars>>
        /\ stage = "setup" /\ stage' # "setup" =>
             /\ phase = "built" /\ stage' \in {"refused", "thrown", "ready"}
             /\ stage' = "ready" => Len(packed) = nLevels
        /\ stage' # stage => stage' \in FwStages /\ stage' # "setup"
        /\ stage \in {"thrown", "refused"} => stage' = stage
    BY <1>3, StagesFollow
  <2>2. FwStaged
    BY DEF Packaged
  <2>3. stage' \in FwStages /\ (stage' # "setup" => phase = "built")
    BY <2>1, <2>2 DEF FwStaged
  <2>4. stage' \notin {"setup", "thrown", "refused"} => Len(packed) = nLevels
    BY <2>1, <2>2 DEF FwStaged
  <2> QED BY <2>1, <2>3, <2>4, PackagedStays
<1>4. CASE UNCHANGED fwVars
  <2>1. UNCHANGED <<vars, hierarchyVars>> /\ stage' = stage
    BY <1>4 DEF fwVars
  <2> QED BY <2>1, PackagedStays DEF Packaged, FwStaged
<1> QED BY <1>1, <1>2, <1>3, <1>4 DEF FwNext, FwConstructing, FwCalls, FwCycles

-----------------------------------------------------------------------------
(* The fields of a call, in row order.                                     *)

\* the fields of the call, from the first one on; a single cycle keeps no product
FwCallFields ==
  stage \in {"loop", "down", "up", "measure", "returned", "applied"} =>
    /\ psi \in FieldOf(Finest) /\ source \in FieldOf(Finest) /\ finestResidual \in FieldOf(Finest)
    /\ ~Applying => matrixPsi \in FieldOf(Finest)

\* solve measures, a single cycle does not
NormsListed ==
  /\ IsList(performance.residualHistory)
  /\ stage \in {"loop", "measure", "returned"} => ~Applying

\* matrixPsi is the product of psi when the loop decides, and already before the
\* residual is measured if the last sweep has left it
ProductKnown ==
  /\ stage = "measure" /\ Fuse => matrixPsi = Reference(Packed(0), psi)
  /\ stage \in {"loop", "returned"} =>
       /\ matrixPsi = Reference(Packed(0), psi)
       /\ finestResidual = MinusField(source, matrixPsi)

FwInv == Packaged /\ FwCallFields /\ CycleFields /\ NormsListed /\ ProductKnown

\* What the solver has while it is called.
LEMMA AtFwWork ==
  ASSUME Packaged, stage \notin {"setup", "thrown", "refused"}
  PROVE  /\ Agglomerated /\ IInv /\ Levelled /\ phase = "built" /\ nLevels \in Nat /\ nLevels >= 2
         /\ LevelNumbers = 0 .. nLevels - 1
         /\ GoodMatrix(Finest) /\ Finest = At(0)
         /\ \A c \in CellsOf(Finest) : Finest.diag[c] % P # 0
         /\ controls.nFinestSweeps \in Int
         /\ \A l \in Int : PreSweeps(l) \in Int /\ PostSweeps(l) \in Int
         /\ options.spmvTraversal \in Ways
         /\ options.finestSpmvFusion # "None" => options.finestSpmvFusion \in Fusions
         /\ PackedLevel(Packed(0), numberings[1], Finest)
         /\ \A l \in LevelNumbers : /\ Worked(Packed(l), At(l), options.spmvTraversal)
                                    /\ GoodMatrix(At(l)) /\ Packed(l).n = At(l).n
         /\ \A l \in LevelNumbers : l + 1 < nLevels =>
              Maps(restrictionMaps[l + 1], At(l), At(l + 1))
<1>1. Agglomerated /\ Hierarchical /\ IInv /\ Levelled /\ phase = "built" /\ Len(packed) = nLevels
  BY DEF Packaged, Agglomerated, FwStaged
<1>2. /\ nLevels \in Nat /\ nLevels >= 2 /\ LevelNumbers = 0 .. nLevels - 1
      /\ GoodMatrix(Finest) /\ Finest = At(0) /\ controls.nFinestSweeps \in Int
      /\ \A l \in Int : PreSweeps(l) \in Int /\ PostSweeps(l) \in Int
  BY <1>1, SolverFacts
<1>3. \A c \in CellsOf(Finest) : Finest.diag[c] % P # 0
  BY <1>1, AgglomeratedFacts
<1>4. options \in Options
  BY <1>1 DEF Hierarchical
<1>5. /\ options.spmvTraversal \in Ways
      /\ options.finestSpmvFusion # "None" => options.finestSpmvFusion \in Fusions
  BY <1>4, OptionsAssumption DEF Ways, Fusions
<1>6. ASSUME NEW l \in LevelNumbers
      PROVE  /\ PackedLevel(Packed(l), numberings[l + 1], At(l))
             /\ Worked(Packed(l), At(l), options.spmvTraversal)
             /\ GoodMatrix(At(l)) /\ Packed(l).n = At(l).n
  <2>1. l \in Nat /\ l + 1 <= Len(packed)
    BY <1>1, <1>2
  <2>2. PackedLevel(Packed(l), numberings[l + 1], At(l)) /\ GoodMatrix(At(l))
    BY <1>1, <2>1, LevelIs
  <2>3. Worked(Packed(l), At(l), options.spmvTraversal)
    BY <1>5, <2>2, LevelWorks
  <2>4. Packed(l).n = At(l).n
    BY <2>2, RowsAre
  <2> QED BY <2>2, <2>3, <2>4
<1>7. ASSUME NEW l \in LevelNumbers, l + 1 < nLevels
      PROVE  Maps(restrictionMaps[l + 1], At(l), At(l + 1))
  <2>1. l \in Nat /\ l + 2 <= Len(packed)
    BY <1>1, <1>2, <1>7
  <2> QED BY <1>1, <2>1, RowMapIs
<1>8. PackedLevel(Packed(0), numberings[1], Finest)
  <2>1. 0 \in LevelNumbers /\ 0 + 1 = 1
    BY <1>2
  <2> QED BY <1>2, <1>6, <2>1
<1> QED BY <1>1, <1>2, <1>3, <1>5, <1>6, <1>7, <1>8

\* A step that changes neither the hierarchy nor the numbers of the levels.
LEMMA PackedStay ==
  ASSUME Packaged, UNCHANGED <<vars, hierarchyVars>>
  PROVE  /\ matrices' = matrices /\ levels' = levels /\ phase' = phase /\ controls' = controls
         /\ nLevels' = nLevels /\ Finest' = Finest /\ LevelNumbers' = LevelNumbers
         /\ \A l : At(l)' = At(l) /\ Packed(l)' = Packed(l)
         /\ options' = options /\ restrictionMaps' = restrictionMaps /\ numberings' = numberings
<1>1. /\ matrices' = matrices /\ levels' = levels /\ phase' = phase /\ controls' = controls
      /\ nLevels' = nLevels /\ Finest' = Finest /\ LevelNumbers' = LevelNumbers
      /\ \A l : At(l)' = At(l)
  BY AgglomeratedStays DEF Packaged
<1>2. packed' = packed /\ options' = options /\ restrictionMaps' = restrictionMaps
      /\ numberings' = numberings
  BY DEF hierarchyVars
<1>3. \A l : Packed(l)' = Packed(l)
  BY <1>2 DEF Packed
<1> QED BY <1>1, <1>2, <1>3

\* A state in which no call is under way has no fields.
LEMMA QuietKeeps ==
  ASSUME FwInv, Packaged', stage' \in {"setup", "ready", "thrown", "refused"},
         performance' = performance \/ performance' = NoPerformance
  PROVE  FwInv'
<1>1. IsList(performance.residualHistory) /\ IsList(NoPerformance.residualHistory)
  BY NoPerformanceIs DEF FwInv, NormsListed, IsList
<1>2. NormsListed'
  BY <1>1 DEF NormsListed
<1>3. FwCallFields' /\ CycleFields' /\ ProductKnown'
  BY DEF FwCallFields, CycleFields, ProductKnown
<1> QED BY <1>2, <1>3 DEF FwInv

\* The product of a field of the finest level.
LEMMA FinestProduct ==
  ASSUME Packaged, stage \notin {"setup", "thrown", "refused"}, NEW x \in FieldOf(Finest)
  PROVE  /\ Product(Packed(0), options.spmvTraversal, x) = Reference(Packed(0), x)
         /\ Reference(Packed(0), x) \in FieldOf(Finest)
         /\ ToFw(Packed(0), x) \in FieldOf(Finest) /\ ToOriginal(Packed(0), x) \in FieldOf(Finest)
<1>1. Worked(Packed(0), Finest, options.spmvTraversal)
  <2>1. 0 \in LevelNumbers
    BY AtFwWork
  <2> QED BY <2>1, AtFwWork
<1> QED BY <1>1 DEF Worked

\* solve begins with the product of psi.
LEMMA FwSolveKeeps ==
  ASSUME FwInv, FwSolve, Packaged'
  PROVE  FwInv'
<1>1. Idle /\ UNCHANGED <<vars, hierarchyVars>> /\ stage' = "loop"
  BY DEF FwSolve
<1>2. Packaged /\ stage \notin {"setup", "thrown", "refused"} /\ options' = options
      /\ Finest' = Finest /\ Packed(0)' = Packed(0)
  BY <1>1, PackedStay DEF Idle, FwInv
<1>3. PICK start \in Starts :
        /\ ~WrongSize(start)
        /\ psi' = ToFw(Packed(0), start.psi)
        /\ source' = ToFw(Packed(0), start.source)
        /\ matrixPsi' = Product(Packed(0), options.spmvTraversal, psi')
        /\ finestResidual' = MinusField(source', matrixPsi')
        /\ \E norm \in NormOf(finestResidual') \ {"relative"} :
             performance' = [converged |-> SmallNorm(norm) /\ controls.minIterations = 0,
                             iterations |-> 0, residualHistory |-> <<norm>>]
  BY DEF FwSolve
<1>4. start.psi \in FieldOf(Finest) /\ start.source \in FieldOf(Finest)
  BY <1>3, StartFields
<1>5. PICK x, b : x = psi' /\ b = source'
  OBVIOUS
<1>6. x \in FieldOf(Finest) /\ b \in FieldOf(Finest)
  BY <1>2, <1>3, <1>4, <1>5, FinestProduct
<1>7. matrixPsi' = Reference(Packed(0), x) /\ matrixPsi' \in FieldOf(Finest)
  BY <1>2, <1>3, <1>5, <1>6, FinestProduct
<1>8. finestResidual' = MinusField(b, matrixPsi') /\ finestResidual' \in FieldOf(Finest)
  <2>1. GoodMatrix(Finest)
    BY <1>2, AtFwWork
  <2>2. PICK y \in FieldOf(Finest) : y = matrixPsi'
    BY <1>7
  <2>3. MinusField(b, y) \in FieldOf(Finest)
    BY <1>6, <2>1, SimpleFields
  <2> QED BY <1>3, <1>5, <2>2, <2>3
<1>9. FwCallFields'
  BY <1>2, <1>5, <1>6, <1>7, <1>8 DEF FwCallFields
<1>10. ProductKnown'
  BY <1>1, <1>2, <1>5, <1>7, <1>8 DEF ProductKnown
<1>11. NormsListed'
  <2>1. PICK norm : performance' = [converged |-> SmallNorm(norm) /\ controls.minIterations = 0,
                                    iterations |-> 0, residualHistory |-> <<norm>>]
    BY <1>3
  <2>2. performance'.residualHistory = <<norm>>
    BY <2>1
  <2>3. <<norm>> \in Seq({norm}) /\ <<norm>> # <<>>
    OBVIOUS
  <2> QED BY <2>2, <2>3 DEF NormsListed, Applying, IsList
<1>12. CycleFields'
  BY <1>1 DEF CycleFields
<1> QED BY <1>9, <1>10, <1>11, <1>12 DEF FwInv

\* solve returns the fields it has.
LEMMA FwReturnKeeps ==
  ASSUME FwInv, FwReturn, Packaged'
  PROVE  FwInv'
<1>1. /\ UNCHANGED <<vars, hierarchyVars>> /\ stage = "loop" /\ stage' = "returned"
      /\ psi' = psi /\ source' = source /\ finestResidual' = finestResidual
      /\ matrixPsi' = matrixPsi /\ performance' = performance
  BY DEF FwReturn
<1>2. Finest' = Finest /\ Packed(0)' = Packed(0)
  BY <1>1, PackedStay DEF FwInv
<1>3. FwCallFields'
  BY <1>1, <1>2 DEF FwInv, FwCallFields, Applying
<1>4. ProductKnown'
  BY <1>1, <1>2 DEF FwInv, ProductKnown
<1>5. NormsListed' /\ CycleFields'
  BY <1>1 DEF FwInv, NormsListed, CycleFields, Applying
<1> QED BY <1>3, <1>4, <1>5 DEF FwInv

\* A single cycle begins with the residual of the field of the caller.
LEMMA FwApplyVCycleKeeps ==
  ASSUME FwInv, FwApplyVCycle, Packaged'
  PROVE  FwInv'
<1>1. /\ Idle /\ UNCHANGED vars /\ UNCHANGED hierarchyVars /\ performance' = NoPerformance
      /\ EnterCycle(finestResidual')
  BY DEF FwApplyVCycle
<1>2. /\ Packaged /\ stage \notin {"setup", "thrown", "refused"}
      /\ Finest' = Finest
  BY <1>1, PackedStay DEF Idle, FwInv
<1>3. PICK start \in Starts :
        /\ ~WrongSize(start)
        /\ psi' = ToFw(Packed(0), start.psi)
        /\ source' = ToFw(Packed(0), start.source)
        /\ finestResidual' = ToFw(Packed(0), Residual(Finest, start.psi, start.source))
  BY DEF FwApplyVCycle
<1>4. start.psi \in FieldOf(Finest) /\ start.source \in FieldOf(Finest)
  BY <1>3, StartFields
<1>5. GoodMatrix(Finest) /\ IInv /\ Levelled /\ phase = "built"
  BY <1>2, AtFwWork
<1>6. Residual(Finest, start.psi, start.source) \in FieldOf(Finest)
  BY <1>4, <1>5, SimpleFields
<1>7. psi' \in FieldOf(Finest) /\ source' \in FieldOf(Finest) /\ finestResidual' \in FieldOf(Finest)
  BY <1>2, <1>3, <1>4, <1>6, FinestProduct
<1>8. stage' = "down" /\ CycleFields'
  BY <1>1, <1>5, <1>7, EnterKeeps
<1>9. Applying' /\ IsList(performance'.residualHistory)
  BY <1>1, NoPerformanceIs DEF Applying, IsList
<1>10. FwCallFields'
  BY <1>2, <1>7, <1>9 DEF FwCallFields
<1>11. NormsListed' /\ ProductKnown'
  BY <1>8, <1>9 DEF NormsListed, ProductKnown
<1> QED BY <1>8, <1>10, <1>11 DEF FwInv

\* Steps of a cycle that leave the fields of the call alone.
LEMMA CallFieldsStay ==
  ASSUME FwInv, UNCHANGED <<vars, hierarchyVars, psi, source, finestResidual, matrixPsi, performance>>,
         stage \in {"loop", "down", "up"}, stage' \in {"down", "up"}
  PROVE  FwCallFields' /\ NormsListed' /\ ProductKnown'
<1>1. Finest' = Finest
  BY PackedStay DEF FwInv
<1>2. FwCallFields'
  BY <1>1 DEF FwInv, FwCallFields, Applying
<1>3. NormsListed' /\ ProductKnown'
  BY DEF FwInv, NormsListed, ProductKnown
<1> QED BY <1>2, <1>3

\* The loop begins a cycle with the residual it has decided by.
LEMMA FwBeginCycleKeeps ==
  ASSUME FwInv, FwBeginCycle, Packaged'
  PROVE  FwInv'
<1>1. /\ stage = "loop" /\ EnterCycle(finestResidual)
      /\ UNCHANGED vars /\ UNCHANGED hierarchyVars
      /\ performance' = performance /\ matrixPsi' = matrixPsi
      /\ psi' = psi /\ source' = source /\ finestResidual' = finestResidual
  BY DEF FwBeginCycle, BeginCycle, fields, OwnStay
<1>2. IInv /\ Levelled /\ phase = "built"
  BY <1>1, AtFwWork DEF FwInv
<1>3. finestResidual \in FieldOf(Finest)
  BY <1>1 DEF FwInv, FwCallFields
<1>4. stage' = "down" /\ CycleFields'
  BY <1>1, <1>2, <1>3, EnterKeeps
<1>5. FwCallFields' /\ NormsListed' /\ ProductKnown'
  BY <1>1, <1>4, CallFieldsStay
<1> QED BY <1>4, <1>5 DEF FwInv

\* The source of a level is a field of its rows.
LEMMA FwRestrictedField ==
  ASSUME FwInv, stage = "down"
  PROVE  /\ FwRestricted \in FieldOf(At(level)) /\ level \in LevelNumbers
         /\ level \in 1 .. nLevels - 1
<1>1. /\ Packaged /\ stage \notin {"setup", "thrown", "refused"}
      /\ nLevels \in Nat /\ LevelNumbers = 0 .. nLevels - 1
  BY AtFwWork DEF FwInv
<1>2. PICK l \in Int : l = level /\ l \in 1 .. nLevels - 1 /\ FieldsOn(sources, 0 .. l - 1)
  BY DEF FwInv, CycleFields
<1>3. PICK k \in LevelNumbers : k = l - 1 /\ k \in 0 .. l - 1 /\ k + 1 = l /\ k + 1 < nLevels
  BY <1>1, <1>2
<1>4. l \in LevelNumbers
  BY <1>1, <1>2
<1>5. sources[k] \in FieldOf(At(k))
  BY <1>2, <1>3 DEF FieldsOn
<1>6. GoodMatrix(At(k)) /\ GoodMatrix(At(l)) /\ Maps(restrictionMaps[l], At(k), At(l))
      /\ Packed(l).n = At(l).n
  BY <1>1, <1>3, <1>4, AtFwWork
<1>7. RestrictField(restrictionMaps[l], At(l).n, sources[k]) \in FieldOf(At(l))
  BY <1>5, <1>6, TransferFields
<1> QED BY <1>2, <1>3, <1>4, <1>6, <1>7 DEF FwRestricted

\* What is scaled is still a field.
LEMMA FwScaledField ==
  ASSUME Packaged, stage \notin {"setup", "thrown", "refused"}, NEW l \in LevelNumbers,
         NEW x \in FieldOf(At(l)), NEW b \in FieldOf(At(l))
  PROVE  FwScaled(l, x, b) \in FieldOf(At(l)) /\ ScaledRows(l, x, b) \in FieldOf(At(l))
<1>1. Worked(Packed(l), At(l), options.spmvTraversal)
  BY AtFwWork
<1>2. ScaledRows(l, x, b) \in FieldOf(At(l))
  BY <1>1 DEF ScaledRows, Worked
<1> QED BY <1>2 DEF FwScaled

\* A visit of a level on the way down.
LEMMA FwDescendKeeps ==
  ASSUME FwInv, FwDescend, Packaged'
  PROVE  FwInv'
<1>1. /\ stage = "down" /\ stage' = "down" /\ level + 1 < nLevels /\ level' = level + 1
      /\ UNCHANGED vars /\ UNCHANGED hierarchyVars /\ performance' = performance
      /\ psi' = psi /\ source' = source /\ finestResidual' = finestResidual /\ matrixPsi' = matrixPsi
  BY DEF FwDescend, fwFields, fields
<1>2. PICK l \in LevelNumbers : l = level
  BY <1>1, FwRestrictedField
<1>3. /\ Packaged /\ stage \notin {"setup", "thrown", "refused"}
      /\ nLevels \in Nat /\ LevelNumbers = 0 .. nLevels - 1 /\ l \in Int
      /\ GoodMatrix(At(l)) /\ PreSweeps(l) \in Int /\ Packed(l).n = At(l).n
      /\ Worked(Packed(l), At(l), options.spmvTraversal)
  <2>1. Packaged /\ stage \notin {"setup", "thrown", "refused"}
    BY <1>1 DEF FwInv
  <2>2. l \in Int
    BY <2>1, AtFwWork
  <2> QED BY <2>1, <2>2, AtFwWork
<1>4. PICK r \in FieldOf(At(l)) : r = FwRestricted
  BY <1>1, <1>2, FwRestrictedField
<1>5. /\ l \in 1 .. nLevels - 2
      /\ FieldsOn(sources, 0 .. l - 1) /\ FieldsOn(corrections, 1 .. l - 1)
  BY <1>1, <1>2, <1>3 DEF FwInv, CycleFields
<1> DEFINE zero == ZeroField(Packed(l).n)
           smoothed == FwSmooth(Packed(l), zero, r, PreSweeps(l))
           correction == FwScaled(l, smoothed, r)
           residual == MinusField(r, Product(Packed(l), options.spmvTraversal, correction))
<1>6. zero \in FieldOf(At(l))
  BY <1>3, SimpleFields
<1>7. smoothed \in FieldOf(At(l))
  <2> HIDE DEF zero
  <2> QED BY <1>3, <1>4, <1>6 DEF Worked
<1>8. correction \in FieldOf(At(l))
  <2> HIDE DEF smoothed
  <2> QED BY <1>3, <1>7, FwScaledField
<1>9. residual \in FieldOf(At(l))
  <2> HIDE DEF correction
  <2>1. PICK y \in FieldOf(At(l)) : y = Product(Packed(l), options.spmvTraversal, correction)
    BY <1>3, <1>8 DEF Worked
  <2>2. MinusField(r, y) \in FieldOf(At(l))
    BY <1>3, SimpleFields
  <2> QED BY <2>1, <2>2
<1>10. IF controls.nPreSweeps > 0
         THEN /\ corrections' = [corrections EXCEPT ![l] = correction]
              /\ sources' = [sources EXCEPT ![l] = residual]
         ELSE /\ corrections' = [corrections EXCEPT ![l] = zero]
              /\ sources' = [sources EXCEPT ![l] = r]
  BY <1>2, <1>4 DEF FwDescend
<1> HIDE DEF zero, smoothed, correction, residual
<1>11. PICK s \in FieldOf(At(l)), c \in FieldOf(At(l)) :
         corrections' = [corrections EXCEPT ![l] = c] /\ sources' = [sources EXCEPT ![l] = s]
  BY <1>6, <1>8, <1>9, <1>10
<1>12. nLevels' = nLevels /\ LevelNumbers' = LevelNumbers /\ \A j : At(j)' = At(j)
  BY <1>1, <1>3, PackedStay
<1>13. CycleFields'
  <2>1. /\ 0 .. level' - 1 = (0 .. l - 1) \cup {l} /\ 1 .. level' - 1 = (1 .. l - 1) \cup {l}
        /\ level' \in 1 .. nLevels - 1
    BY <1>1, <1>2, <1>3, <1>5
  <2>2. /\ FieldsOn([sources EXCEPT ![l] = s], (0 .. l - 1) \cup {l})
        /\ FieldsOn([corrections EXCEPT ![l] = c], (1 .. l - 1) \cup {l})
    BY <1>5, FieldsExtend
  <2>3. FieldsOn(sources, 0 .. level - 1)'
    BY <1>11, <1>12, <2>1, <2>2 DEF FieldsOn
  <2>4. FieldsOn(corrections, 1 .. level - 1)'
    BY <1>11, <1>12, <2>1, <2>2 DEF FieldsOn
  <2> QED BY <1>1, <1>12, <2>1, <2>3, <2>4 DEF CycleFields
<1>14. FwCallFields' /\ NormsListed' /\ ProductKnown'
  BY <1>1, CallFieldsStay
<1> QED BY <1>13, <1>14 DEF FwInv

\* The coarsest level is solved, and the way up begins.
LEMMA FwSolveCoarsestLevelKeeps ==
  ASSUME FwInv, FwSolveCoarsestLevel, Packaged'
  PROVE  FwInv'
<1>1. /\ stage = "down" /\ stage' = "up" /\ level + 1 = nLevels /\ level' = level - 1
      /\ UNCHANGED vars /\ UNCHANGED hierarchyVars /\ performance' = performance
      /\ psi' = psi /\ source' = source /\ finestResidual' = finestResidual /\ matrixPsi' = matrixPsi
  BY DEF FwSolveCoarsestLevel, fwFields, fields
<1>2. PICK l \in LevelNumbers : l = level
  BY <1>1, FwRestrictedField
<1>3. /\ Packaged /\ stage \notin {"setup", "thrown", "refused"}
      /\ nLevels \in Nat /\ nLevels >= 2 /\ LevelNumbers = 0 .. nLevels - 1
      /\ Worked(Packed(l), At(l), options.spmvTraversal)
  BY <1>1, AtFwWork DEF FwInv
<1>4. PICK r \in FieldOf(At(l)) : r = FwRestricted
  BY <1>1, <1>2, FwRestrictedField
<1>5. /\ l = nLevels - 1 /\ l \in Int
      /\ FieldsOn(sources, 0 .. l - 1) /\ FieldsOn(corrections, 1 .. l - 1)
  BY <1>1, <1>2, <1>3 DEF FwInv, CycleFields
<1>6. PICK c \in FieldOf(At(l)) : c = SolveDense(FwDense(Packed(l)), r)
  BY <1>3, <1>4 DEF Worked
<1>7. sources' = [sources EXCEPT ![l] = r] /\ corrections' = [corrections EXCEPT ![l] = c]
  <2>1. sources' = [sources EXCEPT ![l] = r]
    BY <1>2, <1>4 DEF FwSolveCoarsestLevel
  <2>2. DOMAIN sources = LevelNumbers
    BY <1>5 DEF FieldsOn
  <2>3. sources'[l] = r
    BY <2>1, <2>2
  <2>4. corrections' = [corrections EXCEPT ![l] = SolveDense(FwDense(Packed(l)), sources'[l])]
    BY <1>2 DEF FwSolveCoarsestLevel
  <2> QED BY <1>6, <2>1, <2>3, <2>4
<1>8. nLevels' = nLevels /\ LevelNumbers' = LevelNumbers /\ \A j : At(j)' = At(j)
  BY <1>1, <1>3, PackedStay
<1>9. CycleFields'
  <2>1. /\ 0 .. nLevels - 1 = (0 .. l - 1) \cup {l} /\ 1 .. nLevels - 1 = (1 .. l - 1) \cup {l}
        /\ level' \in 0 .. nLevels - 2
    BY <1>1, <1>2, <1>3, <1>5
  <2>2. /\ FieldsOn([sources EXCEPT ![l] = r], (0 .. l - 1) \cup {l})
        /\ FieldsOn([corrections EXCEPT ![l] = c], (1 .. l - 1) \cup {l})
    BY <1>5, FieldsExtend
  <2>3. FieldsOn(sources, 0 .. nLevels - 1)'
    BY <1>7, <1>8, <2>1, <2>2 DEF FieldsOn
  <2>4. FieldsOn(corrections, 1 .. nLevels - 1)'
    BY <1>7, <1>8, <2>1, <2>2 DEF FieldsOn
  <2> QED BY <1>1, <1>8, <2>1, <2>3, <2>4 DEF CycleFields
<1>10. FwCallFields' /\ NormsListed' /\ ProductKnown'
  BY <1>1, CallFieldsStay
<1> QED BY <1>9, <1>10 DEF FwInv

\* What the coarser level hands up is a field of the rows.
LEMMA FwProlongedField ==
  ASSUME FwInv, stage = "up"
  PROVE  /\ FwProlonged(level) \in FieldOf(At(level)) /\ level \in LevelNumbers
         /\ level \in 0 .. nLevels - 2
<1>1. /\ Packaged /\ stage \notin {"setup", "thrown", "refused"}
      /\ nLevels \in Nat /\ LevelNumbers = 0 .. nLevels - 1
  BY AtFwWork DEF FwInv
<1>2. PICK l \in Int : l = level /\ l \in 0 .. nLevels - 2 /\ FieldsOn(corrections, 1 .. nLevels - 1)
  BY DEF FwInv, CycleFields
<1>3. l \in LevelNumbers /\ l + 1 < nLevels
  BY <1>1, <1>2
<1>4. PICK k \in LevelNumbers : k = l + 1 /\ k \in 1 .. nLevels - 1
  BY <1>1, <1>2
<1>5. corrections[k] \in FieldOf(At(k))
  BY <1>2, <1>4 DEF FieldsOn
<1>6. GoodMatrix(At(l)) /\ GoodMatrix(At(k)) /\ Maps(restrictionMaps[k], At(l), At(k))
  BY <1>1, <1>3, <1>4, AtFwWork
<1>7. ProlongField(restrictionMaps[k], corrections[k]) \in FieldOf(At(l))
  BY <1>5, <1>6, TransferFields
<1> QED BY <1>2, <1>3, <1>4, <1>7 DEF FwProlonged

\* A visit of a level on the way up.
LEMMA FwAscendKeeps ==
  ASSUME FwInv, FwAscend, Packaged'
  PROVE  FwInv'
<1>1. /\ stage = "up" /\ stage' = "up" /\ level > 0 /\ level' = level - 1
      /\ UNCHANGED vars /\ UNCHANGED hierarchyVars /\ performance' = performance
      /\ psi' = psi /\ source' = source /\ finestResidual' = finestResidual /\ matrixPsi' = matrixPsi
      /\ sources' = sources
  BY DEF FwAscend, fwFields, fields
<1>2. PICK l \in LevelNumbers : l = level
  BY <1>1, FwProlongedField
<1>3. /\ Packaged /\ stage \notin {"setup", "thrown", "refused"}
      /\ nLevels \in Nat /\ LevelNumbers = 0 .. nLevels - 1 /\ l \in Int
      /\ GoodMatrix(At(l)) /\ PostSweeps(l) \in Int
      /\ Worked(Packed(l), At(l), options.spmvTraversal)
  <2>1. Packaged /\ stage \notin {"setup", "thrown", "refused"}
    BY <1>1 DEF FwInv
  <2>2. l \in Int
    BY <2>1, AtFwWork
  <2> QED BY <2>1, <2>2, AtFwWork
<1>4. PICK p \in FieldOf(At(l)) : p = FwProlonged(l)
  BY <1>1, <1>2, FwProlongedField
<1>5. /\ l \in 1 .. nLevels - 2
      /\ FieldsOn(sources, 0 .. nLevels - 1) /\ FieldsOn(corrections, 1 .. nLevels - 1)
  BY <1>1, <1>2, <1>3 DEF FwInv, CycleFields
<1>6. sources[l] \in FieldOf(At(l)) /\ corrections[l] \in FieldOf(At(l))
  <2>1. l \in 0 .. nLevels - 1 /\ l \in 1 .. nLevels - 1
    BY <1>3, <1>5
  <2> QED BY <1>2, <1>5, <2>1 DEF FieldsOn
<1> DEFINE scaled == FwScaled(l, p, sources[l])
           correction == IF controls.nPreSweeps > 0 THEN PlusField(scaled, corrections[l]) ELSE scaled
<1>7. correction \in FieldOf(At(l))
  <2>1. scaled \in FieldOf(At(l))
    BY <1>3, <1>6, FwScaledField
  <2> HIDE DEF scaled
  <2>2. PlusField(scaled, corrections[l]) \in FieldOf(At(l))
    BY <1>3, <1>6, <2>1, SimpleFields
  <2> QED BY <2>1, <2>2
<1>8. PICK c \in FieldOf(At(l)) : corrections' = [corrections EXCEPT ![l] = c]
  <2>1. corrections' = [corrections EXCEPT ![l] =
          FwSmooth(Packed(l), correction, sources[l], PostSweeps(l))]
    BY <1>2, <1>4 DEF FwAscend
  <2> HIDE DEF correction
  <2>2. FwSmooth(Packed(l), correction, sources[l], PostSweeps(l)) \in FieldOf(At(l))
    BY <1>3, <1>6, <1>7 DEF Worked
  <2> QED BY <2>1, <2>2
<1>9. nLevels' = nLevels /\ LevelNumbers' = LevelNumbers /\ \A j : At(j)' = At(j)
  BY <1>1, <1>3, PackedStay
<1>10. CycleFields'
  <2>1. FieldsOn([corrections EXCEPT ![l] = c], (1 .. nLevels - 1) \cup {l})
    BY <1>5, FieldsExtend
  <2>2. (1 .. nLevels - 1) \cup {l} = 1 .. nLevels - 1 /\ level' \in 0 .. nLevels - 2
    BY <1>1, <1>2, <1>3, <1>5
  <2>3. FieldsOn(corrections, 1 .. nLevels - 1)'
    BY <1>8, <1>9, <2>1, <2>2 DEF FieldsOn
  <2>4. FieldsOn(sources, 0 .. nLevels - 1)'
    BY <1>1, <1>5, <1>9 DEF FieldsOn
  <2> QED BY <1>1, <1>9, <2>2, <2>3, <2>4 DEF CycleFields
<1>11. FwCallFields' /\ NormsListed' /\ ProductKnown'
  BY <1>1, CallFieldsStay
<1> QED BY <1>10, <1>11 DEF FwInv

\* The correction is added to psi; with fusion, the product comes with the last sweep.
LEMMA FwFinishCycleKeeps ==
  ASSUME FwInv, FwFinishCycle, Packaged'
  PROVE  FwInv'
<1> DEFINE corrected == PlusField(psi, FwFinestCorrection)
           fused == SmoothAndMultiply(Packed(0), options.finestSpmvFusion, corrected, source,
                                      controls.nFinestSweeps)
<1>1. /\ stage = "up" /\ level = 0 /\ level' = 0
      /\ UNCHANGED vars /\ UNCHANGED hierarchyVars /\ performance' = performance
      /\ source' = source /\ finestResidual' = finestResidual
      /\ IF Fuse
           THEN psi' = fused.psi /\ matrixPsi' = fused.matrixPsi
           ELSE /\ psi' = FwSmooth(Packed(0), corrected, source, controls.nFinestSweeps)
                /\ matrixPsi' = matrixPsi
      /\ stage' = IF Applying THEN "applied" ELSE "measure"
  BY DEF FwFinishCycle
<1>2. /\ Packaged /\ stage \notin {"setup", "thrown", "refused"}
      /\ nLevels \in Nat /\ nLevels >= 2 /\ LevelNumbers = 0 .. nLevels - 1
      /\ GoodMatrix(Finest) /\ Finest = At(0)
      /\ \A a \in CellsOf(Finest) : Finest.diag[a] % P # 0
      /\ controls.nFinestSweeps \in Int
      /\ options.finestSpmvFusion # "None" => options.finestSpmvFusion \in Fusions
      /\ PackedLevel(Packed(0), numberings[1], Finest)
  <2>1. Packaged /\ stage \notin {"setup", "thrown", "refused"}
    BY <1>1 DEF FwInv
  <2> QED BY <2>1, AtFwWork
<1>3. psi \in FieldOf(Finest) /\ source \in FieldOf(Finest) /\ finestResidual \in FieldOf(Finest)
      /\ (~Applying => matrixPsi \in FieldOf(Finest))
  BY <1>1 DEF FwInv, FwCallFields
<1>4. 0 \in LevelNumbers
  BY <1>2
<1>5. PICK p \in FieldOf(Finest) : p = FwProlonged(0)
  BY <1>1, <1>2, FwProlongedField
<1>6. FwFinestCorrection \in FieldOf(Finest)
  <2>1. ScaledRows(0, p, finestResidual) \in FieldOf(Finest)
    BY <1>2, <1>3, <1>4, FwScaledField
  <2> QED BY <1>5, <2>1 DEF FwFinestCorrection
<1>7. corrected \in FieldOf(Finest)
  BY <1>2, <1>3, <1>6, SimpleFields
<1> HIDE DEF corrected
<1>8. psi' \in FieldOf(Finest) /\ (~Applying => matrixPsi' \in FieldOf(Finest))
      /\ (Fuse => matrixPsi' = Reference(Packed(0), psi'))
  <2>1. CASE Fuse
    <3>1. options.finestSpmvFusion \in Fusions /\ controls.nFinestSweeps > 0
      BY <1>2, <2>1 DEF Fuse
    <3>2. PICK y \in FieldOf(Finest) : fused.psi = y /\ fused.matrixPsi = Reference(Packed(0), y)
      <4>1. PICK M, N, m, x, b, f, n :
              /\ M = Packed(0) /\ N = numberings[1] /\ m = Finest /\ x = corrected /\ b = source
              /\ f = options.finestSpmvFusion /\ n = controls.nFinestSweeps
        OBVIOUS
      <4>2. /\ PackedLevel(M, N, m) /\ x \in FieldOf(m)
            /\ b \in FieldOf(m) /\ f \in Fusions /\ n \in Int /\ n > 0
        BY <1>2, <1>3, <1>7, <3>1, <4>1
      <4>3. \A a \in CellsOf(m) : m.diag[a] % P # 0
        BY <1>2, <4>1
      <4>4. /\ SmoothAndMultiply(M, f, x, b, n).psi = FwSmooth(M, x, b, n)
            /\ SmoothAndMultiply(M, f, x, b, n).matrixPsi = Reference(M, FwSmooth(M, x, b, n))
            /\ FwSmooth(M, x, b, n) \in FieldOf(m)
        BY ONLY <4>2, <4>3, LevelFuses
      <4> QED BY <4>1, <4>4
    <3> HIDE DEF fused
    <3>3. psi' = y /\ matrixPsi' = Reference(Packed(0), y)
      BY <1>1, <2>1, <3>2
    <3>4. Reference(Packed(0), y) \in FieldOf(Finest)
      BY <1>2, FinestProduct
    <3> QED BY <3>3, <3>4
  <2>2. CASE ~Fuse
    <3>1. Worked(Packed(0), Finest, options.spmvTraversal)
      BY <1>2, <1>4, AtFwWork
    <3>2. FwSmooth(Packed(0), corrected, source, controls.nFinestSweeps) \in FieldOf(Finest)
      BY <1>2, <1>3, <1>7, <3>1 DEF Worked
    <3> HIDE DEF fused
    <3> QED BY <1>1, <1>3, <2>2, <3>2
  <2> QED BY <2>1, <2>2
<1> HIDE DEF fused
<1>9. /\ Finest' = Finest /\ Packed(0)' = Packed(0) /\ options' = options /\ controls' = controls
  BY <1>1, <1>2, PackedStay
<1>10. Applying' = Applying /\ stage' \in {"measure", "applied"} /\ (stage' = "measure" => ~Applying)
  BY <1>1 DEF Applying
<1>11. Fuse' = Fuse
  BY <1>9, <1>10 DEF Fuse
<1>12. FwCallFields'
  BY <1>1, <1>3, <1>8, <1>9, <1>10 DEF FwCallFields
<1>13. ProductKnown'
  BY <1>8, <1>9, <1>10, <1>11 DEF ProductKnown
<1>14. NormsListed'
  BY <1>1, <1>10 DEF FwInv, NormsListed
<1>15. CycleFields'
  BY <1>1, <1>10 DEF CycleFields
<1> QED BY <1>12, <1>13, <1>14, <1>15 DEF FwInv

\* The residual is the one of the product, computed or left behind by the last sweep.
LEMMA FwMeasureKeeps ==
  ASSUME FwInv, FwMeasure, Packaged'
  PROVE  FwInv'
<1>1. /\ stage = "measure" /\ stage' = "loop" /\ UNCHANGED <<vars, hierarchyVars>>
      /\ psi' = psi /\ source' = source
      /\ matrixPsi' = IF Fuse THEN matrixPsi ELSE Product(Packed(0), options.spmvTraversal, psi)
      /\ finestResidual' = MinusField(source, matrixPsi')
  BY DEF FwMeasure
<1>2. PICK norm : performance'.residualHistory = Append(performance.residualHistory, norm)
  BY DEF FwMeasure
<1>3. Packaged /\ stage \notin {"setup", "thrown", "refused"} /\ GoodMatrix(Finest)
  BY <1>1, AtFwWork DEF FwInv
<1>4. psi \in FieldOf(Finest) /\ source \in FieldOf(Finest)
  BY <1>1 DEF FwInv, FwCallFields
<1>5. /\ Product(Packed(0), options.spmvTraversal, psi) = Reference(Packed(0), psi)
      /\ Reference(Packed(0), psi) \in FieldOf(Finest)
  BY <1>3, <1>4, FinestProduct
<1>6. matrixPsi' = Reference(Packed(0), psi)
  BY <1>1, <1>5 DEF FwInv, ProductKnown
<1>7. finestResidual' \in FieldOf(Finest)
  <2>1. PICK y \in FieldOf(Finest) : y = matrixPsi'
    BY <1>5, <1>6
  <2>2. MinusField(source, y) \in FieldOf(Finest)
    BY <1>3, <1>4, SimpleFields
  <2> QED BY <1>1, <2>1, <2>2
<1>8. Finest' = Finest /\ Packed(0)' = Packed(0)
  BY <1>1, <1>3, PackedStay
<1>9. FwCallFields'
  BY <1>1, <1>4, <1>5, <1>6, <1>7, <1>8 DEF FwCallFields
<1>10. ProductKnown'
  BY <1>1, <1>6, <1>8 DEF ProductKnown
<1>11. NormsListed'
  <2>1. IsList(performance.residualHistory)
    BY DEF FwInv, NormsListed
  <2>2. PICK h : h = performance.residualHistory
    OBVIOUS
  <2>3. IsList(Append(h, norm)) /\ Len(Append(h, norm)) = Len(h) + 1
    BY <2>1, <2>2, Appended
  <2>4. Len(h) \in Nat
    <3>1. PICK S : h \in Seq(S)
      BY <2>1, <2>2 DEF IsList
    <3> QED BY <3>1, LenProperties
  <2>5. Append(h, norm) # <<>>
    <3>1. Len(<<>>) = 0 /\ Len(h) + 1 # 0
      BY <2>4
    <3> QED BY <2>3, <3>1
  <2> QED BY <1>2, <2>2, <2>3, <2>5 DEF NormsListed, Applying
<1>12. CycleFields'
  BY <1>1 DEF CycleFields
<1> QED BY <1>9, <1>10, <1>11, <1>12 DEF FwInv

\* The invariant holds at the start,
LEMMA FwInvInit ==
  ASSUME FwInit
  PROVE  FwInv
<1>1. stage = "setup" /\ performance = NoPerformance
  BY DEF FwInit, SolverInit
<1>2. Packaged
  BY PackagedInit
<1>3. NormsListed
  BY <1>1, NoPerformanceIs DEF NormsListed, IsList
<1>4. FwCallFields /\ CycleFields /\ ProductKnown
  BY <1>1 DEF FwCallFields, CycleFields, ProductKnown
<1> QED BY <1>2, <1>3, <1>4 DEF FwInv

\* is kept where nothing happens,
LEMMA FwNothingKeeps ==
  ASSUME FwInv, Packaged', UNCHANGED fwVars
  PROVE  FwInv'
<1>1. /\ UNCHANGED <<vars, hierarchyVars>> /\ stage' = stage /\ performance' = performance
      /\ level' = level /\ psi' = psi /\ source' = source /\ finestResidual' = finestResidual
      /\ corrections' = corrections /\ sources' = sources /\ matrixPsi' = matrixPsi
  BY DEF fwVars, fwFields, fields, cycle
<1>2. /\ nLevels' = nLevels /\ Finest' = Finest /\ LevelNumbers' = LevelNumbers
      /\ \A l : At(l)' = At(l) /\ Packed(l)' = Packed(l)
      /\ options' = options /\ controls' = controls
  BY <1>1, PackedStay DEF FwInv
<1>3. FwCallFields'
  BY <1>1, <1>2 DEF FwInv, FwCallFields, Applying
<1>4. CycleFields'
  BY <1>1, <1>2 DEF FwInv, CycleFields, FieldsOn
<1>5. NormsListed'
  BY <1>1 DEF FwInv, NormsListed, Applying
<1>6. ProductKnown'
  BY <1>1, <1>2 DEF FwInv, ProductKnown, Fuse, Applying
<1> QED BY <1>3, <1>4, <1>5, <1>6 DEF FwInv

\* and by every step.
LEMMA FwInvNext ==
  ASSUME FwInv, [FwNext]_fwVars
  PROVE  FwInv'
<1>1. Packaged /\ Packaged'
  BY PackagedNext DEF FwInv
<1>2. CASE FwAgglomerate \/ BuildFinest \/ BuildCoarse
  <2>1. stage' = "setup" /\ performance' = performance
    BY <1>1, <1>2, PackagedAgglomerates, PackagedBuilds
  <2> QED BY <1>1, <2>1, QuietKeeps
<1>3. CASE FwConstructing
  <2>1. stage' \in {"ready", "thrown", "refused"} /\ performance' = performance
    BY <1>3 DEF FwConstructing, RefuseWidth, RejectWidth, FwRejectIterations, FwConstruct
  <2> QED BY <1>1, <2>1, QuietKeeps
<1>4. CASE FwRejectFields \/ FwSingularCoarsest
  <2>1. stage' = "thrown" /\ (performance' = performance \/ performance' = NoPerformance)
    BY <1>4 DEF FwRejectFields, RejectFields, FwSingularCoarsest
  <2> QED BY <1>1, <2>1, QuietKeeps
<1>5. CASE FwSolve \/ FwApplyVCycle \/ FwReturn \/ FwBeginCycle
  BY <1>1, <1>5, FwSolveKeeps, FwApplyVCycleKeeps, FwReturnKeeps, FwBeginCycleKeeps
<1>6. CASE FwDescend \/ FwSolveCoarsestLevel \/ FwAscend
  BY <1>1, <1>6, FwDescendKeeps, FwSolveCoarsestLevelKeeps, FwAscendKeeps
<1>7. CASE FwFinishCycle \/ FwMeasure
  BY <1>1, <1>7, FwFinishCycleKeeps, FwMeasureKeeps
<1>8. CASE FwThrown \/ UNCHANGED fwVars
  BY <1>1, <1>8, FwNothingKeeps DEF FwThrown
<1> QED BY <1>2, <1>3, <1>4, <1>5, <1>6, <1>7, <1>8 DEF FwNext, FwConstructing

\* What the run checks of the hierarchy follows from it.
LEMMA FwInvSound ==
  ASSUME FwInv
  PROVE  HierarchySound
<1>1. Agglomerated /\ Hierarchical /\ FwStaged /\ FwCallFields
  BY DEF FwInv, Packaged
<1>2. options \in Options
  BY <1>1 DEF Hierarchical
<1>3. PICK k \in Nat : k = Len(packed) /\ (packed # <<>> => k # 0) /\ (k # 0 => packed # <<>>)
  <2>1. PICK S : packed \in Seq(S)
    BY <1>1 DEF Hierarchical, Assembled, IsList
  <2>2. Len(packed) \in Nat /\ (Len(packed) = 0 <=> packed = <<>>)
    BY <2>1, LenProperties, EmptySeq
  <2> QED BY <2>2
<1>4. FwTypeOK
  <2>1. Len(numberings) = k /\ Len(restrictionMaps) = IF k = 0 THEN 0 ELSE k - 1
    BY <1>1, <1>3 DEF Hierarchical, Assembled
  <2>2. Len(restrictionMaps) = IF packed = <<>> THEN 0 ELSE Len(packed) - 1
    BY <1>3, <2>1
  <2> QED BY <1>1, <1>2, <1>3, <2>1, <2>2 DEF FwTypeOK, FwStaged, FwStages, FwCallFields
<1>5. ASSUME phase = "built", packed # <<>> PROVE LevelSound(Len(packed) - 1)
  <2>1. PICK l \in Nat : l = Len(packed) - 1 /\ l + 1 <= Len(packed)
    BY <1>3, <1>5
  <2>2. LevelSound(l)
    BY <1>1, <1>5, <2>1, LevelIsSound
  <2> QED BY <2>1, <2>2
<1>6. ViewsRead \subseteq ViewsBuilt
  <2>1. options.finestSpmvFusion \notin {"None", "IncomingHeld", "DeltaCorrectionPackedBaseline"} =>
          options.finestSpmvFusion \in
            {"DeltaCorrection", "DeltaCorrectionCurrent", "DeltaCorrectionEdgeRows"}
    BY <1>2, OptionsAssumption
  <2> QED BY <2>1 DEF ViewsRead, ViewsBuilt
<1> QED BY <1>4, <1>5, <1>6 DEF HierarchySound

\* What it checks of the product, too.
LEMMA FwInvCurrent ==
  ASSUME FwInv
  PROVE  ProductCurrent
<1>1. stage \in {"loop", "returned"} =>
        /\ matrixPsi = Reference(Packed(0), psi)
        /\ finestResidual = MinusField(source, matrixPsi)
  BY DEF FwInv, ProductKnown
<1>2. ASSUME stage = "loop"
      PROVE  /\ OwnerRunProduct(Packed(0), psi) = matrixPsi
             /\ EdgeProduct(Packed(0), DirectEdges(Packed(0)), psi) = matrixPsi
             /\ EdgeProduct(Packed(0), Packed(0).lduOrderEdges, psi) = matrixPsi
             /\ PackedProduct(Packed(0), psi) = matrixPsi
  <2>1. PackedLevel(Packed(0), numberings[1], Finest) /\ psi \in FieldOf(Finest)
    BY <1>2, AtFwWork DEF FwInv, FwCallFields
  <2>2. PICK M, x : M = Packed(0) /\ x = psi
    OBVIOUS
  <2>3. PICK native : IsPacked(M, native) /\ Renumbers(numberings[1], native, Finest)
    BY <2>1, <2>2 DEF PackedLevel
  <2>4. x \in FieldOf(native)
    BY <2>1, <2>2, <2>3 DEF Renumbers, FieldOf, Index
  <2>5. EdgeProduct(M, DirectEdges(M), x) = Reference(M, x)
    BY <2>3, <2>4, DirectEdgesListed, EdgeProductIs
  <2>6. EdgeProduct(M, M.lduOrderEdges, x) = Reference(M, x)
    BY <2>3, <2>4, NativeEdges, EdgeProductIs
  <2>7. PackedProduct(M, x) = Reference(M, x)
    BY <2>3, <2>4, PackedProductIs
  <2>8. OwnerRunProduct(M, x) = Reference(M, x)
    BY <2>3, <2>4, <2>5, OwnerRunProductIs
  <2> QED BY <1>1, <1>2, <2>2, <2>5, <2>6, <2>7, <2>8
<1> QED BY <1>1, <1>2 DEF ProductCurrent

\* Level by level, the packed matrix is the one of the agglomeration with its
\* cells permuted, and the maps of rows are its maps of cells; every view a
\* traversal or a fusion reads has been built.
THEOREM HierarchyIsSound == FwSpec => []HierarchySound
<1>1. FwInit => FwInv
  BY FwInvInit
<1>2. FwInv /\ [FwNext]_fwVars => FwInv'
  BY FwInvNext
<1>3. FwInv => HierarchySound
  BY FwInvSound
<1> QED BY <1>1, <1>2, <1>3, PTL DEF FwSpec

\* Whenever the loop of solve decides, and when it returns, the residual is the one
\* of the present psi, also where the last sweep has left the product behind.
THEOREM ProductIsCurrent == FwSpec => []ProductCurrent
<1>1. FwInit => FwInv
  BY FwInvInit
<1>2. FwInv /\ [FwNext]_fwVars => FwInv'
  BY FwInvNext
<1>3. FwInv => ProductCurrent
  BY FwInvCurrent
<1> QED BY <1>1, <1>2, <1>3, PTL DEF FwSpec
=============================================================================
