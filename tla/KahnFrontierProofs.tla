-------------------------- MODULE KahnFrontierProofs --------------------------
(***************************************************************************)
(* The loop body shared by the Index-Kahn builders keeps the predecessor   *)
(* counters exact, and its release finds exactly the cells that become     *)
(* free, whichever free cells the chunk takes and in whatever order.       *)
(***************************************************************************)
EXTENDS KahnFrontier, LduAddressingTheorems

\* cells not appended whose owners all are
Free == {c \in Cells \ Emitted : Pending(c) = {}}

\* Whatever a builder's policy, this holds while it builds.  Settled says
\* that a cell was appended after its owners.
Settled == \A c \in Emitted : Pending(c) = {}

FrontierOK ==
  /\ mesh \in Meshes
  /\ request \in Requests
  /\ predecessors \in [Cells -> Nat]
  /\ newToOld \in Seq(Cells)
  /\ IsInjective(newToOld)
  /\ oldToNew \in [Cells -> 0 .. NCells]
  /\ status \in {"called", "building", "returned", "rejected", "uncovered"}
  /\ status \in {"called", "rejected"} => newToOld = <<>> /\ levelStarts = <<>>
  /\ CountersExact
  /\ Settled

\* There are finitely many faces into a cell.
LEMMA IncomingFinite ==
  ASSUME IsAddressing(mesh), NEW c \in Cells
  PROVE  /\ IsFiniteSet(IncomingFaces(mesh, c))
         /\ IsFiniteSet(Pending(c))
         /\ Cardinality(IncomingFaces(mesh, c)) \in Nat
         /\ Cardinality(Pending(c)) \in Nat
<1>1. Len(mesh.lower) \in Nat
  BY LenProperties DEF IsAddressing
<1>2. IsFiniteSet(Faces(mesh))
  BY <1>1, FS_Interval DEF Faces
<1>3. IncomingFaces(mesh, c) \in SUBSET Faces(mesh) /\ Pending(c) \in SUBSET Faces(mesh)
  BY DEF IncomingFaces, Pending
<1>4. IsFiniteSet(IncomingFaces(mesh, c)) /\ IsFiniteSet(Pending(c))
  BY <1>2, <1>3, FS_Subset
<1> QED BY <1>4, FS_CardinalityType

\* Before the first chunk every face is pending and the sources are free.
LEMMA BeginFrontier ==
  ASSUME FrontierOK, NEW valid, NEW keptBack, Begin(valid, keptBack)
  PROVE  /\ FrontierOK'
         /\ Free' = {c \in Cells : IncomingFaces(mesh, c) = {}}
<1>1. /\ status = "called" /\ status' = "building"
      /\ mesh' = mesh /\ request' = request
      /\ newToOld' = newToOld /\ newToOld = <<>>
      /\ oldToNew' = oldToNew
      /\ predecessors' = [c \in Cells |-> Cardinality(IncomingFaces(mesh, c))]
  BY DEF Begin, FrontierOK
<1>2. IsAddressing(mesh)
  BY MeshesAssumption DEF FrontierOK
<1>3. Emitted' = {}
  BY <1>1 DEF Emitted, Range
<1>4. \A c \in Cells : Pending(c)' = IncomingFaces(mesh, c)
  BY <1>1, <1>3 DEF Pending
<1>5. predecessors' \in [Cells -> Nat]
  BY <1>1, <1>2, IncomingFinite
<1>6. CountersExact'
  BY <1>1, <1>4 DEF CountersExact
<1>7. Settled'
  BY <1>3 DEF Settled
<1>8. Free' = {c \in Cells : IncomingFaces(mesh, c) = {}}
  BY <1>3, <1>4 DEF Free
<1> QED BY <1>1, <1>5, <1>6, <1>7, <1>8 DEF FrontierOK

\* Appending free cells and walking their faces.
LEMMA EmitFrontier ==
  ASSUME FrontierOK, NEW chunk \in Seq(Cells), IsInjective(chunk),
         Range(chunk) \subseteq Free,
         NEW cuts, NEW readyAfter, Emit(chunk, cuts, readyAfter)
  PROVE  /\ FrontierOK'
         /\ Free' = (Free \ Range(chunk)) \cup Released(chunk)
         /\ Released(chunk) \cap (Free \cup Emitted) = {}
<1> DEFINE D(c) == Decrements(chunk, c)
<1>1. /\ status = "building" /\ status' = "building"
      /\ mesh' = mesh /\ request' = request /\ oldToNew' = oldToNew
      /\ newToOld' = newToOld \o chunk
      /\ predecessors' = [c \in Cells |-> predecessors[c] - Cardinality(D(c))]
  BY DEF Emit
<1>2. IsAddressing(mesh)
  BY MeshesAssumption DEF FrontierOK
<1>3. newToOld \in Seq(Cells) /\ IsInjective(newToOld)
  BY DEF FrontierOK
<1>4. Emitted' = Emitted \cup Range(chunk)
  BY <1>1, <1>3, RangeOfConcat DEF Emitted
<1>5. Emitted \cap Range(chunk) = {}
  BY DEF Free
<1>6. ASSUME NEW c \in Cells
      PROVE  /\ D(c) \subseteq Pending(c)
             /\ Pending(c)' = Pending(c) \ D(c)
             /\ IsFiniteSet(Pending(c))
             /\ Cardinality(D(c)) \in Nat
             /\ Cardinality(Pending(c)) \in Nat
             /\ Cardinality(Pending(c)') = Cardinality(Pending(c)) - Cardinality(D(c))
             /\ Cardinality(Pending(c)') \in Nat
             /\ predecessors[c] = Cardinality(Pending(c))
  <2>1. D(c) \subseteq Pending(c)
    BY <1>5 DEF Decrements, OwnedFaces, Pending
  <2>2. Pending(c)' = Pending(c) \ D(c)
    BY <1>1, <1>4 DEF Decrements, OwnedFaces, Pending, IncomingFaces, Faces
  <2>3. IsFiniteSet(Pending(c)) /\ Cardinality(Pending(c)) \in Nat
    BY <1>2, IncomingFinite
  <2>4. IsFiniteSet(D(c)) /\ Cardinality(D(c)) \in Nat
    BY <2>1, <2>3, FS_Subset, FS_CardinalityType
  <2>5. Pending(c) \cap D(c) = D(c)
    BY <2>1
  <2> HIDE DEF D
  <2>6. /\ IsFiniteSet(Pending(c) \ D(c))
        /\ Cardinality(Pending(c) \ D(c)) = Cardinality(Pending(c)) - Cardinality(D(c))
    BY <2>3, <2>5, FS_Difference
  <2>7. Cardinality(Pending(c) \ D(c)) \in Nat
    BY <2>6, FS_CardinalityType
  <2>8. predecessors[c] = Cardinality(Pending(c))
    BY <1>1 DEF FrontierOK, CountersExact
  <2> QED BY <2>1, <2>2, <2>3, <2>4, <2>6, <2>7, <2>8
<1>7. newToOld' \in Seq(Cells) /\ IsInjective(newToOld')
  BY <1>1, <1>3, <1>5, ConcatProperties, InjectiveConcat DEF Emitted
<1>8. predecessors' \in [Cells -> Nat]
  <2> HIDE DEF D
  <2>1. \A c \in Cells : predecessors[c] - Cardinality(D(c)) \in Nat
    BY <1>6
  <2> QED BY <1>1, <2>1
<1>9. CountersExact'
  <2> HIDE DEF D
  <2>1. \A c \in Cells : predecessors'[c] = Cardinality(Pending(c)')
    BY <1>1, <1>6
  <2> QED BY <2>1 DEF CountersExact
<1>10. Settled'
  <2> SUFFICES ASSUME NEW c \in Emitted' PROVE Pending(c)' = {}
    BY DEF Settled
  <2>1. c \in Cells
    BY <1>7, LenProperties DEF Emitted, Range
  <2>2. Pending(c) = {}
    BY <1>4 DEF FrontierOK, Settled, Free
  <2> QED BY <1>6, <2>1, <2>2
<1>11. ASSUME NEW c \in Cells
       PROVE  c \in Released(chunk) <=> Pending(c) # {} /\ Pending(c)' = {}
  <2> HIDE DEF D
  <2>1. c \in Released(chunk)
          <=> D(c) # {} /\ Cardinality(Pending(c)) = Cardinality(D(c))
    BY <1>6 DEF Released, D
  <2>2. Cardinality(Pending(c)) = Cardinality(D(c)) <=> Pending(c) = D(c)
    BY <1>6, FS_Subset
  <2> QED BY <1>6, <2>1, <2>2
<1>12. Released(chunk) \cap (Free \cup Emitted) = {}
  BY <1>11 DEF FrontierOK, Settled, Free, Released
<1>13. Free' = (Free \ Range(chunk)) \cup Released(chunk)
  <2>1. ASSUME NEW c \in Cells
        PROVE  c \in Free' <=> c \in (Free \ Range(chunk)) \cup Released(chunk)
    <3>1. c \in Free' <=> c \notin Emitted /\ c \notin Range(chunk) /\ Pending(c)' = {}
      BY <1>4 DEF Free
    <3>2. CASE Pending(c) = {}
      <4>1. Pending(c)' = {} /\ c \notin Released(chunk)
        BY <1>6, <1>11, <3>2
      <4> QED BY <3>1, <3>2, <4>1 DEF Free
    <3>3. CASE Pending(c) # {}
      <4>1. c \notin Emitted /\ c \notin Free /\ c \notin Range(chunk)
        BY <3>3 DEF FrontierOK, Settled, Free
      <4> QED BY <1>11, <3>1, <3>3, <4>1
    <3> QED BY <3>2, <3>3
  <2>2. Free' \subseteq Cells /\ Free \subseteq Cells /\ Released(chunk) \subseteq Cells
    BY DEF Free, Released
  <2> QED BY <2>1, <2>2
<1> QED BY <1>1, <1>7, <1>8, <1>9, <1>10, <1>12, <1>13 DEF FrontierOK

-----------------------------------------------------------------------------
(* The end of a call. *)

\* A list without repetitions as long as the cells lists all of them.
LEMMA InjectiveIsAll ==
  ASSUME NEW s \in Seq(Cells), IsInjective(s)
  PROVE  Len(s) = NCells <=> Range(s) = Cells
<1>1. /\ s \in [1 .. Len(s) -> Cells] /\ Len(s) \in Nat
      /\ DOMAIN s = 1 .. Len(s)
  BY LenProperties
<1>2. s \in Injection(1 .. Len(s), Cells)
  BY <1>1, Zenon DEF Injection
<1>3. Cardinality(1 .. Len(s)) = Len(s)
  <2>1. Cardinality(1 .. Len(s)) = IF 1 > Len(s) THEN 0 ELSE Len(s) - 1 + 1
    BY <1>1, FS_Interval
  <2> QED BY <1>1, <2>1
<1>4. Len(s) = NCells <=> s \in Surjection(1 .. Len(s), Cells)
  BY <1>2, <1>3, CellsFinite, FS_Injection
<1>5. s \in Surjection(1 .. Len(s), Cells) <=> Range(s) = Cells
  BY <1>1 DEF Surjection, Range
<1> QED BY <1>4, <1>5

\* As many rows as cells are all the cells.
LEMMA AllAppendedIsAll ==
  ASSUME FrontierOK
  PROVE  AllAppended <=> Emitted = Cells
BY InjectiveIsAll DEF FrontierOK, AllAppended, Emitted

\* RowOf is the one row that holds the cell.
LEMMA RowOfInverts ==
  ASSUME FrontierOK
  PROVE  /\ \A i \in DOMAIN newToOld : RowOf(newToOld[i]) = i - 1
         /\ \A c \in Cells : RowOf(c) \in 0 .. NCells
<1>1. DOMAIN newToOld = 1 .. Len(newToOld) /\ Len(newToOld) \in Nat
      /\ Len(newToOld) <= NCells /\ IsInjective(newToOld)
  BY LenProperties, InjectiveIsShort DEF FrontierOK
<1>2. ASSUME NEW i \in DOMAIN newToOld PROVE RowOf(newToOld[i]) = i - 1
  <2> DEFINE Last(k) == /\ newToOld[k] = newToOld[i]
                        /\ \A j \in DOMAIN newToOld : j > k => newToOld[j] # newToOld[i]
  <2>1. newToOld[i] \in Emitted
    BY DEF Emitted, Range
  <2>2. \A j \in DOMAIN newToOld : newToOld[j] = newToOld[i] => j = i
    BY <1>1 DEF IsInjective
  <2>3. Last(i)
    BY <1>1, <2>2
  <2>4. \A k \in DOMAIN newToOld : Last(k) => k = i
    BY <2>2
  <2> HIDE DEF Last
  <2>5. (CHOOSE k \in DOMAIN newToOld : Last(k)) = i
    BY <2>3, <2>4
  <2>6. RowOf(newToOld[i]) = (CHOOSE k \in DOMAIN newToOld : Last(k)) - 1
    BY <2>1 DEF RowOf, Last
  <2> QED BY <2>5, <2>6
<1>3. ASSUME NEW c \in Cells PROVE RowOf(c) \in 0 .. NCells
  <2>1. CASE c \in Emitted
    <3>1. PICK i \in DOMAIN newToOld : newToOld[i] = c
      BY <2>1 DEF Emitted, Range
    <3> QED BY <1>1, <1>2, <3>1, NCellsAssumption
  <2>2. CASE c \notin Emitted
    BY <2>2, NCellsAssumption DEF RowOf
  <2> QED BY <2>1, <2>2
<1> QED BY <1>2, <1>3

\* Finishing, either way, keeps the frontier as it is; a returned ordering is
\* a permutation of the cells with its inverse.
LEMMA EndFrontier ==
  ASSUME FrontierOK, NEW idle, NEW complete,
         Return(idle, complete) \/ NotCovered(idle, complete)
  PROVE  FrontierOK' /\ Emitted' = Emitted /\ Free' = Free
<1>1. /\ status = "building" /\ status' \in {"returned", "uncovered"}
      /\ mesh' = mesh /\ request' = request /\ newToOld' = newToOld
      /\ predecessors' = predecessors
      /\ oldToNew' = oldToNew \/ oldToNew' = [c \in Cells |-> RowOf(c)]
  BY DEF Return, NotCovered
<1>2. oldToNew' \in [Cells -> 0 .. NCells]
  BY <1>1, RowOfInverts DEF FrontierOK
<1>3. Emitted' = Emitted /\ Free' = Free /\ Settled'
  BY <1>1 DEF Emitted, Free, Pending, Settled, FrontierOK
<1>4. CountersExact'
  BY <1>1, <1>3 DEF CountersExact, FrontierOK, Pending
<1> QED BY <1>1, <1>2, <1>3, <1>4 DEF FrontierOK

-----------------------------------------------------------------------------
(* Graham's bound. *)

Owners(c) == {mesh.lower[f] : f \in IncomingFaces(mesh, c)}

Greatest(S) == CHOOSE d \in S : \A e \in S : e <= d

\* the right-hand side of the definition of Depth
DepthFrom(g, c) ==
  IF Owners(c) = {} THEN 1 ELSE 1 + Greatest({g[o] : o \in Owners(c)})

\* What has been appended so far has a depth, at most the number of rows.
DepthsFound ==
  \A c \in Emitted :
    Depth[c] \in 1 .. Len(newToOld) /\ Depth[c] = DepthFrom(Depth, c)

Deep(S, k) == \A c \in S : Depth[c] \in Nat /\ Depth[c] >= k

\* Nonempty bounded sets of numbers have a largest element.
LEMMA GreatestNatural ==
  ASSUME NEW S, S # {}, NEW b \in Nat, S \subseteq 0 .. b
  PROVE  \E n \in S : \A e \in S : e <= n
<1> DEFINE bounds == {n \in Nat : \A e \in S : e <= n}
<1>1. b \in bounds /\ bounds \in SUBSET Nat
  OBVIOUS
<1>2. PICK n \in bounds : \A m \in bounds : n <= m
  BY <1>1, LeastNatural
<1>3. PICK e \in S : TRUE
  OBVIOUS
<1>4. n \in S
  <2> SUFFICES ASSUME n \notin S PROVE FALSE
    OBVIOUS
  <2>1. \A x \in S : x < n
    BY <1>2
  <2>2. n - 1 \in bounds
    BY <1>2, <1>3, <2>1
  <2> QED BY <1>2, <2>2
<1> QED BY <1>2, <1>4

\* A cell is one deeper than the deepest of its owners.
LEMMA DepthFromBounds ==
  ASSUME NEW c, NEW g, NEW b \in Nat, \A o \in Owners(c) : g[o] \in 0 .. b
  PROVE  /\ DepthFrom(g, c) \in 1 .. b + 1
         /\ \A o \in Owners(c) : g[o] + 1 <= DepthFrom(g, c)
         /\ Owners(c) # {} => \E o \in Owners(c) : g[o] + 1 = DepthFrom(g, c)
<1>1. CASE Owners(c) = {}
  BY <1>1 DEF DepthFrom
<1>2. CASE Owners(c) # {}
  <2> DEFINE depths == {g[o] : o \in Owners(c)}
             deepest == Greatest(depths)
  <2>1. depths # {} /\ depths \subseteq 0 .. b
    BY <1>2
  <2>2. \E d \in depths : \A e \in depths : e <= d
    BY <2>1, GreatestNatural
  <2>3. DepthFrom(g, c) = 1 + deepest
    BY <1>2 DEF DepthFrom
  <2>4. /\ \A o \in Owners(c) : g[o] \in depths
        /\ \A d \in depths : \E o \in Owners(c) : g[o] = d
    OBVIOUS
  <2> HIDE DEF depths
  <2>5. deepest \in depths /\ \A e \in depths : e <= deepest
    BY <2>2 DEF Greatest
  <2> HIDE DEF deepest
  <2> QED BY <2>1, <2>3, <2>4, <2>5
<1> QED BY <1>1, <1>2

\* only the values at the owners count
LEMMA DepthFromSame ==
  ASSUME NEW c, NEW g, NEW h, \A o \in Owners(c) : g[o] = h[o]
  PROVE  DepthFrom(g, c) = DepthFrom(h, c)
<1>1. {g[o] : o \in Owners(c)} = {h[o] : o \in Owners(c)}
  OBVIOUS
<1> QED BY <1>1 DEF DepthFrom

\* Nothing of this depends on the rows.
LEMMA SameDepths ==
  ASSUME mesh' = mesh
  PROVE  /\ Depth' = Depth
         /\ \A c : Owners(c)' = Owners(c)
         /\ \A c, g : DepthFrom(g, c)' = DepthFrom(g, c)
<1>1. \A c : Owners(c)' = Owners(c)
  BY DEF Owners, IncomingFaces, Faces
<1>2. \A c, g : DepthFrom(g, c)' = DepthFrom(g, c)
  BY <1>1 DEF DepthFrom
<1>3. DepthWithin' = DepthWithin
  BY DEF DepthWithin, IncomingFaces, Faces
<1> QED BY <1>1, <1>2, <1>3 DEF Depth

\* What the equation of DepthWithin says of a function f in its row n.
DepthRow(f, n) ==
  [c \in Cells |-> IF n = 0 THEN 0 ELSE DepthFrom(f[n - 1], c)]

\* There is a function that satisfies it, row by row.
LEMMA DepthRowsExist ==
  \A k \in Nat : \E f : f = [n \in 0 .. k |-> DepthRow(f, n)]
<1> DEFINE Rows(k, f) == f = [n \in 0 .. k |-> DepthRow(f, n)]
           good == {k \in Nat : \E f : Rows(k, f)}
<1>1. 0 \in good
  <2>1. PICK g : g = [n \in 0 .. 0 |-> [c \in Cells |-> 0]]
    OBVIOUS
  <2>2. \A f : DepthRow(f, 0) = [c \in Cells |-> 0]
    BY DEF DepthRow
  <2>3. g = [n \in 0 .. 0 |-> DepthRow(g, n)]
    <3>1. \A n \in 0 .. 0 : DepthRow(g, n) = [c \in Cells |-> 0]
      BY <2>2
    <3> QED BY <2>1, <3>1
  <2> QED BY <2>3
<1>2. ASSUME NEW k \in Nat, k \in good PROVE k + 1 \in good
  <2>1. PICK f : f = [n \in 0 .. k |-> DepthRow(f, n)]
    BY <1>2
  <2>2. PICK g : g = [n \in 0 .. k + 1 |-> IF n <= k THEN f[n] ELSE DepthRow(f, n)]
    OBVIOUS
  <2>3. ASSUME NEW n \in 0 .. k + 1 PROVE g[n] = DepthRow(f, n)
    BY <2>1, <2>2
  <2>4. ASSUME NEW n \in 0 .. k + 1 PROVE DepthRow(g, n) = DepthRow(f, n)
    <3>1. CASE n = 0
      BY <3>1 DEF DepthRow
    <3>2. CASE n # 0
      <4>1. n - 1 \in 0 .. k + 1 /\ n - 1 <= k
        BY <3>2
      <4>2. g[n - 1] = f[n - 1]
        BY <2>2, <4>1
      <4> QED BY <4>2 DEF DepthRow
    <3> QED BY <3>1, <3>2
  <2>5. \A n \in 0 .. k + 1 : g[n] = DepthRow(g, n)
    BY <2>3, <2>4
  <2>6. g = [n \in 0 .. k + 1 |-> g[n]]
    BY <2>2
  <2>7. g = [n \in 0 .. k + 1 |-> DepthRow(g, n)]
    BY <2>5, <2>6, Zenon
  <2> QED BY <2>7
<1> HIDE DEF good
<1>3. \A k \in Nat : k \in good
  BY <1>1, <1>2, NumberInduction
<1> QED BY <1>3 DEF good

\* Chains of one cell more.
LEMMA DepthGrows ==
  \A n \in 1 .. NCells :
    DepthWithin[n] = [c \in Cells |-> DepthFrom(DepthWithin[n - 1], c)]
<1> DEFINE Rows(f) == [n \in 0 .. NCells |-> DepthRow(f, n)]
<1>1. DepthWithin = CHOOSE f : f = Rows(f)
  BY DEF DepthWithin, DepthRow, DepthFrom, Owners, Greatest
<1>2. \E f : f = Rows(f)
  BY DepthRowsExist, NCellsAssumption
<1> HIDE DEF Rows
<1>3. DepthWithin = Rows(DepthWithin)
  BY <1>1, <1>2
<1>4. \A n \in 0 .. NCells : DepthWithin[n] = DepthRow(DepthWithin, n)
  BY <1>3 DEF Rows
<1> QED
  <2> SUFFICES ASSUME NEW n \in 1 .. NCells
               PROVE  DepthWithin[n] = [c \in Cells |-> DepthFrom(DepthWithin[n - 1], c)]
    OBVIOUS
  <2>1. n \in 0 .. NCells /\ n # 0
    BY NCellsAssumption
  <2> QED BY <1>4, <2>1 DEF DepthRow

\* A chain no longer than n is found within n.
LEMMA DepthReached ==
  ASSUME NEW S \in SUBSET Cells, \A c \in S : Owners(c) \subseteq S,
         NEW b \in Nat,
         \A c \in S : Depth[c] \in 1 .. b /\ Depth[c] = DepthFrom(Depth, c)
  PROVE  \A n \in 0 .. NCells : \A c \in S : Depth[c] <= n => DepthWithin[n][c] = Depth[c]
<1> DEFINE Reached(n) == \A c \in S : Depth[c] <= n => DepthWithin[n][c] = Depth[c]
           good == {n \in Nat : n <= NCells => Reached(n)}
<1>1. 0 \in good
  OBVIOUS
<1>2. ASSUME NEW n \in Nat, n \in good PROVE n + 1 \in good
  <2> SUFFICES ASSUME n + 1 <= NCells, NEW c \in S, Depth[c] <= n + 1
               PROVE  DepthWithin[n + 1][c] = Depth[c]
    OBVIOUS
  <2>1. Reached(n)
    BY <1>2, NCellsAssumption
  <2>2. DepthWithin[n + 1] = [d \in Cells |-> DepthFrom(DepthWithin[n], d)]
    <3>1. n + 1 \in 1 .. NCells /\ n + 1 - 1 = n
      BY NCellsAssumption
    <3> QED BY <3>1, DepthGrows
  <2>3. DepthWithin[n + 1][c] = DepthFrom(DepthWithin[n], c)
    BY <2>2
  <2>4. Owners(c) \subseteq S /\ \A o \in Owners(c) : Depth[o] \in Nat
    OBVIOUS
  <2>5. \A o \in Owners(c) : Depth[o] <= n
    <3>1. \A o \in Owners(c) : Depth[o] \in 0 .. b
      BY <2>4
    <3>2. \A o \in Owners(c) : Depth[o] + 1 <= DepthFrom(Depth, c)
      BY <3>1, DepthFromBounds
    <3>3. Depth[c] = DepthFrom(Depth, c)
      OBVIOUS
    <3> QED BY <2>4, <3>2, <3>3
  <2>6. \A o \in Owners(c) : DepthWithin[n][o] = Depth[o]
    BY <2>1, <2>4, <2>5
  <2>7. DepthFrom(DepthWithin[n], c) = DepthFrom(Depth, c)
    BY <2>6, DepthFromSame
  <2> QED BY <2>3, <2>7
<1> HIDE DEF good
<1>3. \A n \in Nat : n \in good
  BY <1>1, <1>2, NumberInduction
<1> QED BY <1>3, NCellsAssumption DEF good

\* A cell has a depth when its owners have, and there are no more than NCells.
LEMMA DepthAbove ==
  ASSUME NEW S \in SUBSET Cells, \A c \in S : Owners(c) \subseteq S,
         NEW b \in Nat, b < NCells,
         \A c \in S : Depth[c] \in 1 .. b /\ Depth[c] = DepthFrom(Depth, c),
         NEW c \in Cells, Owners(c) \subseteq S
  PROVE  /\ Depth[c] \in 1 .. b + 1
         /\ Depth[c] = DepthFrom(Depth, c)
         /\ \A o \in Owners(c) : Depth[o] + 1 <= Depth[c]
         /\ Owners(c) # {} => \E o \in Owners(c) : Depth[o] + 1 = Depth[c]
<1> DEFINE n == NCells
<1>1. n \in 1 .. n /\ n - 1 \in 0 .. n /\ b <= n - 1
  BY NCellsAssumption
<1>2. DepthWithin[n] = [d \in Cells |-> DepthFrom(DepthWithin[n - 1], d)]
  BY <1>1, DepthGrows
<1>3. Depth[c] = DepthFrom(DepthWithin[n - 1], c)
  BY <1>2 DEF Depth
<1>4. \A o \in Owners(c) : Depth[o] \in 0 .. b /\ Depth[o] <= n - 1
  BY <1>1
<1>5. \A o \in Owners(c) : DepthWithin[n - 1][o] = Depth[o]
  BY <1>1, <1>4, DepthReached
<1>6. Depth[c] = DepthFrom(Depth, c)
  BY <1>3, <1>5, DepthFromSame
<1>7. /\ DepthFrom(Depth, c) \in 1 .. b + 1
      /\ \A o \in Owners(c) : Depth[o] + 1 <= DepthFrom(Depth, c)
      /\ Owners(c) # {} => \E o \in Owners(c) : Depth[o] + 1 = DepthFrom(Depth, c)
  BY <1>4, DepthFromBounds
<1> QED BY <1>6, <1>7

\* Nothing has been appended before the first chunk.
LEMMA NoDepthsYet ==
  ASSUME newToOld' = <<>>
  PROVE  DepthsFound'
<1>1. Emitted' = {}
  BY DEF Emitted, Range
<1> QED BY <1>1 DEF DepthsFound

\* The depth of a free cell is known: it is one more than that of an owner.
LEMMA FreeDepths ==
  ASSUME FrontierOK, DepthsFound
  PROVE  /\ \A c \in Free \cup Emitted : Owners(c) \subseteq Emitted
         /\ \A c \in Free :
              /\ Depth[c] \in 1 .. Len(newToOld) + 1
              /\ Depth[c] = DepthFrom(Depth, c)
              /\ \A o \in Owners(c) : Depth[o] + 1 <= Depth[c]
              /\ Owners(c) # {} => \E o \in Owners(c) : Depth[o] + 1 = Depth[c]
<1>1. \A c \in Free \cup Emitted : Owners(c) \subseteq Emitted
  BY DEF Free, FrontierOK, Settled, Pending, Owners
<1>2. Emitted \in SUBSET Cells /\ Len(newToOld) \in Nat /\ Len(newToOld) <= NCells
  BY LenProperties, ElementOfSeq, InjectiveIsShort DEF FrontierOK, Emitted, Range
<1>3. ASSUME NEW c \in Free
      PROVE  Len(newToOld) < NCells
  <2>1. c \in Cells /\ c \notin Emitted
    BY DEF Free
  <2>2. Len(newToOld) # NCells
    BY <2>1, AllAppendedIsAll DEF AllAppended
  <2> QED BY <1>2, <2>2, NCellsAssumption
<1>4. ASSUME NEW c \in Free
      PROVE  /\ Depth[c] \in 1 .. Len(newToOld) + 1
             /\ Depth[c] = DepthFrom(Depth, c)
             /\ \A o \in Owners(c) : Depth[o] + 1 <= Depth[c]
             /\ Owners(c) # {} => \E o \in Owners(c) : Depth[o] + 1 = Depth[c]
  <2>1. PICK S, b : S = Emitted /\ b = Len(newToOld)
    OBVIOUS
  <2>2. S \in SUBSET Cells /\ b \in Nat /\ b < NCells
    BY <1>2, <1>3, <2>1
  <2>3. (\A d \in S : Owners(d) \subseteq S) /\ Owners(c) \subseteq S /\ c \in Cells
    BY <1>1, <2>1 DEF Free
  <2>4. \A d \in S : Depth[d] \in 1 .. b /\ Depth[d] = DepthFrom(Depth, d)
    BY <2>1 DEF DepthsFound
  <2>5. /\ Depth[c] \in 1 .. b + 1
        /\ Depth[c] = DepthFrom(Depth, c)
        /\ \A o \in Owners(c) : Depth[o] + 1 <= Depth[c]
        /\ Owners(c) # {} => \E o \in Owners(c) : Depth[o] + 1 = Depth[c]
    BY <2>2, <2>3, <2>4, DepthAbove
  <2> QED BY <2>1, <2>5
<1> QED BY <1>1, <1>4

\* Appending free cells settles their depths, and what it releases is one
\* deeper than its deepest owner, and waited for a cell of the chunk.
LEMMA EmitDepths ==
  ASSUME FrontierOK, DepthsFound,
         NEW chunk \in Seq(Cells), IsInjective(chunk), Range(chunk) \subseteq Free,
         NEW cuts, NEW readyAfter, Emit(chunk, cuts, readyAfter)
  PROVE  /\ DepthsFound'
         /\ \A c \in Released(chunk) :
              /\ Owners(c) \subseteq Emitted \cup Range(chunk)
              /\ \A o \in Owners(c) : Depth[o] \in Nat /\ Depth[o] + 1 <= Depth[c]
              /\ \E o \in Owners(c) : Depth[o] + 1 = Depth[c]
              /\ \E o \in Owners(c) : o \in Range(chunk)
              /\ Depth[c] \in Nat
         /\ \A k \in Nat : Deep(Range(chunk), k) => Deep(Released(chunk), k + 1)
<1>1. /\ mesh' = mesh /\ newToOld' = newToOld \o chunk
      /\ newToOld \in Seq(Cells)
  BY DEF Emit, FrontierOK
<1>2. Emitted' = Emitted \cup Range(chunk)
  BY <1>1, RangeOfConcat DEF Emitted
<1>3. FrontierOK' /\ Free' = (Free \ Range(chunk)) \cup Released(chunk)
  BY EmitFrontier
<1>4. PICK b \in Nat : b = Len(newToOld')
  BY <1>3, LenProperties DEF FrontierOK
<1>5. /\ Len(newToOld) \in Nat /\ Len(newToOld) <= b
      /\ Range(chunk) # {} => Len(newToOld) + 1 <= b
  <2>1. Len(newToOld \o chunk) = Len(newToOld) + Len(chunk)
        /\ Len(newToOld) \in Nat /\ Len(chunk) \in Nat
    BY <1>1, ConcatProperties, LenProperties
  <2>2. Range(chunk) # {} => Len(chunk) # 0
    <3>1. DOMAIN chunk = 1 .. Len(chunk)
      BY LenProperties
    <3> QED BY <3>1 DEF Range
  <2> QED BY <1>1, <1>4, <2>1, <2>2
<1>6. PICK S : S = Emitted \cup Range(chunk)
  OBVIOUS
<1>7. S \in SUBSET Cells
  BY <1>1, <1>6, ElementOfSeq, LenProperties DEF Emitted, Range
<1>8. \A c \in S : Owners(c) \subseteq S
  BY <1>6, FreeDepths
<1>9. \A c \in S : Depth[c] \in 1 .. b /\ Depth[c] = DepthFrom(Depth, c)
  <2>1. ASSUME NEW c \in Emitted
        PROVE  Depth[c] \in 1 .. b /\ Depth[c] = DepthFrom(Depth, c)
    BY <1>5 DEF DepthsFound
  <2>2. ASSUME NEW c \in Range(chunk)
        PROVE  Depth[c] \in 1 .. b /\ Depth[c] = DepthFrom(Depth, c)
    <3>1. Depth[c] \in 1 .. Len(newToOld) + 1 /\ Depth[c] = DepthFrom(Depth, c)
      BY FreeDepths
    <3> QED BY <1>5, <3>1
  <2> QED BY <1>6, <2>1, <2>2
<1>10. DepthsFound'
  <2>1. Depth' = Depth /\ \A c : DepthFrom(Depth, c)' = DepthFrom(Depth, c)
    BY <1>1, SameDepths DEF DepthFrom
  <2> QED BY <1>2, <1>4, <1>6, <1>9, <2>1 DEF DepthsFound
<1>11. ASSUME NEW c \in Released(chunk)
       PROVE  /\ Owners(c) \subseteq Emitted \cup Range(chunk)
              /\ \A o \in Owners(c) : Depth[o] \in Nat /\ Depth[o] + 1 <= Depth[c]
              /\ \E o \in Owners(c) : Depth[o] + 1 = Depth[c]
              /\ \E o \in Owners(c) : o \in Range(chunk)
              /\ Depth[c] \in Nat
  <2>1. PICK f \in Decrements(chunk, c) : TRUE
    BY DEF Released
  <2>2. mesh.lower[f] \in Owners(c) /\ mesh.lower[f] \in Range(chunk)
    BY DEF Decrements, OwnedFaces, Owners
  <2>3. c \in Free' /\ c \in Cells
    BY <1>3 DEF Released
  <2>4. Owners(c) \subseteq S
    <3>1. \A e \in IncomingFaces(mesh, c) : mesh.lower[e] \in Emitted'
      BY <1>1, <2>3 DEF Free, Pending
    <3> QED BY <1>2, <1>6, <3>1 DEF Owners
  <2>5. b < NCells
    <3>1. b <= NCells
      BY <1>3, <1>4, InjectiveIsShort DEF FrontierOK
    <3>2. b # NCells
      <4>1. newToOld' \in Seq(Cells) /\ IsInjective(newToOld')
        BY <1>3 DEF FrontierOK
      <4>2. Len(newToOld') = NCells <=> Range(newToOld') = Cells
        BY <4>1, InjectiveIsAll
      <4> QED BY <1>4, <2>3, <4>2 DEF Free, Emitted
    <3> QED BY <3>1, <3>2, NCellsAssumption
  <2>6. /\ Depth[c] \in 1 .. b + 1
        /\ \A o \in Owners(c) : Depth[o] + 1 <= Depth[c]
        /\ Owners(c) # {} => \E o \in Owners(c) : Depth[o] + 1 = Depth[c]
    BY <1>7, <1>8, <1>9, <2>3, <2>4, <2>5, DepthAbove
  <2>7. \A o \in Owners(c) : Depth[o] \in Nat
    BY <1>9, <2>4
  <2> QED BY <1>6, <2>2, <2>4, <2>6, <2>7
<1>12. ASSUME NEW k \in Nat, Deep(Range(chunk), k), NEW c \in Released(chunk)
       PROVE  Depth[c] \in Nat /\ Depth[c] >= k + 1
  <2>1. PICK o \in Owners(c) : o \in Range(chunk)
    BY <1>11
  <2>2. /\ Depth[o] \in Nat /\ Depth[o] + 1 <= Depth[c] /\ Depth[c] \in Nat
        /\ Depth[o] >= k
    BY <1>11, <1>12, <2>1 DEF Deep
  <2> QED BY <2>2
<1> QED BY <1>10, <1>11, <1>12 DEF Deep

\* Graham's argument, level by level: there are k levels too narrow to be
\* charged to their cells alone, and each of them raises the least depth of
\* what is still to come.  now are the cells a chunk is taken from, later those
\* that wait until now is used up.
Potential(w, now, later) ==
  \E k \in Nat :
    /\ (Len(levelStarts) - 1) * w <= Len(newToOld) + (w - 1) * k
    /\ k = 0 \/ \E c \in Emitted : Depth[c] >= k
    /\ Deep(now, k + 1)
    /\ Deep(later, k + 2)

\* It holds with k = 0 before the first chunk.
LEMMA PotentialBegins ==
  ASSUME mesh' = mesh, newToOld' = <<>>, levelStarts' = << 0 >>,
         NEW S, S \subseteq {c \in Cells : IncomingFaces(mesh, c) = {}},
         NEW w \in Nat
  PROVE  Potential(w, S, {})'
<1>1. \A c \in S : c \in Cells /\ Owners(c) = {}
  BY DEF Owners
<1>2. Deep(S, 1)'
  <2> SUFFICES ASSUME NEW c \in S
               PROVE  Depth[c] = 1
    <3>1. Depth' = Depth
      BY SameDepths
    <3> QED BY <3>1 DEF Deep
  <2>1. c \in Cells /\ Owners(c) = {} /\ NCells \in 1 .. NCells
    BY <1>1, NCellsAssumption DEF Cells
  <2>2. Depth[c] = DepthFrom(DepthWithin[NCells - 1], c)
    BY <2>1, DepthGrows DEF Depth
  <2> QED BY <2>1, <2>2 DEF DepthFrom
<1>3. Deep({}, 2)'
  BY DEF Deep
<1>4. /\ (Len(levelStarts') - 1) * w <= Len(newToOld') + (w - 1) * 0
      /\ 0 \in Nat /\ 0 + 1 = 1 /\ 0 + 2 = 2
  BY Len(<<0>>) = 1, Len(<<>>) = 0
<1> QED BY <1>2, <1>3, <1>4 DEF Potential

\* A wide level is charged to its cells...
LEMMA WideLevel ==
  ASSUME FrontierOK, DepthsFound, levelStarts \in Seq(Nat),
         NEW chunk \in Seq(Cells), IsInjective(chunk), Range(chunk) \subseteq Free,
         NEW cuts \in Seq(Nat), Len(cuts) = 1, NEW readyAfter, Emit(chunk, cuts, readyAfter),
         NEW w \in Nat \ {0}, NEW now, NEW later, Potential(w, now, later),
         Range(chunk) \subseteq now, w <= Len(chunk),
         NEW released, released = Released(chunk),
         NEW rest, rest = now \ Range(chunk)
  PROVE  /\ Potential(w, rest, later \cup released)'
         /\ Potential(w, rest \cup (later \cup released), {})'
<1>1. /\ mesh' = mesh /\ newToOld' = newToOld \o chunk
      /\ levelStarts' = levelStarts \o cuts
  BY DEF Emit
<1>2. PICK k \in Nat :
        /\ (Len(levelStarts) - 1) * w <= Len(newToOld) + (w - 1) * k
        /\ k = 0 \/ \E c \in Emitted : Depth[c] >= k
        /\ Deep(now, k + 1)
        /\ Deep(later, k + 2)
  BY DEF Potential
<1>3. Len(newToOld') = Len(newToOld) + Len(chunk) /\ Len(levelStarts') = Len(levelStarts) + 1
      /\ Emitted' = Emitted \cup Range(chunk)
      /\ Len(newToOld) \in Nat /\ Len(levelStarts) \in Nat /\ Len(chunk) \in Nat
  <2>1. newToOld \in Seq(Cells)
    BY DEF FrontierOK
  <2>2. Emitted' = Emitted \cup Range(chunk)
    BY <1>1, <2>1, RangeOfConcat DEF Emitted
  <2>3. /\ Len(newToOld \o chunk) = Len(newToOld) + Len(chunk)
        /\ Len(levelStarts \o cuts) = Len(levelStarts) + Len(cuts)
    BY <2>1, ConcatProperties
  <2>4. Len(newToOld) \in Nat /\ Len(levelStarts) \in Nat /\ Len(chunk) \in Nat
    BY <2>1, LenProperties
  <2> QED BY <1>1, <2>2, <2>3, <2>4
<1>4. (Len(levelStarts') - 1) * w <= Len(newToOld') + (w - 1) * k
  BY <1>2, <1>3
<1>5. Deep(released, k + 2)
  <2>1. Deep(Range(chunk), k + 1)
    BY <1>2 DEF Deep
  <2> QED BY <2>1, EmitDepths, k + 1 \in Nat, k + 1 + 1 = k + 2
<1>6. Deep(rest, k + 1)' /\ Deep(later \cup released, k + 2)'
  BY <1>1, <1>2, <1>5, SameDepths DEF Deep
<1>8. Deep(rest \cup (later \cup released), k + 1)' /\ Deep({}, k + 2)'
  BY <1>6 DEF Deep
<1>7. k = 0 \/ \E c \in Emitted' : Depth'[c] >= k
  BY <1>1, <1>2, <1>3, SameDepths
<1> QED BY <1>4, <1>6, <1>7, <1>8 DEF Potential

\* ...and narrow ones are only cut where everything in now is used up.
LEMMA LastLevels ==
  ASSUME FrontierOK, DepthsFound, levelStarts \in Seq(Nat),
         NEW chunk \in Seq(Cells), IsInjective(chunk), Range(chunk) \subseteq Free,
         NEW cuts \in Seq(Nat), NEW readyAfter, Emit(chunk, cuts, readyAfter),
         NEW w \in Nat \ {0}, NEW now, NEW later, Potential(w, now, later),
         Range(chunk) = now, now # {}, Len(cuts) * w <= Len(chunk) + w - 1,
         NEW released, released = Released(chunk)
  PROVE  Potential(w, later \cup released, {})'
<1>1. /\ mesh' = mesh /\ newToOld' = newToOld \o chunk
      /\ levelStarts' = levelStarts \o cuts
  BY DEF Emit
<1>2. PICK k \in Nat :
        /\ (Len(levelStarts) - 1) * w <= Len(newToOld) + (w - 1) * k
        /\ k = 0 \/ \E c \in Emitted : Depth[c] >= k
        /\ Deep(now, k + 1)
        /\ Deep(later, k + 2)
  BY DEF Potential
<1>3. Len(newToOld') = Len(newToOld) + Len(chunk)
      /\ Len(levelStarts') = Len(levelStarts) + Len(cuts)
      /\ Emitted' = Emitted \cup Range(chunk)
      /\ Len(newToOld) \in Nat /\ Len(levelStarts) \in Nat /\ Len(chunk) \in Nat
      /\ Len(cuts) \in Nat
  BY <1>1, RangeOfConcat DEF Emitted, FrontierOK
<1>4. (Len(levelStarts') - 1) * w <= Len(newToOld') + (w - 1) * (k + 1)
  BY <1>2, <1>3
<1>5. Deep(released, k + 2)
  <2>1. Deep(Range(chunk), k + 1)
    BY <1>2 DEF Deep
  <2> QED BY <2>1, EmitDepths, k + 1 \in Nat, k + 1 + 1 = k + 2
<1>6. Deep(later \cup released, k + 1 + 1)' /\ Deep({}, k + 1 + 2)'
  BY <1>1, <1>2, <1>5, SameDepths, k + 1 + 1 = k + 2 DEF Deep
<1>7. k + 1 = 0 \/ \E c \in Emitted' : Depth'[c] >= k + 1
  BY <1>1, <1>2, <1>3, SameDepths DEF Deep
<1> QED BY <1>4, <1>6, <1>7, k + 1 \in Nat DEF Potential

\* The end of the argument: no depth is larger than the largest one.
LEMMA WorkIsSpread ==
  ASSUME FrontierOK, DepthsFound, levelStarts \in Seq(Nat), Emitted = Cells,
         NEW w \in Nat \ {0}, NEW now, NEW later, Potential(w, now, later)
  PROVE  WorkSpread(Len(levelStarts) - 1, w)
<1> SUFFICES ASSUME NEW d \in 0 .. NCells, \A c \in Cells : Depth[c] <= d
             PROVE  (Len(levelStarts) - 1) * w <= NCells + (w - 1) * d
  BY DEF WorkSpread
<1>1. Len(newToOld) = NCells
  BY AllAppendedIsAll DEF AllAppended
<1>2. PICK k \in Nat :
        /\ (Len(levelStarts) - 1) * w <= Len(newToOld) + (w - 1) * k
        /\ k = 0 \/ \E c \in Emitted : Depth[c] >= k
  BY DEF Potential
<1>3. \A c \in Cells : Depth[c] \in Nat
  BY DEF DepthsFound
<1>4. k <= d /\ d \in Nat
  BY <1>1, <1>2, <1>3, NCellsAssumption
<1>5. (w - 1) * k <= (w - 1) * d
  <2>1. (w - 1) * (d - k) >= 0
    BY <1>4
  <2> QED BY <1>4, <2>1
<1>6. Len(levelStarts) \in Nat
  BY LenProperties
<1>7. (Len(levelStarts) - 1) * w \in Int /\ (w - 1) * k \in Int /\ (w - 1) * d \in Int
  BY <1>4, <1>6
<1> QED BY <1>1, <1>2, <1>5, <1>7, NCellsAssumption
===============================================================================
