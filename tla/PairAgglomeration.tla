--------------------------- MODULE PairAgglomeration ---------------------------
(***************************************************************************)
(* The multigrid hierarchy of src/GAMG: cells are paired over the face     *)
(* with the largest weight, level by level and in alternating directions,  *)
(* the faces between clusters become the faces of the next level, and its  *)
(* matrix is the Galerkin product, built by adding up coefficients.        *)
(*                                                                         *)
(* A matrix is a record: n cells 0..n-1, the faces lower and upper, the    *)
(* diagonal diag and the symmetric coefficients coeff.  Coefficients are   *)
(* integers, so that sums are exact; weights closer than a relative 1e-10  *)
(* count as equal in the code and are equal here.                          *)
(***************************************************************************)
EXTENDS Integers, Sequences, FiniteSets, FiniteSetsExt

CONSTANTS
  Matrices,   \* the finest matrices considered
  Controls    \* GAMGControls: records [maxLevels, nCellsInCoarsestLevel]

CellsOf(m) == 0 .. m.n - 1
FacesOf(m) == 1 .. Len(m.lower)

\* the constructor of GAMGMatrix: upper-triangular, faces grouped by owner
IsMatrix(m) ==
  /\ m.n >= 1
  /\ Len(m.upper) = Len(m.lower) /\ Len(m.coeff) = Len(m.lower)
  /\ \A f \in FacesOf(m) :
       /\ 0 <= m.lower[f] /\ m.lower[f] < m.upper[f] /\ m.upper[f] < m.n
       /\ \A g \in FacesOf(m) : f < g => m.lower[f] <= m.lower[g]

\* the members of a GAMGMatrix
MatrixType(m) ==
  /\ m.n \in Nat
  /\ m.lower \in Seq(Nat) /\ m.upper \in Seq(Nat)
  /\ m.diag \in [CellsOf(m) -> Int] /\ m.coeff \in Seq(Int)

ASSUME MatricesAssumption == \A m \in Matrices : MatrixType(m) /\ IsMatrix(m)

VARIABLES
  controls,
  phase,          \* where the constructor of GAMGAgglomeration is
  matrices,       \* GAMGMatrixHierarchy; the last one is "current"
  levels,         \* levels_: fineToCoarse, faceToCoarse, faceFlip of each step
  faceWeights,    \* of the faces of the current matrix
  forward,        \* direction in which pairCells visits the cells
  visit,          \* cells visited so far
  coarseCellMap,  \* cluster of each cell of the current matrix, or -1
  nCoarseCells    \* clusters made so far

pairing == <<visit, coarseCellMap, nCoarseCells>>
hierarchy == <<matrices, levels, faceWeights>>
vars == <<controls, phase, hierarchy, forward, pairing>>

Current == matrices[Len(matrices)]

AtLeast(a, b) == IF a > b THEN a ELSE b
AtMost(a, b) == IF a < b THEN a ELSE b
Abs(x) == IF x < 0 THEN -x ELSE x

Init ==
  /\ controls \in Controls
  /\ phase = "called"
  /\ \E m \in Matrices :
       /\ matrices = <<m>>
       /\ faceWeights = [f \in FacesOf(m) |-> Abs(m.coeff[f])]
  /\ levels = <<>>
  /\ forward = TRUE
  /\ visit = 0
  /\ coarseCellMap = <<>>
  /\ nCoarseCells = 0

\* "GAMG maxLevels must be positive"
RejectControls ==
  /\ phase = "called"
  /\ controls.maxLevels < 1
  /\ phase' = "thrown"
  /\ UNCHANGED <<controls, hierarchy, forward, pairing>>

-----------------------------------------------------------------------------
(* pairCells *)

\* the next level is begun as long as maxLevels allows for one
BeginLevel ==
  /\ phase \in {"called", "level"}
  /\ Len(levels) < controls.maxLevels - 1
  /\ visit' = 0
  /\ coarseCellMap' = [c \in CellsOf(Current) |-> -1]
  /\ nCoarseCells' = 0
  /\ phase' = "pair"
  /\ UNCHANGED <<controls, hierarchy, forward>>

\* the i-th cell visited, counted from 0
Visited(i) == IF forward THEN i ELSE Current.n - i - 1

\* cellFaces[c]: the faces above which c lies, then those it owns
Ends(f) == {Current.lower[f], Current.upper[f]}
CellFaces(c) == {f \in FacesOf(Current) : c \in Ends(f)}
ListedBefore(c, f, g) ==
  IF (Current.upper[f] = c) = (Current.upper[g] = c)
    THEN f < g
    ELSE Current.upper[f] = c

\* the first of the heaviest faces of S, in the order of cellFaces[c]
Heaviest(c, S) ==
  CHOOSE f \in S : \A g \in S \ {f} :
    \/ faceWeights[f] > faceWeights[g]
    \/ faceWeights[f] = faceWeights[g] /\ ListedBefore(c, f, g)

\* faces whose two ends are both without a cluster
PairingFaces(c) == {f \in CellFaces(c) : \A e \in Ends(f) : coarseCellMap[e] < 0}

Visiting ==
  /\ phase = "pair"
  /\ visit < Current.n
  /\ visit' = visit + 1
  /\ UNCHANGED <<controls, phase, hierarchy, forward>>

\* the cell was paired before, or it has no face at all
PassOver ==
  LET cell == Visited(visit)
  IN  /\ Visiting
      /\ coarseCellMap[cell] >= 0 \/ CellFaces(cell) = {}
      /\ UNCHANGED <<coarseCellMap, nCoarseCells>>

Pair ==
  LET cell == Visited(visit)
      matchFace == Heaviest(cell, PairingFaces(cell))
  IN  /\ Visiting
      /\ coarseCellMap[cell] < 0
      /\ PairingFaces(cell) # {}
      /\ coarseCellMap' =
           [c \in DOMAIN coarseCellMap |->
              IF c \in Ends(matchFace) THEN nCoarseCells ELSE coarseCellMap[c]]
      /\ nCoarseCells' = nCoarseCells + 1

\* Mutant: std::min, so that the cell keeps waiting.
JoinClusterMin ==
  LET cell == Visited(visit)
      clusterFace == Heaviest(cell, CellFaces(cell))
  IN  /\ Visiting
      /\ coarseCellMap[cell] < 0
      /\ PairingFaces(cell) = {} /\ CellFaces(cell) # {}
      /\ coarseCellMap' = [coarseCellMap EXCEPT ![cell] =
           AtMost(coarseCellMap[Current.lower[clusterFace]],
                  coarseCellMap[Current.upper[clusterFace]])]
      /\ UNCHANGED nCoarseCells

\* all neighbours are taken: the cell joins the cluster on its heaviest face
JoinCluster ==
  LET cell == Visited(visit)
      clusterFace == Heaviest(cell, CellFaces(cell))
  IN  /\ Visiting
      /\ coarseCellMap[cell] < 0
      /\ PairingFaces(cell) = {} /\ CellFaces(cell) # {}
      /\ coarseCellMap' = [coarseCellMap EXCEPT ![cell] =
           AtLeast(coarseCellMap[Current.lower[clusterFace]],
                   coarseCellMap[Current.upper[clusterFace]])]
      /\ UNCHANGED nCoarseCells

\* The cells left over are numbered in the order of the visits; a backward
\* pass then reverses all numbers.
FinishPairing ==
  LET left == {c \in CellsOf(Current) : coarseCellMap[c] < 0}
      before(c) == {d \in left : IF forward THEN d < c ELSE d > c}
      total == nCoarseCells + Cardinality(left)
      number(c) == IF c \in left
                     THEN nCoarseCells + Cardinality(before(c))
                     ELSE coarseCellMap[c]
  IN  /\ phase = "pair"
      /\ visit = Current.n
      /\ coarseCellMap' = [c \in CellsOf(Current) |->
           IF forward THEN number(c) ELSE total - 1 - number(c)]
      /\ nCoarseCells' = total
      /\ forward' = ~forward
      /\ phase' = "coarsen"
      /\ UNCHANGED <<controls, hierarchy, visit>>

-----------------------------------------------------------------------------
(* makeCoarseAddressing and agglomerateMatrix *)

MappedLower(f) == coarseCellMap[Current.lower[f]]
MappedUpper(f) == coarseCellMap[Current.upper[f]]
CoarseOwner(f) == AtMost(MappedLower(f), MappedUpper(f))
CoarseNeighbour(f) == AtLeast(MappedLower(f), MappedUpper(f))

Crossing == {f \in FacesOf(Current) : MappedLower(f) # MappedUpper(f)}

SameCoarseEnds(f, g) ==
  CoarseOwner(f) = CoarseOwner(g) /\ CoarseNeighbour(f) = CoarseNeighbour(g)

\* the faces that meet a pair of clusters first
FirstOfCoarseFace ==
  {f \in Crossing : \A g \in Crossing : g < f => ~SameCoarseEnds(f, g)}

\* the final number of the coarse face that f is the first one of
CoarseFaceNumber(f) ==
  Cardinality({g \in FirstOfCoarseFace :
                 \/ CoarseOwner(g) < CoarseOwner(f)
                 \/ CoarseOwner(g) = CoarseOwner(f) /\ g < f})

\* coarse face, counted from 0, or -(cluster + 1) for a face inside a cluster
FaceToCoarse ==
  [f \in FacesOf(Current) |->
     IF f \in Crossing
       THEN CoarseFaceNumber(CHOOSE g \in FirstOfCoarseFace : SameCoarseEnds(f, g))
       ELSE -(MappedUpper(f) + 1)]

FaceFlip == [f \in FacesOf(Current) |-> f \in Crossing /\ CoarseOwner(f) = MappedUpper(f)]

CoarseAddressing ==
  LET face == [k \in 1 .. Cardinality(FirstOfCoarseFace) |->
                 CHOOSE f \in FirstOfCoarseFace : CoarseFaceNumber(f) = k - 1]
  IN  [lower |-> [k \in DOMAIN face |-> CoarseOwner(face[k])],
       upper |-> [k \in DOMAIN face |-> CoarseNeighbour(face[k])]]

\* the sum over the faces of one coarse face
Collected(value, map, coarseFace) ==
  MapThenSumSet(LAMBDA f : value[f], {f \in DOMAIN map : map[f] = coarseFace})

\* Mutant: a face inside a cluster is added to the diagonal once.
CoarseMatrixInnerOnce(map, addressing) ==
  [n |-> nCoarseCells, lower |-> addressing.lower, upper |-> addressing.upper,
   diag |-> [c \in 0 .. nCoarseCells - 1 |->
     Collected(Current.diag, coarseCellMap, c) + Collected(Current.coeff, map, -(c + 1))],
   coeff |-> [k \in DOMAIN addressing.lower |-> Collected(Current.coeff, map, k - 1)]]

\* agglomerateMatrix: the two coefficients of an inner face go to the diagonal
CoarseMatrix(map, addressing) ==
  [n |-> nCoarseCells, lower |-> addressing.lower, upper |-> addressing.upper,
   diag |-> [c \in 0 .. nCoarseCells - 1 |->
     Collected(Current.diag, coarseCellMap, c) + 2 * Collected(Current.coeff, map, -(c + 1))],
   coeff |-> [k \in DOMAIN addressing.lower |-> Collected(Current.coeff, map, k - 1)]]

CoarsestTarget ==
  AtLeast(1, AtMost(matrices[1].n \div 2, controls.nCellsInCoarsestLevel))

TooFewOrNoneSaved == nCoarseCells < CoarsestTarget \/ nCoarseCells >= Current.n

\* the clustering is dropped, and with it the loop
StopCoarsening ==
  /\ phase = "coarsen"
  /\ TooFewOrNoneSaved
  /\ phase' = "stop"
  /\ UNCHANGED <<controls, hierarchy, forward, pairing>>

\* The constructor of the coarse matrix never throws: see CoarseMatricesSound.
Coarsen ==
  LET map == FaceToCoarse
      addressing == CoarseAddressing
  IN  /\ phase = "coarsen"
      /\ ~TooFewOrNoneSaved
      /\ matrices' = Append(matrices, CoarseMatrix(map, addressing))
      /\ levels' = Append(levels, [fineToCoarse |-> coarseCellMap,
                                   faceToCoarse |-> map,
                                   faceFlip |-> FaceFlip])
      /\ faceWeights' =
           [k \in DOMAIN addressing.lower |-> Collected(faceWeights, map, k - 1)]
      /\ phase' = "level"
      /\ UNCHANGED <<controls, forward, pairing>>

LoopEnds ==
  \/ phase = "stop"
  \/ phase \in {"called", "level"}
     /\ controls.maxLevels >= 1 /\ Len(levels) >= controls.maxLevels - 1

Finish ==
  /\ LoopEnds
  /\ levels # <<>>
  /\ phase' = "built"
  /\ UNCHANGED <<controls, hierarchy, forward, pairing>>

\* "GAMG pair agglomeration produced no coarse level"
NoCoarseLevel ==
  /\ LoopEnds
  /\ levels = <<>>
  /\ phase' = "thrown"
  /\ UNCHANGED <<controls, hierarchy, forward, pairing>>

Next ==
  \/ RejectControls \/ BeginLevel
  \/ PassOver \/ Pair \/ JoinCluster \/ FinishPairing
  \/ StopCoarsening \/ Coarsen \/ Finish \/ NoCoarseLevel

Spec == Init /\ [][Next]_vars
-----------------------------------------------------------------------------
TypeOK ==
  /\ controls \in Controls
  /\ phase \in {"called", "level", "pair", "coarsen", "stop", "built", "thrown"}
  /\ Len(matrices) = Len(levels) + 1
  /\ Len(faceWeights) = Len(Current.lower)
  /\ forward \in BOOLEAN
  /\ phase \in {"pair", "coarsen"} =>
       /\ visit \in 0 .. Current.n
       /\ nCoarseCells \in 0 .. Current.n
       /\ coarseCellMap \in [CellsOf(Current) -> -1 .. nCoarseCells - 1]

\* the level Coarsen has just made, between the matrices fine and Current
Made == levels[Len(levels)]
Fine == matrices[Len(levels)]

\* no part of S is without a face to the rest
Connected(m, S) ==
  \A part \in (SUBSET S) \ {{}, S} :
    \E f \in FacesOf(m) :
      /\ m.lower[f] \in S /\ m.upper[f] \in S
      /\ (m.lower[f] \in part) # (m.upper[f] \in part)

Isolated(m) ==
  {c \in CellsOf(m) : \A f \in FacesOf(m) : c # m.lower[f] /\ c # m.upper[f]}

\* Every coarse cell is a connected cluster of fine cells, and in either
\* direction a level at least halves the cells that have a face: a cell whose
\* neighbours were all taken joins one of them instead of staying alone.
ClustersSound ==
  phase = "level" =>
    /\ \A coarseCell \in CellsOf(Current) :
         LET cluster == {c \in CellsOf(Fine) : Made.fineToCoarse[c] = coarseCell}
         IN  cluster # {} /\ Connected(Fine, cluster)
    /\ 2 * Current.n <= Fine.n + Cardinality(Isolated(Fine))

\* What the constructor of GAMGMatrix demands holds of every coarse matrix,
\* however the clusters are numbered; no two faces join the same coarse cells,
\* which solveCoarsest takes for granted; and the face maps lead from the ends
\* of a fine face to the ends of its coarse face, turned round where flipped.
CoarseMatricesSound ==
  phase = "level" =>
    /\ IsMatrix(Current)
    /\ \A F, G \in FacesOf(Current) :
         F # G => <<Current.lower[F], Current.upper[F]>> # <<Current.lower[G], Current.upper[G]>>
    /\ \A f \in FacesOf(Fine) :
         LET owner == Made.fineToCoarse[Fine.lower[f]]
             neighbour == Made.fineToCoarse[Fine.upper[f]]
             F == Made.faceToCoarse[f] + 1
         IN  IF owner = neighbour
               THEN F = -owner
               ELSE /\ F \in FacesOf(Current)
                    /\ <<Current.lower[F], Current.upper[F]>> =
                         IF Made.faceFlip[f] THEN <<neighbour, owner>>
                                             ELSE <<owner, neighbour>>

\* The bookkeeping is typed at every step, and its outcome are clusters and a
\* matrix that the next level, or the solver, can start from.
LevelsSound == TypeOK /\ ClustersSound /\ CoarseMatricesSound

\* the cell of matrices[k + 1] that holds a cell of the finest matrix
Holder ==
  LET at[k \in 0 .. Len(levels)] ==
        [c \in CellsOf(matrices[1]) |->
           IF k = 0 THEN c ELSE levels[k].fineToCoarse[at[k - 1][c]]]
  IN  at[Len(levels)]

\* the faces of the finest matrix between two sets of its cells
Between(A, B) ==
  LET m == matrices[1]
  IN  {f \in FacesOf(m) : \/ m.lower[f] \in A /\ m.upper[f] \in B
                          \/ m.lower[f] \in B /\ m.upper[f] \in A}

SumOver(value(_), S) == MapThenSumSet(value, S)

\* Over all levels the matrix is the Galerkin product of the finest one: the
\* entry of two coarse cells is the sum of the entries between the finest cells
\* they hold.  The weights of its faces are sums of absolute values instead, so
\* that coefficients of opposite sign do not cancel.
Galerkin ==
  phase = "level" =>
    LET finest == matrices[1]
        holder == Holder
        held(c) == {d \in CellsOf(finest) : holder[d] = c}
        coeff(f) == finest.coeff[f]
    IN  /\ \A c \in CellsOf(Current) :
             Current.diag[c] = SumOver(LAMBDA d : finest.diag[d], held(c))
                                 + 2 * SumOver(coeff, Between(held(c), held(c)))
        /\ \A F \in FacesOf(Current) :
             LET faces == Between(held(Current.lower[F]), held(Current.upper[F]))
             IN  /\ Current.coeff[F] = SumOver(coeff, faces)
                 /\ faceWeights[F] = SumOver(LAMBDA f : Abs(finest.coeff[f]), faces)
        /\ \A c, d \in CellsOf(Current) :
             c < d /\ Between(held(c), held(d)) # {} =>
               \E F \in FacesOf(Current) :
                 Current.lower[F] = c /\ Current.upper[F] = d
================================================================================
