------------------------------ MODULE SerialSweep ------------------------------
(***************************************************************************)
(* The smoothers that run in one thread: the reference smoothers, which    *)
(* scatter lower contributions into bPrime, and the kernels that gather    *)
(* them from packed rows: plain, compressed, interleaved, prefetching, in  *)
(* wavefront numbering or with vector instructions.                        *)
(*                                                                         *)
(* A value of psi is represented by the half-sweeps that have written it   *)
(* (a sweep, or the forward or backward half of a symmetric one).          *)
(* computed lists, for each cell updated last, the contributions that were *)
(* subtracted from the source, in that order, each with the value it read. *)
(* Two smoothers that agree on these lists give the same bits.             *)
(***************************************************************************)
EXTENDS PackedRows

CONSTANTS
  Matrices,   \* records [mesh, levels, x]: addressing, level and place of each cell
  Calls,      \* records [kernel, arrangement, nSweeps, rowDistance]
  Widths      \* limits of the integer types, see PackedRows

\* The mesh reader accepts no other faces: the owners are sorted.
GroupedByOwner(m) == \A f, g \in Faces(m) : f < g => m.lower[f] <= m.lower[g]

ASSUME MatricesAssumption ==
  \A x \in Matrices :
    /\ x.mesh \in Meshes
    /\ x.levels \in [Cells -> Nat]
    /\ Range(x.levels) = 0 .. Cardinality(Range(x.levels)) - 1
    /\ x.x \in [Cells -> Int]
    /\ \A f \in Faces(x.mesh) : x.levels[x.mesh.lower[f]] < x.levels[x.mesh.upper[f]]
    /\ UpperTriangular(x.mesh) /\ GroupedByOwner(x.mesh)

-----------------------------------------------------------------------------
(* The kernels, by what distinguishes them.                                *)
(*   rows      what a row is read from: "wavefront" or "lexicographic"     *)
(*             packed rows, or the matrix itself ("scatter")               *)
(*   columns   "plain", "int16", "delta" or "uint24"                       *)
(*   begin     where a row begins: at rowStarts[row], or at the "cursor"   *)
(*             that the rows before it have moved by their degrees         *)
(*   coeffs    "packed" with the row or "live" from the matrix             *)
(*   lower     lower contributions come from "psi" or from "edges"         *)
(*   group     rows gathered before the first of them is written: one,     *)
(*             "full" groups of lanes rows and then single ones, "partial" *)
(*             groups too, or "degree6", groups of rows of six entries     *)
(*   sums      lanes that add up the products of one row                   *)
(*   symmetric every sweep is a forward and a backward half                *)
(*   reordered psi is kept in row order between first and last sweep       *)
(*   simd      instructions the processor may lack; fallback: then taken   *)

Gather ==
  [rows |-> "wavefront", columns |-> "plain", begin |-> "rowStarts",
   coeffs |-> "packed", lower |-> "psi", group |-> "single", lanes |-> 1, sums |-> 1,
   symmetric |-> FALSE, reordered |-> FALSE, prefetch |-> FALSE,
   simd |-> FALSE, fallback |-> "none"]

GaussSeidel == [Gather EXCEPT !.rows = "scatter"]
SymGaussSeidel == [GaussSeidel EXCEPT !.symmetric = TRUE]
LexicographicPacked == [Gather EXCEPT !.rows = "lexicographic"]
SymmetricGather == [Gather EXCEPT !.symmetric = TRUE]
GatherPrefetch == [Gather EXCEPT !.prefetch = TRUE]
GatherFirstPsiPrefetch == GatherPrefetch
GatherInterleavedRows == [Gather EXCEPT !.group = "full", !.lanes = 4]
GatherDegree6 == Gather
GatherDegree6InterleavedRows == [Gather EXCEPT !.group = "degree6", !.lanes = 4]
WholeRowInt16 == [Gather EXCEPT !.columns = "int16"]
DeltaEscapeInt16 == [Gather EXCEPT !.columns = "delta"]
PackedUint24 == [Gather EXCEPT !.columns = "uint24"]
RowDegree == [Gather EXCEPT !.begin = "cursor"]
RowDegreeUnrolled8 == [RowDegree EXCEPT !.group = "full", !.lanes = 8]
DirectCoefficient == [RowDegree EXCEPT !.coeffs = "live"]
SerialHybrid == [Gather EXCEPT !.lower = "edges"]
ReorderedPsi == [Gather EXCEPT !.reordered = TRUE]
GatherAvx2 == [Gather EXCEPT !.sums = 4, !.simd = TRUE, !.fallback = "gather"]
GatherAvx2AcrossRows ==
  [Gather EXCEPT !.group = "partial", !.lanes = 4, !.simd = TRUE, !.fallback = "gather"]
GatherAvx512 == [Gather EXCEPT !.sums = 8, !.simd = TRUE, !.fallback = "gather"]
GatherAvx512AcrossRows ==
  [Gather EXCEPT !.group = "partial", !.lanes = 8, !.simd = TRUE, !.fallback = "gather"]
RowDegreeAvx512Divide ==
  [RowDegreeUnrolled8 EXCEPT !.simd = TRUE, !.fallback = "rowDegree"]

Kernels ==
  {Gather, GaussSeidel, SymGaussSeidel, LexicographicPacked, SymmetricGather,
   GatherPrefetch, GatherInterleavedRows, GatherDegree6InterleavedRows,
   WholeRowInt16, DeltaEscapeInt16, PackedUint24, RowDegree, RowDegreeUnrolled8,
   DirectCoefficient, SerialHybrid, ReorderedPsi, GatherAvx2,
   GatherAvx2AcrossRows, GatherAvx512, GatherAvx512AcrossRows,
   RowDegreeAvx512Divide}

\* Rows that makeXSortedSchedule and its like rearrange have no localCols and
\* no incomingCounts, so the registry gives them to plain gathers only.
ASSUME CallsAssumption ==
  \A call \in Calls :
    /\ call.kernel \in Kernels
    /\ call.arrangement \in {"cells", "xSorted", "median", "locality"}
    /\ call.arrangement # "cells" => call.kernel = Gather
    /\ call.nSweeps \in Nat /\ call.rowDistance \in Nat

ASSUME WidthsAssumption ==
  \A w \in Widths :
    /\ w.int16Min \in Int /\ w.int16Max \in Nat /\ w.int16Min < 0
    /\ w.byteSize \in Nat \ {0} /\ w.maxDegree \in Nat

-----------------------------------------------------------------------------
VARIABLES
  matrix, call, width,   \* arguments
  kernel,                \* the kernel that does the work, after fallbacks
  stage,                 \* "build", "rejected", "sweep", "done"
  packed,                \* the schedule, empty before it is built
  half, row, cursor,     \* half-sweeps done, next row, cursor
  psi, reorderedPsi,     \* per cell, per row: half-sweeps that have written it
  edgeValues, bPrime,    \* per face: the same; per cell: what was subtracted
  computed               \* per cell of the last group: see above

input == <<matrix, call, width>>
memory == <<psi, reorderedPsi, edgeValues, bPrime, computed>>
serialVars == <<input, kernel, stage, packed, half, row, cursor, memory>>

ldu == matrix.mesh
levels == matrix.levels

SerialInit ==
  /\ matrix \in Matrices /\ call \in Calls /\ width \in Widths
  /\ kernel = call.kernel
  /\ stage = "build" /\ packed = <<>>
  /\ half = 0 /\ row = 0 /\ cursor = 0
  /\ psi = [c \in Cells |-> 0]
  /\ reorderedPsi = [r \in Cells |-> 0]
  /\ edgeValues = [f \in Faces(matrix.mesh) |-> 0]
  /\ bPrime = [c \in Cells |-> <<>>]
  /\ computed = <<>>

\* The processor lacks the instructions, or there is no sweep between the
\* first and the last: a kernel that needs none takes over.
FallBack ==
  /\ stage = "build"
  /\ \/ kernel.simd /\ kernel' = IF kernel.fallback = "gather" THEN Gather ELSE RowDegree
     \/ kernel.reordered /\ call.nSweeps <= 1 /\ kernel' = Gather
  /\ UNCHANGED <<input, stage, packed, half, row, cursor, memory>>

-----------------------------------------------------------------------------
(* Building the schedule. *)

Key ==
  CASE call.arrangement = "xSorted"  -> matrix.x
    [] call.arrangement = "median"   -> MedianKey(ldu)
    [] call.arrangement = "locality" -> MeanKey(ldu)
    [] OTHER                         -> [c \in Cells |-> c]

WaveCells(key) ==
  IF kernel.rows = "wavefront" THEN RowOrder(levels, key) ELSE [r \in 1 .. NCells |-> r - 1]

RowEntries(c) ==
  CASE kernel.rows = "lexicographic"   -> LexicographicRow(ldu, c)
    [] kernel.rows = "scatter"         -> Outgoing(ldu, c)
    [] call.arrangement = "locality"   -> SortedByColumn(WavefrontRow(ldu, c))
    [] OTHER                           -> WavefrontRow(ldu, c)

Encoded(c) ==
  LET cols == Columns(RowEntries(c))
  IN  CASE kernel.columns = "int16"  -> EncodeInt16(width, c, cols)
        [] kernel.columns = "delta"  -> EncodeDelta(width, cols)
        [] kernel.columns = "uint24" -> EncodeUint24(width, cols)
        [] OTHER                     -> cols

\* what the encodings cannot hold: the builders throw
Representable ==
  \A c \in Cells :
    /\ kernel.begin = "cursor" => Len(RowEntries(c)) <= width.maxDegree
    /\ kernel.columns = "uint24" =>
         \A i \in DOMAIN RowEntries(c) : FitsUint24(width, RowEntries(c)[i].col)

Build ==
  /\ stage = "build"
  /\ kernel.reordered => call.nSweeps > 1
  /\ \/ ~Representable /\ stage' = "rejected" /\ UNCHANGED packed
     \/ /\ Representable
        /\ stage' = "sweep"
        /\ \E key \in {Key} : \E order \in {WaveCells(key)} :
           \E rows \in {[r \in 1 .. NCells |-> RowEntries(order[r])]} :
             packed' =
               [waveCells |-> order,
                levelStarts |-> LevelStarts(levels),
                rowStarts |-> RowStarts(rows),
                entries |-> Joined(rows),
                columns |-> [r \in 1 .. NCells |-> Encoded(order[r])],
                incomingCounts |->
                  [r \in 1 .. NCells |-> Cardinality(IncomingFaces(ldu, order[r]))],
                cellToRow |-> [c \in Cells |-> (CHOOSE r \in 1 .. NCells : order[r] = c) - 1]]
  /\ UNCHANGED <<input, kernel, half, row, cursor, memory>>

-----------------------------------------------------------------------------
(* Rows. *)

\* a contribution together with the value of psi it is multiplied by
Reading(e, value) == [face |-> e.face, side |-> e.side, col |-> e.col, value |-> value]

NHalves == IF kernel.symmetric THEN 2 * call.nSweeps ELSE call.nSweeps
Backward == kernel.symmetric /\ half % 2 = 1

CellOf(r) == packed.waveCells[r + 1]
Degree(r) == packed.rowStarts[r + 2] - packed.rowStarts[r + 1]

\* end of the level of row r; lexicographic rows are not cut into levels
LevelEnd(r) ==
  LET ends == {l \in DOMAIN packed.levelStarts : packed.levelStarts[l] > r}
  IN  packed.levelStarts[CHOOSE l \in ends : \A k \in ends : l <= k]

\* Mutant: a group of four may reach into the next level.
GroupSizeAcross ==
  LET left == NCells - row
      uniform == left >= kernel.lanes /\ \A r \in row .. row + kernel.lanes - 1 : Degree(r) = 6
  IN  CASE kernel.group = "full"    -> IF left >= kernel.lanes THEN kernel.lanes ELSE 1
        [] kernel.group = "partial" -> AtMost(kernel.lanes, left)
        [] kernel.group = "degree6" -> IF uniform THEN kernel.lanes ELSE 1
        [] OTHER                    -> 1

\* how many rows are gathered before the first of them is written
GroupSize ==
  LET left == LevelEnd(row) - row
      uniform == left >= kernel.lanes /\ \A r \in row .. row + kernel.lanes - 1 : Degree(r) = 6
  IN  CASE kernel.group = "full"    -> IF left >= kernel.lanes THEN kernel.lanes ELSE 1
        [] kernel.group = "partial" -> AtMost(kernel.lanes, left)
        [] kernel.group = "degree6" -> IF uniform THEN kernel.lanes ELSE 1
        [] OTHER                    -> 1

\* the first entry of row r of the group that starts at row
Begin(r) ==
  IF kernel.begin = "cursor"
    THEN cursor + packed.rowStarts[r + 1] - packed.rowStarts[row + 1]
    ELSE packed.rowStarts[r + 1]

DecodedColumns(r) ==
  LET e == packed.columns[r + 1]
  IN  CASE kernel.columns = "int16"  -> DecodeInt16(CellOf(r), e, Degree(r))
        [] kernel.columns = "delta"  -> DecodeDelta(width, e, Degree(r))
        [] kernel.columns = "uint24" -> DecodeUint24(width, e)
        [] OTHER -> [i \in 1 .. Degree(r) |-> packed.entries[Begin(r) + i].col]

\* serialReorderedPsiSmooth: the i-th contribution of row r is read in row
\* numbering.  The first sweep reads upper neighbours, the last one lower
\* neighbours in cell numbering.
InRowOrder(i, r) ==
  /\ kernel.reordered
  /\ half = 0 => i <= packed.incomingCounts[r + 1]
  /\ half = NHalves - 1 /\ half > 0 => i > packed.incomingCounts[r + 1]

\* the i-th contribution of row r: coefficient, column and the value read
Term(r, i) ==
  LET entry == packed.entries[Begin(r) + i]
      col == DecodedColumns(r)[i]
      side == IF kernel.coeffs = "packed" THEN entry.side
              ELSE IF i <= packed.incomingCounts[r + 1] THEN "lower" ELSE "upper"
      fromEdge == kernel.lower = "edges" /\ i <= packed.incomingCounts[r + 1]
  IN  [face |-> entry.face, side |-> side, col |-> col,
       value |-> IF fromEdge THEN edgeValues[entry.face]
                 ELSE IF InRowOrder(i, r) THEN reorderedPsi[packed.cellToRow[col]]
                 ELSE psi[col]]

\* the products of a row are added up in kernel.sums lanes, then the lanes
InLanes(terms) ==
  LET Earlier(i, j) ==
        \/ (i - 1) % kernel.sums < (j - 1) % kernel.sums
        \/ (i - 1) % kernel.sums = (j - 1) % kernel.sums /\ i < j
      order == Arrange(DOMAIN terms, Earlier)
  IN  IF kernel.sums = 1 THEN terms ELSE [i \in DOMAIN terms |-> terms[order[i]]]

\* what row r subtracts; a scattering smoother finds the lower part in bPrime
Subtracted(r) ==
  LET terms == InLanes([i \in 1 .. Degree(r) |-> Term(r, i)])
  IN  IF kernel.rows = "scatter" THEN bPrime[CellOf(r)] \o terms ELSE terms

-----------------------------------------------------------------------------
(* Sweeps. *)

Rows == row .. (IF Backward THEN row ELSE row + GroupSize - 1)
Done == IF Backward THEN row < 0 ELSE row = NCells

\* rows whose neighbours are fetched ahead, and the row they belong to
PrefetchEnd == IF NCells > call.rowDistance THEN NCells - call.rowDistance ELSE 0
FutureRow == row + call.rowDistance

\* Mutant: the last sweep stays in row numbering.
ToReorderedAlways == kernel.reordered

\* serialReorderedPsiSmooth writes psi in the last sweep only
ToReordered == kernel.reordered /\ half < NHalves - 1

\* bPrime of c after the updates of the cells in done
Scattered(c, done) ==
  LET faces == Ascending({f \in IncomingFaces(ldu, c) : ldu.lower[f] \in done})
  IN  bPrime[c] \o [i \in DOMAIN faces |-> Reading(FromOwner(ldu, faces[i]), half + 1)]

\* the rows of a group are computed, then written
UpdateRows ==
  /\ stage = "sweep" /\ half < NHalves /\ ~Done
  /\ \E group \in {Rows} : \E done \in {{CellOf(r) : r \in group}} :
       /\ computed' = [c \in done |-> Subtracted(packed.cellToRow[c])]
       /\ psi' = [c \in Cells |-> IF c \in done /\ ~ToReordered THEN half + 1 ELSE psi[c]]
       /\ reorderedPsi' =
            [r \in Cells |-> IF r \in group /\ ToReordered THEN half + 1 ELSE reorderedPsi[r]]
       /\ edgeValues' = [f \in Faces(ldu) |->
            IF kernel.lower = "edges" /\ ldu.lower[f] \in done THEN half + 1 ELSE edgeValues[f]]
       /\ bPrime' = IF kernel.rows = "scatter"
                      THEN [c \in Cells |-> Scattered(c, done)] ELSE bPrime
       /\ row' = IF Backward THEN row - 1 ELSE row + Cardinality(group)
       /\ cursor' = IF kernel.begin = "cursor"
                      THEN cursor + SumFunctionOnSet([r \in group |-> Degree(r)], group) ELSE 0
  /\ UNCHANGED <<input, kernel, stage, packed, half>>

\* Mutant: the cursor is not reset.
EndSweepKeepingCursor ==
  /\ stage = "sweep" /\ half < NHalves /\ Done
  /\ half' = half + 1
  /\ row' = IF kernel.symmetric /\ half' % 2 = 1 THEN NCells - 1 ELSE 0
  /\ bPrime' = IF Backward \/ ~kernel.symmetric THEN [c \in Cells |-> <<>>] ELSE bPrime
  /\ computed' = <<>>
  /\ UNCHANGED <<input, kernel, stage, packed, cursor, psi, reorderedPsi, edgeValues>>

\* the end of a half-sweep; bPrime = source at the start of the next sweep
EndSweep ==
  /\ stage = "sweep" /\ half < NHalves /\ Done
  /\ half' = half + 1
  /\ row' = IF kernel.symmetric /\ half' % 2 = 1 THEN NCells - 1 ELSE 0
  /\ cursor' = 0
  /\ bPrime' = IF Backward \/ ~kernel.symmetric THEN [c \in Cells |-> <<>>] ELSE bPrime
  /\ computed' = <<>>
  /\ UNCHANGED <<input, kernel, stage, packed, psi, reorderedPsi, edgeValues>>

ReturnPsi ==
  /\ stage = "sweep" /\ half = NHalves
  /\ stage' = "done"
  /\ UNCHANGED <<input, kernel, packed, half, row, cursor, memory>>

SerialNext == FallBack \/ Build \/ UpdateRows \/ EndSweep \/ ReturnPsi

SerialSpec == SerialInit /\ [][SerialNext]_serialVars
-----------------------------------------------------------------------------
(* Properties. *)

Sweeping == stage = "sweep" /\ half < NHalves /\ ~Done

\* Variables have their types, and the next row lies inside the arrays: the
\* entries of the rows read together, and the row fetched ahead.
InBounds ==
  /\ stage \in {"build", "rejected", "sweep", "done"}
  /\ kernel \in Kernels
  /\ half \in 0 .. NHalves /\ row \in -1 .. NCells
  /\ psi \in [Cells -> 0 .. NHalves] /\ reorderedPsi \in [Cells -> 0 .. NHalves]
  /\ edgeValues \in [Faces(ldu) -> 0 .. NHalves]
  /\ Sweeping =>
       /\ Rows \subseteq Cells
       /\ \A r \in Rows : Begin(r) + Degree(r) <= Len(packed.entries)
       /\ kernel.prefetch /\ row < PrefetchEnd => FutureRow \in Cells

\* The v-th update of cell c by lexicographic Gauss-Seidel: lower neighbours
\* first, in the order of the faces.  A forward half reads new values below
\* and old ones above, a backward half the other way round.
ReferenceTerms(c, v) ==
  LET back == kernel.symmetric /\ v % 2 = 0
      row0 == WavefrontRow(ldu, c)
  IN  [i \in DOMAIN row0 |->
        Reading(row0[i], IF (row0[i].side = "lower") = back THEN v - 1 ELSE v)]

\* Every update of every kernel subtracts the contributions of the reference
\* smoother with the values of the reference smoother; also in its order,
\* unless the kernel adds them up in lanes or has them sorted by column.
\* (docs/HARNESS_REFACTOR.md 29-32: exact equality or a tolerance)
SameArithmetic ==
  \A c \in DOMAIN computed :
      LET reference == ReferenceTerms(c, half + 1)
      IN  IF kernel.sums = 1 /\ call.arrangement # "locality"
            THEN computed[c] = reference
            ELSE /\ Len(computed[c]) = Len(reference)
                 /\ Range(computed[c]) = Range(reference)

\* When a call returns, psi holds the value of the last sweep in every cell,
\* whatever numbering and whatever instructions were used on the way.
ResultInPsi == stage = "done" => \A c \in Cells : psi[c] = NHalves
===============================================================================
