------------------------------ MODULE PackedRows ------------------------------
(***************************************************************************)
(* The rows of a matrix packed for the serial smoothers, and the forms in  *)
(* which the columns of a row are compressed.  A contribution of a row is  *)
(* a record [face, side, col]: coefficient lower[face] or upper[face]      *)
(* times psi[col].  An array of the code that a "...Starts" index cuts     *)
(* into rows is a sequence with one element per row; contributions are     *)
(* one array, since some kernels walk through it with their own cursor.    *)
(***************************************************************************)
EXTENDS LduAddressing

\* the elements of S in the strict total order Before
Arrange(S, Before(_, _)) ==
  [i \in 1 .. Cardinality(S) |->
     CHOOSE x \in S : Cardinality({y \in S : Before(y, x)}) = i - 1]

\* concatenation of a sequence of rows, and the place where each row starts
RowStarts(rows) ==
  LET start[r \in 0 .. Len(rows)] ==
        IF r = 0 THEN 0 ELSE start[r - 1] + Len(rows[r])
  IN  [r \in 1 .. Len(rows) + 1 |-> start[r - 1]]

Joined(rows) ==
  LET joined[r \in 0 .. Len(rows)] ==
        IF r = 0 THEN <<>> ELSE joined[r - 1] \o rows[r]
  IN  joined[Len(rows)]

-----------------------------------------------------------------------------
(* The contributions of a row. *)

FromOwner(m, f) == [face |-> f, side |-> "lower", col |-> m.lower[f]]
FromNeighbour(m, f) == [face |-> f, side |-> "upper", col |-> m.upper[f]]

Outgoing(m, c) ==
  LET faces == Ascending(OwnedFaces(m, {c}))
  IN  [i \in DOMAIN faces |-> FromNeighbour(m, faces[i])]

\* makeWavefrontSchedule, makeDirectCoefficientSchedule: faces in their order
WavefrontRow(m, c) ==
  LET faces == Ascending(IncomingFaces(m, c))
  IN  [i \in DOMAIN faces |-> FromOwner(m, faces[i])] \o Outgoing(m, c)

\* makeLexicographicPackedSchedule: the owners, in turn, append their faces
LexicographicRow(m, c) ==
  LET Earlier(f, g) == m.lower[f] < m.lower[g] \/ (m.lower[f] = m.lower[g] /\ f < g)
      faces == Arrange(IncomingFaces(m, c), Earlier)
  IN  [i \in DOMAIN faces |-> FromOwner(m, faces[i])] \o Outgoing(m, c)

\* reorderRows with reorderContributions: stable sort by column
SortedByColumn(row) ==
  LET Earlier(i, j) == row[i].col < row[j].col \/ (row[i].col = row[j].col /\ i < j)
      order == Arrange(DOMAIN row, Earlier)
  IN  [i \in DOMAIN row |-> row[order[i]]]

-----------------------------------------------------------------------------
(* The order of the rows: level by level, within a level by a key. *)

CellsBelow(levels, l) == {c \in Cells : levels[c] < l}

LevelStarts(levels) ==
  [l \in 1 .. Cardinality(Range(levels)) + 1 |-> Cardinality(CellsBelow(levels, l - 1))]

RowOrder(levels, key) ==
  LET Earlier(c, d) ==
        \/ levels[c] < levels[d]
        \/ levels[c] = levels[d] /\ key[c] < key[d]
        \/ levels[c] = levels[d] /\ key[c] = key[d] /\ c < d
  IN  Arrange(Cells, Earlier)

Columns(row) == [i \in DOMAIN row |-> row[i].col]

\* makeMedianRowSchedule: twice the median of the columns
MedianKey(m) ==
  [c \in Cells |->
     LET cols == Columns(SortedByColumn(WavefrontRow(m, c)))
         middle == Len(cols) \div 2
     IN  IF cols = <<>> THEN 2 * c
         ELSE IF Len(cols) % 2 = 1 THEN 2 * cols[middle + 1]
         ELSE cols[middle] + cols[middle + 1]]

\* makeLocalitySchedule: the mean of the columns, rounded down
MeanKey(m) ==
  [c \in Cells |->
     LET row == WavefrontRow(m, c)
     IN  IF row = <<>> THEN c
         ELSE SumFunctionOnSet(Columns(row), DOMAIN row) \div Len(row)]

-----------------------------------------------------------------------------
(* Compressed columns.  w holds the limits of the integer types: int16Min, *)
(* int16Max, byteSize (values of a byte), maxDegree (largest uint8_t).     *)

\* makeWholeRowInt16Schedule: offsets from the row's own cell if all fit
Int16Fits(w, cell, cols) ==
  \A i \in DOMAIN cols : cols[i] - cell \in w.int16Min .. w.int16Max

EncodeInt16(w, cell, cols) ==
  IF Int16Fits(w, cell, cols)
    THEN [compact |-> TRUE, offsets |-> [i \in DOMAIN cols |-> cols[i] - cell], fallbackCols |-> <<>>]
    ELSE [compact |-> FALSE, offsets |-> <<>>, fallbackCols |-> cols]

\* serialWholeRowInt16Smooth
DecodeInt16(cell, e, degree) ==
  [i \in 1 .. degree |-> IF e.compact THEN cell + e.offsets[i] ELSE e.fallbackCols[i]]

\* the least int16_t is not a delta but the mark of an escape
FitsDelta(w, delta) == w.int16Min < delta /\ delta <= w.int16Max

\* makeDeltaEscapeInt16Schedule: differences of neighbouring columns, or the
\* mark and the column itself
EncodeDelta(w, cols) ==
  LET Fits(i) == FitsDelta(w, cols[i] - cols[i - 1])
      escapes == Ascending({i \in 2 .. Len(cols) : ~Fits(i)})
  IN  [firstCol |-> IF cols = <<>> THEN 0 ELSE cols[1],
       deltas |-> [k \in 1 .. Len(cols) - 1 |->
                     IF Fits(k + 1) THEN cols[k + 1] - cols[k] ELSE w.int16Min],
       escapeCols |-> [k \in DOMAIN escapes |-> cols[escapes[k]]]]

\* serialDeltaEscapeInt16Smooth: the column and the escapes used so far
DecodeDelta(w, e, degree) ==
  LET seen[i \in 1 .. degree] ==
        IF i = 1 THEN [col |-> e.firstCol, escapes |-> 0]
        ELSE IF e.deltas[i - 1] = w.int16Min
          THEN [col |-> e.escapeCols[seen[i - 1].escapes + 1],
                escapes |-> seen[i - 1].escapes + 1]
          ELSE [seen[i - 1] EXCEPT !.col = @ + e.deltas[i - 1]]
  IN  [i \in 1 .. degree |-> seen[i].col]

\* makePackedUint24Schedule: three bytes, the lowest first
FitsUint24(w, col) == col < w.byteSize * w.byteSize * w.byteSize

EncodeUint24(w, cols) ==
  [i \in DOMAIN cols |->
     << cols[i] % w.byteSize,
        (cols[i] \div w.byteSize) % w.byteSize,
        (cols[i] \div (w.byteSize * w.byteSize)) % w.byteSize >>]

\* serialPackedUint24Smooth
DecodeUint24(w, e) ==
  [i \in DOMAIN e |-> e[i][1] + w.byteSize * e[i][2] + w.byteSize * w.byteSize * e[i][3]]
===============================================================================
