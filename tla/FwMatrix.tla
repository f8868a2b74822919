------------------------------- MODULE FwMatrix -------------------------------
(***************************************************************************)
(* fwgamg::Matrix: a symmetric matrix whose rows are permuted into forward *)
(* order, each packed as incoming entries (columns before the row) and     *)
(* then outgoing ones, with views of its edges for the products, and the   *)
(* kernels of fwMatrix.C on it.                                            *)
(*                                                                         *)
(* The order comes from one of the Index-Kahn builders, or is the natural  *)
(* one.  Of the builders only the promise proved in IndexKahnProofs is     *)
(* used: an owner comes before its neighbours (module WavefrontOrdering).  *)
(***************************************************************************)
EXTENDS MultigridKernels

NaturalOrder(native) == Upwards(native.n)

\* the numbers of S from the least to the greatest
Ascending(S) ==
  [i \in 1 .. Cardinality(S) |-> CHOOSE x \in S : Cardinality({y \in S : y < x}) = i - 1]

\* ownerStarts: the faces of an owner follow each other
OwnerRange(native, c) ==
  LET start == Cardinality({f \in 1 .. Len(native.lower) : native.lower[f] < c})
  IN  [i \in 1 .. Cardinality(OwnedBy(native, c)) |-> start + i]

\* sequences of all cells in which the owner of a face comes before its neighbour
ForwardOrders(native) ==
  LET owners == [c \in Index(native) |->
                   {native.lower[f] : f \in {g \in 1 .. Len(native.lower) : native.upper[g] = c}}]
      next(order) == {c \in Index(native) \ ToSet(order) : owners[c] \subseteq ToSet(order)}
      orders[k \in 0 .. native.n] ==
        IF k = 0 THEN {<<>>}
        ELSE UNION {{Append(order, c) : c \in next(order)} : order \in orders[k - 1]}
  IN  orders[native.n]

\* buildWithOrdering; entries are records of column, native face, coefficient
Pack(native, order) ==
  LET rowOf == [c \in Index(native) |-> (CHOOSE i \in DOMAIN order : order[i] = c) - 1]
      entries(faces, end) ==
        [i \in DOMAIN faces |-> [col |-> rowOf[end[faces[i]]], face |-> faces[i],
                                 coeff |-> native.coeff[faces[i]]]]
      facesInto(c) == Ascending({f \in 1 .. Len(native.lower) : native.upper[f] = c})
  IN  [n |-> native.n,
       newToOld |-> [row \in Index(native) |-> order[row + 1]],
       oldToNew |-> rowOf,
       diag |-> [row \in Index(native) |-> native.diag[order[row + 1]]],
       incoming |-> [row \in Index(native) |->
                       entries(facesInto(order[row + 1]), native.lower)],
       outgoing |-> [row \in Index(native) |->
                       entries(OwnerRange(native, order[row + 1]), native.upper)],
       \* the view in native face order
       lduOrderEdges |-> [f \in 1 .. Len(native.lower) |->
                            [owner |-> rowOf[native.lower[f]], col |-> rowOf[native.upper[f]],
                             coeff |-> native.coeff[f]]]]

Row(M, row) == M.incoming[row] \o M.outgoing[row]
nFaces(M) == Len(M.lduOrderEdges)

\* "fw incoming / outgoing row range is not contiguous"
RangesContiguous(M) ==
  \A row \in Index(M) :
    /\ \A i \in DOMAIN M.incoming[row] : M.incoming[row][i].col < row
    /\ \A i \in DOMAIN M.outgoing[row] : M.outgoing[row][i].col > row

\* the flat and the direct view: the entries above the diagonal, row by row
DirectEdgesOfRow(M, row) ==
  LET entry == Row(M, row)
      upper == Ascending({p \in DOMAIN entry : entry[p].col > row})
  IN  [i \in DOMAIN upper |-> [owner |-> row, col |-> entry[upper[i]].col,
                               coeff |-> entry[upper[i]].coeff]]

DirectEdges(M) == FlattenSeq([i \in 1 .. M.n |-> DirectEdgesOfRow(M, i - 1)])

\* how many edges there are when a row begins
DirectEdgeRowStarts(M) ==
  LET starts[row \in 0 .. M.n] ==
        IF row = 0 THEN 0 ELSE starts[row - 1] + Len(DirectEdgesOfRow(M, row - 1))
  IN  starts

\* "... does not cover every symmetric face once", "... disagree with packed rows"
EdgeViewsComplete(M) ==
  /\ Len(DirectEdges(M)) = nFaces(M)
  /\ \A row \in Index(M) : Len(DirectEdgesOfRow(M, row)) = Len(M.outgoing[row])

ToFw(M, original) == Table([row \in Index(M) |-> original[M.newToOld[row]]])
ToOriginal(M, reordered) == Table([c \in Index(M) |-> reordered[M.oldToNew[c]]])

-----------------------------------------------------------------------------
(* Products. *)

\* the entries of a sequence, applied to x
Applied(entries, x) == Total(LAMBDA i : entries[i].coeff * x[entries[i].col], DOMAIN entries)

FwDiagonal(M, x) == Table([row \in Index(M) |-> (M.diag[row] * x[row]) % P])

\* multiply
PackedProduct(M, x) ==
  Table([row \in Index(M) |-> (M.diag[row] * x[row] + Applied(Row(M, row), x)) % P])

\* multiply...EdgeWise over a view of the edges, with or without prefetching
EdgeProduct(M, edges, x) ==
  LET Edge(y, e) == Table([y EXCEPT ![e.owner] = (@ + e.coeff * x[e.col]) % P,
                                    ![e.col] = (@ + e.coeff * x[e.owner]) % P])
  IN  FoldLeft(Edge, FwDiagonal(M, x), edges)

\* multiplyDirectFlatOwnerRunAccumulated: the result of the owner is held back
\* until the owner changes
OwnerRunProduct(M, x) ==
  LET edges == DirectEdges(M)
      Edge(s, e) ==
        LET y == IF e.owner = s.owner THEN s.y ELSE Table([s.y EXCEPT ![s.owner] = s.held])
            held == IF e.owner = s.owner THEN s.held ELSE y[e.owner]
        IN  [owner |-> e.owner,
             held |-> (held + e.coeff * x[e.col]) % P,
             y |-> Table([y EXCEPT ![e.col] = (@ + e.coeff * x[e.owner]) % P])]
      first == edges[1].owner
      y0 == FwDiagonal(M, x)
      s == FoldLeft(Edge, [owner |-> first, held |-> y0[first], y |-> y0], edges)
  IN  IF edges = <<>> THEN y0 ELSE [s.y EXCEPT ![s.owner] = s.held]

\* Controls.spmvTraversal
Product(M, traversal, x) ==
  CASE traversal = "RowWise" -> PackedProduct(M, x)
    [] traversal \in {"FlatEdgeWise", "DirectFlatEdgeWise"} -> EdgeProduct(M, DirectEdges(M), x)
    [] traversal = "NativeFaceOrderDirectFlatEdgeWise" -> EdgeProduct(M, M.lduOrderEdges, x)

FwScaleCorrection(M, traversal, x, source) ==
  LET product == Product(M, traversal, x)
      denominator == InnerProduct(x, product)
      factor == Over(InnerProduct(x, source), IF denominator = 0 THEN 1 ELSE denominator)
  IN  Table([row \in Index(M) |->
        (factor * x[row] + Over(source[row] - factor * product[row], M.diag[row])) % P])

\* every entry of a packed row sets its place
FwDense(M) ==
  [row \in Index(M) |-> [c \in Index(M) |->
     LET at == {i \in DOMAIN Row(M, row) : Row(M, row)[i].col = c}
     IN  (IF at # {} THEN Row(M, row)[CHOOSE i \in at : \A j \in at : j <= i].coeff
          ELSE IF c = row THEN M.diag[row] ELSE 0) % P]]

-----------------------------------------------------------------------------
(* Smoothing, and the last sweep fused with the product that follows it. *)

NewValue(M, psi, source, row) == Over(source[row] - Applied(Row(M, row), psi), M.diag[row])

FwSmooth(M, psi, source, nSweeps) ==
  LET Sweep(x, k) ==
        FoldLeft(LAMBDA y, row : Table([y EXCEPT ![row] = NewValue(M, y, source, row)]),
                 x, Upwards(M.n))
  IN  FoldLeft(Sweep, psi, Upwards(nSweeps))

\* The incoming part of a row is final when it is read; the outgoing part is
\* scattered back by the rows it leads to.
FusedSmoothRow(M, source, s, row) ==
  LET in == M.incoming[row]
      value == NewValue(M, s.psi, source, row)
      own == (M.diag[row] * value + Applied(in, s.psi)) % P
      scattered(d) == value * Total(LAMBDA i : in[i].coeff, {i \in DOMAIN in : in[i].col = d})
  IN  [psi |-> Table([s.psi EXCEPT ![row] = value]),
       matrixPsi |-> Table([d \in Index(M) |->
         IF d = row THEN own ELSE (s.matrixPsi[d] + scattered(d)) % P])]

\* smoothAndMultiply
IncomingHeld(M, psi, source) ==
  FoldLeft(LAMBDA s, row : FusedSmoothRow(M, source, s, row),
           [psi |-> psi, matrixPsi |-> ZeroField(M.n)], Upwards(M.n))

\* the last sweep of the delta variants keeps what it changed in matrixPsi
DeltaSweep(M, psi, source) ==
  LET RowStep(s, row) ==
        LET value == NewValue(M, s.psi, source, row)
        IN  [psi |-> Table([s.psi EXCEPT ![row] = value]),
             matrixPsi |-> Table([s.matrixPsi EXCEPT ![row] = (value - s.psi[row]) % P])]
  IN  FoldLeft(RowStep, [psi |-> psi, matrixPsi |-> ZeroField(M.n)], Upwards(M.n))

\* Mutant: rows are corrected from the last to the first.
DeltaCorrectionDownwards(M, edgesOf, source, delta) ==
  FoldLeft(LAMBDA y, row : Table([y EXCEPT ![row] = (source[row] + Applied(edgesOf[row], y)) % P]),
           delta, Reverse(Upwards(M.n)))

\* In place: the columns of a row are larger, so they still hold their deltas.
DeltaCorrection(M, edgesOf, source, delta) ==
  FoldLeft(LAMBDA y, row : Table([y EXCEPT ![row] = (source[row] + Applied(edgesOf[row], y)) % P]),
           delta, Upwards(M.n))

\* deltaCorrectionEdgeRows
EdgesByStarts(M) ==
  LET starts == DirectEdgeRowStarts(M)
      edges == DirectEdges(M)
  IN  [row \in Index(M) |-> SubSeq(edges, starts[row] + 1, starts[row + 1])]

\* deltaCorrectionCurrent: from where the row before has stopped, as long as the
\* owner is this row
EdgesByCursor(M) ==
  LET edges == DirectEdges(M)
      run(row, begin) ==
        {e \in begin + 1 .. Len(edges) : \A d \in begin + 1 .. e : edges[d].owner = row}
      begin[row \in 0 .. M.n] ==
        IF row = 0 THEN 0
        ELSE begin[row - 1] + Cardinality(run(row - 1, begin[row - 1]))
  IN  [row \in Index(M) |-> SubSeq(edges, begin[row] + 1, begin[row + 1])]

\* the last sweep, and the product of what it leaves
FusedSweep(M, fusion, psi, source) ==
  LET last == DeltaSweep(M, psi, source)
      edgesOf ==
        CASE fusion \in {"DeltaCorrection", "DeltaCorrectionEdgeRows"} -> EdgesByStarts(M)
          [] fusion = "DeltaCorrectionCurrent" -> EdgesByCursor(M)
          [] fusion = "DeltaCorrectionPackedBaseline" -> M.outgoing
  IN  IF fusion = "IncomingHeld"
        THEN IncomingHeld(M, psi, source)
        ELSE [last EXCEPT !.matrixPsi = DeltaCorrection(M, edgesOf, source, last.matrixPsi)]

\* Mutant: the fused sweep is not counted.
SmoothAndMultiplyOnceMore(M, fusion, psi, source, nSweeps) ==
  FusedSweep(M, fusion, FwSmooth(M, psi, source, nSweeps), source)

\* Controls.finestSpmvFusion; nSweeps is at least one
SmoothAndMultiply(M, fusion, psi, source, nSweeps) ==
  FusedSweep(M, fusion, FwSmooth(M, psi, source, nSweeps - 1), source)
================================================================================
