------------------------------- MODULE FwSolver -------------------------------
(***************************************************************************)
(* fwGAMG: the hierarchy of PairAgglomeration with every matrix packed in  *)
(* forward row order (fwHierarchy.C), and the multigrid solver that works  *)
(* on these rows (fwGAMG.C).  Fields inside solve are in row order; cells  *)
(* have an agglomeration number, a native one (renumbered on coarse levels *)
(* if the options say so) and a row.                                       *)
(*                                                                         *)
(* Both solvers keep the same members and count sweeps and iterations the  *)
(* same way; these are the ones of GAMGSolver, and an action that begins   *)
(* with Fw is the one of fwgamg::Solver or fwgamg::Hierarchy.  What is     *)
(* shown is that fwGAMG implements GAMGSolver.                             *)
(***************************************************************************)
EXTENDS GAMGSolver, FwMatrix

CONSTANT
  Options   \* records [width, rowOrdering, coarseRenumbering, spmvTraversal,
            \* finestSpmvFusion]: the fields of fwgamg::Controls

\* the enumerations of fwgamg::Controls
ASSUME OptionsAssumption ==
  \A o \in Options :
    /\ o.width \in Int
    /\ o.rowOrdering \in {"Natural", "IndexKahn"}
    /\ o.coarseRenumbering \in {"None", "MinimumFineIndex"}
    /\ o.spmvTraversal \in {"RowWise", "FlatEdgeWise", "DirectFlatEdgeWise",
                            "NativeFaceOrderDirectFlatEdgeWise"}
    /\ o.finestSpmvFusion \in {"None", "IncomingHeld", "DeltaCorrection",
                               "DeltaCorrectionCurrent", "DeltaCorrectionEdgeRows",
                               "DeltaCorrectionPackedBaseline"}

\* smoothing divides by the diagonal
ASSUME DiagonalAssumption == \A m \in Matrices : \A c \in CellsOf(m) : m.diag[c] % P # 0

VARIABLES
  options,
  packed, numberings, restrictionMaps,   \* Hierarchy, as far as it is built
  originalPsi,                           \* the field of the caller; psi has its rows
  matrixPsi

hierarchyVars == <<options, packed, numberings, restrictionMaps>>
fwFields == <<originalPsi, fields, matrixPsi>>
fwVars == <<vars, hierarchyVars, stage, fwFields, performance, cycle>>

Packed(l) == packed[l + 1]

FwInit ==
  /\ SolverInit
  /\ options \in Options
  /\ packed = <<>> /\ numberings = <<>> /\ restrictionMaps = <<>>
  /\ originalPsi = <<>> /\ matrixPsi = <<>>

\* of the members above, the agglomeration and the loop of solve touch none
OwnStay == UNCHANGED <<hierarchyVars, originalPsi, matrixPsi>>

FwAgglomerate == Agglomerate /\ OwnStay

-----------------------------------------------------------------------------
(* Hierarchy *)

IdentityNumbering(n, faces) ==
  [nativeToAgg |-> [c \in 0 .. n - 1 |-> c], aggToNative |-> [c \in 0 .. n - 1 |-> c],
   faceToAgg |-> [f \in 1 .. faces |-> f]]

\* the entries of the packed rows that carry a face of the agglomeration
EntriesOf(M, numbering, aggFace) ==
  {e \in UNION {{Row(M, row)[i] : i \in DOMAIN Row(M, row)} : row \in Index(M)} :
     numbering.faceToAgg[e.face] = aggFace}

\* Mutant: rows are taken for native cells.
BuildCoarseOperatorByRow(M, numbering, addressing, made) ==
  LET diag == [a \in DOMAIN made.fineToCoarse |-> M.diag[numbering.aggToNative[a]]]
      coeff == [f \in DOMAIN made.faceToCoarse |->
                  (CHOOSE e \in EntriesOf(M, numbering, f) : TRUE).coeff]
  IN  [addressing EXCEPT
         !.diag = [C \in CellsOf(addressing) |->
            Collected(diag, made.fineToCoarse, C)
              + 2 * Collected(coeff, made.faceToCoarse, -(C + 1))],
         !.coeff = [F \in FacesOf(addressing) |-> Collected(coeff, made.faceToCoarse, F - 1)]]

\* The values are read back from the packed rows of the finer level; addressing
\* gives the size and the faces of the coarse level.
BuildCoarseOperator(M, numbering, addressing, made) ==
  LET diag == [a \in DOMAIN made.fineToCoarse |->
                 M.diag[M.oldToNew[numbering.aggToNative[a]]]]
      coeff == [f \in DOMAIN made.faceToCoarse |->
                  (CHOOSE e \in EntriesOf(M, numbering, f) : TRUE).coeff]
  IN  [addressing EXCEPT
         !.diag = [C \in CellsOf(addressing) |->
            Collected(diag, made.fineToCoarse, C)
              + 2 * Collected(coeff, made.faceToCoarse, -(C + 1))],
         !.coeff = [F \in FacesOf(addressing) |-> Collected(coeff, made.faceToCoarse, F - 1)]]

\* the place of x in S under the order Before
Rank(S, Before(_, _), x) == Cardinality({y \in S : Before(y, x)})

\* coarse cells in the order of their first native fine cell; faces turned to
\* their smaller end and sorted
MinimumFineIndex(coarse, numbering, fineToCoarse) ==
  LET key(C) == Min({c \in DOMAIN numbering.nativeToAgg :
                       fineToCoarse[numbering.nativeToAgg[c]] = C})
      cellBefore(C, D) == key(C) < key(D)
      oldToNew == [C \in CellsOf(coarse) |-> Rank(CellsOf(coarse), cellBefore, C)]
      newToOld == [c \in CellsOf(coarse) |-> CHOOSE C \in CellsOf(coarse) : oldToNew[C] = c]
      left(F) == AtMost(oldToNew[coarse.lower[F]], oldToNew[coarse.upper[F]])
      right(F) == AtLeast(oldToNew[coarse.lower[F]], oldToNew[coarse.upper[F]])
      faceBefore(F, G) ==
        \/ left(F) < left(G)
        \/ left(F) = left(G) /\ right(F) < right(G)
        \/ left(F) = left(G) /\ right(F) = right(G) /\ F < G
      oldFace == [f \in FacesOf(coarse) |->
                    CHOOSE F \in FacesOf(coarse) : Rank(FacesOf(coarse), faceBefore, F) = f - 1]
  IN  [matrix |-> [n |-> coarse.n,
                   lower |-> [f \in FacesOf(coarse) |-> left(oldFace[f])],
                   upper |-> [f \in FacesOf(coarse) |-> right(oldFace[f])],
                   diag |-> [c \in CellsOf(coarse) |-> coarse.diag[newToOld[c]]],
                   coeff |-> [f \in FacesOf(coarse) |-> coarse.coeff[oldFace[f]]]],
       numbering |-> [nativeToAgg |-> newToOld, aggToNative |-> oldToNew,
                      faceToAgg |-> oldFace]]

RenumberCoarse(coarse, numbering, fineToCoarse) ==
  IF options.coarseRenumbering = "None"
    THEN [matrix |-> coarse, numbering |-> IdentityNumbering(coarse.n, Len(coarse.lower))]
    ELSE MinimumFineIndex(coarse, numbering, fineToCoarse)

RowOrders(native) ==
  IF options.rowOrdering = "Natural" THEN {NaturalOrder(native)} ELSE ForwardOrders(native)

\* through agglomeration and native numbers to the rows of the coarse matrix
DirectMap(M, numbering, fineToCoarse, coarseNumbering, coarseM) ==
  [row \in Index(M) |->
     coarseM.oldToNew[coarseNumbering.aggToNative[
       fineToCoarse[numbering.nativeToAgg[M.newToOld[row]]]]]]

Building == phase = "built" /\ stage = "setup"

\* makeIndexKahnOrdering refuses the width
RefuseWidth ==
  /\ Building
  /\ packed = <<>>
  /\ options.width < 1 /\ options.rowOrdering # "Natural"
  /\ stage' = "refused"
  /\ UNCHANGED <<vars, hierarchyVars, fwFields, performance, cycle>>

BuildFinest ==
  /\ Building
  /\ packed = <<>>
  /\ options.width >= 1 \/ options.rowOrdering = "Natural"
  /\ \E order \in RowOrders(Finest) : packed' = <<Pack(Finest, order)>>
  /\ numberings' = <<IdentityNumbering(Finest.n, Len(Finest.lower))>>
  /\ UNCHANGED <<vars, options, restrictionMaps, stage, fwFields, performance, cycle>>

BuildCoarse ==
  LET l == Len(packed)
      M == packed[l]
      made == levels[l]
      coarse == BuildCoarseOperator(M, numberings[l], matrices[l + 1], made)
      renumbered == RenumberCoarse(coarse, numberings[l], made.fineToCoarse)
  IN  /\ Building
      /\ l \in 1 .. Len(levels)
      /\ \E order \in RowOrders(renumbered.matrix) :
           packed' = Append(packed, Pack(renumbered.matrix, order))
      /\ numberings' = Append(numberings, renumbered.numbering)
      /\ restrictionMaps' = Append(restrictionMaps,
           DirectMap(M, numberings[l], made.fineToCoarse,
                     renumbered.numbering, packed'[l + 1]))
      /\ UNCHANGED <<vars, options, stage, fwFields, performance, cycle>>

Built == Building /\ Len(packed) = nLevels

\* "fwGAMG width must be positive": natural rows get here with any width
RejectWidth ==
  /\ Built
  /\ options.width < 1
  /\ stage' = "refused"
  /\ UNCHANGED <<vars, hierarchyVars, fwFields, performance, cycle>>

FwRejectIterations ==
  /\ Built
  /\ options.width >= 1
  /\ InvalidIterations
  /\ stage' = "thrown"
  /\ UNCHANGED <<vars, hierarchyVars, fwFields, performance, cycle>>

FwConstruct ==
  /\ Built
  /\ options.width >= 1
  /\ ~InvalidIterations
  /\ stage' = "ready"
  /\ UNCHANGED <<vars, hierarchyVars, fwFields, performance, cycle>>

\* the edge views of the matrices, and those the solver reads
ViewsBuilt ==
  {v \in {"flat", "direct", "native"} :
     CASE v = "flat" -> options.spmvTraversal = "FlatEdgeWise"
       [] v = "direct" ->
            \/ options.spmvTraversal = "DirectFlatEdgeWise"
            \/ options.finestSpmvFusion \in
                 {"DeltaCorrection", "DeltaCorrectionCurrent", "DeltaCorrectionEdgeRows"}
       [] v = "native" -> options.spmvTraversal = "NativeFaceOrderDirectFlatEdgeWise"}

-----------------------------------------------------------------------------
(* solve *)

\* "fwGAMG solve field size mismatch"
FwRejectFields == RejectFields /\ OwnStay

FwSolve ==
  /\ Idle
  /\ \E start \in Starts :
       /\ ~WrongSize(start)
       /\ originalPsi' = start.psi
       /\ psi' = ToFw(Packed(0), start.psi)
       /\ source' = ToFw(Packed(0), start.source)
       /\ matrixPsi' = Product(Packed(0), options.spmvTraversal, psi')
       /\ finestResidual' = MinusField(source', matrixPsi')
       /\ \E norm \in NormOf(finestResidual') \ {"relative"} :
            performance' = [converged |-> SmallNorm(norm) /\ controls.minIterations = 0,
                            iterations |-> 0,
                            residualHistory |-> <<norm>>]
  /\ stage' = "loop"
  /\ UNCHANGED <<vars, hierarchyVars, cycle>>

FwReturn ==
  /\ stage = "loop"
  /\ ~GoesOn
  /\ originalPsi' = ToOriginal(Packed(0), psi)
  /\ stage' = "returned"
  /\ UNCHANGED <<vars, hierarchyVars, psi, source, finestResidual, matrixPsi,
                 performance, cycle>>

-----------------------------------------------------------------------------
(* vCycle *)

ScaledRows(l, x, b) == FwScaleCorrection(Packed(l), options.spmvTraversal, x, b)
FwScaled(l, x, b) ==
  IF controls.scaleCorrection /\ l + 2 < nLevels THEN ScaledRows(l, x, b) ELSE x

FwBeginCycle == BeginCycle /\ OwnStay

\* The caller of a single cycle brings the residual of psi along; no product is kept.
FwApplyVCycle ==
  /\ Idle
  /\ \E start \in Starts :
       /\ ~WrongSize(start)
       /\ originalPsi' = start.psi
       /\ psi' = ToFw(Packed(0), start.psi)
       /\ source' = ToFw(Packed(0), start.source)
       /\ finestResidual' = ToFw(Packed(0), Residual(Finest, start.psi, start.source))
  /\ matrixPsi' = <<>>
  /\ performance' = NoPerformance
  /\ EnterCycle(finestResidual')
  /\ UNCHANGED <<vars, hierarchyVars>>

FwRestricted == RestrictField(restrictionMaps[level], Packed(level).n, sources[level - 1])

FwDescend ==
  LET zero == ZeroField(Packed(level).n)
      restricted == FwRestricted
      smoothed == FwSmooth(Packed(level), zero, restricted, PreSweeps(level))
      correction == FwScaled(level, smoothed, restricted)
      residual == MinusField(restricted, Product(Packed(level), options.spmvTraversal, correction))
  IN  /\ stage = "down"
      /\ level + 1 < nLevels
      /\ IF controls.nPreSweeps > 0
           THEN /\ corrections' = [corrections EXCEPT ![level] = correction]
                /\ sources' = [sources EXCEPT ![level] = residual]
                /\ sweeps' = [sweeps EXCEPT ![level].pre = PreSweeps(level)]
           ELSE /\ corrections' = [corrections EXCEPT ![level] = zero]
                /\ sources' = [sources EXCEPT ![level] = restricted]
                /\ UNCHANGED sweeps
      /\ level' = level + 1
      /\ UNCHANGED <<vars, hierarchyVars, stage, fwFields, performance>>

FwSolveCoarsestLevel ==
  /\ stage = "down"
  /\ level + 1 = nLevels
  /\ ~Singular(FwDense(Packed(level)))
  /\ sources' = [sources EXCEPT ![level] = FwRestricted]
  /\ corrections' = [corrections EXCEPT ![level] =
                       SolveDense(FwDense(Packed(level)), sources'[level])]
  /\ level' = level - 1
  /\ stage' = "up"
  /\ UNCHANGED <<vars, hierarchyVars, fwFields, performance, sweeps>>

\* "singular fwGAMG coarsest matrix"
FwSingularCoarsest ==
  /\ stage = "down"
  /\ level + 1 = nLevels
  /\ Singular(FwDense(Packed(level)))
  /\ stage' = "thrown"
  /\ UNCHANGED <<vars, hierarchyVars, fwFields, performance, cycle>>

FwProlonged(l) == ProlongField(restrictionMaps[l + 1], corrections[l + 1])

FwAscend ==
  LET scaled == FwScaled(level, FwProlonged(level), sources[level])
      correction == IF controls.nPreSweeps > 0
                      THEN PlusField(scaled, corrections[level]) ELSE scaled
  IN  /\ stage = "up"
      /\ level > 0
      /\ corrections' = [corrections EXCEPT ![level] =
           FwSmooth(Packed(level), correction, sources[level], PostSweeps(level))]
      /\ sweeps' = [sweeps EXCEPT ![level].post = PostSweeps(level)]
      /\ level' = level - 1
      /\ UNCHANGED <<vars, hierarchyVars, stage, fwFields, performance, sources>>

FwFinestCorrection ==
  IF controls.scaleCorrection THEN ScaledRows(0, FwProlonged(0), finestResidual) ELSE FwProlonged(0)

\* solve asks for the product, applyVCycle does not
Fuse ==
  /\ options.finestSpmvFusion # "None"
  /\ controls.nFinestSweeps > 0
  /\ ~Applying

\* With fusion the last sweep leaves the product of the new psi in matrixPsi.
FwFinishCycle ==
  LET corrected == PlusField(psi, FwFinestCorrection)
      fused == SmoothAndMultiply(Packed(0), options.finestSpmvFusion, corrected, source,
                                 controls.nFinestSweeps)
  IN  /\ stage = "up"
      /\ level = 0
      /\ IF Fuse
           THEN psi' = fused.psi /\ matrixPsi' = fused.matrixPsi
           ELSE /\ psi' = FwSmooth(Packed(0), corrected, source, controls.nFinestSweeps)
                /\ UNCHANGED matrixPsi
      /\ sweeps' = [sweeps EXCEPT ![0].post = controls.nFinestSweeps]
      /\ corrections' = <<>> /\ sources' = <<>>
      /\ IF Applying
           THEN stage' = "applied" /\ originalPsi' = ToOriginal(Packed(0), psi')
           ELSE stage' = "measure" /\ UNCHANGED originalPsi
      /\ UNCHANGED <<vars, hierarchyVars, source, finestResidual, performance, level>>

FwMeasure ==
  /\ stage = "measure"
  /\ matrixPsi' = IF Fuse THEN matrixPsi ELSE Product(Packed(0), options.spmvTraversal, psi)
  /\ finestResidual' = MinusField(source, matrixPsi')
  /\ \E norm \in NormOf(finestResidual') :
       LET iterations == performance.iterations + 1
       IN  performance' =
             [converged |-> SmallNorm(norm) /\ iterations >= controls.minIterations,
              iterations |-> iterations,
              residualHistory |-> Append(performance.residualHistory, norm)]
  /\ sweeps' = <<>>
  /\ stage' = "loop"
  /\ UNCHANGED <<vars, hierarchyVars, originalPsi, psi, source, level, corrections, sources>>

FwThrown ==
  /\ stage \in {"thrown", "refused"} \/ phase = "thrown"
  /\ UNCHANGED fwVars

FwNext ==
  \/ FwAgglomerate
  \/ RefuseWidth \/ BuildFinest \/ BuildCoarse \/ RejectWidth \/ FwRejectIterations \/ FwConstruct
  \/ FwRejectFields \/ FwSolve \/ FwApplyVCycle \/ FwReturn
  \/ FwBeginCycle \/ FwDescend \/ FwSolveCoarsestLevel \/ FwSingularCoarsest
  \/ FwAscend \/ FwFinishCycle \/ FwMeasure
  \/ FwThrown

FwSpec == FwInit /\ [][FwNext]_fwVars
-----------------------------------------------------------------------------
(* Properties. *)

\* the row of a cell of level l, given by its agglomeration number
RowOf(l) ==
  [a \in CellsOf(matrices[l + 1]) |-> Packed(l).oldToNew[numberings[l + 1].aggToNative[a]]]

Unpermuted(l, x) == IF x = <<>> THEN x ELSE [a \in CellsOf(matrices[l + 1]) |-> x[RowOf(l)[a]]]

FwTypeOK ==
  /\ options \in Options
  /\ stage \in {"setup", "ready", "loop", "down", "up", "measure", "returned",
                "applied", "thrown", "refused"}
  /\ Len(numberings) = Len(packed)
  /\ Len(restrictionMaps) = IF packed = <<>> THEN 0 ELSE Len(packed) - 1
  /\ stage \in {"loop", "down", "up", "measure", "returned", "applied"} =>
       /\ psi \in FieldOf(Finest)
       /\ source \in FieldOf(Finest)
       /\ ~Applying => matrixPsi \in FieldOf(Finest)

\* the matrix of level l as the packed rows have it
EntryOf(M, r, c) ==
  IF r = c THEN M.diag[r] % P
  ELSE Total(LAMBDA i : Row(M, r)[i].coeff, {i \in DOMAIN Row(M, r) : Row(M, r)[i].col = c})

EntryIn(m, a, b) ==
  IF a = b THEN m.diag[a] % P
  ELSE Total(LAMBDA f : m.coeff[f], {f \in FacesOf(m) : {m.lower[f], m.upper[f]} = {a, b}})

ViewsRead ==
  {v \in {"flat", "direct", "native"} :
     CASE v = "flat" -> options.spmvTraversal = "FlatEdgeWise"
       [] v = "direct" -> \/ options.spmvTraversal = "DirectFlatEdgeWise"
                          \/ /\ controls.nFinestSweeps > 0
                             /\ options.finestSpmvFusion \notin
                                  {"None", "IncomingHeld", "DeltaCorrectionPackedBaseline"}
       [] v = "native" -> options.spmvTraversal = "NativeFaceOrderDirectFlatEdgeWise"}

\* Level by level the packed matrix is the one stock GAMG would use, with its
\* cells permuted: read back from packed rows, renumbered, ordered and packed
\* again.  Incoming and outgoing entries lie on their sides of the diagonal, the
\* edge views have every face once (the constructors throw otherwise), and the
\* map of rows between two levels is the one between agglomeration numbers.
LevelSound(l) ==
  LET M == Packed(l)
      m == matrices[l + 1]
  IN  /\ {RowOf(l)[a] : a \in CellsOf(m)} = CellsOf(m)
      /\ \A a, b \in CellsOf(m) : EntryOf(M, RowOf(l)[a], RowOf(l)[b]) = EntryIn(m, a, b)
      /\ RangesContiguous(M)
      /\ EdgeViewsComplete(M)
      /\ l > 0 => \A a \in CellsOf(matrices[l]) :
                    restrictionMaps[l][RowOf(l - 1)[a]] = RowOf(l)[levels[l].fineToCoarse[a]]

HierarchySound ==
  /\ FwTypeOK
  /\ phase = "built" /\ stage = "setup" /\ packed # <<>> => LevelSound(Len(packed) - 1)
  /\ stage = "ready" => ViewsRead \subseteq ViewsBuilt

\* the product by the rows, one entry at a time
Reference(M, x) ==
  [r \in Index(M) |-> Total(LAMBDA c : EntryOf(M, r, c) * x[c], Index(M))]

\* The residual that decides about convergence belongs to psi, also where its
\* product was put together during the last sweep; and every other way to
\* compute the product gives the same.
ProductCurrent ==
  /\ stage \in {"loop", "returned"} =>
       /\ matrixPsi = Reference(Packed(0), psi)
       /\ finestResidual = MinusField(source, matrixPsi)
  /\ stage = "loop" =>
       /\ OwnerRunProduct(Packed(0), psi) = matrixPsi
       /\ EdgeProduct(Packed(0), DirectEdges(Packed(0)), psi) = matrixPsi
       /\ EdgeProduct(Packed(0), Packed(0).lduOrderEdges, psi) = matrixPsi
       /\ PackedProduct(Packed(0), psi) = matrixPsi

\* While solve runs, stock GAMG has the field of the caller in hand; fwGAMG has
\* its copy in row order.
InSolve == stage \in {"loop", "down", "up", "measure"}

StockFields(f) == IF f = <<>> THEN f ELSE [l \in DOMAIN f |-> Unpermuted(l, f[l])]

Stock ==
  INSTANCE GAMGSolver WITH
    stage <- IF stage = "refused" THEN "setup" ELSE stage,
    psi <- IF InSolve THEN Unpermuted(0, psi) ELSE originalPsi,
    source <- IF source = <<>> THEN source ELSE Unpermuted(0, source),
    finestResidual <- IF source = <<>> THEN source ELSE Unpermuted(0, finestResidual),
    corrections <- StockFields(corrections),
    sources <- StockFields(sources)

OwnNumbers == options.coarseRenumbering = "None"

\* With coarse cells left in their order, fwGAMG makes the iterations of stock
\* GAMG: in the numbering of the agglomeration every correction, source and
\* residual of every level is the same number, and fwGAMG behaves as
\* Stock!SolverSpec.
ImplementsStock ==
  /\ OwnNumbers => Stock!SolverInit
  /\ [][OwnNumbers => Stock!SolverNext \/ UNCHANGED Stock!solverVars]_fwVars
================================================================================
