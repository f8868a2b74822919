------------------------------ MODULE GAMGSolver ------------------------------
(***************************************************************************)
(* GAMGSolver: the hierarchy of PairAgglomeration, then solve, which       *)
(* repeats V-cycles until the residual of the finest level is small.  An   *)
(* action is one visit of a level.  Level l is matrices[l + 1], and        *)
(* levels[l + 1] leads from it to the next coarser one.                    *)
(*                                                                         *)
(* A norm is only compared with the tolerances, so it is one of the        *)
(* classes "tolerance", "relative" and "large", chosen freely, but a       *)
(* residual of zero is below every tolerance.                              *)
(***************************************************************************)
EXTENDS PairAgglomeration, MultigridKernels

\* Controls has all fields of GAMGControls but diagnostics; relative says
\* whether relativeTolerance is positive.
CONSTANT Starts   \* records [psi, source]: what solve may be called with

\* vectors of numbers, of any two lengths
ASSUME StartsAssumption ==
  \A start \in Starts :
    start.psi \in [DOMAIN start.psi -> Value] /\ start.source \in [DOMAIN start.source -> Value]

\* numbers and flags of GAMGControls
ASSUME ControlsAssumption ==
  \A c \in Controls :
    /\ {c.nPreSweeps, c.preSweepsLevelMultiplier, c.maxPreSweeps,
        c.nPostSweeps, c.postSweepsLevelMultiplier, c.maxPostSweeps,
        c.nFinestSweeps, c.minIterations, c.maxIterations} \subseteq Int
    /\ {c.scaleCorrection, c.relative} \subseteq BOOLEAN

VARIABLES
  stage,            \* where the program is after the agglomeration
  psi, source,      \* the fields solve was called with
  finestResidual,
  performance,      \* GAMGSolverPerformance: converged, iterations, residualHistory
  level,            \* of the V-cycle
  corrections, sources,
  sweeps            \* GAMGTiming: sweeps recorded in this V-cycle, by level

fields == <<psi, source, finestResidual>>
cycle == <<level, corrections, sources, sweeps>>
solving == <<stage, fields, performance, cycle>>
solverVars == <<vars, solving>>

nLevels == Len(matrices)
Finest == matrices[1]
At(l) == matrices[l + 1]

NoSweeps == [pre |-> 0, post |-> 0]
NoPerformance == [converged |-> FALSE, iterations |-> 0, residualHistory |-> <<>>]

SolverInit ==
  /\ Init
  /\ stage = "setup"
  /\ psi = <<>> /\ source = <<>> /\ finestResidual = <<>>
  /\ performance = NoPerformance
  /\ level = 0
  /\ corrections = <<>> /\ sources = <<>> /\ sweeps = <<>>

Agglomerate == Next /\ UNCHANGED solving

InvalidIterations == controls.maxIterations < 1 \/ controls.minIterations < 0

\* "invalid GAMG iteration controls"
RejectIterations ==
  /\ phase = "built" /\ stage = "setup"
  /\ InvalidIterations
  /\ stage' = "thrown"
  /\ UNCHANGED <<vars, fields, performance, cycle>>

Construct ==
  /\ phase = "built" /\ stage = "setup"
  /\ ~InvalidIterations
  /\ stage' = "ready"
  /\ UNCHANGED <<vars, fields, performance, cycle>>

-----------------------------------------------------------------------------
(* solve *)

\* what the norm of a residual may be
NormOf(residual) ==
  IF \A c \in DOMAIN residual : residual[c] = 0
    THEN {"tolerance"}
    ELSE {"tolerance", "relative", "large"}

SmallNorm(norm) == norm = "tolerance" \/ (norm = "relative" /\ controls.relative)

WrongSize(start) ==
  DOMAIN start.psi # CellsOf(Finest) \/ DOMAIN start.source # DOMAIN start.psi

Idle == stage \in {"ready", "returned", "applied"}

\* "GAMG solve field size mismatch"
RejectFields ==
  /\ Idle
  /\ \E start \in Starts : WrongSize(start)
  /\ stage' = "thrown"
  /\ performance' = NoPerformance
  /\ UNCHANGED <<vars, fields, cycle>>

\* the first residual is not below a fraction of itself
Solve ==
  /\ Idle
  /\ \E start \in Starts :
       /\ ~WrongSize(start)
       /\ psi' = start.psi
       /\ source' = start.source
       /\ finestResidual' = MinusField(source', Multiply(Finest, psi'))
       /\ \E norm \in NormOf(finestResidual') \ {"relative"} :
            performance' = [converged |-> SmallNorm(norm) /\ controls.minIterations = 0,
                            iterations |-> 0,
                            residualHistory |-> <<norm>>]
  /\ stage' = "loop"
  /\ UNCHANGED <<vars, cycle>>

GoesOn ==
  /\ performance.iterations < controls.maxIterations
  /\ performance.iterations < controls.minIterations \/ ~performance.converged

Return ==
  /\ stage = "loop"
  /\ ~GoesOn
  /\ stage' = "returned"
  /\ UNCHANGED <<vars, fields, performance, cycle>>

-----------------------------------------------------------------------------
(* vCycle *)

PreSweeps(l) ==
  AtMost(controls.nPreSweeps + controls.preSweepsLevelMultiplier * (l - 1),
         controls.maxPreSweeps)
PostSweeps(l) ==
  AtMost(controls.nPostSweeps + controls.postSweepsLevelMultiplier * (l - 1),
         controls.maxPostSweeps)

Scaled(l, x, b) ==
  IF controls.scaleCorrection /\ l + 2 < nLevels THEN ScaleCorrection(At(l), x, b) ELSE x

EnterCycle(residual) ==
  /\ corrections' = [l \in 0 .. nLevels - 1 |-> <<>>]
  /\ sources' = [l \in 0 .. nLevels - 1 |-> IF l = 0 THEN residual ELSE <<>>]
  /\ sweeps' = [l \in 0 .. nLevels - 1 |-> NoSweeps]
  /\ level' = 1
  /\ stage' = "down"

BeginCycle ==
  /\ stage = "loop"
  /\ GoesOn
  /\ EnterCycle(finestResidual)
  /\ UNCHANGED <<vars, fields, performance>>

\* one cycle by itself, as the benchmarks call it, with the residual of psi;
\* nothing is measured
ApplyVCycle ==
  /\ Idle
  /\ \E start \in Starts :
       /\ ~WrongSize(start)
       /\ psi' = start.psi
       /\ source' = start.source
       /\ finestResidual' = Residual(Finest, start.psi, start.source)
  /\ performance' = NoPerformance
  /\ EnterCycle(finestResidual')
  /\ UNCHANGED vars

Applying == performance.residualHistory = <<>>

Restricted == RestrictField(levels[level].fineToCoarse, At(level).n, sources[level - 1])

\* without pre-smoothing, the correction is zero and the source is handed on
Descend ==
  LET zero == ZeroField(At(level).n)
      restricted == Restricted
      smoothed == GaussSeidelSmooth(At(level), zero, restricted, PreSweeps(level))
      correction == Scaled(level, smoothed, restricted)
  IN  /\ stage = "down"
      /\ level + 1 < nLevels
      /\ IF controls.nPreSweeps > 0
           THEN /\ corrections' = [corrections EXCEPT ![level] = correction]
                /\ sources' = [sources EXCEPT ![level] =
                                 Residual(At(level), correction, restricted)]
                /\ sweeps' = [sweeps EXCEPT ![level].pre = PreSweeps(level)]
           ELSE /\ corrections' = [corrections EXCEPT ![level] = zero]
                /\ sources' = [sources EXCEPT ![level] = restricted]
                /\ UNCHANGED sweeps
      /\ level' = level + 1
      /\ UNCHANGED <<vars, stage, fields, performance>>

SolveCoarsestLevel ==
  /\ stage = "down"
  /\ level + 1 = nLevels
  /\ ~Singular(DenseMatrix(At(level)))
  /\ sources' = [sources EXCEPT ![level] = Restricted]
  /\ corrections' = [corrections EXCEPT ![level] =
                       SolveCoarsest(At(level), sources'[level])]
  /\ level' = level - 1
  /\ stage' = "up"
  /\ UNCHANGED <<vars, fields, performance, sweeps>>

\* "singular GAMG coarsest matrix" leaves solve in the middle of a cycle
SingularCoarsest ==
  /\ stage = "down"
  /\ level + 1 = nLevels
  /\ Singular(DenseMatrix(At(level)))
  /\ stage' = "thrown"
  /\ UNCHANGED <<vars, fields, performance, cycle>>

Prolonged(l) == ProlongField(levels[l + 1].fineToCoarse, corrections[l + 1])

\* Mutant: the correction of the pre-smoother is dropped.
AscendWithoutPreSmoothed ==
  LET correction == Scaled(level, Prolonged(level), sources[level])
  IN  /\ stage = "up"
      /\ level > 0
      /\ corrections' = [corrections EXCEPT ![level] =
           GaussSeidelSmooth(At(level), correction, sources[level], PostSweeps(level))]
      /\ sweeps' = [sweeps EXCEPT ![level].post = PostSweeps(level)]
      /\ level' = level - 1
      /\ UNCHANGED <<vars, stage, fields, performance, sources>>

Ascend ==
  LET scaled == Scaled(level, Prolonged(level), sources[level])
      correction == IF controls.nPreSweeps > 0
                      THEN PlusField(scaled, corrections[level]) ELSE scaled
  IN  /\ stage = "up"
      /\ level > 0
      /\ corrections' = [corrections EXCEPT ![level] =
           GaussSeidelSmooth(At(level), correction, sources[level], PostSweeps(level))]
      /\ sweeps' = [sweeps EXCEPT ![level].post = PostSweeps(level)]
      /\ level' = level - 1
      /\ UNCHANGED <<vars, stage, fields, performance, sources>>

FinestCorrection ==
  IF controls.scaleCorrection
    THEN ScaleCorrection(Finest, Prolonged(0), finestResidual)
    ELSE Prolonged(0)

FinishCycle ==
  /\ stage = "up"
  /\ level = 0
  /\ psi' = GaussSeidelSmooth(Finest, PlusField(psi, FinestCorrection), source,
                              controls.nFinestSweeps)
  /\ sweeps' = [sweeps EXCEPT ![0].post = controls.nFinestSweeps]
  /\ corrections' = <<>> /\ sources' = <<>>
  /\ stage' = IF Applying THEN "applied" ELSE "measure"
  /\ UNCHANGED <<vars, source, finestResidual, performance, level>>

\* Mutant: the count of iterations is compared before it is increased.
MeasureEarly ==
  /\ stage = "measure"
  /\ finestResidual' = MinusField(source, Multiply(Finest, psi))
  /\ \E norm \in NormOf(finestResidual') :
       performance' =
         [converged |-> SmallNorm(norm) /\ performance.iterations >= controls.minIterations,
          iterations |-> performance.iterations + 1,
          residualHistory |-> Append(performance.residualHistory, norm)]
  /\ sweeps' = <<>>
  /\ stage' = "loop"
  /\ UNCHANGED <<vars, psi, source, level, corrections, sources>>

Measure ==
  /\ stage = "measure"
  /\ finestResidual' = MinusField(source, Multiply(Finest, psi))
  /\ \E norm \in NormOf(finestResidual') :
       LET iterations == performance.iterations + 1
       IN  performance' =
             [converged |-> SmallNorm(norm) /\ iterations >= controls.minIterations,
              iterations |-> iterations,
              residualHistory |-> Append(performance.residualHistory, norm)]
  /\ sweeps' = <<>>
  /\ stage' = "loop"
  /\ UNCHANGED <<vars, psi, source, level, corrections, sources>>

\* diagnostics: the sweeps of a V-cycle
Diagnostics(l) ==
  [pre |-> IF l \in 1 .. nLevels - 2 /\ controls.nPreSweeps > 0
             THEN AtMost(controls.nPreSweeps + controls.preSweepsLevelMultiplier * (l - 1),
                         controls.maxPreSweeps)
             ELSE 0,
   post |-> IF l = 0 THEN controls.nFinestSweeps
            ELSE IF l = nLevels - 1 THEN 0
            ELSE AtMost(controls.nPostSweeps + controls.postSweepsLevelMultiplier * (l - 1),
                        controls.maxPostSweeps)]

\* a call of solve, once it is made
SolveStep ==
  \/ BeginCycle \/ Descend \/ SolveCoarsestLevel \/ SingularCoarsest
  \/ Ascend \/ FinishCycle \/ Measure \/ Return

\* Whoever catches an exception of the constructor or of solve keeps no solver.
Thrown ==
  /\ stage = "thrown" \/ phase = "thrown"
  /\ UNCHANGED solverVars

SolverNext ==
  \/ Agglomerate \/ RejectIterations \/ Construct
  \/ RejectFields \/ Solve \/ ApplyVCycle \/ SolveStep \/ Thrown

SolverSpec == SolverInit /\ [][SolverNext]_solverVars
-----------------------------------------------------------------------------
(* Properties. *)

\* the matrix-vector product by its definition
RowTimes(m, x, c) ==
  (m.diag[c] * x[c]
     + SumOver(LAMBDA f : m.coeff[f] * x[m.upper[f]], {f \in FacesOf(m) : m.lower[f] = c})
     + SumOver(LAMBDA f : m.coeff[f] * x[m.lower[f]], {f \in FacesOf(m) : m.upper[f] = c})) % P
Times(m, x) == [c \in CellsOf(m) |-> RowTimes(m, x, c)]

SolverTypeOK ==
  /\ stage \in {"setup", "ready", "loop", "down", "up", "measure", "returned", "applied",
                "thrown"}
  /\ stage # "setup" => phase = "built"
  /\ stage \notin {"setup", "ready", "thrown"} =>
       psi \in FieldOf(Finest) /\ source \in FieldOf(Finest)
  /\ stage \in {"down", "up", "measure"} =>
       /\ level \in 0 .. nLevels - 1
       /\ stage # "measure" => \A l \in 0 .. nLevels - 1 :
            /\ sources[l] \in FieldOf(At(l)) \cup {<<>>}
            /\ corrections[l] \in FieldOf(At(l)) \cup {<<>>}

\* Whenever the loop of solve decides whether to go on, finestResidual belongs to
\* the present psi, there is one norm per iteration and one for the start, and
\* converged says that the last of them is small after minIterations cycles, so
\* that solve gives up only after maxIterations.
LoopSound ==
  LET norms == performance.residualHistory
      small == SmallNorm(norms[Len(norms)])
  IN  /\ stage \in {"loop", "returned"} =>
           /\ finestResidual = MinusField(source, Times(Finest, psi))
           /\ Len(norms) = performance.iterations + 1
           /\ performance.converged =
                (small /\ performance.iterations >= controls.minIterations)
           /\ performance.iterations <= controls.maxIterations
      /\ stage = "returned" =>
           performance.converged \/ performance.iterations = controls.maxIterations

\* A singular coarsest matrix is found in the first cycle, before psi changes.
\* diagnostics() repeats the formulas of vCycle: a cycle has done those sweeps.
SolverSound ==
  /\ SolverTypeOK
  /\ LoopSound
  /\ stage = "thrown" => performance.iterations = 0
  /\ stage \in {"measure", "applied"} => \A l \in 0 .. nLevels - 1 : sweeps[l] = Diagnostics(l)

\* Whatever order the products are added up in, the traversals of GAMGKernels
\* return the product of the matrix of the level; the correction of the coarsest
\* level solves its equation.
KernelsExact ==
  stage = "up" /\ level = nLevels - 2 =>
    /\ Times(At(level + 1), corrections[level + 1]) = sources[level + 1]
    /\ \A l \in 0 .. nLevels - 1 :
         /\ Multiply(At(l), sources[l]) = Times(At(l), sources[l])
         /\ MultiplyOwnerAccumulated(At(l), sources[l]) = Times(At(l), sources[l])

NoPostSmoothing ==
  /\ ~controls.scaleCorrection
  /\ controls.nFinestSweeps <= 0
  /\ \A l \in 1 .. nLevels - 2 : PostSweeps(l) <= 0

\* A V-cycle leaves an exact solution alone.  Whatever the pre-smoother makes of
\* the levels, the coarsest one is solved for what it left over: with no
\* post-smoothing and no scaling, the new residual, added up over the finest
\* cells of each coarsest cell, is zero.
CycleCorrects ==
  [][FinishCycle =>
       /\ finestResidual = ZeroField(Finest.n) => psi' = psi
       /\ NoPostSmoothing =>
            LET left == MinusField(source, Times(Finest, psi'))
                holder == Holder
            IN  \A C \in CellsOf(Current) :
                  Total(LAMBDA c : left[c], {c \in CellsOf(Finest) : holder[c] = C}) = 0
    ]_solverVars

================================================================================
