# WavefrontGaussSeidel in TLA+

The repository reorders the rows of an LDU matrix into *wavefront levels*, so
that Gauss-Seidel sweeps can be run by several threads and still give the
values of the lexicographic sweep. This directory models

* the two halves of that claim and their meeting point: the **Index-Kahn
  builders** that produce orderings, the **OpenMP kernels** that walk them, and
  **Gauss-Seidel as a dataflow** between the two;
* the **serial and vector kernels** and the packed, compressed rows they read;
* the two **multigrid solvers** the smoothers are meant for: stock GAMG, and
  fwGAMG with its rows in forward order, shown to implement stock GAMG;
* the **OpenFOAM plugin**, whose schedules outlive the solves they are used in;
* the **benchmark runner**, the one program here that keeps state on disk and
  must survive crashes.

## 1. The system

| component | state it keeps | operations | interacts with |
|---|---|---|---|
| Index-Kahn builders, `src/WavefrontGaussSeidel.C` 16-828 | predecessor counters, ready set, growing permutation, level starts; a deque, a frozen frontier or an anchor in some | one call: check arguments, count, loop (choose, append, close level, release), check coverage, invert | called by the harness and by both multigrids; same algorithm in the plugin |
| Harness schedule builders, `tests/harness/ScheduleBuilder.C` | packed rows, degrees, blocks, thread counts, encodings | validate dependencies, pack, reorder, block, plan threads, encode | between builders and kernels |
| OpenMP kernels, `src/WavefrontGaussSeidel.C` 1061-1510, 2045-2130 | psi and edge values in shared memory, `detectedThreads` | one call: region(s), sweeps, levels, rows | read a schedule, write psi without locks |
| Serial and AVX kernels, symmetric smoother | psi | one call | as above, one thread |
| Reference smoother, `src/GaussSeidelSmoother.C` | psi, bPrime | sweeps with scattered lower contributions | what the kernels are compared with |
| LDU addressing, mesh reader, `compat/lduMatrix.H`, `src/PolyMeshReader.C` | faces grouped by owner, owner starts | validate, build owner starts | input of everything |
| GAMG, `src/GAMG` | levels, pair maps, face maps and flips, coarse matrices | pair, build coarse addressing, V-cycle, solve | smooths every level |
| fwGAMG, `src/fwGAMG` | the same with rows stored in Index-Kahn order | renumber between levels, fused residual and restriction | uses `makeIndexKahnOrdering` |
| OpenFOAM plugin, `openfoam-v2606` | schedules cached per mesh object and width | get or create, smooth | rebuilds after topology changes |
| Benchmark runner, `tools/benchmark_runner.py` | lock, status and result files | plan, run, resume, interrupt | starts the test programs |
| Mesh fetching, `meshes/fetch_mesh.py` | catalogue cache, installed meshes | fetch, verify, install | input of the harness |
| Registry, workload, variant selection, correctness runner, drivers, analysis tools, patches | tables and reports | set up, compare, print | - |

What makes each correct, and what is hard about it:

* **Builders.** Every cell gets one row; between the ends of every face lies a
  level boundary (`docs/HARNESS_REFACTOR.md` 33: "Every schedule must cover
  every cell and satisfy level[owner] < level[neighbour]"); the exception "did
  not cover all cells" means a dependency cycle and nothing else. The builders
  are sequential: the hard part is the order of choosing, releasing and
  refilling, multiple faces between two cells, cuts at the end of a ready set,
  and that a policy must not cost parallelism or starve a cell.
* **Kernels.** No data race on psi, the values of lexicographic Gauss-Seidel
  ("require exact equality", the same document), no row lost or done twice when
  the team has another size than planned, and no thread left at a barrier.
  Barriers are the only synchronisation, and one kernel lets threads choose
  between two branches with a barrier in each.
* **Serial kernels.** The contributions of the reference smoother, with its
  values and in its order, or only with its values where the kernel says so.
  Some kernels share a cursor between rows, gather several rows before they
  write one, keep psi in another numbering, or fetch ahead.
* **Reference smoother.** It is sequential. What its values depend on is stated
  abstractly, as the dataflow every kernel has to implement: rows in any order that
  feeds them the same values. No kernel uses all of that freedom: none starts a
  sweep before the one before it is complete.
* **Schedule builders.** Packing loses no contribution; encodings invert.
* **GAMG, fwGAMG.** Every fine cell and face maps to one coarse cell or face,
  coarse addressing is again upper triangular, numbering maps compose. The
  fields of a level are overwritten several times in one V-cycle and read in
  between; the residual that decides about convergence must belong to the
  present psi, also when a fused sweep has computed its product.
* **Plugin.** A cached schedule belongs to the addressing it is used with; the
  smoother makes the sweeps of OpenFOAM's own with the present coefficients.
* **Runner, fetching.** What was interrupted is never taken for complete.

## 2. Modules

| module | models | code |
|---|---|---|
| `LduAddressing` | addressing, orderings, `std::set` iteration | `compat/lduMatrix.H`, `PolyMeshReader.C` 332-365 |
| `WavefrontOrdering` | *abstract*: what every builder promises | the steps all builders share |
| `KahnFrontier` | counters, ready set, release, coverage check, inverse | `WavefrontGaussSeidel.C` 16-66 |
| `IndexKahn` | the production builder | 16-66 |
| `IndexKahnVariants` | nine experimental builders | 68-828 |
| `GaussSeidelDataflow` | *abstract*: which values a row may read | `GaussSeidelSmoother.C` 125-177 |
| `ThreadedSweep` | all OpenMP kernels, block division, thread plan | 1061-1510, 2045-2130, `ScheduleBuilder.C` 681-743 |
| `PackedRows` | packed rows, row orders, compressed columns | `ScheduleBuilder.C`, `WavefrontGaussSeidel.C` |
| `SerialSweep` | all serial and vector kernels, the reference and the symmetric smoother | `WavefrontGaussSeidel.C` 829-2043, `AVX512*.C`, `GaussSeidelSmoother.C`, `symGaussSeidelSmoother.C` |
| `PairAgglomeration` | the GAMG hierarchy: pairing, coarse addressing, coarse matrices | `GAMG/GAMGAgglomeration.C`, `GAMG/GAMGMatrix.C` |
| `MultigridKernels` | the kernels of stock GAMG, arithmetic modulo a prime | `GAMG/GAMGKernels.C` |
| `GAMGSolver` | V-cycle, `solve`, `applyVCycle`; extends `PairAgglomeration` and `MultigridKernels` | `GAMG/GAMGSolver.C` |
| `FwMatrix` | matrices in forward order, their views, products and fused sweeps | `fwGAMG/fwMatrix.C` |
| `FwSolver` | the fwGAMG hierarchy, renumbering, V-cycle, `solve`, `applyVCycle` | `fwGAMG/fwHierarchy.C`, `fwGAMG/fwGAMG.C` |
| `SmootherPlugin` | schedule cache and both smoothers of the plugin, solves and mesh changes around them | `openfoam-v2606/src/indexKahnSmoother` |
| `BenchmarkRunner` | the runner: lock, resume, children, signals, results and tables on disk | `tools/benchmark_runner.py` 131-175, 319-506, 552-787 |

The `...Proofs` and `...Theorems` modules hold the proofs (section 4). The `MC...`
modules give the constants their values for TLC; `MCMeshes` and `MCMultigrid`
hold what several of them share.

`IndexKahn` and `IndexKahnVariants` extend `KahnFrontier` and instantiate
`WavefrontOrdering` as their specification. `IndexKahnVariants` also
instantiates `IndexKahn`, for the builders that must make its levels.
`ThreadedSweep` takes as input the schedules `WavefrontOrdering` allows and
instantiates `GaussSeidelDataflow`. `SerialSweep` extends `PackedRows`.
`FwSolver` extends `GAMGSolver` and `FwMatrix`: fwGAMG calls the same
agglomeration, keeps the same members and counts sweeps and iterations the same
way; an action of its own begins with `Fw`. It also instantiates `GAMGSolver`, as
its specification.

**Representation.** Cells keep their numbers, since the builders compare and
subtract them; rows and `levelStarts` are 0-based as in the code, sequences
1-based as in TLA+. The CSR index `ownerStarts` is represented by the set of
faces of a cell. A row's value is represented by the number of sweeps that
produced it: a floating-point value is a function of the values read, so equal
sweep counts on every read give equal values when the operands are combined in
the same order. That order is what `SerialSweep` adds for the kernels of one
thread. One iteration of a builder's loop is one action: choice, append,
level starts and release of the successors. `std::runtime_error` is the
statuses `rejected` and `uncovered`.

In `ThreadedSweep` a phase is one `omp single` or one level of one sweep.
`Single`, `StartRow`, `FinishRow`, `Arrive` and `Leave` are steps of one
thread; a row is two steps so that its reads and writes overlap with those of
other threads. The kernels differ in the fields of `kernel`:

| kernel | share | regions | nowait | edges |
|---|---|---|---|---|
| `persistentOpenMpSmooth`, `...BlockedRowDegree...`, `...DirectCoefficient...` | static | one | no | no |
| `perLevelOpenMpSmooth` | static | perLevel | no | no |
| `persistentOpenMpHybridSmooth` | static | one | no | yes |
| `...AdaptiveBlockedRowDegree...` | adaptive | one | yes | no |
| `...ThresholdBlockedRowDegree...` | threshold | one | yes | no |

The barrier, the team and the division made by `schedule(static)` belong to the
OpenMP runtime and are marked external. A team keeps its size between the
regions of `perLevelOpenMpSmooth`.

In `SerialSweep` an action is one group of rows (one row, for most kernels), and
the variable `computed` lists for each cell the contributions that were
subtracted from its source: which face, which side, and the value it read, given
by the number of half-sweeps that have written it. Two kernels that agree on
these lists give the same bits. The kernels differ in the fields of a record
(where a row begins, how its columns are encoded, how many rows are gathered
before the first is written, where lower contributions come from, whether psi is
kept in row order, which instructions are needed and what happens without
them). The widths of the integer types are constants, so that small matrices
meet the escapes and limits of 8, 16 and 24 bits.

In `PairAgglomeration` each visit of a cell by `pairCells` is an action, and so is
each of the renumbering, the coarsening and the ways out. Provisional face
numbers are not represented: the coarse faces are what they are renumbered to,
sorted by owner and then by the first fine face. Coefficients are integers.
`matrices` is the `GAMGMatrixHierarchy`, which repeats the agglomeration's own
calls of `agglomerateMatrix`. `Coarsen` does not test what the constructor of
`GAMGMatrix` tests; `CoarseMatricesSound` shows that the tests would pass.

In `GAMGSolver`, `FwSolver` and `SmootherPlugin` the coefficients and fields are
integers modulo a prime P, which is 101 in the runs. There each division by a
nonzero number is exact, and two computations agree on all fields exactly when
they are the same rational function of their input, up to accidents that a
single small prime cannot exclude but that the variety of matrices and fields
makes unlikely. So the properties hold of the formulas, not of their rounding.
Magnitudes have no counterpart: the pivot is some nonzero entry instead of the
largest, and a norm is one of three classes (below the absolute tolerance, below
the relative one, above both), chosen freely unless the residual is zero. Every
outcome of `solve` that some floating-point run could have is a behaviour; an
action is one visit of a level by the V-cycle. `applyVCycle` is the same cycle
with no loop around it.

In `FwMatrix` the row order is any order in which an owner comes before its
neighbours, which is what the builders promise (`IndexKahnProofs`), or the
natural order. A cell has an agglomeration number, a native number on its level
(different if coarse cells are renumbered) and a row; the fields inside `solve`
are in row order. The traversals and fusions chosen by the options are operators
of their own, each translated from its function.

In `SmootherPlugin` a mesh holds its addressing and its cache. What OpenFOAM does
is marked external: it constructs smoothers for a solve and drops them
afterwards, deletes the coarse meshes when it agglomerates again, and deletes
the topological objects of an `fvMesh` when the topology changes. A coupled patch
is a coefficient between two cells that is applied to the source before each
sweep. `MaxDegree` stands for 255.

In `BenchmarkRunner` a runner is one operating-system process and names the only
attempt it makes at each task, so a process that is started again is another
runner. A key is a fingerprint (build, mesh, plan) with a task. One action is one
system call that others can see or that a signal can fall between: a lock, a
rename, a spawn, a kill. Writes that `atomic_json` makes through a temporary
file are one action, the rename; the directory is fsynced before the next step,
so losing power is the same as being killed. Of a result only its origin
matters: `result[k]` is the attempt whose figures `benchmark.json` holds, and
`digest` is the attempt whose file was hashed. The four tables are the table of
all and the one of the fingerprint, in both formats. `Signal` covers the first
SIGINT or SIGTERM, `Abandon` a second one that cuts `terminate_process_group`
short, and `Unwind` the `KeyboardInterrupt` of a child that was interrupted;
`ParentDeath` is Linux's `PR_SET_PDEATHSIG`, which the child asks for.

Operators introduced by a comment "Mutant" are not part of a specification.
Each is a defective form of the definition after it, and makes one property
fail when it takes that definition's place.

## 3. Runs

| run | instance | what it shows |
|---|---|---|
| `wavefront_ordering` | all 512 addressings of 3 cells | the abstract builder separates levels, gives each cell one row, reports a cycle exactly when there is one |
| `index_kahn` | 4 cells, up to two faces per pair; all addressings of 3 cells plus an isolated one; widths 0 to 5 | exact counters and ready set, inverse permutation, Graham's bound, refinement, termination |
| `variants` | 5 cells; all directed addressings of 3 cells plus two isolated ones; every builder, controls on both sides of their limits | refinement, each policy's own promise, termination; instrumented, oriented and full-width-window builders refine the production builder |
| `dataflow` | 3 cells, 0, 1 or 3 sweeps | sweeps overlap as a wavefront and finish |
| `threaded_sweep` | 4 rows cut into levels in all 8 ways, and a permuted schedule with a double face; 1 to 3 threads; blocks of 1 or 2; 0 or 2 sweeps | race freedom, Gauss-Seidel values, complete result, lockstep, refinement, termination |
| `serial_sweep` | 18 cells: two levels of nine rows of six entries, and many uneven levels with double faces; every kernel, 0 to 3 sweeps, small integer widths | kernels stay in their arrays, repeat the arithmetic of the reference smoother, and leave the result in psi |
| `gamg_solver` | agglomeration: all 4-cell matrices with two weights, parts of a 2 x 3 grid, chains of 7 cells, 3 cells with double faces; solving: the latter, chains of 5 and 8 cells, a mesh of 5 cells, a singular one; eleven controls; repeated calls | connected clusters, halving, valid coarse addressing, Galerkin products; residual and psi belong together, exact kernels, the V-cycle is a coarse correction |
| `fw_solver` | chain of 8, 2 x 3 grid, double faces, a singular one; all forward orders; every traversal and fusion, with renumbering and without | packed levels are the stock matrices permuted, fused products are current; without renumbering fwGAMG implements stock GAMG, field by field |
| `smoother_plugin` | three fine and two coarse meshes, two widths, both smoothers, cutoffs on both sides; changes of topology and agglomeration between solves; a cell whose degree does not fit | cached schedules are current, every call smooths like `GaussSeidelSmoother` |
| `runner_crashes` | 3 runners, 2 fingerprints, 1 task, killed or interrupted at any step | rows, statuses, tables and exit codes stay coherent, results are not taken back |
| `runner_lock` | 1 runner, 1 fingerprint, 3 tasks | the lock is given back, no task runs beside the child of another |
| `runner_group` | 2 runners, 1 fingerprint, 1 task | *violated*: see Finding below |

**Bounds.** Four and five cells suffice for a ready set larger and smaller than
the width, for a partial last chunk, for three dependent levels beside cells
that wait, for two owners in one chunk and a double face. `ReadyFloor` and
`ReadyCap` stand for 256 and 8192 and are 2 and 3 in the runs. The kernels never
look at the faces, so for a cut into levels the mesh with all faces between
different levels is the hardest one; two sweeps are needed for a value that is
a sweep too old. Three threads give shares of unequal size, an empty share, and
a team larger or smaller than planned.

Eighteen cells give levels of more than the eight lanes of AVX-512 and rows of six
entries, which one kernel treats apart. In the agglomeration, six cells give a
second level with cells left over and a backward pass that renumbers; the chains
of seven and eight are coarsened three times, so that a middle level of the
solvers has a pre-smoother, a coarse correction and a post-smoother. They make
at most `maxIterations` cycles, which is 2 or less there: the third would
meet no other stage. `MaxSmooths` = 2 calls per smoother are the pre- and the
post-smoothing of a level; `MaxSweeps` = 2 is the least number with a sweep that
starts from the values of another.

Three runners are one that completes a task, one that is killed halfway through
it, and one that comes after both; the fingerprints and the runners are
interchangeable, so that run uses symmetry. `NextTaskAlone` and `LockReleased`
are about the steps of one runner between its tasks: another runner is refused
while it holds the lock, and has only left files behind before that. The first
is also proved for any number of runners; the second is a liveness property and
is checked without symmetry.

**Finding.** `GroupKilledOnReturn` states the comment at
`tools/benchmark_runner.py` 586: "The group can outlive its leader [...]. Always
probe and kill the remaining group before returning." The function does return
without it, at line 576, when the leader has ended by itself between the timeout
and the `poll`. What the leader had started then runs on beside the next task.
The runner does keep the weaker `NextTaskAlone`: the leader itself is gone.

**What some properties are about.**

* `GrahamBound`: a policy does not waste parallelism. With levels of width w the
  number of levels stays within the bound of list scheduling (n + (w-1)d)/w, d
  being the longest chain.
* `KeepsItsPolicy` joins it with what each experimental builder promises.
  `NaturalFrontiers` determines the unbounded, sliced and frontier-continuing
  orderings completely. It shows that the last two are the same ordering: the
  frontier-continuing builder starts at the least cell of a frontier and never
  adds to it, so it never wraps around. `WaitsOneSweep` is the reason for the
  continuing builder's anchor.
* `SweepsAreGaussSeidel`: every value a thread reads is the one lexicographic
  Gauss-Seidel reads (`ReadsAreGaussSeidel`), and no row is lost or done twice
  when the kernel returns (`ResultComplete`).
* `SameArithmetic`: what is subtracted from the source of a cell is, entry by
  entry, what the reference smoother subtracts; also in the same order, unless
  the kernel adds in lanes or reads rows sorted by column. These are the kernels
  for which `docs/HARNESS_REFACTOR.md` allows a tolerance.
* `LevelsSound`: `ClustersSound` implies the halving of the cells that keeps the
  hierarchy short (a cell is never left alone while it has a neighbour);
  `CoarseMatricesSound` says that the tests in the constructor of `GAMGMatrix`
  would pass.
* `Galerkin` compares each level with the finest matrix, not with the one before,
  and so checks the composition of the maps (`tests/GAMGTests.C` compares adjacent
  levels on one vector).
* `SolverSound`: what `solve` reports belongs to the psi it returns; a singular
  coarsest matrix is met before psi is changed; `diagnostics()`, which repeats the
  sweep formulas of `vCycle`, predicts the sweeps made.
* `CycleCorrects`: without post-smoothing and scaling the new residual adds up to
  zero over every coarsest cell, whatever the pre-smoothers did. A source or a
  correction read one step too late breaks this.
* `HierarchySound`: three numberings per level, each with its inverse, come out
  right: matrices read back from packed rows, renumbered, ordered and packed
  again are the stock matrices permuted.
* `ProductCurrent` and `ImplementsStock`: the fused sweeps return the product of
  the psi they leave, and fwGAMG makes the iterations of stock GAMG. With coarse
  cells renumbered the sweeps of a coarse level go through its cells in another
  order, and it does not; `ImplementsStock` (like `SameLevelsAsProduction`) is
  therefore the refinement under a condition that is fixed by the options.
* `SmoothsLikeGaussSeidel`: whatever the width, the cutoff, the kind of smoother
  and the changes of the mesh, `smooth` makes as many sweeps as asked of OpenFOAM's
  `GaussSeidelSmoother` with the matrix of the present solve.
* `RowsCoherent` is what the sha256 in `status.json` is for: after a crash between
  the rename of `benchmark.json` and the write of `status.json` the two describe
  different attempts, and the row must wait for the next.
* `ExitsCurrent`: the tables and the exit code of a runner that leaves by itself
  are those of what is on disk.

**Fairness.** A builder is one sequential call, so weak fairness of its
next-state relation says that it keeps running. A kernel has weak fairness per
thread of the team: the operating system runs every thread, and nothing is
assumed about who is first. Deadlock checking is off because calls and regions
end; that they end in the right state is checked by `Terminates` and
`SweepsAreGaussSeidel`. A runner has weak fairness of its own steps,
`Step(r)`, since it is a sequential process that waits only with a timeout. There
is none for its child, which may hang, nor for signals, kills and starts. The
deadlock check is off because runners end. The solvers and the plugin have no
liveness property: every loop in them is bounded by a control, and the deadlock
check, which is on for them, shows that no stage is left without a successor.

## 4. Proofs

TLAPS proves, for every value of the constants (number of cells, addressings,
widths, controls, matrices, teams, runners):

* `PromisesProofs`: the two abstract specifications. All safety properties of the
  abstract builder (`WellFormed`, `LevelsSeparated`, `RefusesExactlyCycles`): types,
  injectivity, separation and bracketing are proved together, since a chunk is
  separated from its owners because the old `levelStarts` ends at the old number
  of rows, which is what `LevelsBracketRows` adds to make separation inductive.
  `UncoveredOnlyOnCycle` takes the cells without a row as the cycle;
  `NoOrderOnCycle` takes the cell of a cycle with the least row. Of the dataflow
  `Overlap`, and from it `NeverStuck`: the least cell among those with the fewest
  sweeps can be updated.
* `PromisesProofs`, of the serial and vector kernels: `InBounds`, `SameArithmetic` and
  `ResultInPsi`, for any matrix, levels, arrangement of the rows, integer widths,
  lanes and sweeps. `SameArithmetic` speaks of the last group only, so the
  invariant behind it (`SerialIInv`) says what every piece of state holds in
  between. The schedule is a function of the arguments (`ScheduleOK`). The cursor
  of a kernel without `rowStarts` is where the next row begins (`PlaceOK`). What
  psi, its copy in row order and the edge values hold follows from the place that
  the sweep has reached (`MemoryOK`). bPrime holds the lower contributions
  scattered so far, from the forward half as well in a symmetric sweep
  (`ScatterOK`). About the schedule there are four facts: packed rows are the rows
  of the matrix (`RowEntriesAre`); the encodings return every column that they
  accept (`Int16Back`, `DeltaBack`, `Uint24Back`); no group crosses a level
  (`GroupFacts`), so that of the neighbours of a group the lower ones are updated
  and the upper ones are not (`RowsFacts`); lanes and sorted columns rearrange
  the terms of a row but add and lose none (`LanesIs`, `RowEntriesAre`).
* `KahnFrontierProofs`: what all ten builders share. `Begin`, `Emit` and `Return`
  keep the counters exact, and release exactly the cells that become free, for any
  policy that chooses from the free cells (`FrontierOK`). For Graham's bound it adds
  `DepthsFound` and `WorkIsSpread`. The depth of a cell is defined by recursion on
  the length of the chains considered, so that it exists on cyclic addressings too.
  That it satisfies its own equation, one more than the deepest owner, holds only for
  cells that no cycle holds up: for those with a row, because the rows themselves bound
  the chains (`DepthReached`), and for those released next (`DepthAbove`). A released
  cell is one deeper than its deepest owner, and waited for a cell of the chunk
  (`EmitDepths`). Levels of full width are
  charged to the cells they hold. A narrower one empties the frontier, so what
  becomes free after it lies deeper; it is charged to that depth (`Potential`,
  `WideLevel`, `LastLevels`).
* `IndexKahnProofs`: the production builder's `Bookkeeping`, its refinement of the
  abstract builder (`BuilderImplements`) and its `GrahamBound`. The inductive
  invariant says that each counter equals the number of incoming faces whose
  owner has no row (`CountersExact`), and that the ready set is the set of
  cells without a row whose counter is zero; so the first `targetWidth` of them
  are a chunk the abstract builder may emit.
* `IndexKahnVariantsProofs`: for the nine experimental builders `Bookkeeping`, the
  refinement (`VariantImplements`), `WindowIsFifo` and `KeepsItsPolicy`. Its invariant
  says that every free cell is in exactly one of ready set, window and frozen
  frontier, and that the window is full unless nothing else is ready; every
  policy is then shown to take a chunk of free cells and to cut it at increasing
  rows that end with it (`Appends`). `Bookkeeping` includes `HeadDiagnosticsAgree`,
  that two figures the instrumented builder computes independently agree, and
  `SearchRangeSound`, that the ready-fraction builder cuts inside its range.
  The four parts of `KeepsItsPolicy` have an invariant each. `WidthInv` carries
  `GrahamBound`. `WaveInv`, behind `NaturalFrontiers`: the cells a chunk may be taken
  from have one depth, those that wait for them are one deeper, and of that depth only
  a multiple of the width, all of lower index, has rows already. `SweepInv`, behind
  `WaitsOneSweep`: since a waiting cell became ready the rows have not fallen to lower
  indices, or have once and the sweep has not yet come to the cell. `TotalsInv`, behind
  `DiagnosticsAddUp`: the chunks reported add up to the rows, the releases to the
  rows and the ready set less the cells ready at the start.
* `GAMGProofs`, of the agglomeration: `LevelsSound` and `Galerkin`, for any finest
  matrix that the constructor of `GAMGMatrix` accepts and any controls. While cells are paired
  (`Partial`) every cluster is connected and has two cells or more, none of them
  isolated, and every cell visited is placed or isolated. So only isolated cells
  are left over, and the halving follows (`Complete`). Coarse faces are the places
  of their first fine faces in a strict order, by owner and then by number: that
  these places are 0, 1, ... without a gap (`PlacesFill`) gives the one-to-one
  numbering, the grouping by owner and the upper triangle. `Galerkin` compares
  with the finest matrix and is not inductive. What is inductive is `IsProduct`:
  there are a map of cells (`Holder`) and a map of faces by which the current
  matrix collects the finest one. Such products compose (`ProductsCompose`). The
  sums of the model are folds that choose their elements in some order;
  `SumRemove`, `SumUnion` and `SumGroups` show that the order does not matter. The
  induction they need is made over a set of sets that takes the place of a
  predicate (`RemovalInduction`), from the least element of a set of naturals.
* `GAMGProofs`, of the kernels: the loops of the model are folds over sequences,
  which are defined by a function that refers to itself. `FoldsExist` shows that
  there is one, `FoldRuns` that over 1..n it is the loop from 1 to n, so that the
  rest of the argument has a state after each step. `Multiply` and
  `MultiplyOwnerAccumulated` compute the matrix product (`MultiplyIsTimes`,
  `OwnersAreTimes`): after k faces, or owners, each entry is the sum over the faces
  seen so far. Each elimination step leaves a system with the same solutions and one
  more column of zeros, and a diagonal of pivots that are not zero
  (`StepSolves`, `StepTriangular`); the substitution solves the rows from the last to
  the first (`SubstitutionSolves`); so `SolveDense` solves what is not reported
  singular (`SolveDenseSolves`). Division is by the inverse modulo P, which exists
  because P is prime (`InverseExists`, from the least positive a * x modulo P). The
  other kernels are shown to return fields of their level.
* `GAMGProofs`, of the solver: `SolverSound` and `KernelsExact`, for any hierarchy,
  controls and calls. Both speak of single moments (a return, a throw, the way up
  from the coarsest level), so the invariant `SInv` says what is up to date in
  between: which sources and corrections are fields of their levels at each place
  of the cycle (`CycleFields`); that the residual kept is that of psi whenever the
  loop is at its head (`ResidualKnown`); iterations, history and `converged`
  (`Counted`); the sweeps made on the levels already visited (`SweepsDone`); that a
  coarsest matrix that was solved once is not singular, which is why a throw leaves
  psi as it was (`NonsingularFound`); and that the coarsest correction solves its
  equation until the cycle moves on (`CoarsestExact`). It rests on the invariant of
  the agglomeration, whose matrices do not change once they are built
  (`LevelsStay`).
* `FwProofs`, of the packed matrices of fwGAMG, for any matrix, row order and field.
  `IsPacked` says what `Pack` makes: permutations that are inverse to each other, and
  of each row the faces of its cell in some order. Natural and forward orders put
  every owner first (`NaturalIsOrder`, `ForwardIsOrder`), so incoming entries lie below
  the diagonal, outgoing ones above it, and the views have every face once
  (`PackingSound`). A product over any list of the faces is the sum of the rows
  (`EdgeProductIs`), and so are the one by rows and the one that holds the owner back
  (`ProductsAgree`). A sweep replaces one row after the other: below a row it reads
  what the sweep leaves, above it what the sweep has found (`SweepRow`). From that
  follow the fusions (`FusionsAgree`). The incoming-held one adds to a row its final
  lower neighbours at once, and its upper ones when they are final (`FusedRun`). The
  delta ones use that the row's equation held exactly when the row was done, so its
  product is the source plus what the later rows have changed since; the deltas are
  read upwards from the row, before they are overwritten (`CorrectionRuns`,
  `CorrectedDelta`). The diagonals must not vanish modulo P.
* `FwProofs`, of the solver over these matrices: `HierarchySound` and
  `ProductCurrent`, for any matrices, options, controls and calls. Their invariant
  is `FwInv`. Its first part, `Packaged`, follows the construction: the agglomeration
  that runs underneath has the levels that were collected so far (`Agglomerated`);
  a packed level is the matrix of its level renumbered and then packed in some order
  of its rows (`PackedLevel`), and the row map below it is the way from row to native
  cell to agglomeration number and back up on the next level (`DirectMap`). The step
  that needs it is `BuildCoarseOperator`: the coarse faces are the groups of fine
  faces that join the same two cells, and collecting them in the numbering of the
  packed matrix gives the groups of the stock agglomeration, renumbered
  (`BuildFinestJoins`, `BuildCoarseJoins`); renumbered faces are turned and sorted
  so that they are addressed upwards and grouped by owner again (`PlacesInverse`).
  The rest of `FwInv` is about the cycle: the fields of the levels it is on have the
  size of their level (`FwCallFields`, `CycleFields`, `NormsListed`), and
  `ProductKnown` says where the product of psi is up to date: at the head of the loop,
  and after a fused last sweep already when the residual is measured, which is
  where `FusionsAgree` is used. A cycle without finest sweeps multiplies instead.
* `RuntimeProofs`: all safety properties of the OpenMP kernels (`NoDataRace`,
  `Disciplined`, `SweepsAreGaussSeidel`) and, but for fairness, their refinement of
  `GaussSeidelDataflow` (`KernelsImplementDataflow`), for any schedule, block size,
  plan, team and number of sweeps. The argument has three parts. `SharesTile` is
  arithmetic: the shares of a level follow one another from its first row to its
  last, even when the team is smaller than the plan. `BarrierInv` says where a
  thread stands in its share, and that threads differ by one phase at most, the one
  behind being at the barrier (`InStep`; the two ends of a nowait single differ);
  so two threads that are in a row are in the same level, in different shares, and
  no level holds both ends of a face. `ValuesInv` says what each cell holds: the
  number of times the thread that has its row has walked its level (`Swept`), plus
  one if that thread is past the row. From it `OthersSettled` reads off that a row
  in sweep s finds s + 1 in all earlier levels and s in all later ones, and
  `FaceLevels` that these are its lower and its upper neighbours.
* `RuntimeProofs`, of the benchmark runner: `RowsCoherent`, `Explained`, `NextTaskAlone`,
  `CompleteIsKept` and `ExitsCurrent`, for any number of runners, tasks and fingerprints. All rest on
  `Located`: whoever is at work holds the lock. `Traceable` adds to `RowsCoherent`
  that the holder hashes the result it has published itself; `Historical` adds
  to `StatusHasAttempt` that an attempt is recorded once it has ended and is not
  touched again; `ChildKnown` that a child is alive only while its runner waits
  for it, or was interrupted with it, or is gone; `NothingUndone` that a runner
  that resumes never works on a complete task; `Accounted` that with a clean exit
  code every task is still to be looked at, under way or complete; `Tabled` that
  the tables written so far hold what collect_rows returned, which is still what
  is complete.
* `RuntimeProofs`, of the plugin: `SchedulesCurrent`, for any meshes, controls and solves.
  The property is inductive once `Shaped` says that a mesh is a record of three
  fields: a cache is only written with the schedule of the addressing beside it,
  addressings change only together with their caches, and only when no smoother
  is left to point into them.
* `LduAddressingTheorems`: finite sets, concatenation and injectivity, the
  arrangement of a set in a strict order and ascending lists in particular, sums
  over intervals, and that upper-triangular addressing has no cycle.

The assumptions are `NCells \in Nat`, well-formed addressings
(`MeshesAssumption`), matrices as the constructor of `GAMGMatrix` demands them
(`MatricesAssumption` of the multigrid), start fields that fit the matrix or are
refused (`StartsAssumption`), integer controls (`ControlsAssumption`), finest
diagonals that are not zero modulo P, because the sweeps divide by them
(`DiagonalAssumption`, only for fwGAMG), a prime P,
well-typed requests and sweep counts, and that `None` is no runner, fingerprint, key or status. For the serial kernels the
`MatricesAssumption` of `SerialSweep` demands levels without gaps that increase along
every face, as the builders give them (`LevelsSeparated`), and upper-triangular
faces grouped by owner, as `PolyMeshTopology::validate` does. TLC evaluates all of them
in every run.

**Only model-checked.** Liveness (`Terminates`, `SweepsComplete`, `LockReleased`),
which the installed provers cannot handle. Of the experimental builders,
`SameLevelsAsProduction`, which compares two runs of the builder level by level. Of the solver,
`CycleCorrects`, which compares a whole cycle with the one before. Of fwGAMG,
`ImplementsStock`, which compares every kernel of a cycle on the packed levels with
the stock one.
The plugin's `SmoothsLikeGaussSeidel`, which compares with OpenFOAM's sweeps on small
matrices.

**Not modelled.** Floating-point rounding and magnitudes; cache behaviour, timing
and reporting, L1 eviction; file parsing. The 32-bit product `nBlocks*thread`
(`WavefrontGaussSeidel.C` 1303) is taken as an exact integer: it overflows only
for more than 2^31 / team blocks in one level. The runner's `--dry-run`, which
ends before anything is shared, and the validation of the contents of a result
are left out as well. Components left out, with the reason:

* *Mesh fetching*: downloads and unpacks; planned below.
* *Harness registry, workload, correctness runner, benchmarks and tests*: they
  call the modelled kernels in straight lines and compare or time the results.
* *Analysis tools*: offline statistics of orderings, whose output nothing reads.
* *OpenFOAM patches*: the plugin's text in the form of patches.
* Of the schedule builders, the orderings that only serve as a comparison; of
  the mesh reader, the parsing of files; of the reference smoother, the negation
  of the coupled coefficients around its sweeps.

## 5. Plan

1. *Proofs for fwGAMG*: `ImplementsStock` step by step. The levels correspond by
   `Packaged`; what is left is that each step of the cycle commutes with the numbering.
2. *Mesh fetching* (`meshes/fetch_mesh.py`): what an interrupted fetch leaves.
3. *Comparison orderings* of `ScheduleBuilder.C`, and the connection of
   `ThreadedSweep` with the packed rows of `PackedRows`.
