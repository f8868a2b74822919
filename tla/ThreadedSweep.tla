---------------------------- MODULE ThreadedSweep ----------------------------
(***************************************************************************)
(* The OpenMP smoother kernels: a team of threads walks the levels of a    *)
(* wavefront schedule, each thread updating its share of the rows of a     *)
(* level, with barriers between levels and no lock on psi.                 *)
(*                                                                         *)
(* A thread's control is a phase (an "omp single" or one level of one      *)
(* sweep) and, in a level, the interval next..stop-1 of rows it still has  *)
(* to do.  A row takes two steps, so that the reads and the write of one   *)
(* thread interleave with those of the others.  Values are represented by  *)
(* the number of sweeps that produced them, as in GaussSeidelDataflow.     *)
(***************************************************************************)
EXTENDS LduAddressing

CONSTANTS
  Schedules,    \* records [mesh, newToOld, levelStarts]
  Kernels,      \* records, see KernelsAssumption
  MaxThreads    \* largest team the runtime may form

IsSchedule(s) ==
  /\ IsAddressing(s.mesh)
  /\ s.newToOld \in Seq(Cells)
  /\ IsInjective(s.newToOld)
  /\ Range(s.newToOld) = Cells
  /\ s.levelStarts \in Seq(Nat)
  /\ BracketsRows(s.newToOld, s.levelStarts)
  /\ SeparatesLevels(s.mesh, s.newToOld, s.levelStarts)

\* The schedules the ordering builders return (see WavefrontOrdering).
ASSUME SchedulesAssumption == \A s \in Schedules : IsSchedule(s)

\* The control structure of each kernel.  share: how a level is divided;
\* regions: "one" parallel region around all sweeps or one "perLevel"; nowait:
\* of the single at its head; edges: lower contributions travel through
\* edgeValues instead of psi.
Persistent ==
  [share |-> "static", regions |-> "one", nowait |-> FALSE, edges |-> FALSE]

DirectCoefficient ==
  [share |-> "static", regions |-> "one", nowait |-> FALSE, edges |-> FALSE]

BlockedRowDegree ==
  [share |-> "static", regions |-> "one", nowait |-> FALSE, edges |-> FALSE]

AdaptiveBlocked ==
  [share |-> "adaptive", regions |-> "one", nowait |-> TRUE, edges |-> FALSE]

ThresholdBlocked ==
  [share |-> "threshold", regions |-> "one", nowait |-> TRUE, edges |-> FALSE]

Hybrid ==
  [share |-> "static", regions |-> "one", nowait |-> FALSE, edges |-> TRUE]

PerLevel ==
  [share |-> "static", regions |-> "perLevel", nowait |-> FALSE, edges |-> FALSE]

\* A call of one of them.  block: rows per block (1 in the kernels that divide
\* rows); widthTwo, widthFull and configured: arguments of
\* makeAdaptiveBlockedRowDegreeSchedule, which throws outside these limits.
ASSUME KernelsAssumption ==
  \A k \in Kernels :
    /\ \E shape \in {Persistent, DirectCoefficient, BlockedRowDegree,
                     AdaptiveBlocked, ThresholdBlocked, Hybrid, PerLevel} :
         \A field \in DOMAIN shape : k[field] = shape[field]
    /\ k.block \in Nat \ {0}
    /\ k.widthTwo \in Nat /\ k.widthFull \in Nat /\ k.widthTwo <= k.widthFull
    /\ k.configured \in 1 .. 255
    /\ k.nSweeps \in Nat

ASSUME MaxThreadsAssumption == MaxThreads \in Nat \ {0}

Threads == 0 .. MaxThreads - 1

VARIABLES
  mesh, newToOld, levelStarts,  \* the schedule
  kernel,                       \* the kernel called, with its controls
  team,                         \* omp_get_num_threads() in the region
  sweeps,                       \* per cell: sweeps that have written psi
  edgeSweeps,                   \* per face: sweeps that have written edgeValues
  detectedThreads,              \* the out argument; 0 before it is written
  singles,                      \* phases whose single a thread has taken
  phase, at, next, stop         \* per thread: see above

schedule == <<mesh, newToOld, levelStarts, kernel, team>>
memory == <<sweeps, edgeSweeps, detectedThreads, singles>>
control == <<phase, at, next, stop>>
vars == <<schedule, memory, control>>

Team == 0 .. team - 1

nLevels == Len(levelStarts) - 1
nSweeps == kernel.nSweeps

-----------------------------------------------------------------------------
(* Phases in program order. *)

\* one region: the single, then sweep by sweep, level by level;
\* a region per level: each of them starts with a single
Phases ==
  IF kernel.regions = "one" THEN 1 + nSweeps * nLevels ELSE 2 * nSweeps * nLevels

IsSingle(p) ==
  p < Phases /\ IF kernel.regions = "one" THEN p = 0 ELSE p % 2 = 0

\* the level (1-based) walked in phase p
LevelOf(p) ==
  1 + ((IF kernel.regions = "one" THEN p - 1 ELSE p \div 2) % nLevels)

-----------------------------------------------------------------------------
(* Division of a level among the threads. *)

LevelBegin(level) == levelStarts[level]
LevelEnd(level) == levelStarts[level + 1]
LevelWidth(level) == LevelEnd(level) - LevelBegin(level)

\* Mutant: the incomplete block is forgotten.
BlocksFull(level) == LevelWidth(level) \div kernel.block

\* blocks of kernel.block rows, the last one of a level shorter
Blocks(level) == (LevelWidth(level) + kernel.block - 1) \div kernel.block

\* row at which a block of the level starts, or the end of the level
RowAt(level, block) == AtMost(LevelBegin(level) + block * kernel.block, LevelEnd(level))

\* makeAdaptiveBlockedRowDegreeSchedule: threads for a level of that width
Scheduled(level) ==
  LET width == LevelWidth(level)
  IN  IF kernel.configured > 2 /\ width >= kernel.widthFull
        THEN kernel.configured
      ELSE IF kernel.configured > 1 /\ width >= kernel.widthTwo
        THEN 2
      ELSE 1

\* schedule(static) without a chunk size: the first n % team threads get one
\* block more than the others
StaticStart(t, n) == t * (n \div team) + AtMost(t, n % team)

\* Mutant: the adaptive division ignores that the team may be smaller.
ShareStartPlanned(t, level) ==
  LET n == Blocks(level)
      active == Scheduled(level)
  IN  CASE kernel.share = "adaptive"  -> (n * AtMost(t, active)) \div active
        [] kernel.share = "threshold" ->
             IF Scheduled(level) = 1 /\ team > 1
               THEN (IF t = 0 THEN 0 ELSE n)
               ELSE StaticStart(t, n)
        [] OTHER -> StaticStart(t, n)

\* the first block of thread t's share of a level; its share ends where the
\* share of t + 1 begins
ShareStart(t, level) ==
  LET n == Blocks(level)
      active == AtMost(team, Scheduled(level))
  IN  CASE kernel.share = "adaptive"  -> (n * AtMost(t, active)) \div active
        [] kernel.share = "threshold" ->
             IF Scheduled(level) = 1 /\ team > 1
               THEN (IF t = 0 THEN 0 ELSE n)
               ELSE StaticStart(t, n)
        [] OTHER -> StaticStart(t, n)

IsLevel(p) == p < Phases /\ ~IsSingle(p)

FirstRow(t, p) ==
  IF IsLevel(p) THEN RowAt(LevelOf(p), ShareStart(t, LevelOf(p))) ELSE 0

\* Mutant: "<=" for "<".
EndRowInclusive(t, p) ==
  IF IsLevel(p)
    THEN AtMost(RowAt(LevelOf(p), ShareStart(t + 1, LevelOf(p))) + 1, NCells)
    ELSE 0

EndRow(t, p) ==
  IF IsLevel(p) THEN RowAt(LevelOf(p), ShareStart(t + 1, LevelOf(p))) ELSE 0

-----------------------------------------------------------------------------
Init ==
  /\ \E s \in Schedules :
       /\ mesh = s.mesh
       /\ newToOld = s.newToOld
       /\ levelStarts = s.levelStarts
       /\ edgeSweeps = [f \in Faces(s.mesh) |-> 0]
  /\ kernel \in Kernels
  /\ team \in 1 .. MaxThreads
  /\ sweeps = [c \in Cells |-> 0]
  /\ detectedThreads = 0
  /\ singles = {}
  /\ phase = [t \in Threads |-> 0]
  /\ at = [t \in Threads |-> "run"]
  /\ next = [t \in Threads |-> 0]
  /\ stop = [t \in Threads |-> 0]

\* thread t goes on to the next phase
Advance(t) ==
  LET p == phase[t] + 1
  IN  /\ phase' = [phase EXCEPT ![t] = p]
      /\ at' = [at EXCEPT ![t] = "run"]
      /\ next' = [next EXCEPT ![t] = FirstRow(t, p)]
      /\ stop' = [stop EXCEPT ![t] = EndRow(t, p)]

Wait(t) ==
  /\ at' = [at EXCEPT ![t] = "barrier"]
  /\ UNCHANGED <<phase, next, stop>>

\* omp single: the first thread to arrive takes it, every thread waits for
\* the others at its end unless the clause says nowait
Single(t) ==
  /\ IsSingle(phase[t])
  /\ at[t] = "run"
  /\ singles' = singles \cup {phase[t]}
  /\ detectedThreads' =
       IF phase[t] = 0 /\ phase[t] \notin singles THEN team ELSE detectedThreads
  /\ IF kernel.nowait THEN Advance(t) ELSE Wait(t)
  /\ UNCHANGED <<schedule, sweeps, edgeSweeps>>

\* thread t starts to read what row next[t] needs
StartRow(t) ==
  /\ IsLevel(phase[t])
  /\ at[t] = "run"
  /\ next[t] < stop[t]
  /\ at' = [at EXCEPT ![t] = "row"]
  /\ UNCHANGED <<schedule, memory, phase, next, stop>>

CellOf(row) == newToOld[row + 1]

\* psi[cell] = psii/diag[row], then edgeValues of the faces the cell owns
FinishRow(t) ==
  LET cell == CellOf(next[t])
      owned == OwnedFaces(mesh, {cell})
  IN  /\ at[t] = "row"
      /\ sweeps' = [sweeps EXCEPT ![cell] = @ + 1]
      /\ edgeSweeps' =
           [f \in Faces(mesh) |->
              IF kernel.edges /\ f \in owned THEN sweeps[cell] + 1 ELSE edgeSweeps[f]]
      /\ next' = [next EXCEPT ![t] = @ + 1]
      /\ at' = [at EXCEPT ![t] = "run"]
      /\ UNCHANGED <<schedule, detectedThreads, singles, phase, stop>>

\* Mutants: the loop is marked nowait; a thread without a share skips the
\* barrier of the others.
ArriveNowait(t) ==
  /\ IsLevel(phase[t])
  /\ at[t] = "run"
  /\ next[t] >= stop[t]
  /\ Advance(t)
  /\ UNCHANGED <<schedule, memory>>

ArriveWithShare(t) ==
  /\ IsLevel(phase[t])
  /\ at[t] = "run"
  /\ next[t] >= stop[t]
  /\ FirstRow(t, phase[t]) < EndRow(t, phase[t])
  /\ Wait(t)
  /\ UNCHANGED <<schedule, memory>>

\* the share is done: barrier of "omp for", explicit barrier or end of region
Arrive(t) ==
  /\ IsLevel(phase[t])
  /\ at[t] = "run"
  /\ next[t] >= stop[t]
  /\ Wait(t)
  /\ UNCHANGED <<schedule, memory>>

\* a thread leaves a barrier after all threads have reached it
Leave(t) ==
  /\ at[t] = "barrier"
  /\ \A u \in Team :
       phase[u] > phase[t] \/ (phase[u] = phase[t] /\ at[u] = "barrier")
  /\ Advance(t)
  /\ UNCHANGED <<schedule, memory>>

Step(t) == Single(t) \/ StartRow(t) \/ FinishRow(t) \/ Arrive(t) \/ Leave(t)

Next == \E t \in Team : Step(t)

Spec == Init /\ [][Next]_vars

\* every thread of the team keeps running
FairSpec == Spec /\ \A t \in Threads : WF_vars(t \in Team /\ Step(t))
-----------------------------------------------------------------------------
TypeOK ==
  /\ team \in 1 .. MaxThreads
  /\ sweeps \in [Cells -> Nat]
  /\ edgeSweeps \in [Faces(mesh) -> Nat]
  /\ detectedThreads \in 0 .. MaxThreads
  /\ singles \in SUBSET (0 .. Phases)
  /\ phase \in [Threads -> 0 .. Phases]
  /\ at \in [Threads -> {"run", "row", "barrier"}]
  /\ next \in [Threads -> 0 .. NCells]
  /\ stop \in [Threads -> 0 .. NCells]

InRow == {t \in Team : at[t] = "row"}

\* cells whose psi (or edge values) the row of a cell reads
Neighbours(c) ==
  {mesh.lower[f] : f \in IncomingFaces(mesh, c)}
    \cup {mesh.upper[f] : f \in OwnedFaces(mesh, {c})}

\* No two threads access the same psi entry or edge value at the same time
\* when one of them writes it.
NoDataRace ==
  \A t, u \in InRow :
    t # u =>
      LET c == CellOf(next[t])
          d == CellOf(next[u])
      IN  c # d /\ c \notin Neighbours(d)

\* As long as a thread reads, what it reads are the values of lexicographic
\* Gauss-Seidel: new ones below, old ones above.  Kernels with edge values
\* read the lower contributions there, written by this very sweep.
ReadsAreGaussSeidel ==
  \A t \in InRow :
    LET c == CellOf(next[t])
    IN  /\ \A f \in IncomingFaces(mesh, c) :
             (IF kernel.edges THEN edgeSweeps[f] ELSE sweeps[mesh.lower[f]])
               = sweeps[c] + 1
        /\ \A f \in OwnedFaces(mesh, {c}) : sweeps[mesh.upper[f]] = sweeps[c]

\* The kernels implement the Gauss-Seidel dataflow, whatever the team size,
\* the interleaving and the division of the levels.
Dataflow ==
  INSTANCE GaussSeidelDataflow WITH
    addressing <- mesh,
    Meshes <- {s.mesh : s \in Schedules},
    SweepCounts <- {k.nSweeps : k \in Kernels}

Implements == Dataflow!FairSweepSpec

Finished == \A t \in Team : phase[t] = Phases

\* After the region every cell has been swept nSweeps times, and the caller
\* is told the size of the team (if there was a region).
ResultComplete ==
  Finished =>
    /\ \A c \in Cells : sweeps[c] = nSweeps
    /\ detectedThreads = IF Phases = 0 THEN 0 ELSE team

\* Every value that is read, and every value that is left behind, is the one
\* of lexicographic Gauss-Seidel.
SweepsAreGaussSeidel == ReadsAreGaussSeidel /\ ResultComplete

\* A thread in level n of a sweep has all of level n - 1 behind it, and no
\* thread is more than a barrier ahead.  The two ends of a nowait differ.
InStep ==
  \A t, u \in Team :
    phase[t] > phase[u] =>
      \/ phase[t] = phase[u] + 1 /\ at[u] = "barrier"
      \/ phase[u] = 0 /\ kernel.nowait /\ phase[t] = 1

\* The threads stay within their shares and within a barrier of each other.
Disciplined == TypeOK /\ InStep

\* No thread waits forever at a barrier: the region ends.
Terminates == <>Finished
==============================================================================
