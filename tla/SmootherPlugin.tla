---------------------------- MODULE SmootherPlugin ----------------------------
(***************************************************************************)
(* The OpenFOAM plugin: smoothers that live for one solve of a linear      *)
(* system and take their schedule from a cache that belongs to the mesh,   *)
(* and lives for as long as its topology.  A solve has a matrix on the     *)
(* fvMesh and one on a coarse mesh of GAMG (an lduPrimitiveMesh).          *)
(*                                                                         *)
(* Fields are taken modulo P (module MultigridKernels).  A matrix has a    *)
(* coefficient on either side of each face, and couplings: what a coupled  *)
(* patch subtracts from the source of a cell before a sweep.               *)
(***************************************************************************)
EXTENDS MultigridKernels

CONSTANTS
  FineAddressings, CoarseAddressings,   \* records [n, lower, upper]
  Patterns,     \* records [diag, lower, upper, coupling]: functions of cells or faces
  Controls,     \* smoother dictionaries: records [kind, width, minCells]
  MaxSmooths,   \* bound: calls of smooth on one smoother
  MaxSweeps,    \* bound: sweeps one call is asked for
  MaxDegree     \* largest std::uint8_t

MeshObjects == {"fvMesh", "lduPrimitiveMesh"}

VARIABLES
  meshes,      \* per mesh: addr, and the schedules of its cache by width, if it has one
  matrices,    \* per mesh, during a solve
  smoothers,   \* those constructed, by mesh
  psi,         \* per mesh, during a solve
  smooths,     \* per mesh: calls of smooth
  stage       \* "idle", "solving", or "exited" after a FatalError

pluginVars == <<meshes, matrices, smoothers, psi, smooths, stage>>

\* tables from keys to values: the empty one, and one with another entry
NoEntries == [k \in {} |-> k]
Extended(table, key, value) ==
  [k \in DOMAIN table \cup {key} |-> IF k = key THEN value ELSE table[k]]

NewMesh(addr) == [addr |-> addr, cached |-> FALSE, schedules |-> NoEntries]

PluginInit ==
  /\ \E fine \in FineAddressings, coarse \in CoarseAddressings :
       meshes = [mesh \in MeshObjects |-> NewMesh(IF mesh = "fvMesh" THEN fine ELSE coarse)]
  /\ matrices = NoEntries /\ smoothers = NoEntries /\ psi = NoEntries /\ smooths = NoEntries
  /\ stage = "idle"

-----------------------------------------------------------------------------
(* buildIndexKahnSchedule *)

FacesInto(addr, c) == SelectSeq(FacesAt(addr), LAMBDA f : addr.upper[f] = c)
OutgoingFaces(addr, c) == SelectSeq(FacesAt(addr), LAMBDA f : addr.lower[f] = c)
Degree(addr, c) == Len(FacesInto(addr, c)) + Len(OutgoingFaces(addr, c))

\* "Index-Kahn requires lowerAddr[face] < upperAddr[face]",
\* "... which does not fit uint8_t"
Unschedulable(addr) ==
  \/ \E f \in 1 .. Len(addr.lower) : addr.lower[f] >= addr.upper[f]
  \/ \E c \in Index(addr) : Degree(addr, c) > MaxDegree

\* the ready cells, or the first width of them, become a level
NextLevel(addr, width, levels) ==
  LET done == ToSet(FlattenSeq(levels))
      ready == {c \in Index(addr) \ done :
                  \A f \in ToSet(FacesInto(addr, c)) : addr.lower[f] \in done}
  IN  SetToSortSeq({c \in ready : Cardinality({d \in ready : d < c}) < width}, <)

IndexKahnSchedule(addr, width) ==
  LET Grow(levels, i) == LET level == NextLevel(addr, width, levels)
                         IN  IF level = <<>> THEN levels ELSE Append(levels, level)
      waveCells == FlattenSeq(FoldLeft(Grow, <<>>, Upwards(addr.n)))
  IN  [width |-> width,
       rows |-> [row \in DOMAIN waveCells |->
                   [cell |-> waveCells[row],
                    incoming |-> FacesInto(addr, waveCells[row]),
                    outgoing |-> OutgoingFaces(addr, waveCells[row])]]]

-----------------------------------------------------------------------------
(* IndexKahnScheduleCache *)

\* New and getOrCreate: afterwards the mesh has a cache with that schedule
GetOrCreate(mesh, width) ==
  [addr |-> mesh.addr,
   cached |-> TRUE,
   schedules |-> IF width \in DOMAIN mesh.schedules
                   THEN mesh.schedules
                   ELSE Extended(mesh.schedules, width, IndexKahnSchedule(mesh.addr, width))]

\* Mutant: an UpdateableMeshObject is told of the new topology and kept.
AfterTopologyChangeUpdated(mesh, addr) == [mesh EXCEPT !.addr = addr]

\* IndexKahnFvMeshCache is a TopologicalMeshObject of its mesh: deleted
AfterTopologyChange(mesh, addr) == NewMesh(addr)

-----------------------------------------------------------------------------
(* A solve: matrices, smoothers, sweeps. *)

MatrixOf(addr, p) ==
  [n |-> addr.n, lower |-> addr.lower, upper |-> addr.upper,
   diag |-> [c \in Index(addr) |-> p.diag[c]],
   lowerCoeff |-> [f \in 1 .. Len(addr.lower) |-> p.lower[f]],
   upperCoeff |-> [f \in 1 .. Len(addr.lower) |-> p.upper[f]],
   couplings |-> <<[cell |-> 0, from |-> addr.n - 1, coeff |-> p.coupling],
                   [cell |-> addr.n - 1, from |-> 0, coeff |-> p.coupling]>>]

BeginSolve ==
  /\ stage = "idle"
  /\ \E p \in Patterns :
       matrices' = [mesh \in MeshObjects |-> MatrixOf(meshes[mesh].addr, p)]
  /\ psi' = [mesh \in MeshObjects |-> [c \in Index(meshes[mesh].addr) |-> (2 * c + 1) % P]]
  /\ smooths' = [mesh \in MeshObjects |-> 0]
  /\ stage' = "solving"
  /\ UNCHANGED <<meshes, smoothers>>

Uses(mesh, c) == meshes[mesh].addr.n >= c.minCells

\* "width must be positive", "minCells must be non-negative", and the errors
\* of the schedule, which small meshes never ask for
RefusedControls(mesh, c) ==
  \/ c.width < 1
  \/ c.minCells < 0
  \/ /\ Uses(mesh, c)
     /\ c.width \notin DOMAIN meshes[mesh].schedules
     /\ Unschedulable(meshes[mesh].addr)

FatalError ==
  /\ stage = "solving"
  /\ \E mesh \in MeshObjects \ DOMAIN smoothers, c \in Controls : RefusedControls(mesh, c)
  /\ stage' = "exited"
  /\ UNCHANGED <<meshes, matrices, smoothers, psi, smooths>>

\* Mutant: all coefficients from above the diagonal.
PackUpperCoeffs(schedule, m) ==
  [row \in DOMAIN schedule.rows |->
     LET r == schedule.rows[row]
     IN  [i \in DOMAIN r.incoming |-> m.upperCoeff[r.incoming[i]]]
           \o [i \in DOMAIN r.outgoing |-> m.upperCoeff[r.outgoing[i]]]]

\* the coefficients of a row: lower ones for incoming faces, then upper ones
PackCoeffs(schedule, m) ==
  [row \in DOMAIN schedule.rows |->
     LET r == schedule.rows[row]
     IN  [i \in DOMAIN r.incoming |-> m.lowerCoeff[r.incoming[i]]]
           \o [i \in DOMAIN r.outgoing |-> m.upperCoeff[r.outgoing[i]]]]

\* schedule_ points into the cache; only indexKahn copies coefficients
ConstructSmoother ==
  /\ stage = "solving"
  /\ \E mesh \in MeshObjects \ DOMAIN smoothers, c \in Controls :
       LET cache == GetOrCreate(meshes[mesh], c.width)
           schedule == cache.schedules[c.width]
       IN  /\ ~RefusedControls(mesh, c)
           /\ meshes' = IF Uses(mesh, c) THEN [meshes EXCEPT ![mesh] = cache] ELSE meshes
           /\ smoothers' =
                Extended(smoothers, mesh,
                         [kind |-> c.kind, width |-> c.width, useIndexKahn |-> Uses(mesh, c),
                          coeffs |-> IF Uses(mesh, c) /\ c.kind = "indexKahn"
                                       THEN PackCoeffs(schedule, matrices[mesh])
                                       ELSE <<>>])
  /\ UNCHANGED <<matrices, psi, smooths, stage>>

\* initMatrixInterfaces and updateMatrixInterfaces
AfterInterfaces(m, source, x) ==
  [c \in Index(m) |->
     (source[c] - Total(LAMBDA i : m.couplings[i].coeff * x[m.couplings[i].from],
                        {i \in DOMAIN m.couplings : m.couplings[i].cell = c})) % P]

\* GaussSeidelSmoother::smooth
GaussSeidelSweep(m, source, x) ==
  LET Cell(s, c) ==
        LET owned == {f \in 1 .. Len(m.lower) : m.lower[f] = c}
            value == Over(s.bPrime[c] - Total(LAMBDA f : m.upperCoeff[f] * s.psi[m.upper[f]],
                                              owned), m.diag[c])
        IN  [psi |-> Table([s.psi EXCEPT ![c] = value]),
             bPrime |-> Table([d \in Index(m) |->
               (s.bPrime[d] - value * Total(LAMBDA f : m.lowerCoeff[f],
                                            {f \in owned : m.upper[f] = d})) % P])]
  IN  FoldLeft(Cell, [psi |-> x, bPrime |-> AfterInterfaces(m, source, x)], Upwards(m.n)).psi

\* smoothInternal
ScheduledSweep(schedule, coeffs, m, source, x) ==
  LET bPrime == AfterInterfaces(m, source, x)
      columns(r) == [i \in DOMAIN r.incoming |-> m.lower[r.incoming[i]]]
                      \o [i \in DOMAIN r.outgoing |-> m.upper[r.outgoing[i]]]
      Row(y, row) ==
        LET r == schedule.rows[row]
            cols == columns(r)
        IN  Table([y EXCEPT ![r.cell] =
              Over(bPrime[r.cell] - Total(LAMBDA i : coeffs[row][i] * y[cols[i]], DOMAIN cols),
                   m.diag[r.cell])])
  IN  FoldLeft(Row, x, [row \in DOMAIN schedule.rows |-> row])

Source(m) == [c \in Index(m) |-> (5 * c + 3) % P]

Sweep(mesh, x) ==
  LET s == smoothers[mesh]
      m == matrices[mesh]
      schedule == meshes[mesh].schedules[s.width]
      coeffs == IF s.kind = "indexKahn" THEN s.coeffs ELSE PackCoeffs(schedule, m)
  IN  IF s.useIndexKahn THEN ScheduledSweep(schedule, coeffs, m, Source(m), x)
                        ELSE GaussSeidelSweep(m, Source(m), x)

Smooth(mesh, nSweeps) ==
  /\ stage = "solving"
  /\ mesh \in DOMAIN smoothers
  /\ smooths[mesh] < MaxSmooths
  /\ psi' = [psi EXCEPT ![mesh] = FoldLeft(LAMBDA x, k : Sweep(mesh, x), @, Upwards(nSweeps))]
  /\ smooths' = [smooths EXCEPT ![mesh] = @ + 1]
  /\ UNCHANGED <<meshes, matrices, smoothers, stage>>

\* smoothers and matrices go out of scope
EndSolve ==
  /\ stage = "solving"
  /\ matrices' = NoEntries /\ smoothers' = NoEntries /\ psi' = NoEntries /\ smooths' = NoEntries
  /\ stage' = "idle"
  /\ UNCHANGED meshes

-----------------------------------------------------------------------------
(* What OpenFOAM does to the meshes between solves. *)

\* Mesh motion leaves the fvMesh and its topological objects alone.  The
\* coarse meshes are deleted, together with the caches they own.
Reagglomerate ==
  /\ stage = "idle"
  /\ \E coarse \in CoarseAddressings :
       meshes' = [meshes EXCEPT !["lduPrimitiveMesh"] = NewMesh(coarse)]
  /\ UNCHANGED <<matrices, smoothers, psi, smooths, stage>>

\* A change of topology deletes the topological objects of the fvMesh as well.
ChangeTopology ==
  /\ stage = "idle"
  /\ \E fine \in FineAddressings, coarse \in CoarseAddressings :
       meshes' = [mesh \in MeshObjects |->
                    IF mesh = "fvMesh" THEN AfterTopologyChange(meshes[mesh], fine)
                                       ELSE NewMesh(coarse)]
  /\ UNCHANGED <<matrices, smoothers, psi, smooths, stage>>

Exited == stage = "exited" /\ UNCHANGED pluginVars

PluginNext ==
  \/ BeginSolve \/ ConstructSmoother \/ FatalError
  \/ \E mesh \in MeshObjects, nSweeps \in 0 .. MaxSweeps : Smooth(mesh, nSweeps)
  \/ EndSolve \/ Reagglomerate \/ ChangeTopology \/ Exited

PluginSpec == PluginInit /\ [][PluginNext]_pluginVars
-----------------------------------------------------------------------------
(* Properties. *)

PluginTypeOK ==
  /\ \A mesh \in MeshObjects :
       /\ meshes[mesh].addr \in FineAddressings \cup CoarseAddressings
       /\ meshes[mesh].schedules # NoEntries => meshes[mesh].cached
  /\ DOMAIN smoothers \subseteq MeshObjects
  /\ stage \in {"idle", "solving", "exited"}
  /\ stage = "idle" => matrices = NoEntries /\ smoothers = NoEntries

\* A cached schedule is the one the present addressing of its mesh gives for
\* its width.
CacheCurrent ==
  \A mesh \in MeshObjects :
    \A width \in DOMAIN meshes[mesh].schedules :
      meshes[mesh].schedules[width] = IndexKahnSchedule(meshes[mesh].addr, width)

\* The schedule a smoother points to is there as long as the smoother is.
PointersValid ==
  \A mesh \in DOMAIN smoothers :
    smoothers[mesh].useIndexKahn => smoothers[mesh].width \in DOMAIN meshes[mesh].schedules

\* What smoothers find in the cache is what they would build themselves.
SchedulesCurrent == PluginTypeOK /\ CacheCurrent /\ PointersValid

\* Whichever smoother it is, with whatever width and cutoff, before and after
\* the meshes have changed: smooth makes as many sweeps of GaussSeidelSmoother
\* as it was asked for, with the coefficients of the present matrix.
SmoothsLikeGaussSeidel ==
  [][\A mesh \in MeshObjects, nSweeps \in 0 .. MaxSweeps :
       Smooth(mesh, nSweeps) =>
         /\ psi'[mesh] \in FieldOf(meshes[mesh].addr)
         /\ psi'[mesh] =
              FoldLeft(LAMBDA x, k : GaussSeidelSweep(matrices[mesh], Source(matrices[mesh]), x),
                       psi[mesh], Upwards(nSweeps))]_pluginVars
================================================================================
