-------------------------- MODULE WavefrontOrdering --------------------------
(***************************************************************************)
(* What an Index-Kahn ordering builder promises, whatever its policy for   *)
(* choosing and cutting chunks: it appends cells whose owners have all     *)
(* been appended before, groups them into levels no face lies inside of,   *)
(* and either returns an ordering of all cells or reports that it cannot.  *)
(* Which cells a step takes, in what order and into how many levels it     *)
(* cuts them is left open.                                                 *)
(***************************************************************************)
EXTENDS LduAddressing

VARIABLES
  mesh,         \* the addressing passed to the builder
  newToOld,     \* result.newToOld: the cells in execution order
  levelStarts,  \* result.levelStarts: rows at which a level starts (0-based)
  status        \* how far the call is

vars == <<mesh, newToOld, levelStarts, status>>

Statuses == {"called", "building", "returned", "rejected", "uncovered"}

Emitted == Range(newToOld)

\* Mutants of Available: one owner is enough; no check of what is appended.
AvailableAfterOneOwner ==
  {c \in Cells \ Emitted :
     \/ IncomingFaces(mesh, c) = {}
     \/ \E f \in IncomingFaces(mesh, c) : mesh.lower[f] \in Emitted}

AvailableAgain ==
  {c \in Cells : \A f \in IncomingFaces(mesh, c) : mesh.lower[f] \in Emitted}

\* the cells that may go into the next level
Available ==
  {c \in Cells \ Emitted :
     \A f \in IncomingFaces(mesh, c) : mesh.lower[f] \in Emitted}

\* nonempty orderings of some of the available cells
Chunks ==
  {s \in UNION {[1 .. k -> Available] : k \in 1 .. NCells} : IsInjective(s)}

\* cuts: where levels end, the last of them at the end of the n new rows
IsCutting(cuts, first, n) ==
  /\ cuts # <<>>
  /\ \A i \in DOMAIN cuts : cuts[i] \in first + 1 .. first + n
  /\ \A i, j \in DOMAIN cuts : i < j => cuts[i] < cuts[j]
  /\ cuts[Len(cuts)] = first + n

Cuttings(first, n) ==
  {cuts \in UNION {[1 .. k -> first + 1 .. first + n] : k \in 1 .. n} :
     IsCutting(cuts, first, n)}

Init ==
  /\ mesh \in Meshes
  /\ newToOld = <<>>
  /\ levelStarts = <<>>
  /\ status = "called"

\* the arguments are refused before anything is built
Reject ==
  /\ status = "called"
  /\ status' = "rejected"
  /\ UNCHANGED <<mesh, newToOld, levelStarts>>

Accept ==
  /\ status = "called"
  /\ status' = "building"
  /\ levelStarts' = <<0>>
  /\ UNCHANGED <<mesh, newToOld>>

EmitLevels(chunk, cuts) ==
  /\ status = "building"
  /\ newToOld' = newToOld \o chunk
  /\ levelStarts' = levelStarts \o cuts
  /\ UNCHANGED <<mesh, status>>

Return ==
  /\ status = "building"
  /\ Emitted = Cells
  /\ status' = "returned"
  /\ UNCHANGED <<mesh, newToOld, levelStarts>>

\* Mutant: the exception is raised while cells are still available.
UncoveredEarly ==
  /\ status = "building"
  /\ Emitted # Cells
  /\ status' = "uncovered"
  /\ UNCHANGED <<mesh, newToOld, levelStarts>>

\* no cell is left that could be appended, yet some were not
Uncovered ==
  /\ status = "building"
  /\ Available = {}
  /\ Emitted # Cells
  /\ status' = "uncovered"
  /\ UNCHANGED <<mesh, newToOld, levelStarts>>

Next ==
  \/ Reject
  \/ Accept
  \/ \E chunk \in Chunks :
       \E cuts \in Cuttings(Len(newToOld), Len(chunk)) : EmitLevels(chunk, cuts)
  \/ Return
  \/ Uncovered

Spec == Init /\ [][Next]_vars
-----------------------------------------------------------------------------
(* The promises. *)

TypeOK ==
  /\ IsAddressing(mesh)
  /\ newToOld \in Seq(Cells)
  /\ levelStarts \in Seq(0 .. NCells)
  /\ status \in Statuses

\* Cells of one level never depend on each other, dependencies point to
\* earlier levels, and an upper cell never has a row before its owners do.
LevelsSeparated == SeparatesLevels(mesh, newToOld, levelStarts)

\* No cell is given two rows, and an ordering that is returned has them all.
EachCellOnce ==
  /\ IsInjective(newToOld)
  /\ status = "returned" => Emitted = Cells

\* levelStarts brackets the rows, while building and in the result.
LevelsBracketRows ==
  status \in {"building", "returned", "uncovered"} =>
    BracketsRows(newToOld, levelStarts)

\* The "did not cover all cells" exception means the addressing is cyclic...
UncoveredOnlyOnCycle == status = "uncovered" => HasCycle(mesh)

\* ...and a cyclic addressing is never given an ordering.
NoOrderOnCycle == status = "returned" => ~HasCycle(mesh)

\* so on the addressing of a mesh the builder always covers every cell.
MeshesAreCovered == UpperTriangular(mesh) => status # "uncovered"

\* The lists are well formed at every moment: rows are cells, none twice, none
\* missing at the end, and the levels bracket them.
WellFormed == TypeOK /\ EachCellOnce /\ LevelsBracketRows

\* An addressing is refused exactly when it has a dependency cycle, and the
\* addressing of a mesh never is.
RefusesExactlyCycles == UncoveredOnlyOnCycle /\ NoOrderOnCycle /\ MeshesAreCovered

=============================================================================
