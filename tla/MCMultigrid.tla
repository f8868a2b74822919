----------------------------- MODULE MCMultigrid -----------------------------
(***************************************************************************)
(* Matrices and controls for the two multigrid solvers: chains of five and *)
(* eight cells (three and four levels), a mesh with double faces, and one  *)
(* whose coarsest matrix is singular.                                      *)
(***************************************************************************)
EXTENDS MCMeshes

Chain(n) == MeshOf({<<i, i + 1, 1>> : i \in 0 .. n - 2})
Ring == MeshOf({<<0, 1, 1>>, <<0, 2, 1>>, <<0, 2, 2>>, <<1, 3, 1>>, <<2, 3, 1>>, <<2, 4, 1>>})

Patterned(n, mesh, diag, coeff) ==
  [n |-> n, lower |-> mesh.lower, upper |-> mesh.upper,
   diag |-> [c \in 0 .. n - 1 |-> diag[(c % Len(diag)) + 1]],
   coeff |-> [f \in DOMAIN mesh.lower |-> coeff[(f % Len(coeff)) + 1]]]

\* every row adds up to zero
Neumann ==
  [n |-> 5, lower |-> Chain(5).lower, upper |-> Chain(5).upper,
   diag |-> [c \in 0 .. 4 |-> IF c \in {0, 4} THEN 1 ELSE 2],
   coeff |-> [f \in 1 .. 4 |-> -1]]

NoPre == [maxLevels |-> 4, nCellsInCoarsestLevel |-> 1,
          nPreSweeps |-> 0, preSweepsLevelMultiplier |-> 1, maxPreSweeps |-> 4,
          nPostSweeps |-> 2, postSweepsLevelMultiplier |-> 1, maxPostSweeps |-> 2,
          nFinestSweeps |-> 2, scaleCorrection |-> TRUE, relative |-> TRUE,
          minIterations |-> 0, maxIterations |-> 2]

Bare == [NoPre EXCEPT !.nPostSweeps = 0, !.postSweepsLevelMultiplier = 0,
                      !.nFinestSweeps = 0, !.scaleCorrection = FALSE]
==============================================================================
