----------------------------- MODULE MCGAMGSolver -----------------------------
(***************************************************************************)
(* Many small matrices for the agglomeration; of these, those of three,    *)
(* five and eight cells are also solved, since there are fields of their   *)
(* size.  Fields are taken modulo 101.  They are zero, two others, and     *)
(* exact solutions; a solver also meets those of another size.             *)
(***************************************************************************)
EXTENDS GAMGSolver, MCMultigrid

\* matrices with cyclic patterns of coefficients; the diagonal tells cells apart
Agglomerated(n, meshes, patterns) ==
  {Patterned(n, mesh, [i \in 1 .. n |-> 2 ^ (i + 2)], p) : mesh \in meshes, p \in patterns}

\* a grid of 2 x 3 cells with one diagonal, and everything inside it
GridMeshes ==
  {MeshOf(E) : E \in SUBSET {<<0, 1, 1>>, <<0, 2, 1>>, <<1, 3, 1>>, <<2, 3, 1>>,
                             <<2, 4, 1>>, <<3, 5, 1>>, <<4, 5, 1>>, <<0, 3, 1>>}}

\* every choice of n weights
Weights(n) == [1 .. n -> {-2, -1}]

Solved ==
  {Patterned(8, Chain(8), <<7, 5, 9>>, <<-1, -2, -1>>),
   Patterned(5, Chain(5), <<7, 5>>, <<-2, -1>>),
   Patterned(5, Ring, <<9, 8, 11>>, <<-1, -2>>),
   Neumann}
  \cup {Patterned(3, mesh, <<8, 9, 7>>, <<-1, -2>>) : mesh \in MultiMeshes(3, 2)}

MCMatrices ==
  UNION {
    Solved,
    Agglomerated(4, SimpleMeshes(4), Weights(6)),
    Agglomerated(6, GridMeshes, {<<-1>>, <<-1, -2, -1>>, <<-2, -1>>, <<1, -3, -2, -1>>}),
    Agglomerated(7, {Chain(7)}, Weights(6))}

MCControls ==
  {NoPre, Bare,
   [NoPre EXCEPT !.nPreSweeps = 1, !.minIterations = 1],
   [NoPre EXCEPT !.nPreSweeps = 1, !.maxPreSweeps = 1, !.relative = FALSE],
   [NoPre EXCEPT !.nPreSweeps = 1, !.scaleCorrection = FALSE, !.maxLevels = 3],
   [Bare EXCEPT !.maxLevels = 2, !.minIterations = 3],
   [Bare EXCEPT !.nPreSweeps = 1, !.preSweepsLevelMultiplier = 1],
   [NoPre EXCEPT !.maxIterations = 0],
   [NoPre EXCEPT !.nCellsInCoarsestLevel = 3],
   [NoPre EXCEPT !.maxLevels = 1],
   [NoPre EXCEPT !.maxLevels = 0]}

StartsOf(n) ==
  LET some == [c \in 0 .. n - 1 |-> (3 * c * c + 5) % P]
      other == [c \in 0 .. n - 1 |-> (7 * c + 2) % P]
  IN  {[psi |-> ZeroField(n), source |-> some], [psi |-> other, source |-> some]}
        \cup {[psi |-> other, source |-> Times(m, other)] : m \in {x \in Solved : x.n = n /\ n > 3}}

MCStarts == UNION {StartsOf(n) : n \in {3, 5, 8}}
===============================================================================
