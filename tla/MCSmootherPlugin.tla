--------------------------- MODULE MCSmootherPlugin ---------------------------
(***************************************************************************)
(* Fine meshes of five cells, one of them with a cell of too high a        *)
(* degree, coarse meshes of two and three cells; fields modulo 101.        *)
(***************************************************************************)
EXTENDS SmootherPlugin, MCMeshes

Addressing(n, edges) ==
  LET mesh == MeshOf(edges) IN [n |-> n, lower |-> mesh.lower, upper |-> mesh.upper]

MCFine ==
  {Addressing(5, {<<0, 2, 1>>, <<0, 4, 1>>, <<1, 2, 1>>, <<2, 3, 1>>, <<2, 3, 2>>}),
   Addressing(5, {<<0, 3, 1>>, <<0, 4, 1>>, <<1, 3, 1>>, <<1, 4, 1>>, <<2, 4, 1>>}),
   Addressing(5, {<<0, c, k>> : c \in 1 .. 4, k \in 1 .. 2})}

MCCoarse == {Addressing(2, {<<0, 1, 1>>}), Addressing(3, {<<0, 2, 1>>, <<1, 2, 1>>})}

MCPatterns ==
  {[diag |-> [c \in 0 .. 4 |-> 7 + c], lower |-> [f \in 1 .. 8 |-> f], upper |-> [f \in 1 .. 8 |-> f],
    coupling |-> 0],
   [diag |-> [c \in 0 .. 4 |-> 9 - c], lower |-> [f \in 1 .. 8 |-> 2 * f],
    upper |-> [f \in 1 .. 8 |-> f + 3], coupling |-> 4]}

MCControls ==
  {[kind |-> k, width |-> w, minCells |-> 0] : k \in {"indexKahn", "indexKahnDirect"}, w \in {1, 2}}
  \cup {[kind |-> k, width |-> 2, minCells |-> 3] : k \in {"indexKahn", "indexKahnDirect"}}
  \cup {[kind |-> "indexKahn", width |-> 0, minCells |-> 9],
        [kind |-> "indexKahnDirect", width |-> 1, minCells |-> -1]}
===============================================================================
