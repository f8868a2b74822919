------------------------------ MODULE MCFwSolver ------------------------------
(***************************************************************************)
(* Meshes whose rows have several forward orders, a chain of four levels   *)
(* and a singular one; every traversal and every fusion, with and without  *)
(* renumbered coarse cells and with natural rows.                          *)
(***************************************************************************)
EXTENDS FwSolver, MCMultigrid

\* two rows of three cells
Grid == MeshOf({<<0, 1, 1>>, <<0, 3, 1>>, <<1, 2, 1>>, <<1, 4, 1>>,
                <<2, 5, 1>>, <<3, 4, 1>>, <<4, 5, 1>>})

MCMatrices ==
  {Patterned(5, Ring, <<9, 8, 11>>, <<-1, -2>>),
   Patterned(6, Grid, <<7, 9, 8, 10>>, <<-1, -3, -2>>),
   Patterned(8, Chain(8), <<7, 5, 9>>, <<-1, -2, -1>>),
   Neumann}

MCControls ==
  {NoPre, Bare,
   [NoPre EXCEPT !.nPreSweeps = 1, !.nFinestSweeps = 1, !.minIterations = 1],
   [NoPre EXCEPT !.maxIterations = 0]}

StartsOf(m) ==
  LET some == [c \in 0 .. m.n - 1 |-> (3 * c * c + 5) % P]
      other == [c \in 0 .. m.n - 1 |-> (7 * c + 2) % P]
  IN  {[psi |-> ZeroField(m.n), source |-> some], [psi |-> other, source |-> some]}

MCStarts == UNION {StartsOf(m) : m \in MCMatrices}

Default == [width |-> 1, rowOrdering |-> "IndexKahn", coarseRenumbering |-> "None",
            spmvTraversal |-> "RowWise", finestSpmvFusion |-> "None"]

Traversals ==
  {"RowWise", "FlatEdgeWise", "DirectFlatEdgeWise", "NativeFaceOrderDirectFlatEdgeWise"}
Fusions ==
  {"IncomingHeld", "DeltaCorrection", "DeltaCorrectionCurrent", "DeltaCorrectionEdgeRows",
   "DeltaCorrectionPackedBaseline"}

Renumberings == {"None", "MinimumFineIndex"}

\* the options under which coarse cells keep their numbers
Unnumbered ==
  UNION {{[Default EXCEPT !.spmvTraversal = t] : t \in Traversals},
         {[Default EXCEPT !.finestSpmvFusion = f] : f \in Fusions},
         {[Default EXCEPT !.rowOrdering = "Natural", !.width = w,
                          !.finestSpmvFusion = "DeltaCorrection"] : w \in {0, 1}},
         {[Default EXCEPT !.width = 0]}}

MCOptions ==
  UNION {{[o EXCEPT !.coarseRenumbering = r] : o \in Unnumbered} : r \in Renumberings}
===============================================================================
