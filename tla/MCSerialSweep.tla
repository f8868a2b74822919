---------------------------- MODULE MCSerialSweep ----------------------------
(***************************************************************************)
(* 18 cells: enough for levels of more than eight rows, and for rows of    *)
(* six entries.                                                            *)
(***************************************************************************)
EXTENDS SerialSweep

MCCells == 0 .. 17

\* the addressing with the faces of the pairs, grouped by owner; the faces of
\* an odd owner run from high to low neighbours
Grouped(pairs) ==
  LET Earlier(p, q) ==
        \/ p[1] < q[1]
        \/ p[1] = q[1] /\ (IF p[1] % 2 = 0 THEN p[2] < q[2] ELSE p[2] > q[2])
        \/ p[1] = q[1] /\ p[2] = q[2] /\ p[3] < q[3]
      faces == Arrange(pairs, Earlier)
  IN  [lower |-> [i \in DOMAIN faces |-> faces[i][1]],
       upper |-> [i \in DOMAIN faces |-> faces[i][2]]]

Depth(m) ==
  LET depth[c \in MCCells] ==
        IF IncomingFaces(m, c) = {} THEN 0
        ELSE LET owners == {depth[m.lower[f]] : f \in IncomingFaces(m, c)}
             IN  1 + CHOOSE d \in owners : \A e \in owners : e <= d
  IN  [c \in MCCells |-> depth[c]]

\* two levels of nine rows of six entries
Wide == Grouped({<<i, 9 + ((i + k) % 9), 1>> : i \in 0 .. 8, k \in 0 .. 5})

\* many levels, uneven rows, double faces, long and short jumps
Uneven ==
  Grouped({<<c, c + 3, 1>> : c \in {0, 1, 2, 5, 6, 9, 11, 14}}
     \cup {<<c, c + 7, 1>> : c \in {0, 2, 3, 7, 8, 10}}
     \cup {<<c, 17 - (c \div 2), 1>> : c \in 0 .. 6}
     \cup {<<0, 3, 2>>, <<2, 9, 2>>, <<4, 5, 1>>})

MCMeshes == {Wide, Uneven}
MCMatrices ==
  {[mesh |-> m, levels |-> Depth(m), x |-> [c \in MCCells |-> (7 * c) % 5]] : m \in MCMeshes}

MCCalls ==
  {[kernel |-> k, arrangement |-> "cells", nSweeps |-> n, rowDistance |-> 2] :
     k \in Kernels, n \in {1, 3}}
  \cup {[kernel |-> Gather, arrangement |-> a, nSweeps |-> 2, rowDistance |-> 0] :
     a \in {"xSorted", "median", "locality"}}
  \cup {[kernel |-> GatherPrefetch, arrangement |-> "cells", nSweeps |-> 1, rowDistance |-> d] :
     d \in {0, 17, 18, 20}}
  \cup {[kernel |-> k, arrangement |-> "cells", nSweeps |-> n, rowDistance |-> 0] :
     k \in {ReorderedPsi, RowDegree, SymGaussSeidel}, n \in {0, 2}}

MCWidths ==
  {[int16Min |-> -4, int16Max |-> 3, byteSize |-> 3, maxDegree |-> 6],
   [int16Min |-> -8, int16Max |-> 7, byteSize |-> 2, maxDegree |-> 5]}
==============================================================================
