---------------------------- MODULE LduAddressing ----------------------------
(***************************************************************************)
(* The lower/diagonal/upper (LDU) matrix addressing every builder and      *)
(* smoother of the repository works on: cells 0..NCells-1 and a list of    *)
(* internal faces, face f joining lowerAddr[f] (its owner) to              *)
(* upperAddr[f].  A face is an edge of the dependency graph, owner first.  *)
(* Two faces may join the same pair of cells.                              *)
(*                                                                         *)
(* ownerStarts, the CSR index of the owner-grouped face list, is           *)
(* represented by what it is used for: OwnedFaces.                         *)
(***************************************************************************)
EXTENDS Integers, Sequences, FiniteSets, Functions

CONSTANTS
  NCells,   \* number of cells (matrix rows)
  Meshes    \* the face lists considered: records [lower, upper]

Cells == 0 .. NCells - 1

ASSUME NCellsAssumption == NCells \in Nat

\* Every face joins two cells of the matrix.
IsAddressing(m) ==
  /\ m.lower \in Seq(Cells)
  /\ m.upper \in Seq(Cells)
  /\ Len(m.lower) = Len(m.upper)

ASSUME MeshesAssumption == \A m \in Meshes : IsAddressing(m)

Faces(m) == 1 .. Len(m.lower)

\* faces ownerStarts[cell] .. ownerStarts[cell+1]-1, over the cells of S
OwnedFaces(m, S) == {f \in Faces(m) : m.lower[f] \in S}

\* the faces whose upper cell is c (the losort group of c)
IncomingFaces(m, c) == {f \in Faces(m) : m.upper[f] = c}

\* What the mesh readers guarantee of every matrix they build.
UpperTriangular(m) == \A f \in Faces(m) : m.lower[f] < m.upper[f]

\* Some nonempty set of cells in which each cell waits for another one.
HasCycle(m) ==
  \E S \in SUBSET Cells :
    /\ S # {}
    /\ \A c \in S : \E f \in IncomingFaces(m, c) : m.lower[f] \in S

-----------------------------------------------------------------------------
(* An ordering: order lists cells row by row, starts the rows (0-based) at *)
(* which a level starts.                                                   *)

\* Every face has a level boundary between its two ends: level[owner] <
\* level[neighbour].  An upper cell has no row without its owners.
SeparatesLevels(m, order, starts) ==
  \A f \in Faces(m) : \A j \in DOMAIN order :
    order[j] = m.upper[f] =>
      \E i \in 1 .. j - 1 :
        /\ order[i] = m.lower[f]
        /\ \E b \in DOMAIN starts : i <= starts[b] /\ starts[b] < j

\* starts increases strictly from 0 to the number of rows
BracketsRows(order, starts) ==
  /\ starts # <<>>
  /\ starts[1] = 0
  /\ starts[Len(starts)] = Len(order)
  /\ \A a, b \in DOMAIN starts : a < b => starts[a] < starts[b]

-----------------------------------------------------------------------------
(* std::set<label> iterates in ascending order.  RankIn(S, c) is the       *)
(* position of c in that iteration and Ascending(S) the whole of it.  They *)
(* are written with Cardinality, not with the recursive SortSeq, so that   *)
(* proofs can use them.                                                    *)

RankIn(S, c) == Cardinality({d \in S : d < c})

Ascending(S) ==
  [i \in 1 .. Cardinality(S) |-> CHOOSE c \in S : RankIn(S, c) = i - 1]

AtMost(a, b) == IF a < b THEN a ELSE b

\* the first k elements of a sequence, or all of it when it is shorter
Take(s, k) == SubSeq(s, 1, AtMost(k, Len(s)))
=============================================================================
