------------------------------- MODULE MCMeshes -------------------------------
(***************************************************************************)
(* Families of small LDU addressings for the model-checking modules.  An   *)
(* addressing is built from a set of edges <<owner, upper, copy>>; "copy"  *)
(* tells apart two faces that join the same cells.  Faces are listed       *)
(* grouped by owner, as every reader of the repository produces them.      *)
(***************************************************************************)
EXTENDS Integers, Sequences, FiniteSets

FaceBefore(a, b) ==
  \/ a[1] < b[1]
  \/ a[1] = b[1] /\ a[2] < b[2]
  \/ a[1] = b[1] /\ a[2] = b[2] /\ a[3] < b[3]

MeshOf(edges) ==
  LET size == Cardinality(edges)
      \* Appending <<>> makes TLC compute the sequence once, as a tuple.
      faces == [i \in 1 .. size |->
                  CHOOSE e \in edges :
                    Cardinality({d \in edges : FaceBefore(d, e)}) = i - 1] \o <<>>
  IN  [lower |-> [f \in 1 .. size |-> faces[f][1]] \o <<>>,
       upper |-> [f \in 1 .. size |-> faces[f][2]] \o <<>>]

UpperPairs(n) == {p \in (0 .. n - 1) \X (0 .. n - 1) : p[1] < p[2]}

\* all upper-triangular addressings of n cells without double faces
SimpleMeshes(n) ==
  {MeshOf({<<p[1], p[2], 1>> : p \in E}) : E \in SUBSET UpperPairs(n)}

\* all upper-triangular addressings of n cells, up to k faces per pair
MultiMeshes(n, k) ==
  {MeshOf({e \in (0 .. n - 1) \X (0 .. n - 1) \X (1 .. k) :
             e[1] < e[2] /\ e[3] <= m[<<e[1], e[2]>>]}) :
     m \in [UpperPairs(n) -> 0 .. k]}

\* all owner-grouped addressings of n cells, cyclic ones and self loops too
AnyMeshes(n) ==
  {MeshOf({<<p[1], p[2], 1>> : p \in E}) :
     E \in SUBSET ((0 .. n - 1) \X (0 .. n - 1))}
===============================================================================
