------------------------------ MODULE MCIndexKahn ------------------------------
(* Model-checks the production builder on every upper-triangular addressing  *)
(* of NCells cells with at most two faces per pair of cells, and on every     *)
(* addressing, cyclic or not, that leaves all but three cells isolated.       *)
EXTENDS IndexKahn, MCMeshes

\* widths from the invalid 0 to one no ready set can fill
MCRequests ==
  [width : 0 .. NCells + 1, sized : {TRUE}] \cup [width : {2}, sized : {FALSE}]

\* TLC computes MeshFamily once, but what a cfg substitutes at every use.
MeshFamily == MultiMeshes(NCells, 2) \cup AnyMeshes(3)

MCMeshSet == MeshFamily
================================================================================
