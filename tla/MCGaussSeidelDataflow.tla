------------------------ MODULE MCGaussSeidelDataflow ------------------------
(* Model-checks the dataflow on every addressing of NCells cells, cyclic ones *)
(* included (their sweeps stall), and on double faces.                        *)
EXTENDS GaussSeidelDataflow, MCMeshes

MeshFamily == AnyMeshes(NCells) \cup MultiMeshes(NCells, 2)

MCMeshSet == MeshFamily
==============================================================================
