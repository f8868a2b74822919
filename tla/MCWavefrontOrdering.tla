------------------------- MODULE MCWavefrontOrdering -------------------------
(* Model-checks the abstract builder on every addressing of three cells,   *)
(* cyclic ones included.                                                    *)
EXTENDS WavefrontOrdering, MCMeshes

MCMeshSet == AnyMeshes(3)
===============================================================================
