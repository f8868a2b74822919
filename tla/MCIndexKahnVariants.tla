-------------------------- MODULE MCIndexKahnVariants --------------------------
(* Model-checks the experimental builders on every upper-triangular addressing *)
(* of NCells cells without double faces, and on every addressing, cyclic or    *)
(* not, that has no self loop and leaves all but three cells isolated.         *)
EXTENDS IndexKahnVariants, MCMeshes

\* TLC computes MeshFamily once, but what a cfg substitutes at every use.
MeshFamily ==
  SimpleMeshes(NCells)
    \cup {m \in AnyMeshes(3) : \A f \in DOMAIN m.lower : m.lower[f] # m.upper[f]}

MCMeshSet == MeshFamily

Call(builders, widths, steps, leasts, mosts) ==
  [builder : builders, width : widths, step : steps, least : leasts,
   most : mosts, sized : {TRUE}]

\* every builder with controls on both sides of what it accepts; TLC computes
\* this once as well
CallFamily ==
  Call({"releaseDiagnostic", "oriented", "sliced", "continuing",
        "frontierContinuing"}, {0, 2, 3}, {0}, {0}, {0})
    \cup Call({"continuing"}, {1}, {0}, {0}, {0})
    \cup Call({"unbounded"}, {0}, {0}, {0}, {0})
    \cup Call({"slidingWindow"}, {2}, {0, 1, 2, 3}, {0}, {0})
    \cup Call({"slidingWindow"}, {3}, {2, 3}, {0}, {0})
    \cup Call({"adaptiveGap"}, {2}, {0}, {0, 1, 2}, {1, 2, 3})
    \cup Call({"readyFraction"}, {0, 1, 2}, {0}, {0}, {0})
    \cup [builder : {"unbounded", "sliced"}, width : {1}, step : {0},
          least : {0}, most : {0}, sized : {FALSE}]

MCRequests == CallFamily
================================================================================
