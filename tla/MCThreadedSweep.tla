--------------------------- MODULE MCThreadedSweep ---------------------------
(* Model-checks the OpenMP kernels.  The threads never look at the faces, so *)
(* the addressing that joins all pairs of cells of different levels decides  *)
(* for all others with the same levels.                                      *)
EXTENDS ThreadedSweep, MCMeshes

\* every way to cut 0..NCells into levels
LevelCuts == {S \in SUBSET (0 .. NCells) : {0, NCells} \subseteq S}

\* all faces between different levels
CompleteMesh(cuts) ==
  MeshOf({<<p[1], p[2], 1>> :
            p \in {q \in UpperPairs(NCells) :
                     \E b \in cuts : q[1] < b /\ b <= q[2]}})

Identity == [i \in 1 .. NCells |-> i - 1] \o <<>>

\* a schedule whose rows are not in index order: 0 and 2, then 1 and 3
Permuted ==
  [mesh |-> MeshOf({<<0, 1, 1>>, <<0, 1, 2>>, <<2, 3, 1>>, <<0, 3, 1>>}),
   newToOld |-> <<2, 0, 1, 3>>,
   levelStarts |-> <<0, 2, 4>>]

ScheduleFamily ==
  {[mesh |-> CompleteMesh(cuts), newToOld |-> Identity,
    levelStarts |-> Ascending(cuts) \o <<>>] : cuts \in LevelCuts}
    \cup {Permuted}

MCMeshSet == {s.mesh : s \in ScheduleFamily}

MCSchedules == ScheduleFamily

CallsOf(shapes, blocks, twos, fulls, configured, counts) ==
  {[share |-> s.share, regions |-> s.regions, nowait |-> s.nowait,
    edges |-> s.edges, block |-> b, widthTwo |-> w, widthFull |-> f,
    configured |-> t, nSweeps |-> n] :
     s \in shapes, b \in blocks, w \in twos, f \in fulls, t \in configured,
     n \in counts}

\* the adaptive divisions are planned for 1 to 3 threads, whatever the team
MCKernels ==
  CallsOf({Persistent, BlockedRowDegree, DirectCoefficient}, {1, 2}, {0}, {0}, {1}, {0, 2})
    \cup CallsOf({PerLevel, Hybrid}, {1}, {0}, {0}, {1}, {2})
    \cup CallsOf({AdaptiveBlocked, ThresholdBlocked}, {1, 2}, {2}, {3}, {1, 2, 3}, {2})
==============================================================================
