-------------------------- MODULE MCBenchmarkRunner --------------------------
(***************************************************************************)
(* Instances of BenchmarkRunner: a few runner processes, one after another *)
(* or at the same time, on one output directory.                           *)
(***************************************************************************)
EXTENDS BenchmarkRunner, TLC

\* Runners, fingerprints and tasks are interchangeable.
Interchangeable ==
    Permutations(Runners) \cup Permutations(Fingerprints) \cup Permutations(Tasks)
=============================================================================
