----------------------------- MODULE MCPipeline -----------------------------
(* Small instances of Pipeline for TLC. *)
EXTENDS Pipeline, TLC

\* Monitors, instances and job copies are interchangeable.
Symmetry == Permutations(Monitors) \cup Permutations(Instances) \cup Permutations(JobIds)
=============================================================================
