----------------------------- MODULE MCPipeline -----------------------------
(* Model values and symmetry for the runs of Pipeline.                     *)
EXTENDS Pipeline, TLC

CONSTANTS a1, a2, a3, a4, v1, w1, w2

Symmetry == Permutations(AcarsMsg) \cup Permutations(Worker)
=============================================================================
