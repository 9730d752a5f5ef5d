--------------------------- MODULE MCPipelineQueue ---------------------------
(* PipelineQueue for TLC: the callers of a drain and the repair jobs are     *)
(* interchangeable, which halves or quarters the safety runs.                *)
EXTENDS PipelineQueue, TLC

Symmetry == Permutations(Drains) \cup Permutations(Healers)
=============================================================================
