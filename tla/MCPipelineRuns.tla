-------------------------- MODULE MCPipelineRuns --------------------------
(* Instances of PipelineRuns for TLC. *)
EXTENDS PipelineRuns, TLC

\* Workers only differ by name.
WorkerSymmetry == Permutations(Workers)
===========================================================================
