----------------------------- MODULE MCPipeline -----------------------------
(* Pipeline with model values.                                             *)
EXTENDS Pipeline, TLC

RunSymmetry == Permutations(Runs)
RequestSymmetry == Permutations(Callers)
BothSymmetry == RunSymmetry \cup RequestSymmetry
=============================================================================
