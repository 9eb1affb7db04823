------------------------- MODULE MCExecutionEngine -------------------------
(* ExecutionEngine with small sets of runs for TLC. *)
EXTENDS ExecutionEngine, TLC

RunSymmetry == Permutations(Runs)
=============================================================================
