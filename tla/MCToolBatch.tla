----------------------------- MODULE MCToolBatch -----------------------------
(* An instance of ToolBatch for TLC: more calls than may run at once, so    *)
(* the ceiling, a full batch and a call waiting for its turn all occur.     *)
EXTENDS ToolBatch

ASSUME CeilingMatters == MaxParallel < N
=============================================================================
