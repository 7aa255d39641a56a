----------------------------- MODULE MCWorkflow -----------------------------
(* An instance of Workflow for TLC: a step that must not be repeated, a      *)
(* conditional one that may be, and a last one that depends on both.         *)
EXTENDS Workflow

MCDependsOn == [s \in Steps |-> IF s = StepCount THEN 1 .. StepCount - 1 ELSE {}]
MCMaxTries == [s \in Steps |-> 2]
=============================================================================
