------------------------------- MODULE MCJobs -------------------------------
(* An instance of Jobs for TLC: the inbox holds less than the jobs have to  *)
(* say, so that notices are refused, retained and recovered.                *)
EXTENDS Jobs

ASSUME CapacityMatters == MaxPending <= MaxAdmissions
=============================================================================
