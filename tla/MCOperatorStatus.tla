-------------------------- MODULE MCOperatorStatus --------------------------
(* Instances of OperatorStatus for TLC.                                   *)
EXTENDS OperatorStatus, TLC

CONSTANTS r1, r2

TwoRuns  == {r1, r2}
=============================================================================
