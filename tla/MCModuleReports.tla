-------------------------- MODULE MCModuleReports --------------------------
(***************************************************************************)
(* Instances of ModuleReports for TLC: both reports name the object of r1, *)
(* which the collector of r2 may take as well as its own.                  *)
(***************************************************************************)
EXTENDS ModuleReports, TLC

CONSTANTS r1, r2, p1, p2, n1, n2

TwoRuns    == {r1, r2}
TwoReports == {p1, p2}
OneReport  == {p1}
TwoNames   == {n1, n2}
OwnNames   == (r1 :> n1) @@ (r2 :> n2)
ForFirst   == [p \in Reports |-> n1]
=============================================================================
