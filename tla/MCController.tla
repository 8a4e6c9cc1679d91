---------------------------- MODULE MCController ----------------------------
(* Instances of Controller for TLC: a scenario of one module.              *)
EXTENDS Controller, TLC

CONSTANTS r1, r2, p, q, a

SecondShort == {r2}
TwoRuns     == {r1, r2}
Prefixes    == [r \in Runs |-> IF r = r1 THEN p ELSE q]
OneModule   == 0 :> a
NoneShort   == {}
=============================================================================
