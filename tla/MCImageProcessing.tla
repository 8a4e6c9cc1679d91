------------------------- MODULE MCImageProcessing -------------------------
(***************************************************************************)
(* Small instances of ImageProcessing for TLC.  Runs r1 and r2 have the    *)
(* same IUid[0:5], which no check of the controller excludes; r3 differs.  *)
(* The runs are told apart by these names, so no symmetry is declared.     *)
(***************************************************************************)
EXTENDS ImageProcessing, TLC

CONSTANTS r1, r2, r3, p, q, a, b

TwoRuns      == {r1, r2}
OtherRuns    == {r1, r3}
ThreeRuns    == {r1, r2, r3}
Prefixes     == [r \in Runs |-> IF r = r3 THEN q ELSE p]
TwoModules   == (0 :> a) @@ (1 :> b)
SameModules  == (0 :> a) @@ (1 :> a)
NobodyShort  == {}
ThirdIsShort == {r3}
=============================================================================
