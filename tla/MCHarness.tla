----------------------------- MODULE MCHarness ------------------------------
(***************************************************************************)
(* Small packs for TLC.  In the larger one s1 touches both namespaces, s2  *)
(* the second, and s3 is a control; the first namespace exists before the  *)
(* run, and the arena check does not look for the third fault's objects.   *)
(***************************************************************************)
EXTENDS Harness

CONSTANTS s1, s2, s3

ThreeScenarios == {s1, s2, s3}
OneScenario    == {s1}
TwoNamespaces  == 1 .. 2
ThreeFaults    == 1 .. 3
Only1          == {1}
OnlyS2         == {s2}
AllButThird    == Faults \ {3}
None           == {}

Owner  == [f \in Faults |-> IF f <= 2 THEN s1 ELSE s2]
Target == [f \in Faults |-> IF f = 1 THEN 1 ELSE 2]
=============================================================================
